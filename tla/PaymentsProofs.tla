--------------------------- MODULE PaymentsProofs ---------------------------
(***************************************************************************)
(* Theorems about Payments, for any number of calls, any inputs, any rules *)
(* and any number of attempts.                                             *)
(*                                                                         *)
(* The argument is one inductive invariant, Inv of Payments.  The          *)
(* properties of the tables are not inductive by themselves: that a commit *)
(* keeps them depends on where the call is (CreateInv, RefundInv), and     *)
(* that two commits do not collide depends on what the unique indexes and  *)
(* the row locks exclude (Exclusion).  There is one lemma for each action, *)
(* with one step for each part of Inv.                                     *)
(***************************************************************************)
EXTENDS Payments, TLAPS

PCs == Ends \cup CreatePCs \cup RefundPCs

Writes == {"none", "success", "failed", "refunded"}

Transactions == [row : Writes, event : Writes, refund : BOOLEAN]

\* The types of what Goto, WriteTx and Return change.
ControlOK ==
    /\ pc \in [Calls -> PCs]
    /\ reply \in [Calls -> Replies]
    /\ tx \in [Calls -> Transactions]

-----------------------------------------------------------------------------
(* The ways a step ends keep the types.                                    *)

\* Goto keeps the types of pc, reply and tx.
LEMMA GotoOK ==
    ASSUME TypeOK, NEW c \in Calls, NEW l \in PCs, Goto(c, l)
    PROVE  ControlOK'
BY DEF TypeOK, Goto, ControlOK, PCs, Transactions, Writes

\* WriteTx keeps the types of pc, reply and tx.
LEMMA WriteTxOK ==
    ASSUME TypeOK, NEW c \in Calls, NEW l \in PCs, NEW t \in Transactions,
           WriteTx(c, l, t)
    PROVE  ControlOK'
BY DEF TypeOK, WriteTx, ControlOK, PCs, Transactions, Writes

\* Return keeps the types of pc, reply and tx.
LEMMA ReturnOK ==
    ASSUME TypeOK, NEW c \in Calls, NEW v \in Replies, Return(c, v)
    PROVE  ControlOK'
<1>1. NoTx \in Transactions
  BY DEF NoTx, Transactions, Writes
<1>2. "done" \in PCs
  BY DEF PCs, Ends
<1> QED
  BY <1>1, <1>2 DEF TypeOK, Return, ControlOK, PCs, Transactions, Writes

\* With the control typed, TypeOK needs only the other variables.
LEMMA TypeFromControl ==
    ASSUME ControlOK',
           req' \in [Calls -> CreateInputs \cup RefundInputs \cup {NoRequest}],
           cancelled' \subseteq Calls,
           attempt' \in [Creates -> 0..MaxAttempts],
           settle' \in [Creates -> {"none", "success", "failed"}],
           captures' \in [Creates -> Nat],
           status' \in [Creates -> Statuses \cup {"absent"}],
           refunds' \subseteq Refunds,
           outbox' \subseteq Events
    PROVE  TypeOK'
BY DEF TypeOK, ControlOK, PCs, Transactions, Writes

\* A step that leaves the requests, the money and the tables alone keeps what
\* the invariant says of the tables.
LEMMA TablesUnchanged ==
    ASSUME Inv, UNCHANGED <<req, captures, dbVars>>
    PROVE  StatusMatchesMoney' /\ RefundedExactlyOnce' /\ OutboxMatchesTables'
BY DEF Inv, StatusMatchesMoney, RefundedExactlyOnce, OutboxMatchesTables,
       ExpectedOutbox, dbVars

-----------------------------------------------------------------------------
(* One lemma for each action.                                              *)

\* The tuples of variables and the sets of places in the code are abbreviations.
USE DEF Calls, callVars, pspVars, dbVars, NoTx
USE DEF Ends, CreatePCs, RefundPCs, BeforeSettle, Settling, InTx

\* A create that arrives finds no row of its own.
LEMMA InvReceiveCreate ==
    ASSUME Inv, NEW c \in Creates, NEW r \in CreateInputs, ReceiveCreate(c, r)
    PROVE  Inv'
<1>1. TypeOK'
  <2>1. ControlOK'
    BY GotoOK, ReturnOK DEF Inv, ReceiveCreate, PCs, Replies
  <2> QED
    BY <2>1, TypeFromControl DEF Inv, TypeOK, Statuses, ReceiveCreate
<1>2. CreateInv'
  BY CallsAssumption DEF Inv, TypeOK, CreateInv, ReceiveCreate, ValidCreate,
     Goto, Return
<1>3. RefundInv'
  BY CallsAssumption, InputsAssumption DEF Inv, TypeOK, RefundInv, CreateInv,
     ReceiveCreate, Goto, Return
<1>4. Exclusion'
  BY CallsAssumption DEF Inv, TypeOK, CreateInv, RefundInv, Exclusion,
     ExclusiveCreates, ExclusiveRefunds, ReceiveCreate, Goto, Return
<1>5. AnswersAtEnd'
  BY CallsAssumption DEF Inv, TypeOK, AnswersAtEnd, ReceiveCreate, Goto,
     Return
<1>6. StatusMatchesMoney' /\ RefundedExactlyOnce' /\ OutboxMatchesTables'
  <2>1. StatusMatchesMoney'
    BY CallsAssumption DEF Inv, TypeOK, CreateInv, RefundInv,
       StatusMatchesMoney, ReceiveCreate, Goto, Return
  <2>2. RefundedExactlyOnce'
    BY CallsAssumption DEF Inv, TypeOK, CreateInv, RefundInv,
       RefundedExactlyOnce, ReceiveCreate, Goto, Return
  <2>3. OutboxMatchesTables'
    BY CallsAssumption DEF Inv, TypeOK, CreateInv, RefundInv,
       OutboxMatchesTables, ExpectedOutbox, ReceiveCreate, Goto, Return
  <2> QED
    BY <2>1, <2>2, <2>3
<1>7. CreateAnswersTrue'
  BY CallsAssumption DEF Inv, TypeOK, CreateInv, AnswersAtEnd,
     CreateAnswersTrue, ReceiveCreate, Goto, Return
<1>8. RefundAnswersTrue'
  BY CallsAssumption DEF Inv, TypeOK, RefundInv, AnswersAtEnd,
     RefundAnswersTrue, ReceiveCreate, Goto, Return
<1> QED
  BY <1>1, <1>2, <1>3, <1>4, <1>5, <1>6, <1>7, <1>8 DEF Inv

\* A refund that arrives holds nothing yet.
LEMMA InvReceiveRefund ==
    ASSUME Inv, NEW c \in Refunds, NEW r \in RefundInputs, ReceiveRefund(c, r)
    PROVE  Inv'
<1>1. TypeOK'
  <2>1. ControlOK'
    BY GotoOK, ReturnOK DEF Inv, ReceiveRefund, PCs, Replies
  <2> QED
    BY <2>1, TypeFromControl DEF Inv, TypeOK, Statuses, ReceiveRefund
<1>2. CreateInv'
  BY CallsAssumption DEF Inv, TypeOK, CreateInv, ReceiveRefund, Goto, Return
<1>3. RefundInv'
  BY CallsAssumption, InputsAssumption DEF Inv, TypeOK, RefundInv, CreateInv,
     ReceiveRefund, Goto, Return
<1>4. Exclusion'
  <2>1. ExclusiveCreates'
    BY CallsAssumption DEF Inv, TypeOK, Exclusion, ExclusiveCreates,
       ReceiveRefund
  <2>2. ExclusiveRefunds'
    BY CallsAssumption DEF Inv, TypeOK, RefundInv, Exclusion,
       ExclusiveRefunds, ReceiveRefund, Goto, Return
  <2> QED
    BY <2>1, <2>2 DEF Exclusion
<1>5. AnswersAtEnd'
  BY CallsAssumption DEF Inv, TypeOK, AnswersAtEnd, ReceiveRefund, Goto,
     Return
<1>6. StatusMatchesMoney' /\ RefundedExactlyOnce' /\ OutboxMatchesTables'
  <2>1. StatusMatchesMoney'
    BY CallsAssumption DEF Inv, TypeOK, CreateInv, RefundInv,
       StatusMatchesMoney, ReceiveRefund, Goto, Return
  <2>2. RefundedExactlyOnce'
    BY CallsAssumption DEF Inv, TypeOK, CreateInv, RefundInv,
       RefundedExactlyOnce, ReceiveRefund, Goto, Return
  <2>3. OutboxMatchesTables'
    BY CallsAssumption DEF Inv, TypeOK, CreateInv, RefundInv,
       OutboxMatchesTables, ExpectedOutbox, ReceiveRefund, Goto, Return
  <2> QED
    BY <2>1, <2>2, <2>3
<1>7. CreateAnswersTrue'
  BY CallsAssumption DEF Inv, TypeOK, CreateInv, AnswersAtEnd,
     CreateAnswersTrue, ReceiveRefund, Goto, Return
<1>8. RefundAnswersTrue'
  BY CallsAssumption DEF Inv, TypeOK, RefundInv, AnswersAtEnd,
     RefundAnswersTrue, ReceiveRefund, Goto, Return
<1> QED
  BY <1>1, <1>2, <1>3, <1>4, <1>5, <1>6, <1>7, <1>8 DEF Inv

\* The unique index keeps the keys of the payments apart.
LEMMA InvCreatePayment ==
    ASSUME Inv, NEW c \in Creates, CreatePayment(c)
    PROVE  Inv'
<1>1. TypeOK'
  <2>1. ControlOK'
    BY GotoOK, ReturnOK DEF Inv, CreatePayment, Live, PCs, Replies
  <2> QED
    BY <2>1, TypeFromControl DEF Inv, TypeOK, Statuses, CreatePayment, Live,
       CreateKeyTaken, InsertPayment
<1>2. CreateInv'
  BY CallsAssumption DEF Inv, TypeOK, CreateInv, CreatePayment, Live,
     CreateKeyTaken, InsertPayment, Goto, Return
<1>3. RefundInv'
  BY CallsAssumption DEF Inv, TypeOK, RefundInv, CreateInv, CreatePayment,
     Live, CreateKeyTaken, InsertPayment, Goto, Return
<1>4. Exclusion'
  <2>1. ExclusiveCreates'
    BY CallsAssumption DEF Inv, TypeOK, CreateInv, Exclusion, ExclusiveCreates,
       CreatePayment, Live, CreateKeyTaken, InsertPayment
  <2>2. ExclusiveRefunds'
    BY CallsAssumption DEF Inv, TypeOK, CreateInv, Exclusion, ExclusiveRefunds,
       CreatePayment, Live, InsertPayment, Goto, Return
  <2> QED
    BY <2>1, <2>2 DEF Exclusion
<1>5. AnswersAtEnd'
  BY CallsAssumption DEF Inv, TypeOK, AnswersAtEnd, CreatePayment, Live,
     CreateKeyTaken, InsertPayment, Goto, Return
<1>6. StatusMatchesMoney' /\ RefundedExactlyOnce' /\ OutboxMatchesTables'
  <2>1. StatusMatchesMoney'
    BY CallsAssumption DEF Inv, TypeOK, CreateInv, RefundInv,
       StatusMatchesMoney, CreatePayment, Live, CreateKeyTaken, InsertPayment,
       Goto, Return
  <2>2. RefundedExactlyOnce'
    BY CallsAssumption DEF Inv, TypeOK, CreateInv, RefundInv,
       RefundedExactlyOnce, CreatePayment, Live, CreateKeyTaken,
       InsertPayment, Goto, Return
  <2>3. OutboxMatchesTables'
    BY CallsAssumption DEF Inv, TypeOK, CreateInv, RefundInv,
       OutboxMatchesTables, ExpectedOutbox, CreatePayment, Live,
       CreateKeyTaken, InsertPayment, Goto, Return
  <2> QED
    BY <2>1, <2>2, <2>3
<1>7. CreateAnswersTrue'
  BY CallsAssumption DEF Inv, TypeOK, CreateInv, AnswersAtEnd,
     CreateAnswersTrue, CreatePayment, Live, CreateKeyTaken, InsertPayment,
     Goto, Return
<1>8. RefundAnswersTrue'
  BY CallsAssumption DEF Inv, TypeOK, RefundInv, AnswersAtEnd,
     RefundAnswersTrue, CreatePayment, Live, CreateKeyTaken, InsertPayment,
     Goto, Return
<1> QED
  BY <1>1, <1>2, <1>3, <1>4, <1>5, <1>6, <1>7, <1>8 DEF Inv

\* No refund can be under way on an initiated payment.
LEMMA InvUpdatePaymentStatus ==
    ASSUME Inv, NEW c \in Creates, UpdatePaymentStatus(c)
    PROVE  Inv'
<1>1. TypeOK'
  <2>1. ControlOK'
    BY GotoOK DEF Inv, UpdatePaymentStatus, Live, PCs, Replies
  <2> QED
    BY <2>1, TypeFromControl DEF Inv, TypeOK, Statuses, UpdatePaymentStatus,
       Live, UpdateToProcessing
<1>2. CreateInv'
  BY CallsAssumption DEF Inv, TypeOK, CreateInv, UpdatePaymentStatus, Live,
     UpdateToProcessing, Goto
<1>3. RefundInv'
  BY CallsAssumption DEF Inv, TypeOK, RefundInv, CreateInv,
     UpdatePaymentStatus, Live, UpdateToProcessing, Goto
<1>4. Exclusion'
  BY CallsAssumption DEF Inv, TypeOK, CreateInv, RefundInv, Exclusion,
     ExclusiveCreates, ExclusiveRefunds, UpdatePaymentStatus, Live,
     UpdateToProcessing, Goto
<1>5. AnswersAtEnd'
  BY CallsAssumption DEF Inv, TypeOK, AnswersAtEnd, UpdatePaymentStatus, Live,
     UpdateToProcessing, Goto
<1>6. StatusMatchesMoney' /\ RefundedExactlyOnce' /\ OutboxMatchesTables'
  <2>1. StatusMatchesMoney'
    BY CallsAssumption DEF Inv, TypeOK, CreateInv, RefundInv,
       StatusMatchesMoney, UpdatePaymentStatus, Live, UpdateToProcessing, Goto
  <2>2. RefundedExactlyOnce'
    BY CallsAssumption DEF Inv, TypeOK, CreateInv, RefundInv,
       RefundedExactlyOnce, UpdatePaymentStatus, Live, UpdateToProcessing,
       Goto
  <2>3. OutboxMatchesTables'
    BY CallsAssumption DEF Inv, TypeOK, CreateInv, RefundInv,
       OutboxMatchesTables, ExpectedOutbox, UpdatePaymentStatus, Live,
       UpdateToProcessing, Goto
  <2> QED
    BY <2>1, <2>2, <2>3
<1>7. CreateAnswersTrue'
  BY CallsAssumption DEF Inv, TypeOK, CreateInv, AnswersAtEnd,
     CreateAnswersTrue, UpdatePaymentStatus, Live, UpdateToProcessing, Goto
<1>8. RefundAnswersTrue'
  BY CallsAssumption DEF Inv, TypeOK, RefundInv, AnswersAtEnd,
     RefundAnswersTrue, UpdatePaymentStatus, Live, UpdateToProcessing, Goto
<1> QED
  BY <1>1, <1>2, <1>3, <1>4, <1>5, <1>6, <1>7, <1>8 DEF Inv

\* Without a route the payment fails uncharged.
LEMMA InvRoute ==
    ASSUME Inv, NEW c \in Creates, Route(c)
    PROVE  Inv'
<1>1. TypeOK'
  <2>1. ControlOK'
    BY GotoOK DEF Inv, Route, PCs, Replies
  <2> QED
    BY <2>1, TypeFromControl DEF Inv, TypeOK, Route
<1>2. CreateInv'
  BY CallsAssumption DEF Inv, TypeOK, CreateInv, Route, Goto
<1>3. RefundInv'
  BY CallsAssumption DEF Inv, TypeOK, RefundInv, Route, Goto
<1>4. Exclusion'
  BY CallsAssumption DEF Inv, TypeOK, CreateInv, RefundInv, Exclusion,
     ExclusiveCreates, ExclusiveRefunds, Route, Goto
<1>5. AnswersAtEnd'
  BY CallsAssumption DEF Inv, TypeOK, AnswersAtEnd, Route, Goto
<1>6. StatusMatchesMoney' /\ RefundedExactlyOnce' /\ OutboxMatchesTables'
  BY TablesUnchanged DEF Route
<1>7. CreateAnswersTrue'
  BY CallsAssumption DEF Inv, TypeOK, CreateInv, AnswersAtEnd,
     CreateAnswersTrue, Route, Goto
<1>8. RefundAnswersTrue'
  BY CallsAssumption DEF Inv, TypeOK, RefundInv, AnswersAtEnd,
     RefundAnswersTrue, Route, Goto
<1> QED
  BY <1>1, <1>2, <1>3, <1>4, <1>5, <1>6, <1>7, <1>8 DEF Inv

\* A cancelled create fails uncharged.
LEMMA InvStartAttempt ==
    ASSUME Inv, NEW c \in Creates, StartAttempt(c)
    PROVE  Inv'
<1>1. TypeOK'
  <2>1. ControlOK'
    BY GotoOK DEF Inv, StartAttempt, PCs, Replies
  <2> QED
    BY <2>1, TypeFromControl DEF Inv, TypeOK, StartAttempt
<1>2. CreateInv'
  BY CallsAssumption DEF Inv, TypeOK, CreateInv, StartAttempt, Goto
<1>3. RefundInv'
  BY CallsAssumption DEF Inv, TypeOK, RefundInv, StartAttempt, Goto
<1>4. Exclusion'
  BY CallsAssumption DEF Inv, TypeOK, CreateInv, RefundInv, Exclusion,
     ExclusiveCreates, ExclusiveRefunds, StartAttempt, Goto
<1>5. AnswersAtEnd'
  BY CallsAssumption DEF Inv, TypeOK, AnswersAtEnd, StartAttempt, Goto
<1>6. StatusMatchesMoney' /\ RefundedExactlyOnce' /\ OutboxMatchesTables'
  BY TablesUnchanged DEF StartAttempt
<1>7. CreateAnswersTrue'
  BY CallsAssumption DEF Inv, TypeOK, CreateInv, AnswersAtEnd,
     CreateAnswersTrue, StartAttempt, Goto
<1>8. RefundAnswersTrue'
  BY CallsAssumption DEF Inv, TypeOK, RefundInv, AnswersAtEnd,
     RefundAnswersTrue, StartAttempt, Goto
<1> QED
  BY <1>1, <1>2, <1>3, <1>4, <1>5, <1>6, <1>7, <1>8 DEF Inv

\* The one capture of a create.
LEMMA InvChargeCaptured ==
    ASSUME Inv, NEW c \in Creates, ChargeCaptured(c)
    PROVE  Inv'
<1>1. TypeOK'
  <2>1. ControlOK'
    BY GotoOK DEF Inv, ChargeCaptured, PCs, Replies
  <2> QED
    BY <2>1, TypeFromControl DEF Inv, TypeOK, Statuses, ChargeCaptured
<1>2. CreateInv'
  BY CallsAssumption DEF Inv, TypeOK, CreateInv, ChargeCaptured, Goto
<1>3. RefundInv'
  BY CallsAssumption DEF Inv, TypeOK, RefundInv, CreateInv, ChargeCaptured,
     Goto
<1>4. Exclusion'
  BY CallsAssumption DEF Inv, TypeOK, CreateInv, RefundInv, Exclusion,
     ExclusiveCreates, ExclusiveRefunds, ChargeCaptured, Goto
<1>5. AnswersAtEnd'
  BY CallsAssumption DEF Inv, TypeOK, AnswersAtEnd, ChargeCaptured, Goto
<1>6. StatusMatchesMoney' /\ RefundedExactlyOnce' /\ OutboxMatchesTables'
  <2>1. StatusMatchesMoney'
    BY CallsAssumption DEF Inv, TypeOK, CreateInv, RefundInv,
       StatusMatchesMoney, ChargeCaptured, Goto
  <2>2. RefundedExactlyOnce'
    BY CallsAssumption DEF Inv, TypeOK, CreateInv, RefundInv,
       RefundedExactlyOnce, ChargeCaptured, Goto
  <2>3. OutboxMatchesTables'
    BY CallsAssumption DEF Inv, TypeOK, CreateInv, RefundInv,
       OutboxMatchesTables, ExpectedOutbox, ChargeCaptured, Goto
  <2> QED
    BY <2>1, <2>2, <2>3
<1>7. CreateAnswersTrue'
  BY CallsAssumption DEF Inv, TypeOK, CreateInv, AnswersAtEnd,
     CreateAnswersTrue, ChargeCaptured, Goto
<1>8. RefundAnswersTrue'
  BY CallsAssumption DEF Inv, TypeOK, RefundInv, AnswersAtEnd,
     RefundAnswersTrue, ChargeCaptured, Goto
<1> QED
  BY <1>1, <1>2, <1>3, <1>4, <1>5, <1>6, <1>7, <1>8 DEF Inv

\* A charge refused captures nothing.
LEMMA InvChargeRefused ==
    ASSUME Inv, NEW c \in Creates, ChargeRefused(c)
    PROVE  Inv'
<1>1. TypeOK'
  <2>1. ControlOK'
    BY GotoOK DEF Inv, ChargeRefused, PCs, Replies
  <2> QED
    BY <2>1, TypeFromControl DEF Inv, TypeOK, ChargeRefused
<1>2. CreateInv'
  BY CallsAssumption DEF Inv, TypeOK, CreateInv, ChargeRefused, Goto
<1>3. RefundInv'
  BY CallsAssumption DEF Inv, TypeOK, RefundInv, ChargeRefused, Goto
<1>4. Exclusion'
  BY CallsAssumption DEF Inv, TypeOK, CreateInv, RefundInv, Exclusion,
     ExclusiveCreates, ExclusiveRefunds, ChargeRefused, Goto
<1>5. AnswersAtEnd'
  BY CallsAssumption DEF Inv, TypeOK, AnswersAtEnd, ChargeRefused, Goto
<1>6. StatusMatchesMoney' /\ RefundedExactlyOnce' /\ OutboxMatchesTables'
  BY TablesUnchanged DEF ChargeRefused
<1>7. CreateAnswersTrue'
  BY CallsAssumption DEF Inv, TypeOK, CreateInv, AnswersAtEnd,
     CreateAnswersTrue, ChargeRefused, Goto
<1>8. RefundAnswersTrue'
  BY CallsAssumption DEF Inv, TypeOK, RefundInv, AnswersAtEnd,
     RefundAnswersTrue, ChargeRefused, Goto
<1> QED
  BY <1>1, <1>2, <1>3, <1>4, <1>5, <1>6, <1>7, <1>8 DEF Inv

\* The attempts stay within MaxAttempts.
LEMMA InvChargeRetryable ==
    ASSUME Inv, NEW c \in Creates, ChargeRetryable(c)
    PROVE  Inv'
<1>1. TypeOK'
  <2>1. ControlOK'
    BY GotoOK DEF Inv, ChargeRetryable, PCs, Replies
  <2> QED
    BY <2>1, TypeFromControl, AttemptsAssumption DEF Inv, TypeOK, CreateInv,
       ChargeRetryable
<1>2. CreateInv'
  BY CallsAssumption, AttemptsAssumption DEF Inv, TypeOK, CreateInv,
     ChargeRetryable, Goto
<1>3. RefundInv'
  BY CallsAssumption, AttemptsAssumption DEF Inv, TypeOK, RefundInv,
     ChargeRetryable, Goto
<1>4. Exclusion'
  BY CallsAssumption, AttemptsAssumption DEF Inv, TypeOK, CreateInv,
     RefundInv, Exclusion, ExclusiveCreates, ExclusiveRefunds,
     ChargeRetryable, Goto
<1>5. AnswersAtEnd'
  BY CallsAssumption DEF Inv, TypeOK, AnswersAtEnd, ChargeRetryable, Goto
<1>6. StatusMatchesMoney' /\ RefundedExactlyOnce' /\ OutboxMatchesTables'
  BY TablesUnchanged DEF ChargeRetryable
<1>7. CreateAnswersTrue'
  BY CallsAssumption, AttemptsAssumption DEF Inv, TypeOK, CreateInv,
     AnswersAtEnd, CreateAnswersTrue, ChargeRetryable, Goto
<1>8. RefundAnswersTrue'
  BY CallsAssumption, AttemptsAssumption DEF Inv, TypeOK, RefundInv,
     AnswersAtEnd, RefundAnswersTrue, ChargeRetryable, Goto
<1> QED
  BY <1>1, <1>2, <1>3, <1>4, <1>5, <1>6, <1>7, <1>8 DEF Inv

\* The settling transaction opens.
LEMMA InvUpdateSettled ==
    ASSUME Inv, NEW c \in Creates, UpdateSettled(c)
    PROVE  Inv'
<1>1. TypeOK'
  <2>1. ControlOK'
    BY WriteTxOK DEF Inv, UpdateSettled, Live, PCs, Transactions, Writes,
       TypeOK
  <2> QED
    BY <2>1, TypeFromControl DEF Inv, TypeOK, UpdateSettled, Live
<1>2. CreateInv'
  BY CallsAssumption DEF Inv, TypeOK, CreateInv, UpdateSettled, Live, WriteTx
<1>3. RefundInv'
  BY CallsAssumption DEF Inv, TypeOK, RefundInv, UpdateSettled, Live, WriteTx
<1>4. Exclusion'
  BY CallsAssumption DEF Inv, TypeOK, CreateInv, RefundInv, Exclusion,
     ExclusiveCreates, ExclusiveRefunds, UpdateSettled, Live, WriteTx
<1>5. AnswersAtEnd'
  BY CallsAssumption DEF Inv, TypeOK, AnswersAtEnd, UpdateSettled, Live,
     WriteTx
<1>6. StatusMatchesMoney' /\ RefundedExactlyOnce' /\ OutboxMatchesTables'
  BY TablesUnchanged DEF UpdateSettled
<1>7. CreateAnswersTrue'
  BY CallsAssumption DEF Inv, TypeOK, CreateInv, AnswersAtEnd,
     CreateAnswersTrue, UpdateSettled, Live, WriteTx
<1>8. RefundAnswersTrue'
  BY CallsAssumption DEF Inv, TypeOK, RefundInv, AnswersAtEnd,
     RefundAnswersTrue, UpdateSettled, Live, WriteTx
<1> QED
  BY <1>1, <1>2, <1>3, <1>4, <1>5, <1>6, <1>7, <1>8 DEF Inv

\* The refund has checked its payment.
LEMMA InvLookupPayment ==
    ASSUME Inv, NEW c \in Refunds, LookupPayment(c)
    PROVE  Inv'
<1>1. TypeOK'
  <2>1. ControlOK'
    BY GotoOK, ReturnOK DEF Inv, LookupPayment, Live, PCs, Replies
  <2> QED
    BY <2>1, TypeFromControl DEF Inv, TypeOK, LookupPayment, Live, Refundable
<1>2. CreateInv'
  BY CallsAssumption DEF Inv, TypeOK, CreateInv, LookupPayment, Live,
     Refundable, Goto, Return
<1>3. RefundInv'
  BY CallsAssumption DEF Inv, TypeOK, RefundInv, LookupPayment, Live,
     Refundable, Goto, Return
<1>4. Exclusion'
  <2>1. ExclusiveCreates'
    BY CallsAssumption DEF Inv, TypeOK, Exclusion, ExclusiveCreates,
       LookupPayment
  <2>2. ExclusiveRefunds'
    BY CallsAssumption DEF Inv, TypeOK, RefundInv, Exclusion,
       ExclusiveRefunds, LookupPayment, Live, Refundable, Goto, Return
  <2> QED
    BY <2>1, <2>2 DEF Exclusion
<1>5. AnswersAtEnd'
  BY CallsAssumption DEF Inv, TypeOK, AnswersAtEnd, LookupPayment, Live,
     Refundable, Goto, Return
<1>6. StatusMatchesMoney' /\ RefundedExactlyOnce' /\ OutboxMatchesTables'
  BY TablesUnchanged DEF LookupPayment
<1>7. CreateAnswersTrue'
  BY CallsAssumption DEF Inv, TypeOK, CreateInv, AnswersAtEnd,
     CreateAnswersTrue, LookupPayment, Live, Refundable, Goto, Return
<1>8. RefundAnswersTrue'
  BY CallsAssumption DEF Inv, TypeOK, RefundInv, AnswersAtEnd,
     RefundAnswersTrue, LookupPayment, Live, Refundable, Goto, Return
<1> QED
  BY <1>1, <1>2, <1>3, <1>4, <1>5, <1>6, <1>7, <1>8 DEF Inv

\* The refund has its key for itself.
LEMMA InvInsertRefund ==
    ASSUME Inv, NEW c \in Refunds, InsertRefund(c)
    PROVE  Inv'
<1>1. TypeOK'
  <2>1. ControlOK'
    BY WriteTxOK, ReturnOK DEF Inv, InsertRefund, Live, PCs, Replies,
       Transactions, Writes, TypeOK
  <2> QED
    BY <2>1, TypeFromControl DEF Inv, TypeOK, InsertRefund, Live,
       RefundKeyTaken
<1>2. CreateInv'
  BY CallsAssumption DEF Inv, TypeOK, CreateInv, InsertRefund, Live,
     RefundKeyTaken, WriteTx, Return
<1>3. RefundInv'
  BY CallsAssumption DEF Inv, TypeOK, RefundInv, InsertRefund, Live,
     RefundKeyTaken, WriteTx, Return
<1>4. Exclusion'
  <2>1. ExclusiveCreates'
    BY CallsAssumption DEF Inv, TypeOK, Exclusion, ExclusiveCreates,
       InsertRefund
  <2>2. ExclusiveRefunds'
    BY CallsAssumption DEF Inv, TypeOK, RefundInv, Exclusion,
       ExclusiveRefunds, InsertRefund, Live, RefundKeyTaken, KeyPending,
       WriteTx, Return
  <2> QED
    BY <2>1, <2>2 DEF Exclusion
<1>5. AnswersAtEnd'
  BY CallsAssumption DEF Inv, TypeOK, AnswersAtEnd, InsertRefund, Live,
     RefundKeyTaken, WriteTx, Return
<1>6. StatusMatchesMoney' /\ RefundedExactlyOnce' /\ OutboxMatchesTables'
  BY TablesUnchanged DEF InsertRefund
<1>7. CreateAnswersTrue'
  BY CallsAssumption DEF Inv, TypeOK, CreateInv, AnswersAtEnd,
     CreateAnswersTrue, InsertRefund, Live, RefundKeyTaken, WriteTx, Return
<1>8. RefundAnswersTrue'
  BY CallsAssumption DEF Inv, TypeOK, RefundInv, AnswersAtEnd,
     RefundAnswersTrue, InsertRefund, Live, RefundKeyTaken, WriteTx, Return
<1> QED
  BY <1>1, <1>2, <1>3, <1>4, <1>5, <1>6, <1>7, <1>8 DEF Inv

\* The refund has the row for itself, or another refund is committed.
LEMMA InvUpdateRefunded ==
    ASSUME Inv, NEW c \in Refunds, UpdateRefunded(c)
    PROVE  Inv'
<1>1. TypeOK'
  <2>1. [tx[c] EXCEPT !.row = "refunded"] \in Transactions
    BY DEF Inv, TypeOK, Transactions, Writes
  <2>2. ControlOK'
    BY <2>1, WriteTxOK, ReturnOK DEF Inv, UpdateRefunded, PCs, Replies
  <2> QED
    BY <2>2, TypeFromControl DEF Inv, TypeOK, UpdateRefunded, Live
<1>2. CreateInv'
  BY CallsAssumption DEF Inv, TypeOK, CreateInv, UpdateRefunded, Live,
     WriteTx, Return
<1>3. RefundInv'
  BY CallsAssumption DEF Inv, TypeOK, RefundInv, UpdateRefunded, Live,
     WriteTx, Return
<1>4. Exclusion'
  <2>1. ExclusiveCreates'
    BY CallsAssumption DEF Inv, TypeOK, Exclusion, ExclusiveCreates,
       UpdateRefunded
  <2>2. ExclusiveRefunds'
    BY CallsAssumption DEF Inv, TypeOK, RefundInv, Exclusion,
       ExclusiveRefunds, UpdateRefunded, Live, RowLocked, WriteTx, Return,
       Target
  <2> QED
    BY <2>1, <2>2 DEF Exclusion
<1>5. AnswersAtEnd'
  BY CallsAssumption DEF Inv, TypeOK, AnswersAtEnd, UpdateRefunded, Live,
     WriteTx, Return
<1>6. StatusMatchesMoney' /\ RefundedExactlyOnce' /\ OutboxMatchesTables'
  BY TablesUnchanged DEF UpdateRefunded
<1>7. CreateAnswersTrue'
  BY CallsAssumption DEF Inv, TypeOK, CreateInv, AnswersAtEnd,
     CreateAnswersTrue, UpdateRefunded, Live, WriteTx, Return
<1>8. RefundAnswersTrue'
  BY CallsAssumption DEF Inv, TypeOK, RefundInv, AnswersAtEnd,
     RefundAnswersTrue, RefundedExactlyOnce, UpdateRefunded, Live, WriteTx,
     Return
<1> QED
  BY <1>1, <1>2, <1>3, <1>4, <1>5, <1>6, <1>7, <1>8 DEF Inv

\* The event joins the transaction.
LEMMA InvEnqueueTx ==
    ASSUME Inv, NEW c \in Calls, EnqueueTx(c)
    PROVE  Inv'
<1>1. TypeOK'
  <2>1. ControlOK'
    BY WriteTxOK DEF Inv, EnqueueTx, Live, PCs, Transactions, Writes, TypeOK
  <2> QED
    BY <2>1, TypeFromControl DEF Inv, TypeOK, EnqueueTx, Live
<1>2. CreateInv'
  BY CallsAssumption DEF Inv, TypeOK, CreateInv, EnqueueTx, Live, WriteTx
<1>3. RefundInv'
  BY CallsAssumption DEF Inv, TypeOK, RefundInv, EnqueueTx, Live, WriteTx
<1>4. Exclusion'
  BY CallsAssumption DEF Inv, TypeOK, CreateInv, RefundInv, Exclusion,
     ExclusiveCreates, ExclusiveRefunds, EnqueueTx, Live, WriteTx
<1>5. AnswersAtEnd'
  BY CallsAssumption DEF Inv, TypeOK, AnswersAtEnd, EnqueueTx, Live, WriteTx
<1>6. StatusMatchesMoney' /\ RefundedExactlyOnce' /\ OutboxMatchesTables'
  BY TablesUnchanged DEF EnqueueTx
<1>7. CreateAnswersTrue'
  BY CallsAssumption DEF Inv, TypeOK, CreateInv, AnswersAtEnd,
     CreateAnswersTrue, EnqueueTx, Live, WriteTx
<1>8. RefundAnswersTrue'
  BY CallsAssumption DEF Inv, TypeOK, RefundInv, AnswersAtEnd,
     RefundAnswersTrue, EnqueueTx, Live, WriteTx
<1> QED
  BY <1>1, <1>2, <1>3, <1>4, <1>5, <1>6, <1>7, <1>8 DEF Inv

\* A rollback leaves the tables as they were.
LEMMA InvDBError ==
    ASSUME Inv, NEW c \in Calls, DBError(c)
    PROVE  Inv'
<1>1. TypeOK'
  <2>1. ControlOK'
    BY ReturnOK DEF Inv, DBError, DBSteps, PCs, Replies
  <2> QED
    BY <2>1, TypeFromControl DEF Inv, TypeOK, DBError, DBSteps
<1>2. CreateInv'
  BY CallsAssumption DEF Inv, TypeOK, CreateInv, DBError, DBSteps, Return
<1>3. RefundInv'
  BY CallsAssumption DEF Inv, TypeOK, RefundInv, DBError, DBSteps, Return
<1>4. Exclusion'
  BY CallsAssumption DEF Inv, TypeOK, CreateInv, RefundInv, Exclusion,
     ExclusiveCreates, ExclusiveRefunds, DBError, DBSteps, Return
<1>5. AnswersAtEnd'
  BY CallsAssumption DEF Inv, TypeOK, AnswersAtEnd, DBError, DBSteps, Return
<1>6. StatusMatchesMoney' /\ RefundedExactlyOnce' /\ OutboxMatchesTables'
  BY TablesUnchanged DEF DBError
<1>7. CreateAnswersTrue'
  BY CallsAssumption DEF Inv, TypeOK, CreateInv, AnswersAtEnd,
     CreateAnswersTrue, DBError, DBSteps, Return
<1>8. RefundAnswersTrue'
  BY CallsAssumption DEF Inv, TypeOK, RefundInv, AnswersAtEnd,
     RefundAnswersTrue, DBError, DBSteps, Return
<1> QED
  BY <1>1, <1>2, <1>3, <1>4, <1>5, <1>6, <1>7, <1>8 DEF Inv

\* Clients that leave change nothing yet, whether or not their call has begun.
LEMMA InvLeave ==
    ASSUME Inv, cancelled' \subseteq Calls,
           UNCHANGED <<pc, req, reply, tx, pspVars, dbVars>>
    PROVE  Inv'
<1>1. TypeOK' /\ CreateInv' /\ RefundInv' /\ AnswersAtEnd'
  BY DEF Inv, TypeOK, CreateInv, RefundInv, AnswersAtEnd
<1>2. Exclusion'
  BY DEF Inv, Exclusion, ExclusiveCreates, ExclusiveRefunds
<1>3. StatusMatchesMoney' /\ RefundedExactlyOnce' /\ OutboxMatchesTables'
  BY TablesUnchanged
<1>4. CreateAnswersTrue' /\ RefundAnswersTrue'
  BY DEF Inv, CreateAnswersTrue, RefundAnswersTrue
<1> QED
  BY <1>1, <1>2, <1>3, <1>4 DEF Inv

\* A disconnected client changes nothing yet.
LEMMA InvCancel ==
    ASSUME Inv, NEW c \in Calls, Cancel(c)
    PROVE  Inv'
<1>1. cancelled' \subseteq Calls
  BY DEF Inv, TypeOK, Cancel
<1> QED
  BY <1>1, InvLeave DEF Cancel

\* Calls that die, some or all, have their open transactions rolled back.
LEMMA InvLost ==
    ASSUME Inv, NEW D \in SUBSET Calls,
           pc' = [c \in Calls |-> IF c \in D /\ InFlight(c) THEN "lost" ELSE pc[c]],
           tx' = [c \in Calls |-> IF c \in D THEN NoTx ELSE tx[c]],
           UNCHANGED <<callVars, reply, pspVars, dbVars>>
    PROVE  Inv'
<1>1. TypeOK'
  BY DEF Inv, TypeOK, InFlight
<1>2. CreateInv'
  BY CallsAssumption DEF Inv, TypeOK, CreateInv, InFlight
<1>3. RefundInv'
  BY CallsAssumption DEF Inv, TypeOK, RefundInv, InFlight
<1>4. Exclusion'
  BY CallsAssumption DEF Inv, TypeOK, CreateInv, RefundInv, Exclusion,
     ExclusiveCreates, ExclusiveRefunds, InFlight
<1>5. AnswersAtEnd'
  BY CallsAssumption DEF Inv, TypeOK, AnswersAtEnd, InFlight
<1>6. StatusMatchesMoney' /\ RefundedExactlyOnce' /\ OutboxMatchesTables'
  BY TablesUnchanged
<1>7. CreateAnswersTrue'
  BY CallsAssumption DEF Inv, TypeOK, CreateInv, AnswersAtEnd, CreateAnswersTrue
<1>8. RefundAnswersTrue'
  BY CallsAssumption DEF Inv, TypeOK, RefundInv, AnswersAtEnd, RefundAnswersTrue
<1> QED
  BY <1>1, <1>2, <1>3, <1>4, <1>5, <1>6, <1>7, <1>8 DEF Inv

\* A crash rolls every open transaction back.
LEMMA InvCrash ==
    ASSUME Inv, Crash
    PROVE  Inv'
<1>1. /\ pc' = [c \in Calls |-> IF c \in Calls /\ InFlight(c) THEN "lost" ELSE pc[c]]
      /\ tx' = [c \in Calls |-> IF c \in Calls THEN NoTx ELSE tx[c]]
  BY DEF Crash
<1> QED
  BY <1>1, InvLost DEF Crash

\* A transaction that commits with event and row moves the tables together.
\* The answer is an error when the acknowledgement was lost.
LEMMA InvApplyTx ==
    ASSUME Inv, NEW c \in Calls, NEW v \in Replies,
           pc[c] = "commit",
           ApplyTx(c),
           Return(c, v),
           v \in {"error", IF c \in Creates THEN tx[c].row ELSE "success"},
           UNCHANGED <<callVars, pspVars>>
    PROVE  Inv'
<1>1. CASE c \in Creates
  <2>1. /\ status[c] = "processing"
        /\ settle[c] \in {"success", "failed"}
        /\ status' = [status EXCEPT ![c] = settle[c]]
        /\ refunds' = refunds
        /\ outbox' = outbox \cup
              {[call |-> c, payment |-> c, type |-> settle[c]]}
        /\ v \in {"error", settle[c]}
    BY <1>1 DEF Inv, CreateInv, ApplyTx, Target
  <2>2. ControlOK'
    BY ReturnOK DEF Inv
  <2>3. TypeOK'
    BY <1>1, <2>1, <2>2, TypeFromControl DEF Inv, TypeOK, Statuses, Events
  <2>4. CreateInv'
    BY <1>1, <2>1 DEF Inv, TypeOK, CreateInv, Return
  <2>5. RefundInv'
    BY <1>1, <2>1, CallsAssumption DEF Inv, TypeOK, RefundInv, Return
  <2>6. Exclusion'
    BY <1>1, <2>1, CallsAssumption
    DEF Inv, TypeOK, Exclusion, ExclusiveCreates, ExclusiveRefunds, Return
  <2>7. AnswersAtEnd'
    BY DEF Inv, TypeOK, AnswersAtEnd, Return
  <2>8. StatusMatchesMoney'
    BY <1>1, <2>1 DEF Inv, TypeOK, CreateInv, StatusMatchesMoney
  <2>9. RefundedExactlyOnce'
    BY <1>1, <2>1 DEF Inv, TypeOK, RefundedExactlyOnce
  <2>10. OutboxMatchesTables'
    BY <1>1, <2>1 DEF Inv, TypeOK, OutboxMatchesTables, ExpectedOutbox
  <2>11. CreateAnswersTrue'
    BY <1>1, <2>1 DEF Inv, TypeOK, CreateInv, AnswersAtEnd, CreateAnswersTrue,
       Return
  <2>12. RefundAnswersTrue'
    BY <1>1, <2>1, CallsAssumption DEF Inv, TypeOK, RefundAnswersTrue, Return
  <2> QED
    BY <2>3, <2>4, <2>5, <2>6, <2>7, <2>8, <2>9, <2>10, <2>11, <2>12 DEF Inv
<1>2. CASE c \in Refunds
  <2> DEFINE p == req[c].payment
  <2>1. /\ p \in Creates
        /\ status[p] = "success"
        /\ status' = [status EXCEPT ![p] = "refunded"]
        /\ refunds' = refunds \cup {c}
        /\ outbox' = outbox \cup
              {[call |-> c, payment |-> p, type |-> "refunded"]}
        /\ v \in {"error", "success"}
        /\ c \notin Creates
    <3>1. c \notin Creates
      BY <1>2, CallsAssumption
    <3>2. Target(c) = p
      BY <3>1 DEF Target
    <3>3. tx[c].row = "refunded" /\ tx[c].event = "refunded" /\ tx[c].refund
      BY <1>2 DEF Inv, RefundInv
    <3>4. p \in Creates /\ status[p] = "success"
      BY <1>2 DEF Inv, RefundInv
    <3> QED
      BY <3>1, <3>2, <3>3, <3>4 DEF ApplyTx
  <2>2. ControlOK'
    BY ReturnOK DEF Inv
  <2>3. TypeOK'
    BY <1>2, <2>1, <2>2, TypeFromControl DEF Inv, TypeOK, Statuses, Events
  <2>4. CreateInv'
    BY <1>2, <2>1, CallsAssumption DEF Inv, TypeOK, CreateInv, Return
  <2>5. RefundInv'
    BY <1>2, <2>1 DEF Inv, TypeOK, RefundInv, Exclusion, ExclusiveRefunds, Return
  <2>6. Exclusion'
    BY <1>2, <2>1 DEF Inv, TypeOK, RefundInv, Exclusion, ExclusiveCreates,
       ExclusiveRefunds, Return
  <2>7. AnswersAtEnd'
    BY DEF Inv, TypeOK, AnswersAtEnd, Return
  <2>8. StatusMatchesMoney'
    BY <2>1 DEF Inv, TypeOK, StatusMatchesMoney
  <2>9. RefundedExactlyOnce'
    BY <1>2, <2>1 DEF Inv, TypeOK, RefundInv, Exclusion, ExclusiveRefunds,
       RefundedExactlyOnce
  <2>10. OutboxMatchesTables'
    BY <1>2, <2>1 DEF Inv, TypeOK, OutboxMatchesTables, ExpectedOutbox
  <2>11. CreateAnswersTrue'
    BY <1>2, <2>1, CallsAssumption DEF Inv, TypeOK, CreateAnswersTrue, Return
  <2>12. RefundAnswersTrue'
    BY <1>2, <2>1 DEF Inv, TypeOK, AnswersAtEnd, RefundAnswersTrue, Return
  <2> QED
    BY <2>3, <2>4, <2>5, <2>6, <2>7, <2>8, <2>9, <2>10, <2>11, <2>12 DEF Inv
<1> QED
  BY <1>1, <1>2

\* Commit is such a transaction, with its answer.
LEMMA InvCommit ==
    ASSUME Inv, NEW c \in Calls, Commit(c)
    PROVE  Inv'
<1> DEFINE v == IF c \in Creates THEN tx[c].row ELSE "success"
<1>1. v \in Replies
  BY DEF Inv, TypeOK, Commit, Live, Replies, CreateInv
<1>2. /\ pc[c] = "commit" /\ ApplyTx(c) /\ Return(c, v)
      /\ UNCHANGED <<callVars, pspVars>>
  BY DEF Commit, Live
<1> QED
  BY <1>1, <1>2, InvApplyTx

\* A lost acknowledgement leaves the tables as the statement did, and the
\* call with an error.
LEMMA InvLostAck ==
    ASSUME Inv, NEW c \in Calls, LostAck(c)
    PROVE  Inv'
<1>0. "error" \in Replies
  BY DEF Replies
<1>1. CASE Live(c, "commit") /\ ApplyTx(c)
  BY <1>0, <1>1, InvApplyTx DEF LostAck, Live
<1>2. ASSUME \/ /\ Live(c, "insert")
                /\ ~CreateKeyTaken(req[c].key)
                /\ InsertPayment(c)
             \/ Live(c, "toProcessing") /\ UpdateToProcessing(c)
      PROVE  Inv'
  <2> USE <1>2
  <2>1. /\ c \in Creates
        /\ status[c] \in {"absent", "initiated"}
        /\ \E s \in {"initiated", "processing"} :
              status' = [status EXCEPT ![c] = s]
        /\ refunds' = refunds /\ outbox' = outbox
        /\ UNCHANGED <<callVars, pspVars>>
    BY DEF Inv, TypeOK, CreateInv, RefundInv, LostAck, Live, InsertPayment,
       UpdateToProcessing
  <2>2. TypeOK'
    BY <1>0, <2>1, ReturnOK, TypeFromControl DEF Inv, TypeOK, Statuses, LostAck
  <2>3. CreateInv'
    BY <2>1 DEF Inv, TypeOK, CreateInv, LostAck, Live, Return
  <2>4. RefundInv'
    BY <2>1, CallsAssumption DEF Inv, TypeOK, RefundInv, LostAck, Return
  <2>5. Exclusion'
    <3>1. ExclusiveCreates'
      BY <2>1 DEF Inv, TypeOK, CreateInv, Exclusion, ExclusiveCreates,
         CreateKeyTaken, Live
    <3>2. ExclusiveRefunds'
      <4>1. Return(c, "error")
        BY DEF LostAck
      <4>2. \A r \in Refunds : r # c
        BY <2>1, CallsAssumption
      <4> QED
        BY <2>1, <4>1, <4>2
        DEF Inv, TypeOK, Exclusion, ExclusiveRefunds, Return
    <3> QED
      BY <3>1, <3>2 DEF Exclusion
  <2>6. AnswersAtEnd'
    BY DEF Inv, TypeOK, AnswersAtEnd, LostAck, Return
  <2>7. StatusMatchesMoney' /\ RefundedExactlyOnce' /\ OutboxMatchesTables'
    BY <2>1 DEF Inv, TypeOK, CreateInv, StatusMatchesMoney,
       RefundedExactlyOnce, OutboxMatchesTables, ExpectedOutbox
  <2>8. CreateAnswersTrue'
    BY <2>1 DEF Inv, TypeOK, CreateInv, AnswersAtEnd, CreateAnswersTrue,
       LostAck, Live, Return
  <2>9. RefundAnswersTrue'
    BY <2>1, CallsAssumption DEF Inv, TypeOK, RefundAnswersTrue, LostAck, Return
  <2> QED
    BY <2>2, <2>3, <2>4, <2>5, <2>6, <2>7, <2>8, <2>9 DEF Inv
<1> QED
  BY <1>1, <1>2 DEF LostAck

-----------------------------------------------------------------------------
(* The theorems.                                                           *)

\* The invariant holds initially.
LEMMA InvInit == Init => Inv
BY AttemptsAssumption, CallsAssumption
DEF Init, Inv, TypeOK, CreateInv, RefundInv, Exclusion, ExclusiveCreates,
    ExclusiveRefunds, AnswersAtEnd, StatusMatchesMoney, RefundedExactlyOnce,
    OutboxMatchesTables, ExpectedOutbox, CreateAnswersTrue, RefundAnswersTrue,
    Replies, Statuses

\* Every step keeps the invariant.
LEMMA InvNext == Inv /\ [Next]_vars => Inv'
<1> SUFFICES ASSUME Inv, [Next]_vars
             PROVE  Inv'
  OBVIOUS
<1>1. CASE UNCHANGED vars
  BY <1>1 DEF Inv, vars, TypeOK, CreateInv, RefundInv, Exclusion,
     ExclusiveCreates, ExclusiveRefunds, AnswersAtEnd, StatusMatchesMoney,
     RefundedExactlyOnce, OutboxMatchesTables, ExpectedOutbox,
     CreateAnswersTrue, RefundAnswersTrue
<1>2. ASSUME NEW c \in Creates, NEW r \in CreateInputs, ReceiveCreate(c, r)
      PROVE  Inv'
  BY <1>2, InvReceiveCreate
<1>3. ASSUME NEW c \in Refunds, NEW r \in RefundInputs, ReceiveRefund(c, r)
      PROVE  Inv'
  BY <1>3, InvReceiveRefund
<1>4. ASSUME NEW c \in Creates, CreateStep(c)
      PROVE  Inv'
  BY <1>4, InvCreatePayment, InvUpdatePaymentStatus, InvRoute,
     InvStartAttempt, InvChargeCaptured, InvChargeRefused,
     InvChargeRetryable, InvUpdateSettled DEF CreateStep
<1>5. ASSUME NEW c \in Refunds, RefundStep(c)
      PROVE  Inv'
  BY <1>5, InvLookupPayment, InvInsertRefund, InvUpdateRefunded DEF RefundStep
<1>6. ASSUME NEW c \in Calls, TxStep(c)
      PROVE  Inv'
  BY <1>6, InvEnqueueTx, InvCommit DEF TxStep
<1>7. ASSUME NEW c \in Calls, Fault(c)
      PROVE  Inv'
  BY <1>7, InvDBError, InvLostAck, InvCancel DEF Fault
<1>8. CASE Crash
  BY <1>8, InvCrash
<1> QED
  BY <1>1, <1>2, <1>3, <1>4, <1>5, <1>6, <1>7, <1>8 DEF Next

\* The inductive invariant holds of every behaviour.
THEOREM InvHolds == Spec => []Inv
BY InvInit, InvNext, PTL DEF Spec

\* Type correctness.  It needs the invariant: that the attempts stay within
\* MaxAttempts depends on where the call is.
THEOREM TypesHold == Spec => []TypeOK
<1>1. Inv => TypeOK
  BY DEF Inv
<1> QED
  BY <1>1, InvHolds, PTL

\* Every committed change of a payment has its event, and no other event is
\* stored, whatever fails (enqueueOutboxPaymentEventTx inside the
\* transactions of UpdatePaymentStatusWithPSP, UpdatePaymentFailed and
\* RefundPaymentAtomic).
THEOREM OutboxIsExact == Spec => []OutboxMatchesTables
<1>1. Inv => OutboxMatchesTables
  BY DEF Inv
<1> QED
  BY <1>1, InvHolds, PTL

\* The money of a key is captured at most once (the unique insert of
\* PaymentRepo.CreatePayment, before the retried charge).
THEOREM ChargedOnce == Spec => []ChargedOncePerKey
<1>1. Inv => ChargedOncePerKey
  BY DEF Inv, CreateInv, Exclusion, ExclusiveCreates, StatusMatchesMoney,
     ChargedOncePerKey, TypeOK
<1> QED
  BY <1>1, InvHolds, PTL

\* The payments table tells the truth about the money.
THEOREM MoneyIsRecorded == Spec => []StatusMatchesMoney
<1>1. Inv => StatusMatchesMoney
  BY DEF Inv
<1> QED
  BY <1>1, InvHolds, PTL

\* A payment is refunded at most once, for at most its amount, however many
\* refunds race for it (RefundPaymentAtomic).
THEOREM RefundedOnce == Spec => []RefundedExactlyOnce
<1>1. Inv => RefundedExactlyOnce
  BY DEF Inv
<1> QED
  BY <1>1, InvHolds, PTL

\* What the creates have answered stays true of the tables (CreatePayment of
\* PaymentService and the statuses its handler maps errors to).
THEOREM CreateAnswersHold == Spec => []CreateAnswersTrue
<1>1. Inv => CreateAnswersTrue
  BY DEF Inv
<1> QED
  BY <1>1, InvHolds, PTL

\* So does what the refunds have answered; in particular two refunds never
\* turn each other away (RefundPayment, RefundPaymentAtomic).
THEOREM RefundAnswersHold == Spec => []RefundAnswersTrue
<1>1. Inv => RefundAnswersTrue
  BY DEF Inv
<1> QED
  BY <1>1, InvHolds, PTL

\* The three statements that change committed rows move one payment one step
\* along its lifecycle.
LEMMA EffectsFollowLifecycle ==
    ASSUME Inv, NEW c \in Calls,
           \/ pc[c] = "insert" /\ InsertPayment(c)
           \/ pc[c] = "toProcessing" /\ UpdateToProcessing(c)
           \/ pc[c] = "commit" /\ ApplyTx(c)
    PROVE  LifecycleStep
<1>1. CASE pc[c] = "insert" /\ InsertPayment(c)
  <2>1. c \in Creates /\ status[c] = "absent"
    BY <1>1 DEF Inv, CreateInv, RefundInv
  <2> QED
    BY <1>1, <2>1 DEF Inv, TypeOK, InsertPayment, LifecycleStep
<1>2. CASE pc[c] = "toProcessing" /\ UpdateToProcessing(c)
  <2>1. c \in Creates /\ status[c] = "initiated"
    BY <1>2 DEF Inv, CreateInv, RefundInv
  <2> QED
    BY <1>2, <2>1 DEF Inv, TypeOK, UpdateToProcessing, LifecycleStep,
       ValidTransition
<1>3. CASE pc[c] = "commit" /\ ApplyTx(c)
  <2>1. /\ Target(c) \in Creates
        /\ ValidTransition(status[Target(c)], tx[c].row)
    <3>1. CASE c \in Creates
      BY <1>3, <3>1 DEF Inv, CreateInv, Target, ValidTransition
    <3>2. CASE c \in Refunds
      BY <1>3, <3>2, CallsAssumption DEF Inv, RefundInv, Target, ValidTransition
    <3> QED
      BY <3>1, <3>2
  <2>2. refunds \subseteq refunds' /\ outbox \subseteq outbox'
    BY <1>3 DEF ApplyTx
  <2> QED
    BY <1>3, <2>1, <2>2 DEF Inv, TypeOK, ApplyTx, LifecycleStep
<1> QED
  BY <1>1, <1>2, <1>3

\* Every step leaves the tables alone or moves them along the lifecycle.
LEMMA StepFollowsLifecycle == Inv /\ [Next]_vars => [LifecycleStep]_vars
<1> SUFFICES ASSUME Inv, Next
             PROVE  LifecycleStep
  BY DEF LifecycleStep
<1>1. UNCHANGED dbVars => LifecycleStep
  BY DEF LifecycleStep
<1>2. ASSUME NEW c \in Creates, CreateStep(c)
      PROVE  LifecycleStep
  BY <1>1, <1>2, EffectsFollowLifecycle
  DEF CreateStep, CreatePayment, UpdatePaymentStatus, Route, StartAttempt,
      ChargeCaptured, ChargeRefused, ChargeRetryable, UpdateSettled, Live
<1>3. ASSUME NEW c \in Refunds, RefundStep(c)
      PROVE  LifecycleStep
  BY <1>1, <1>3 DEF RefundStep, LookupPayment, InsertRefund, UpdateRefunded
<1>4. ASSUME NEW c \in Calls, TxStep(c) \/ Fault(c)
      PROVE  LifecycleStep
  BY <1>1, <1>4, EffectsFollowLifecycle
  DEF TxStep, Fault, EnqueueTx, Commit, DBError, LostAck, Cancel, Live
<1>5. ASSUME NEW c \in Calls, NEW r, ReceiveCreate(c, r) \/ ReceiveRefund(c, r)
      PROVE  LifecycleStep
  BY <1>1, <1>5 DEF ReceiveCreate, ReceiveRefund
<1>6. CASE Crash
  BY <1>1, <1>6 DEF Crash
<1> QED
  BY <1>2, <1>3, <1>4, <1>5, <1>6 DEF Next

\* A payment's status moves only along ValidTransition, and no refund or event
\* is ever taken back.
THEOREM LifecycleHolds == Spec => Lifecycle
BY InvHolds, StepFollowsLifecycle, PTL DEF Spec, Lifecycle

-----------------------------------------------------------------------------
(* The service implements the ledger.                                      *)

\* Empty tables are an empty ledger.
LEMMA InitImplements == Init => L!Init
BY DEF Init, L!Init, LedgerKey

\* A request that arrives belongs to no payment yet, so that the ledger's keys
\* are as they were: they change with the rows only.
LEMMA KeysUnchanged ==
    ASSUME Inv, UNCHANGED status,
           \/ UNCHANGED req
           \/ \E c \in Calls : \E r : pc[c] = "idle" /\ req' = [req EXCEPT ![c] = r]
    PROVE  UNCHANGED LedgerKey
<1>1. \A d \in Creates : status[d] # "absent" => req'[d] = req[d]
  BY DEF Inv, TypeOK, CreateInv
<1> QED
  BY <1>1 DEF LedgerKey

\* A step that leaves the tables and the money alone is none of the ledger's.
LEMMA StutterImplements ==
    ASSUME Inv, UNCHANGED <<captures, dbVars>>,
           \/ UNCHANGED req
           \/ \E c \in Calls : \E r : pc[c] = "idle" /\ req' = [req EXCEPT ![c] = r]
    PROVE  UNCHANGED L!vars
BY KeysUnchanged DEF L!vars

\* The insert opens the payment under a key that nobody owns.
LEMMA InsertImplements ==
    ASSUME Inv, NEW c \in Calls, pc[c] = "insert", ~CreateKeyTaken(req[c].key),
           InsertPayment(c), UNCHANGED <<callVars, pspVars>>
    PROVE  L!Next
<1> DEFINE k == req[c].key
<1>1. /\ c \in Creates /\ status[c] = "absent"
      /\ req[c] \in CreateInputs /\ k # NoKey
  BY DEF Inv, CreateInv, RefundInv
<1>2. \A q \in Creates : LedgerKey[q] # k
  BY <1>1 DEF LedgerKey, CreateKeyTaken
<1>3. LedgerKey' = [LedgerKey EXCEPT ![c] = k]
  BY <1>1 DEF LedgerKey, InsertPayment, Inv, TypeOK
<1>4. L!Open(c, k)
  BY <1>1, <1>2, <1>3 DEF L!Open, InsertPayment
<1>5. k \in {r.key : r \in CreateInputs} \ {NoKey}
  BY <1>1
<1> QED
  BY <1>1, <1>4, <1>5 DEF L!Next

\* The first update starts to process it.
LEMMA UpdateImplements ==
    ASSUME Inv, NEW c \in Calls, pc[c] = "toProcessing", UpdateToProcessing(c),
           UNCHANGED <<callVars, pspVars>>
    PROVE  L!Next
<1>1. c \in Creates /\ status[c] = "initiated"
  BY DEF Inv, CreateInv, RefundInv
<1>2. LedgerKey' = LedgerKey
  BY <1>1 DEF LedgerKey, UpdateToProcessing, Inv, TypeOK
<1>3. L!Process(c)
  BY <1>1, <1>2 DEF L!Process, UpdateToProcessing
<1> QED
  BY <1>1, <1>3 DEF L!Next

\* A charge that is captured is the first one.
LEMMA CaptureImplements ==
    ASSUME Inv, NEW c \in Creates, ChargeCaptured(c)
    PROVE  L!Next
<1>1. status[c] = "processing" /\ captures[c] = 0
  BY DEF Inv, CreateInv, ChargeCaptured
<1>2. captures' = [captures EXCEPT ![c] = 1]
  BY <1>1 DEF ChargeCaptured, Inv, TypeOK
<1>3. UNCHANGED LedgerKey
  BY KeysUnchanged DEF ChargeCaptured
<1>4. L!Capture(c)
  BY <1>1, <1>2, <1>3 DEF L!Capture, ChargeCaptured
<1> QED
  BY <1>4 DEF L!Next

\* A commit settles the payment of a create, or refunds that of a refund, with
\* the event in the same step.
LEMMA CommitImplements ==
    ASSUME Inv, NEW c \in Calls, pc[c] = "commit", ApplyTx(c),
           UNCHANGED <<callVars, pspVars>>
    PROVE  L!Next
<1>1. CASE c \in Creates
  <2> DEFINE final == IF captures[c] = 1 THEN "success" ELSE "failed"
  <2>1. /\ status[c] = "processing"
        /\ tx[c].row = final /\ tx[c].event = final
        /\ ~tx[c].refund /\ Target(c) = c
    BY <1>1 DEF Inv, CreateInv, Target
  <2>2. /\ status' = [status EXCEPT ![c] = final]
        /\ outbox' = outbox \cup {L!Event(c, c, final)}
    BY <2>1 DEF ApplyTx, L!Event
  <2>3. LedgerKey' = LedgerKey
    BY <1>1, <2>1, <2>2 DEF LedgerKey, Inv, TypeOK
  <2>4. L!Settle(c)
    BY <2>1, <2>2, <2>3 DEF L!Settle
  <2> QED
    BY <1>1, <2>4 DEF L!Next
<1>2. CASE c \in Refunds
  <2> DEFINE p == req[c].payment
  <2>1. c \notin Creates /\ c \notin refunds
    BY <1>2, CallsAssumption DEF Inv, RefundInv
  <2>2. /\ p \in Creates /\ status[p] = "success"
        /\ tx[c].row = "refunded" /\ tx[c].event = "refunded"
        /\ Target(c) = p
    BY <1>2, <2>1 DEF Inv, RefundInv, Target
  <2>3. \A e \in outbox : e.call # c
    BY <2>1 DEF Inv, OutboxMatchesTables, ExpectedOutbox
  <2>4. /\ status' = [status EXCEPT ![p] = "refunded"]
        /\ outbox' = outbox \cup {L!Event(c, p, "refunded")}
    BY <2>2 DEF ApplyTx, L!Event
  <2>5. LedgerKey' = LedgerKey
    BY <2>2, <2>4 DEF LedgerKey, Inv, TypeOK
  <2>6. L!Refund(p, c)
    BY <2>2, <2>3, <2>4, <2>5 DEF L!Refund
  <2> QED
    BY <1>2, <2>2, <2>6 DEF L!Next
<1> QED
  BY <1>1, <1>2

\* Every step of a call, every fault and every crash is a step of the ledger,
\* or none.
LEMMA StepImplements == Inv /\ [Next]_vars => [L!Next]_(L!vars)
<1> SUFFICES ASSUME Inv, [Next]_vars
             PROVE  L!Next \/ UNCHANGED L!vars
  OBVIOUS
<1>1. CASE UNCHANGED vars
  BY <1>1, StutterImplements DEF vars
<1>2. ASSUME NEW c \in Calls, NEW r, ReceiveCreate(c, r) \/ ReceiveRefund(c, r)
      PROVE  UNCHANGED L!vars
  BY <1>2, StutterImplements DEF ReceiveCreate, ReceiveRefund
<1>3. ASSUME NEW c \in Creates, CreateStep(c)
      PROVE  L!Next \/ UNCHANGED L!vars
  BY <1>3, StutterImplements, InsertImplements, UpdateImplements,
     CaptureImplements
  DEF CreateStep, CreatePayment, UpdatePaymentStatus, Route, StartAttempt,
      ChargeRefused, ChargeRetryable, UpdateSettled, Live
<1>4. ASSUME NEW c \in Refunds, RefundStep(c)
      PROVE  UNCHANGED L!vars
  BY <1>4, StutterImplements
  DEF RefundStep, LookupPayment, InsertRefund, UpdateRefunded
<1>5. ASSUME NEW c \in Calls, TxStep(c) \/ Fault(c)
      PROVE  L!Next \/ UNCHANGED L!vars
  BY <1>5, StutterImplements, InsertImplements, UpdateImplements,
     CommitImplements
  DEF TxStep, Fault, EnqueueTx, Commit, DBError, LostAck, Cancel, Live
<1>6. CASE Crash
  BY <1>6, StutterImplements DEF Crash
<1> QED
  BY <1>1, <1>2, <1>3, <1>4, <1>5, <1>6 DEF Next

\* The payment service implements Ledger: under any interleaving of calls, and
\* any fault or crash, a key names one payment, its money is captured at most
\* once and while it is processing, and it is settled or refunded in one step
\* with the event that tells the merchant.
THEOREM LedgerImplemented == Spec => ImplementsLedger
BY InitImplements, StepImplements, InvHolds, PTL
DEF Spec, ImplementsLedger, L!Spec
=============================================================================
