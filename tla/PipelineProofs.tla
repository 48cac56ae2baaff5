--------------------------- MODULE PipelineProofs ---------------------------
(***************************************************************************)
(* Theorems about Pipeline: the ledger and the outbox together keep what   *)
(* each of them keeps alone, and what a merchant is told is true.          *)
(*                                                                         *)
(* Every step of the pipeline is a step of Outbox, or none, so Inv of      *)
(* Outbox holds of it.  PipelineInv is then inductive: an event is         *)
(* recorded and enqueued in one step, and what it says of its payment is   *)
(* never taken back by a later step of the ledger.                         *)
(***************************************************************************)
EXTENDS Pipeline, OutboxProofs

\* The part of the pipeline's next step that belongs to the outbox.
LEMMA StepIsOutboxStep == [PipelineNext]_allVars => [Next]_vars
<1> SUFFICES ASSUME [PipelineNext]_allVars
             PROVE  Next \/ UNCHANGED vars
  OBVIOUS
<1>1. CASE UNCHANGED allVars
  BY <1>1 DEF allVars, vars
<1>2. CASE Quietly
  BY <1>2 DEF Quietly
<1>3. CASE \E e \in Events : Publish(e)
  BY <1>3 DEF Publish, Next
<1>4. CASE Deliveries
  BY <1>4 DEF Deliveries, Next
<1> QED
  BY <1>1, <1>2, <1>3, <1>4 DEF PipelineNext

\* The outbox of the pipeline is the outbox on its own: all that is proved of
\* Outbox holds of the pipeline.
LEMMA PipelineIsOutbox == PipelineSpec => Spec
<1>1. PipelineInit => Init
  BY DEF PipelineInit
<1> QED
  BY <1>1, StepIsOutboxStep, PTL DEF PipelineSpec, Spec

-----------------------------------------------------------------------------
(* The events and what they say.                                           *)

\* An event of a payment has three fields, which tell it from the others.
LEMMA EventFields ==
    ASSUME NEW c, NEW p, NEW t
    PROVE  /\ L!Event(c, p, t).payment = p
           /\ L!Event(c, p, t).type = t
           /\ L!Event(c, p, t).call = c
BY DEF L!Event

\* The payment of an event is one of the payments, and its type one of three.
LEMMA EventTypes ==
    ASSUME NEW e \in Events
    PROVE  e.payment \in Payments /\ e.type \in {"success", "failed", "refunded"}
BY EventsAssumption DEF SettleEvents, RefundEvents

\* The settlements of a payment are events of the outbox.
LEMMA SettlementIsEvent ==
    ASSUME NEW p \in Payments, NEW t \in {"success", "failed"}
    PROVE  L!Event(p, p, t) \in Events
BY EventsAssumption DEF SettleEvents, L!Event

-----------------------------------------------------------------------------
(* One lemma for each kind of step.                                        *)

\* Deliveries move no row into the outbox or out of it, and acknowledge only
\* what is there.
LEMMA PipelineDeliveries ==
    ASSUME Inv, PipelineInv, Deliveries
    PROVE  PipelineInv'
<1>1. UNCHANGED ledgerVars
  BY DEF Deliveries
<1>2. \A e \in Events : status'[e] = "absent" <=> status[e] = "absent"
  <2>1. ASSUME NEW e \in Events, BecomeDue(e) \/ BecomeStale(e)
        PROVE  UNCHANGED status
    BY <2>1 DEF BecomeDue, BecomeStale
  <2>2. ASSUME NEW w \in Workers, RoundStep(w) \/ WorkerFault(w) \/ Restart(w),
               NEW e \in Events
        PROVE  status'[e] = "absent" <=> status[e] = "absent"
    BY <2>2
    DEF RoundStep, WorkerFault, Restart, rowVars, ReclaimStaleProcessing, Stale,
        ClaimBatch, ClaimFails, TakeRows, Batches, Due, EndRound, ReclaimFails,
        MarkFails, Stop
  <2>3. ASSUME NEW w \in Workers, NEW f \in Events, HandleOne(w, f),
               NEW e \in Events
        PROVE  status'[e] = "absent" <=> status[e] = "absent"
    BY <2>3
    DEF HandleOne, rowVars, StartOne, DeliverOk, DeliverError, Mark, MarkDelivered,
        MarkDead, MarkRetry, SetTerminal, Inv, TypeOK
  <2> QED
    BY <2>1, <2>2, <2>3 DEF Deliveries
<1>3. acked' \subseteq events
  <2>1. ASSUME NEW w \in Workers, NEW e \in Events, DeliverOk(w, e)
        PROVE  acked' \subseteq events
    <3>1. status[e] # "absent"
      BY <2>1 DEF DeliverOk, Inv, TaskInv
    <3> QED
      BY <2>1, <3>1 DEF DeliverOk, PipelineInv
  <2>2. acked' = acked \/ \E w \in Workers, e \in Events : DeliverOk(w, e)
    BY DEF Deliveries, ghostVars, BecomeDue, BecomeStale, RoundStep, WorkerFault,
       Restart, ReclaimStaleProcessing, ClaimBatch, ClaimFails, EndRound,
       ReclaimFails, MarkFails, Stop, HandleOne, StartOne, DeliverError, Mark,
       MarkDelivered, MarkDead, MarkRetry
  <2> QED
    BY <2>1, <2>2 DEF PipelineInv
<1> QED
  BY <1>1, <1>2, <1>3 DEF PipelineInv, ledgerVars

\* A step of the ledger without an event settles and refunds nothing: a payment
\* still processing has no event yet.
LEMMA PipelineQuietly ==
    ASSUME Inv, PipelineInv, Quietly
    PROVE  PipelineInv'
<1>1. events' = events /\ UNCHANGED <<status, acked>>
  BY DEF Quietly, vars
<1>2. PICK p \in Payments :
         \/ \E k \in Keys : L!Open(p, k)
         \/ L!Process(p) \/ L!Capture(p) \/ L!Settle(p)
         \/ \E r \in Refunds : L!Refund(p, r)
  BY DEF Quietly, L!Next
<1>3. ~L!Settle(p)
  <2> SUFFICES ASSUME L!Settle(p)
               PROVE  FALSE
    OBVIOUS
  <2>1. PICK final \in {"success", "failed"} : L!Event(p, p, final) \in events
    BY <1>1 DEF L!Settle
  <2> QED
    BY <2>1, EventFields DEF L!Settle, PipelineInv
<1>4. ASSUME NEW r \in Refunds
      PROVE  ~L!Refund(p, r)
  BY <1>1, EventFields DEF L!Refund
<1>5. CASE \/ \E k \in Keys : L!Open(p, k)
           \/ L!Process(p)
  BY <1>1, <1>5, EventTypes DEF L!Open, L!Process, PipelineInv
<1>6. CASE L!Capture(p)
  BY <1>1, <1>6, EventTypes DEF L!Capture, PipelineInv
<1> QED
  BY <1>2, <1>3, <1>4, <1>5, <1>6

\* The event that is enqueued is the one the ledger records.
LEMMA PipelinePublish ==
    ASSUME Inv, PipelineInv, NEW e \in Events, Publish(e)
    PROVE  PipelineInv'
<1>1. /\ e \notin events /\ events' = events \cup {e}
      /\ status' = [status EXCEPT ![e] = "PENDING"]
      /\ acked' = acked
  BY DEF Publish, Enqueue, ghostVars
<1>2. /\ events' \subseteq Events
      /\ \A f \in Events : f \in events' <=> status'[f] # "absent"
      /\ acked' \subseteq events'
  BY <1>1 DEF PipelineInv, Inv, TypeOK
<1>3. PICK p \in Payments :
         L!Settle(p) \/ \E r \in Refunds : L!Refund(p, r)
  BY <1>1 DEF Publish, L!Next, L!Open, L!Process, L!Capture
<1>4. CASE L!Settle(p)
  <2> DEFINE final == IF captures[p] = 1 THEN "success" ELSE "failed"
  <2>1. /\ e = L!Event(p, p, final)
        /\ paid[p] = "processing" /\ paid' = [paid EXCEPT ![p] = final]
        /\ captures' = captures
    BY <1>1, <1>4 DEF L!Settle
  <2>2. e.payment = p /\ e.type = final
    BY <2>1, EventFields
  <2>3. \A f \in events : f.payment # p
    BY <2>1, EventTypes DEF PipelineInv
  <2>4. \A f \in events' :
          /\ f.type = "success" => paid'[f.payment] \in {"success", "refunded"}
          /\ f.type = "failed" => paid'[f.payment] = "failed"
          /\ f.type = "refunded" => paid'[f.payment] = "refunded"
    BY <1>1, <2>1, <2>2, <2>3, EventTypes DEF PipelineInv
  <2>5. \A q \in Payments :
          /\ paid'[q] \in {"success", "refunded"} =>
                captures'[q] = 1 /\ L!Event(q, q, "success") \in events'
          /\ paid'[q] \in {"absent", "initiated", "failed"} => captures'[q] = 0
    BY <1>1, <2>1 DEF PipelineInv
  <2>6. paid' \in [Payments -> {"absent", "initiated", "processing", "success",
                                "failed", "refunded"}]
    BY <2>1 DEF PipelineInv
  <2> QED
    BY <1>2, <2>1, <2>4, <2>5, <2>6 DEF PipelineInv
<1>5. ASSUME NEW r \in Refunds, L!Refund(p, r)
      PROVE  PipelineInv'
  <2>1. /\ e = L!Event(r, p, "refunded")
        /\ paid[p] = "success" /\ paid' = [paid EXCEPT ![p] = "refunded"]
        /\ captures' = captures
    BY <1>1, <1>5 DEF L!Refund
  <2>2. e.payment = p /\ e.type = "refunded"
    BY <2>1, EventFields
  <2>3. \A f \in events' :
          /\ f.type = "success" => paid'[f.payment] \in {"success", "refunded"}
          /\ f.type = "failed" => paid'[f.payment] = "failed"
          /\ f.type = "refunded" => paid'[f.payment] = "refunded"
    BY <1>1, <2>1, <2>2, EventTypes DEF PipelineInv
  <2>4. \A q \in Payments :
          /\ paid'[q] \in {"success", "refunded"} =>
                captures'[q] = 1 /\ L!Event(q, q, "success") \in events'
          /\ paid'[q] \in {"absent", "initiated", "failed"} => captures'[q] = 0
    BY <1>1, <2>1 DEF PipelineInv
  <2>5. paid' \in [Payments -> {"absent", "initiated", "processing", "success",
                                "failed", "refunded"}]
    BY <2>1 DEF PipelineInv
  <2> QED
    BY <1>2, <2>1, <2>3, <2>4, <2>5 DEF PipelineInv
<1> QED
  BY <1>3, <1>4, <1>5

-----------------------------------------------------------------------------
(* The theorems.                                                           *)

LEMMA PipelineInvInit == PipelineInit => PipelineInv
BY DEF PipelineInit, Init, L!Init, PipelineInv

LEMMA PipelineInvStep == Inv /\ PipelineInv /\ [PipelineNext]_allVars => PipelineInv'
<1> SUFFICES ASSUME Inv, PipelineInv, [PipelineNext]_allVars
             PROVE  PipelineInv'
  OBVIOUS
<1>1. CASE UNCHANGED allVars
  BY <1>1 DEF allVars, vars, ledgerVars, PipelineInv
<1>2. CASE PipelineNext
  BY <1>2, PipelineQuietly, PipelinePublish, PipelineDeliveries DEF PipelineNext
<1> QED
  BY <1>1, <1>2

\* Rows and recorded events match, and recorded events are true, whatever
\* faults and crashes the workers meet while payments go on.
THEOREM PipelineInvHolds == PipelineSpec => []PipelineInv
BY PipelineInvInit, PipelineInvStep, PipelineIsOutbox, InvHolds, PTL
DEF PipelineSpec

\* What a merchant has acknowledged is true of the payment and stays true: no
\* success without the money on record, no failure of a charge that went
\* through, no refund whose success is never told (enqueueOutboxPaymentEventTx
\* in the transaction of the change, and the worker that delivers it).
THEOREM MerchantIsToldTruth == PipelineSpec => []MerchantToldTruth
<1>1. PipelineInv => MerchantToldTruth
  <2> SUFFICES ASSUME PipelineInv, NEW e \in acked
               PROVE  /\ e.type = "success" =>
                            /\ paid[e.payment] \in {"success", "refunded"}
                            /\ captures[e.payment] = 1
                      /\ e.type = "failed" =>
                            paid[e.payment] = "failed" /\ captures[e.payment] = 0
                      /\ e.type = "refunded" =>
                            /\ paid[e.payment] = "refunded"
                            /\ status[L!Event(e.payment, e.payment, "success")] # "absent"
    BY DEF MerchantToldTruth
  <2>1. e \in events /\ e.payment \in Payments
    BY EventTypes DEF PipelineInv
  <2>2. paid[e.payment] \in {"success", "refunded"} =>
           status[L!Event(e.payment, e.payment, "success")] # "absent"
    BY <2>1, SettlementIsEvent DEF PipelineInv
  <2> QED
    BY <2>1, <2>2 DEF PipelineInv
<1> QED
  BY <1>1, PipelineInvHolds, PTL

\* What is proved of the outbox on its own holds of the pipeline's: one owner
\* for an event whose claim is not overtaken, and no acknowledged event given up
\* unless its own 2xx was forgotten or its own claim overtaken.
THEOREM PipelineDelivers ==
    PipelineSpec => /\ []Inv
                    /\ []DeadMeansNoSuccess
                    /\ Final
                    /\ ImplementsDelivery
BY PipelineIsOutbox, InvHolds, DeadIsHonest, FinalHolds, DeliveryImplemented, PTL
=============================================================================
