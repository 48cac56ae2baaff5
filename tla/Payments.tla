------------------------------ MODULE Payments ------------------------------
(***************************************************************************)
(* Payments: the calls that create and refund payments, from the moment    *)
(* the handler hands them to PaymentService until they answer, and the     *)
(* rows they leave in PostgreSQL (payments, refunds, outbox_events).       *)
(*                                                                         *)
(* Every call is a goroutine of the HTTP server.  Its steps are the        *)
(* statements it sends to the database and the charges it sends to the     *)
(* PSP, and the steps of different calls interleave.  Between any two of   *)
(* them the client may disconnect (the request context is cancelled), the  *)
(* database may fail, the acknowledgement of a statement that took effect  *)
(* may be lost, or the whole process may die.                              *)
(*                                                                         *)
(* A payment is named by the call that creates it, a refund and an outbox  *)
(* event by the call that inserts it: the code draws fresh UUIDs for them. *)
(***************************************************************************)
EXTENDS Router, FiniteSets

CONSTANTS
    Creates,        \* calls of POST /v1/payments
    Refunds,        \* calls of POST /v1/payments/{id}/refund
    CreateInputs,   \* what a create may ask: [key, amount, currency]
    RefundInputs,   \* what a refund may ask: [payment, key, amount, currency]
    Currencies,     \* the supported currencies (allowedCurrencies)
    NoKey,          \* the empty idempotency key
    MaxInt,         \* the largest amount that fits in the amount columns
    MaxAttempts     \* charges tried for a payment (retry.Config.MaxAttempts)

Calls == Creates \cup Refunds

ASSUME CallsAssumption == Creates \cap Refunds = {}

ASSUME InputsAssumption ==
    /\ \A r \in CreateInputs : r.amount \in Int
    /\ \A r \in RefundInputs : r.amount \in Int /\ r.payment \in Creates

ASSUME AttemptsAssumption == MaxAttempts \in Nat \ {0}

VARIABLES
    pc,         \* where each call is
    req,        \* what each call asks for
    reply,      \* what each call answered (the HTTP status class)
    cancelled,  \* the calls whose client has gone away
    attempt,    \* failed charge attempts of each create
    settle,     \* the outcome a create is about to record
    captures,   \* how often the PSP captured the money of each payment
    tx,         \* what each call has written in its open transaction
    status,     \* payments.status (committed)
    refunds,    \* the committed rows of refunds
    outbox      \* the committed rows of outbox_events

callVars == <<req, cancelled>>
pspVars  == <<attempt, settle, captures>>
dbVars   == <<status, refunds, outbox>>
vars     == <<pc, req, reply, cancelled, attempt, settle, captures, tx,
              status, refunds, outbox>>

-----------------------------------------------------------------------------
(* The payment lifecycle (internal/domain).                                *)

Statuses == {"initiated", "processing", "success", "failed", "refunded"}

ValidTransition(from, to) ==
    \/ from = "initiated"  /\ to = "processing"
    \/ from = "processing" /\ to \in {"success", "failed"}
    \/ from = "success"    /\ to = "refunded"

-----------------------------------------------------------------------------
(* Requests, transactions and the locks they hold.                         *)

NoRequest == [key |-> NoKey, amount |-> 0]

\* validateCreatePaymentRequest.
ValidCreate(r) ==
    /\ r.amount > 0
    /\ r.amount <= MaxInt
    /\ r.currency \in Currencies
    /\ r.key # NoKey

\* validateRefundRequest: the width of the amount is looked at only after the
\* payment has been read.
ValidRefund(r) ==
    /\ r.amount > 0
    /\ r.currency \in Currencies
    /\ r.key # NoKey

\* A transaction with nothing in it: no status written on the payment's row,
\* no event, no refund row.
NoTx == [row |-> "none", event |-> "none", refund |-> FALSE]

\* The payment a call works on.
Target(c) == IF c \in Creates THEN c ELSE req[c].payment

\* Another transaction holds the lock of the payment's row.
RowLocked(p, c) == \E d \in Calls \ {c} : tx[d].row # "none" /\ Target(d) = p

\* Another transaction has inserted, and not yet committed, a refund with the
\* same key: PostgreSQL makes the second insert wait for it.
KeyPending(k, c) == \E d \in Refunds \ {c} : tx[d].refund /\ req[d].key = k

\* Mutant of CreateKeyTaken: only settled payments own their key.
CreateKeyTakenWhenSettled(k) ==
    \E d \in Creates :
        status[d] \in {"success", "failed", "refunded"} /\ req[d].key = k

\* The unique index on payments.idempotency_key.
CreateKeyTaken(k) == \E d \in Creates : status[d] # "absent" /\ req[d].key = k

\* The unique index on refunds.idempotency_key.
RefundKeyTaken(k) == \E d \in refunds : req[d].key = k

InFlight(c) == pc[c] \notin {"idle", "done", "lost"}

\* The statement or charge a call sends while its client is still there.
Live(c, l) == pc[c] = l /\ c \notin cancelled

-----------------------------------------------------------------------------
(* How a step ends.                                                        *)

\* The call goes on at l, its transaction as it was.
Goto(c, l) ==
    /\ pc' = [pc EXCEPT ![c] = l]
    /\ UNCHANGED <<reply, tx>>

\* The call goes on at l, with t in its open transaction.
WriteTx(c, l, t) ==
    /\ pc' = [pc EXCEPT ![c] = l]
    /\ tx' = [tx EXCEPT ![c] = t]
    /\ UNCHANGED reply

\* The call answers; the transaction it has open is over (a deferred rollback
\* if it was not committed).
Return(c, answer) ==
    /\ pc' = [pc EXCEPT ![c] = "done"]
    /\ reply' = [reply EXCEPT ![c] = answer]
    /\ tx' = [tx EXCEPT ![c] = NoTx]

-----------------------------------------------------------------------------
Init ==
    /\ pc = [c \in Calls |-> "idle"]
    /\ req = [c \in Calls |-> NoRequest]
    /\ reply = [c \in Calls |-> "none"]
    /\ cancelled = {}
    /\ attempt = [c \in Creates |-> 0]
    /\ settle = [c \in Creates |-> "none"]
    /\ captures = [c \in Creates |-> 0]
    /\ tx = [c \in Calls |-> NoTx]
    /\ status = [c \in Creates |-> "absent"]
    /\ refunds = {}
    /\ outbox = {}

\* A create arrives; invalid input is answered before anything is stored.
ReceiveCreate(c, r) ==
    /\ pc[c] = "idle"
    /\ req' = [req EXCEPT ![c] = r]
    /\ \/ ValidCreate(r)  /\ Goto(c, "insert")
       \/ ~ValidCreate(r) /\ Return(c, "invalid")
    /\ UNCHANGED <<cancelled, pspVars, dbVars>>

ReceiveRefund(c, r) ==
    /\ pc[c] = "idle"
    /\ req' = [req EXCEPT ![c] = r]
    /\ \/ ValidRefund(r)  /\ Goto(c, "lookup")
       \/ ~ValidRefund(r) /\ Return(c, "invalid")
    /\ UNCHANGED <<cancelled, pspVars, dbVars>>

-----------------------------------------------------------------------------
(* Creating a payment.                                                     *)

\* What the three statements that commit on their own, or commit a
\* transaction, do to the database.
InsertPayment(c) ==
    /\ status' = [status EXCEPT ![c] = "initiated"]
    /\ UNCHANGED <<refunds, outbox>>

UpdateToProcessing(c) ==
    /\ status' = [status EXCEPT ![c] = "processing"]
    /\ UNCHANGED <<refunds, outbox>>

ApplyTx(c) ==
    /\ status' = [status EXCEPT ![Target(c)] = tx[c].row]
    /\ refunds' = IF tx[c].refund THEN refunds \cup {c} ELSE refunds
    /\ outbox' = IF tx[c].event = "none" THEN outbox
                 ELSE outbox \cup {[call |-> c, payment |-> Target(c),
                                    type |-> tx[c].event]}

\* Mutant of CreatePayment: INSERT ... ON CONFLICT DO UPDATE restarts the
\* payment that owns the key.
CreatePaymentUpserts(c) ==
    /\ Live(c, "insert")
    /\ \/ \E d \in Creates :
             /\ status[d] # "absent" /\ req[d].key = req[c].key
             /\ status' = [status EXCEPT ![d] = "initiated"]
             /\ Return(c, "conflict")
             /\ UNCHANGED <<refunds, outbox>>
       \/ ~CreateKeyTaken(req[c].key) /\ InsertPayment(c) /\ Goto(c, "toProcessing")
    /\ UNCHANGED <<callVars, pspVars>>

\* Mutant of CreatePayment: a key that is taken is taken for a payment made.
CreatePaymentTakenIsFine(c) ==
    /\ Live(c, "insert")
    /\ \/ CreateKeyTaken(req[c].key) /\ Return(c, "success") /\ UNCHANGED dbVars
       \/ ~CreateKeyTaken(req[c].key) /\ InsertPayment(c) /\ Goto(c, "toProcessing")
    /\ UNCHANGED <<callVars, pspVars>>

\* repo.CreatePayment: a key that is taken is a conflict.
CreatePayment(c) ==
    /\ Live(c, "insert")
    /\ \/ /\ CreateKeyTaken(req[c].key)
          /\ Return(c, "conflict")
          /\ UNCHANGED dbVars
       \/ /\ ~CreateKeyTaken(req[c].key)
          /\ InsertPayment(c)
          /\ Goto(c, "toProcessing")
    /\ UNCHANGED <<callVars, pspVars>>

\* repo.UpdatePaymentStatus(initiated -> processing).
UpdatePaymentStatus(c) ==
    /\ Live(c, "toProcessing")
    /\ status[c] = "initiated"
    /\ UpdateToProcessing(c)
    /\ Goto(c, "route")
    /\ UNCHANGED <<callVars, pspVars>>

\* router.Select: without a route the payment fails, with no charge.
Route(c) ==
    /\ pc[c] = "route"
    /\ \/ /\ Select(req[c].currency, req[c].amount) # NoRoute
          /\ Goto(c, "attempt")
          /\ UNCHANGED settle
       \/ /\ Select(req[c].currency, req[c].amount) = NoRoute
          /\ settle' = [settle EXCEPT ![c] = "failed"]
          /\ Goto(c, "update")
    /\ UNCHANGED <<callVars, attempt, captures, dbVars>>

\* The head of the retry loop, and the backoff before it: a cancelled context
\* ends the loop with an error.
StartAttempt(c) ==
    /\ pc[c] = "attempt"
    /\ \/ /\ c \notin cancelled
          /\ Goto(c, "charging")
          /\ UNCHANGED settle
       \/ /\ c \in cancelled
          /\ settle' = [settle EXCEPT ![c] = "failed"]
          /\ Goto(c, "update")
    /\ UNCHANGED <<callVars, attempt, captures, dbVars>>

\* The PSP captures the money.  It may do so after the client has gone: the
\* mocks look at the context only while they sleep.
ChargeCaptured(c) ==
    /\ pc[c] = "charging"
    /\ captures' = [captures EXCEPT ![c] = @ + 1]
    /\ settle' = [settle EXCEPT ![c] = "success"]
    /\ Goto(c, "update")
    /\ UNCHANGED <<callVars, attempt, dbVars>>

\* Mutant of ChargeRefused: the PSP captured the money but its answer was lost.
ChargeRefusedAfterCapture(c) ==
    /\ pc[c] = "charging"
    /\ captures' = [captures EXCEPT ![c] = @ + 1]
    /\ settle' = [settle EXCEPT ![c] = "failed"]
    /\ Goto(c, "update")
    /\ UNCHANGED <<callVars, attempt, dbVars>>

\* A decline, an error that is not retryable, an open circuit breaker, or a
\* context cancelled while the PSP was working.
ChargeRefused(c) ==
    /\ pc[c] = "charging"
    /\ settle' = [settle EXCEPT ![c] = "failed"]
    /\ Goto(c, "update")
    /\ UNCHANGED <<callVars, attempt, captures, dbVars>>

\* Mutant of ChargeRetryable: the error came after the capture (a timeout).
ChargeRetryableAfterCapture(c) ==
    /\ pc[c] = "charging"
    /\ attempt[c] + 1 < MaxAttempts
    /\ attempt' = [attempt EXCEPT ![c] = @ + 1]
    /\ captures' = [captures EXCEPT ![c] = @ + 1]
    /\ Goto(c, "attempt")
    /\ UNCHANGED <<callVars, settle, dbVars>>

\* A retryable error: another attempt, unless this was the last.
ChargeRetryable(c) ==
    /\ pc[c] = "charging"
    /\ attempt' = [attempt EXCEPT ![c] = @ + 1]
    /\ \/ /\ attempt[c] + 1 < MaxAttempts
          /\ Goto(c, "attempt")
          /\ UNCHANGED settle
       \/ /\ attempt[c] + 1 = MaxAttempts
          /\ settle' = [settle EXCEPT ![c] = "failed"]
          /\ Goto(c, "update")
    /\ UNCHANGED <<callVars, captures, dbVars>>

\* UpdatePaymentStatusWithPSP or UpdatePaymentFailed: the transaction opens
\* with UPDATE ... WHERE status = 'processing'.
UpdateSettled(c) ==
    /\ Live(c, "update")
    /\ status[c] = "processing"
    /\ WriteTx(c, "enqueue", [NoTx EXCEPT !.row = settle[c]])
    /\ UNCHANGED <<callVars, pspVars, dbVars>>

-----------------------------------------------------------------------------
(* Refunding a payment.                                                    *)

\* The checks RefundPayment makes on the payment it has read.
Refundable(c) ==
    LET p == req[c].payment
    IN  /\ status[p] = "success"
        /\ req[c].currency = req[p].currency
        /\ req[c].amount <= req[p].amount

\* GetPaymentByID and the checks.  What was read may be stale by the time the
\* transaction starts.
LookupPayment(c) ==
    /\ Live(c, "lookup")
    /\ \/ status[req[c].payment] = "absent" /\ Return(c, "not_found")
       \/ /\ status[req[c].payment] # "absent"
          /\ ~Refundable(c)
          /\ Return(c, "invalid")
       \/ Refundable(c) /\ Goto(c, "refund")
    /\ UNCHANGED <<callVars, pspVars, dbVars>>

\* RefundPaymentAtomic, first statement: insert the refund, waiting for a
\* transaction that holds the same key.
InsertRefund(c) ==
    /\ Live(c, "refund")
    /\ ~KeyPending(req[c].key, c)
    /\ \/ RefundKeyTaken(req[c].key) /\ Return(c, "conflict")
       \/ /\ ~RefundKeyTaken(req[c].key)
          /\ WriteTx(c, "toRefunded", [NoTx EXCEPT !.refund = TRUE])
    /\ UNCHANGED <<callVars, pspVars, dbVars>>

\* Mutant of UpdateRefunded: UPDATE ... WHERE id only.
UpdateRefundedUnchecked(c) ==
    /\ Live(c, "toRefunded")
    /\ ~RowLocked(req[c].payment, c)
    /\ WriteTx(c, "enqueue", [tx[c] EXCEPT !.row = "refunded"])
    /\ UNCHANGED <<callVars, pspVars, dbVars>>

\* Mutant of UpdateRefunded: no row to update is taken for a refund made.
UpdateRefundedNoRowIsFine(c) ==
    /\ Live(c, "toRefunded")
    /\ \/ status[req[c].payment] # "success" /\ Return(c, "success")
       \/ /\ status[req[c].payment] = "success"
          /\ ~RowLocked(req[c].payment, c)
          /\ WriteTx(c, "enqueue", [tx[c] EXCEPT !.row = "refunded"])
    /\ UNCHANGED <<callVars, pspVars, dbVars>>

\* Second statement: UPDATE ... WHERE status = 'success'.  It waits for the
\* row's lock; no row left to update is a status mismatch, and a rollback.
UpdateRefunded(c) ==
    /\ Live(c, "toRefunded")
    /\ \/ status[req[c].payment] # "success" /\ Return(c, "conflict")
       \/ /\ status[req[c].payment] = "success"
          /\ ~RowLocked(req[c].payment, c)
          /\ WriteTx(c, "enqueue", [tx[c] EXCEPT !.row = "refunded"])
    /\ UNCHANGED <<callVars, pspVars, dbVars>>

-----------------------------------------------------------------------------
(* The end of the three transactions.                                      *)

\* Mutant of EnqueueTx: the event is inserted on its own connection.
EnqueueOutsideTx(c) ==
    /\ Live(c, "enqueue")
    /\ outbox' = outbox \cup {[call |-> c, payment |-> Target(c), type |-> tx[c].row]}
    /\ Goto(c, "commit")
    /\ UNCHANGED <<callVars, pspVars, status, refunds>>

\* enqueueOutboxPaymentEventTx: the event goes into the same transaction.
EnqueueTx(c) ==
    /\ Live(c, "enqueue")
    /\ WriteTx(c, "commit", [tx[c] EXCEPT !.event = tx[c].row])
    /\ UNCHANGED <<callVars, pspVars, dbVars>>

\* tx.Commit, and the answer: a create says how the payment ended, a refund
\* that the refund succeeded.
Commit(c) ==
    /\ Live(c, "commit")
    /\ ApplyTx(c)
    /\ Return(c, IF c \in Creates THEN tx[c].row ELSE "success")
    /\ UNCHANGED <<callVars, pspVars>>

-----------------------------------------------------------------------------
(* What can go wrong around a call.                                        *)

DBSteps == {"insert", "toProcessing", "update", "enqueue", "commit",
            "lookup", "refund", "toRefunded"}

\* Mutant of DBError: the error of Commit is ignored.
DBErrorCommitIgnored(c) ==
    /\ pc[c] \in DBSteps
    /\ Return(c, IF pc[c] = "commit" THEN tx[c].row ELSE "error")
    /\ UNCHANGED <<callVars, pspVars, dbVars>>

\* Mutant of DBError: the deferred rollback is missing.
DBErrorNoRollback(c) ==
    /\ pc[c] \in DBSteps
    /\ pc' = [pc EXCEPT ![c] = "done"]
    /\ reply' = [reply EXCEPT ![c] = "error"]
    /\ UNCHANGED <<callVars, tx, pspVars, dbVars>>

\* A statement fails and has no effect: the database is unreachable, or the
\* context was cancelled.  The transaction is rolled back; HTTP 500.
DBError(c) ==
    /\ pc[c] \in DBSteps
    /\ Return(c, "error")
    /\ UNCHANGED <<callVars, pspVars, dbVars>>

\* A statement takes effect but its acknowledgement is lost (the connection
\* breaks, or the context is cancelled while it is under way): the call
\* answers HTTP 500 all the same.
LostAck(c) ==
    /\ \/ Live(c, "insert") /\ ~CreateKeyTaken(req[c].key) /\ InsertPayment(c)
       \/ Live(c, "toProcessing") /\ UpdateToProcessing(c)
       \/ Live(c, "commit") /\ ApplyTx(c)
    /\ Return(c, "error")
    /\ UNCHANGED <<callVars, pspVars>>

\* The client disconnects: the request's context is cancelled.
Cancel(c) ==
    /\ InFlight(c)
    /\ c \notin cancelled
    /\ cancelled' = cancelled \cup {c}
    /\ UNCHANGED <<pc, req, reply, tx, pspVars, dbVars>>

\* The process dies: the calls it was serving are gone and PostgreSQL rolls
\* their transactions back.  Nothing looks for them after the restart.
Crash ==
    /\ \E c \in Calls : InFlight(c)
    /\ pc' = [c \in Calls |-> IF InFlight(c) THEN "lost" ELSE pc[c]]
    /\ tx' = [c \in Calls |-> NoTx]
    /\ UNCHANGED <<callVars, reply, pspVars, dbVars>>

-----------------------------------------------------------------------------
CreateStep(c) ==
    \/ CreatePayment(c) \/ UpdatePaymentStatus(c) \/ Route(c)
    \/ StartAttempt(c) \/ ChargeCaptured(c) \/ ChargeRefused(c)
    \/ ChargeRetryable(c) \/ UpdateSettled(c)

RefundStep(c) == LookupPayment(c) \/ InsertRefund(c) \/ UpdateRefunded(c)

TxStep(c) == EnqueueTx(c) \/ Commit(c)

Fault(c) == DBError(c) \/ LostAck(c) \/ Cancel(c)

Next ==
    \/ \E c \in Creates : \E r \in CreateInputs : ReceiveCreate(c, r)
    \/ \E c \in Refunds : \E r \in RefundInputs : ReceiveRefund(c, r)
    \/ \E c \in Creates : CreateStep(c)
    \/ \E c \in Refunds : RefundStep(c)
    \/ \E c \in Calls : TxStep(c) \/ Fault(c)
    \/ Crash

Spec == Init /\ [][Next]_vars

\* A goroutine that can run does run, the PSP mocks and the database answer.
\* A call whose context is cancelled gets an error from its next statement.
\* No database failure is assumed to come to the rescue of a waiting call.
Progress(c) == TxStep(c) \/ (c \in cancelled /\ DBError(c))

Fairness ==
    /\ \A c \in Creates : WF_vars(CreateStep(c) \/ Progress(c))
    /\ \A c \in Refunds : WF_vars(RefundStep(c) \/ Progress(c))

FairSpec == Spec /\ Fairness

-----------------------------------------------------------------------------
(* Properties.                                                             *)

CreatePCs == {"insert", "toProcessing", "route", "attempt", "charging",
              "update", "enqueue", "commit"}
RefundPCs == {"lookup", "refund", "toRefunded", "enqueue", "commit"}
Ends      == {"idle", "done", "lost"}
Replies   == {"none", "success", "failed", "invalid", "not_found", "conflict",
              "error"}
Events    == [call : Calls, payment : Creates,
              type : {"success", "failed", "refunded"}]

\* Every variable has its type: in particular a transaction writes only final
\* statuses, and the events that go with them.
TypeOK ==
    /\ pc \in [Calls -> Ends \cup CreatePCs \cup RefundPCs]
    /\ req \in [Calls -> CreateInputs \cup RefundInputs \cup {NoRequest}]
    /\ reply \in [Calls -> Replies]
    /\ cancelled \subseteq Calls
    /\ attempt \in [Creates -> 0..MaxAttempts]
    /\ settle \in [Creates -> {"none", "success", "failed"}]
    /\ captures \in [Creates -> Nat]
    /\ tx \in [Calls -> [row    : {"none", "success", "failed", "refunded"},
                        event  : {"none", "success", "failed", "refunded"},
                        refund : BOOLEAN]]
    /\ status \in [Creates -> Statuses \cup {"absent"}]
    /\ refunds \subseteq Refunds
    /\ outbox \subseteq Events

\* The events that the committed payments and refunds call for: one
\* payment.success or payment.failed for each settled payment, and one
\* payment.refunded for each refund.
ExpectedOutbox ==
    {[call |-> c, payment |-> c, type |-> "success"] :
        c \in {d \in Creates : status[d] \in {"success", "refunded"}}}
    \cup
    {[call |-> c, payment |-> c, type |-> "failed"] :
        c \in {d \in Creates : status[d] = "failed"}}
    \cup
    {[call |-> r, payment |-> req[r].payment, type |-> "refunded"] :
        r \in refunds}

\* "Store payment changes and webhook events in the same database
\* transaction" (README): whatever fails, and wherever the process dies, the
\* outbox holds exactly the events the payments and refunds call for.
OutboxMatchesTables == outbox = ExpectedOutbox

\* However many creates carry a key, and however often a charge is retried,
\* the money of that key is captured at most once: the unique insert comes
\* before the first charge, and a capture ends the retries.
ChargedOncePerKey ==
    \A c, d \in Creates :
        /\ captures[c] <= 1
        /\ c # d /\ captures[c] > 0 /\ captures[d] > 0
             => req[c].key # req[d].key

\* What the payments table says about the money is true: a success has been
\* captured, a failed payment has not.  A payment still processing may have
\* been captured: see SettledOnReturn.
StatusMatchesMoney ==
    \A c \in Creates :
        /\ status[c] \in {"success", "refunded"} => captures[c] = 1
        /\ status[c] \in {"absent", "initiated", "failed"} => captures[c] = 0

\* Concurrent refunds of a payment, which all may have read it as a success:
\* a payment is refunded exactly when one refund row refers to it, for at most
\* its amount and in its currency, and no key is used twice.
RefundedExactlyOnce ==
    /\ \A p \in Creates :
          status[p] = "refunded" <=> \E r \in refunds : req[r].payment = p
    /\ \A r \in refunds :
          /\ req[r].amount <= req[req[r].payment].amount
          /\ req[r].currency = req[req[r].payment].currency
    /\ \A r, s \in refunds :
          r # s => /\ req[r].payment # req[s].payment
                   /\ req[r].key # req[s].key

\* What a create has answered holds of the database, whatever the other calls
\* have done since; a call that was turned away has left nothing behind, and a
\* conflict has a payment that owns the key.
CreateAnswersTrue ==
    \A c \in Creates :
        /\ reply[c] = "success" => status[c] \in {"success", "refunded"}
        /\ reply[c] = "failed" => status[c] = "failed"
        /\ reply[c] \in {"invalid", "conflict"} =>
              status[c] = "absent" /\ captures[c] = 0
        /\ reply[c] = "conflict" =>
              \E d \in Creates \ {c} : /\ status[d] # "absent"
                                       /\ req[d].key = req[c].key

\* The same for refunds: a conflict means that another refund of the payment,
\* or with the key, is committed, so two refunds never turn each other away.
RefundAnswersTrue ==
    \A r \in Refunds :
        /\ reply[r] = "success" => r \in refunds
        /\ reply[r] \in {"invalid", "not_found", "conflict"} => r \notin refunds
        /\ reply[r] = "conflict" =>
              \E s \in refunds : \/ req[s].payment = req[r].payment
                                 \/ req[s].key = req[r].key

\* A payment's status only ever moves along ValidTransition, from initiated,
\* and the committed refunds and events are never taken back.
LifecycleStep ==
    /\ \A p \in Creates :
          status'[p] # status[p] =>
              \/ status[p] = "absent" /\ status'[p] = "initiated"
              \/ ValidTransition(status[p], status'[p])
    /\ refunds \subseteq refunds'
    /\ outbox \subseteq outbox'

Lifecycle == [][LifecycleStep]_vars

\* Every call ends: no refund waits forever for the key or the row of another
\* one, and no create retries for ever.
CallsEnd == \A c \in Calls : InFlight(c) ~> ~InFlight(c)

\* The key of a payment in the ledger: that of the create that made it.
LedgerKey == [c \in Creates |-> IF status[c] = "absent" THEN NoKey ELSE req[c].key]

\* The ledger these tables amount to.
L == INSTANCE Ledger WITH
        Payments <- Creates,
        Keys     <- {r.key : r \in CreateInputs} \ {NoKey},
        key      <- LedgerKey,
        events   <- outbox

\* The service implements the ledger: every statement, charge, error, lost
\* acknowledgement and crash is a step of it, or none.  In particular a status
\* never becomes visible without its event, nor a capture without its payment.
ImplementsLedger == L!Spec

\* "CreatePayment ... charges with retries, and updates status"
\* (payment_service.go): when the call has returned, a captured charge is on
\* record.  The code does not ensure it: the update that follows the charge
\* can fail, and nothing repeats it.
SettledOnReturn ==
    \A c \in Creates :
        pc[c] = "done" /\ captures[c] > 0 => status[c] \in {"success", "refunded"}
-----------------------------------------------------------------------------
(* The inductive invariant: where a call is determines what it has done.   *)

BeforeSettle == {"idle", "insert", "toProcessing", "route", "attempt", "charging"}
Settling     == {"update", "enqueue", "commit"}
InTx         == {"enqueue", "commit"}

\* A create is the only one to move its payment until it has answered: its
\* place in CreatePayment determines the row, the money and the transaction.
CreateInv ==
    \A c \in Creates :
        /\ pc[c] \in Ends \cup CreatePCs
        /\ pc[c] \in {"idle", "insert"} => status[c] = "absent"
        /\ pc[c] = "insert" => req[c] \in CreateInputs /\ req[c].key # NoKey
        /\ pc[c] = "toProcessing" => status[c] = "initiated"
        /\ pc[c] \in {"route", "attempt", "charging"} \cup Settling =>
              status[c] = "processing"
        /\ pc[c] \in BeforeSettle =>
              captures[c] = 0 /\ attempt[c] < MaxAttempts
        /\ pc[c] \in Settling =>
              \/ settle[c] = "success" /\ captures[c] = 1
              \/ settle[c] = "failed"  /\ captures[c] = 0
        /\ captures[c] <= 1
        /\ tx[c].row = (IF pc[c] \in InTx THEN settle[c] ELSE "none")
        /\ tx[c].event = (IF pc[c] = "commit" THEN settle[c] ELSE "none")
        /\ ~tx[c].refund

\* The same for a refund.  What it checked of its payment stays true, except
\* that another refund may overtake it until it has locked the row.
RefundInv ==
    \A r \in Refunds :
        /\ pc[r] \in Ends \cup RefundPCs
        /\ pc[r] # "idle" => req[r].payment \in Creates
        /\ r \in refunds => pc[r] \in {"done", "lost"}
        /\ pc[r] \in {"refund", "toRefunded"} \cup InTx =>
              /\ status[req[r].payment] \in {"success", "refunded"}
              /\ req[r].currency = req[req[r].payment].currency
              /\ req[r].amount <= req[req[r].payment].amount
        /\ pc[r] \in InTx => status[req[r].payment] = "success"
        /\ tx[r].row = (IF pc[r] \in InTx THEN "refunded" ELSE "none")
        /\ tx[r].event = (IF pc[r] = "commit" THEN "refunded" ELSE "none")
        /\ tx[r].refund <=> pc[r] \in {"toRefunded"} \cup InTx

\* The unique index on the payments' keys.
ExclusiveCreates ==
    \A c, d \in Creates :
        c # d /\ status[c] # "absent" /\ status[d] # "absent"
          => req[c].key # req[d].key

\* Two refunds never hold the same row, nor the same key.
ExclusiveRefunds ==
    \A r, s \in Refunds :
        r # s =>
          /\ pc[r] \in InTx /\ pc[s] \in InTx => req[r].payment # req[s].payment
          /\ tx[r].refund /\ (tx[s].refund \/ s \in refunds)
               => req[r].key # req[s].key

\* The unique indexes and the row locks exclude one another's holders.
Exclusion == ExclusiveCreates /\ ExclusiveRefunds

\* A call answers once, when it is over.
AnswersAtEnd == \A c \in Calls : reply[c] # "none" => pc[c] = "done"

\* Together with what the properties say of the tables and the answers, every
\* step of every call and every fault preserves this.
Inv ==
    /\ TypeOK
    /\ CreateInv
    /\ RefundInv
    /\ Exclusion
    /\ AnswersAtEnd
    /\ StatusMatchesMoney
    /\ RefundedExactlyOnce
    /\ OutboxMatchesTables
    /\ CreateAnswersTrue
    /\ RefundAnswersTrue
=============================================================================
