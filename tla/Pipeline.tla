------------------------------ MODULE Pipeline ------------------------------
(***************************************************************************)
(* From a payment to its merchant: the ledger and the outbox together.     *)
(*                                                                         *)
(* The ledger is the abstract one, which Payments implements               *)
(* (ImplementsLedger); the outbox and its workers are the detailed ones.   *)
(* They meet in the transaction that settles or refunds a payment: the     *)
(* event the ledger adds is the row the outbox gets, in the same step.     *)
(* From then on they run independently: a refund may be committed, claimed *)
(* and delivered while the event of the payment it refunds still waits for *)
(* its retry.                                                              *)
(***************************************************************************)
EXTENDS Outbox

CONSTANTS
    Payments,   \* payments that may be created
    Refunds,    \* refunds that may be made
    Keys,       \* the keys clients choose for payments
    NoKey       \* no key

VARIABLES
    paid,       \* payments.status
    key,        \* payments.idempotency_key
    captures,   \* how often the money of each payment was captured
    events      \* the events the ledger has recorded

ledgerVars == <<paid, key, captures, events>>
allVars    == <<vars, ledgerVars>>

L == INSTANCE Ledger WITH status <- paid

SettleEvents == {[call |-> p, payment |-> p, type |-> t] :
                    p \in Payments, t \in {"success", "failed"}}
RefundEvents == {[call |-> r, payment |-> p, type |-> "refunded"] :
                    p \in Payments, r \in Refunds}

\* The outbox may hold every event the ledger can record.
ASSUME EventsAssumption == Events = SettleEvents \cup RefundEvents

-----------------------------------------------------------------------------
PipelineInit == Init /\ L!Init

\* A step of the ledger that tells the merchant nothing.
Quietly == L!Next /\ events' = events /\ UNCHANGED vars

\* Mutant of Publish: the event is enqueued when the charge is captured, ahead
\* of the transaction that records it.
PublishAhead(e) ==
    \/ /\ L!Capture(e.payment)
       /\ e = L!Event(e.payment, e.payment, "success")
       /\ Enqueue(e)
    \/ /\ L!Next
       /\ e \notin events /\ events' = events \cup {e}
       /\ IF status[e] = "absent" THEN Enqueue(e) ELSE UNCHANGED vars

\* Mutant of Publish: the event of a refund is not enqueued.
PublishNoRefund(e) ==
    /\ L!Next
    /\ e \notin events /\ events' = events \cup {e}
    /\ IF e.type = "refunded" THEN UNCHANGED vars ELSE Enqueue(e)

\* enqueueOutboxPaymentEventTx: the row is committed with the change it tells of.
Publish(e) ==
    /\ L!Next
    /\ e \notin events /\ events' = events \cup {e}
    /\ Enqueue(e)

\* Time and the workers.
Deliveries ==
    /\ \/ \E e \in Events : BecomeDue(e) \/ BecomeStale(e)
       \/ \E w \in Workers : RoundStep(w) \/ WorkerFault(w) \/ Restart(w)
       \/ \E w \in Workers, e \in Events : HandleOne(w, e)
    /\ UNCHANGED ledgerVars

PipelineNext == Quietly \/ (\E e \in Events : Publish(e)) \/ Deliveries

\* Time passes; a worker that runs takes its steps; a merchant answers or the
\* HTTP client times out.  Nothing says that a stopped process is started again,
\* and nothing is assumed of the payments.
PipelineFairness ==
    /\ \A e \in Events :
          /\ WF_allVars(BecomeDue(e) /\ UNCHANGED ledgerVars)
          /\ WF_allVars(BecomeStale(e) /\ UNCHANGED ledgerVars)
    /\ \A w \in Workers :
          /\ WF_allVars(RoundStep(w) /\ UNCHANGED ledgerVars)
          /\ \A e \in Events : WF_allVars(HandleOne(w, e) /\ UNCHANGED ledgerVars)

PipelineSpec == PipelineInit /\ [][PipelineNext]_allVars /\ PipelineFairness

-----------------------------------------------------------------------------
(* Properties.                                                             *)

\* What a merchant has acknowledged is true of the payment, and stays true:
\* success means captured and recorded, failed means that no money moved, and a
\* refund is told only of a payment whose success is on its way or was told.
\* The two may arrive in either order, since retries overtake each other, but
\* never a refund without the success, nor both success and failed.
MerchantToldTruth ==
    \A e \in acked :
        /\ e.type = "success" =>
              paid[e.payment] \in {"success", "refunded"} /\ captures[e.payment] = 1
        /\ e.type = "failed" =>
              paid[e.payment] = "failed" /\ captures[e.payment] = 0
        /\ e.type = "refunded" =>
              /\ paid[e.payment] = "refunded"
              /\ status[L!Event(e.payment, e.payment, "success")] # "absent"

\* The inductive invariant of the two together.  The outbox has a row exactly
\* for the events the ledger has recorded, and only those are acknowledged; what
\* they say is true of the payments; and a payment that is a success, or was
\* one, has had its event.
PipelineInv ==
    /\ paid \in [Payments -> {"absent", "initiated", "processing", "success",
                             "failed", "refunded"}]
    /\ captures \in [Payments -> {0, 1}]
    /\ events \subseteq Events
    /\ \A e \in Events : e \in events <=> status[e] # "absent"
    /\ acked \subseteq events
    /\ \A e \in events :
          /\ e.type = "success" => paid[e.payment] \in {"success", "refunded"}
          /\ e.type = "failed" => paid[e.payment] = "failed"
          /\ e.type = "refunded" => paid[e.payment] = "refunded"
    /\ \A p \in Payments :
          /\ paid[p] \in {"success", "refunded"} =>
                captures[p] = 1 /\ L!Event(p, p, "success") \in events
          /\ paid[p] \in {"absent", "initiated", "failed"} => captures[p] = 0

\* The last word on an event.
Over(e) == status[e] \in {"DELIVERED", "DEAD"}

\* Whatever becomes of a payment reaches its merchant, or is given up after all
\* attempts: the settlement and the refund each, even if the worker that had the
\* event dies, provided that some worker is up in the end.
Informed ==
    (\E w \in Workers : <>[](pc[w] # "down")) =>
        \A p \in Payments :
            /\ paid[p] \in {"success", "failed", "refunded"} ~>
                  \E e \in SettleEvents : e.payment = p /\ Over(e)
            /\ paid[p] = "refunded" ~>
                  \E e \in RefundEvents : e.payment = p /\ Over(e)
=============================================================================
