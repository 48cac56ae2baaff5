------------------------------- MODULE Outbox -------------------------------
(***************************************************************************)
(* Outbox: the rows of outbox_events after their transaction has committed *)
(* and the webhook workers that drain them.                                *)
(*                                                                         *)
(* A worker is the goroutine one server process runs.  In each round it    *)
(* puts stale PROCESSING rows back to PENDING, claims a batch of due rows, *)
(* delivers them concurrently and waits for all of them.  Several server   *)
(* processes on one database are several workers.                          *)
(*                                                                         *)
(* A claim is recorded only as the status PROCESSING and the time of the   *)
(* last update: the row does not say whose claim it is.  Time is kept as   *)
(* two flags of a row, due (next_retry_at has passed) and stale            *)
(* (updated_at is older than the threshold).                               *)
(***************************************************************************)
EXTENDS Integers, FiniteSets

CONSTANTS
    Events,         \* the events payments may enqueue
    NoURL,          \* those whose merchant has no webhook URL
    Workers,        \* the server processes that run a worker
    BatchSize,      \* rows claimed at a time (Config.BatchSize)
    PoolSize,       \* concurrent deliveries (Config.WorkerPool)
    MaxAttempts,    \* Config.MaxAttempts
    Overrun,        \* may a claim grow stale while its worker is at work?
    MaxFaults,      \* bound: database errors and crashes in a behaviour
    MaxFails        \* bound: failed deliveries that are counted

ASSUME WorkersAssumption == IsFiniteSet(Workers)

ASSUME BoundsAssumption ==
    /\ BatchSize \in Nat \ {0}
    /\ PoolSize \in Nat \ {0}
    /\ MaxAttempts \in Nat \ {0}
    /\ MaxFaults \in Nat
    /\ MaxFails \in Nat /\ MaxFails >= MaxAttempts
    /\ Overrun \in BOOLEAN
    /\ NoURL \subseteq Events

VARIABLES
    status,     \* outbox_events.status
    attempts,   \* outbox_events.attempt_count
    due,        \* next_retry_at <= NOW()
    stale,      \* updated_at is older than the threshold
    pc,         \* where each worker is in its round
    task,       \* what each worker is doing with each event of its batch
    seen,       \* the attempt_count it read when it claimed the event
    acked,      \* history: the events a worker has had a 2xx answer for
    fails,      \* history: failed deliveries of each event
    forgotten,  \* history: the events a 2xx of which was never marked
    overdue,    \* history: the events whose claim grew stale under a worker
    faults      \* how many faults have happened

rowVars    == <<status, attempts, due, stale>>
taskVars   == <<task, seen>>
ghostVars  == <<acked, fails, forgotten, overdue>>
vars       == <<status, attempts, due, stale, pc, task, seen, acked, fails,
                forgotten, overdue, faults>>

-----------------------------------------------------------------------------
NoTask == [e \in Events |-> "none"]
NoSeen == [e \in Events |-> 0]

\* The rows ClaimBatch may take: PENDING and due.
Due == {e \in Events : status[e] = "PENDING" /\ due[e]}

\* The rows ReclaimStaleProcessing takes.
Stale == {e \in Events : status[e] = "PROCESSING" /\ stale[e]}

\* Some worker has the event in the batch it is working on.
Held(e) == \E w \in Workers : task[w][e] # "none"

Running(w) == {e \in Events : task[w][e] \notin {"none", "queued"}}

Fault == faults < MaxFaults /\ faults' = faults + 1

Init ==
    /\ status = [e \in Events |-> "absent"]
    /\ attempts = [e \in Events |-> 0]
    /\ due = [e \in Events |-> FALSE]
    /\ stale = [e \in Events |-> FALSE]
    /\ pc = [w \in Workers |-> "reclaim"]
    /\ task = [w \in Workers |-> NoTask]
    /\ seen = [w \in Workers |-> NoSeen]
    /\ acked = {}
    /\ fails = [e \in Events |-> 0]
    /\ forgotten = {}
    /\ overdue = {}
    /\ faults = 0

-----------------------------------------------------------------------------
(* The rows on their own.                                                  *)

\* EnqueueTx, committed with the payment's change: PENDING and due at once.
Enqueue(e) ==
    /\ status[e] = "absent"
    /\ status' = [status EXCEPT ![e] = "PENDING"]
    /\ due' = [due EXCEPT ![e] = TRUE]
    /\ UNCHANGED <<attempts, stale, pc, taskVars, ghostVars, faults>>

\* Time passes next_retry_at.
BecomeDue(e) ==
    /\ status[e] = "PENDING"
    /\ ~due[e]
    /\ due' = [due EXCEPT ![e] = TRUE]
    /\ UNCHANGED <<status, attempts, stale, pc, taskVars, ghostVars, faults>>

\* Time passes updated_at + StaleReclaimMul * PollInterval.  Without Overrun
\* a worker is always faster than that with the events of its batch.
BecomeStale(e) ==
    /\ status[e] = "PROCESSING"
    /\ ~stale[e]
    /\ Overrun \/ ~Held(e)
    /\ stale' = [stale EXCEPT ![e] = TRUE]
    /\ overdue' = overdue \cup {f \in {e} : Held(f)}
    /\ UNCHANGED <<status, attempts, due, pc, taskVars, acked, fails, forgotten, faults>>

-----------------------------------------------------------------------------
(* A worker's round.                                                       *)

\* Mutant of ReclaimStaleProcessing: the crashed attempt is counted.
ReclaimCountsAttempt(w) ==
    /\ pc[w] = "reclaim"
    /\ status' = [e \in Events |-> IF e \in Stale THEN "PENDING" ELSE status[e]]
    /\ due' = [e \in Events |-> due[e] \/ e \in Stale]
    /\ stale' = [e \in Events |-> stale[e] /\ e \notin Stale]
    /\ attempts' = [e \in Events |-> attempts[e] + IF e \in Stale THEN 1 ELSE 0]
    /\ pc' = [pc EXCEPT ![w] = "claim"]
    /\ UNCHANGED <<taskVars, ghostVars, faults>>

\* Mutant of ReclaimStaleProcessing: the age of the claim is not looked at.
ReclaimAllProcessing(w) ==
    /\ pc[w] = "reclaim"
    /\ status' = [e \in Events |->
                    IF status[e] = "PROCESSING" THEN "PENDING" ELSE status[e]]
    /\ due' = [e \in Events |-> due[e] \/ status[e] = "PROCESSING"]
    /\ stale' = [e \in Events |-> FALSE]
    /\ pc' = [pc EXCEPT ![w] = "claim"]
    /\ UNCHANGED <<attempts, taskVars, ghostVars, faults>>

\* ReclaimStaleProcessing.  attempt_count is left as it is.
ReclaimStaleProcessing(w) ==
    /\ pc[w] = "reclaim"
    /\ status' = [e \in Events |-> IF e \in Stale THEN "PENDING" ELSE status[e]]
    /\ due' = [e \in Events |-> due[e] \/ e \in Stale]
    /\ stale' = [e \in Events |-> stale[e] /\ e \notin Stale]
    /\ pc' = [pc EXCEPT ![w] = "claim"]
    /\ UNCHANGED <<attempts, taskVars, ghostVars, faults>>

\* Its failure is logged, and the round goes on.
ReclaimFails(w) ==
    /\ pc[w] = "reclaim"
    /\ Fault
    /\ pc' = [pc EXCEPT ![w] = "claim"]
    /\ UNCHANGED <<rowVars, taskVars, ghostVars>>

\* As many due rows as the limit allows.  Which ones is left open: the order
\* by next_retry_at is not kept.
Batches == {S \in SUBSET Due :
              \/ Cardinality(S) = BatchSize
              \/ S = Due /\ Cardinality(S) <= BatchSize}

\* The rows of S become PROCESSING, with a fresh updated_at.
TakeRows(S) ==
    /\ status' = [e \in Events |-> IF e \in S THEN "PROCESSING" ELSE status[e]]
    /\ stale' = [e \in Events |-> stale[e] /\ e \notin S]
    /\ UNCHANGED <<attempts, due>>

\* ClaimBatch: one statement, so no other worker can take the same rows.
\* Nothing due ends the round.
ClaimBatch(w, S) ==
    /\ pc[w] = "claim"
    /\ TakeRows(S)
    /\ task' = [task EXCEPT ![w] = [e \in Events |-> IF e \in S THEN "queued" ELSE "none"]]
    /\ seen' = [seen EXCEPT ![w] = [e \in Events |-> IF e \in S THEN attempts[e] ELSE 0]]
    /\ pc' = [pc EXCEPT ![w] = IF S = {} THEN "reclaim" ELSE "deliver"]
    /\ UNCHANGED <<ghostVars, faults>>

\* ClaimBatch returns an error: it had no effect, or the rows are PROCESSING
\* and the worker never learns of them.
ClaimFails(w, S) ==
    /\ pc[w] = "claim"
    /\ Fault
    /\ TakeRows(S)
    /\ pc' = [pc EXCEPT ![w] = "reclaim"]
    /\ UNCHANGED <<taskVars, ghostVars>>

\* runOnce hands an event to handleOne when the pool has room for it.
StartOne(w, e) ==
    /\ task[w][e] = "queued"
    /\ Cardinality(Running(w)) < PoolSize
    /\ task' = [task EXCEPT ![w][e] = IF e \in NoURL THEN "nourl" ELSE "posting"]
    /\ UNCHANGED <<rowVars, pc, seen, ghostVars, faults>>

\* deliver: the merchant answers 2xx.
DeliverOk(w, e) ==
    /\ task[w][e] = "posting"
    /\ task' = [task EXCEPT ![w][e] = "ok"]
    /\ acked' = acked \cup {e}
    /\ UNCHANGED <<rowVars, pc, seen, fails, forgotten, overdue, faults>>

\* deliver: another status, a timeout, or no connection.
DeliverError(w, e) ==
    /\ task[w][e] = "posting"
    /\ task' = [task EXCEPT ![w][e] = "failed"]
    /\ fails' = [fails EXCEPT ![e] = IF @ < MaxFails THEN @ + 1 ELSE @]
    /\ UNCHANGED <<rowVars, pc, seen, acked, forgotten, overdue, faults>>

\* The events whose 2xx the worker has still to mark.
Acknowledged(w) == {e \in Events : task[w][e] = "ok"}

\* The event leaves the batch.
EndTask(w, e) ==
    /\ task' = [task EXCEPT ![w][e] = "none"]
    /\ seen' = [seen EXCEPT ![w][e] = 0]

\* Mutant of SetTerminal: UPDATE ... WHERE id only.
SetTerminalUnchecked(e, final) ==
    /\ status' = [status EXCEPT ![e] = final]
    /\ stale' = [stale EXCEPT ![e] = FALSE]
    /\ UNCHANGED <<attempts, due>>

\* MarkDelivered and MarkDead: UPDATE ... WHERE status = 'PROCESSING'.  A row
\* that is not PROCESSING any more is left alone, and the error is logged.
SetTerminal(e, final) ==
    /\ status' = [status EXCEPT ![e] = IF @ = "PROCESSING" THEN final ELSE @]
    /\ stale' = [stale EXCEPT ![e] = @ /\ status[e] # "PROCESSING"]
    /\ UNCHANGED <<attempts, due>>

\* Mutant of MarkDelivered: any HTTP answer counts as delivered.
MarkDeliveredAnyAnswer(w, e) ==
    /\ task[w][e] \in {"ok", "failed"}
    /\ SetTerminal(e, "DELIVERED")
    /\ EndTask(w, e)
    /\ UNCHANGED <<pc, ghostVars, faults>>

\* handleOne after a 2xx.
MarkDelivered(w, e) ==
    /\ task[w][e] = "ok"
    /\ SetTerminal(e, "DELIVERED")
    /\ EndTask(w, e)
    /\ UNCHANGED <<pc, ghostVars, faults>>

\* handleOne after the last attempt has failed, or without a URL.  The count
\* of attempts is the one read when the event was claimed.
MarkDead(w, e) ==
    /\ \/ task[w][e] = "failed" /\ seen[w][e] + 1 >= MaxAttempts
       \/ task[w][e] = "nourl"
    /\ SetTerminal(e, "DEAD")
    /\ EndTask(w, e)
    /\ UNCHANGED <<pc, ghostVars, faults>>

\* Mutant of MarkRetry: one attempt too many.
MarkRetryOnceMore(w, e) ==
    /\ task[w][e] = "failed"
    /\ seen[w][e] + 1 <= MaxAttempts
    /\ status[e] = "PROCESSING"
    /\ status' = [status EXCEPT ![e] = "PENDING"]
    /\ attempts' = [attempts EXCEPT ![e] = @ + 1]
    /\ due' = [due EXCEPT ![e] = FALSE]
    /\ stale' = [stale EXCEPT ![e] = FALSE]
    /\ EndTask(w, e)
    /\ UNCHANGED <<pc, ghostVars, faults>>

\* handleOne after an earlier attempt has failed: PENDING again, with one
\* more attempt and a later next_retry_at; the count is the row's own.
MarkRetry(w, e) ==
    /\ task[w][e] = "failed"
    /\ seen[w][e] + 1 < MaxAttempts
    /\ IF status[e] = "PROCESSING"
         THEN /\ status' = [status EXCEPT ![e] = "PENDING"]
              /\ attempts' = [attempts EXCEPT ![e] = @ + 1]
              /\ due' = [due EXCEPT ![e] = FALSE]
              /\ stale' = [stale EXCEPT ![e] = FALSE]
         ELSE UNCHANGED rowVars
    /\ EndTask(w, e)
    /\ UNCHANGED <<pc, ghostVars, faults>>

\* The mark fails without effect: the row stays as it is.
MarkFails(w, e) ==
    /\ task[w][e] \in {"ok", "failed", "nourl"}
    /\ Fault
    /\ EndTask(w, e)
    /\ forgotten' = forgotten \cup ({e} \cap Acknowledged(w))
    /\ UNCHANGED <<rowVars, pc, acked, fails, overdue>>

\* wg.Wait returns, and the ticker starts the next round.
EndRound(w) ==
    /\ pc[w] = "deliver"
    /\ task[w] = NoTask
    /\ pc' = [pc EXCEPT ![w] = "reclaim"]
    /\ UNCHANGED <<rowVars, taskVars, ghostVars, faults>>

\* The process dies, or is told to stop: deliveries under way end without a
\* mark, whatever the merchant has answered.
Stop(w) ==
    /\ pc[w] # "down"
    /\ Fault
    /\ pc' = [pc EXCEPT ![w] = "down"]
    /\ task' = [task EXCEPT ![w] = NoTask]
    /\ seen' = [seen EXCEPT ![w] = NoSeen]
    /\ forgotten' = forgotten \cup Acknowledged(w)
    /\ UNCHANGED <<rowVars, acked, fails, overdue>>

Restart(w) ==
    /\ pc[w] = "down"
    /\ pc' = [pc EXCEPT ![w] = "reclaim"]
    /\ UNCHANGED <<rowVars, taskVars, ghostVars, faults>>

-----------------------------------------------------------------------------
Mark(w, e) == MarkDelivered(w, e) \/ MarkDead(w, e) \/ MarkRetry(w, e)

RoundStep(w) ==
    \/ ReclaimStaleProcessing(w)
    \/ \E S \in Batches : ClaimBatch(w, S)
    \/ EndRound(w)

HandleOne(w, e) ==
    \/ StartOne(w, e)
    \/ DeliverOk(w, e)
    \/ DeliverError(w, e)
    \/ Mark(w, e)

WorkerFault(w) ==
    \/ ReclaimFails(w)
    \/ \E S \in Batches \cup {{}} : ClaimFails(w, S)
    \/ \E e \in Events : MarkFails(w, e)
    \/ Stop(w)

Next ==
    \/ \E e \in Events : Enqueue(e) \/ BecomeDue(e) \/ BecomeStale(e)
    \/ \E w \in Workers : RoundStep(w) \/ WorkerFault(w) \/ Restart(w)
    \/ \E w \in Workers, e \in Events : HandleOne(w, e)

Spec == Init /\ [][Next]_vars

-----------------------------------------------------------------------------
(* Properties.                                                             *)

Tasks == {"none", "queued", "posting", "ok", "failed", "nourl"}

\* Every variable has its type.
TypeOK ==
    /\ status \in [Events -> {"absent", "PENDING", "PROCESSING", "DELIVERED", "DEAD"}]
    /\ attempts \in [Events -> Nat]
    /\ due \in [Events -> BOOLEAN]
    /\ stale \in [Events -> BOOLEAN]
    /\ pc \in [Workers -> {"reclaim", "claim", "deliver", "down"}]
    /\ task \in [Workers -> [Events -> Tasks]]
    /\ seen \in [Workers -> [Events -> Nat]]
    /\ acked \subseteq Events
    /\ fails \in [Events -> 0..MaxFails]
    /\ forgotten \subseteq Events
    /\ overdue \subseteq Events
    /\ faults \in 0..MaxFaults

\* An event is recorded as delivered only if the merchant said so to some
\* worker, even when marks arrive late from a worker whose claim has passed to
\* another one.
DeliveredMeansAcked ==
    \A e \in Events : status[e] = "DELIVERED" => e \in acked

\* An event with a URL is given up only after MaxAttempts deliveries have
\* failed: a mark counts a failure at most once, and stale reads of
\* attempt_count only err on the side of trying again.
DeadMeansTried ==
    \A e \in Events \ NoURL : status[e] = "DEAD" => fails[e] >= MaxAttempts

\* DELIVERED and DEAD are final, and attempt_count never goes back.
FinalStep ==
    \A e \in Events :
        /\ status[e] \in {"DELIVERED", "DEAD"} => status'[e] = status[e]
        /\ attempts'[e] >= attempts[e]

Final == [][FinalStep]_vars

\* "concurrent workers do not claim the same rows" (outbox_repo.go): an event
\* whose claim has never grown stale under its worker is in the hands of one
\* worker, whose row is PROCESSING and whose reading of attempt_count is right,
\* although the claims of other events in the same batch are overtaken.
OneOwner ==
    \A w \in Workers, e \in Events \ overdue :
        task[w][e] # "none" =>
            /\ status[e] = "PROCESSING"
            /\ seen[w][e] = attempts[e]
            /\ \A v \in Workers \ {w} : task[v][e] = "none"

\* Nor does its attempt_count reach the maximum: the last failure makes the
\* event DEAD instead.
AttemptsInRange == \A e \in Events \ overdue : attempts[e] < MaxAttempts

\* A row as the merchant's side sees it: being claimed is nothing to them.
StateOf(row) == CASE row = "absent"                  -> "absent"
                  [] row \in {"PENDING", "PROCESSING"} -> "pending"
                  [] row = "DELIVERED"               -> "delivered"
                  [] row = "DEAD"                    -> "dead"

DeliveryState == [e \in Events |-> StateOf(status[e])]

D == INSTANCE Delivery WITH state <- DeliveryState

\* The workers implement the delivery promise: whatever claims, reclaims,
\* overtakes or dies, each step is one of Delivery's for one event, or none.
ImplementsDelivery == D!Spec

\* "The worker marks an event DEAD after all delivery attempts fail" (README).
\* An event that its merchant acknowledged may still end DEAD, but only if that
\* very 2xx was forgotten (its mark failed, or its worker stopped before it), or
\* the event's claim grew stale under a worker and another one failed with it.
DeadMeansNoSuccess ==
    \A e \in acked : status[e] = "DEAD" => e \in forgotten \cup overdue

\* When claims do grow stale under their workers, attempt_count can pass the
\* maximum: a worker whose reading is out of date schedules a retry of a row
\* that another one is about to give up.  Each worker but one can do it once.
AttemptsOvershoot ==
    \A e \in Events : attempts[e] <= MaxAttempts + Cardinality(Workers) - 2

-----------------------------------------------------------------------------
(* The inductive invariant.                                                *)

\* The workers that hold a failure of the event they have not yet marked.
Failed(e) == {w \in Workers : task[w][e] = "failed"}

\* What a worker knows of an event it has in its batch.
TaskInv ==
    \A w \in Workers, e \in Events :
        /\ task[w][e] # "none" => pc[w] = "deliver" /\ status[e] # "absent"
        /\ task[w][e] \in {"posting", "ok", "failed"} => e \notin NoURL
        /\ task[w][e] = "ok" => e \in acked
        /\ task[w][e] = "nourl" => e \in NoURL
        /\ seen[w][e] <= attempts[e]

\* Every attempt counted in the row, and every failure still to be marked, is
\* a delivery of its own that failed (up to the bound of the counter).
CountInv ==
    \A e \in Events :
        \/ fails[e] >= MaxFails
        \/ fails[e] >= attempts[e] + Cardinality(Failed(e))

\* A claim that does not grow stale under its worker stays with it.
OwnerInv ==
    /\ OneOwner
    /\ AttemptsInRange
    /\ \A e \in Events \ overdue : Held(e) => ~stale[e]
    /\ ~Overrun => overdue = {}

Inv ==
    /\ TypeOK
    /\ TaskInv
    /\ CountInv
    /\ DeliveredMeansAcked
    /\ DeadMeansTried
    /\ OwnerInv

\* A 2xx that was not forgotten is with a worker that will mark it, or marked,
\* unless the claim was overtaken.  Inv and this are inductive together.
AckInv ==
    \A e \in acked \ (forgotten \cup overdue) :
        status[e] = "DELIVERED" \/ \E w \in Workers : task[w][e] = "ok"

\* The workers whose reading of attempt_count will let them schedule a retry.
Late(e) == {w \in Workers : task[w][e] # "none" /\ seen[w][e] + 1 < MaxAttempts}

\* Once attempt_count is as high as a worker should make it, each late worker
\* can still raise it, once, and there is never a new one.  Inv and this are
\* inductive together.
LateInv ==
    \A e \in Events :
        attempts[e] >= MaxAttempts - 1 =>
            attempts[e] + Cardinality(Late(e)) <= MaxAttempts + Cardinality(Workers) - 2
=============================================================================
