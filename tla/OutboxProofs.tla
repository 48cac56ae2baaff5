---------------------------- MODULE OutboxProofs ----------------------------
(***************************************************************************)
(* Theorems about Outbox, for any number of events and workers and any     *)
(* settings.                                                               *)
(*                                                                         *)
(* The inductive invariant is Inv of Outbox.  Its heart is CountInv: a row *)
(* does not say whose claim it is and workers act on stale readings of     *)
(* attempt_count, so that DEAD means MaxAttempts failures rests on every   *)
(* failure being counted at most once.                                     *)
(***************************************************************************)
EXTENDS Outbox, FiniteSetTheorems, TLAPS

-----------------------------------------------------------------------------
(* Counting the failures that are still to be marked.                      *)

\* They are finitely many, at any time.
LEMMA FailedFinite ==
    ASSUME NEW e \in Events
    PROVE  /\ IsFiniteSet(Failed(e)) /\ Cardinality(Failed(e)) \in Nat
           /\ IsFiniteSet(Failed(e)') /\ Cardinality(Failed(e)') \in Nat
<1>1. Failed(e) \in SUBSET Workers /\ Failed(e)' \in SUBSET Workers
  BY DEF Failed
<1> QED
  BY <1>1, WorkersAssumption, FS_Subset, FS_CardinalityType

\* A step that counts nothing and adds no failure keeps CountInv.
LEMMA CountKept ==
    ASSUME Inv, UNCHANGED <<attempts, fails>>,
           \A e \in Events : Failed(e)' \subseteq Failed(e)
    PROVE  CountInv'
<1> SUFFICES ASSUME NEW e \in Events
             PROVE  \/ fails'[e] >= MaxFails
                    \/ fails'[e] >= attempts'[e] + Cardinality(Failed(e)')
  BY DEF CountInv
<1>1. Cardinality(Failed(e)') <= Cardinality(Failed(e))
  BY FailedFinite, FS_Subset
<1>2. /\ Cardinality(Failed(e)) \in Nat /\ Cardinality(Failed(e)') \in Nat
      /\ fails[e] \in Nat /\ attempts[e] \in Nat /\ MaxFails \in Nat
  BY FailedFinite, BoundsAssumption DEF Inv, TypeOK
<1>3. \/ fails[e] >= MaxFails
      \/ fails[e] >= attempts[e] + Cardinality(Failed(e))
  BY DEF Inv, CountInv
<1> QED
  BY <1>1, <1>2, <1>3

\* A step that leaves the tasks, the counters and the acknowledgements alone.
LEMMA TasksUnchanged ==
    ASSUME Inv, UNCHANGED <<task, seen, attempts, fails, acked>>
    PROVE  CountInv'
<1>1. \A e \in Events : Failed(e)' \subseteq Failed(e)
  BY DEF Failed
<1> QED
  BY <1>1, CountKept

-----------------------------------------------------------------------------
(* One lemma for each action.                                              *)

USE DEF rowVars, taskVars, ghostVars, Tasks

\* A new row is held by nobody.
LEMMA InvEnqueue ==
    ASSUME Inv, NEW e \in Events, Enqueue(e)
    PROVE  Inv'
<1>1. TypeOK'
  BY BoundsAssumption DEF Inv, TypeOK, Enqueue
<1>2. TaskInv'
  BY DEF Inv, TypeOK, TaskInv, Enqueue
<1>3. CountInv'
  BY TasksUnchanged DEF Enqueue
<1>4. DeliveredMeansAcked'
  BY DEF Inv, TypeOK, TaskInv, DeliveredMeansAcked, Enqueue
<1>5. DeadMeansTried'
  BY DEF Inv, TypeOK, DeadMeansTried, Enqueue
<1>6. OwnerInv'
  BY DEF Inv, TypeOK, TaskInv, OwnerInv, OneOwner, AttemptsInRange, Held,
     Enqueue
<1> QED
  BY <1>1, <1>2, <1>3, <1>4, <1>5, <1>6 DEF Inv

\* A row that comes due.
LEMMA InvBecomeDue ==
    ASSUME Inv, NEW e \in Events, BecomeDue(e)
    PROVE  Inv'
<1>1. TypeOK'
  BY BoundsAssumption DEF Inv, TypeOK, BecomeDue
<1>2. TaskInv'
  BY DEF Inv, TypeOK, TaskInv, BecomeDue
<1>3. CountInv'
  BY TasksUnchanged DEF BecomeDue
<1>4. DeliveredMeansAcked'
  BY DEF Inv, TypeOK, TaskInv, DeliveredMeansAcked, BecomeDue
<1>5. DeadMeansTried'
  BY DEF Inv, TypeOK, DeadMeansTried, BecomeDue
<1>6. OwnerInv'
  BY DEF Inv, TypeOK, TaskInv, OwnerInv, OneOwner, AttemptsInRange, Held,
     BecomeDue
<1> QED
  BY <1>1, <1>2, <1>3, <1>4, <1>5, <1>6 DEF Inv

\* A row that somebody holds is overdue when it grows stale.
LEMMA InvBecomeStale ==
    ASSUME Inv, NEW e \in Events, BecomeStale(e)
    PROVE  Inv'
<1>1. TypeOK'
  BY BoundsAssumption DEF Inv, TypeOK, BecomeStale, Held
<1>2. TaskInv'
  BY DEF Inv, TypeOK, TaskInv, BecomeStale, Held
<1>3. CountInv'
  BY TasksUnchanged DEF BecomeStale
<1>4. DeliveredMeansAcked'
  BY DEF Inv, TypeOK, TaskInv, DeliveredMeansAcked, BecomeStale, Held
<1>5. DeadMeansTried'
  BY DEF Inv, TypeOK, DeadMeansTried, BecomeStale, Held
<1>6. OwnerInv'
  BY DEF Inv, TypeOK, TaskInv, OwnerInv, OneOwner, AttemptsInRange,
     BecomeStale, Held
<1> QED
  BY <1>1, <1>2, <1>3, <1>4, <1>5, <1>6 DEF Inv

\* Only rows that nobody holds, or that are overdue, are reclaimed.
LEMMA InvReclaimStaleProcessing ==
    ASSUME Inv, NEW w \in Workers, ReclaimStaleProcessing(w)
    PROVE  Inv'
<1>1. TypeOK'
  BY BoundsAssumption DEF Inv, TypeOK, ReclaimStaleProcessing, Stale
<1>2. TaskInv'
  BY DEF Inv, TypeOK, TaskInv, ReclaimStaleProcessing, Stale
<1>3. CountInv'
  BY TasksUnchanged DEF ReclaimStaleProcessing
<1>4. DeliveredMeansAcked'
  BY DEF Inv, TypeOK, TaskInv, DeliveredMeansAcked, ReclaimStaleProcessing,
     Stale
<1>5. DeadMeansTried'
  BY DEF Inv, TypeOK, DeadMeansTried, ReclaimStaleProcessing, Stale
<1>6. OwnerInv'
  BY DEF Inv, TypeOK, TaskInv, OwnerInv, OneOwner, AttemptsInRange, Held,
     ReclaimStaleProcessing, Stale
<1> QED
  BY <1>1, <1>2, <1>3, <1>4, <1>5, <1>6 DEF Inv

\* A round goes on after a failed reclaim.
LEMMA InvReclaimFails ==
    ASSUME Inv, NEW w \in Workers, ReclaimFails(w)
    PROVE  Inv'
<1>1. TypeOK'
  BY BoundsAssumption DEF Inv, TypeOK, ReclaimFails, Fault
<1>2. TaskInv'
  BY DEF Inv, TypeOK, TaskInv, ReclaimFails, Fault
<1>3. CountInv'
  BY TasksUnchanged DEF ReclaimFails
<1>4. DeliveredMeansAcked'
  BY DEF Inv, TypeOK, TaskInv, DeliveredMeansAcked, ReclaimFails, Fault
<1>5. DeadMeansTried'
  BY DEF Inv, TypeOK, DeadMeansTried, ReclaimFails, Fault
<1>6. OwnerInv'
  BY DEF Inv, TypeOK, TaskInv, OwnerInv, OneOwner, AttemptsInRange, Held,
     ReclaimFails, Fault
<1> QED
  BY <1>1, <1>2, <1>3, <1>4, <1>5, <1>6 DEF Inv

\* The rows of the batch were nobody's.
LEMMA InvClaimBatch ==
    ASSUME Inv, NEW w \in Workers, NEW S \in SUBSET Due, ClaimBatch(w, S)
    PROVE  Inv'
<1>1. TypeOK'
  BY BoundsAssumption DEF Inv, TypeOK, ClaimBatch, TakeRows, Due
<1>2. TaskInv'
  BY DEF Inv, TypeOK, TaskInv, ClaimBatch, TakeRows, Due
<1>3. CountInv'
  <2>1. \A f \in Events : Failed(f)' \subseteq Failed(f)
    BY DEF Inv, TypeOK, Failed, ClaimBatch, TakeRows, Due
  <2> QED
    BY <2>1, CountKept DEF ClaimBatch, TakeRows, Due
<1>4. DeliveredMeansAcked'
  BY DEF Inv, TypeOK, TaskInv, DeliveredMeansAcked, ClaimBatch, TakeRows, Due
<1>5. DeadMeansTried'
  BY DEF Inv, TypeOK, DeadMeansTried, ClaimBatch, TakeRows, Due
<1>6. OwnerInv'
  <2>1. /\ \A f \in Events : task[w][f] = "none"
        /\ \A v \in Workers, f \in S \ overdue : task[v][f] = "none"
        /\ overdue' = overdue
    BY DEF Inv, TypeOK, TaskInv, OwnerInv, OneOwner, ClaimBatch, Due
  <2>2. OneOwner'
    <3> SUFFICES ASSUME NEW v \in Workers, NEW f \in Events \ overdue',
                        task'[v][f] # "none"
                 PROVE  /\ status'[f] = "PROCESSING"
                        /\ seen'[v][f] = attempts'[f]
                        /\ \A u \in Workers \ {v} : task'[u][f] = "none"
      BY DEF OneOwner
    <3>1. CASE f \in S
      BY <2>1, <3>1 DEF Inv, TypeOK, ClaimBatch, TakeRows
    <3>2. CASE f \notin S
      BY <2>1, <3>2 DEF Inv, TypeOK, OwnerInv, OneOwner, ClaimBatch, TakeRows
    <3> QED
      BY <3>1, <3>2
  <2>3. AttemptsInRange'
    BY DEF Inv, OwnerInv, AttemptsInRange, ClaimBatch, TakeRows
  <2>4. \A f \in Events \ overdue' : Held(f)' => ~stale'[f]
    BY <2>1 DEF Inv, TypeOK, OwnerInv, Held, ClaimBatch, TakeRows
  <2>5. ~Overrun => overdue' = {}
    BY <2>1 DEF Inv, OwnerInv
  <2> QED
    BY <2>2, <2>3, <2>4, <2>5 DEF OwnerInv
<1> QED
  BY <1>1, <1>2, <1>3, <1>4, <1>5, <1>6 DEF Inv

\* Rows claimed for nobody.
LEMMA InvClaimFails ==
    ASSUME Inv, NEW w \in Workers, NEW S \in SUBSET Due, ClaimFails(w, S)
    PROVE  Inv'
<1>1. TypeOK'
  BY BoundsAssumption DEF Inv, TypeOK, ClaimFails, TakeRows, Due, Fault
<1>2. TaskInv'
  BY DEF Inv, TypeOK, TaskInv, ClaimFails, TakeRows, Due, Fault
<1>3. CountInv'
  BY TasksUnchanged DEF ClaimFails, TakeRows
<1>4. DeliveredMeansAcked'
  BY DEF Inv, TypeOK, TaskInv, DeliveredMeansAcked, ClaimFails, TakeRows, Due,
     Fault
<1>5. DeadMeansTried'
  BY DEF Inv, TypeOK, DeadMeansTried, ClaimFails, TakeRows, Due, Fault
<1>6. OwnerInv'
  BY DEF Inv, TypeOK, TaskInv, OwnerInv, OneOwner, AttemptsInRange, Held,
     ClaimFails, TakeRows, Due, Fault
<1> QED
  BY <1>1, <1>2, <1>3, <1>4, <1>5, <1>6 DEF Inv

\* An event handed to handleOne.
LEMMA InvStartOne ==
    ASSUME Inv, NEW w \in Workers, NEW e \in Events, StartOne(w, e)
    PROVE  Inv'
<1>1. TypeOK'
  BY BoundsAssumption DEF Inv, TypeOK, StartOne
<1>2. TaskInv'
  BY DEF Inv, TypeOK, TaskInv, StartOne
<1>3. CountInv'
  <2>1. \A f \in Events : Failed(f)' \subseteq Failed(f)
    BY DEF Inv, TypeOK, Failed, StartOne
  <2> QED
    BY <2>1, CountKept DEF StartOne
<1>4. DeliveredMeansAcked'
  BY DEF Inv, TypeOK, TaskInv, DeliveredMeansAcked, StartOne
<1>5. DeadMeansTried'
  BY DEF Inv, TypeOK, DeadMeansTried, StartOne
<1>6. OwnerInv'
  BY DEF Inv, TypeOK, TaskInv, OwnerInv, OneOwner, AttemptsInRange, Held,
     StartOne
<1> QED
  BY <1>1, <1>2, <1>3, <1>4, <1>5, <1>6 DEF Inv

\* The merchant has acknowledged the event.
LEMMA InvDeliverOk ==
    ASSUME Inv, NEW w \in Workers, NEW e \in Events, DeliverOk(w, e)
    PROVE  Inv'
<1>1. TypeOK'
  BY BoundsAssumption DEF Inv, TypeOK, DeliverOk
<1>2. TaskInv'
  BY DEF Inv, TypeOK, TaskInv, DeliverOk
<1>3. CountInv'
  <2>1. \A f \in Events : Failed(f)' \subseteq Failed(f)
    BY DEF Inv, TypeOK, Failed, DeliverOk
  <2> QED
    BY <2>1, CountKept DEF DeliverOk
<1>4. DeliveredMeansAcked'
  BY DEF Inv, TypeOK, TaskInv, DeliveredMeansAcked, DeliverOk
<1>5. DeadMeansTried'
  BY DEF Inv, TypeOK, DeadMeansTried, DeliverOk
<1>6. OwnerInv'
  BY DEF Inv, TypeOK, TaskInv, OwnerInv, OneOwner, AttemptsInRange, Held,
     DeliverOk
<1> QED
  BY <1>1, <1>2, <1>3, <1>4, <1>5, <1>6 DEF Inv

\* One more failure, counted and to be marked.
LEMMA InvDeliverError ==
    ASSUME Inv, NEW w \in Workers, NEW e \in Events, DeliverError(w, e)
    PROVE  Inv'
<1>1. TypeOK'
  BY BoundsAssumption DEF Inv, TypeOK, DeliverError
<1>2. TaskInv'
  BY DEF Inv, TypeOK, TaskInv, DeliverError
<1>3. CountInv'
  <2> SUFFICES ASSUME NEW f \in Events
               PROVE  \/ fails'[f] >= MaxFails
                      \/ fails'[f] >= attempts'[f] + Cardinality(Failed(f)')
    BY DEF CountInv
  <2>1. /\ Cardinality(Failed(f)) \in Nat /\ Cardinality(Failed(f)') \in Nat
        /\ fails[f] \in Nat /\ attempts[f] \in Nat /\ MaxFails \in Nat
    BY FailedFinite, BoundsAssumption DEF Inv, TypeOK
  <2>2. Cardinality(Failed(f)') <= Cardinality(Failed(f)) + IF f = e THEN 1 ELSE 0
    <3>1. CASE f = e
      <4>1. Failed(f)' = Failed(f) \cup {w}
        BY <3>1 DEF DeliverError, Failed, Inv, TypeOK
      <4>2. Cardinality(Failed(f) \cup {w}) <= Cardinality(Failed(f)) + 1
        <5>1. Cardinality(Failed(f) \cup {w}) =
                IF w \in Failed(f) THEN Cardinality(Failed(f))
                                   ELSE Cardinality(Failed(f)) + 1
          BY FailedFinite, FS_AddElement, Zenon
        <5> QED
          BY <2>1, <5>1
      <4> QED
        BY <3>1, <4>1, <4>2
    <3>2. CASE f # e
      <4>1. Failed(f)' = Failed(f)
        BY <3>2 DEF DeliverError, Failed, Inv, TypeOK
      <4> QED
        BY <3>2, <4>1, <2>1
    <3> QED
      BY <3>1, <3>2
  <2>3. \/ fails[f] >= MaxFails
        \/ fails[f] >= attempts[f] + Cardinality(Failed(f))
    BY DEF Inv, CountInv
  <2>4. /\ attempts'[f] = attempts[f]
        /\ \/ fails[f] >= MaxFails /\ fails'[f] = fails[f]
           \/ fails'[f] = fails[f] + IF f = e THEN 1 ELSE 0
    BY <2>1 DEF DeliverError, Inv, TypeOK
  <2> QED
    BY <2>1, <2>2, <2>3, <2>4
<1>4. DeliveredMeansAcked'
  BY DEF Inv, TypeOK, TaskInv, DeliveredMeansAcked, DeliverError
<1>5. DeadMeansTried'
  BY BoundsAssumption DEF Inv, TypeOK, DeadMeansTried, DeliverError
<1>6. OwnerInv'
  BY DEF Inv, TypeOK, TaskInv, OwnerInv, OneOwner, AttemptsInRange, Held,
     DeliverError
<1> QED
  BY <1>1, <1>2, <1>3, <1>4, <1>5, <1>6 DEF Inv

\* Only an acknowledged event is marked delivered.
LEMMA InvMarkDelivered ==
    ASSUME Inv, NEW w \in Workers, NEW e \in Events, MarkDelivered(w, e)
    PROVE  Inv'
<1>1. TypeOK'
  BY BoundsAssumption DEF Inv, TypeOK, MarkDelivered, SetTerminal, EndTask
<1>2. TaskInv'
  BY DEF Inv, TypeOK, TaskInv, MarkDelivered, SetTerminal, EndTask
<1>3. CountInv'
  <2>1. \A f \in Events : Failed(f)' \subseteq Failed(f)
    BY DEF Inv, TypeOK, Failed, MarkDelivered, SetTerminal, EndTask
  <2> QED
    BY <2>1, CountKept DEF MarkDelivered, SetTerminal, EndTask
<1>4. DeliveredMeansAcked'
  BY DEF Inv, TypeOK, TaskInv, DeliveredMeansAcked, MarkDelivered,
     SetTerminal, EndTask
<1>5. DeadMeansTried'
  BY DEF Inv, TypeOK, DeadMeansTried, MarkDelivered, SetTerminal, EndTask
<1>6. OwnerInv'
  BY DEF Inv, TypeOK, TaskInv, OwnerInv, OneOwner, AttemptsInRange, Held,
     MarkDelivered, SetTerminal, EndTask
<1> QED
  BY <1>1, <1>2, <1>3, <1>4, <1>5, <1>6 DEF Inv

\* Only an event that has failed often enough is given up.
LEMMA InvMarkDead ==
    ASSUME Inv, NEW w \in Workers, NEW e \in Events, MarkDead(w, e)
    PROVE  Inv'
<1>1. TypeOK'
  BY BoundsAssumption DEF Inv, TypeOK, MarkDead, SetTerminal, EndTask
<1>2. TaskInv'
  BY DEF Inv, TypeOK, TaskInv, MarkDead, SetTerminal, EndTask
<1>3. CountInv'
  <2>1. \A f \in Events : Failed(f)' \subseteq Failed(f)
    BY DEF Inv, TypeOK, Failed, MarkDead, SetTerminal, EndTask
  <2> QED
    BY <2>1, CountKept DEF MarkDead, SetTerminal, EndTask
<1>4. DeliveredMeansAcked'
  BY DEF Inv, TypeOK, TaskInv, DeliveredMeansAcked, MarkDead, SetTerminal,
     EndTask
<1>5. DeadMeansTried'
  <2>1. ASSUME task[w][e] = "failed", seen[w][e] + 1 >= MaxAttempts
        PROVE  fails[e] >= MaxAttempts
    <3>1. /\ Cardinality(Failed(e)) \in Nat /\ fails[e] \in Nat
          /\ attempts[e] \in Nat /\ seen[w][e] \in Nat
          /\ MaxFails \in Nat /\ MaxAttempts \in Nat /\ MaxFails >= MaxAttempts
      BY FailedFinite, BoundsAssumption DEF Inv, TypeOK
    <3>2. Cardinality(Failed(e)) # 0
      <4>1. w \in Failed(e)
        BY <2>1 DEF Failed
      <4> QED
        BY <4>1, FailedFinite, FS_EmptySet
    <3>3. seen[w][e] <= attempts[e]
      BY DEF Inv, TaskInv
    <3>4. \/ fails[e] >= MaxFails
          \/ fails[e] >= attempts[e] + Cardinality(Failed(e))
      BY DEF Inv, CountInv
    <3> QED
      BY <2>1, <3>1, <3>2, <3>3, <3>4
  <2>2. task[w][e] = "nourl" => e \in NoURL
    BY DEF Inv, TaskInv
  <2> QED
    BY <2>1, <2>2 DEF Inv, TypeOK, DeadMeansTried, MarkDead, SetTerminal
<1>6. OwnerInv'
  BY DEF Inv, TypeOK, TaskInv, OwnerInv, OneOwner, AttemptsInRange, Held,
     MarkDead, SetTerminal, EndTask
<1> QED
  BY <1>1, <1>2, <1>3, <1>4, <1>5, <1>6 DEF Inv

\* The failure moves from the worker into the row.
LEMMA InvMarkRetry ==
    ASSUME Inv, NEW w \in Workers, NEW e \in Events, MarkRetry(w, e)
    PROVE  Inv'
<1>1. TypeOK'
  <2>1. /\ task' \in [Workers -> [Events -> Tasks]]
        /\ seen' \in [Workers -> [Events -> Nat]]
    BY DEF Inv, TypeOK, MarkRetry, EndTask
  <2>2. CASE status[e] = "PROCESSING"
    <3>1. attempts' = [attempts EXCEPT ![e] = attempts[e] + 1]
      BY <2>2 DEF MarkRetry
    <3>2. attempts' \in [Events -> Nat]
      BY <3>1 DEF Inv, TypeOK
    <3> QED
      BY <2>1, <2>2, <3>2 DEF Inv, TypeOK, MarkRetry
  <2>3. CASE status[e] # "PROCESSING"
    BY <2>1, <2>3 DEF Inv, TypeOK, MarkRetry
  <2> QED
    BY <2>2, <2>3
<1>2. TaskInv'
  BY DEF Inv, TypeOK, TaskInv, MarkRetry, EndTask
<1>3. CountInv'
  <2> SUFFICES ASSUME NEW f \in Events
               PROVE  \/ fails'[f] >= MaxFails
                      \/ fails'[f] >= attempts'[f] + Cardinality(Failed(f)')
    BY DEF CountInv
  <2>1. /\ Cardinality(Failed(f)) \in Nat /\ Cardinality(Failed(f)') \in Nat
        /\ fails[f] \in Nat /\ attempts[f] \in Nat /\ MaxFails \in Nat
    BY FailedFinite, BoundsAssumption DEF Inv, TypeOK
  <2>2. Cardinality(Failed(f)') = Cardinality(Failed(f)) - IF f = e THEN 1 ELSE 0
    <3>1. CASE f = e
      <4>1. w \in Failed(f) /\ Failed(f)' = Failed(f) \ {w}
        BY <3>1 DEF MarkRetry, EndTask, Failed, Inv, TypeOK
      <4> QED
        BY <3>1, <4>1, FailedFinite, FS_RemoveElement
    <3>2. CASE f # e
      <4>1. Failed(f)' = Failed(f)
        BY <3>2 DEF MarkRetry, EndTask, Failed, Inv, TypeOK
      <4> QED
        BY <3>2, <4>1, <2>1
    <3> QED
      BY <3>1, <3>2
  <2>3. \/ fails[f] >= MaxFails
        \/ fails[f] >= attempts[f] + Cardinality(Failed(f))
    BY DEF Inv, CountInv
  <2>4. /\ fails'[f] = fails[f]
        /\ \/ attempts'[f] = attempts[f]
           \/ f = e /\ attempts'[f] = attempts[f] + 1
    BY DEF MarkRetry, Inv, TypeOK
  <2> QED
    BY <2>1, <2>2, <2>3, <2>4
<1>4. DeliveredMeansAcked'
  BY DEF Inv, TypeOK, TaskInv, DeliveredMeansAcked, MarkRetry, EndTask
<1>5. DeadMeansTried'
  BY DEF Inv, TypeOK, DeadMeansTried, MarkRetry, EndTask
<1>6. OwnerInv'
  <2>1. /\ \A v \in Workers, f \in Events \ {e} :
             task'[v][f] = task[v][f] /\ seen'[v][f] = seen[v][f]
        /\ \A f \in Events \ {e} :
             /\ status'[f] = status[f]
             /\ attempts'[f] = attempts[f]
             /\ stale'[f] = stale[f]
        /\ overdue' = overdue
    BY DEF Inv, TypeOK, MarkRetry, EndTask
  <2>2. e \notin overdue =>
          /\ \A v \in Workers : task'[v][e] = "none"
          /\ attempts'[e] < MaxAttempts
    <3> SUFFICES ASSUME e \notin overdue
                 PROVE  /\ \A v \in Workers : task'[v][e] = "none"
                        /\ attempts'[e] < MaxAttempts
      OBVIOUS
    <3>1. /\ status[e] = "PROCESSING"
          /\ seen[w][e] = attempts[e]
          /\ seen[w][e] + 1 < MaxAttempts
          /\ \A v \in Workers \ {w} : task[v][e] = "none"
      BY DEF Inv, OwnerInv, OneOwner, MarkRetry
    <3>2. attempts'[e] = attempts[e] + 1
      BY <3>1 DEF Inv, TypeOK, MarkRetry
    <3> QED
      BY <3>1, <3>2 DEF Inv, TypeOK, MarkRetry, EndTask
  <2>3. OneOwner'
    BY <2>1, <2>2 DEF Inv, OwnerInv, OneOwner
  <2>4. AttemptsInRange'
    BY <2>1, <2>2 DEF Inv, OwnerInv, AttemptsInRange
  <2>5. \A f \in Events \ overdue' : Held(f)' => ~stale'[f]
    BY <2>1, <2>2 DEF Inv, OwnerInv, Held
  <2>6. ~Overrun => overdue' = {}
    BY <2>1 DEF Inv, OwnerInv
  <2> QED
    BY <2>3, <2>4, <2>5, <2>6 DEF OwnerInv
<1> QED
  BY <1>1, <1>2, <1>3, <1>4, <1>5, <1>6 DEF Inv

\* A failure that is forgotten.
LEMMA InvMarkFails ==
    ASSUME Inv, NEW w \in Workers, NEW e \in Events, MarkFails(w, e)
    PROVE  Inv'
<1>1. TypeOK'
  BY BoundsAssumption DEF Inv, TypeOK, MarkFails, EndTask, Fault
<1>2. TaskInv'
  BY DEF Inv, TypeOK, TaskInv, MarkFails, EndTask, Fault
<1>3. CountInv'
  <2>1. \A f \in Events : Failed(f)' \subseteq Failed(f)
    BY DEF Inv, TypeOK, Failed, MarkFails, EndTask, Fault
  <2> QED
    BY <2>1, CountKept DEF MarkFails, EndTask, Fault
<1>4. DeliveredMeansAcked'
  BY DEF Inv, TypeOK, TaskInv, DeliveredMeansAcked, MarkFails, EndTask, Fault
<1>5. DeadMeansTried'
  BY DEF Inv, TypeOK, DeadMeansTried, MarkFails, EndTask, Fault
<1>6. OwnerInv'
  BY DEF Inv, TypeOK, TaskInv, OwnerInv, OneOwner, AttemptsInRange, Held,
     MarkFails, EndTask, Fault
<1> QED
  BY <1>1, <1>2, <1>3, <1>4, <1>5, <1>6 DEF Inv

\* The batch is empty.
LEMMA InvEndRound ==
    ASSUME Inv, NEW w \in Workers, EndRound(w)
    PROVE  Inv'
<1>1. TypeOK'
  BY BoundsAssumption DEF Inv, TypeOK, EndRound
<1>2. TaskInv'
  BY DEF Inv, TypeOK, TaskInv, EndRound, NoTask
<1>3. CountInv'
  BY TasksUnchanged DEF EndRound
<1>4. DeliveredMeansAcked'
  BY DEF Inv, TypeOK, TaskInv, DeliveredMeansAcked, EndRound
<1>5. DeadMeansTried'
  BY DEF Inv, TypeOK, DeadMeansTried, EndRound
<1>6. OwnerInv'
  BY DEF Inv, TypeOK, TaskInv, OwnerInv, OneOwner, AttemptsInRange, Held,
     EndRound
<1> QED
  BY <1>1, <1>2, <1>3, <1>4, <1>5, <1>6 DEF Inv

\* A worker that dies forgets its batch.
LEMMA InvStop ==
    ASSUME Inv, NEW w \in Workers, Stop(w)
    PROVE  Inv'
<1>1. TypeOK'
  BY BoundsAssumption DEF Inv, TypeOK, Stop, Fault, NoTask, NoSeen,
     Acknowledged
<1>2. TaskInv'
  BY DEF Inv, TypeOK, TaskInv, Stop, Fault, NoTask, NoSeen
<1>3. CountInv'
  <2>1. \A f \in Events : Failed(f)' \subseteq Failed(f)
    BY DEF Inv, TypeOK, Failed, Stop, Fault, NoTask, NoSeen
  <2> QED
    BY <2>1, CountKept DEF Stop, Fault, NoTask, NoSeen
<1>4. DeliveredMeansAcked'
  BY DEF Inv, TypeOK, TaskInv, DeliveredMeansAcked, Stop, Fault, NoTask,
     NoSeen
<1>5. DeadMeansTried'
  BY DEF Inv, TypeOK, DeadMeansTried, Stop, Fault, NoTask, NoSeen
<1>6. OwnerInv'
  BY DEF Inv, TypeOK, TaskInv, OwnerInv, OneOwner, AttemptsInRange, Held,
     Stop, Fault, NoTask, NoSeen
<1> QED
  BY <1>1, <1>2, <1>3, <1>4, <1>5, <1>6 DEF Inv

\* A worker starts with no batch.
LEMMA InvRestart ==
    ASSUME Inv, NEW w \in Workers, Restart(w)
    PROVE  Inv'
<1>1. TypeOK'
  BY BoundsAssumption DEF Inv, TypeOK, Restart
<1>2. TaskInv'
  BY DEF Inv, TypeOK, TaskInv, Restart
<1>3. CountInv'
  BY TasksUnchanged DEF Restart
<1>4. DeliveredMeansAcked'
  BY DEF Inv, TypeOK, TaskInv, DeliveredMeansAcked, Restart
<1>5. DeadMeansTried'
  BY DEF Inv, TypeOK, DeadMeansTried, Restart
<1>6. OwnerInv'
  BY DEF Inv, TypeOK, TaskInv, OwnerInv, OneOwner, AttemptsInRange, Held,
     Restart
<1> QED
  BY <1>1, <1>2, <1>3, <1>4, <1>5, <1>6 DEF Inv

-----------------------------------------------------------------------------
(* The theorems.                                                           *)

\* The invariant holds initially.
LEMMA InvInit == Init => Inv
<1> SUFFICES ASSUME Init
             PROVE  Inv
  OBVIOUS
<1>1. TypeOK /\ TaskInv /\ DeliveredMeansAcked /\ DeadMeansTried
  BY BoundsAssumption
  DEF Init, TypeOK, TaskInv, DeliveredMeansAcked, DeadMeansTried, NoTask, NoSeen
<1>2. OwnerInv
  BY BoundsAssumption
  DEF Init, OwnerInv, OneOwner, AttemptsInRange, Held, NoTask
<1>3. CountInv
  <2>1. \A e \in Events : Failed(e) = {}
    BY DEF Init, Failed, NoTask
  <2> QED
    BY <2>1, FS_EmptySet DEF Init, CountInv
<1> QED
  BY <1>1, <1>2, <1>3 DEF Inv

\* Every step keeps the invariant.
LEMMA InvNext == Inv /\ [Next]_vars => Inv'
<1> SUFFICES ASSUME Inv, [Next]_vars
             PROVE  Inv'
  OBVIOUS
<1>1. CASE UNCHANGED vars
  BY <1>1 DEF Inv, vars, TypeOK, TaskInv, CountInv, Failed,
     DeliveredMeansAcked, DeadMeansTried, OwnerInv, OneOwner,
     AttemptsInRange, Held
<1>2. ASSUME NEW e \in Events, Enqueue(e) \/ BecomeDue(e) \/ BecomeStale(e)
      PROVE  Inv'
  BY <1>2, InvEnqueue, InvBecomeDue, InvBecomeStale
<1>3. ASSUME NEW w \in Workers, RoundStep(w) \/ Restart(w)
      PROVE  Inv'
  BY <1>3, InvReclaimStaleProcessing, InvClaimBatch, InvEndRound, InvRestart
  DEF RoundStep, Batches
<1>4. ASSUME NEW w \in Workers, WorkerFault(w)
      PROVE  Inv'
  BY <1>4, InvReclaimFails, InvClaimFails, InvMarkFails, InvStop
  DEF WorkerFault, Batches
<1>5. ASSUME NEW w \in Workers, NEW e \in Events, HandleOne(w, e)
      PROVE  Inv'
  BY <1>5, InvStartOne, InvDeliverOk, InvDeliverError, InvMarkDelivered,
     InvMarkDead, InvMarkRetry DEF HandleOne, Mark
<1> QED
  BY <1>1, <1>2, <1>3, <1>4, <1>5 DEF Next

\* The inductive invariant holds of every behaviour.
THEOREM InvHolds == Spec => []Inv
BY InvInit, InvNext, PTL DEF Spec

\* Type correctness.
THEOREM TypesHold == Spec => []TypeOK
<1>1. Inv => TypeOK
  BY DEF Inv
<1> QED
  BY <1>1, InvHolds, PTL

\* DELIVERED is never recorded without a 2xx (handleOne and MarkDelivered).
THEOREM DeliveredIsTrue == Spec => []DeliveredMeansAcked
<1>1. Inv => DeliveredMeansAcked
  BY DEF Inv
<1> QED
  BY <1>1, InvHolds, PTL

\* DEAD is never recorded before MaxAttempts deliveries have failed, however
\* many workers race for the event with stale readings (handleOne, MarkRetry,
\* MarkDead and ReclaimStaleProcessing).
THEOREM DeadIsEarned == Spec => []DeadMeansTried
<1>1. Inv => DeadMeansTried
  BY DEF Inv
<1> QED
  BY <1>1, InvHolds, PTL

\* As long as its claim does not grow stale under its worker, an event is
\* delivered by one worker at a time, with the right count of attempts, whatever
\* becomes of the other events of the batch (ClaimBatch).
THEOREM OwnerIsAlone == Spec => [](OneOwner /\ AttemptsInRange)
<1>1. Inv => OneOwner /\ AttemptsInRange
  BY DEF Inv, OwnerInv
<1> QED
  BY <1>1, InvHolds, PTL

\* Every step leaves final rows alone and lets no count go back.
LEMMA StepKeepsFinal == Inv /\ [Next]_vars => [FinalStep]_vars
<1> SUFFICES ASSUME Inv, Next
             PROVE  FinalStep
  BY DEF FinalStep
<1>1. UNCHANGED <<status, attempts>> => FinalStep
  BY DEF FinalStep, Inv, TypeOK
<1>2. ASSUME NEW e \in Events, Enqueue(e) \/ BecomeDue(e) \/ BecomeStale(e)
      PROVE  FinalStep
  BY <1>1, <1>2 DEF Enqueue, BecomeDue, BecomeStale, FinalStep, Inv, TypeOK
<1>3. ASSUME NEW w \in Workers, ReclaimStaleProcessing(w)
      PROVE  FinalStep
  BY <1>3 DEF ReclaimStaleProcessing, Stale, FinalStep, Inv, TypeOK
<1>4. ASSUME NEW S \in SUBSET Due, TakeRows(S)
      PROVE  FinalStep
  BY <1>4 DEF TakeRows, Due, FinalStep, Inv, TypeOK
<1>5. ASSUME NEW w \in Workers, RoundStep(w) \/ WorkerFault(w) \/ Restart(w)
      PROVE  FinalStep
  BY <1>1, <1>3, <1>4, <1>5
  DEF RoundStep, WorkerFault, Batches, ClaimBatch, ClaimFails, EndRound,
      Restart, ReclaimFails, MarkFails, Stop
<1>6. ASSUME NEW e \in Events, NEW final, SetTerminal(e, final)
      PROVE  FinalStep
  BY <1>6 DEF SetTerminal, FinalStep, Inv, TypeOK
<1>7. ASSUME NEW w \in Workers, NEW e \in Events, MarkRetry(w, e)
      PROVE  FinalStep
  BY <1>7 DEF MarkRetry, FinalStep, Inv, TypeOK
<1>8. ASSUME NEW w \in Workers, NEW e \in Events, HandleOne(w, e)
      PROVE  FinalStep
  BY <1>1, <1>6, <1>7, <1>8
  DEF HandleOne, Mark, StartOne, DeliverOk, DeliverError, MarkDelivered,
      MarkDead
<1> QED
  BY <1>2, <1>5, <1>8 DEF Next

\* A row marked DELIVERED or DEAD stays so, whatever late marks arrive.
THEOREM FinalHolds == Spec => Final
BY InvHolds, StepKeepsFinal, PTL DEF Spec, Final

-----------------------------------------------------------------------------
(* What becomes of an acknowledgement.                                     *)

\* AckInv looks only at rows that are DELIVERED and tasks that are ok: a step
\* that keeps them, or records which 2xx it loses, keeps it.
LEMMA AckKept ==
    ASSUME AckInv, acked' \subseteq acked,
           forgotten \subseteq forgotten', overdue \subseteq overdue',
           \A e \in acked :
              /\ status[e] = "DELIVERED" => status'[e] = "DELIVERED"
              /\ \A w \in Workers :
                    task[w][e] = "ok" => task'[w][e] = "ok" \/ e \in forgotten'
    PROVE  AckInv'
BY DEF AckInv

\* A fault that loses a 2xx is on record.
LEMMA AckFault ==
    ASSUME Inv, AckInv, NEW w \in Workers, WorkerFault(w)
    PROVE  AckInv'
<1>1. \A e \in Events : status[e] = "DELIVERED" => status'[e] = "DELIVERED"
  BY DEF Inv, TypeOK, WorkerFault, ReclaimFails, ClaimFails, MarkFails, Stop,
     TakeRows, Batches, Due
<1>2. /\ acked' = acked /\ acked \subseteq Events /\ overdue' = overdue
      /\ forgotten \subseteq forgotten'
  BY DEF Inv, TypeOK, WorkerFault, ReclaimFails, ClaimFails, MarkFails, Stop
<1>3. \A e \in Events, v \in Workers :
         task[v][e] = "ok" => task'[v][e] = "ok" \/ e \in forgotten'
  BY DEF Inv, TypeOK, WorkerFault, ReclaimFails, ClaimFails, MarkFails, Stop,
     EndTask, Acknowledged
<1> QED
  BY <1>1, <1>2, <1>3, AckKept

\* The worker that has the event is the one that knows of the acknowledgement.
LEMMA AckOwner ==
    ASSUME Inv, AckInv, NEW w \in Workers,
           NEW e \in acked \ (forgotten \cup overdue), task[w][e] # "none"
    PROVE  task[w][e] = "ok" /\ status[e] = "PROCESSING"
<1>1. e \in Events
  BY DEF Inv, TypeOK
<1>2. /\ status[e] = "PROCESSING"
      /\ \A v \in Workers \ {w} : task[v][e] = "none"
  BY <1>1 DEF Inv, OwnerInv, OneOwner
<1>3. \E v \in Workers : task[v][e] = "ok"
  BY <1>2 DEF AckInv
<1> QED
  BY <1>2, <1>3

LEMMA AckRows ==
    ASSUME Inv, AckInv,
           \/ \E e \in Events : Enqueue(e) \/ BecomeDue(e) \/ BecomeStale(e)
           \/ \E w \in Workers : ReclaimStaleProcessing(w) \/ EndRound(w) \/ Restart(w)
    PROVE  AckInv'
<1>1. \A e \in Events : status[e] = "DELIVERED" => status'[e] = "DELIVERED"
  BY DEF Inv, TypeOK, Enqueue, BecomeDue, BecomeStale, ReclaimStaleProcessing,
     Stale, EndRound, Restart
<1>2. /\ UNCHANGED <<task, acked, forgotten>> /\ acked \subseteq Events
      /\ overdue \subseteq overdue'
  BY DEF Inv, TypeOK, Enqueue, BecomeDue, BecomeStale, ReclaimStaleProcessing,
     EndRound, Restart
<1> QED
  BY <1>1, <1>2, AckKept

\* A claim takes rows that are PENDING, and its worker had no tasks.
LEMMA AckClaim ==
    ASSUME Inv, AckInv, NEW w \in Workers, NEW S \in SUBSET Due, ClaimBatch(w, S)
    PROVE  AckInv'
<1>1. \A e \in Events : status[e] = "DELIVERED" => status'[e] = "DELIVERED"
  BY DEF Inv, TypeOK, ClaimBatch, TakeRows, Due
<1>2. \A e \in Events : task[w][e] = "none"
  BY DEF Inv, TypeOK, TaskInv, ClaimBatch
<1>3. \A e \in Events, v \in Workers : task[v][e] = "ok" => task'[v][e] = "ok"
  BY <1>2 DEF Inv, TypeOK, ClaimBatch
<1>4. UNCHANGED <<acked, forgotten, overdue>> /\ acked \subseteq Events
  BY DEF Inv, TypeOK, ClaimBatch
<1> QED
  BY <1>1, <1>3, <1>4, AckKept

\* What a worker does with one event concerns no other, and if that event was
\* acknowledged, the worker knows and marks it DELIVERED.
LEMMA AckHandle ==
    ASSUME Inv, AckInv, NEW w \in Workers, NEW e \in Events, HandleOne(w, e)
    PROVE  AckInv'
<1>a. UNCHANGED <<forgotten, overdue>>
  BY DEF HandleOne, StartOne, DeliverOk, DeliverError, Mark, MarkDelivered,
     MarkDead, MarkRetry
<1> SUFFICES ASSUME NEW f \in acked' \ (forgotten \cup overdue)
             PROVE  status'[f] = "DELIVERED" \/ \E v \in Workers : task'[v][f] = "ok"
  BY <1>a DEF AckInv
<1>1. task[w][e] # "none" /\ f \in Events
  BY DEF HandleOne, StartOne, DeliverOk, DeliverError, Mark, MarkDelivered,
     MarkDead, MarkRetry, Inv, TypeOK
<1>2. CASE f # e
  <2>1. /\ f \in acked
        /\ status'[f] = status[f]
        /\ \A v \in Workers : task'[v][f] = task[v][f]
    BY <1>1, <1>2
    DEF HandleOne, StartOne, DeliverOk, DeliverError, Mark, MarkDelivered,
        MarkDead, MarkRetry, SetTerminal, EndTask, Inv, TypeOK
  <2> QED
    BY <2>1 DEF AckInv
<1>3. CASE f = e /\ DeliverOk(w, e)
  BY <1>3 DEF DeliverOk, Inv, TypeOK
<1>4. CASE f = e /\ ~DeliverOk(w, e)
  <2>1. f \in acked
    BY <1>4 DEF HandleOne, StartOne, DeliverError, Mark, MarkDelivered,
       MarkDead, MarkRetry
  <2>2. task[w][e] = "ok" /\ status[e] = "PROCESSING"
    BY <1>1, <1>4, <2>1, AckOwner
  <2>3. MarkDelivered(w, e)
    BY <1>4, <2>2 DEF HandleOne, StartOne, DeliverError, Mark, MarkDead, MarkRetry
  <2> QED
    BY <1>4, <2>2, <2>3 DEF MarkDelivered, SetTerminal, Inv, TypeOK
<1> QED
  BY <1>2, <1>3, <1>4

LEMMA AckStep == Inv /\ AckInv /\ [Next]_vars => AckInv'
<1> SUFFICES ASSUME Inv, AckInv, [Next]_vars
             PROVE  AckInv'
  OBVIOUS
<1>1. CASE UNCHANGED vars
  BY <1>1 DEF vars, AckInv
<1>2. ASSUME NEW w \in Workers, WorkerFault(w)
      PROVE  AckInv'
  BY <1>2, AckFault
<1>3. ASSUME NEW w \in Workers, RoundStep(w) \/ Restart(w)
      PROVE  AckInv'
  BY <1>3, AckRows, AckClaim DEF RoundStep, Batches
<1> QED
  BY <1>1, <1>2, <1>3, AckRows, AckHandle DEF Next

\* An event that its merchant acknowledged is given up only if the mark of that
\* 2xx failed, the worker that had it stopped, or the claim of this very event
\* grew stale under a worker (handleOne, ReclaimStaleProcessing).
THEOREM DeadIsHonest == Spec => []DeadMeansNoSuccess
<1>1. Init => AckInv
  BY DEF Init, AckInv
<1>2. Inv /\ AckInv => DeadMeansNoSuccess
  <2> SUFFICES ASSUME Inv, AckInv, NEW e \in Events, status[e] = "DEAD",
                      e \in acked \ (forgotten \cup overdue)
               PROVE  FALSE
    BY DEF DeadMeansNoSuccess, Inv, TypeOK
  <2> QED
    BY DEF AckInv, Inv, OwnerInv, OneOwner
<1> QED
  BY <1>1, <1>2, AckStep, InvHolds, PTL DEF Spec

-----------------------------------------------------------------------------
(* How far attempt_count can overshoot.                                    *)

\* The late workers are finitely many, at any time.
LEMMA LateFinite ==
    ASSUME NEW e \in Events
    PROVE  /\ IsFiniteSet(Late(e)) /\ Cardinality(Late(e)) \in Nat
           /\ IsFiniteSet(Late(e)') /\ Cardinality(Late(e)') \in Nat
           /\ Cardinality(Workers) \in Nat
<1>1. Late(e) \in SUBSET Workers /\ Late(e)' \in SUBSET Workers
  BY DEF Late
<1> QED
  BY <1>1, WorkersAssumption, FS_Subset, FS_CardinalityType

\* A step that counts no attempt, and after which no worker is late for a
\* count that is already too high, keeps LateInv.
LEMMA LateKept ==
    ASSUME Inv, LateInv, attempts' = attempts,
           \A e \in Events :
              attempts[e] >= MaxAttempts - 1 => Late(e)' \subseteq Late(e)
    PROVE  LateInv'
<1> SUFFICES ASSUME NEW e \in Events, attempts[e] >= MaxAttempts - 1
             PROVE  attempts[e] + Cardinality(Late(e)') <=
                       MaxAttempts + Cardinality(Workers) - 2
  BY DEF LateInv
<1>1. Cardinality(Late(e)') <= Cardinality(Late(e))
  BY LateFinite, FS_Subset
<1>2. attempts[e] + Cardinality(Late(e)) <= MaxAttempts + Cardinality(Workers) - 2
  BY DEF LateInv
<1>3. attempts[e] \in Nat /\ MaxAttempts \in Nat
  BY BoundsAssumption DEF Inv, TypeOK
<1> QED
  BY <1>1, <1>2, <1>3, LateFinite

\* A retry counts one attempt, and its worker is late no more.
LEMMA LateRetry ==
    ASSUME Inv, LateInv, NEW w \in Workers, NEW e \in Events, MarkRetry(w, e)
    PROVE  LateInv'
<1>1. \A f \in Events \ {e} : Late(f)' = Late(f) /\ attempts'[f] = attempts[f]
  BY DEF Late, MarkRetry, EndTask, Inv, TypeOK
<1>2. w \in Late(e) /\ Late(e)' = Late(e) \ {w}
  BY DEF Late, MarkRetry, EndTask, Inv, TypeOK
<1>3. attempts'[e] \in {attempts[e], attempts[e] + 1}
  BY DEF MarkRetry, Inv, TypeOK
<1>4. attempts[e] \in Nat /\ MaxAttempts \in Nat \ {0}
  BY BoundsAssumption DEF Inv, TypeOK
<1>5. Cardinality(Late(e)') = Cardinality(Late(e)) - 1
  BY <1>2, LateFinite, FS_RemoveElement
<1>6. Cardinality(Late(e)) <= Cardinality(Workers)
  <2>1. Late(e) \subseteq Workers
    BY DEF Late
  <2> QED
    BY <2>1, WorkersAssumption, FS_Subset
<1>7. attempts'[e] >= MaxAttempts - 1 =>
         attempts'[e] + Cardinality(Late(e)') <= MaxAttempts + Cardinality(Workers) - 2
  BY <1>3, <1>4, <1>5, <1>6, LateFinite DEF LateInv
<1> QED
  BY <1>1, <1>7 DEF LateInv

\* A worker that claims an event with a count that high is not late.
LEMMA LateClaim ==
    ASSUME Inv, LateInv, NEW w \in Workers, NEW S \in SUBSET Due, ClaimBatch(w, S)
    PROVE  LateInv'
<1>1. ASSUME NEW e \in Events, attempts[e] >= MaxAttempts - 1, NEW v \in Late(e)'
      PROVE  v \in Late(e)
  <2>1. v \in Workers /\ task'[v][e] # "none" /\ seen'[v][e] + 1 < MaxAttempts
    BY DEF Late
  <2>2. v # w
    BY <1>1, <2>1, BoundsAssumption DEF ClaimBatch, Inv, TypeOK
  <2> QED
    BY <2>1, <2>2 DEF Late, ClaimBatch, Inv, TypeOK
<1> QED
  BY <1>1, LateKept DEF ClaimBatch, TakeRows

LEMMA LateStep == Inv /\ LateInv /\ [Next]_vars => LateInv'
<1> SUFFICES ASSUME Inv, LateInv, [Next]_vars
             PROVE  LateInv'
  OBVIOUS
<1>1. ASSUME UNCHANGED <<attempts, task, seen>>
      PROVE  LateInv'
  BY <1>1, LateKept DEF Late
<1>2. ASSUME NEW w \in Workers, NEW e \in Events,
             \/ MarkDelivered(w, e) \/ MarkDead(w, e) \/ MarkFails(w, e)
             \/ StartOne(w, e) \/ DeliverOk(w, e) \/ DeliverError(w, e)
      PROVE  LateInv'
  <2>1. \A f \in Events : Late(f)' \subseteq Late(f)
    <3>1. CASE MarkDelivered(w, e) \/ MarkDead(w, e) \/ MarkFails(w, e)
      <4>1. EndTask(w, e)
        BY <3>1 DEF MarkDelivered, MarkDead, MarkFails
      <4> QED
        BY <4>1 DEF Late, EndTask, Inv, TypeOK
    <3>2. CASE StartOne(w, e) \/ DeliverOk(w, e) \/ DeliverError(w, e)
      BY <3>2 DEF Late, StartOne, DeliverOk, DeliverError, Inv, TypeOK
    <3> QED
      BY <1>2, <3>1, <3>2
  <2>2. attempts' = attempts
    BY <1>2 DEF MarkDelivered, MarkDead, MarkFails, StartOne, DeliverOk,
       DeliverError, SetTerminal
  <2> QED
    BY <2>1, <2>2, LateKept
<1>3. ASSUME NEW w \in Workers, Stop(w)
      PROVE  LateInv'
  <2>1. \A f \in Events : Late(f)' \subseteq Late(f)
    BY <1>3 DEF Late, Stop, NoTask, NoSeen, Inv, TypeOK
  <2> QED
    BY <1>3, <2>1, LateKept DEF Stop
<1>4. ASSUME NEW w \in Workers, RoundStep(w) \/ WorkerFault(w) \/ Restart(w)
      PROVE  LateInv'
  BY <1>1, <1>2, <1>3, <1>4, LateClaim
  DEF RoundStep, WorkerFault, Restart, Batches, ReclaimStaleProcessing,
      ReclaimFails, ClaimFails, TakeRows, EndRound
<1>5. ASSUME NEW w \in Workers, NEW e \in Events, HandleOne(w, e)
      PROVE  LateInv'
  BY <1>2, <1>5, LateRetry DEF HandleOne, Mark
<1>6. ASSUME NEW e \in Events, Enqueue(e) \/ BecomeDue(e) \/ BecomeStale(e)
      PROVE  LateInv'
  BY <1>1, <1>6 DEF Enqueue, BecomeDue, BecomeStale
<1> QED
  BY <1>1, <1>4, <1>5, <1>6 DEF Next, vars

\* However many workers overtake each other with stale readings, attempt_count
\* passes the maximum by no more than their number less two (MarkRetry counts
\* in the row, handleOne decides on the count it read).
THEOREM OvershootIsBounded ==
    ASSUME Workers # {}
    PROVE  Spec => []AttemptsOvershoot
<1>1. Cardinality(Workers) \in Nat \ {0}
  BY WorkersAssumption, FS_CardinalityType, FS_EmptySet
<1>2. Init => LateInv
  <2> SUFFICES ASSUME Init, NEW e \in Events
               PROVE  attempts[e] >= MaxAttempts - 1 =>
                         attempts[e] + Cardinality(Late(e)) <=
                            MaxAttempts + Cardinality(Workers) - 2
    BY DEF LateInv
  <2>1. Late(e) = {} /\ attempts[e] = 0
    BY DEF Init, Late, NoTask
  <2>2. Cardinality(Late(e)) = 0
    BY <2>1, FS_EmptySet
  <2> QED
    BY <1>1, <2>1, <2>2, BoundsAssumption
<1>3. Inv /\ LateInv => AttemptsOvershoot
  <2> SUFFICES ASSUME Inv, LateInv, NEW e \in Events
               PROVE  attempts[e] <= MaxAttempts + Cardinality(Workers) - 2
    BY DEF AttemptsOvershoot
  <2> QED
    BY <1>1, LateFinite, BoundsAssumption DEF Inv, TypeOK, LateInv
<1> QED
  BY <1>2, <1>3, LateStep, InvHolds, PTL DEF Spec

-----------------------------------------------------------------------------
(* The workers implement the delivery promise.                             *)

\* No rows, no events.
LEMMA InitImplements == Init => D!Init
BY DEF Init, D!Init, DeliveryState, StateOf

\* A step that changes rows between PENDING and PROCESSING only, and no
\* answer, is none of Delivery's.
LEMMA StutterImplements ==
    ASSUME UNCHANGED <<acked, fails>>,
           \A e \in Events : StateOf(status'[e]) = StateOf(status[e])
    PROVE  UNCHANGED D!vars
BY DEF D!vars, DeliveryState

\* A change of one row is a change of one event.
LEMMA RowImplements ==
    ASSUME Inv, NEW e \in Events, NEW row, status' = [status EXCEPT ![e] = row]
    PROVE  DeliveryState' = [DeliveryState EXCEPT ![e] = StateOf(row)]
BY DEF DeliveryState, Inv, TypeOK

\* Time and claims change no event.
LEMMA RowsImplement ==
    ASSUME Inv,
           \/ \E e \in Events : BecomeDue(e) \/ BecomeStale(e)
           \/ \E w \in Workers : RoundStep(w) \/ WorkerFault(w) \/ Restart(w)
    PROVE  UNCHANGED D!vars
<1>1. UNCHANGED <<acked, fails>>
  BY DEF BecomeDue, BecomeStale, RoundStep, WorkerFault, Restart,
     ReclaimStaleProcessing, ClaimBatch, EndRound, ReclaimFails, ClaimFails,
     MarkFails, Stop
<1>2. ASSUME NEW S \in SUBSET Due, TakeRows(S), NEW e \in Events
      PROVE  StateOf(status'[e]) = StateOf(status[e])
  BY <1>2 DEF TakeRows, Due, StateOf
<1>3. ASSUME NEW w \in Workers, ReclaimStaleProcessing(w), NEW e \in Events
      PROVE  StateOf(status'[e]) = StateOf(status[e])
  BY <1>3 DEF ReclaimStaleProcessing, Stale, StateOf
<1>4. UNCHANGED status => UNCHANGED D!vars
  BY <1>1, StutterImplements
<1>5. ASSUME NEW S \in SUBSET Due, TakeRows(S)
      PROVE  UNCHANGED D!vars
  BY <1>1, <1>2, <1>5, StutterImplements
<1>6. ASSUME NEW w \in Workers, ReclaimStaleProcessing(w)
      PROVE  UNCHANGED D!vars
  BY <1>1, <1>3, <1>6, StutterImplements
<1>7. ASSUME NEW w \in Workers, RoundStep(w) \/ WorkerFault(w) \/ Restart(w)
      PROVE  UNCHANGED D!vars
  <2>1. {} \in SUBSET Due
    OBVIOUS
  <2> QED
    BY <1>4, <1>5, <1>6, <1>7, <2>1
    DEF RoundStep, WorkerFault, Restart, Batches, ClaimBatch, ClaimFails,
        EndRound, ReclaimFails, MarkFails, Stop
<1> QED
  BY <1>4, <1>7 DEF BecomeDue, BecomeStale

LEMMA EnqueueImplements ==
    ASSUME Inv, NEW e \in Events, Enqueue(e)
    PROVE  D!Next
<1>1. DeliveryState[e] = "absent"
  BY DEF Enqueue, DeliveryState, StateOf
<1>2. DeliveryState' = [DeliveryState EXCEPT ![e] = "pending"]
  <2>1. StateOf("PENDING") = "pending"
    BY DEF StateOf
  <2> QED
    BY <2>1, RowImplements DEF Enqueue
<1>3. D!Submit(e)
  BY <1>1, <1>2 DEF Enqueue, D!Submit
<1> QED
  BY <1>3 DEF D!Next

\* An answer of the merchant, or none.
LEMMA PostImplements ==
    ASSUME Inv, NEW w \in Workers, NEW e \in Events,
           DeliverOk(w, e) \/ DeliverError(w, e)
    PROVE  D!Next \/ UNCHANGED D!vars
<1>1. status[e] # "absent" /\ e \notin NoURL
  BY DEF Inv, TaskInv, DeliverOk, DeliverError
<1>2. DeliveryState[e] # "absent"
  BY <1>1 DEF DeliveryState, StateOf, Inv, TypeOK
<1>3. UNCHANGED DeliveryState
  BY DEF DeliverOk, DeliverError, DeliveryState
<1>4. CASE DeliverOk(w, e)
  BY <1>1, <1>2, <1>3, <1>4 DEF DeliverOk, D!Ack, D!Next
<1>5. CASE DeliverError(w, e) /\ fails[e] < MaxFails
  <2>1. fails' = [fails EXCEPT ![e] = @ + 1]
    BY <1>5 DEF DeliverError
  <2>2. D!Fail(e)
    BY <1>1, <1>2, <1>3, <1>5, <2>1 DEF DeliverError, D!Fail
  <2> QED
    BY <2>2 DEF D!Next
<1>6. CASE DeliverError(w, e) /\ ~(fails[e] < MaxFails)
  <2>1. fails' = fails
    BY <1>6 DEF DeliverError, Inv, TypeOK
  <2> QED
    BY <1>3, <1>6, <2>1 DEF DeliverError, D!vars
<1> QED
  BY <1>4, <1>5, <1>6

\* A mark ends the event, for a reason, or comes too late and changes nothing.
LEMMA MarkImplements ==
    ASSUME Inv, NEW w \in Workers, NEW e \in Events, Mark(w, e)
    PROVE  D!Next \/ UNCHANGED D!vars
<1>1. UNCHANGED ghostVars
  BY DEF Mark, MarkDelivered, MarkDead, MarkRetry
<1>2. CASE status' = status
  BY <1>1, <1>2 DEF D!vars, DeliveryState
<1>3. CASE status[e] = "PROCESSING"
  <2>1. DeliveryState[e] = "pending"
    BY <1>3 DEF DeliveryState, StateOf
  <2>2. CASE MarkDelivered(w, e)
    <3>1. status' = [status EXCEPT ![e] = "DELIVERED"]
      BY <1>3, <2>2 DEF MarkDelivered, SetTerminal
    <3>2. StateOf("DELIVERED") = "delivered"
      BY DEF StateOf
    <3>3. e \in acked
      BY <2>2 DEF MarkDelivered, Inv, TaskInv
    <3>4. DeliveryState' = [DeliveryState EXCEPT ![e] = "delivered"]
      BY <3>1, <3>2, RowImplements
    <3>5. D!Deliver(e)
      BY <1>1, <2>1, <3>3, <3>4 DEF D!Deliver
    <3> QED
      BY <3>5 DEF D!Next
  <2>3. CASE MarkDead(w, e)
    <3>1. status' = [status EXCEPT ![e] = "DEAD"]
      BY <1>3, <2>3 DEF MarkDead, SetTerminal
    <3>2. StateOf("DEAD") = "dead"
      BY DEF StateOf
    <3>3. e \in NoURL \/ fails[e] >= MaxAttempts
      <4>1. DeadMeansTried'
        BY <2>3, InvMarkDead DEF Inv
      <4>2. status'[e] = "DEAD" /\ fails' = fails
        BY <1>1, <3>1 DEF Inv, TypeOK
      <4> QED
        BY <4>1, <4>2 DEF DeadMeansTried
    <3>4. DeliveryState' = [DeliveryState EXCEPT ![e] = "dead"]
      BY <3>1, <3>2, RowImplements
    <3>5. D!GiveUp(e)
      BY <1>1, <2>1, <3>3, <3>4 DEF D!GiveUp
    <3> QED
      BY <3>5 DEF D!Next
  <2>4. CASE MarkRetry(w, e)
    <3>1. status' = [status EXCEPT ![e] = "PENDING"]
      BY <1>3, <2>4 DEF MarkRetry
    <3>2. \A f \in Events : StateOf(status'[f]) = StateOf(status[f])
      BY <1>3, <3>1 DEF StateOf, Inv, TypeOK
    <3> QED
      BY <1>1, <3>2, StutterImplements
  <2> QED
    BY <2>2, <2>3, <2>4 DEF Mark
<1>4. status[e] # "PROCESSING" => status' = status
  BY DEF Mark, MarkDelivered, MarkDead, MarkRetry, SetTerminal, Inv, TypeOK
<1> QED
  BY <1>2, <1>3, <1>4

\* Every step of the rows and of the workers is a step of Delivery, or none.
LEMMA StepImplements == Inv /\ [Next]_vars => [D!Next]_(D!vars)
<1> SUFFICES ASSUME Inv, [Next]_vars
             PROVE  D!Next \/ UNCHANGED D!vars
  OBVIOUS
<1>1. CASE UNCHANGED vars
  BY <1>1, StutterImplements DEF vars
<1>2. ASSUME NEW w \in Workers, NEW e \in Events, HandleOne(w, e)
      PROVE  D!Next \/ UNCHANGED D!vars
  <2>1. CASE StartOne(w, e)
    BY <2>1, StutterImplements DEF StartOne
  <2> QED
    BY <1>2, <2>1, PostImplements, MarkImplements DEF HandleOne
<1> QED
  BY <1>1, <1>2, EnqueueImplements, RowsImplement DEF Next

\* The outbox and its workers implement Delivery: whichever worker claims,
\* reclaims, overtakes or dies, an event is pending until it is delivered, with
\* an acknowledgement, or given up, with MaxAttempts failures or no address.
THEOREM DeliveryImplemented == Spec => ImplementsDelivery
BY InitImplements, StepImplements, InvHolds, PTL
DEF Spec, ImplementsDelivery, D!Spec
=============================================================================
