---------------------------- MODULE ServerProofs ----------------------------
(***************************************************************************)
(* Theorems about Server, for any number of processes, requests and        *)
(* migrations.                                                             *)
(*                                                                         *)
(* The inductive invariant is Inv of Server.  That a process serves the    *)
(* full schema rests on the advisory lock: the version moves only in the   *)
(* hands of its holder, and nobody has left m.Up while it still moves.     *)
(* That an orderly stop loses no request rests on what is left when the    *)
(* drain ends: nothing, or requests that took longer than the drain.       *)
(***************************************************************************)
EXTENDS Server, TLAPS

USE DEF requestVars, schemaVars, Goto, Starting, Listening, PCs

-----------------------------------------------------------------------------
(* What a process leaves behind when it is gone.                           *)

\* Types survive Gone, and no other process, request or row is touched.
LEMMA GoneTypes ==
    ASSUME Inv, NEW s \in Servers, Gone(s)
    PROVE  /\ pc' \in [Servers -> PCs]
           /\ worker' \in [Servers -> {"off", "idle", "busy"}]
           /\ state' \in [Requests -> {"new", "running", "query", "answered",
                                       "error", "cut", "aborted"}]
           /\ lock' \in Servers \cup {NoOne}
           /\ at' = at
           /\ pc'[s] = "down" /\ worker'[s] = "off"
           /\ \A t \in Servers \ {s} : pc'[t] = pc[t] /\ worker'[t] = worker[t]
BY DEF Inv, TypeOK, Gone

\* Gone ends the requests of its process, as it should, and leaves the others.
LEMMA GoneRequests ==
    ASSUME Inv, NEW s \in Servers, Gone(s), NEW r \in Requests
    PROVE  /\ r \in Querying(s) => state'[r] = "aborted"
           /\ r \in Active(s) /\ r \notin Querying(s) => state'[r] = "cut"
           /\ r \notin Active(s) => state'[r] = state[r]
BY DEF Inv, TypeOK, Gone, Active, Querying

\* Nothing runs in a process that is gone; elsewhere the same requests run.
LEMMA GoneActive ==
    ASSUME Inv, NEW s \in Servers, Gone(s)
    PROVE  /\ Active(s)' = {}
           /\ \A t \in Servers \ {s} : Active(t)' = Active(t)
<1>1. ASSUME NEW r \in Requests, at[r] = s
      PROVE  state'[r] \notin {"running", "query"}
  BY <1>1, GoneRequests DEF Active, Querying
<1>2. ASSUME NEW t \in Servers \ {s}, NEW r \in Requests, at[r] = t
      PROVE  state'[r] = state[r]
  BY <1>2, GoneRequests DEF Active
<1>3. at' = at
  BY DEF Gone
<1> QED
  BY <1>1, <1>2, <1>3 DEF Active

\* The schema survives Gone: a lock that is given back was held by s alone.
LEMMA GoneSchema ==
    ASSUME Inv, NEW s \in Servers, Gone(s), UNCHANGED <<version, dirty, begun>>
    PROVE  SchemaInOrder'
BY GoneTypes DEF Inv, TypeOK, SchemaInOrder, MigratedOnce, Gone

\* Requests survive Gone when those it ends, and the transactions it cuts,
\* are entered in the history first.
LEMMA GoneInOrder ==
    ASSUME Inv, NEW s \in Servers, Gone(s),
           excused \subseteq excused', killed \subseteq killed',
           Active(s) \subseteq excused', Querying(s) \subseteq killed'
    PROVE  RequestsInOrder'
<1>1. \A r \in Requests : state'[r] # "new" => at'[r] \in Servers
  <2> SUFFICES ASSUME NEW r \in Requests, state'[r] # "new"
               PROVE  at'[r] \in Servers
    OBVIOUS
  <2>1. CASE r \in Active(s)
    BY <2>1, GoneTypes DEF Active
  <2>2. CASE r \notin Active(s)
    BY <2>2, GoneTypes, GoneRequests DEF Inv, RequestsInOrder
  <2> QED
    BY <2>1, <2>2
<1>2. \A t \in Servers :
         /\ pc'[t] \in Starting \cup {"down"} => Active(t)' = {}
         /\ pc'[t] \in {"closing", "closed"} => Active(t)' \subseteq excused'
         /\ worker'[t] # "off" => pc'[t] \in Listening
  BY GoneTypes, GoneActive DEF Inv, RequestsInOrder
<1>3. DrainsRequests'
  BY GoneRequests DEF Inv, RequestsInOrder, DrainsRequests
<1>4. StopsInOrder'
  <2>1. \A r \in Requests : state'[r] = "aborted" => r \in killed'
    BY GoneRequests DEF Inv, RequestsInOrder, StopsInOrder
  <2>2. \A t \in Servers : worker'[t] = "busy" => pc'[t] \in Listening
    BY <1>2
  <2> QED
    BY <2>1, <2>2 DEF StopsInOrder
<1> QED
  BY <1>1, <1>2, <1>3, <1>4 DEF RequestsInOrder

-----------------------------------------------------------------------------
(* The parts of Inv that a step does not disturb.                          *)

\* A step of requests or of the worker leaves the schema in order.
LEMMA SchemaKept ==
    ASSUME Inv, UNCHANGED <<pc, version, dirty, lock, begun>>
    PROVE  SchemaInOrder'
BY DEF Inv, SchemaInOrder, MigratedOnce

\* So does a step of main after m.Up.
LEMMA SchemaLeft ==
    ASSUME Inv, NEW s \in Servers, NEW l \in PCs, Goto(s, l),
           pc[s] \notin {"down", "migrate", "locked", "applying"},
           l \notin {"down", "migrate", "locked", "applying"},
           UNCHANGED schemaVars
    PROVE  SchemaInOrder'
BY DEF Inv, TypeOK, SchemaInOrder, MigratedOnce

\* A step of main before it serves leaves the requests alone.
LEMMA RequestsKept ==
    ASSUME Inv, NEW s \in Servers, NEW l \in Starting, Goto(s, l),
           pc[s] \in Starting \cup {"down"}, UNCHANGED <<worker, requestVars>>
    PROVE  RequestsInOrder'
BY DEF Inv, TypeOK, RequestsInOrder, DrainsRequests, StopsInOrder, Active

-----------------------------------------------------------------------------
(* One lemma for each group of actions.                                    *)

LEMMA InvMigration ==
    ASSUME Inv, NEW s \in Servers, Start(s) \/ Migrate(s)
    PROVE  Inv'
<1> USE LatestAssumption, NoOneAssumption
<1>1. CASE Start(s)
  <2>1. TypeOK' /\ SchemaInOrder'
    BY <1>1 DEF Start, Inv, TypeOK, SchemaInOrder, MigratedOnce
  <2> QED
    BY <2>1, <1>1, RequestsKept DEF Inv, Start
<1>2. CASE LockDatabase(s)
  <2>1. TypeOK' /\ SchemaInOrder'
    BY <1>2 DEF LockDatabase, Inv, TypeOK, SchemaInOrder, MigratedOnce
  <2> QED
    BY <2>1, <1>2, RequestsKept DEF Inv, LockDatabase
<1>3. CASE BeginMigration(s)
  <2>1. TypeOK'
    BY <1>3 DEF BeginMigration, Inv, TypeOK
  <2>2. MigratedOnce'
    BY <1>3 DEF BeginMigration, Inv, TypeOK, SchemaInOrder, MigratedOnce
  <2>3. \A t \in Servers : pc[t] \in {"down", "migrate", "locked", "applying"}
    BY <1>3 DEF BeginMigration, Inv, TypeOK, SchemaInOrder
  <2>4. SchemaInOrder'
    BY <2>2, <2>3, <1>3 DEF BeginMigration, Inv, TypeOK, SchemaInOrder
  <2> QED
    BY <2>1, <2>4, <1>3, RequestsKept DEF Inv, BeginMigration
<1>4. CASE EndMigration(s)
  <2>1. TypeOK'
    BY <1>4 DEF EndMigration, Inv, TypeOK
  <2>2. \A t \in Servers \ {s} : pc[t] \in {"down", "migrate"}
    BY <1>4 DEF EndMigration, Inv, TypeOK, SchemaInOrder
  <2>3. SchemaInOrder'
    BY <2>2, <1>4 DEF EndMigration, Inv, TypeOK, SchemaInOrder, MigratedOnce
  <2> QED
    BY <2>1, <2>3, <1>4, RequestsKept DEF Inv, EndMigration
<1>5. CASE Migrated(s)
  <2>1. TypeOK' /\ SchemaInOrder'
    BY <1>5 DEF Migrated, Inv, TypeOK, SchemaInOrder, MigratedOnce
  <2> QED
    BY <2>1, <1>5, RequestsKept DEF Inv, Migrated
<1> QED
  BY <1>1, <1>2, <1>3, <1>4, <1>5 DEF Migrate

LEMMA InvMain ==
    ASSUME Inv, NEW s \in Servers,
           \/ Serve(s) \/ Signal(s) \/ WaitForWorker(s) \/ Drained(s)
           \/ DrainTimeout(s) \/ ClosePool(s)
    PROVE  Inv'
<1> USE DEF Serve, Signal, WaitForWorker, Drained, DrainTimeout, ClosePool
<1>1. TypeOK'
  BY DEF Inv, TypeOK, Active
<1>2. SchemaInOrder'
  BY SchemaLeft DEF Inv, TypeOK
<1>3. UNCHANGED <<state, at, killed>> /\ excused \subseteq excused'
  OBVIOUS
<1>4. \A t \in Servers : Active(t)' = Active(t)
  BY <1>3 DEF Active
<1>5. \A t \in Servers :
         /\ pc'[t] \in Starting \cup {"down"} => Active(t)' = {}
         /\ pc'[t] \in {"closing", "closed"} => Active(t)' \subseteq excused'
  BY <1>4 DEF Inv, TypeOK, RequestsInOrder
<1>6. \A t \in Servers : worker'[t] # "off" => pc'[t] \in Listening
  BY DEF Inv, TypeOK, RequestsInOrder
<1>7. RequestsInOrder'
  BY <1>3, <1>5, <1>6 DEF Inv, RequestsInOrder, DrainsRequests, StopsInOrder
<1> QED
  BY <1>1, <1>2, <1>7 DEF Inv

LEMMA InvWorker ==
    ASSUME Inv, NEW s \in Servers, BeginRound(s) \/ EndRound(s) \/ WorkerReturns(s)
    PROVE  Inv'
<1> USE DEF BeginRound, EndRound, WorkerReturns
<1>1. TypeOK'
  BY DEF Inv, TypeOK
<1>2. SchemaInOrder'
  BY SchemaKept
<1>3. RequestsInOrder'
  BY DEF Inv, TypeOK, RequestsInOrder, DrainsRequests, StopsInOrder, Active
<1> QED
  BY <1>1, <1>2, <1>3 DEF Inv

LEMMA InvRequest ==
    ASSUME Inv, NEW r \in Requests,
           \/ \E s \in Servers : Accept(r, s)
           \/ Acquire(r) \/ Release(r) \/ Answer(r)
    PROVE  Inv'
<1>1. SchemaInOrder'
  BY SchemaKept DEF Accept, Acquire, Release, Answer
<1>2. CASE \E s \in Servers : Accept(r, s)
  <2>1. TypeOK'
    BY <1>2 DEF Accept, Inv, TypeOK
  <2>2. RequestsInOrder'
    BY <1>2
    DEF Accept, Inv, TypeOK, RequestsInOrder, DrainsRequests, StopsInOrder, Active
  <2> QED
    BY <1>1, <2>1, <2>2 DEF Inv
<1>3. CASE Acquire(r)
  <2>1. TypeOK'
    BY <1>3 DEF Acquire, Inv, TypeOK
  <2>2. \A s \in Servers : Active(s)' \subseteq Active(s)
    BY <1>3 DEF Acquire, Inv, TypeOK, Active
  <2>3. r \in Active(at[r]) /\ at[r] \in Servers
    BY <1>3 DEF Acquire, Inv, RequestsInOrder, Active
  <2>4. RequestsInOrder'
    BY <1>3, <2>2, <2>3
    DEF Acquire, Inv, TypeOK, RequestsInOrder, DrainsRequests, StopsInOrder
  <2> QED
    BY <1>1, <2>1, <2>4 DEF Inv
<1>4. CASE Release(r) \/ Answer(r)
  <2>1. TypeOK'
    BY <1>4 DEF Release, Answer, Inv, TypeOK
  <2>2. \A s \in Servers : Active(s)' \subseteq Active(s)
    BY <1>4 DEF Release, Answer, Inv, TypeOK, Active
  <2>3. RequestsInOrder'
    BY <1>4, <2>2
    DEF Release, Answer, Inv, TypeOK, RequestsInOrder, DrainsRequests, StopsInOrder
  <2> QED
    BY <1>1, <2>1, <2>3 DEF Inv
<1> QED
  BY <1>2, <1>3, <1>4

LEMMA InvGone ==
    ASSUME Inv, NEW s \in Servers, Fatal(s) \/ Exit(s) \/ Crash(s)
    PROVE  Inv'
<1>1. Gone(s) /\ UNCHANGED <<version, dirty, begun>>
  BY DEF Fatal, Exit, Crash
<1>2. /\ excused \subseteq excused' /\ killed \subseteq killed'
      /\ excused' \subseteq Requests /\ killed' \subseteq excused'
  BY DEF Fatal, Exit, Crash, Inv, TypeOK, Active
<1>3. Active(s) \subseteq excused' /\ Querying(s) \subseteq killed'
  BY DEF Fatal, Exit, Crash, Inv, RequestsInOrder, Querying
<1>4. TypeOK'
  BY <1>1, <1>2, GoneTypes DEF Inv, TypeOK
<1> QED
  BY <1>1, <1>2, <1>3, <1>4, GoneSchema, GoneInOrder DEF Inv

-----------------------------------------------------------------------------
LEMMA InvInit == Init => Inv
<1> SUFFICES ASSUME Init
             PROVE  Inv
  OBVIOUS
<1>1. TypeOK
  <2>1. excused \subseteq Requests /\ killed \subseteq excused
    BY DEF Init
  <2>2. /\ pc \in [Servers -> PCs] /\ at \in [Requests -> Servers \cup {NoOne}]
        /\ version \in 0..Latest /\ begun \in [1..Latest -> Nat]
    BY LatestAssumption DEF Init
  <2> QED
    BY <2>1, <2>2 DEF Init, TypeOK
<1>2. SchemaInOrder
  BY LatestAssumption DEF Init, SchemaInOrder, MigratedOnce
<1>3. \A s \in Servers : Active(s) = {}
  BY DEF Init, Active
<1>4. RequestsInOrder
  BY <1>3 DEF Init, RequestsInOrder, DrainsRequests, StopsInOrder
<1> QED
  BY <1>1, <1>2, <1>4 DEF Inv

LEMMA InvStep == Inv /\ [Next]_vars => Inv'
<1> SUFFICES ASSUME Inv, [Next]_vars
             PROVE  Inv'
  OBVIOUS
<1>1. CASE UNCHANGED vars
  BY <1>1
  DEF vars, Inv, TypeOK, SchemaInOrder, MigratedOnce, RequestsInOrder,
      DrainsRequests, StopsInOrder, Active
<1>2. CASE Next
  BY <1>2, InvMigration, InvMain, InvWorker, InvRequest, InvGone DEF Next, Main
<1> QED
  BY <1>1, <1>2

\* The inductive invariant holds in every reachable state.
THEOREM InvHolds == Spec => []Inv
BY InvInit, InvStep, PTL DEF Spec

\* Every variable keeps its type.
THEOREM TypesHold == Spec => []TypeOK
<1>1. Inv => TypeOK
  BY DEF Inv
<1> QED
  BY <1>1, InvHolds, PTL

\* Any number of processes may start on one database, and die in the middle of
\* a migration (runMigrations): none serves, and no worker runs, on anything
\* but the full, clean schema.
THEOREM SchemaIsFull == Spec => []ServesFullSchema
<1>1. Inv => ServesFullSchema
  BY DEF Inv, TypeOK, SchemaInOrder, RequestsInOrder, ServesFullSchema
<1> QED
  BY <1>1, InvHolds, PTL

\* No migration is begun twice, whoever starts, crashes and starts again.
THEOREM MigrationsRunOnce == Spec => []MigratedOnce
<1>1. Inv => MigratedOnce
  BY DEF Inv, SchemaInOrder
<1> QED
  BY <1>1, InvHolds, PTL

\* A request that an orderly stop loses took longer than the drain (main's
\* srv.Shutdown with its 15 seconds).
THEOREM StopDrains == Spec => []DrainsRequests
<1>1. Inv => DrainsRequests
  BY DEF Inv, RequestsInOrder
<1> QED
  BY <1>1, InvHolds, PTL

\* Only a crash cuts a transaction or a round of the worker in two (workerWg
\* and the deferred pool.Close in main).
THEOREM StopIsOrderly == Spec => []StopsInOrder
<1>1. Inv => StopsInOrder
  BY DEF Inv, RequestsInOrder
<1> QED
  BY <1>1, InvHolds, PTL
=============================================================================
