------------------------------- MODULE Server -------------------------------
(***************************************************************************)
(* The life of the server processes (cmd/server): each migrates the        *)
(* database, connects, serves requests and runs the webhook worker until a *)
(* signal, and then stops in an order of its own: the worker first, while  *)
(* requests are still accepted; then the HTTP server, which drains for at  *)
(* most 15 seconds; then Redis; then the pool, which waits for the         *)
(* connections that are in use.                                            *)
(*                                                                         *)
(* Several processes start on one database.  golang-migrate (external)     *)
(* keeps a version and a dirty mark in the database and an advisory lock   *)
(* around its work.                                                        *)
(***************************************************************************)
EXTENDS Integers, FiniteSets

CONSTANTS
    Servers,    \* the processes
    Requests,   \* HTTP requests, each sent once
    Latest,     \* the number of migrations
    NoOne       \* the advisory lock's owner when it is free

ASSUME LatestAssumption == Latest \in Nat

ASSUME NoOneAssumption == NoOne \notin Servers

VARIABLES
    pc,         \* where main is in each process
    worker,     \* its webhook worker
    state,      \* where each request is
    at,         \* the process that serves it
    excused,    \* history: requests whose process crashed or drained too long
    killed,     \* history: requests whose process crashed
    version,    \* schema_migrations.version
    dirty,      \* schema_migrations.dirty
    lock,       \* the advisory lock of golang-migrate
    begun       \* history: how often each migration was begun

requestVars == <<state, at, excused, killed>>
schemaVars  == <<version, dirty, lock, begun>>
vars == <<pc, worker, state, at, excused, killed, version, dirty, lock, begun>>

-----------------------------------------------------------------------------
\* The requests a process is serving, and those that hold a connection of its
\* pool: a statement or a transaction is under way.
Active(s) == {r \in Requests : at[r] = s /\ state[r] \in {"running", "query"}}
Querying(s) == {r \in Active(s) : state[r] = "query"}

Goto(s, l) == pc' = [pc EXCEPT ![s] = l]

\* The process is gone, its connections, its lock and its goroutines with it.
\* A request is aborted if it had a transaction open, and cut off otherwise.
Gone(s) ==
    /\ Goto(s, "down")
    /\ worker' = [worker EXCEPT ![s] = "off"]
    /\ state' = [r \in Requests |->
                    CASE r \in Querying(s)               -> "aborted"
                      [] r \in Active(s) \ Querying(s)   -> "cut"
                      [] OTHER                           -> state[r]]
    /\ lock' = IF lock = s THEN NoOne ELSE lock
    /\ UNCHANGED at

Init ==
    /\ pc = [s \in Servers |-> "down"]
    /\ worker = [s \in Servers |-> "off"]
    /\ state = [r \in Requests |-> "new"]
    /\ at = [r \in Requests |-> NoOne]
    /\ excused = {}
    /\ killed = {}
    /\ version = 0
    /\ dirty = FALSE
    /\ lock = NoOne
    /\ begun = [m \in 1..Latest |-> 0]

-----------------------------------------------------------------------------
(* Start-up.                                                               *)

\* Mutant of Start: a dirty schema is forced back to the version before.
StartForces(s) ==
    /\ pc[s] = "down"
    /\ Goto(s, "migrate")
    /\ version' = IF dirty THEN version - 1 ELSE version
    /\ dirty' = FALSE
    /\ UNCHANGED <<worker, requestVars, lock, begun>>

\* The process is started and calls runMigrations.
Start(s) ==
    /\ pc[s] = "down"
    /\ Goto(s, "migrate")
    /\ UNCHANGED <<worker, requestVars, schemaVars>>

\* m.Up takes the advisory lock, waiting for its holder.
LockDatabase(s) ==
    /\ pc[s] = "migrate"
    /\ lock = NoOne
    /\ lock' = s
    /\ Goto(s, "locked")
    /\ UNCHANGED <<worker, requestVars, version, dirty, begun>>

\* The next migration, marked dirty before its file is run.
BeginMigration(s) ==
    /\ pc[s] = "locked"
    /\ ~dirty /\ version < Latest
    /\ version' = version + 1
    /\ dirty' = TRUE
    /\ begun' = [begun EXCEPT ![version + 1] = @ + 1]
    /\ Goto(s, "applying")
    /\ UNCHANGED <<worker, requestVars, lock>>

\* Mutant of EndMigration: the version moves on once more.
EndMigrationSkips(s) ==
    /\ pc[s] = "applying"
    /\ dirty' = FALSE
    /\ version' = version + 1
    /\ Goto(s, "locked")
    /\ UNCHANGED <<worker, requestVars, lock, begun>>

\* The file has been run: the mark is taken away.
EndMigration(s) ==
    /\ pc[s] = "applying"
    /\ dirty' = FALSE
    /\ Goto(s, "locked")
    /\ UNCHANGED <<worker, requestVars, version, lock, begun>>

\* Mutant of Migrated: any error of m.Up is taken for ErrNoChange.
MigratedAnyError(s) ==
    /\ pc[s] \in {"locked", "applying"}
    /\ lock' = NoOne
    /\ Goto(s, "connect")
    /\ UNCHANGED <<worker, requestVars, version, dirty, begun>>

\* Nothing (more) to do: m.Up returns nil or ErrNoChange, and unlocks.
Migrated(s) ==
    /\ pc[s] = "locked"
    /\ ~dirty /\ version = Latest
    /\ lock' = NoOne
    /\ Goto(s, "connect")
    /\ UNCHANGED <<worker, requestVars, version, dirty, begun>>

\* The pool and Redis answer their pings; the worker and the HTTP server start.
Serve(s) ==
    /\ pc[s] = "connect"
    /\ Goto(s, "serving")
    /\ worker' = [worker EXCEPT ![s] = "idle"]
    /\ UNCHANGED <<requestVars, schemaVars>>

Starting == {"migrate", "locked", "applying", "connect"}

\* log.Fatal: the database or Redis does not answer, a migration fails, the
\* schema is dirty, or the lock was not had in time.
Fatal(s) ==
    /\ pc[s] \in Starting
    /\ Gone(s)
    /\ UNCHANGED <<excused, killed, version, dirty, begun>>

-----------------------------------------------------------------------------
(* Requests and the worker.                                                *)

Listening == {"serving", "stopping"}

\* The listener is open until Shutdown: also while main waits for the worker.
Accept(r, s) ==
    /\ state[r] = "new"
    /\ pc[s] \in Listening
    /\ state' = [state EXCEPT ![r] = "running"]
    /\ at' = [at EXCEPT ![r] = s]
    /\ UNCHANGED <<pc, worker, excused, killed, schemaVars>>

\* A closed pool refuses, and the request answers an error.
Acquire(r) ==
    /\ state[r] = "running"
    /\ state' = [state EXCEPT ![r] = IF pc[at[r]] = "closed" THEN "error" ELSE "query"]
    /\ UNCHANGED <<pc, worker, at, excused, killed, schemaVars>>

Release(r) ==
    /\ state[r] = "query"
    /\ state' = [state EXCEPT ![r] = "running"]
    /\ UNCHANGED <<pc, worker, at, excused, killed, schemaVars>>

Answer(r) ==
    /\ state[r] = "running"
    /\ state' = [state EXCEPT ![r] = "answered"]
    /\ UNCHANGED <<pc, worker, at, excused, killed, schemaVars>>

\* Run: a round, if the context is not done yet.
BeginRound(s) ==
    /\ worker[s] = "idle"
    /\ pc[s] = "serving"
    /\ worker' = [worker EXCEPT ![s] = "busy"]
    /\ UNCHANGED <<pc, requestVars, schemaVars>>

\* runOnce returns when all its deliveries have; those a signal overtakes are
\* cut short by their context.
EndRound(s) ==
    /\ worker[s] = "busy"
    /\ worker' = [worker EXCEPT ![s] = "idle"]
    /\ UNCHANGED <<pc, requestVars, schemaVars>>

\* Run returns, and the wait group hears of it.
WorkerReturns(s) ==
    /\ worker[s] = "idle"
    /\ pc[s] = "stopping"
    /\ worker' = [worker EXCEPT ![s] = "off"]
    /\ UNCHANGED <<pc, requestVars, schemaVars>>

-----------------------------------------------------------------------------
(* Stopping.                                                               *)

\* SIGINT or SIGTERM: shutdownCtx is done.
Signal(s) ==
    /\ pc[s] = "serving"
    /\ Goto(s, "stopping")
    /\ UNCHANGED <<worker, requestVars, schemaVars>>

\* Mutant of WaitForWorker: workerWg.Wait is missing.
WaitForNothing(s) ==
    /\ pc[s] = "stopping"
    /\ Goto(s, "draining")
    /\ UNCHANGED <<worker, requestVars, schemaVars>>

\* workerWg.Wait returns; srv.Shutdown closes the listener.
WaitForWorker(s) ==
    /\ pc[s] = "stopping"
    /\ worker[s] = "off"
    /\ Goto(s, "draining")
    /\ UNCHANGED <<worker, requestVars, schemaVars>>

\* Mutant of Drained: srv.Close in place of srv.Shutdown.
DrainedAtOnce(s) ==
    /\ pc[s] = "draining"
    /\ Goto(s, "closing")
    /\ UNCHANGED <<worker, requestVars, schemaVars>>

\* Shutdown returns when no request is left ...
Drained(s) ==
    /\ pc[s] = "draining"
    /\ Active(s) = {}
    /\ Goto(s, "closing")
    /\ UNCHANGED <<worker, requestVars, schemaVars>>

\* Mutant of DrainTimeout: Shutdown gets a context without a deadline.
DrainTimeoutNever(s) == Drained(s)

\* ... or after 15 seconds.
DrainTimeout(s) ==
    /\ pc[s] = "draining"
    /\ Active(s) # {}
    /\ excused' = excused \cup Active(s)
    /\ Goto(s, "closing")
    /\ UNCHANGED <<worker, state, at, killed, schemaVars>>

\* The deferred calls: Redis is closed, then the pool, to new users.
ClosePool(s) ==
    /\ pc[s] = "closing"
    /\ Goto(s, "closed")
    /\ UNCHANGED <<worker, requestVars, schemaVars>>

\* Mutant of Exit: main ends with os.Exit, which skips the deferred Close.
ExitAtOnce(s) ==
    /\ pc[s] = "closed"
    /\ Gone(s)
    /\ UNCHANGED <<excused, killed, version, dirty, begun>>

\* pool.Close waits for every connection to come back; then main returns.
Exit(s) ==
    /\ pc[s] = "closed"
    /\ Querying(s) = {}
    /\ Gone(s)
    /\ UNCHANGED <<excused, killed, version, dirty, begun>>

\* The process is killed, or it cannot listen (log.Fatal), or it gets a signal
\* before NotifyContext has been called.
Crash(s) ==
    /\ pc[s] # "down"
    /\ excused' = excused \cup Active(s)
    /\ killed' = killed \cup Active(s)
    /\ Gone(s)
    /\ UNCHANGED <<version, dirty, begun>>

-----------------------------------------------------------------------------
Migrate(s) ==
    LockDatabase(s) \/ BeginMigration(s) \/ EndMigration(s) \/ Migrated(s)

Main(s) ==
    \/ Migrate(s) \/ Serve(s)
    \/ WaitForWorker(s) \/ Drained(s) \/ DrainTimeout(s) \/ ClosePool(s) \/ Exit(s)

Next ==
    \/ \E s \in Servers :
          \/ Start(s) \/ Main(s) \/ Fatal(s) \/ Signal(s) \/ Crash(s)
          \/ BeginRound(s) \/ EndRound(s) \/ WorkerReturns(s)
          \/ \E r \in Requests : Accept(r, s)
    \/ \E r \in Requests : Acquire(r) \/ Release(r) \/ Answer(r)

Spec == Init /\ [][Next]_vars

\* main goes on and its deadlines pass; a round and a transaction end.  Requests
\* need not end, nobody has to send a signal, and nobody restarts a process.
Fairness ==
    /\ \A s \in Servers :
          /\ WF_vars(Main(s))
          /\ WF_vars(EndRound(s))
          /\ WF_vars(WorkerReturns(s))
    /\ \A r \in Requests : WF_vars(Release(r))

FairSpec == Spec /\ Fairness

-----------------------------------------------------------------------------
(* Properties.                                                             *)

PCs == Starting \cup {"down", "serving", "stopping", "draining", "closing", "closed"}

\* Every variable has its type.
TypeOK ==
    /\ pc \in [Servers -> PCs]
    /\ worker \in [Servers -> {"off", "idle", "busy"}]
    /\ state \in [Requests -> {"new", "running", "query", "answered", "error",
                               "cut", "aborted"}]
    /\ at \in [Requests -> Servers \cup {NoOne}]
    /\ excused \subseteq Requests
    /\ killed \subseteq excused
    /\ version \in 0..Latest
    /\ dirty \in BOOLEAN
    /\ lock \in Servers \cup {NoOne}
    /\ begun \in [1..Latest -> Nat]

\* A process serves, or works on the outbox, only on the full schema, however
\* many processes start at once and wherever one of them died in a migration.
ServesFullSchema ==
    \A s \in Servers :
        pc[s] \notin Starting \cup {"down"} \/ worker[s] # "off" =>
            version = Latest /\ ~dirty

\* No migration is begun twice: those up to the version once, the others never.
\* (A second CREATE TABLE would fail, and leave the schema dirty.)
MigratedOnce ==
    \A m \in 1..Latest : begun[m] = IF m <= version THEN 1 ELSE 0

\* An orderly stop turns nobody away: a request that was accepted, also during
\* the wait for the worker, is answered without losing its database, unless its
\* process crashed or it took longer than the drain.
DrainsRequests ==
    \A r \in Requests : state[r] \in {"error", "cut", "aborted"} => r \in excused

\* Even a drain that takes too long cuts no transaction in two, and no round of
\* the worker: only a crash does.  The pool waits for its connections, and main
\* waits for the worker before it closes anything.
StopsInOrder ==
    /\ \A r \in Requests : state[r] = "aborted" => r \in killed
    /\ \A s \in Servers : worker[s] = "busy" => pc[s] \in Listening

\* What keeps the schema in order: whoever applies migrations has the advisory
\* lock, a migration under way is marked dirty, and who has left m.Up has left
\* the full schema behind.
SchemaInOrder ==
    /\ \A s \in Servers :
          /\ pc[s] \in {"locked", "applying"} => lock = s
          /\ pc[s] = "applying" => dirty
          /\ pc[s] \notin {"down", "migrate", "locked", "applying"} =>
                version = Latest /\ ~dirty
    /\ MigratedOnce

\* What keeps requests and the worker in order: a request that was accepted has
\* a process; none runs in a process that is not up yet, and those that outlive
\* the drain are excused; the worker runs only while the listener is open.
RequestsInOrder ==
    /\ \A r \in Requests : state[r] # "new" => at[r] \in Servers
    /\ \A s \in Servers :
          /\ pc[s] \in Starting \cup {"down"} => Active(s) = {}
          /\ pc[s] \in {"closing", "closed"} => Active(s) \subseteq excused
          /\ worker[s] # "off" => pc[s] \in Listening
    /\ DrainsRequests
    /\ StopsInOrder

\* The inductive invariant: all of the above follows from it.
Inv == TypeOK /\ SchemaInOrder /\ RequestsInOrder

\* A signal stops the process, even if a request never ends.
Stops == \A s \in Servers : pc[s] = "stopping" ~> pc[s] = "down"
=============================================================================
