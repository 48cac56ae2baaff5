---------------------------- MODULE Idempotency ----------------------------
(***************************************************************************)
(* The idempotency middleware: it stands between the router and the        *)
(* handlers, replays the stored response of a request that carries a known *)
(* Idempotency-Key, and keeps two requests with the same key from running  *)
(* the handler at the same time.                                           *)
(*                                                                         *)
(* Every request is a goroutine, of one server or of several that share    *)
(* Redis and PostgreSQL.  Its steps are the commands it sends to the two   *)
(* stores.  A Redis command may fail while the PostgreSQL statement after  *)
(* it succeeds; the client may disconnect; the process may die; and locks, *)
(* leases and responses expire.                                            *)
(*                                                                         *)
(* A response is named by the request whose handler produced it.  A lock   *)
(* and a lease are named by the request that took them; the token that the *)
(* stores hold and compare is only that request's body hash.               *)
(***************************************************************************)
EXTENDS Integers, FiniteSets

CONSTANTS
    Requests,       \* requests that carry a key, on a method that is guarded
    Inputs,         \* what they may be: [key, path (with its method), hash]
    NoOne,          \* the owner of nothing
    Modes           \* how the stores and the clocks may behave: [redis, pg, overrun]

ASSUME NoOneAssumption == NoOne \notin Requests

\* There is something to ask for, and it is made of these three.
ASSUME InputsAssumption ==
    /\ Inputs # {}
    /\ \A i \in Inputs : i = [key |-> i.key, path |-> i.path, hash |-> i.hash]

\* In a mode a store is up, down, or flaky (each command may fail), and a lock
\* or a lease may expire before its holder is through (overrun), or may not.
ASSUME ModesAssumption ==
    Modes \subseteq [redis : {"up", "down", "flaky"}, pg : {"up", "flaky"},
                     overrun : BOOLEAN]

VARIABLES
    pc,         \* where each request is
    phase,      \* which of the three lookups it is in
    req,        \* what it asks
    handle,     \* the lock it holds (lockHandle.kind)
    found,      \* the response its lookup read from PostgreSQL
    reply,      \* what it answered ...
    from,       \* ... and the request whose response that was
    cancelled,  \* the requests whose client has gone away
    ran,        \* the requests whose handler has been called
    expired,    \* the responses older than responseTTL
    mode,       \* how the stores and the clocks behave
    rcache,     \* Redis idem:resp:<key>
    rlock,      \* Redis idem:lock:<method>:<path>:<key>
    pg          \* the rows of idempotency_keys

answerVars == <<reply, from>>
storeVars  == <<rcache, rlock, pg>>
envVars    == <<cancelled, expired, mode>>
vars == <<pc, phase, req, handle, found, reply, from, cancelled, ran, expired,
          mode, rcache, rlock, pg>>

-----------------------------------------------------------------------------
(* Requests, responses and rows.                                           *)

Keys   == {i.key : i \in Inputs}
Scopes == {<<i.path, i.key>> : i \in Inputs}

NoRequest == CHOOSE i \in Inputs : TRUE

Key(r) == req[r].key

\* The lock's token is the hash of the body: two requests may share it.
Token(r) == req[r].hash

\* buildLockScope.
Scope(r) == <<req[r].path, req[r].key>>

\* A stored response: whose path, method and hash it is filed under, and whose
\* handler produced it.
NoResponse == [as |-> NoOne, by |-> NoOne]
Response(r) == [as |-> r, by |-> r]
Usable(resp) == resp.by # NoOne /\ resp.by \notin expired

\* A row of idempotency_keys; live while its lease has not expired.
NoRow == [state |-> "absent", live |-> FALSE, as |-> NoOne, by |-> NoOne]
InProgress(r) == [state |-> "in_progress", live |-> TRUE, as |-> r, by |-> NoOne]
Completed(r, as) == [state |-> "completed", live |-> FALSE, as |-> as, by |-> r]

\* matchesRequest.
Matches(r, resp) ==
    /\ req[resp.as].path = req[r].path
    /\ req[resp.as].hash = req[r].hash

Ends == {"idle", "done", "lost"}
InFlight(r) == pc[r] \notin Ends

-----------------------------------------------------------------------------
(* The two stores: whether a command can work, and whether it can fail.  A *)
(* command sent with a cancelled context fails.                            *)

RedisWorks(r) == mode.redis # "down" /\ r \notin cancelled
RedisFails(r) == mode.redis # "up" \/ r \in cancelled
PGWorks(r)    == r \notin cancelled
PGFails(r)    == mode.pg # "up" \/ r \in cancelled

-----------------------------------------------------------------------------
(* How a step ends.                                                        *)

Goto(r, l) == pc' = [pc EXCEPT ![r] = l]

\* The request answers; its lock, if any, is released after that (defer).
Answer(r, a, s) ==
    /\ reply' = [reply EXCEPT ![r] = a]
    /\ from' = [from EXCEPT ![r] = s]
    /\ Goto(r, IF handle[r] = "none" THEN "done" ELSE "release")

\* A stored response is replayed to the same request and refused to another.
Serve(r, resp) ==
    \/ Matches(r, resp)  /\ Answer(r, "response", resp.by)
    \/ ~Matches(r, resp) /\ Answer(r, "mismatch", NoOne)

\* Nothing was found, or the lookup failed: both mean a miss.
Miss(r) ==
    /\ \/ phase[r] = "first"   /\ Goto(r, "acquire")
       \/ phase[r] = "wait"    /\ Goto(r, "get")
       \/ phase[r] = "recheck" /\ Goto(r, "handler")
    /\ UNCHANGED answerVars

\* The lookup starts over for another purpose.
LookupFor(r, p) ==
    /\ phase' = [phase EXCEPT ![r] = p]
    /\ Goto(r, "get")

\* Mutant of Locked: the lookup is not repeated under the lock.
LockedNoRecheck(r, kind) ==
    /\ handle' = [handle EXCEPT ![r] = kind]
    /\ Goto(r, "handler")
    /\ UNCHANGED phase

\* The lock is taken: "another process may have finished" since the lookup.
Locked(r, kind) ==
    /\ handle' = [handle EXCEPT ![r] = kind]
    /\ LookupFor(r, "recheck")

-----------------------------------------------------------------------------
Init ==
    /\ pc = [r \in Requests |-> "idle"]
    /\ phase = [r \in Requests |-> "first"]
    /\ req = [r \in Requests |-> NoRequest]
    /\ handle = [r \in Requests |-> "none"]
    /\ found = [r \in Requests |-> NoResponse]
    /\ reply = [r \in Requests |-> "none"]
    /\ from = [r \in Requests |-> NoOne]
    /\ cancelled = {}
    /\ ran = {}
    /\ expired = {}
    /\ mode \in Modes
    /\ rcache = [k \in Keys |-> NoResponse]
    /\ rlock = [s \in Scopes |-> NoOne]
    /\ pg = [k \in Keys |-> NoRow]

Receive(r, i) ==
    /\ pc[r] = "idle"
    /\ req' = [req EXCEPT ![r] = i]
    /\ Goto(r, "get")
    /\ UNCHANGED <<phase, handle, found, answerVars, ran, envVars, storeVars>>

-----------------------------------------------------------------------------
(* lookupCachedResponse.                                                   *)

\* Mutant of GetRedis: the request is not compared with the stored one.
GetRedisUnmatched(r) ==
    /\ pc[r] = "get"
    /\ \/ /\ RedisWorks(r) /\ Usable(rcache[Key(r)])
          /\ Answer(r, "response", rcache[Key(r)].by)
       \/ /\ RedisFails(r) \/ ~Usable(rcache[Key(r)])
          /\ Goto(r, "select")
          /\ UNCHANGED answerVars
    /\ UNCHANGED <<phase, req, handle, found, ran, envVars, storeVars>>

\* A response in Redis is served at once; a miss, an expired response and an
\* error all lead to PostgreSQL.
GetRedis(r) ==
    /\ pc[r] = "get"
    /\ \/ /\ RedisWorks(r) /\ Usable(rcache[Key(r)])
          /\ Serve(r, rcache[Key(r)])
       \/ /\ RedisFails(r) \/ ~Usable(rcache[Key(r)])
          /\ Goto(r, "select")
          /\ UNCHANGED answerVars
    /\ UNCHANGED <<phase, req, handle, found, ran, envVars, storeVars>>

\* SELECT ... WHERE status = 'completed' AND expires_at > NOW().
SelectPG(r) ==
    LET row == pg[Key(r)]
        hit == row.state = "completed" /\ row.by \notin expired
    IN  /\ pc[r] = "select"
        /\ \/ /\ PGWorks(r) /\ hit
              /\ found' = [found EXCEPT ![r] = [as |-> row.as, by |-> row.by]]
              /\ Goto(r, "warm")
              /\ UNCHANGED answerVars
           \/ /\ PGFails(r) \/ ~hit
              /\ Miss(r)
              /\ UNCHANGED found
        /\ UNCHANGED <<phase, req, handle, ran, envVars, storeVars>>

\* The response read from PostgreSQL is put back into Redis, or not, and served.
WarmRedis(r) ==
    /\ pc[r] = "warm"
    /\ \/ /\ mode.redis # "down"
          /\ rcache' = [rcache EXCEPT ![Key(r)] = found[r]]
       \/ RedisFails(r) /\ UNCHANGED rcache
    /\ Serve(r, found[r])
    /\ UNCHANGED <<phase, req, handle, found, ran, envVars, rlock, pg>>

\* Mutant of GiveUp: the wait has no deadline.
GiveUpNever(r) ==
    /\ pc[r] = "get" /\ phase[r] = "wait" /\ r \in cancelled
    /\ Answer(r, "in_progress", NoOne)
    /\ UNCHANGED <<phase, req, handle, found, ran, envVars, storeVars>>

\* Mutant of GiveUp: the deadline also cuts off a handler that is running.
GiveUpWhileRunning(r) ==
    /\ \/ pc[r] = "get" /\ phase[r] = "wait"
       \/ pc[r] = "running"
    /\ Answer(r, "in_progress", NoOne)
    /\ UNCHANGED <<phase, req, handle, found, ran, envVars, storeVars>>

\* waitForCachedResponse: the deadline has passed, or the client is gone.
GiveUp(r) ==
    /\ pc[r] = "get" /\ phase[r] = "wait"
    /\ Answer(r, "in_progress", NoOne)
    /\ UNCHANGED <<phase, req, handle, found, ran, envVars, storeVars>>

-----------------------------------------------------------------------------
(* tryAcquireLock.                                                         *)

\* Mutant of AcquireRedis: SET without NX.
AcquireRedisNoNX(r) ==
    /\ pc[r] = "acquire"
    /\ \/ /\ RedisWorks(r)
          /\ rlock' = [rlock EXCEPT ![Scope(r)] = r]
          /\ Locked(r, "redis")
       \/ /\ RedisFails(r)
          /\ Goto(r, "lease")
          /\ UNCHANGED <<rlock, handle, phase>>
    /\ UNCHANGED <<req, found, answerVars, ran, envVars, rcache, pg>>

\* SET NX: the lock is ours, or somebody else's, or Redis failed (and may have
\* set the lock all the same): then PostgreSQL decides.  A command whose reply is
\* lost is sent again by the Redis client: the second SET NX finds the lock that
\* the first one set, and the request waits for itself.
AcquireRedis(r) ==
    /\ pc[r] = "acquire"
    /\ \/ /\ RedisWorks(r) /\ rlock[Scope(r)] = NoOne
          /\ rlock' = [rlock EXCEPT ![Scope(r)] = r]
          /\ Locked(r, "redis")
       \/ /\ RedisWorks(r) /\ rlock[Scope(r)] # NoOne
          /\ LookupFor(r, "wait")
          /\ UNCHANGED <<rlock, handle>>
       \/ /\ RedisWorks(r) /\ mode.redis = "flaky" /\ rlock[Scope(r)] = NoOne
          /\ rlock' = [rlock EXCEPT ![Scope(r)] = r]
          /\ LookupFor(r, "wait")
          /\ UNCHANGED handle
       \/ /\ RedisFails(r)
          /\ \/ UNCHANGED rlock
             \/ /\ mode.redis # "down" /\ rlock[Scope(r)] = NoOne
                /\ rlock' = [rlock EXCEPT ![Scope(r)] = r]
          /\ Goto(r, "lease")
          /\ UNCHANGED <<handle, phase>>
    /\ UNCHANGED <<req, found, answerVars, ran, envVars, rcache, pg>>

\* INSERT ... ON CONFLICT DO UPDATE ... WHERE status = 'in_progress' AND
\* lock_expires_at < NOW().
LeaseFree(row) ==
    \/ row.state = "absent"
    \/ row.state = "in_progress" /\ ~row.live

\* The lease: taken, or held by somebody else, or an error (HTTP 503), after
\* which the row may be there all the same.
AcquirePG(r) ==
    LET free == LeaseFree(pg[Key(r)])
    IN  /\ pc[r] = "lease"
        /\ \/ /\ PGWorks(r) /\ free
              /\ pg' = [pg EXCEPT ![Key(r)] = InProgress(r)]
              /\ Locked(r, "pg")
              /\ UNCHANGED answerVars
           \/ /\ PGWorks(r) /\ ~free
              /\ LookupFor(r, "wait")
              /\ UNCHANGED <<pg, handle, answerVars>>
           \/ /\ PGFails(r)
              /\ \/ UNCHANGED pg
                 \/ free /\ pg' = [pg EXCEPT ![Key(r)] = InProgress(r)]
              /\ Answer(r, "unavailable", NoOne)
              /\ UNCHANGED <<phase, handle>>
        /\ UNCHANGED <<req, found, ran, envVars, rcache, rlock>>

-----------------------------------------------------------------------------
(* The handler, storeCachedResponse and releaseLock.                       *)

\* next.ServeHTTP: the handler works until the request's next step.
Handler(r) ==
    /\ pc[r] = "handler"
    /\ ran' = ran \cup {r}
    /\ Goto(r, "running")
    /\ UNCHANGED <<phase, req, handle, found, answerVars, envVars, storeVars>>

\* Mutant of StoreRedis: the response is filed under the lock's scope, where no
\* lookup finds it.
StoreRedisUnderScope(r) ==
    /\ pc[r] = "running"
    /\ Goto(r, "storePG")
    /\ UNCHANGED <<phase, req, handle, found, answerVars, ran, envVars, storeVars>>

\* writeRedisCache; its error is ignored.
StoreRedis(r) ==
    /\ pc[r] = "running"
    /\ \/ /\ mode.redis # "down"
          /\ rcache' = [rcache EXCEPT ![Key(r)] = Response(r)]
       \/ RedisFails(r) /\ UNCHANGED rcache
    /\ Goto(r, "storePG")
    /\ UNCHANGED <<phase, req, handle, found, answerVars, ran, envVars, rlock, pg>>

\* The row carries r's token, in an open lease.
TokenMatches(r) ==
    /\ pg[Key(r)].state = "in_progress"
    /\ Token(pg[Key(r)].as) = Token(r)

\* writePGCache under a lease: it completes the row whose token matches and
\* leaves its path and hash as they are.
WritePGCache(r) ==
    /\ handle[r] = "pg" /\ TokenMatches(r)
    /\ pg' = [pg EXCEPT ![Key(r)] = Completed(r, @.as)]

\* upsertPGCompleted under a Redis lock: it overwrites whatever is there.
UpsertPGCompleted(r) ==
    /\ handle[r] = "redis"
    /\ pg' = [pg EXCEPT ![Key(r)] = Completed(r, r)]

\* The statement works, or finds no row to complete, or fails (perhaps after
\* it took effect); the request answers its own response in every case.
StorePG(r) ==
    /\ pc[r] = "storePG"
    /\ \/ /\ PGWorks(r)
          /\ \/ /\ WritePGCache(r)
                /\ handle' = [handle EXCEPT ![r] = "completed"]
             \/ UpsertPGCompleted(r) /\ UNCHANGED handle
             \/ handle[r] = "pg" /\ ~TokenMatches(r) /\ UNCHANGED <<pg, handle>>
       \/ /\ PGFails(r)
          /\ WritePGCache(r) \/ UpsertPGCompleted(r) \/ UNCHANGED pg
          /\ UNCHANGED handle
    /\ Answer(r, "response", r)
    /\ UNCHANGED <<phase, req, found, ran, envVars, rcache, rlock>>

\* Mutant of Unlock: the lease is given up by clearing the token of its row.
UnlockClearsToken(r) ==
    \/ /\ handle[r] = "redis"
       /\ rlock' = [rlock EXCEPT ![Scope(r)] = NoOne]
       /\ UNCHANGED pg
    \/ /\ handle[r] = "pg"
       /\ pg[Key(r)].state = "in_progress"
       /\ pg' = [pg EXCEPT ![Key(r)].as = NoOne]
       /\ UNCHANGED rlock
    \/ handle[r] = "completed" /\ UNCHANGED <<rlock, pg>>

\* The Redis lock carries r's token.
LockMatches(r) ==
    /\ rlock[Scope(r)] # NoOne
    /\ Token(rlock[Scope(r)]) = Token(r)

\* Mutant of Unlock: DELETE FROM idempotency_keys WHERE key only.
UnlockByKey(r) ==
    \/ /\ handle[r] = "redis"
       /\ \/ LockMatches(r) /\ rlock' = [rlock EXCEPT ![Scope(r)] = NoOne]
          \/ ~LockMatches(r) /\ UNCHANGED rlock
       /\ UNCHANGED pg
    \/ /\ handle[r] = "pg"
       /\ pg' = [pg EXCEPT ![Key(r)] = NoRow]
       /\ UNCHANGED rlock
    \/ handle[r] = "completed" /\ UNCHANGED <<rlock, pg>>

\* Compare the token and delete: the Redis lock by a script, the row of an open
\* lease by a DELETE.  A completed lease is left alone.
Unlock(r) ==
    \/ /\ handle[r] = "redis"
       /\ \/ LockMatches(r) /\ rlock' = [rlock EXCEPT ![Scope(r)] = NoOne]
          \/ ~LockMatches(r) /\ UNCHANGED rlock
       /\ UNCHANGED pg
    \/ /\ handle[r] = "pg"
       /\ \/ TokenMatches(r) /\ pg' = [pg EXCEPT ![Key(r)] = NoRow]
          \/ ~TokenMatches(r) /\ UNCHANGED pg
       /\ UNCHANGED rlock
    \/ handle[r] = "completed" /\ UNCHANGED <<rlock, pg>>

\* releaseLock runs on a context of its own, and its errors are ignored.
ReleaseLock(r) ==
    /\ pc[r] = "release"
    /\ \/ Unlock(r)
       \/ handle[r] = "redis" /\ mode.redis # "up" /\ UNCHANGED <<rlock, pg>>
       \/ handle[r] = "pg" /\ mode.pg # "up" /\ UNCHANGED <<rlock, pg>>
    /\ Goto(r, "done")
    /\ UNCHANGED <<phase, req, handle, found, answerVars, ran, envVars, rcache>>

-----------------------------------------------------------------------------
(* Clients, processes and clocks.                                          *)

\* The client goes away, and the request's context ends; once it has answered,
\* nothing depends on that context any more.
Cancel(r) ==
    /\ InFlight(r) /\ reply[r] = "none"
    /\ r \notin cancelled
    /\ cancelled' = cancelled \cup {r}
    /\ UNCHANGED <<pc, phase, req, handle, found, answerVars, ran, expired, mode, storeVars>>

\* The process that serves r dies, and leaves its lock or lease behind.
Crash(r) ==
    /\ InFlight(r)
    /\ Goto(r, "lost")
    /\ UNCHANGED <<phase, req, handle, found, answerVars, ran, envVars, storeVars>>

\* The request that took a lock may still rely on it.
Relies(r, kind) == InFlight(r) /\ handle[r] = kind

\* Mutant of ExpireLock: the TTL is shorter than the handler.
ExpireLockEarly(s) ==
    /\ rlock[s] # NoOne
    /\ rlock' = [rlock EXCEPT ![s] = NoOne]
    /\ UNCHANGED <<pc, phase, req, handle, found, answerVars, ran, envVars, rcache, pg>>

\* lockTTL after SET NX the lock is gone.
ExpireLock(s) ==
    /\ rlock[s] # NoOne
    /\ mode.overrun \/ ~Relies(rlock[s], "redis")
    /\ rlock' = [rlock EXCEPT ![s] = NoOne]
    /\ UNCHANGED <<pc, phase, req, handle, found, answerVars, ran, envVars, rcache, pg>>

\* requestTimeout after the lease was taken, lock_expires_at < NOW().
ExpireLease(k) ==
    /\ pg[k].state = "in_progress" /\ pg[k].live
    /\ mode.overrun \/ ~Relies(pg[k].as, "pg")
    /\ pg' = [pg EXCEPT ![k].live = FALSE]
    /\ UNCHANGED <<pc, phase, req, handle, found, answerVars, ran, envVars, rcache, rlock>>

\* responseTTL (24 hours) after a response was made, long after its request.
ExpireResponse(r) ==
    /\ r \in ran \ expired
    /\ ~InFlight(r)
    /\ expired' = expired \cup {r}
    /\ UNCHANGED <<pc, phase, req, handle, found, answerVars, ran, cancelled, mode, storeVars>>

-----------------------------------------------------------------------------
Step(r) ==
    \/ GetRedis(r) \/ SelectPG(r) \/ WarmRedis(r)
    \/ AcquireRedis(r) \/ AcquirePG(r)
    \/ Handler(r) \/ StoreRedis(r) \/ StorePG(r) \/ ReleaseLock(r)

Next ==
    \/ \E r \in Requests :
          \/ \E i \in Inputs : Receive(r, i)
          \/ Step(r) \/ GiveUp(r) \/ Cancel(r) \/ Crash(r) \/ ExpireResponse(r)
    \/ \E s \in Scopes : ExpireLock(s)
    \/ \E k \in Keys : ExpireLease(k)

Spec == Init /\ [][Next]_vars

\* A goroutine that can run does run, the stores and the handler answer, and
\* the wait deadline passes: it cannot poll for ever (strong fairness, for the
\* deadline is looked at only between two polls).  Nothing is assumed about
\* clients, crashes, or the expiry of locks.
Fairness ==
    \A r \in Requests : WF_vars(Step(r)) /\ SF_vars(GiveUp(r))

FairSpec == Spec /\ Fairness

-----------------------------------------------------------------------------
(* Properties.                                                             *)

PCs == Ends \cup {"get", "select", "warm", "acquire", "lease", "handler",
                  "running", "storePG", "release"}
Answers   == {"none", "response", "mismatch", "in_progress", "unavailable"}
Owners    == Requests \cup {NoOne}
Responses == [as : Requests, by : Requests] \cup {NoResponse}

\* A lease has a token and no response, a completed row a response.
Rows == [state : {"in_progress"}, live : BOOLEAN, as : Requests, by : {NoOne}]
        \cup [state : {"completed"}, live : {FALSE}, as : Requests, by : Requests]
        \cup {NoRow}

\* Every variable has its type: a row of idempotency_keys is absent, leased to
\* a request, or complete with a response.
TypeOK ==
    /\ pc \in [Requests -> PCs]
    /\ phase \in [Requests -> {"first", "wait", "recheck"}]
    /\ req \in [Requests -> Inputs]
    /\ handle \in [Requests -> {"none", "redis", "pg", "completed"}]
    /\ found \in [Requests -> Responses]
    /\ reply \in [Requests -> Answers]
    /\ from \in [Requests -> Owners]
    /\ cancelled \subseteq Requests
    /\ ran \subseteq Requests
    /\ expired \subseteq Requests
    /\ mode \in Modes
    /\ rcache \in [Keys -> Responses]
    /\ rlock \in [Scopes -> Owners]
    /\ pg \in [Keys -> Rows]

\* From the call of the handler until its response is stored.
Critical(r) == pc[r] \in {"running", "storePG"}

\* Something happened to a request of the key whose handler was called, after
\* which the handler may run again: its process died before it answered, its
\* client left before the response was in both stores, or the response has
\* expired.  Waiters that leave or die spoil nothing.
Spoiled(k) ==
    \E r \in ran :
        /\ Key(r) = k
        /\ \/ pc[r] = "lost" /\ reply[r] = "none"
           \/ r \in cancelled
           \/ r \in expired

\* The lock tells the two apart.  A Redis lock is taken per method, path and
\* key; a lease of idempotency_keys, which does the work when Redis is down, per
\* key.
Apart(r, s) ==
    IF mode.redis = "down" THEN Key(r) # Key(s) ELSE Scope(r) # Scope(s)

\* "uses Redis distributed lock to serialize duplicate in-flight requests",
\* "falls back to PostgreSQL for response lookup and row-level lease"
\* (idempotency.go): two requests of one key, method and path never run the
\* handler at the same time, and under leases no two of one key, whatever
\* crashes, leaves or fails around them.
Serialized ==
    \A r, s \in Requests : r # s /\ Critical(r) /\ Critical(s) => Apart(r, s)

\* Duplicates, concurrent or late, run the handler once: the response is found
\* by the recheck under the lock, as it is stored before the lock is released.
RunsOnce ==
    \A r, s \in ran : r # s /\ ~Apart(r, s) => Spoiled(Key(r))

\* A client gets its own response or the one of an identical request (same key,
\* path and body), never another's.
ReplayMatches ==
    \A r \in Requests : reply[r] = "response" => req[from[r]] = req[r]

\* The response a retry of r can count on: the one in Redis, or the one in
\* PostgreSQL if Redis is down.
Retained(r) ==
    IF mode.redis # "down" THEN rcache[Key(r)]
                           ELSE [as |-> pg[Key(r)].as, by |-> pg[Key(r)].by]

\* Once a client has its response, a retry is replayed that very response, until
\* it expires.  The exception is a key that two paths used together (see
\* KeyReuseRefused): the second response overwrites the first, whose client is
\* then refused with 409.
Replayable ==
    \A r \in Requests :
        pc[r] = "done" /\ reply[r] = "response" /\ ~Spoiled(Key(r)) =>
            \/ /\ Usable(Retained(r))
               /\ Matches(r, Retained(r))
               /\ Retained(r).by = from[r]
            \/ \E s \in ran : Key(s) = Key(r) /\ Apart(r, s)

\* The lock or the lease that r has taken is still its own.
Holds(r) ==
    /\ InFlight(r) /\ handle[r] = "redis" => rlock[Scope(r)] = r
    /\ InFlight(r) /\ handle[r] = "pg" =>
          \/ pg[Key(r)] = InProgress(r)
          \/ pg[Key(r)].state = "completed"

\* A request between taking its lock and releasing it still has it: nobody else
\* with the same token has released it or taken it over.  A lease may have been
\* completed under it by a request that held the Redis lock.
HolderHolds == \A r \in Requests : Holds(r)

\* A response in PostgreSQL is not lost: a completed row is not leased again, not
\* deleted by the release of a lease whose completion was reported as failed, and
\* not completed a second time under a lease.  Only a request that ran under the
\* Redis lock replaces it, by its own response.
CompletedKept ==
    \A k \in Keys : pg[k].state = "completed" =>
        \/ pg'[k] = pg[k]
        \/ \E r \in Requests :
              /\ Key(r) = k /\ handle[r] = "redis" /\ pc[r] = "storePG"
              /\ pg'[k] = Completed(r, r)

CompletedStays == [][CompletedKept]_vars

\* Every request gets an answer, unless its process dies: nobody waits for ever
\* for the holder of a lock, not even for one that died.
Answered == \A r \in Requests : InFlight(r) ~> ~InFlight(r)

\* "A repeated key with a different method, path, or body returns HTTP 409"
\* (README).  The code lets both through if they are under way together: the
\* Redis lock is taken per method, path and key.
KeyReuseRefused ==
    \A r, s \in ran : Key(r) = Key(s) /\ req[r] # req[s] => Spoiled(Key(r))

-----------------------------------------------------------------------------
(* The inductive invariant.                                                *)

\* Where a request is tells what it has: a lock from the recheck until its
\* release, a handler that has run, an answer.
ControlInv ==
    /\ \A r \in Requests :
          /\ pc[r] \in {"idle", "acquire", "lease"} =>
                phase[r] = "first" /\ handle[r] = "none"
          /\ pc[r] \in {"get", "select", "warm"} =>
                IF phase[r] = "recheck" THEN handle[r] \in {"redis", "pg"}
                                       ELSE handle[r] = "none"
          /\ pc[r] = "handler" => phase[r] = "recheck"
          /\ pc[r] \in {"handler", "running", "storePG"} =>
                handle[r] \in {"redis", "pg"}
          /\ reply[r] # "none" => pc[r] \in {"release", "done", "lost"}
          /\ reply[r] = "response" => from[r] \in ran /\ Key(from[r]) = Key(r)
          /\ r \in ran =>
                \/ pc[r] \in {"running", "storePG"}
                \/ pc[r] = "lost" /\ reply[r] \in {"none", "response"}
                \/ pc[r] \in {"release", "done"} /\ reply[r] = "response"
          /\ Critical(r) => r \in ran
          /\ r \in cancelled => pc[r] # "idle"
    /\ expired \subseteq ran

\* A response, or a row with one, is under the key of the requests it names.
FiledUnder(resp, k) ==
    resp.by # NoOne =>
        /\ resp.by \in ran /\ Key(resp.by) = k
        /\ pc[resp.as] # "idle" /\ Key(resp.as) = k

CacheFiled == \A k \in Keys : FiledUnder(rcache[k], k)

RowsFiled ==
    \A k \in Keys :
        /\ FiledUnder(pg[k], k)
        /\ pg[k].state = "in_progress" => pc[pg[k].as] # "idle" /\ Key(pg[k].as) = k

LocksFiled ==
    \A s \in Scopes :
        rlock[s] # NoOne => pc[rlock[s]] # "idle" /\ Scope(rlock[s]) = s

FoundFiled ==
    \A r \in Requests :
        /\ pc[r] = "idle" => found[r] = NoResponse
        /\ FiledUnder(found[r], Key(r))
        /\ pc[r] = "warm" => found[r].by # NoOne /\ pg[Key(r)].state = "completed"

FiledInv == CacheFiled /\ RowsFiled /\ LocksFiled /\ FoundFiled

\* A response is filed as that of the request that produced it.
FiledAsOwn ==
    /\ \A k \in Keys :
          /\ rcache[k].as = rcache[k].by
          /\ pg[k].state = "completed" => pg[k].as = pg[k].by
    /\ \A r \in Requests : found[r].as = found[r].by

\* All this holds as long as locks and leases outlive their holders.
HoldInv == ~mode.overrun => HolderHolds /\ FiledAsOwn /\ ReplayMatches

Holding == {"get", "select", "warm", "handler", "running", "storePG"}

\* Nobody has completed the lease of a request before the request itself.
OwnLease(r) == handle[r] = "pg" /\ pc[r] \in Holding => pg[Key(r)] = InProgress(r)

\* With Redis up nobody relies on a lease; with Redis down everybody does, and
\* nobody completes the lease of another.
LockInv ==
    /\ mode.redis = "up" =>
          \A r \in Requests :
              /\ handle[r] \in {"none", "redis"}
              /\ pc[r] = "lease" => r \in cancelled
    /\ mode.redis = "down" =>
          \A r \in Requests :
              /\ handle[r] # "redis"
              /\ ~mode.overrun => OwnLease(r)

\* One store does the whole work, and its locks outlive their holders.
Reliable ==
    /\ ~mode.overrun
    /\ \/ mode.redis = "up"
       \/ mode.redis = "down" /\ mode.pg = "up"

\* The store that does the work has a response for the key.
Stored(k) ==
    IF mode.redis = "down" THEN pg[k].state = "completed" ELSE rcache[k].by # NoOne

\* The request has found nothing under its lock.
Missed(r) ==
    /\ phase[r] = "recheck"
    /\ pc[r] \in IF mode.redis = "down" THEN {"handler"} ELSE {"select", "warm", "handler"}

\* A response that was given is stored, and who has found none under its lock
\* is the first to run, unless its client left and its lookups failed.
Once(r) ==
    /\ reply[r] = "response" => Stored(Key(r))
    /\ pc[r] = "storePG" /\ mode.redis = "up" => Stored(Key(r))
    /\ Missed(r) /\ r \notin cancelled => \A s \in ran : Apart(r, s)

\* With Redis up, what is in PostgreSQL was in Redis first.
RedisFirst(k) == mode.redis = "up" /\ pg[k].state = "completed" => Stored(k)

OnceInv ==
    Reliable =>
        /\ RunsOnce
        /\ \A r \in Requests : Spoiled(Key(r)) \/ Once(r)
        /\ \A k \in Keys : Spoiled(k) \/ RedisFirst(k)

\* A lease is completed only by a request with its token: a response is filed
\* under the hash of the body it answers, whatever expires.
SameToken(resp) == resp.by # NoOne => Token(resp.as) = Token(resp.by)

TokenInv ==
    /\ \A k \in Keys : SameToken(rcache[k]) /\ SameToken(pg[k])
    /\ \A r \in Requests :
          /\ SameToken(found[r])
          /\ reply[r] = "response" => Token(from[r]) = Token(r)

Inv == TypeOK /\ ControlInv /\ FiledInv /\ TokenInv /\ HoldInv /\ LockInv /\ OnceInv
=============================================================================
