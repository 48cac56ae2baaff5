------------------------- MODULE IdempotencyProofs -------------------------
(***************************************************************************)
(* Theorems about Idempotency, for any number of requests, any inputs and  *)
(* any modes of the two stores.                                            *)
(*                                                                         *)
(* The inductive invariant is Inv of Idempotency, in seven layers:         *)
(*   TypeOK      types;                                                    *)
(*   ControlInv  where a request is tells which lock and answer it has;    *)
(*   FiledInv    what the stores hold is filed under the right key;        *)
(*   TokenInv    what is replayed answered the same body;                  *)
(*   HoldInv     locks stay with their holders, if TTLs outlive handlers;  *)
(*   LockInv     all requests use the same kind of lock, if Redis is       *)
(*               either up or down;                                        *)
(*   OnceInv     a response that was given is stored, if one store does    *)
(*               the whole work.                                           *)
(* Each layer is shown to survive a step from Inv as a whole, one action   *)
(* at a time.                                                              *)
(***************************************************************************)
EXTENDS Idempotency, TLAPS

USE DEF answerVars, storeVars, envVars, Goto, Ends, PCs

-----------------------------------------------------------------------------
(* Types.                                                                  *)

\* A request has a key and a lock scope of its own.
LEMMA KeyTypes ==
    ASSUME TypeOK, NEW r \in Requests
    PROVE  Key(r) \in Keys /\ Scope(r) \in Scopes
BY DEF TypeOK, Key, Keys, Scope, Scopes

\* A row is absent, a lease or complete.
LEMMA RowTypes ==
    ASSUME NEW row \in Rows
    PROVE  /\ row.state \in {"absent", "in_progress", "completed"}
           /\ row.state = "absent" => row = NoRow
           /\ row.state = "in_progress" => row.as \in Requests /\ row.by = NoOne
           /\ row.state = "completed" => row.as \in Requests /\ row.by \in Requests
           /\ row.state = "in_progress" /\ row.live => row = InProgress(row.as)
<1>1. CASE row \in [state : {"in_progress"}, live : BOOLEAN, as : Requests, by : {NoOne}]
  <2>1. row = [state |-> "in_progress", live |-> row.live, as |-> row.as, by |-> NoOne]
    BY <1>1
  <2>2. row.live \in BOOLEAN /\ row.as \in Requests /\ row.by = NoOne
        /\ row.state = "in_progress"
    BY <1>1
  <2>3. row.live => row = InProgress(row.as)
    <3> SUFFICES ASSUME row.live PROVE row = InProgress(row.as)
      OBVIOUS
    <3>1. row.live = TRUE
      BY <2>2
    <3> QED
      BY <2>1, <3>1 DEF InProgress
  <2> QED
    BY <2>2, <2>3
<1>2. CASE row \in [state : {"completed"}, live : {FALSE}, as : Requests, by : Requests]
  BY <1>2
<1>3. CASE row = NoRow
  BY <1>3 DEF NoRow
<1> QED
  BY <1>1, <1>2, <1>3 DEF Rows

\* Both sides of a row, and of a response, are named or neither is.
LEMMA ResponseTypes ==
    ASSUME NEW resp \in Responses
    PROVE  /\ resp.as \in Owners /\ resp.by \in Owners
           /\ resp.by = NoOne => resp = NoResponse
           /\ resp.by # NoOne => resp.as \in Requests /\ resp.by \in Requests
BY NoOneAssumption DEF Responses, NoResponse, Owners

\* What the actions write into the stores has its type.
LEMMA RowMakers ==
    ASSUME NEW r \in Requests, NEW s \in Requests
    PROVE  /\ InProgress(r) \in Rows
           /\ Completed(r, s) \in Rows
           /\ NoRow \in Rows
           /\ Response(r) \in Responses
           /\ [as |-> s, by |-> r] \in Responses
BY DEF Rows, InProgress, Completed, NoRow, Response, Responses

\* The expiry of a lease leaves the rest of its row.
LEMMA LeaseExpires ==
    ASSUME NEW row \in Rows, row.state = "in_progress"
    PROVE  /\ [row EXCEPT !.live = FALSE] \in Rows
           /\ [row EXCEPT !.live = FALSE].state = "in_progress"
           /\ [row EXCEPT !.live = FALSE].as = row.as
           /\ [row EXCEPT !.live = FALSE].by = NoOne
<1>1. row \in [state : {"in_progress"}, live : BOOLEAN, as : Requests, by : {NoOne}]
  <2>1. row \in [state : {"completed"}, live : {FALSE}, as : Requests, by : Requests]
           => row.state = "completed"
    OBVIOUS
  <2>2. row # NoRow
    BY DEF NoRow
  <2> QED
    BY <2>1, <2>2 DEF Rows
<1> QED
  BY <1>1 DEF Rows

\* The initial state has its types.
LEMMA TypeInit == Init => TypeOK
<1> SUFFICES ASSUME Init PROVE TypeOK
  OBVIOUS
<1>1. NoRequest \in Inputs
  BY InputsAssumption DEF NoRequest
<1> QED
  BY <1>1 DEF Init, TypeOK, Owners, Answers, Responses, Rows

\* An answer has its type.
LEMMA AnswerTypes ==
    ASSUME TypeOK, NEW r \in Requests, NEW a \in Answers, NEW s \in Owners,
           Answer(r, a, s)
    PROVE  /\ pc' \in [Requests -> PCs]
           /\ reply' \in [Requests -> Answers]
           /\ from' \in [Requests -> Owners]
BY DEF TypeOK, Answer

\* A stored response that is served, or refused, has its type.
LEMMA ServeTypes ==
    ASSUME TypeOK, NEW r \in Requests, NEW resp \in Responses, Serve(r, resp)
    PROVE  /\ pc' \in [Requests -> PCs]
           /\ reply' \in [Requests -> Answers]
           /\ from' \in [Requests -> Owners]
<1>1. resp.by \in Owners /\ NoOne \in Owners
  BY ResponseTypes DEF Owners
<1>2. "response" \in Answers /\ "mismatch" \in Answers
  BY DEF Answers
<1>3. Answer(r, "response", resp.by) \/ Answer(r, "mismatch", NoOne)
  BY DEF Serve
<1> QED
  BY <1>1, <1>2, <1>3, AnswerTypes

\* Every step keeps the types.
LEMMA TypeStep == TypeOK /\ [Next]_vars => TypeOK'
<1> SUFFICES ASSUME TypeOK, [Next]_vars PROVE TypeOK'
  OBVIOUS
<1>1. ASSUME NEW r \in Requests, NEW i \in Inputs, Receive(r, i) PROVE TypeOK'
  BY <1>1 DEF TypeOK, Receive
<1>2. ASSUME NEW r \in Requests, GetRedis(r) PROVE TypeOK'
  <2>1. rcache[Key(r)] \in Responses
    BY KeyTypes DEF TypeOK
  <2>2. CASE Serve(r, rcache[Key(r)])
    BY <1>2, <2>1, <2>2, ServeTypes DEF TypeOK, GetRedis
  <2>3. CASE Goto(r, "select") /\ UNCHANGED answerVars
    BY <1>2, <2>3 DEF TypeOK, GetRedis
  <2> QED
    BY <1>2, <2>2, <2>3 DEF GetRedis
<1>3. ASSUME NEW r \in Requests, SelectPG(r) PROVE TypeOK'
  <2>1. pg[Key(r)] \in Rows
    BY KeyTypes DEF TypeOK
  <2>2. pc' \in [Requests -> PCs] /\ UNCHANGED answerVars
    BY <1>3 DEF TypeOK, SelectPG, Miss
  <2>3. found' \in [Requests -> Responses]
    BY <1>3, <2>1, RowTypes, RowMakers DEF TypeOK, SelectPG
  <2> QED
    BY <1>3, <2>2, <2>3 DEF TypeOK, SelectPG
<1>4. ASSUME NEW r \in Requests, WarmRedis(r) PROVE TypeOK'
  <2>1. found[r] \in Responses
    BY DEF TypeOK
  <2>2. rcache' \in [Keys -> Responses]
    BY <1>4, <2>1 DEF TypeOK, WarmRedis
  <2> QED
    BY <1>4, <2>1, <2>2, ServeTypes DEF TypeOK, WarmRedis
<1>5. ASSUME NEW r \in Requests, GiveUp(r) PROVE TypeOK'
  <2>1. "in_progress" \in Answers /\ NoOne \in Owners
    BY DEF Answers, Owners
  <2> QED
    BY <1>5, <2>1, AnswerTypes DEF TypeOK, GiveUp
<1>6. ASSUME NEW r \in Requests, AcquireRedis(r) PROVE TypeOK'
  <2>1. r \in Owners
    BY DEF Owners
  <2> QED
    BY <1>6, <2>1 DEF TypeOK, AcquireRedis, Locked, LookupFor
<1>7. ASSUME NEW r \in Requests, AcquirePG(r) PROVE TypeOK'
  <2>1. pg' \in [Keys -> Rows]
    BY <1>7, RowMakers DEF TypeOK, AcquirePG
  <2>2. "unavailable" \in Answers /\ NoOne \in Owners
    BY DEF Answers, Owners
  <2>3. /\ pc' \in [Requests -> PCs]
        /\ phase' \in [Requests -> {"first", "wait", "recheck"}]
        /\ handle' \in [Requests -> {"none", "redis", "pg", "completed"}]
        /\ reply' \in [Requests -> Answers]
        /\ from' \in [Requests -> Owners]
    BY <1>7, <2>2 DEF TypeOK, AcquirePG, Locked, LookupFor, Answer
  <2> QED
    BY <1>7, <2>1, <2>3 DEF TypeOK, AcquirePG
<1>8. ASSUME NEW r \in Requests, Handler(r) PROVE TypeOK'
  BY <1>8 DEF TypeOK, Handler
<1>9. ASSUME NEW r \in Requests, StoreRedis(r) PROVE TypeOK'
  BY <1>9, RowMakers DEF TypeOK, StoreRedis
<1>10. ASSUME NEW r \in Requests, StorePG(r) PROVE TypeOK'
  <2>1. pg[Key(r)] \in Rows
    BY KeyTypes DEF TypeOK
  <2>2. pg' \in [Keys -> Rows]
    <3>1. CASE WritePGCache(r)
      <4>1. pg[Key(r)].as \in Requests
        BY <2>1, <3>1, RowTypes DEF WritePGCache, TokenMatches
      <4> QED
        BY <3>1, <4>1, RowMakers DEF TypeOK, WritePGCache
    <3>2. CASE UpsertPGCompleted(r)
      BY <3>2, RowMakers DEF TypeOK, UpsertPGCompleted
    <3>3. CASE UNCHANGED pg
      BY <3>3 DEF TypeOK
    <3> QED
      BY <1>10, <3>1, <3>2, <3>3 DEF StorePG
  <2>3. "response" \in Answers /\ r \in Owners
    BY DEF Answers, Owners
  <2> QED
    BY <1>10, <2>2, <2>3, AnswerTypes DEF TypeOK, StorePG
<1>11. ASSUME NEW r \in Requests, ReleaseLock(r) PROVE TypeOK'
  <2>1. NoRow \in Rows /\ NoOne \in Owners
    BY DEF Rows, Owners
  <2> QED
    BY <1>11, <2>1 DEF TypeOK, ReleaseLock, Unlock
<1>12. ASSUME NEW r \in Requests, Cancel(r) PROVE TypeOK'
  BY <1>12 DEF TypeOK, Cancel
<1>13. ASSUME NEW r \in Requests, Crash(r) PROVE TypeOK'
  BY <1>13 DEF TypeOK, Crash
<1>14. ASSUME NEW s \in Scopes, ExpireLock(s) PROVE TypeOK'
  BY <1>14 DEF TypeOK, ExpireLock, Owners
<1>15. ASSUME NEW k \in Keys, ExpireLease(k) PROVE TypeOK'
  <2>1. [pg[k] EXCEPT !.live = FALSE] \in Rows
    BY <1>15, LeaseExpires DEF TypeOK, ExpireLease
  <2> QED
    BY <1>15, <2>1 DEF TypeOK, ExpireLease
<1>16. ASSUME NEW r \in Requests, ExpireResponse(r) PROVE TypeOK'
  BY <1>16 DEF TypeOK, ExpireResponse
<1>17. ASSUME UNCHANGED vars PROVE TypeOK'
  BY <1>17 DEF TypeOK, vars
<1> QED
  BY <1>1, <1>2, <1>3, <1>4, <1>5, <1>6, <1>7, <1>8, <1>9, <1>10, <1>11,
     <1>12, <1>13, <1>14, <1>15, <1>16, <1>17 DEF Next, Step

-----------------------------------------------------------------------------
(* Control.                                                                *)

\* Every step keeps ControlInv.
LEMMA ControlStep == Inv /\ [Next]_vars => ControlInv'
<1> SUFFICES ASSUME Inv, [Next]_vars PROVE ControlInv'
  OBVIOUS
<1>1. ASSUME NEW r \in Requests, NEW i \in Inputs, Receive(r, i) PROVE ControlInv'
  BY <1>1 DEF Inv, TypeOK, ControlInv, FiledInv, CacheFiled, FoundFiled, FiledUnder,
              Key, Critical, Receive
<1>2. ASSUME NEW r \in Requests, GetRedis(r) PROVE ControlInv'
  <2>1. Key(r) \in Keys
    BY KeyTypes DEF Inv
  <2> QED
    BY <1>2, <2>1 DEF Inv, TypeOK, ControlInv, FiledInv, CacheFiled, FoundFiled,
                      FiledUnder, Key, Critical,
                      GetRedis, Serve, Answer, Usable
<1>3. ASSUME NEW r \in Requests, SelectPG(r) PROVE ControlInv'
  BY <1>3 DEF Inv, TypeOK, ControlInv, FiledInv, CacheFiled, FoundFiled, FiledUnder,
              Key, Critical, SelectPG, Miss
<1>4. ASSUME NEW r \in Requests, WarmRedis(r) PROVE ControlInv'
  BY <1>4 DEF Inv, TypeOK, ControlInv, FiledInv, CacheFiled, FoundFiled, FiledUnder,
              Key, Critical, WarmRedis, Serve, Answer
<1>5. ASSUME NEW r \in Requests, GiveUp(r) PROVE ControlInv'
  BY <1>5 DEF Inv, TypeOK, ControlInv, FiledInv, CacheFiled, FoundFiled, FiledUnder,
              Key, Critical, GiveUp, Answer
<1>6. ASSUME NEW r \in Requests, AcquireRedis(r) PROVE ControlInv'
  BY <1>6 DEF Inv, TypeOK, ControlInv, FiledInv, CacheFiled, FoundFiled, FiledUnder,
              Key, Critical, AcquireRedis, Locked, LookupFor
<1>7. ASSUME NEW r \in Requests, AcquirePG(r) PROVE ControlInv'
  BY <1>7 DEF Inv, TypeOK, ControlInv, FiledInv, CacheFiled, FoundFiled, FiledUnder,
              Key, Critical, AcquirePG, Locked, LookupFor, Answer
<1>8. ASSUME NEW r \in Requests, Handler(r) PROVE ControlInv'
  BY <1>8 DEF Inv, TypeOK, ControlInv, FiledInv, CacheFiled, FoundFiled, FiledUnder,
              Key, Critical, Handler
<1>9. ASSUME NEW r \in Requests, StoreRedis(r) PROVE ControlInv'
  BY <1>9 DEF Inv, TypeOK, ControlInv, FiledInv, CacheFiled, FoundFiled, FiledUnder,
              Key, Critical, StoreRedis
<1>10. ASSUME NEW r \in Requests, StorePG(r) PROVE ControlInv'
  BY <1>10 DEF Inv, TypeOK, ControlInv, FiledInv, CacheFiled, FoundFiled, FiledUnder,
               Key, Critical, StorePG, Answer, WritePGCache, UpsertPGCompleted
<1>11. ASSUME NEW r \in Requests, ReleaseLock(r) PROVE ControlInv'
  BY <1>11 DEF Inv, TypeOK, ControlInv, FiledInv, CacheFiled, FoundFiled, FiledUnder,
               Key, Critical, ReleaseLock, Unlock
<1>12. ASSUME NEW r \in Requests, Cancel(r) PROVE ControlInv'
  BY <1>12 DEF Inv, TypeOK, ControlInv, FiledInv, CacheFiled, FoundFiled, FiledUnder,
               Key, Critical, Cancel, InFlight
<1>13. ASSUME NEW r \in Requests, Crash(r) PROVE ControlInv'
  BY <1>13 DEF Inv, TypeOK, ControlInv, FiledInv, CacheFiled, FoundFiled, FiledUnder,
               Key, Critical, Crash, InFlight
<1>14. ASSUME NEW s \in Scopes, ExpireLock(s) PROVE ControlInv'
  BY <1>14 DEF Inv, TypeOK, ControlInv, FiledInv, CacheFiled, FoundFiled, FiledUnder,
               Key, Critical, ExpireLock
<1>15. ASSUME NEW k \in Keys, ExpireLease(k) PROVE ControlInv'
  BY <1>15 DEF Inv, TypeOK, ControlInv, FiledInv, CacheFiled, FoundFiled, FiledUnder,
               Key, Critical, ExpireLease
<1>16. ASSUME NEW r \in Requests, ExpireResponse(r) PROVE ControlInv'
  BY <1>16 DEF Inv, TypeOK, ControlInv, FiledInv, CacheFiled, FoundFiled, FiledUnder,
               Key, Critical, ExpireResponse, InFlight
<1>17. ASSUME UNCHANGED vars PROVE ControlInv'
  BY <1>17 DEF Inv, TypeOK, ControlInv, FiledInv, CacheFiled, FoundFiled, FiledUnder,
               Key, Critical, vars
<1> QED
  BY <1>1, <1>2, <1>3, <1>4, <1>5, <1>6, <1>7, <1>8, <1>9, <1>10, <1>11,
     <1>12, <1>13, <1>14, <1>15, <1>16, <1>17 DEF Next, Step

-----------------------------------------------------------------------------
(* Where things are filed.                                                 *)

\* A request that has begun stays what it is, and the history only grows.
LEMMA BegunStays ==
    ASSUME Inv, [Next]_vars
    PROVE  /\ \A s \in Requests : pc[s] # "idle" => pc'[s] # "idle" /\ req'[s] = req[s]
           /\ ran \subseteq ran'
           /\ \A s \in ran : pc[s] # "idle"
<1>1. \A s \in ran : pc[s] # "idle"
  BY DEF Inv, TypeOK, ControlInv
<1>2. CASE UNCHANGED vars
  BY <1>1, <1>2 DEF vars
<1>3. ASSUME NEW r \in Requests, \E i \in Inputs : Receive(r, i)
      PROVE  /\ \A s \in Requests : pc[s] # "idle" => pc'[s] # "idle" /\ req'[s] = req[s]
             /\ ran \subseteq ran'
  BY <1>3 DEF Inv, TypeOK, Receive
<1>4. ASSUME NEW r \in Requests, Step(r) \/ GiveUp(r) \/ Crash(r)
      PROVE  /\ \A s \in Requests : pc[s] # "idle" => pc'[s] # "idle" /\ req'[s] = req[s]
             /\ ran \subseteq ran'
  <2>1. \E l \in PCs \ {"idle"} : Goto(r, l)
    BY <1>4 DEF Step, GetRedis, SelectPG, WarmRedis, AcquireRedis, AcquirePG, Handler,
                StoreRedis, StorePG, ReleaseLock, GiveUp, Crash, Serve, Answer, Miss,
                Locked, LookupFor
  <2>2. req' = req /\ ran \subseteq ran'
    BY <1>4 DEF Step, GetRedis, SelectPG, WarmRedis, AcquireRedis, AcquirePG, Handler,
                StoreRedis, StorePG, ReleaseLock, GiveUp, Crash
  <2> QED
    BY <2>1, <2>2 DEF Inv, TypeOK
<1>5. CASE UNCHANGED <<pc, req, ran>>
  BY <1>1, <1>5
<1>6. CASE \E r \in Requests : Cancel(r) \/ ExpireResponse(r)
  BY <1>5, <1>6 DEF Cancel, ExpireResponse
<1>7. CASE (\E s \in Scopes : ExpireLock(s)) \/ \E k \in Keys : ExpireLease(k)
  BY <1>5, <1>7 DEF ExpireLock, ExpireLease
<1> QED
  BY <1>1, <1>2, <1>3, <1>4, <1>6, <1>7 DEF Next

\* What is filed properly stays so, where it is left alone.
LEMMA ResponseStays ==
    ASSUME Inv, [Next]_vars, NEW resp, NEW k, FiledUnder(resp, k),
           resp.by # NoOne => resp.as \in Requests /\ resp.by \in Requests
    PROVE  resp.by # NoOne =>
             /\ resp.by \in ran' /\ req'[resp.by].key = k
             /\ pc'[resp.as] # "idle" /\ req'[resp.as].key = k
BY BegunStays DEF FiledUnder, Key

\* A completed row stays as it is, or gets the response of a request that holds
\* the Redis lock.
LEMMA CompletedStep ==
    ASSUME TypeOK, [Next]_vars, NEW k \in Keys, pg[k].state = "completed"
    PROVE  /\ \/ pg'[k] = pg[k]
              \/ \E r \in Requests :
                    /\ Key(r) = k /\ handle[r] = "redis" /\ pc[r] = "storePG"
                    /\ pg'[k] = Completed(r, r)
           /\ pg'[k].state = "completed"
<1> DEFINE Replaced == \E r \in Requests :
              /\ Key(r) = k /\ handle[r] = "redis" /\ pc[r] = "storePG"
              /\ pg'[k] = Completed(r, r)
<1>1. ASSUME NEW r \in Requests, AcquirePG(r) PROVE pg'[k] = pg[k]
  BY <1>1 DEF TypeOK, AcquirePG, LeaseFree
<1>2. ASSUME NEW r \in Requests, StorePG(r) PROVE pg'[k] = pg[k] \/ Replaced
  <2>1. CASE WritePGCache(r)
    BY <2>1 DEF TypeOK, WritePGCache, TokenMatches
  <2>2. CASE UpsertPGCompleted(r)
    BY <1>2, <2>2 DEF TypeOK, StorePG, UpsertPGCompleted
  <2>3. CASE UNCHANGED pg
    BY <2>3
  <2> QED
    BY <1>2, <2>1, <2>2, <2>3 DEF StorePG
<1>3. ASSUME NEW r \in Requests, ReleaseLock(r) PROVE pg'[k] = pg[k]
  BY <1>3 DEF TypeOK, ReleaseLock, Unlock, TokenMatches
<1>4. ASSUME NEW l \in Keys, ExpireLease(l) PROVE pg'[k] = pg[k]
  BY <1>4 DEF TypeOK, ExpireLease
<1>5. CASE UNCHANGED pg
  BY <1>5
<1>6. ASSUME NEW r \in Requests, \E i \in Inputs : Receive(r, i) PROVE UNCHANGED pg
  BY <1>6 DEF Receive
<1>7. ASSUME NEW r \in Requests,
             GetRedis(r) \/ SelectPG(r) \/ WarmRedis(r) \/ AcquireRedis(r) \/ Handler(r)
      PROVE  UNCHANGED pg
  BY <1>7 DEF GetRedis, SelectPG, WarmRedis, AcquireRedis, Handler
<1>8. ASSUME NEW r \in Requests,
             StoreRedis(r) \/ GiveUp(r) \/ Cancel(r) \/ Crash(r) \/ ExpireResponse(r)
      PROVE  UNCHANGED pg
  BY <1>8 DEF StoreRedis, GiveUp, Cancel, Crash, ExpireResponse
<1>9. ASSUME NEW s \in Scopes, ExpireLock(s) PROVE UNCHANGED pg
  BY <1>9 DEF ExpireLock
<1>10. CASE UNCHANGED vars
  BY <1>5, <1>10 DEF vars
<1>11. pg'[k] = pg[k] \/ Replaced
  BY <1>1, <1>2, <1>3, <1>4, <1>5, <1>6, <1>7, <1>8, <1>9, <1>10 DEF Next, Step
<1>12. pg'[k].state = "completed"
  <2>1. CASE Replaced
    <3>1. PICK r \in Requests : pg'[k] = Completed(r, r)
      BY <2>1
    <3> QED
      BY <3>1 DEF Completed
  <2> QED
    BY <1>11, <2>1
<1> QED
  BY <1>11, <1>12

\* A cached response that a step leaves alone stays filed.
LEMMA CacheStays ==
    ASSUME Inv, [Next]_vars, NEW k \in Keys, rcache'[k] = rcache[k]
    PROVE  FiledUnder(rcache[k], k)'
<1>1. rcache[k] \in Responses /\ FiledUnder(rcache[k], k)
  BY DEF Inv, TypeOK, FiledInv, CacheFiled
<1> QED
  BY <1>1, ResponseTypes, ResponseStays DEF FiledUnder, Key

\* A row that a step leaves alone stays filed.
LEMMA RowStays ==
    ASSUME Inv, [Next]_vars, NEW k \in Keys, pg'[k] = pg[k]
    PROVE  /\ FiledUnder(pg[k], k)'
           /\ pg'[k].state = "in_progress" => pc'[pg'[k].as] # "idle" /\ Key(pg[k].as)' = k
<1>1. /\ pg[k] \in Rows /\ FiledUnder(pg[k], k)
      /\ pg[k].state = "in_progress" => pc[pg[k].as] # "idle" /\ Key(pg[k].as) = k
  BY DEF Inv, TypeOK, FiledInv, RowsFiled
<1>2. pg[k].by # NoOne => pg[k].as \in Requests /\ pg[k].by \in Requests
  BY <1>1, RowTypes DEF NoRow
<1>3. FiledUnder(pg[k], k)'
  BY <1>1, <1>2, ResponseStays DEF FiledUnder, Key
<1>4. pg[k].state = "in_progress" => pg[k].as \in Requests
  BY <1>1, RowTypes
<1> QED
  BY <1>1, <1>3, <1>4, BegunStays DEF Key

\* Locks that a step leaves alone, or deletes, stay filed.
LEMMA LockStays ==
    ASSUME Inv, [Next]_vars,
           \A s \in Scopes : rlock'[s] \in {rlock[s], NoOne}
    PROVE  LocksFiled'
BY BegunStays DEF Inv, TypeOK, Owners, FiledInv, LocksFiled, Scope

\* What a request has found stays so until its next lookup.
LEMMA FoundStays ==
    ASSUME Inv, [Next]_vars, NEW r \in Requests, UNCHANGED <<found[r], req[r]>>,
           pc'[r] = "warm" => pc[r] = "warm"
    PROVE  /\ pc'[r] = "idle" => found'[r] = NoResponse
           /\ FiledUnder(found[r], Key(r))'
           /\ pc'[r] = "warm" => found'[r].by # NoOne /\ pg'[Key(r)'].state = "completed"
<1>1. /\ found[r] \in Responses /\ Key(r) \in Keys
      /\ FiledUnder(found[r], Key(r))
      /\ pc[r] = "idle" => found[r] = NoResponse
      /\ pc[r] = "warm" => found[r].by # NoOne /\ pg[Key(r)].state = "completed"
  BY KeyTypes DEF Inv, TypeOK, FiledInv, FoundFiled
<1>2. Key(r)' = Key(r)
  BY DEF Key
<1>3. FiledUnder(found[r], Key(r))'
  BY <1>1, <1>2, ResponseTypes, ResponseStays DEF FiledUnder, Key
<1>4. pc'[r] = "idle" => found'[r] = NoResponse
  BY <1>1, BegunStays
<1>5. pc'[r] = "warm" => found'[r].by # NoOne /\ pg'[Key(r)'].state = "completed"
  BY <1>1, <1>2, CompletedStep DEF Inv
<1> QED
  BY <1>3, <1>4, <1>5

\* The parts of FiledInv that a step does not disturb.
LEMMA FiledStays ==
    ASSUME Inv, [Next]_vars
    PROVE  /\ UNCHANGED rcache => CacheFiled'
           /\ UNCHANGED pg => RowsFiled'
           /\ UNCHANGED rlock => LocksFiled'
           /\ UNCHANGED <<found, req>> /\ (\A r \in Requests : pc'[r] = "warm" => pc[r] = "warm")
                => FoundFiled'
<1>1. UNCHANGED rcache => CacheFiled'
  BY CacheStays DEF CacheFiled
<1>2. UNCHANGED pg => RowsFiled'
  BY RowStays DEF RowsFiled
<1>3. UNCHANGED rlock => LocksFiled'
  BY LockStays
<1>4. UNCHANGED <<found, req>> /\ (\A r \in Requests : pc'[r] = "warm" => pc[r] = "warm")
         => FoundFiled'
  BY FoundStays DEF FoundFiled
<1> QED
  BY <1>1, <1>2, <1>3, <1>4

\* Every step keeps FiledInv.
LEMMA FiledStep == Inv /\ [Next]_vars => FiledInv'
<1> SUFFICES ASSUME Inv, [Next]_vars PROVE FiledInv'
  OBVIOUS
<1>1. ASSUME NEW r \in Requests, NEW i \in Inputs, Receive(r, i) PROVE FiledInv'
  <2>1. FoundFiled'
    <3> SUFFICES ASSUME NEW s \in Requests
                 PROVE  /\ pc'[s] = "idle" => found'[s] = NoResponse
                        /\ FiledUnder(found[s], Key(s))'
                        /\ pc'[s] = "warm" =>
                              found'[s].by # NoOne /\ pg'[Key(s)'].state = "completed"
      BY DEF FoundFiled
    <3>1. CASE s = r
      <4>1. pc'[s] = "get" /\ found'[s] = NoResponse
        BY <1>1, <3>1 DEF Inv, TypeOK, FiledInv, FoundFiled, Receive
      <4> QED
        BY <4>1 DEF FiledUnder, NoResponse
    <3>2. CASE s # r
      <4>1. pc'[s] = pc[s] /\ UNCHANGED <<found[s], req[s]>>
        BY <1>1, <3>2 DEF Inv, TypeOK, Receive
      <4> QED
        BY <4>1, FoundStays
    <3> QED
      BY <3>1, <3>2
  <2> QED
    BY <1>1, <2>1, FiledStays DEF FiledInv, Receive
<1>2. ASSUME NEW r \in Requests, GetRedis(r) PROVE FiledInv'
  <2>1. /\ UNCHANGED <<found, req, storeVars>>
        /\ \A s \in Requests : pc'[s] = "warm" => pc[s] = "warm"
    BY <1>2 DEF Inv, TypeOK, GetRedis, Serve, Answer
  <2> QED
    BY <2>1, FiledStays DEF FiledInv
<1>3. ASSUME NEW r \in Requests, SelectPG(r) PROVE FiledInv'
  <2>1. pg[Key(r)] \in Rows /\ Key(r) \in Keys /\ FiledUnder(pg[Key(r)], Key(r))
    BY KeyTypes DEF Inv, TypeOK, FiledInv, RowsFiled
  <2>2. CASE Miss(r) /\ UNCHANGED found
    <3>1. \A s \in Requests : pc'[s] = "warm" => pc[s] = "warm"
      BY <2>2 DEF Inv, TypeOK, Miss
    <3> QED
      BY <1>3, <2>2, <3>1, FiledStays DEF FiledInv, SelectPG
  <2>3. CASE /\ pg[Key(r)].state = "completed"
             /\ found' = [found EXCEPT ![r] = [as |-> pg[Key(r)].as, by |-> pg[Key(r)].by]]
             /\ Goto(r, "warm")
    <3>1. FoundFiled'
      <4> SUFFICES ASSUME NEW s \in Requests
                   PROVE  /\ pc'[s] = "idle" => found'[s] = NoResponse
                          /\ FiledUnder(found[s], Key(s))'
                          /\ pc'[s] = "warm" =>
                                found'[s].by # NoOne /\ pg'[Key(s)'].state = "completed"
        BY DEF FoundFiled
      <4>1. CASE s = r
        <5>1. /\ found'[r].as = pg[Key(r)].as /\ found'[r].by = pg[Key(r)].by
              /\ pc'[r] = "warm" /\ UNCHANGED <<req, ran, pg>>
          BY <1>3, <2>3 DEF Inv, TypeOK, SelectPG
        <5>2. pg[Key(r)].as \in Requests /\ pg[Key(r)].by \in Requests
          BY <2>1, <2>3, RowTypes
        <5>3. FiledUnder(found[r], Key(r))'
          BY <2>1, <5>1, <5>2, ResponseStays DEF FiledUnder, Key
        <5> QED
          BY <2>3, <4>1, <5>1, <5>2, <5>3, NoOneAssumption DEF Key
      <4>2. CASE s # r
        <5>1. pc'[s] = pc[s] /\ UNCHANGED <<found[s], req[s]>>
          BY <1>3, <2>3, <4>2 DEF Inv, TypeOK, SelectPG
        <5> QED
          BY <5>1, FoundStays
      <4> QED
        BY <4>1, <4>2
    <3> QED
      BY <1>3, <3>1, FiledStays DEF FiledInv, SelectPG
  <2> QED
    BY <1>3, <2>2, <2>3 DEF SelectPG
<1>4. ASSUME NEW r \in Requests, WarmRedis(r) PROVE FiledInv'
  <2>1. CacheFiled'
    <3> SUFFICES ASSUME NEW k \in Keys PROVE FiledUnder(rcache[k], k)'
      BY DEF CacheFiled
    <3>1. CASE rcache'[k] = rcache[k]
      BY <3>1, CacheStays
    <3>2. CASE rcache'[k] = found[r] /\ k = Key(r)
      <4>1. found[r] \in Responses /\ FiledUnder(found[r], k)
        BY <3>2 DEF Inv, TypeOK, FiledInv, FoundFiled
      <4> QED
        BY <3>2, <4>1, ResponseTypes, ResponseStays DEF FiledUnder, Key
    <3> QED
      BY <1>4, <3>1, <3>2 DEF Inv, TypeOK, WarmRedis
  <2>2. \A s \in Requests : pc'[s] = "warm" => pc[s] = "warm"
    BY <1>4 DEF Inv, TypeOK, WarmRedis, Serve, Answer
  <2> QED
    BY <1>4, <2>1, <2>2, FiledStays DEF FiledInv, WarmRedis
<1>5. ASSUME NEW r \in Requests, GiveUp(r) PROVE FiledInv'
  <2>1. /\ UNCHANGED <<found, req, storeVars>>
        /\ \A s \in Requests : pc'[s] = "warm" => pc[s] = "warm"
    BY <1>5 DEF Inv, TypeOK, GiveUp, Answer
  <2> QED
    BY <2>1, FiledStays DEF FiledInv
<1>6. ASSUME NEW r \in Requests, AcquireRedis(r) PROVE FiledInv'
  <2>1. LocksFiled'
    <3>1. \A t \in Scopes : rlock'[t] = rlock[t] \/ (rlock'[t] = r /\ t = Scope(r))
      <4>1. rlock' = rlock \/ rlock' = [rlock EXCEPT ![Scope(r)] = r]
        BY <1>6 DEF AcquireRedis
      <4> QED
        BY <4>1 DEF Inv, TypeOK
    <3>2. pc[r] # "idle"
      BY <1>6 DEF AcquireRedis
    <3> QED
      BY <3>1, <3>2, BegunStays DEF Inv, TypeOK, Owners, FiledInv, LocksFiled, Scope
  <2>2. \A s \in Requests : pc'[s] = "warm" => pc[s] = "warm"
    BY <1>6 DEF Inv, TypeOK, AcquireRedis, Locked, LookupFor
  <2> QED
    BY <1>6, <2>1, <2>2, FiledStays DEF FiledInv, AcquireRedis
<1>7. ASSUME NEW r \in Requests, AcquirePG(r) PROVE FiledInv'
  <2>1. RowsFiled'
    <3> SUFFICES ASSUME NEW k \in Keys
                 PROVE  /\ FiledUnder(pg[k], k)'
                        /\ pg'[k].state = "in_progress" =>
                              pc'[pg'[k].as] # "idle" /\ Key(pg[k].as)' = k
      BY DEF RowsFiled
    <3>1. CASE pg'[k] = pg[k]
      BY <3>1, RowStays
    <3>2. CASE pg'[k] = InProgress(r) /\ k = Key(r) /\ pc[r] # "idle"
      BY <3>2, BegunStays DEF FiledUnder, Key, InProgress
    <3> QED
      BY <1>7, <3>1, <3>2 DEF Inv, TypeOK, AcquirePG
  <2>2. \A s \in Requests : pc'[s] = "warm" => pc[s] = "warm"
    BY <1>7 DEF Inv, TypeOK, AcquirePG, Locked, LookupFor, Answer
  <2> QED
    BY <1>7, <2>1, <2>2, FiledStays DEF FiledInv, AcquirePG
<1>8. ASSUME NEW r \in Requests, Handler(r) PROVE FiledInv'
  <2>1. /\ UNCHANGED <<found, req, storeVars>>
        /\ \A s \in Requests : pc'[s] = "warm" => pc[s] = "warm"
    BY <1>8 DEF Inv, TypeOK, Handler
  <2> QED
    BY <2>1, FiledStays DEF FiledInv
<1>9. ASSUME NEW r \in Requests, StoreRedis(r) PROVE FiledInv'
  <2>1. CacheFiled'
    <3> SUFFICES ASSUME NEW k \in Keys PROVE FiledUnder(rcache[k], k)'
      BY DEF CacheFiled
    <3>1. CASE rcache'[k] = rcache[k]
      BY <3>1, CacheStays
    <3>2. CASE rcache'[k] = Response(r) /\ k = Key(r)
      <4>1. r \in ran /\ pc[r] # "idle"
        BY <1>9 DEF Inv, ControlInv, Critical, StoreRedis
      <4> QED
        BY <3>2, <4>1, BegunStays DEF FiledUnder, Key, Response
    <3> QED
      BY <1>9, <3>1, <3>2 DEF Inv, TypeOK, StoreRedis
  <2>2. \A s \in Requests : pc'[s] = "warm" => pc[s] = "warm"
    BY <1>9 DEF Inv, TypeOK, StoreRedis
  <2> QED
    BY <1>9, <2>1, <2>2, FiledStays DEF FiledInv, StoreRedis
<1>10. ASSUME NEW r \in Requests, StorePG(r) PROVE FiledInv'
  <2>1. RowsFiled'
    <3> SUFFICES ASSUME NEW k \in Keys
                 PROVE  /\ FiledUnder(pg[k], k)'
                        /\ pg'[k].state = "in_progress" =>
                              pc'[pg'[k].as] # "idle" /\ Key(pg[k].as)' = k
      BY DEF RowsFiled
    <3>1. CASE pg'[k] = pg[k]
      BY <3>1, RowStays
    <3>2. r \in ran /\ pc[r] # "idle"
      BY <1>10 DEF Inv, ControlInv, Critical, StorePG
    <3>3. CASE UpsertPGCompleted(r) /\ k = Key(r)
      <4>1. pg'[k] = Completed(r, r)
        BY <3>3 DEF UpsertPGCompleted, Inv, TypeOK
      <4> QED
        BY <3>2, <3>3, <4>1, BegunStays DEF FiledUnder, Key, Completed
    <3>4. CASE WritePGCache(r) /\ k = Key(r)
      <4>1. pg'[k] = Completed(r, pg[k].as) /\ pg[k].state = "in_progress" /\ pg[k] \in Rows
        BY <3>4 DEF WritePGCache, TokenMatches, Inv, TypeOK
      <4>2. pg[k].as \in Requests /\ pc[pg[k].as] # "idle" /\ Key(pg[k].as) = k
        BY <4>1, RowTypes DEF Inv, FiledInv, RowsFiled
      <4> QED
        BY <3>2, <3>4, <4>1, <4>2, BegunStays DEF FiledUnder, Key, Completed
    <3> QED
      BY <1>10, <3>1, <3>3, <3>4 DEF Inv, TypeOK, StorePG, UpsertPGCompleted, WritePGCache
  <2>2. \A s \in Requests : pc'[s] = "warm" => pc[s] = "warm"
    BY <1>10 DEF Inv, TypeOK, StorePG, Answer
  <2> QED
    BY <1>10, <2>1, <2>2, FiledStays DEF FiledInv, StorePG
<1>11. ASSUME NEW r \in Requests, ReleaseLock(r) PROVE FiledInv'
  <2>1. RowsFiled'
    <3> SUFFICES ASSUME NEW k \in Keys
                 PROVE  /\ FiledUnder(pg[k], k)'
                        /\ pg'[k].state = "in_progress" =>
                              pc'[pg'[k].as] # "idle" /\ Key(pg[k].as)' = k
      BY DEF RowsFiled
    <3>1. CASE pg'[k] = pg[k]
      BY <3>1, RowStays
    <3>2. CASE pg'[k] = NoRow
      BY <3>2 DEF FiledUnder, NoRow
    <3> QED
      BY <1>11, <3>1, <3>2 DEF Inv, TypeOK, ReleaseLock, Unlock
  <2>2. \A s \in Requests : pc'[s] = "warm" => pc[s] = "warm"
    BY <1>11 DEF Inv, TypeOK, ReleaseLock
  <2>3. LocksFiled'
    <3>1. \A t \in Scopes : rlock'[t] \in {rlock[t], NoOne}
      BY <1>11 DEF Inv, TypeOK, ReleaseLock, Unlock
    <3> QED
      BY <3>1, LockStays
  <2> QED
    BY <1>11, <2>1, <2>2, <2>3, FiledStays DEF FiledInv, ReleaseLock
<1>12. ASSUME NEW r \in Requests, Cancel(r) PROVE FiledInv'
  <2>1. /\ UNCHANGED <<found, req, storeVars>>
        /\ \A s \in Requests : pc'[s] = "warm" => pc[s] = "warm"
    BY <1>12 DEF Inv, TypeOK, Cancel, InFlight
  <2> QED
    BY <2>1, FiledStays DEF FiledInv
<1>13. ASSUME NEW r \in Requests, Crash(r) PROVE FiledInv'
  <2>1. /\ UNCHANGED <<found, req, storeVars>>
        /\ \A s \in Requests : pc'[s] = "warm" => pc[s] = "warm"
    BY <1>13 DEF Inv, TypeOK, Crash, InFlight
  <2> QED
    BY <2>1, FiledStays DEF FiledInv
<1>14. ASSUME NEW s \in Scopes, ExpireLock(s) PROVE FiledInv'
  <2>1. \A t \in Scopes : rlock'[t] \in {rlock[t], NoOne}
    BY <1>14 DEF Inv, TypeOK, ExpireLock
  <2>2. LocksFiled'
    BY <2>1, LockStays
  <2> QED
    BY <1>14, <2>2, FiledStays DEF FiledInv, ExpireLock
<1>15. ASSUME NEW k \in Keys, ExpireLease(k) PROVE FiledInv'
  <2>1. RowsFiled'
    <3> SUFFICES ASSUME NEW l \in Keys
                 PROVE  /\ FiledUnder(pg[l], l)'
                        /\ pg'[l].state = "in_progress" =>
                              pc'[pg'[l].as] # "idle" /\ Key(pg[l].as)' = l
      BY DEF RowsFiled
    <3>1. CASE pg'[l] = pg[l]
      BY <3>1, RowStays
    <3>2. CASE l = k
      <4>1. /\ pg'[k] = [pg[k] EXCEPT !.live = FALSE]
            /\ pg[k] \in Rows /\ pg[k].state = "in_progress"
        BY <1>15 DEF ExpireLease, Inv, TypeOK
      <4>2. pg'[k].as = pg[k].as /\ pg'[k].by = NoOne
        BY <4>1, LeaseExpires
      <4>3. pg[k].as \in Requests /\ pc[pg[k].as] # "idle" /\ Key(pg[k].as) = k
        BY <4>1, RowTypes DEF Inv, FiledInv, RowsFiled
      <4> QED
        BY <3>2, <4>2, <4>3, BegunStays DEF FiledUnder, Key
    <3> QED
      BY <1>15, <3>1, <3>2 DEF Inv, TypeOK, ExpireLease
  <2>2. \A s \in Requests : pc'[s] = "warm" => pc[s] = "warm"
    BY <1>15 DEF Inv, TypeOK, ExpireLease
  <2> QED
    BY <1>15, <2>1, <2>2, FiledStays DEF FiledInv, ExpireLease
<1>16. ASSUME NEW r \in Requests, ExpireResponse(r) PROVE FiledInv'
  <2>1. /\ UNCHANGED <<found, req, storeVars>>
        /\ \A s \in Requests : pc'[s] = "warm" => pc[s] = "warm"
    BY <1>16 DEF Inv, TypeOK, ExpireResponse, InFlight
  <2> QED
    BY <2>1, FiledStays DEF FiledInv
<1>17. ASSUME UNCHANGED vars PROVE FiledInv'
  BY <1>17, FiledStays DEF FiledInv, vars
<1> QED
  BY <1>1, <1>2, <1>3, <1>4, <1>5, <1>6, <1>7, <1>8, <1>9, <1>10, <1>11,
     <1>12, <1>13, <1>14, <1>15, <1>16, <1>17 DEF Next, Step

-----------------------------------------------------------------------------
(* Tokens.                                                                 *)

\* Whoever is named by a stored or a given response has begun.
LEMMA NamedHaveBegun ==
    ASSUME Inv
    PROVE  /\ \A k \in Keys : rcache[k].by # NoOne =>
                 /\ rcache[k].as \in Requests /\ pc[rcache[k].as] # "idle"
                 /\ rcache[k].by \in Requests /\ pc[rcache[k].by] # "idle"
           /\ \A k \in Keys : pg[k].by # NoOne =>
                 /\ pg[k].as \in Requests /\ pc[pg[k].as] # "idle"
                 /\ pg[k].by \in Requests /\ pc[pg[k].by] # "idle"
           /\ \A r \in Requests : found[r].by # NoOne =>
                 /\ found[r].as \in Requests /\ pc[found[r].as] # "idle"
                 /\ found[r].by \in Requests /\ pc[found[r].by] # "idle"
           /\ \A r \in Requests : reply[r] = "response" =>
                 pc[r] # "idle" /\ from[r] \in Requests /\ pc[from[r]] # "idle"
<1>1. \A s \in ran : s \in Requests /\ pc[s] # "idle"
  BY DEF Inv, TypeOK, ControlInv
<1>2. ASSUME NEW k \in Keys, rcache[k].by # NoOne
      PROVE  /\ rcache[k].as \in Requests /\ pc[rcache[k].as] # "idle"
             /\ rcache[k].by \in Requests /\ pc[rcache[k].by] # "idle"
  <2>1. rcache[k] \in Responses /\ FiledUnder(rcache[k], k)
    BY DEF Inv, TypeOK, FiledInv, CacheFiled
  <2> QED
    BY <1>1, <1>2, <2>1, ResponseTypes DEF FiledUnder
<1>3. ASSUME NEW k \in Keys, pg[k].by # NoOne
      PROVE  /\ pg[k].as \in Requests /\ pc[pg[k].as] # "idle"
             /\ pg[k].by \in Requests /\ pc[pg[k].by] # "idle"
  <2>1. pg[k] \in Rows /\ FiledUnder(pg[k], k)
    BY DEF Inv, TypeOK, FiledInv, RowsFiled
  <2>2. pg[k].state = "completed"
    BY <1>3, <2>1, RowTypes DEF NoRow
  <2> QED
    BY <1>1, <1>3, <2>1, <2>2, RowTypes DEF FiledUnder
<1>4. ASSUME NEW r \in Requests, found[r].by # NoOne
      PROVE  /\ found[r].as \in Requests /\ pc[found[r].as] # "idle"
             /\ found[r].by \in Requests /\ pc[found[r].by] # "idle"
  <2>1. found[r] \in Responses /\ FiledUnder(found[r], Key(r))
    BY DEF Inv, TypeOK, FiledInv, FoundFiled
  <2> QED
    BY <1>1, <1>4, <2>1, ResponseTypes DEF FiledUnder
<1>5. ASSUME NEW r \in Requests, reply[r] = "response"
      PROVE  pc[r] # "idle" /\ from[r] \in Requests /\ pc[from[r]] # "idle"
  BY <1>1, <1>5 DEF Inv, ControlInv
<1> QED
  BY <1>2, <1>3, <1>4, <1>5

\* Every step keeps TokenInv.
LEMMA TokenStep == Inv /\ [Next]_vars => TokenInv'
<1> SUFFICES ASSUME Inv, [Next]_vars PROVE TokenInv'
  OBVIOUS
<1>1. ASSUME NEW r \in Requests, NEW i \in Inputs, Receive(r, i) PROVE TokenInv'
  BY <1>1, NamedHaveBegun, BegunStays, KeyTypes
     DEF Inv, TypeOK, TokenInv, SameToken, Token, Receive
<1>2. ASSUME NEW r \in Requests, GetRedis(r) PROVE TokenInv'
  BY <1>2, NamedHaveBegun, BegunStays, KeyTypes
     DEF Inv, TypeOK, TokenInv, SameToken, Token, GetRedis, Serve, Answer, Matches,
         Usable
<1>3. ASSUME NEW r \in Requests, SelectPG(r) PROVE TokenInv'
  BY <1>3, NamedHaveBegun, BegunStays, KeyTypes
     DEF Inv, TypeOK, TokenInv, SameToken, Token, SelectPG, Miss
<1>4. ASSUME NEW r \in Requests, WarmRedis(r) PROVE TokenInv'
  <2>1. req' = req /\ found[r].by # NoOne /\ Key(r) \in Keys
    BY <1>4, KeyTypes DEF Inv, FiledInv, FoundFiled, WarmRedis
  <2>2. \A k \in Keys : SameToken(rcache[k])' /\ SameToken(pg[k])'
    BY <1>4, <2>1 DEF Inv, TypeOK, TokenInv, SameToken, Token, WarmRedis
  <2>3. \A s \in Requests : SameToken(found[s])'
    BY <1>4, <2>1 DEF Inv, TokenInv, SameToken, Token, WarmRedis
  <2>4. \A s \in Requests : reply'[s] = "response" => Token(from[s])' = Token(s)'
    BY <1>4, <2>1 DEF Inv, TypeOK, TokenInv, SameToken, Token, WarmRedis, Serve, Answer,
                      Matches
  <2> QED
    BY <2>2, <2>3, <2>4 DEF TokenInv
<1>5. ASSUME NEW r \in Requests, GiveUp(r) PROVE TokenInv'
  BY <1>5, NamedHaveBegun, BegunStays, KeyTypes
     DEF Inv, TypeOK, TokenInv, SameToken, Token, GiveUp, Answer
<1>6. ASSUME NEW r \in Requests, AcquireRedis(r) PROVE TokenInv'
  BY <1>6, NamedHaveBegun, BegunStays, KeyTypes
     DEF Inv, TypeOK, TokenInv, SameToken, Token, AcquireRedis, Locked, LookupFor
<1>7. ASSUME NEW r \in Requests, AcquirePG(r) PROVE TokenInv'
  <2>1. req' = req /\ UNCHANGED <<rcache, found>> /\ Key(r) \in Keys
    BY <1>7, KeyTypes DEF Inv, AcquirePG
  <2>2. pg' = pg \/ pg' = [pg EXCEPT ![Key(r)] = InProgress(r)]
    BY <1>7 DEF AcquirePG
  <2>3. \A k \in Keys : SameToken(rcache[k])' /\ SameToken(pg[k])'
    BY <2>1, <2>2 DEF Inv, TypeOK, TokenInv, SameToken, Token, InProgress
  <2>4. \A s \in Requests : SameToken(found[s])'
    BY <2>1 DEF Inv, TokenInv, SameToken, Token
  <2>5. \A s \in Requests : reply'[s] = "response" => reply[s] = "response" /\ from'[s] = from[s]
    BY <1>7 DEF Inv, TypeOK, AcquirePG, Answer
  <2> QED
    BY <2>1, <2>3, <2>4, <2>5 DEF Inv, TokenInv, Token
<1>8. ASSUME NEW r \in Requests, Handler(r) PROVE TokenInv'
  BY <1>8, NamedHaveBegun, BegunStays, KeyTypes
     DEF Inv, TypeOK, TokenInv, SameToken, Token, Handler
<1>9. ASSUME NEW r \in Requests, StoreRedis(r) PROVE TokenInv'
  BY <1>9, NamedHaveBegun, BegunStays, KeyTypes
     DEF Inv, TypeOK, TokenInv, SameToken, Token, StoreRedis, Response
<1>10. ASSUME NEW r \in Requests, StorePG(r) PROVE TokenInv'
  <2>1. req' = req /\ UNCHANGED <<rcache, found>> /\ Key(r) \in Keys
    BY <1>10, KeyTypes DEF Inv, StorePG
  <2>2. \/ pg' = pg
        \/ pg' = [pg EXCEPT ![Key(r)] = Completed(r, r)]
        \/ TokenMatches(r) /\ pg' = [pg EXCEPT ![Key(r)] = Completed(r, @.as)]
    BY <1>10 DEF StorePG, WritePGCache, UpsertPGCompleted
  <2>3. \A k \in Keys : SameToken(rcache[k])' /\ SameToken(pg[k])'
    BY <2>1, <2>2 DEF Inv, TypeOK, TokenInv, SameToken, Token, Completed, TokenMatches
  <2>4. \A s \in Requests : SameToken(found[s])'
    BY <2>1 DEF Inv, TokenInv, SameToken, Token
  <2>5. \A s \in Requests : reply'[s] = "response" => Token(from[s])' = Token(s)'
    BY <1>10, <2>1 DEF Inv, TypeOK, TokenInv, Token, StorePG, Answer
  <2> QED
    BY <2>3, <2>4, <2>5 DEF TokenInv
<1>11. ASSUME NEW r \in Requests, ReleaseLock(r) PROVE TokenInv'
  BY <1>11, NamedHaveBegun, BegunStays, KeyTypes
     DEF Inv, TypeOK, TokenInv, SameToken, Token, ReleaseLock, Unlock, NoRow
<1>12. ASSUME NEW r \in Requests, Cancel(r) PROVE TokenInv'
  BY <1>12, NamedHaveBegun, BegunStays, KeyTypes
     DEF Inv, TypeOK, TokenInv, SameToken, Token, Cancel, InFlight
<1>13. ASSUME NEW r \in Requests, Crash(r) PROVE TokenInv'
  BY <1>13, NamedHaveBegun, BegunStays, KeyTypes
     DEF Inv, TypeOK, TokenInv, SameToken, Token, Crash, InFlight
<1>14. ASSUME NEW s \in Scopes, ExpireLock(s) PROVE TokenInv'
  BY <1>14, NamedHaveBegun, BegunStays, KeyTypes
     DEF Inv, TypeOK, TokenInv, SameToken, Token, ExpireLock
<1>15. ASSUME NEW k \in Keys, ExpireLease(k) PROVE TokenInv'
  BY <1>15, NamedHaveBegun, BegunStays, KeyTypes
     DEF Inv, TypeOK, TokenInv, SameToken, Token, ExpireLease
<1>16. ASSUME NEW r \in Requests, ExpireResponse(r) PROVE TokenInv'
  BY <1>16, NamedHaveBegun, BegunStays, KeyTypes
     DEF Inv, TypeOK, TokenInv, SameToken, Token, ExpireResponse, InFlight
<1>17. ASSUME UNCHANGED vars PROVE TokenInv'
  BY <1>17 DEF Inv, TypeOK, TokenInv, SameToken, Token, vars
<1> QED
  BY <1>1, <1>2, <1>3, <1>4, <1>5, <1>6, <1>7, <1>8, <1>9, <1>10, <1>11,
     <1>12, <1>13, <1>14, <1>15, <1>16, <1>17 DEF Next, Step

-----------------------------------------------------------------------------
(* Locks and leases that outlive their holders.                            *)

\* A lease that is held, or complete, is not to be had.
LEMMA LeaseTaken ==
    ASSUME NEW row, (\E r \in Requests : row = InProgress(r)) \/ row.state = "completed"
    PROVE  ~LeaseFree(row)
<1>1. ASSUME NEW r \in Requests, row = InProgress(r)
      PROVE  row.state = "in_progress" /\ row.live = TRUE
  BY <1>1 DEF InProgress
<1> QED
  BY <1>1 DEF LeaseFree

\* A request keeps its lock in a step that does not touch it.
LEMMA HolderStays ==
    ASSUME Inv, ~mode.overrun, NEW s \in Requests, UNCHANGED <<req, handle[s]>>,
           InFlight(s)' => InFlight(s),
           InFlight(s) /\ handle[s] = "redis" => rlock'[Scope(s)] = rlock[Scope(s)],
           InFlight(s) /\ handle[s] = "pg" =>
              pg'[Key(s)] = pg[Key(s)] \/ pg'[Key(s)].state = "completed"
    PROVE  Holds(s)'
BY DEF Inv, HoldInv, HolderHolds, Holds, Key, Scope

\* No step takes a lock or a lease from its holder, if TTLs outlive handlers.
LEMMA HolderStep == Inv /\ ~mode.overrun /\ [Next]_vars => HolderHolds'
<1> SUFFICES ASSUME Inv, ~mode.overrun, [Next]_vars PROVE HolderHolds'
  OBVIOUS
<1>1. ASSUME NEW r \in Requests, NEW i \in Inputs, Receive(r, i) PROVE HolderHolds'
  BY <1>1 DEF Inv, TypeOK, ControlInv, HoldInv, HolderHolds, Holds, InFlight, Key,
              Scope, Receive
<1>2. ASSUME NEW r \in Requests, GetRedis(r) PROVE HolderHolds'
  BY <1>2 DEF Inv, TypeOK, ControlInv, HoldInv, HolderHolds, Holds, InFlight, Key,
              Scope, GetRedis, Serve, Answer
<1>3. ASSUME NEW r \in Requests, SelectPG(r) PROVE HolderHolds'
  BY <1>3 DEF Inv, TypeOK, ControlInv, HoldInv, HolderHolds, Holds, InFlight, Key,
              Scope, SelectPG, Miss
<1>4. ASSUME NEW r \in Requests, WarmRedis(r) PROVE HolderHolds'
  BY <1>4 DEF Inv, TypeOK, ControlInv, HoldInv, HolderHolds, Holds, InFlight, Key,
              Scope, WarmRedis, Serve, Answer
<1>5. ASSUME NEW r \in Requests, GiveUp(r) PROVE HolderHolds'
  BY <1>5 DEF Inv, TypeOK, ControlInv, HoldInv, HolderHolds, Holds, InFlight, Key,
              Scope, GiveUp, Answer
<1>6. ASSUME NEW r \in Requests, AcquireRedis(r) PROVE HolderHolds'
  <2> SUFFICES ASSUME NEW s \in Requests PROVE Holds(s)'
    BY DEF HolderHolds
  <2>1. Scope(r) \in Scopes /\ Scope(s) \in Scopes /\ Scope(s)' = Scope(s)
    BY <1>6, KeyTypes DEF Inv, AcquireRedis, Scope
  <2>2. CASE s # r
    <3>1. InFlight(s) /\ handle[s] = "redis" => rlock[Scope(s)] = s
      BY DEF Inv, HoldInv, HolderHolds, Holds
    <3>2. rlock' = rlock \/ (rlock' = [rlock EXCEPT ![Scope(r)] = r] /\ rlock[Scope(r)] = NoOne)
      BY <1>6 DEF AcquireRedis
    <3>3. InFlight(s) /\ handle[s] = "redis" => rlock'[Scope(s)] = rlock[Scope(s)]
      BY <2>1, <3>1, <3>2, NoOneAssumption DEF Inv, TypeOK
    <3> QED
      BY <1>6, <2>2, <3>3, HolderStays
         DEF Inv, TypeOK, AcquireRedis, Locked, LookupFor, InFlight
  <2>3. CASE s = r
    <3>1. handle[r] = "none"
      BY <1>6 DEF Inv, ControlInv, AcquireRedis
    <3>2. handle'[r] = "none" \/ (handle'[r] = "redis" /\ rlock'[Scope(r)] = r)
      BY <1>6, <2>1, <3>1 DEF Inv, TypeOK, AcquireRedis, Locked
    <3> QED
      BY <2>1, <2>3, <3>2 DEF Holds
  <2> QED
    BY <2>2, <2>3
<1>7. ASSUME NEW r \in Requests, AcquirePG(r) PROVE HolderHolds'
  <2> SUFFICES ASSUME NEW s \in Requests PROVE Holds(s)'
    BY DEF HolderHolds
  <2>1. Key(r) \in Keys /\ Key(s) \in Keys /\ Key(s)' = Key(s)
    BY <1>7, KeyTypes DEF Inv, AcquirePG, Key
  <2>2. CASE s # r
    <3>1. InFlight(s) /\ handle[s] = "pg" => ~LeaseFree(pg[Key(s)])
      BY LeaseTaken DEF Inv, HoldInv, HolderHolds, Holds
    <3>2. pg' = pg \/ (pg' = [pg EXCEPT ![Key(r)] = InProgress(r)] /\ LeaseFree(pg[Key(r)]))
      BY <1>7 DEF AcquirePG
    <3>3. InFlight(s) /\ handle[s] = "pg" => pg'[Key(s)] = pg[Key(s)]
      BY <2>1, <3>1, <3>2 DEF Inv, TypeOK
    <3> QED
      BY <1>7, <2>2, <3>3, HolderStays
         DEF Inv, TypeOK, AcquirePG, Locked, LookupFor, Answer, InFlight
  <2>3. CASE s = r
    <3>1. handle[r] = "none"
      BY <1>7 DEF Inv, ControlInv, AcquirePG
    <3>2. handle'[r] = "none" \/ (handle'[r] = "pg" /\ pg'[Key(r)] = InProgress(r))
      BY <1>7, <2>1, <3>1 DEF Inv, TypeOK, AcquirePG, Locked
    <3>3. InProgress(r)' = InProgress(r)
      BY DEF InProgress
    <3> QED
      BY <2>1, <2>3, <3>2, <3>3 DEF Holds
  <2> QED
    BY <2>2, <2>3
<1>8. ASSUME NEW r \in Requests, Handler(r) PROVE HolderHolds'
  BY <1>8 DEF Inv, TypeOK, ControlInv, HoldInv, HolderHolds, Holds, InFlight, Key,
              Scope, Handler
<1>9. ASSUME NEW r \in Requests, StoreRedis(r) PROVE HolderHolds'
  BY <1>9 DEF Inv, TypeOK, ControlInv, HoldInv, HolderHolds, Holds, InFlight, Key,
              Scope, StoreRedis
<1>10. ASSUME NEW r \in Requests, StorePG(r) PROVE HolderHolds'
  <2> SUFFICES ASSUME NEW s \in Requests PROVE Holds(s)'
    BY DEF HolderHolds
  <2>1. Key(r) \in Keys /\ Key(s) \in Keys
    BY KeyTypes DEF Inv
  <2>2. pg'[Key(s)] = pg[Key(s)] \/ pg'[Key(s)].state = "completed"
    BY <1>10, <2>1 DEF Inv, TypeOK, StorePG, WritePGCache, UpsertPGCompleted, Completed
  <2>3. InFlight(s)' => InFlight(s)
    BY <1>10 DEF Inv, TypeOK, StorePG, Answer, InFlight
  <2>4. CASE handle'[s] = handle[s]
    BY <1>10, <2>2, <2>3, <2>4, HolderStays DEF StorePG
  <2>5. CASE handle'[s] = "completed"
    BY <2>5 DEF Holds
  <2> QED
    BY <1>10, <2>4, <2>5 DEF Inv, TypeOK, StorePG
<1>11. ASSUME NEW r \in Requests, ReleaseLock(r) PROVE HolderHolds'
  <2> SUFFICES ASSUME NEW s \in Requests PROVE Holds(s)'
    BY DEF HolderHolds
  <2>1. /\ Key(r) \in Keys /\ Key(s) \in Keys /\ Key(s)' = Key(s)
        /\ Scope(r) \in Scopes /\ Scope(s) \in Scopes
    BY <1>11, KeyTypes DEF Inv, ReleaseLock, Key
  <2>2. Holds(r) /\ Holds(s) /\ InFlight(r)
    BY <1>11 DEF Inv, HoldInv, HolderHolds, ReleaseLock, InFlight
  <2>3. CASE s # r
    <3>1. \/ UNCHANGED <<rlock, pg>>
          \/ UNCHANGED pg /\ handle[r] = "redis" /\ rlock' = [rlock EXCEPT ![Scope(r)] = NoOne]
          \/ UNCHANGED rlock /\ handle[r] = "pg" /\ pg[Key(r)].state = "in_progress"
             /\ pg' = [pg EXCEPT ![Key(r)] = NoRow]
      BY <1>11 DEF ReleaseLock, Unlock, TokenMatches
    <3>2. InFlight(s) /\ handle[s] = "redis" => rlock'[Scope(s)] = rlock[Scope(s)]
      BY <2>1, <2>2, <2>3, <3>1 DEF Inv, TypeOK, Holds
    <3>3. InFlight(s) /\ handle[s] = "pg" => pg'[Key(s)] = pg[Key(s)]
      BY <2>1, <2>2, <2>3, <3>1 DEF Inv, TypeOK, Holds, InProgress
    <3> QED
      BY <1>11, <2>3, <3>2, <3>3, HolderStays DEF Inv, TypeOK, ReleaseLock, InFlight
  <2>4. CASE s = r
    BY <1>11, <2>4 DEF Inv, TypeOK, ReleaseLock, Holds, InFlight
  <2> QED
    BY <2>3, <2>4
<1>12. ASSUME NEW r \in Requests, Cancel(r) PROVE HolderHolds'
  BY <1>12 DEF Inv, TypeOK, ControlInv, HoldInv, HolderHolds, Holds, InFlight, Key,
               Scope, Cancel, InFlight
<1>13. ASSUME NEW r \in Requests, Crash(r) PROVE HolderHolds'
  BY <1>13 DEF Inv, TypeOK, ControlInv, HoldInv, HolderHolds, Holds, InFlight, Key,
               Scope, Crash, InFlight
<1>14. ASSUME NEW s \in Scopes, ExpireLock(s) PROVE HolderHolds'
  <2> SUFFICES ASSUME NEW t \in Requests PROVE Holds(t)'
    BY DEF HolderHolds
  <2>1. Scope(t) \in Scopes
    BY KeyTypes DEF Inv
  <2>2. Holds(t)
    BY DEF Inv, HoldInv, HolderHolds
  <2>3. InFlight(t) /\ handle[t] = "redis" => rlock'[Scope(t)] = rlock[Scope(t)]
    BY <1>14, <2>1, <2>2 DEF Inv, TypeOK, ExpireLock, Relies, Holds
  <2> QED
    BY <1>14, <2>3, HolderStays DEF ExpireLock, InFlight
<1>15. ASSUME NEW k \in Keys, ExpireLease(k) PROVE HolderHolds'
  <2> SUFFICES ASSUME NEW t \in Requests PROVE Holds(t)'
    BY DEF HolderHolds
  <2>1. Key(t) \in Keys
    BY KeyTypes DEF Inv
  <2>2. Holds(t)
    BY DEF Inv, HoldInv, HolderHolds
  <2>3. InFlight(t) /\ handle[t] = "pg" => pg'[Key(t)] = pg[Key(t)]
    BY <1>15, <2>1, <2>2 DEF Inv, TypeOK, ExpireLease, Relies, Holds, InProgress
  <2> QED
    BY <1>15, <2>3, HolderStays DEF ExpireLease, InFlight
<1>16. ASSUME NEW r \in Requests, ExpireResponse(r) PROVE HolderHolds'
  BY <1>16 DEF Inv, TypeOK, ControlInv, HoldInv, HolderHolds, Holds, InFlight, Key,
               Scope, ExpireResponse, InFlight
<1>17. ASSUME UNCHANGED vars PROVE HolderHolds'
  BY <1>17 DEF Inv, TypeOK, ControlInv, HoldInv, HolderHolds, Holds, InFlight, Key,
               Scope, vars
<1> QED
  BY <1>1, <1>2, <1>3, <1>4, <1>5, <1>6, <1>7, <1>8, <1>9, <1>10, <1>11,
     <1>12, <1>13, <1>14, <1>15, <1>16, <1>17 DEF Next, Step

\* Every step files a response as that of the request that produced it.
LEMMA OwnStep == Inv /\ ~mode.overrun /\ [Next]_vars => FiledAsOwn'
<1> SUFFICES ASSUME Inv, ~mode.overrun, [Next]_vars PROVE FiledAsOwn'
  OBVIOUS
<1>1. ASSUME NEW r \in Requests, NEW i \in Inputs, Receive(r, i) PROVE FiledAsOwn'
  BY <1>1 DEF Inv, TypeOK, HoldInv, FiledAsOwn, Receive
<1>2. ASSUME NEW r \in Requests, GetRedis(r) PROVE FiledAsOwn'
  BY <1>2 DEF Inv, TypeOK, HoldInv, FiledAsOwn, GetRedis, Serve, Answer
<1>3. ASSUME NEW r \in Requests, SelectPG(r) PROVE FiledAsOwn'
  <2>1. Key(r) \in Keys
    BY KeyTypes DEF Inv
  <2> QED
    BY <1>3, <2>1 DEF Inv, TypeOK, HoldInv, FiledAsOwn, SelectPG
<1>4. ASSUME NEW r \in Requests, WarmRedis(r) PROVE FiledAsOwn'
  BY <1>4 DEF Inv, TypeOK, HoldInv, FiledAsOwn, WarmRedis, Serve, Answer
<1>5. ASSUME NEW r \in Requests, GiveUp(r) PROVE FiledAsOwn'
  BY <1>5 DEF Inv, TypeOK, HoldInv, FiledAsOwn, GiveUp, Answer
<1>6. ASSUME NEW r \in Requests, AcquireRedis(r) PROVE FiledAsOwn'
  BY <1>6 DEF Inv, TypeOK, HoldInv, FiledAsOwn, AcquireRedis, Locked, LookupFor
<1>7. ASSUME NEW r \in Requests, AcquirePG(r) PROVE FiledAsOwn'
  BY <1>7 DEF Inv, TypeOK, HoldInv, FiledAsOwn, AcquirePG, InProgress
<1>8. ASSUME NEW r \in Requests, Handler(r) PROVE FiledAsOwn'
  BY <1>8 DEF Inv, TypeOK, HoldInv, FiledAsOwn, Handler
<1>9. ASSUME NEW r \in Requests, StoreRedis(r) PROVE FiledAsOwn'
  BY <1>9 DEF Inv, TypeOK, HoldInv, FiledAsOwn, StoreRedis, Response
<1>10. ASSUME NEW r \in Requests, StorePG(r) PROVE FiledAsOwn'
  <2>1. Key(r) \in Keys /\ pg[Key(r)] \in Rows /\ Holds(r) /\ InFlight(r)
    BY <1>10, KeyTypes DEF Inv, TypeOK, HoldInv, HolderHolds, StorePG, InFlight
  <2>2. WritePGCache(r) => pg[Key(r)].as = r
    BY <2>1 DEF WritePGCache, TokenMatches, Holds, InProgress
  <2>3. pg' = pg \/ pg' = [pg EXCEPT ![Key(r)] = Completed(r, r)]
    BY <1>10, <2>2 DEF StorePG, WritePGCache, UpsertPGCompleted
  <2> QED
    BY <1>10, <2>1, <2>3 DEF Inv, TypeOK, HoldInv, FiledAsOwn, StorePG, Completed
<1>11. ASSUME NEW r \in Requests, ReleaseLock(r) PROVE FiledAsOwn'
  BY <1>11 DEF Inv, TypeOK, HoldInv, FiledAsOwn, ReleaseLock, Unlock, NoRow
<1>12. ASSUME NEW r \in Requests, Cancel(r) PROVE FiledAsOwn'
  BY <1>12 DEF Inv, TypeOK, HoldInv, FiledAsOwn, Cancel, InFlight
<1>13. ASSUME NEW r \in Requests, Crash(r) PROVE FiledAsOwn'
  BY <1>13 DEF Inv, TypeOK, HoldInv, FiledAsOwn, Crash, InFlight
<1>14. ASSUME NEW s \in Scopes, ExpireLock(s) PROVE FiledAsOwn'
  BY <1>14 DEF Inv, TypeOK, HoldInv, FiledAsOwn, ExpireLock
<1>15. ASSUME NEW k \in Keys, ExpireLease(k) PROVE FiledAsOwn'
  BY <1>15 DEF Inv, TypeOK, HoldInv, FiledAsOwn, ExpireLease
<1>16. ASSUME NEW r \in Requests, ExpireResponse(r) PROVE FiledAsOwn'
  BY <1>16 DEF Inv, TypeOK, HoldInv, FiledAsOwn, ExpireResponse, InFlight
<1>17. ASSUME UNCHANGED vars PROVE FiledAsOwn'
  BY <1>17 DEF Inv, TypeOK, HoldInv, FiledAsOwn, vars
<1> QED
  BY <1>1, <1>2, <1>3, <1>4, <1>5, <1>6, <1>7, <1>8, <1>9, <1>10, <1>11,
     <1>12, <1>13, <1>14, <1>15, <1>16, <1>17 DEF Next, Step

\* Requests with the same key, path and body are the same.
LEMMA SameRequest ==
    ASSUME TypeOK, NEW r \in Requests, NEW s \in Requests,
           Key(r) = Key(s), req[r].path = req[s].path, req[r].hash = req[s].hash
    PROVE  req[r] = req[s]
<1>1. req[r] \in Inputs /\ req[s] \in Inputs
  BY DEF TypeOK
<1> QED
  BY <1>1, InputsAssumption DEF Key

\* A stored response is given to the request that asked for it.
LEMMA ServeMatches ==
    ASSUME Inv, ~mode.overrun, NEW r \in Requests, NEW resp \in Responses,
           FiledUnder(resp, Key(r)), resp.as = resp.by, resp.by # NoOne,
           Serve(r, resp), UNCHANGED req,
           \A s \in Requests \ {r} : UNCHANGED <<reply[s], from[s]>>
    PROVE  ReplayMatches'
<1>1. resp.as \in Requests /\ Key(resp.as) = Key(r)
  BY ResponseTypes DEF FiledUnder
<1>2. Matches(r, resp) => req[resp.by] = req[r]
  BY <1>1, SameRequest DEF Inv, Matches
<1>3. reply'[r] = "response" => req[from'[r]] = req[r]
  BY <1>2 DEF Inv, TypeOK, Serve, Answer
<1> QED
  BY <1>3 DEF Inv, HoldInv, ReplayMatches

\* Every step answers a request with a response of its own.
LEMMA ReplayStep == Inv /\ ~mode.overrun /\ [Next]_vars => ReplayMatches'
<1> SUFFICES ASSUME Inv, ~mode.overrun, [Next]_vars PROVE ReplayMatches'
  OBVIOUS
<1>1. ASSUME NEW r \in Requests, NEW i \in Inputs, Receive(r, i) PROVE ReplayMatches'
  <2>1. \A s \in Requests : reply[s] = "response" => from[s] \in ran /\ pc[s] # "idle"
    BY DEF Inv, ControlInv
  <2> QED
    BY <1>1, <2>1, BegunStays DEF Inv, TypeOK, HoldInv, ReplayMatches, Receive
<1>2. ASSUME NEW r \in Requests, GetRedis(r) PROVE ReplayMatches'
  <2>1. /\ Key(r) \in Keys /\ rcache[Key(r)] \in Responses
        /\ FiledUnder(rcache[Key(r)], Key(r)) /\ rcache[Key(r)].as = rcache[Key(r)].by
    BY KeyTypes DEF Inv, TypeOK, FiledInv, CacheFiled, HoldInv, FiledAsOwn
  <2>2. CASE Usable(rcache[Key(r)]) /\ Serve(r, rcache[Key(r)])
    <3>1. \A s \in Requests \ {r} : UNCHANGED <<reply[s], from[s]>>
      BY <2>2 DEF Inv, TypeOK, Serve, Answer
    <3> QED
      BY <1>2, <2>1, <2>2, <3>1, ServeMatches DEF Usable, GetRedis
  <2>3. CASE UNCHANGED answerVars
    BY <1>2, <2>3 DEF Inv, HoldInv, ReplayMatches, GetRedis
  <2> QED
    BY <1>2, <2>2, <2>3 DEF GetRedis
<1>3. ASSUME NEW r \in Requests, SelectPG(r) PROVE ReplayMatches'
  BY <1>3 DEF Inv, TypeOK, HoldInv, ReplayMatches, SelectPG, Miss
<1>4. ASSUME NEW r \in Requests, WarmRedis(r) PROVE ReplayMatches'
  <2>1. /\ found[r] \in Responses /\ FiledUnder(found[r], Key(r))
        /\ found[r].as = found[r].by /\ found[r].by # NoOne
    BY <1>4 DEF Inv, TypeOK, FiledInv, FoundFiled, HoldInv, FiledAsOwn, WarmRedis
  <2>2. \A s \in Requests \ {r} : UNCHANGED <<reply[s], from[s]>>
    BY <1>4 DEF Inv, TypeOK, WarmRedis, Serve, Answer
  <2> QED
    BY <1>4, <2>1, <2>2, ServeMatches DEF WarmRedis
<1>5. ASSUME NEW r \in Requests, GiveUp(r) PROVE ReplayMatches'
  BY <1>5 DEF Inv, TypeOK, HoldInv, ReplayMatches, GiveUp, Answer
<1>6. ASSUME NEW r \in Requests, AcquireRedis(r) PROVE ReplayMatches'
  BY <1>6 DEF Inv, TypeOK, HoldInv, ReplayMatches, AcquireRedis, Locked, LookupFor
<1>7. ASSUME NEW r \in Requests, AcquirePG(r) PROVE ReplayMatches'
  BY <1>7 DEF Inv, TypeOK, HoldInv, ReplayMatches, AcquirePG, Locked, LookupFor, Answer
<1>8. ASSUME NEW r \in Requests, Handler(r) PROVE ReplayMatches'
  BY <1>8 DEF Inv, TypeOK, HoldInv, ReplayMatches, Handler
<1>9. ASSUME NEW r \in Requests, StoreRedis(r) PROVE ReplayMatches'
  BY <1>9 DEF Inv, TypeOK, HoldInv, ReplayMatches, StoreRedis
<1>10. ASSUME NEW r \in Requests, StorePG(r) PROVE ReplayMatches'
  BY <1>10 DEF Inv, TypeOK, HoldInv, ReplayMatches, StorePG, Answer, WritePGCache,
               UpsertPGCompleted
<1>11. ASSUME NEW r \in Requests, ReleaseLock(r) PROVE ReplayMatches'
  BY <1>11 DEF Inv, TypeOK, HoldInv, ReplayMatches, ReleaseLock, Unlock
<1>12. ASSUME NEW r \in Requests, Cancel(r) PROVE ReplayMatches'
  BY <1>12 DEF Inv, TypeOK, HoldInv, ReplayMatches, Cancel, InFlight
<1>13. ASSUME NEW r \in Requests, Crash(r) PROVE ReplayMatches'
  BY <1>13 DEF Inv, TypeOK, HoldInv, ReplayMatches, Crash, InFlight
<1>14. ASSUME NEW s \in Scopes, ExpireLock(s) PROVE ReplayMatches'
  BY <1>14 DEF Inv, TypeOK, HoldInv, ReplayMatches, ExpireLock
<1>15. ASSUME NEW k \in Keys, ExpireLease(k) PROVE ReplayMatches'
  BY <1>15 DEF Inv, TypeOK, HoldInv, ReplayMatches, ExpireLease
<1>16. ASSUME NEW r \in Requests, ExpireResponse(r) PROVE ReplayMatches'
  BY <1>16 DEF Inv, TypeOK, HoldInv, ReplayMatches, ExpireResponse, InFlight
<1>17. ASSUME UNCHANGED vars PROVE ReplayMatches'
  BY <1>17 DEF Inv, TypeOK, HoldInv, ReplayMatches, vars
<1> QED
  BY <1>1, <1>2, <1>3, <1>4, <1>5, <1>6, <1>7, <1>8, <1>9, <1>10, <1>11,
     <1>12, <1>13, <1>14, <1>15, <1>16, <1>17 DEF Next, Step

\* The stores and the clocks keep to the mode they are in.
LEMMA ModeStays ==
    ASSUME [Next]_vars
    PROVE  mode' = mode
BY DEF Next, Step, vars, Receive, GetRedis, SelectPG, WarmRedis, GiveUp, AcquireRedis,
       AcquirePG, Handler, StoreRedis, StorePG, ReleaseLock, Cancel, Crash, ExpireLock,
       ExpireLease, ExpireResponse

\* Every step keeps HoldInv.
LEMMA HoldStep == Inv /\ [Next]_vars => HoldInv'
BY HolderStep, OwnStep, ReplayStep, ModeStays DEF HoldInv

-----------------------------------------------------------------------------
(* Which lock is in use.                                                   *)

\* A lease stays with its request in a step that touches neither.
LEMMA OwnLeaseStays ==
    ASSUME Inv, mode.redis = "down", ~mode.overrun, NEW s \in Requests,
           UNCHANGED <<req, handle[s]>>, pc'[s] \in Holding => pc[s] \in Holding,
           handle[s] = "pg" /\ pc[s] \in Holding /\ pc'[s] \in Holding =>
              pg'[Key(s)] = pg[Key(s)]
    PROVE  OwnLease(s)'
BY DEF Inv, LockInv, OwnLease, Key, InProgress

\* Every step keeps LockInv.
LEMMA LockStep == Inv /\ [Next]_vars => LockInv'
<1> SUFFICES ASSUME Inv, [Next]_vars PROVE LockInv'
  OBVIOUS
<1>1. ASSUME NEW r \in Requests, NEW i \in Inputs, Receive(r, i) PROVE LockInv'
  BY <1>1, KeyTypes DEF Inv, TypeOK, ControlInv, LockInv, OwnLease, RedisFails,
                        RedisWorks, Holding, Key, Receive
<1>2. ASSUME NEW r \in Requests, GetRedis(r) PROVE LockInv'
  BY <1>2, KeyTypes DEF Inv, TypeOK, ControlInv, LockInv, OwnLease, RedisFails,
                        RedisWorks, Holding, Key, GetRedis, Serve, Answer
<1>3. ASSUME NEW r \in Requests, SelectPG(r) PROVE LockInv'
  BY <1>3, KeyTypes DEF Inv, TypeOK, ControlInv, LockInv, OwnLease, RedisFails,
                        RedisWorks, Holding, Key, SelectPG, Miss
<1>4. ASSUME NEW r \in Requests, WarmRedis(r) PROVE LockInv'
  BY <1>4, KeyTypes DEF Inv, TypeOK, ControlInv, LockInv, OwnLease, RedisFails,
                        RedisWorks, Holding, Key, WarmRedis, Serve, Answer
<1>5. ASSUME NEW r \in Requests, GiveUp(r) PROVE LockInv'
  BY <1>5, KeyTypes DEF Inv, TypeOK, ControlInv, LockInv, OwnLease, RedisFails,
                        RedisWorks, Holding, Key, GiveUp, Answer
<1>6. ASSUME NEW r \in Requests, AcquireRedis(r) PROVE LockInv'
  BY <1>6, KeyTypes DEF Inv, TypeOK, ControlInv, LockInv, OwnLease, RedisFails,
                        RedisWorks, Holding, Key, AcquireRedis, Locked, LookupFor
<1>7. ASSUME NEW r \in Requests, AcquirePG(r) PROVE LockInv'
  <2>1. ASSUME mode.redis = "up", NEW s \in Requests
        PROVE  handle'[s] \in {"none", "redis"} /\ (pc'[s] = "lease" => s \in cancelled')
    BY <1>7, <2>1 DEF Inv, TypeOK, LockInv, AcquirePG, PGWorks, Locked, LookupFor, Answer
  <2>2. ASSUME mode.redis = "down", NEW s \in Requests
        PROVE  handle'[s] # "redis"
    BY <1>7, <2>2 DEF Inv, TypeOK, LockInv, AcquirePG, PGWorks, Locked, LookupFor, Answer
  <2>3. ASSUME mode.redis = "down", ~mode.overrun, NEW t \in Requests
        PROVE  OwnLease(t)'
    <3>1. Key(r) \in Keys /\ Key(t) \in Keys /\ Key(t)' = Key(t)
      BY <1>7, KeyTypes DEF Inv, AcquirePG, Key
    <3>2. CASE t # r
      <4>1. handle[t] = "pg" /\ pc[t] \in Holding => ~LeaseFree(pg[Key(t)])
        BY <2>3, LeaseTaken DEF Inv, LockInv, OwnLease
      <4>2. pg' = pg \/ (pg' = [pg EXCEPT ![Key(r)] = InProgress(r)] /\ LeaseFree(pg[Key(r)]))
        BY <1>7 DEF AcquirePG
      <4>3. handle[t] = "pg" /\ pc[t] \in Holding => pg'[Key(t)] = pg[Key(t)]
        BY <3>1, <4>1, <4>2 DEF Inv, TypeOK
      <4> QED
        BY <1>7, <2>3, <3>2, <4>3, OwnLeaseStays
           DEF Inv, TypeOK, AcquirePG, Locked, LookupFor, Answer
    <3>3. CASE t = r
      <4>1. handle[r] = "none"
        BY <1>7 DEF Inv, ControlInv, AcquirePG
      <4>2. handle'[r] = "none" \/ (handle'[r] = "pg" /\ pg'[Key(r)] = InProgress(r))
        BY <1>7, <3>1, <4>1 DEF Inv, TypeOK, AcquirePG, Locked
      <4> QED
        BY <3>1, <3>3, <4>2 DEF OwnLease, InProgress
    <3> QED
      BY <3>2, <3>3
  <2> QED
    BY <2>1, <2>2, <2>3, ModeStays DEF LockInv
<1>8. ASSUME NEW r \in Requests, Handler(r) PROVE LockInv'
  BY <1>8, KeyTypes DEF Inv, TypeOK, ControlInv, LockInv, OwnLease, RedisFails,
                        RedisWorks, Holding, Key, Handler
<1>9. ASSUME NEW r \in Requests, StoreRedis(r) PROVE LockInv'
  BY <1>9, KeyTypes DEF Inv, TypeOK, ControlInv, LockInv, OwnLease, RedisFails,
                        RedisWorks, Holding, Key, StoreRedis
<1>10. ASSUME NEW r \in Requests, StorePG(r) PROVE LockInv'
  <2>1. ASSUME mode.redis = "up", NEW s \in Requests
        PROVE  handle'[s] \in {"none", "redis"} /\ (pc'[s] = "lease" => s \in cancelled')
    BY <1>10, <2>1 DEF Inv, TypeOK, LockInv, StorePG, Answer, WritePGCache
  <2>2. ASSUME mode.redis = "down", NEW s \in Requests
        PROVE  handle'[s] # "redis"
    BY <1>10, <2>2 DEF Inv, TypeOK, LockInv, StorePG, Answer, WritePGCache
  <2>3. ASSUME mode.redis = "down", ~mode.overrun, NEW t \in Requests
        PROVE  OwnLease(t)'
    <3>1. Key(r) \in Keys /\ Key(t) \in Keys
      BY KeyTypes DEF Inv
    <3>2. CASE t # r
      <4>1. handle[r] = "pg" /\ pg[Key(r)] = InProgress(r)
        BY <1>10, <2>3 DEF Inv, ControlInv, LockInv, OwnLease, Holding, StorePG
      <4>2. handle[t] = "pg" /\ pc[t] \in Holding => pg[Key(t)] = InProgress(t)
        BY <2>3 DEF Inv, LockInv, OwnLease
      <4>3. handle[t] = "pg" /\ pc[t] \in Holding => Key(t) # Key(r)
        BY <3>2, <4>1, <4>2 DEF InProgress
      <4>4. handle[t] = "pg" /\ pc[t] \in Holding => pg'[Key(t)] = pg[Key(t)]
        BY <1>10, <3>1, <4>3 DEF Inv, TypeOK, StorePG, WritePGCache, UpsertPGCompleted
      <4> QED
        BY <1>10, <2>3, <3>2, <4>4, OwnLeaseStays DEF Inv, TypeOK, StorePG, Answer
    <3>3. CASE t = r
      BY <1>10, <3>3 DEF Inv, TypeOK, StorePG, Answer, OwnLease, Holding
    <3> QED
      BY <3>2, <3>3
  <2> QED
    BY <2>1, <2>2, <2>3, ModeStays DEF LockInv
<1>11. ASSUME NEW r \in Requests, ReleaseLock(r) PROVE LockInv'
  <2>1. ASSUME mode.redis = "up", NEW s \in Requests
        PROVE  handle'[s] \in {"none", "redis"} /\ (pc'[s] = "lease" => s \in cancelled')
    BY <1>11, <2>1 DEF Inv, TypeOK, LockInv, ReleaseLock
  <2>2. ASSUME mode.redis = "down", NEW s \in Requests
        PROVE  handle'[s] # "redis"
    BY <1>11, <2>2 DEF Inv, TypeOK, LockInv, ReleaseLock
  <2>3. ASSUME mode.redis = "down", ~mode.overrun, NEW t \in Requests
        PROVE  OwnLease(t)'
    <3>1. Key(r) \in Keys /\ Key(t) \in Keys
      BY KeyTypes DEF Inv
    <3>2. CASE t # r
      <4>1. handle[t] = "pg" /\ pc[t] \in Holding => pg[Key(t)] = InProgress(t)
        BY <2>3 DEF Inv, LockInv, OwnLease
      <4>2. handle[r] = "pg" => pg[Key(r)] = InProgress(r) \/ pg[Key(r)].state = "completed"
        BY <1>11, <2>3 DEF Inv, HoldInv, HolderHolds, Holds, InFlight, ReleaseLock
      <4>3. handle[t] = "pg" /\ pc[t] \in Holding /\ handle[r] = "pg" => Key(t) # Key(r)
        BY <3>2, <4>1, <4>2 DEF InProgress
      <4>4. handle[t] = "pg" /\ pc[t] \in Holding => pg'[Key(t)] = pg[Key(t)]
        BY <1>11, <3>1, <4>3 DEF Inv, TypeOK, ReleaseLock, Unlock
      <4> QED
        BY <1>11, <2>3, <3>2, <4>4, OwnLeaseStays DEF Inv, TypeOK, ReleaseLock
    <3>3. CASE t = r
      BY <1>11, <3>3 DEF Inv, TypeOK, ReleaseLock, OwnLease, Holding
    <3> QED
      BY <3>2, <3>3
  <2> QED
    BY <2>1, <2>2, <2>3, ModeStays DEF LockInv
<1>12. ASSUME NEW r \in Requests, Cancel(r) PROVE LockInv'
  BY <1>12, KeyTypes DEF Inv, TypeOK, ControlInv, LockInv, OwnLease, RedisFails,
                         RedisWorks, Holding, Key, Cancel, InFlight
<1>13. ASSUME NEW r \in Requests, Crash(r) PROVE LockInv'
  BY <1>13, KeyTypes DEF Inv, TypeOK, ControlInv, LockInv, OwnLease, RedisFails,
                         RedisWorks, Holding, Key, Crash, InFlight
<1>14. ASSUME NEW s \in Scopes, ExpireLock(s) PROVE LockInv'
  BY <1>14, KeyTypes DEF Inv, TypeOK, ControlInv, LockInv, OwnLease, RedisFails,
                         RedisWorks, Holding, Key, ExpireLock
<1>15. ASSUME NEW k \in Keys, ExpireLease(k) PROVE LockInv'
  <2>1. ASSUME mode.redis = "up", NEW s \in Requests
        PROVE  handle'[s] \in {"none", "redis"} /\ (pc'[s] = "lease" => s \in cancelled')
    BY <1>15, <2>1 DEF Inv, TypeOK, LockInv, ExpireLease
  <2>2. ASSUME mode.redis = "down", NEW s \in Requests
        PROVE  handle'[s] # "redis"
    BY <1>15, <2>2 DEF Inv, TypeOK, LockInv, ExpireLease
  <2>3. ASSUME mode.redis = "down", ~mode.overrun, NEW t \in Requests
        PROVE  OwnLease(t)'
    <3>1. Key(t) \in Keys
      BY KeyTypes DEF Inv
    <3>2. handle[t] = "pg" /\ pc[t] \in Holding => pg[Key(t)] = InProgress(t) /\ InFlight(t)
      BY <2>3 DEF Inv, LockInv, OwnLease, Holding, InFlight
    <3>3. handle[t] = "pg" /\ pc[t] \in Holding => pg'[Key(t)] = pg[Key(t)]
      BY <1>15, <2>3, <3>1, <3>2 DEF Inv, TypeOK, ExpireLease, Relies, InProgress
    <3> QED
      BY <1>15, <2>3, <3>3, OwnLeaseStays DEF ExpireLease
  <2> QED
    BY <2>1, <2>2, <2>3, ModeStays DEF LockInv
<1>16. ASSUME NEW r \in Requests, ExpireResponse(r) PROVE LockInv'
  BY <1>16, KeyTypes DEF Inv, TypeOK, ControlInv, LockInv, OwnLease, RedisFails,
                         RedisWorks, Holding, Key, ExpireResponse, InFlight
<1>17. ASSUME UNCHANGED vars PROVE LockInv'
  BY <1>17 DEF Inv, TypeOK, ControlInv, LockInv, OwnLease, RedisFails, RedisWorks,
               Holding, Key, vars
<1> QED
  BY <1>1, <1>2, <1>3, <1>4, <1>5, <1>6, <1>7, <1>8, <1>9, <1>10, <1>11,
     <1>12, <1>13, <1>14, <1>15, <1>16, <1>17 DEF Next, Step

-----------------------------------------------------------------------------
(* One store that does the whole work: the handler runs once.              *)

\* Who has left stays away, and what has expired is gone.
LEMMA LeftStays ==
    ASSUME [Next]_vars
    PROVE  cancelled \subseteq cancelled' /\ expired \subseteq expired'
BY DEF Next, Step, vars, Receive, GetRedis, SelectPG, WarmRedis, GiveUp, AcquireRedis,
       AcquirePG, Handler, StoreRedis, StorePG, ReleaseLock, Cancel, Crash, ExpireLock,
       ExpireLease, ExpireResponse

\* A spoiled key stays spoiled.
LEMMA SpoiledStays ==
    ASSUME Inv, [Next]_vars, NEW k, Spoiled(k)
    PROVE  Spoiled(k)'
<1>1. PICK s \in ran :
         /\ Key(s) = k
         /\ (pc[s] = "lost" /\ reply[s] = "none") \/ s \in cancelled \/ s \in expired
  BY DEF Spoiled
<1>2. s \in Requests /\ s \in ran'
  BY <1>1, BegunStays DEF Inv, TypeOK
<1>3. req'[s] = req[s]
  BY <1>2, BegunStays
<1>4. pc[s] = "lost" => pc'[s] = "lost" /\ reply'[s] = reply[s]
  BY DEF Inv, TypeOK, Next, Step, vars, Receive, GetRedis, SelectPG, WarmRedis, GiveUp,
         AcquireRedis, AcquirePG, Handler, StoreRedis, StorePG, ReleaseLock, Cancel, Crash,
         ExpireLock, ExpireLease, ExpireResponse, Serve, Answer, Miss, Locked, LookupFor,
         InFlight
<1> QED
  BY <1>1, <1>2, <1>3, <1>4, LeftStays DEF Spoiled, Key

\* An unspoiled key has no expired response, and none of its clients has left
\* with its handler running.
LEMMA Unspoiled ==
    ASSUME Inv, NEW k, ~Spoiled(k)
    PROVE  \A u \in ran : Key(u) = k => u \notin expired /\ u \notin cancelled
BY DEF Spoiled

\* A stored response may be replaced; it is not lost.
LEMMA StoredStays ==
    ASSUME Inv, [Next]_vars, NEW k \in Keys, Stored(k)
    PROVE  Stored(k)'
<1>1. CASE mode.redis = "down"
  BY <1>1, CompletedStep, ModeStays DEF Inv, Stored
<1>2. CASE mode.redis # "down"
  <2>1. ASSUME NEW r \in Requests, WarmRedis(r) PROVE rcache'[k].by # NoOne
    <3>1. found[r].by # NoOne
      BY <2>1 DEF Inv, FiledInv, FoundFiled, WarmRedis
    <3> QED
      BY <1>2, <2>1, <3>1 DEF Inv, TypeOK, Stored, WarmRedis
  <2>2. ASSUME NEW r \in Requests, StoreRedis(r) PROVE rcache'[k].by # NoOne
    BY <1>2, <2>2, NoOneAssumption DEF Inv, TypeOK, Stored, StoreRedis, Response
  <2>3. CASE UNCHANGED rcache
    BY <1>2, <2>3, ModeStays DEF Stored
  <2>4. \/ \E r \in Requests : WarmRedis(r) \/ StoreRedis(r)
        \/ UNCHANGED rcache
    BY DEF Next, Step, vars, Receive, GetRedis, SelectPG, GiveUp, AcquireRedis, AcquirePG,
           Handler, StorePG, ReleaseLock, Cancel, Crash, ExpireLock, ExpireLease,
           ExpireResponse
  <2> QED
    BY <1>2, <2>1, <2>2, <2>3, <2>4, ModeStays DEF Stored
<1> QED
  BY <1>1, <1>2

\* Two requests under a lock at the same time are told apart by it.
LEMMA LocksApart ==
    ASSUME Inv, ~mode.overrun, mode.redis \in {"up", "down"},
           NEW r \in Requests, NEW s \in Requests, r # s,
           pc[r] \in Holding, pc[s] \in Holding,
           handle[r] \in {"redis", "pg"}, handle[s] \in {"redis", "pg"}
    PROVE  Apart(r, s)
<1>1. CASE mode.redis = "up"
  <2>1. rlock[Scope(r)] = r /\ rlock[Scope(s)] = s
    BY <1>1 DEF Inv, HoldInv, HolderHolds, Holds, LockInv, InFlight, Holding
  <2> QED
    BY <1>1, <2>1 DEF Apart
<1>2. CASE mode.redis = "down"
  <2>1. pg[Key(r)] = InProgress(r) /\ pg[Key(s)] = InProgress(s)
    BY <1>2 DEF Inv, LockInv, OwnLease
  <2> QED
    BY <1>2, <2>1 DEF Apart, InProgress
<1> QED
  BY <1>1, <1>2

\* Who finds nothing stored under its lock is the first to run.
LEMMA FirstToRun ==
    ASSUME Inv, Reliable, NEW r \in Requests, pc[r] \in {"get", "select"},
           handle[r] \in {"redis", "pg"}, ~Spoiled(Key(r)), ~Stored(Key(r)),
           NEW t \in ran
    PROVE  Apart(r, t)
<1>1. t \in Requests /\ t # r
  BY DEF Inv, TypeOK, ControlInv
<1>2. CASE Critical(t)
  BY <1>1, <1>2, LocksApart DEF Inv, ControlInv, Critical, Reliable, Holding
<1>3. CASE pc[t] = "lost" /\ reply[t] = "none"
  BY <1>1, <1>3 DEF Spoiled, Apart, Scope, Key
<1>4. CASE reply[t] = "response"
  <2>1. Key(t) # Key(r)
    BY <1>1, <1>4 DEF Inv, OnceInv, Once
  <2> QED
    BY <2>1 DEF Apart, Scope, Key
<1> QED
  BY <1>1, <1>2, <1>3, <1>4 DEF Inv, ControlInv, Critical

\* Once is left alone by the steps of others.
LEMMA OnceStays ==
    ASSUME Inv, Reliable, [Next]_vars, NEW s \in Requests, ~Spoiled(Key(s))',
           UNCHANGED <<pc[s], phase[s], reply[s], req[s]>>,
           \A t \in ran' : t \in ran \/ (Apart(s, t) /\ UNCHANGED req[t])
    PROVE  Once(s)'
<1>1. Key(s)' = Key(s) /\ Key(s) \in Keys
  BY KeyTypes DEF Inv, Key
<1>2. ~Spoiled(Key(s))
  BY <1>1, SpoiledStays DEF Spoiled, Key
<1>3. Once(s)
  BY <1>2 DEF Inv, OnceInv
<1>4. Stored(Key(s)) => Stored(Key(s))'
  BY <1>1, StoredStays DEF Stored
<1>5. Missed(s)' => Missed(s)
  BY ModeStays DEF Missed
<1>6. \A t \in ran' : req'[t] = req[t]
  BY BegunStays DEF Inv, TypeOK
<1>7. Missed(s) /\ s \notin cancelled => \A t \in ran' : Apart(s, t)
  BY <1>3 DEF Once
<1>8. Missed(s)' /\ s \notin cancelled' => \A t \in ran' : Apart(s, t)'
  BY <1>5, <1>6, <1>7, ModeStays, LeftStays DEF Apart, Key, Scope
<1> QED
  BY <1>3, <1>4, <1>8, ModeStays DEF Once

\* Every request of an unspoiled key keeps Once.
LEMMA OnceEach ==
    ASSUME Inv, Reliable, [Next]_vars, NEW s \in Requests, ~Spoiled(Key(s))'
    PROVE  Once(s)'
<1>1. ASSUME NEW r \in Requests, NEW i \in Inputs, Receive(r, i) PROVE Once(s)'
  <2>1. CASE s # r
    <3>1. UNCHANGED <<pc[s], phase[s], reply[s], req[s]>> /\ ran' = ran
      BY <1>1, <2>1 DEF Inv, TypeOK, Receive
    <3> QED
      BY <3>1, OnceStays
  <2>2. CASE s = r
    <3>1. pc'[s] = "get" /\ reply'[s] # "response"
      BY <1>1, <2>2 DEF Inv, TypeOK, ControlInv, Receive
    <3>2. phase'[s] = "first"
      BY <1>1, <2>2 DEF Inv, ControlInv, Receive
    <3> QED
      BY <3>1, <3>2 DEF Once, Missed
  <2> QED
    BY <2>1, <2>2
<1>2. ASSUME NEW r \in Requests, GetRedis(r) PROVE Once(s)'
  <2>1. CASE s # r
    <3>1. UNCHANGED <<pc[s], phase[s], reply[s], req[s]>> /\ ran' = ran
      BY <1>2, <2>1 DEF Inv, TypeOK, GetRedis, Serve, Answer
    <3> QED
      BY <3>1, OnceStays
  <2>2. CASE s = r
    <3>1. Key(r) \in Keys /\ ~Spoiled(Key(r)) /\ Key(r)' = Key(r)
      BY <1>2, <2>2, KeyTypes, SpoiledStays DEF Inv, GetRedis, Spoiled, Key
    <3>2. CASE RedisWorks(r) /\ Usable(rcache[Key(r)]) /\ Serve(r, rcache[Key(r)])
      <4>1. pc'[r] \in {"done", "release"} /\ Stored(Key(r))'
        BY <1>2, <3>1, <3>2 DEF Inv, TypeOK, GetRedis, RedisWorks, Usable, Serve,
                                Answer, Stored, Key
      <4> QED
        BY <2>2, <4>1 DEF Once, Missed
    <3>3. CASE /\ RedisFails(r) \/ ~Usable(rcache[Key(r)])
               /\ Goto(r, "select") /\ UNCHANGED answerVars
      <4>1. pc'[r] = "select" /\ reply'[r] # "response"
        BY <1>2, <3>3 DEF Inv, TypeOK, ControlInv, GetRedis
      <4>2. ASSUME Missed(r)', r \notin cancelled PROVE \A t \in ran : Apart(r, t)
        <5>1. mode.redis = "up" /\ phase[r] = "recheck" /\ handle[r] \in {"redis", "pg"}
          BY <1>2, <4>1, <4>2, ModeStays DEF Inv, ControlInv, GetRedis, Missed, Reliable
        <5>2. \A u \in expired : Key(u) # Key(r)
          BY <3>1, Unspoiled DEF Inv, ControlInv
        <5>3. FiledUnder(rcache[Key(r)], Key(r))
          BY <3>1 DEF Inv, FiledInv, CacheFiled
        <5>4. ~Stored(Key(r))
          BY <3>3, <4>2, <5>1, <5>2, <5>3 DEF RedisFails, Usable, FiledUnder, Stored
        <5> QED
          BY <1>2, <3>1, <5>1, <5>4, FirstToRun DEF GetRedis
      <4> QED
        BY <1>2, <2>2, <4>1, <4>2 DEF Once, GetRedis, Apart, Key, Scope
    <3> QED
      BY <1>2, <3>2, <3>3 DEF GetRedis
  <2> QED
    BY <2>1, <2>2
<1>3. ASSUME NEW r \in Requests, SelectPG(r) PROVE Once(s)'
  <2>1. CASE s # r
    <3>1. UNCHANGED <<pc[s], phase[s], reply[s], req[s]>> /\ ran' = ran
      BY <1>3, <2>1 DEF Inv, TypeOK, SelectPG, Miss
    <3> QED
      BY <3>1, OnceStays
  <2>2. CASE s = r
    <3>1. Key(r) \in Keys /\ ~Spoiled(Key(r)) /\ Key(r)' = Key(r)
      BY <1>3, <2>2, KeyTypes, SpoiledStays DEF Inv, SelectPG, Spoiled, Key
    <3>2. pc'[r] \in {"warm", "acquire", "get", "handler"} /\ reply'[r] # "response"
      BY <1>3 DEF Inv, TypeOK, ControlInv, SelectPG, Miss
    <3>3. ASSUME Missed(r)', r \notin cancelled PROVE \A t \in ran : Apart(r, t)
      <4>1. CASE mode.redis = "up"
        <5>1. Missed(r)
          BY <1>3, <3>3, <4>1 DEF SelectPG, Missed
        <5> QED
          BY <3>1, <3>3, <5>1 DEF Inv, OnceInv, Once
      <4>2. CASE mode.redis = "down"
        <5>1. pc'[r] = "handler" /\ phase[r] = "recheck" /\ handle[r] \in {"redis", "pg"}
          BY <1>3, <3>3, <4>2 DEF Inv, ControlInv, SelectPG, Missed
        <5>2. \A u \in expired : Key(u) # Key(r)
          BY <3>1, Unspoiled DEF Inv, ControlInv
        <5>3. FiledUnder(pg[Key(r)], Key(r)) /\ pg[Key(r)] \in Rows
          BY <3>1 DEF Inv, TypeOK, FiledInv, RowsFiled
        <5>4. ~(pg[Key(r)].state = "completed" /\ pg[Key(r)].by \notin expired)
          BY <1>3, <3>3, <4>2, <5>1 DEF Inv, TypeOK, SelectPG, PGFails, Reliable
        <5>5. ~Stored(Key(r))
          BY <4>2, <5>2, <5>3, <5>4, RowTypes, NoOneAssumption DEF FiledUnder, Stored
        <5> QED
          BY <1>3, <3>1, <5>1, <5>5, FirstToRun DEF SelectPG
      <4> QED
        BY <4>1, <4>2 DEF Reliable
    <3> QED
      BY <1>3, <2>2, <3>2, <3>3 DEF Once, SelectPG, Apart, Key, Scope
  <2> QED
    BY <2>1, <2>2
<1>4. ASSUME NEW r \in Requests, WarmRedis(r) PROVE Once(s)'
  <2>1. CASE s # r
    <3>1. UNCHANGED <<pc[s], phase[s], reply[s], req[s]>> /\ ran' = ran
      BY <1>4, <2>1 DEF Inv, TypeOK, WarmRedis, Serve, Answer
    <3> QED
      BY <3>1, OnceStays
  <2>2. CASE s = r
    <3>1. Key(r) \in Keys /\ ~Spoiled(Key(r)) /\ Key(r)' = Key(r)
      BY <1>4, <2>2, KeyTypes, SpoiledStays DEF Inv, WarmRedis, Spoiled, Key
    <3>2. found[r].by # NoOne /\ pg[Key(r)].state = "completed"
      BY <1>4 DEF Inv, FiledInv, FoundFiled, WarmRedis
    <3>3. Stored(Key(r))'
      <4>1. Stored(Key(r))
        BY <3>1, <3>2 DEF Inv, OnceInv, RedisFirst, Reliable, Stored
      <4> QED
        BY <3>1, <4>1, StoredStays DEF Stored
    <3>4. pc'[r] \in {"done", "release"}
      BY <1>4 DEF Inv, TypeOK, WarmRedis, Serve, Answer
    <3> QED
      BY <2>2, <3>3, <3>4 DEF Once, Missed
  <2> QED
    BY <2>1, <2>2
<1>5. ASSUME NEW r \in Requests, GiveUp(r) PROVE Once(s)'
  <2>1. CASE s # r
    <3>1. UNCHANGED <<pc[s], phase[s], reply[s], req[s]>> /\ ran' = ran
      BY <1>5, <2>1 DEF Inv, TypeOK, GiveUp, Answer
    <3> QED
      BY <3>1, OnceStays
  <2>2. CASE s = r
    BY <1>5, <2>2 DEF Inv, TypeOK, GiveUp, Answer, Once, Missed
  <2> QED
    BY <2>1, <2>2
<1>6. ASSUME NEW r \in Requests, AcquireRedis(r) PROVE Once(s)'
  <2>1. CASE s # r
    <3>1. UNCHANGED <<pc[s], phase[s], reply[s], req[s]>> /\ ran' = ran
      BY <1>6, <2>1 DEF Inv, TypeOK, AcquireRedis, Locked, LookupFor
    <3> QED
      BY <3>1, OnceStays
  <2>2. CASE s = r
    BY <1>6, <2>2 DEF Inv, TypeOK, ControlInv, AcquireRedis, Locked, LookupFor, Once, Missed
  <2> QED
    BY <2>1, <2>2
<1>7. ASSUME NEW r \in Requests, AcquirePG(r) PROVE Once(s)'
  <2>1. CASE s # r
    <3>1. UNCHANGED <<pc[s], phase[s], reply[s], req[s]>> /\ ran' = ran
      BY <1>7, <2>1 DEF Inv, TypeOK, AcquirePG, Locked, LookupFor, Answer
    <3> QED
      BY <3>1, OnceStays
  <2>2. CASE s = r
    BY <1>7, <2>2 DEF Inv, TypeOK, ControlInv, AcquirePG, Locked, LookupFor, Answer,
                      Once, Missed
  <2> QED
    BY <2>1, <2>2
<1>8. ASSUME NEW r \in Requests, Handler(r) PROVE Once(s)'
  <2>1. CASE s # r
    <3>1. Missed(s) => Apart(s, r)
      BY <1>8, <2>1, LocksApart DEF Inv, ControlInv, Handler, Missed, Reliable, Holding
    <3>2. ~Missed(s) => ~Missed(s)'
      BY <1>8, <2>1 DEF Inv, TypeOK, Handler, Missed
    <3>3. Missed(s) => Once(s)'
      BY <1>8, <2>1, <3>1, OnceStays DEF Inv, TypeOK, Handler
    <3>4. ~Missed(s) => Once(s)'
      <4>1. ~Spoiled(Key(s)) /\ Stored(Key(s))' = Stored(Key(s))
        BY <1>8, SpoiledStays DEF Handler, Spoiled, Key, Stored
      <4> QED
        BY <1>8, <2>1, <3>2, <4>1 DEF Inv, TypeOK, OnceInv, Once, Handler
    <3> QED
      BY <3>3, <3>4
  <2>2. CASE s = r
    BY <1>8, <2>2 DEF Inv, TypeOK, ControlInv, Handler, Once, Missed
  <2> QED
    BY <2>1, <2>2
<1>9. ASSUME NEW r \in Requests, StoreRedis(r) PROVE Once(s)'
  <2>1. CASE s # r
    <3>1. UNCHANGED <<pc[s], phase[s], reply[s], req[s]>> /\ ran' = ran
      BY <1>9, <2>1 DEF Inv, TypeOK, StoreRedis
    <3> QED
      BY <3>1, OnceStays
  <2>2. CASE s = r
    <3>1. Key(r) \in Keys /\ Key(r)' = Key(r) /\ r \notin cancelled
      BY <1>9, <2>2, KeyTypes DEF Inv, ControlInv, Critical, StoreRedis, Spoiled, Key
    <3>2. mode.redis = "up" => Stored(Key(r))'
      BY <1>9, <3>1, NoOneAssumption DEF Inv, TypeOK, StoreRedis, RedisFails, Stored,
                                         Response
    <3>3. pc'[r] = "storePG" /\ reply'[r] # "response"
      BY <1>9 DEF Inv, TypeOK, ControlInv, StoreRedis
    <3> QED
      BY <1>9, <2>2, <3>2, <3>3 DEF Once, Missed, StoreRedis
  <2> QED
    BY <2>1, <2>2
<1>10. ASSUME NEW r \in Requests, StorePG(r) PROVE Once(s)'
  <2>1. CASE s # r
    <3>1. UNCHANGED <<pc[s], phase[s], reply[s], req[s]>> /\ ran' = ran
      BY <1>10, <2>1 DEF Inv, TypeOK, StorePG, Answer, WritePGCache, UpsertPGCompleted
    <3> QED
      BY <3>1, OnceStays
  <2>2. CASE s = r
    <3>1. Key(r) \in Keys /\ ~Spoiled(Key(r)) /\ Key(r)' = Key(r) /\ r \notin cancelled
      <4>1. Key(r) \in Keys /\ ~Spoiled(Key(r)) /\ Key(r)' = Key(r)
        BY <1>10, <2>2, KeyTypes, SpoiledStays DEF Inv, StorePG, Spoiled, Key
      <4>2. r \in ran
        BY <1>10 DEF Inv, ControlInv, Critical, StorePG
      <4> QED
        BY <4>1, <4>2, Unspoiled
    <3>2. Stored(Key(r))'
      <4>1. CASE mode.redis = "up"
        <5>1. Stored(Key(r))
          BY <1>10, <3>1, <4>1 DEF Inv, OnceInv, Once, StorePG
        <5> QED
          BY <3>1, <5>1, StoredStays DEF Stored
      <4>2. CASE mode.redis = "down"
        <5>1. pg[Key(r)] = InProgress(r) /\ handle[r] = "pg"
          BY <1>10, <4>2 DEF Inv, ControlInv, LockInv, OwnLease, Holding, Reliable, StorePG
        <5>2. TokenMatches(r)
          BY <5>1 DEF TokenMatches, InProgress
        <5>3. WritePGCache(r)
          BY <1>10, <3>1, <4>2, <5>1, <5>2 DEF StorePG, PGFails, Reliable, UpsertPGCompleted
        <5> QED
          BY <1>10, <3>1, <4>2, <5>3
             DEF Inv, TypeOK, StorePG, WritePGCache, Completed, Stored
      <4> QED
        BY <4>1, <4>2 DEF Reliable
    <3>3. pc'[r] \in {"done", "release"}
      BY <1>10 DEF Inv, TypeOK, StorePG, Answer
    <3> QED
      BY <2>2, <3>2, <3>3 DEF Once, Missed
  <2> QED
    BY <2>1, <2>2
<1>11. ASSUME NEW r \in Requests, ReleaseLock(r) PROVE Once(s)'
  <2>1. CASE s # r
    <3>1. UNCHANGED <<pc[s], phase[s], reply[s], req[s]>> /\ ran' = ran
      BY <1>11, <2>1 DEF Inv, TypeOK, ReleaseLock, Unlock
    <3> QED
      BY <3>1, OnceStays
  <2>2. CASE s = r
    <3>1. Key(r) \in Keys /\ ~Spoiled(Key(r)) /\ Key(r)' = Key(r)
      BY <1>11, <2>2, KeyTypes, SpoiledStays DEF Inv, ReleaseLock, Spoiled, Key
    <3>2. reply'[r] = "response" => Stored(Key(r))'
      BY <1>11, <3>1, StoredStays DEF Inv, OnceInv, Once, Stored, ReleaseLock
    <3>3. pc'[r] = "done"
      BY <1>11 DEF Inv, TypeOK, ReleaseLock
    <3> QED
      BY <2>2, <3>2, <3>3 DEF Once, Missed
  <2> QED
    BY <2>1, <2>2
<1>12. ASSUME NEW r \in Requests, Cancel(r) PROVE Once(s)'
  <2>1. UNCHANGED <<pc[s], phase[s], reply[s], req[s]>> /\ ran' = ran
    BY <1>12 DEF Cancel
  <2> QED
    BY <2>1, OnceStays
<1>13. ASSUME NEW r \in Requests, Crash(r) PROVE Once(s)'
  <2>1. CASE s # r
    <3>1. UNCHANGED <<pc[s], phase[s], reply[s], req[s]>> /\ ran' = ran
      BY <1>13, <2>1 DEF Inv, TypeOK, Crash, InFlight
    <3> QED
      BY <3>1, OnceStays
  <2>2. CASE s = r
    <3>1. Key(r) \in Keys /\ ~Spoiled(Key(r)) /\ Key(r)' = Key(r)
      BY <1>13, <2>2, KeyTypes, SpoiledStays DEF Inv, Crash, Spoiled, Key
    <3>2. reply'[r] = "response" => Stored(Key(r))'
      BY <1>13, <3>1, StoredStays DEF Inv, OnceInv, Once, Stored, Crash
    <3>3. pc'[r] = "lost"
      BY <1>13 DEF Inv, TypeOK, Crash
    <3> QED
      BY <2>2, <3>2, <3>3 DEF Once, Missed
  <2> QED
    BY <2>1, <2>2
<1>14. ASSUME NEW x \in Scopes, ExpireLock(x) PROVE Once(s)'
  <2>1. UNCHANGED <<pc[s], phase[s], reply[s], req[s]>> /\ ran' = ran
    BY <1>14 DEF ExpireLock
  <2> QED
    BY <2>1, OnceStays
<1>15. ASSUME NEW k \in Keys, ExpireLease(k) PROVE Once(s)'
  <2>1. UNCHANGED <<pc[s], phase[s], reply[s], req[s]>> /\ ran' = ran
    BY <1>15 DEF ExpireLease
  <2> QED
    BY <2>1, OnceStays
<1>16. ASSUME NEW r \in Requests, ExpireResponse(r) PROVE Once(s)'
  <2>1. UNCHANGED <<pc[s], phase[s], reply[s], req[s]>> /\ ran' = ran
    BY <1>16 DEF ExpireResponse
  <2> QED
    BY <2>1, OnceStays
<1>17. CASE UNCHANGED vars
  <2>1. UNCHANGED <<pc[s], phase[s], reply[s], req[s]>> /\ ran' = ran
    BY <1>17 DEF vars
  <2> QED
    BY <2>1, OnceStays
<1> QED
  BY <1>1, <1>2, <1>3, <1>4, <1>5, <1>6, <1>7, <1>8, <1>9, <1>10, <1>11,
     <1>12, <1>13, <1>14, <1>15, <1>16, <1>17 DEF Next, Step

\* RunsOnce is at stake only when a handler is called.
LEMMA RunsOnceStep == Inv /\ Reliable /\ [Next]_vars => RunsOnce'
<1> SUFFICES ASSUME Inv, Reliable, [Next]_vars, NEW r \in ran', NEW s \in ran',
                    r # s, ~Apart(r, s)'
             PROVE  Spoiled(Key(r))'
  BY DEF RunsOnce
<1>1. ASSUME NEW h \in Requests, Handler(h) PROVE Spoiled(Key(r))'
  <2>1. r \in Requests /\ s \in Requests /\ ran' = ran \cup {h} /\ UNCHANGED req
    BY <1>1 DEF Inv, TypeOK, Handler
  <2>2. Spoiled(Key(r)) => Spoiled(Key(r))'
    BY <2>1, SpoiledStays DEF Spoiled, Key
  <2>3. ~Apart(r, s) /\ ~Apart(s, r) /\ Key(r) = Key(s)
    BY <2>1, ModeStays DEF Apart, Key, Scope
  <2>4. Missed(h)
    BY <1>1 DEF Inv, ControlInv, Handler, Missed
  <2>5. Spoiled(Key(h))' \/ \A t \in ran : Apart(h, t)
    <3>1. CASE h \in cancelled
      BY <1>1, <3>1, <2>1 DEF Handler, Spoiled
    <3>2. CASE h \notin cancelled
      <4>1. Spoiled(Key(h)) \/ \A t \in ran : Apart(h, t)
        BY <2>4, <3>2 DEF Inv, OnceInv, Once
      <4>2. Spoiled(Key(h)) => Spoiled(Key(h))'
        BY <2>1, SpoiledStays DEF Spoiled, Key
      <4> QED
        BY <4>1, <4>2
    <3> QED
      BY <3>1, <3>2
  <2>6. CASE r = h
    BY <2>1, <2>3, <2>5, <2>6
  <2>7. CASE s = h
    <3>1. Spoiled(Key(h))' => Spoiled(Key(r))'
      BY <2>1, <2>3, <2>7 DEF Spoiled, Key
    <3> QED
      BY <2>1, <2>3, <2>5, <2>7, <3>1
  <2>8. CASE r # h /\ s # h
    BY <2>1, <2>2, <2>3, <2>8 DEF Inv, OnceInv, RunsOnce
  <2> QED
    BY <2>6, <2>7, <2>8
<1>2. CASE ran' = ran
  <2>1. req'[r] = req[r] /\ req'[s] = req[s] /\ r \in Requests
    BY <1>2, BegunStays DEF Inv, TypeOK
  <2>2. ~Apart(r, s)
    BY <2>1, ModeStays DEF Apart, Key, Scope
  <2>3. Spoiled(Key(r))
    BY <1>2, <2>2 DEF Inv, OnceInv, RunsOnce
  <2> QED
    BY <2>1, <2>3, SpoiledStays DEF Spoiled, Key
<1>3. (\E h \in Requests : Handler(h)) \/ ran' = ran
  BY DEF Next, Step, vars, Receive, GetRedis, SelectPG, WarmRedis, GiveUp, AcquireRedis,
         AcquirePG, StoreRedis, StorePG, ReleaseLock, Cancel, Crash, ExpireLock,
         ExpireLease, ExpireResponse
<1> QED
  BY <1>1, <1>2, <1>3

\* PostgreSQL gets a response after Redis, which keeps it.
LEMMA RedisFirstStep ==
    ASSUME Inv, Reliable, [Next]_vars, NEW k \in Keys, ~Spoiled(k)'
    PROVE  RedisFirst(k)'
<1>1. ~Spoiled(k)
  BY SpoiledStays
<1> SUFFICES ASSUME mode.redis = "up", pg'[k].state = "completed"
             PROVE  Stored(k)'
  BY ModeStays DEF RedisFirst
<1>2. CASE pg[k].state = "completed"
  BY <1>1, <1>2, StoredStays DEF Inv, OnceInv, RedisFirst
<1>3. CASE pg[k].state # "completed"
  <2>1. ASSUME NEW r \in Requests, StorePG(r) PROVE Stored(k)'
    <3>1. Key(r) = k
      BY <1>3, <2>1 DEF Inv, TypeOK, StorePG, WritePGCache, UpsertPGCompleted
    <3>2. Stored(k)
      BY <1>1, <2>1, <3>1 DEF Inv, OnceInv, Once, StorePG
    <3> QED
      BY <3>2, StoredStays
  <2>2. ASSUME NEW r \in Requests, AcquirePG(r) \/ ReleaseLock(r) PROVE FALSE
    BY <1>3, <2>2 DEF Inv, TypeOK, AcquirePG, ReleaseLock, Unlock, InProgress, NoRow
  <2>3. ASSUME NEW l \in Keys, ExpireLease(l) PROVE FALSE
    BY <1>3, <2>3 DEF Inv, TypeOK, ExpireLease
  <2>4. \/ \E r \in Requests : StorePG(r) \/ AcquirePG(r) \/ ReleaseLock(r)
        \/ \E l \in Keys : ExpireLease(l)
        \/ UNCHANGED pg
    BY DEF Next, Step, vars, Receive, GetRedis, SelectPG, WarmRedis, GiveUp, AcquireRedis,
           Handler, StoreRedis, Cancel, Crash, ExpireLock, ExpireResponse
  <2> QED
    BY <1>3, <2>1, <2>2, <2>3, <2>4
<1> QED
  BY <1>2, <1>3

\* Every step keeps OnceInv.
LEMMA OnceStep == Inv /\ [Next]_vars => OnceInv'
<1> SUFFICES ASSUME Inv, [Next]_vars, Reliable PROVE OnceInv'
  BY ModeStays DEF OnceInv, Reliable
<1>1. RunsOnce'
  BY RunsOnceStep
<1>2. ASSUME NEW r \in Requests PROVE Spoiled(Key(r))' \/ Once(r)'
  BY OnceEach
<1>3. ASSUME NEW k \in Keys PROVE Spoiled(k)' \/ RedisFirst(k)'
  BY RedisFirstStep
<1>4. Keys' = Keys
  BY DEF Keys
<1> QED
  BY <1>1, <1>2, <1>3, <1>4 DEF OnceInv

-----------------------------------------------------------------------------
(* The invariant holds, and what follows from it.                          *)

\* The invariant holds initially.
LEMMA InvInit == Init => Inv
<1> SUFFICES ASSUME Init PROVE Inv
  OBVIOUS
<1>1. TypeOK
  BY TypeInit
<1>2. ControlInv
  BY DEF Init, ControlInv, Critical
<1>3. FiledInv
  BY KeyTypes, <1>1 DEF Init, FiledInv, CacheFiled, RowsFiled, LocksFiled, FoundFiled,
                        FiledUnder, NoResponse, NoRow
<1>4. HoldInv
  BY DEF Init, HoldInv, HolderHolds, Holds, FiledAsOwn, ReplayMatches, NoResponse, NoRow
<1>5. LockInv
  BY DEF Init, LockInv, OwnLease
<1>6. OnceInv
  BY DEF Init, OnceInv, RunsOnce, Once, Missed, RedisFirst, NoRow
<1>7. TokenInv
  BY DEF Init, TokenInv, SameToken, NoResponse, NoRow
<1> QED
  BY <1>1, <1>2, <1>3, <1>4, <1>5, <1>6, <1>7 DEF Inv

\* The inductive invariant of the middleware: it holds however the two stores
\* fail, whoever leaves or dies, and whenever locks, leases and responses expire.
THEOREM InvHolds == Spec => []Inv
<1>1. Inv /\ [Next]_vars => Inv'
  BY TypeStep, ControlStep, FiledStep, TokenStep, HoldStep, LockStep, OnceStep DEF Inv
<1> QED
  BY InvInit, <1>1, PTL DEF Spec

\* Every variable has its type, in every mode.
THEOREM TypesHold == Spec => []TypeOK
BY TypeInit, TypeStep, PTL DEF Spec

\* A completed row is never leased, deleted or completed again under a lease,
\* whatever fails and expires: the takeover of a lease (INSERT ... ON CONFLICT),
\* its completion (UPDATE) and its release (DELETE) all look at the status of the
\* row.  The one thing that replaces its response is upsertPGCompleted, of a
\* request that holds the Redis lock.
THEOREM CompletedIsFinal == Spec => CompletedStays
<1>1. TypeOK /\ [Next]_vars => [CompletedKept]_vars
  BY CompletedStep DEF CompletedKept
<1> QED
  BY <1>1, TypesHold, PTL DEF Spec, CompletedStays

\* Who has taken a lock or a lease still has it when it stores its response, as
\* long as TTLs outlive handlers, although tokens are compared only by the hash of
\* the body, and whatever the stores do.
THEOREM HoldersHold == Spec => [](~mode.overrun => HolderHolds)
<1>1. Inv => (~mode.overrun => HolderHolds)
  BY DEF Inv, HoldInv
<1> QED
  BY <1>1, InvHolds, PTL

\* A client gets the response of a request with its own key, path and body,
\* whichever stores fail, as long as TTLs outlive handlers.
THEOREM RepliesMatch == Spec => [](~mode.overrun => ReplayMatches)
<1>1. Inv => (~mode.overrun => ReplayMatches)
  BY DEF Inv, HoldInv
<1> QED
  BY <1>1, InvHolds, PTL

\* Whatever fails and whatever expires, a client gets the response of a request
\* that ran under its key with its body; only the path may differ, and only when
\* a lock or a lease expires under its holder.
THEOREM RepliesAnswerTheBody ==
    Spec => [](\A r \in Requests : reply[r] = "response" =>
                  /\ from[r] \in ran
                  /\ Key(from[r]) = Key(r) /\ Token(from[r]) = Token(r))
<1>1. Inv => \A r \in Requests : reply[r] = "response" =>
                /\ from[r] \in ran
                /\ Key(from[r]) = Key(r) /\ Token(from[r]) = Token(r)
  BY DEF Inv, ControlInv, TokenInv
<1> QED
  BY <1>1, InvHolds, PTL

\* Duplicates never run the handler at the same time, under the Redis lock or
\* under leases, as long as TTLs outlive handlers and Redis does not come and go:
\* then some would lock in Redis and others in PostgreSQL.
THEOREM HandlersSerialized ==
    Spec => [](~mode.overrun /\ mode.redis # "flaky" => Serialized)
<1>1. ASSUME Inv, ~mode.overrun, mode.redis # "flaky" PROVE Serialized
  <2> SUFFICES ASSUME NEW r \in Requests, NEW s \in Requests,
                      r # s, Critical(r), Critical(s)
               PROVE  Apart(r, s)
    BY DEF Serialized
  <2>1. mode.redis \in {"up", "down"}
    BY <1>1, ModesAssumption DEF Inv, TypeOK
  <2> QED
    BY <1>1, <2>1, LocksApart DEF Inv, ControlInv, Critical, Holding
<1>2. Inv => (~mode.overrun /\ mode.redis # "flaky" => Serialized)
  BY <1>1
<1> QED
  BY <1>2, InvHolds, PTL

\* With one store that does the whole work, duplicates run the handler once,
\* unless one that ran it died or lost its client before its response was stored,
\* or the response expired in between.
THEOREM HandlerRunsOnce == Spec => [](Reliable => RunsOnce)
<1>1. Inv => (Reliable => RunsOnce)
  BY DEF Inv, OnceInv
<1> QED
  BY <1>1, InvHolds, PTL

\* Under the same conditions a retry is replayed the very response that its
\* client was given, unless the key was used on another path in between.
THEOREM ResponsesAreKept == Spec => [](Reliable => Replayable)
<1>1. ASSUME Inv, Reliable PROVE Replayable
  <2> SUFFICES ASSUME NEW r \in Requests, reply[r] = "response", ~Spoiled(Key(r)),
                      \A s \in ran : Key(s) = Key(r) => ~Apart(r, s)
               PROVE  /\ Usable(Retained(r))
                      /\ Matches(r, Retained(r))
                      /\ Retained(r).by = from[r]
    BY DEF Replayable
  <2>1. Key(r) \in Keys /\ Stored(Key(r))
    BY <1>1, KeyTypes DEF Inv, OnceInv, Once
  <2>2. /\ Retained(r).by \in ran /\ Key(Retained(r).by) = Key(r)
        /\ Retained(r).as = Retained(r).by
    <3>1. CASE mode.redis # "down"
      BY <1>1, <2>1, <3>1
         DEF Inv, FiledInv, CacheFiled, FiledUnder, HoldInv, FiledAsOwn, Reliable,
             Stored, Retained
    <3>2. CASE mode.redis = "down"
      <4>1. pg[Key(r)] \in Rows /\ pg[Key(r)].state = "completed"
        BY <1>1, <2>1, <3>2 DEF Inv, TypeOK, Stored
      <4>2. pg[Key(r)].by # NoOne
        BY <4>1, RowTypes, NoOneAssumption
      <4>3. pg[Key(r)].as = pg[Key(r)].by
        BY <1>1, <2>1, <4>1 DEF Inv, HoldInv, FiledAsOwn, Reliable
      <4> QED
        BY <1>1, <2>1, <3>2, <4>2, <4>3 DEF Inv, FiledInv, RowsFiled, FiledUnder, Retained
    <3> QED
      BY <3>1, <3>2
  <2>3. from[r] \in ran /\ Key(from[r]) = Key(r) /\ req[from[r]] = req[r]
    BY <1>1 DEF Inv, ControlInv, HoldInv, ReplayMatches, Reliable
  <2>4. Retained(r).by = from[r]
    <3>1. ~Apart(r, Retained(r).by) /\ ~Apart(r, from[r])
      BY <2>2, <2>3
    <3>2. ~Apart(Retained(r).by, from[r])
      BY <3>1 DEF Apart
    <3> QED
      BY <1>1, <2>2, <2>3, <3>2 DEF Inv, OnceInv, RunsOnce
  <2>5. Retained(r).by # NoOne /\ Retained(r).by \notin expired
    BY <1>1, <2>2, Unspoiled, NoOneAssumption DEF Inv, TypeOK
  <2> QED
    BY <2>2, <2>3, <2>4, <2>5 DEF Usable, Matches
<1>2. Inv => (Reliable => Replayable)
  BY <1>1
<1> QED
  BY <1>2, InvHolds, PTL
=============================================================================
