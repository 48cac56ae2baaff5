---------------------------- MODULE GatewayProofs ----------------------------
(***************************************************************************)
(* Theorems about Gateway, for any number of requests, any bodies and any  *)
(* modes of the two stores.                                                *)
(*                                                                         *)
(* The composition is a behaviour of the middleware (GatewaySpec => Spec), *)
(* so Inv of Idempotency holds of it.  It is not one of Payments, whose    *)
(* calls are cancelled only while they are under way and die together; but *)
(* every step of a call keeps Inv of Payments, as PaymentsProofs shows,    *)
(* and so do the client that leaves early and the one process that dies.   *)
(* Joined ties the two together, and with it what a client is told through *)
(* the middleware is what the service answered to a request with its body. *)
(***************************************************************************)
EXTENDS Gateway, IdempotencyProofs

\* The service of Gateway once more, with what is proved about it.
S == INSTANCE PaymentsProofs WITH
        Creates      <- Requests,
        Refunds      <- {},
        CreateInputs <- {Body[h] : h \in DOMAIN Body},
        RefundInputs <- {},
        pc           <- step,
        req          <- body,
        reply        <- outcome,
        status       <- paid,
        refunds      <- {},
        outbox       <- events

USE DEF payVars, answerVars, storeVars, envVars, Goto, Ends, PCs

-----------------------------------------------------------------------------
(* The two instances of the service are the same.                          *)

\* Their invariants are the same formula.
LEMMA SameInv == (P!Inv <=> S!Inv) /\ (P!Inv' <=> S!Inv')
BY DEF P!Inv, S!Inv, P!TypeOK, S!TypeOK, P!CreateInv, S!CreateInv, P!RefundInv,
       S!RefundInv, P!Exclusion, S!Exclusion, P!AnswersAtEnd, S!AnswersAtEnd,
       P!StatusMatchesMoney, S!StatusMatchesMoney, P!RefundedExactlyOnce,
       S!RefundedExactlyOnce, P!OutboxMatchesTables, S!OutboxMatchesTables,
       P!CreateAnswersTrue, S!CreateAnswersTrue, P!RefundAnswersTrue,
       S!RefundAnswersTrue, P!ExclusiveCreates, S!ExclusiveCreates,
       P!ExclusiveRefunds, S!ExclusiveRefunds, P!ExpectedOutbox,
       S!ExpectedOutbox, P!Calls, S!Calls, P!Ends, S!Ends, P!CreatePCs,
       S!CreatePCs, P!RefundPCs, S!RefundPCs, P!Replies, S!Replies, P!Events,
       S!Events, P!Statuses, S!Statuses, P!NoRequest, S!NoRequest,
       P!BeforeSettle, S!BeforeSettle, P!Settling, S!Settling, P!InTx, S!InTx

\* So are the initial states.
LEMMA SameInit == P!Init <=> S!Init
BY DEF P!Init, S!Init, P!Calls, S!Calls, P!NoRequest, S!NoRequest, P!NoTx, S!NoTx

\* So are the arrival of a create and the steps of a call.
LEMMA SameReceive ==
    ASSUME NEW r, NEW i
    PROVE  P!ReceiveCreate(r, i) <=> S!ReceiveCreate(r, i)
BY DEF P!ReceiveCreate, S!ReceiveCreate, P!ValidCreate, S!ValidCreate, P!Goto,
       S!Goto, P!Return, S!Return, P!NoTx, S!NoTx, P!pspVars, S!pspVars,
       P!dbVars, S!dbVars

LEMMA SameSteps ==
    ASSUME NEW r
    PROVE  /\ P!CreateStep(r) <=> S!CreateStep(r)
           /\ P!TxStep(r) <=> S!TxStep(r)
           /\ P!DBError(r) <=> S!DBError(r)
           /\ P!LostAck(r) <=> S!LostAck(r)
BY DEF P!CreateStep, S!CreateStep, P!CreatePayment, S!CreatePayment,
       P!UpdatePaymentStatus, S!UpdatePaymentStatus, P!Route, S!Route,
       P!StartAttempt, S!StartAttempt, P!ChargeCaptured, S!ChargeCaptured,
       P!ChargeRefused, S!ChargeRefused, P!ChargeRetryable, S!ChargeRetryable,
       P!UpdateSettled, S!UpdateSettled, P!TxStep, S!TxStep, P!EnqueueTx,
       S!EnqueueTx, P!Commit, S!Commit, P!DBError, S!DBError, P!LostAck,
       S!LostAck, P!Calls, S!Calls, P!NoTx, S!NoTx, P!Target, S!Target,
       P!CreateKeyTaken, S!CreateKeyTaken, P!Live, S!Live, P!Goto, S!Goto,
       P!WriteTx, S!WriteTx, P!Return, S!Return, P!callVars, S!callVars,
       P!pspVars, S!pspVars, P!dbVars, S!dbVars, P!InsertPayment,
       S!InsertPayment, P!UpdateToProcessing, S!UpdateToProcessing, P!ApplyTx,
       S!ApplyTx, P!DBSteps, S!DBSteps, P!Select, S!Select, P!Matching,
       S!Matching, P!RuleMatches, S!RuleMatches, P!NoRoute, S!NoRoute

-----------------------------------------------------------------------------
(* The middleware's side.                                                  *)

\* Every step of the composition is one of the middleware, or none of its.
LEMMA StepIsMiddleware == [GatewayNext]_allVars => [Next]_vars
<1> SUFFICES ASSUME [GatewayNext]_allVars PROVE [Next]_vars
  OBVIOUS
<1>1. ASSUME NEW r \in Requests, Serving(r) \/ Served(r) \/ Guarding(r) PROVE Next
  BY <1>1 DEF Serving, Served, Guarding, Next, Step
<1>2. ASSUME NEW r \in Requests, Paying(r) PROVE UNCHANGED vars
  BY <1>2 DEF Paying
<1>3. ASSUME NEW r \in Requests, Die(r) \/ Around(r) PROVE Next
  BY <1>3 DEF Die, Around, Next
<1>4. CASE Clocks
  BY <1>4 DEF Clocks, Next
<1>5. CASE UNCHANGED allVars
  BY <1>5 DEF allVars
<1> QED
  BY <1>1, <1>2, <1>3, <1>4, <1>5 DEF GatewayNext

\* The middleware in front of payments behaves as Idempotency specifies: its
\* theorems (serialization, replay, one run) hold of the composition as well.
THEOREM GatewayIsGuarded == GatewaySpec => Spec
BY StepIsMiddleware, PTL DEF GatewaySpec, GatewayInit, Spec

-----------------------------------------------------------------------------
(* The service's side.                                                     *)

\* The body of a request asks for a create.
LEMMA BodyIsCreate ==
    ASSUME TypeOK, NEW r \in Requests
    PROVE  Body[req[r].hash] \in {Body[h] : h \in DOMAIN Body}
BY BodyAssumption DEF TypeOK

\* What PaymentsProofs asks of the constants.
LEMMA ServiceFacts ==
    /\ Requests \cap {} = {}
    /\ \A r \in {Body[h] : h \in DOMAIN Body} : r.amount \in Int
    /\ \A r \in {} : r.amount \in Int /\ r.payment \in Requests
    /\ MaxAttempts \in Nat \ {0}
    /\ S!NoRoute \notin Adapters
BY BodyAssumption, ServiceAssumption DEF S!NoRoute, P!NoRoute

\* A call of the service begins, goes on, answers or fails.
LEMMA ServiceStep ==
    ASSUME P!Inv, NEW r \in Requests,
           \/ \E i \in {Body[h] : h \in DOMAIN Body} : P!ReceiveCreate(r, i)
           \/ P!CreateStep(r) \/ P!TxStep(r) \/ P!DBError(r) \/ P!LostAck(r)
    PROVE  P!Inv'
<1>1. S!Inv /\ r \in S!Calls
  BY SameInv DEF S!Calls
<1>2. ASSUME NEW i \in {Body[h] : h \in DOMAIN Body}, P!ReceiveCreate(r, i) PROVE S!Inv'
  BY <1>1, <1>2, SameReceive, ServiceFacts, S!InvReceiveCreate
<1>3. ASSUME P!CreateStep(r) PROVE S!Inv'
  <2>1. S!CreateStep(r)
    BY <1>3, SameSteps
  <2> QED
    BY <1>1, <2>1, ServiceFacts, S!InvCreatePayment, S!InvUpdatePaymentStatus, S!InvRoute,
       S!InvStartAttempt, S!InvChargeCaptured, S!InvChargeRefused, S!InvChargeRetryable,
       S!InvUpdateSettled DEF S!CreateStep, S!Calls, S!NoRoute
<1>4. ASSUME P!TxStep(r) PROVE S!Inv'
  BY <1>1, <1>4, SameSteps, ServiceFacts, S!InvEnqueueTx, S!InvCommit
     DEF S!TxStep, S!Calls, S!NoRoute
<1>5. ASSUME P!DBError(r) PROVE S!Inv'
  BY <1>1, <1>5, SameSteps, ServiceFacts, S!InvDBError DEF S!Calls, S!NoRoute
<1>6. ASSUME P!LostAck(r) PROVE S!Inv'
  BY <1>1, <1>6, SameSteps, ServiceFacts, S!InvLostAck DEF S!Calls, S!NoRoute
<1> QED
  BY <1>2, <1>3, <1>4, <1>5, <1>6, SameInv

\* A client may leave before its call has begun, or after it is over.
LEMMA ServiceLeave ==
    ASSUME P!Inv, cancelled' \subseteq Requests, UNCHANGED payVars
    PROVE  P!Inv'
<1>1. S!Inv /\ cancelled' \subseteq S!Calls
  BY SameInv DEF S!Calls
<1> QED
  BY <1>1, SameInv, ServiceFacts, S!InvLeave DEF S!Calls, S!NoRoute, S!pspVars, S!dbVars

\* One process dies alone.
LEMMA ServiceDie ==
    ASSUME P!Inv, NEW r \in Requests, Die(r)
    PROVE  P!Inv'
<1>1. /\ step \in [Requests -> P!Ends \cup P!CreatePCs \cup P!RefundPCs]
      /\ tx = [c \in Requests |-> tx[c]]
  BY DEF P!Inv, P!TypeOK, P!Calls
<1>2. step' = [c \in S!Calls |-> IF c \in {r} /\ S!InFlight(c) THEN "lost" ELSE step[c]]
  BY <1>1 DEF Die, S!Calls, S!InFlight, P!InFlight
<1>3. tx' = [c \in S!Calls |-> IF c \in {r} THEN S!NoTx ELSE tx[c]]
  BY <1>1 DEF Die, S!Calls, S!NoTx, P!NoTx
<1>4. UNCHANGED <<S!callVars, outcome, S!pspVars, S!dbVars>>
  BY DEF Die, Crash, S!callVars, S!pspVars, S!dbVars
<1>5. S!Inv /\ {r} \in SUBSET S!Calls
  BY SameInv DEF S!Calls
<1>6. S!Inv'
  BY <1>2, <1>3, <1>4, <1>5, ServiceFacts, S!InvLost DEF S!NoRoute
<1> QED
  BY <1>6, SameInv

\* Every step of the composition keeps the invariant of the service.
LEMMA ServiceKept ==
    ASSUME TypeOK, TypeOK', P!Inv, [GatewayNext]_allVars
    PROVE  P!Inv'
<1>1. ASSUME NEW r \in Requests, Serving(r) PROVE P!Inv'
  BY <1>1, BodyIsCreate, ServiceStep DEF Serving
<1>2. ASSUME NEW r \in Requests, Paying(r) PROVE P!Inv'
  BY <1>2, ServiceStep DEF Paying
<1>3. ASSUME NEW r \in Requests, Die(r) PROVE P!Inv'
  BY <1>3, ServiceDie
<1>4. CASE UNCHANGED payVars
  BY <1>4, ServiceLeave DEF TypeOK
<1>5. ASSUME NEW r \in Requests, Served(r) \/ Guarding(r) \/ Around(r) PROVE UNCHANGED payVars
  BY <1>5 DEF Served, Guarding, Around
<1>6. CASE Clocks \/ UNCHANGED allVars
  BY <1>4, <1>6 DEF Clocks, allVars
<1> QED
  BY <1>1, <1>2, <1>3, <1>4, <1>5, <1>6 DEF GatewayNext

-----------------------------------------------------------------------------
(* The two sides together.                                                 *)

\* A call that has begun does not go back, still asks for the same, and is no
\* longer refused as invalid.
LEMMA CallGoesOn ==
    ASSUME P!Inv, NEW r \in Requests,
           P!CreateStep(r) \/ P!TxStep(r) \/ P!DBError(r) \/ P!LostAck(r)
    PROVE  /\ \A s \in Requests \ {r} : step'[s] = step[s] /\ outcome'[s] = outcome[s]
           /\ step'[r] # "idle"
           /\ outcome[r] # "invalid" /\ outcome'[r] # "invalid"
           /\ body' = body
<1>1. step \in [Requests -> P!Ends \cup P!CreatePCs \cup P!RefundPCs]
  BY DEF P!Inv, P!TypeOK, P!Calls
<1>2. ASSUME NEW l, l # "idle", step' = [step EXCEPT ![r] = l]
      PROVE  (\A s \in Requests \ {r} : step'[s] = step[s]) /\ step'[r] # "idle"
  BY <1>1, <1>2
<1>a. /\ outcome \in [Requests -> P!Replies]
      /\ outcome[r] # "none" => step[r] = "done"
  BY DEF P!Inv, P!TypeOK, P!AnswersAtEnd, P!Calls
<1>b. outcome[r] = "none"
  <2>1. step[r] # "done"
    BY DEF P!CreateStep, P!CreatePayment, P!UpdatePaymentStatus, P!Route,
       P!StartAttempt, P!ChargeCaptured, P!ChargeRefused, P!ChargeRetryable,
       P!UpdateSettled, P!TxStep, P!EnqueueTx, P!Commit, P!DBError, P!LostAck,
       P!DBSteps, P!Live
  <2> QED
    BY <1>a, <2>1
<1>c. \/ outcome' = outcome
      \/ \E a \in {"conflict", "error", tx[r].row} : outcome' = [outcome EXCEPT ![r] = a]
  <2>1. CASE P!CreateStep(r)
    BY <2>1 DEF P!CreateStep, P!CreatePayment, P!UpdatePaymentStatus, P!Route,
       P!StartAttempt, P!ChargeCaptured, P!ChargeRefused, P!ChargeRetryable,
       P!UpdateSettled, P!Goto, P!WriteTx, P!Return
  <2>2. CASE P!TxStep(r)
    BY <2>2 DEF P!TxStep, P!EnqueueTx, P!Commit, P!WriteTx, P!Return
  <2>3. CASE P!DBError(r) \/ P!LostAck(r)
    BY <2>3 DEF P!DBError, P!LostAck, P!Return
  <2> QED
    BY <2>1, <2>2, <2>3
<1>d. tx[r].row # "invalid"
  BY DEF P!Inv, P!TypeOK, P!Calls
<1>e. /\ \A s \in Requests \ {r} : outcome'[s] = outcome[s]
      /\ outcome[r] # "invalid" /\ outcome'[r] # "invalid"
  BY <1>a, <1>b, <1>c, <1>d
<1>3. CASE P!CreateStep(r)
  BY <1>2, <1>e, <1>3 DEF P!CreateStep, P!CreatePayment, P!UpdatePaymentStatus, P!Route,
     P!StartAttempt, P!ChargeCaptured, P!ChargeRefused, P!ChargeRetryable,
     P!UpdateSettled, P!Goto, P!WriteTx, P!Return, P!callVars
<1>4. CASE P!TxStep(r) \/ P!DBError(r) \/ P!LostAck(r)
  BY <1>2, <1>e, <1>4 DEF P!TxStep, P!EnqueueTx, P!Commit, P!DBError, P!LostAck, P!WriteTx,
     P!Return, P!callVars
<1> QED
  BY <1>3, <1>4

\* A step of the middleware around the handler keeps Joined.
LEMMA JoinedStays ==
    ASSUME GatewayInv, [Next]_vars, ran' = ran, UNCHANGED <<step, body, outcome>>,
           \A s \in ran : /\ pc'[s] \notin {"running", "lost"} => step[s] = "done"
                          /\ reply'[s] \in {"none", "response"}
    PROVE  Joined'
<1>1. \A s \in ran : req'[s] = req[s]
  BY BegunStays DEF GatewayInv, Inv, TypeOK
<1> QED
  BY <1>1 DEF GatewayInv, Joined, P!ValidCreate

\* Every step of the composition keeps Joined.
LEMMA JoinedStep == GatewayInv /\ [GatewayNext]_allVars => Joined'
<1> SUFFICES ASSUME GatewayInv, [GatewayNext]_allVars PROVE Joined'
  OBVIOUS
<1>a. [Next]_vars
  BY StepIsMiddleware
<1>b. \A s \in ran : pc[s] \in {"running", "storePG", "lost", "release", "done"}
  BY DEF GatewayInv, Inv, TypeOK, ControlInv
<1>c. /\ step \in [Requests -> P!Ends \cup P!CreatePCs \cup P!RefundPCs]
      /\ DOMAIN body = Requests
  BY DEF GatewayInv, P!Inv, P!TypeOK, P!Calls
<1>1. ASSUME NEW r \in Requests, Serving(r) PROVE Joined'
  <2>1. /\ ran' = ran \cup {r} /\ pc' = [pc EXCEPT ![r] = "running"]
        /\ UNCHANGED <<req, reply>> /\ reply[r] = "none"
    BY <1>1 DEF GatewayInv, Inv, ControlInv, TypeOK, Serving, Handler
  <2>2. /\ body' = [body EXCEPT ![r] = Body[req[r].hash]]
        /\ \E l \in {"insert", "done"} : step' = [step EXCEPT ![r] = l]
    BY <1>1 DEF Serving, P!ReceiveCreate, P!Goto, P!Return
  <2>3. outcome[r] = "none"
    BY <1>1 DEF GatewayInv, P!Inv, P!AnswersAtEnd, P!Calls, Serving, P!ReceiveCreate
  <2>4. /\ \A s \in Requests \ {r} : outcome'[s] = outcome[s]
        /\ outcome'[r] = "invalid" <=> ~P!ValidCreate(Body[req[r].hash])
    BY <1>1, <2>3 DEF GatewayInv, P!Inv, P!TypeOK, P!Calls, Serving, P!ReceiveCreate,
       P!Goto, P!Return
  <2>5. /\ body'[r] = Body[req[r].hash] /\ step'[r] # "idle"
        /\ \A s \in Requests \ {r} : /\ body'[s] = body[s] /\ step'[s] = step[s]
                                    /\ pc'[s] = pc[s]
        /\ pc'[r] = "running"
    BY <1>c, <2>1, <2>2 DEF GatewayInv, Inv, TypeOK
  <2> SUFFICES ASSUME NEW s \in Requests
               PROVE  /\ s \in ran' <=> step'[s] # "idle"
                      /\ s \in ran' => /\ body'[s] = Body[req'[s].hash]
                                       /\ reply'[s] \in {"none", "response"}
                      /\ s \in ran' /\ pc'[s] \notin {"running", "lost"} => step'[s] = "done"
                      /\ s \in ran' => (outcome'[s] = "invalid" <=> ~P!ValidCreate(body'[s]))
    BY DEF Joined, P!ValidCreate
  <2>6. CASE s = r
    BY <2>1, <2>4, <2>5, <2>6
  <2>7. CASE s # r
    BY <2>1, <2>4, <2>5, <2>7 DEF GatewayInv, Joined
  <2> QED
    BY <2>6, <2>7
<1>2. ASSUME NEW r \in Requests, Paying(r) PROVE Joined'
  <2>1. UNCHANGED <<pc, req, reply, ran>> /\ pc[r] = "running" /\ r \in ran
    BY <1>2 DEF Paying, vars, GatewayInv, Inv, ControlInv, Critical
  <2>2. /\ \A s \in Requests \ {r} : step'[s] = step[s] /\ outcome'[s] = outcome[s]
        /\ step'[r] # "idle" /\ body' = body
        /\ outcome[r] # "invalid" /\ outcome'[r] # "invalid"
    BY <1>2, CallGoesOn DEF GatewayInv, Paying
  <2> QED
    BY <2>1, <2>2 DEF GatewayInv, Joined, P!ValidCreate
<1>3. ASSUME NEW r \in Requests, Served(r) PROVE Joined'
  BY <1>3, <1>a, JoinedStays DEF GatewayInv, Inv, TypeOK, Joined, Served, StoreRedis
<1>4. ASSUME NEW r \in Requests, Guarding(r) PROVE Joined'
  <2>1. /\ UNCHANGED <<ran, step, body, outcome>>
        /\ \A s \in Requests \ {r} : pc'[s] = pc[s] /\ reply'[s] = reply[s]
    BY <1>4 DEF GatewayInv, Inv, TypeOK, Guarding, GetRedis, SelectPG, WarmRedis,
       AcquireRedis, AcquirePG, StorePG, ReleaseLock, Serve, Answer, Miss, Locked, LookupFor
  <2>2. r \in ran => StorePG(r) \/ ReleaseLock(r)
    BY <1>4, <1>b DEF Guarding, GetRedis, SelectPG, WarmRedis, AcquireRedis, AcquirePG
  <2>3. r \in ran => reply'[r] \in {"none", "response"} /\ pc[r] \in {"storePG", "release"}
    BY <2>2 DEF GatewayInv, Inv, TypeOK, Joined, StorePG, ReleaseLock, Answer
  <2> QED
    BY <1>a, <2>1, <2>3, JoinedStays DEF GatewayInv, Inv, TypeOK, Joined
<1>5. ASSUME NEW r \in Requests, Die(r) PROVE Joined'
  <2>1. UNCHANGED <<req, reply, ran, body, outcome>> /\ pc' = [pc EXCEPT ![r] = "lost"]
    BY <1>5 DEF Die, Crash
  <2>2. \A s \in Requests : (step'[s] = "idle") = (step[s] = "idle")
    BY <1>5, <1>c DEF Die, P!InFlight
  <2>3. \A s \in Requests \ {r} : step'[s] = step[s]
    BY <1>5, <1>c DEF Die
  <2> QED
    BY <2>1, <2>2, <2>3 DEF GatewayInv, Inv, TypeOK, Joined, P!ValidCreate
<1>6. ASSUME NEW r \in Requests, Around(r) PROVE Joined'
  <2>1. /\ UNCHANGED <<ran, step, body, outcome>>
        /\ \A s \in ran : pc'[s] = pc[s] /\ reply'[s] = reply[s]
    BY <1>6, <1>b DEF GatewayInv, Inv, TypeOK, Around, Receive, GiveUp, Cancel,
       ExpireResponse, Answer
  <2> QED
    BY <1>a, <2>1, JoinedStays DEF GatewayInv, Inv, TypeOK, Joined
<1>7. CASE Clocks
  BY <1>7, <1>a, JoinedStays
     DEF GatewayInv, Inv, TypeOK, Joined, Clocks, ExpireLock, ExpireLease
<1>8. CASE UNCHANGED allVars
  BY <1>8 DEF GatewayInv, Joined, allVars, vars
<1> QED
  BY <1>1, <1>2, <1>3, <1>4, <1>5, <1>6, <1>7, <1>8 DEF GatewayNext

\* The inductive invariant of the composition.
THEOREM GatewayInvHolds == GatewaySpec => []GatewayInv
<1>1. GatewayInit => P!Inv /\ Joined
  <2> SUFFICES ASSUME GatewayInit PROVE P!Inv /\ Joined
    OBVIOUS
  <2>1. P!Inv
    BY SameInit, SameInv, ServiceFacts, S!InvInit DEF GatewayInit, S!NoRoute
  <2>2. Joined
    BY DEF GatewayInit, Init, P!Init, P!Calls, Joined
  <2> QED
    BY <2>1, <2>2
<1>2. Inv /\ Inv' /\ P!Inv /\ Joined /\ [GatewayNext]_allVars => P!Inv' /\ Joined'
  BY ServiceKept, JoinedStep DEF GatewayInv, Inv
<1>3. GatewaySpec => []Inv
  BY GatewayIsGuarded, InvHolds, PTL
<1>4. GatewayInv <=> Inv /\ P!Inv /\ Joined
  BY DEF GatewayInv
<1> QED
  BY <1>1, <1>2, <1>3, <1>4, PTL DEF GatewaySpec

-----------------------------------------------------------------------------
(* What the clients are told.                                              *)

\* The request whose response a client was given had its body.
LEMMA ToldByTwin ==
    ASSUME GatewayInv, NEW r \in Requests, Told(r) # "none"
    PROVE  /\ from[r] \in ran /\ from[r] \in Requests
           /\ Told(r) = outcome[from[r]]
           /\ body[from[r]] = Body[req[r].hash]
<1>1. reply[r] = "response" /\ Told(r) = outcome[from[r]]
  BY DEF Told
<1>2. from[r] \in ran /\ from[r] \in Requests
  BY <1>1 DEF GatewayInv, Inv, TypeOK, ControlInv
<1>3. req[from[r]].hash = req[r].hash
  BY <1>1 DEF GatewayInv, Inv, TokenInv, Token
<1> QED
  BY <1>1, <1>2, <1>3 DEF GatewayInv, Joined

\* A payment on record, or paid, is that of a request that has run.
LEMMA PaidHasRun ==
    ASSUME GatewayInv, NEW r \in Requests, paid[r] # "absent" \/ captures[r] # 0
    PROVE  r \in ran /\ body[r] = Body[req[r].hash]
<1>1. step[r] # "idle"
  BY DEF GatewayInv, P!Inv, P!CreateInv, P!BeforeSettle
<1> QED
  BY <1>1 DEF GatewayInv, Joined

\* One key of a body has one payment.
LEMMA OnePayment ==
    ASSUME GatewayInv, NEW r \in Requests, NEW s \in Requests,
           paid[r] # "absent", paid[s] # "absent", body[r].key = body[s].key
    PROVE  r = s
BY DEF GatewayInv, P!Inv, P!Exclusion, P!ExclusiveCreates

\* Clients are never told of two payments for one body key, in any mode of the
\* stores and although locks and leases may expire under their holders: the last
\* word is the unique index on the payments' keys.
THEOREM OneStoryIsTold == GatewaySpec => []OneStory
<1>1. ASSUME GatewayInv PROVE OneStory
  <2> SUFFICES ASSUME NEW r \in Requests, NEW s \in Requests, SameBody(r, s),
                      Told(r) \in {"success", "failed"}, Told(s) \in {"success", "failed"}
               PROVE  from[r] = from[s]
    BY DEF OneStory
  <2>1. ASSUME NEW t \in Requests, Told(t) \in {"success", "failed"}
        PROVE  paid[from[t]] # "absent"
    BY <1>1, <2>1, ToldByTwin DEF GatewayInv, P!Inv, P!CreateAnswersTrue
  <2>2. body[from[r]].key = body[from[s]].key
    BY <1>1, ToldByTwin DEF SameBody
  <2> QED
    BY <1>1, <2>1, <2>2, ToldByTwin, OnePayment
<1> QED
  BY <1>1, GatewayInvHolds, PTL

\* Money that has moved is on record, once for a body key.
LEMMA PaidOnce ==
    ASSUME GatewayInv, NEW r \in Requests, NEW s \in Requests, NEW t \in Paid(r),
           paid[s] # "absent", body[s] = Body[req[s].hash], SameBody(r, s)
    PROVE  s = t
<1>1. t \in Requests /\ captures[t] # 0 /\ SameBody(r, t)
  BY DEF Paid, GatewayInv, P!Inv, P!TypeOK
<1>2. paid[t] # "absent" /\ body[t] = Body[req[t].hash]
  BY <1>1, PaidHasRun DEF GatewayInv, P!Inv, P!StatusMatchesMoney
<1> QED
  BY <1>1, <1>2, OnePayment DEF SameBody

\* What the response a client was given says of the request that produced it.
LEMMA ToldOf ==
    ASSUME GatewayInv, NEW r \in Requests, Told(r) # "none"
    PROVE  /\ from[r] \in ran /\ from[r] \in Requests
           /\ outcome[from[r]] = Told(r)
           /\ body[from[r]] = Body[req[from[r]].hash]
           /\ req[from[r]].hash = req[r].hash
           /\ SameBody(r, from[r])
<1>1. reply[r] = "response"
  BY DEF Told
<1>2. req[from[r]].hash = req[r].hash
  BY <1>1 DEF GatewayInv, Inv, TokenInv, Token
<1> QED
  BY <1>2, ToldByTwin DEF SameBody

\* What a client is told of its payment, first hand or replayed, is true of every
\* payment with its body key, in any mode of the stores.
THEOREM ClientsAreToldTruth == GatewaySpec => []ClientToldTruth
<1>1. ASSUME GatewayInv PROVE ClientToldTruth
  <2> SUFFICES ASSUME NEW r \in Requests
               PROVE  /\ Told(r) = "success" =>
                            /\ Paid(r) = {from[r]} /\ captures[from[r]] = 1
                            /\ paid[from[r]] = "success"
                      /\ Told(r) = "failed" =>
                            Paid(r) = {} /\ paid[from[r]] = "failed"
                      /\ Told(r) = "invalid" =>
                            \A s \in Requests : req[s].hash = req[r].hash =>
                               paid[s] = "absent" /\ captures[s] = 0
                      /\ Told(r) = "conflict" =>
                            \E s \in Requests \ {from[r]} :
                               paid[s] # "absent" /\ SameBody(r, s)
                      /\ Told(r) \in {"conflict", "error"} =>
                            \A s \in Paid(r) :
                               Paid(r) = {s} /\ paid[s] \in {"processing", "success"}
    BY DEF ClientToldTruth
  <2>1. ASSUME Told(r) = "success"
        PROVE  /\ Paid(r) = {from[r]} /\ captures[from[r]] = 1
               /\ paid[from[r]] = "success"
    <3>1. paid[from[r]] = "success" /\ captures[from[r]] = 1
      <4>1. paid[from[r]] \in {"success", "refunded"}
        BY <1>1, <2>1, ToldOf DEF GatewayInv, P!Inv, P!CreateAnswersTrue
      <4>2. paid[from[r]] # "refunded"
        BY <1>1, <2>1, ToldOf DEF GatewayInv, P!Inv, P!RefundedExactlyOnce
      <4> QED
        BY <1>1, <2>1, <4>1, <4>2, ToldOf DEF GatewayInv, P!Inv, P!StatusMatchesMoney
    <3>2. from[r] \in Paid(r)
      BY <1>1, <2>1, <3>1, ToldOf DEF Paid
    <3>3. \A t \in Paid(r) : t = from[r]
      BY <1>1, <2>1, <3>1, ToldOf, PaidOnce
    <3> QED
      BY <3>1, <3>2, <3>3
  <2>2. ASSUME Told(r) = "failed"
        PROVE  Paid(r) = {} /\ paid[from[r]] = "failed"
    <3>1. paid[from[r]] = "failed" /\ captures[from[r]] = 0
      BY <1>1, <2>2, ToldOf
         DEF GatewayInv, P!Inv, P!CreateAnswersTrue, P!StatusMatchesMoney
    <3>2. \A t \in Paid(r) : t = from[r]
      BY <1>1, <2>2, <3>1, ToldOf, PaidOnce
    <3>3. \A t \in Paid(r) : captures[t] > 0
      BY DEF Paid
    <3> QED
      BY <3>1, <3>2, <3>3
  <2>3. ASSUME Told(r) = "invalid", NEW s \in Requests, req[s].hash = req[r].hash
        PROVE  paid[s] = "absent" /\ captures[s] = 0
    <3>1. ~P!ValidCreate(Body[req[s].hash])
      BY <1>1, <2>3, ToldOf DEF GatewayInv, Joined
    <3>2. CASE s \in ran
      <4>1. outcome[s] = "invalid"
        BY <1>1, <3>1, <3>2 DEF GatewayInv, Joined
      <4> QED
        BY <1>1, <4>1 DEF GatewayInv, P!Inv, P!CreateAnswersTrue
    <3>3. CASE s \notin ran
      BY <1>1, <3>3, PaidHasRun
    <3> QED
      BY <3>2, <3>3
  <2>4. ASSUME Told(r) = "conflict"
        PROVE  \E s \in Requests \ {from[r]} : paid[s] # "absent" /\ SameBody(r, s)
    <3>1. PICK s \in Requests \ {from[r]} :
             paid[s] # "absent" /\ body[s].key = body[from[r]].key
      BY <1>1, <2>4, ToldOf DEF GatewayInv, P!Inv, P!CreateAnswersTrue
    <3> QED
      BY <1>1, <2>4, <3>1, ToldOf, PaidHasRun DEF SameBody
  <2>5. ASSUME NEW s \in Paid(r)
        PROVE  Paid(r) = {s} /\ paid[s] \in {"processing", "success"}
    <3>1. s \in Requests /\ captures[s] # 0 /\ SameBody(r, s)
      BY <1>1 DEF Paid, GatewayInv, P!Inv, P!TypeOK
    <3>2. paid[s] \notin {"absent", "initiated", "failed"} /\ body[s] = Body[req[s].hash]
      BY <1>1, <3>1, PaidHasRun DEF GatewayInv, P!Inv, P!StatusMatchesMoney
    <3>3. paid[s] # "refunded"
      BY <1>1, <3>1 DEF GatewayInv, P!Inv, P!RefundedExactlyOnce
    <3>4. paid[s] \in {"processing", "success"}
      BY <1>1, <3>1, <3>2, <3>3 DEF GatewayInv, P!Inv, P!TypeOK, P!Statuses
    <3>5. \A t \in Paid(r) : s = t
      BY <1>1, <3>1, <3>2, PaidOnce
    <3> QED
      BY <3>4, <3>5
  <2> QED
    BY <2>1, <2>2, <2>3, <2>4, <2>5
<1> QED
  BY <1>1, GatewayInvHolds, PTL

\* A request that the middleware turned away has not touched the ledger.
THEOREM RefusedAreUntouched == GatewaySpec => []RefusedUntouched
<1>1. ASSUME GatewayInv PROVE RefusedUntouched
  <2> SUFFICES ASSUME NEW r \in Requests,
                      reply[r] \in {"mismatch", "in_progress", "unavailable"}
               PROVE  step[r] = "idle" /\ paid[r] = "absent" /\ captures[r] = 0
    BY DEF RefusedUntouched
  <2>1. step[r] = "idle"
    BY <1>1 DEF GatewayInv, Joined
  <2> QED
    BY <1>1, <2>1 DEF GatewayInv, P!Inv, P!CreateInv, P!BeforeSettle
<1> QED
  BY <1>1, GatewayInvHolds, PTL
=============================================================================
