------------------------------- MODULE Gateway -------------------------------
(***************************************************************************)
(* What a client sees: the idempotency middleware in front of payment      *)
(* creation.                                                               *)
(*                                                                         *)
(* The handler the middleware runs is a call of CreatePayment, with all    *)
(* its steps and errors; the response the middleware stores is what that   *)
(* call answered, an error as well as a payment.  A request carries two    *)
(* keys: the header key, by which responses are filed and requests are     *)
(* serialized, and the key in its body, under which the payment is stored. *)
(* The request's context is one: when the client leaves, the middleware's  *)
(* commands and the call's statements fail alike.                          *)
(***************************************************************************)
EXTENDS Idempotency

CONSTANTS
    Body,           \* the create that a body of a given hash asks for
    Rules, Adapters, Currencies, NoKey, MaxInt, MaxAttempts    \* of Payments

VARIABLES
    step,       \* where the CreatePayment of each request is
    body,       \* what it asks for
    outcome,    \* what it answered
    attempt, settle, captures, tx, paid, events     \* as in Payments

payVars == <<step, body, outcome, attempt, settle, captures, tx, paid, events>>
allVars == <<vars, payVars>>

P == INSTANCE Payments WITH
        Creates      <- Requests,
        Refunds      <- {},
        CreateInputs <- {Body[h] : h \in DOMAIN Body},
        RefundInputs <- {},
        pc           <- step,
        req          <- body,
        reply        <- outcome,
        status       <- paid,
        refunds      <- {},
        outbox       <- events

\* A body says what to create, and the service is set up as Payments assumes.
ASSUME BodyAssumption ==
    /\ \A i \in Inputs : i.hash \in DOMAIN Body
    /\ \A h \in DOMAIN Body : Body[h].amount \in Int

ASSUME ServiceAssumption ==
    /\ MaxAttempts \in Nat \ {0}
    /\ P!NoRoute \notin Adapters

-----------------------------------------------------------------------------
GatewayInit == Init /\ P!Init

\* next.ServeHTTP: createPayment decodes the body and calls the service.
Serving(r) == Handler(r) /\ P!ReceiveCreate(r, Body[req[r].hash])

\* The service at work.
Paying(r) ==
    /\ pc[r] = "running"
    /\ P!CreateStep(r) \/ P!TxStep(r) \/ P!DBError(r) \/ P!LostAck(r)
    /\ UNCHANGED vars

\* ServeHTTP returns, and storeCachedResponse begins.
Served(r) == step[r] = "done" /\ StoreRedis(r) /\ UNCHANGED payVars

\* The rest of the middleware.
Guarding(r) ==
    /\ \/ GetRedis(r) \/ SelectPG(r) \/ WarmRedis(r) \/ AcquireRedis(r)
       \/ AcquirePG(r) \/ StorePG(r) \/ ReleaseLock(r)
    /\ UNCHANGED payVars

\* The process that serves r dies, and PostgreSQL rolls its transaction back.
Die(r) ==
    /\ Crash(r)
    /\ step' = [step EXCEPT ![r] = IF P!InFlight(r) THEN "lost" ELSE @]
    /\ tx' = [tx EXCEPT ![r] = P!NoTx]
    /\ UNCHANGED <<body, outcome, attempt, settle, captures, paid, events>>

Around(r) ==
    /\ \/ \E i \in Inputs : Receive(r, i)
       \/ GiveUp(r) \/ Cancel(r) \/ ExpireResponse(r)
    /\ UNCHANGED payVars

Clocks ==
    /\ (\E s \in Scopes : ExpireLock(s)) \/ (\E k \in Keys : ExpireLease(k))
    /\ UNCHANGED payVars

GatewayNext ==
    \/ \E r \in Requests :
          \/ Serving(r) \/ Paying(r) \/ Served(r) \/ Guarding(r)
          \/ Die(r) \/ Around(r)
    \/ Clocks

GatewaySpec == GatewayInit /\ [][GatewayNext]_allVars

-----------------------------------------------------------------------------
(* Properties.                                                             *)

\* The answer of CreatePayment that a client was given, its own or a replay.
Told(r) == IF reply[r] = "response" THEN outcome[from[r]] ELSE "none"

SameBody(r, s) == Body[req[r].hash].key = Body[req[s].hash].key

\* Two clients, or one that tries again under any header key, are never told of
\* two payments for one body key, even when the middleware has let both
\* requests run (an expired lock, a Redis that fails for one of them).
OneStory ==
    \A r, s \in Requests :
        SameBody(r, s) /\ {Told(r), Told(s)} \subseteq {"success", "failed"}
            => from[r] = from[s]

\* The payments with r's body key for which money has moved.
Paid(r) == {s \in Requests : SameBody(r, s) /\ captures[s] > 0}

\* Whatever a client is told of its payment, first hand or replayed, is true of
\* all payments with its body key.  Success is one capture, and it is on record;
\* failed is none; a body that is invalid once has never left anything behind; a
\* conflict has another payment that owns the key.  An error says nothing of the
\* payment: but here too at most one was captured, and it is on record as a
\* success or as still processing.
ClientToldTruth ==
    \A r \in Requests :
        /\ Told(r) = "success" =>
              Paid(r) = {from[r]} /\ captures[from[r]] = 1 /\ paid[from[r]] = "success"
        /\ Told(r) = "failed" =>
              Paid(r) = {} /\ paid[from[r]] = "failed"
        /\ Told(r) = "invalid" =>
              \A s \in Requests :
                  req[s].hash = req[r].hash => paid[s] = "absent" /\ captures[s] = 0
        /\ Told(r) = "conflict" =>
              \E s \in Requests \ {from[r]} : paid[s] # "absent" /\ SameBody(r, s)
        /\ Told(r) \in {"conflict", "error"} =>
              \A s \in Paid(r) : Paid(r) = {s} /\ paid[s] \in {"processing", "success"}

\* A request that the middleware turns away (another request in progress, a key
\* reused, no lock to be had) has not touched the ledger, whatever happened to
\* the locks while it waited.
RefusedUntouched ==
    \A r \in Requests :
        reply[r] \in {"mismatch", "in_progress", "unavailable"} =>
            step[r] = "idle" /\ paid[r] = "absent" /\ captures[r] = 0

-----------------------------------------------------------------------------
(* The inductive invariant.                                                *)

\* The middleware and the service agree on where a request is: a call has begun
\* exactly when the handler has run, and is over before its response is stored;
\* a body is refused as invalid every time or never.
Joined ==
    \A r \in Requests :
        /\ r \in ran <=> step[r] # "idle"
        /\ r \in ran => /\ body[r] = Body[req[r].hash]
                        /\ reply[r] \in {"none", "response"}
        /\ r \in ran /\ pc[r] \notin {"running", "lost"} => step[r] = "done"
        /\ r \in ran => (outcome[r] = "invalid" <=> ~P!ValidCreate(body[r]))

GatewayInv == Inv /\ P!Inv /\ Joined
=============================================================================
