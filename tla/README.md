# PayFlowMock in TLA+

PayFlowMock is a payment service in Go: an HTTP server that creates and refunds
payments in PostgreSQL, charges them through mock payment service providers
(PSPs), tells merchants about them by webhook, and lets clients repeat requests
safely with an idempotency key. This directory models it in TLA+, from the start
of the process to the webhook at the merchant, checks the models on small
instances with TLC, and proves the main properties for every instance with
TLAPS.

    tlc -config MCPaymentsCreates.cfg MCPayments     # one run
    tlapm PaymentsProofs.tla                         # one proof module

`PROJECT.json` lists the runs, what each property is about, the source lines
each definition models, the known hazards and the theorems.

## 1. Inventory

| Part | State | Operations | Talks to |
|---|---|---|---|
| Handlers (`internal/handler`) | none | createPayment, refundPayment, getPayment, healthz | the service |
| Idempotency middleware (`internal/middleware`) | Redis `idem:resp:<key>`, `idem:lock:<method>:<path>:<key>`; table `idempotency_keys` | lookup, lock or lease, run the handler, store, release | Redis, PostgreSQL, the handlers |
| Payment service (`internal/service`) | none of its own | CreatePayment, RefundPayment, GetPayment | repository, router, retry, PSP |
| Payment repository (`internal/repository`) | `payments`, `refunds` | CreatePayment, UpdatePaymentStatus, UpdatePaymentStatusWithPSP, UpdatePaymentFailed, RefundPaymentAtomic | PostgreSQL, outbox repository |
| Retry (`internal/retry`) | attempts of one call | DoWithObserver | the PSP |
| Router (`internal/psp`) | rules, adapters (fixed) | Select | PSP adapters |
| PSP mocks (`internal/psp`) | none | Charge, Refund (the service never calls Refund) | – |
| Circuit breaker (`internal/psp`) | state, counts and generation of one PSP's breaker | Charge, Refund (never called) | gobreaker, the PSP mock |
| Outbox repository | `outbox_events` | EnqueueTx, ClaimBatch, ReclaimStaleProcessing, MarkDelivered, MarkRetry, MarkDead | PostgreSQL |
| Webhook worker (`internal/worker`) | the batch in hand | Run, runOnce, handleOne, deliver | outbox repository, merchants |
| Server (`cmd/server`) | the process; `schema_migrations` | main, runMigrations, shutdown | all of the above |
| Merchant registry, logging, metrics, tracing | configuration | lookup and observation | – |

What is hard in this code:

* every request is a goroutine, and its statements interleave with those of
  others; the protection is unique indexes, `UPDATE ... WHERE status = ...`,
  row locks, and two kinds of idempotency lock;
* money moves outside the database: a charge can be captured and the statement
  that records it fail; the request's context is used for both;
* a commit can take effect and report an error; the process can die anywhere;
* a claimed webhook is recorded only as `PROCESSING` and a timestamp; when it is
  reclaimed, the first worker may still be at it, and both mark the same row;
* Redis and PostgreSQL fail separately, locks and leases expire, and the token
  of a lock is the hash of the body, which duplicates share;
* all the charges of a PSP share one breaker, which hears of a charge twice and
  may have changed its state several times in between;
* several processes may start on one database, die in a migration, and stop while
  requests, transactions and deliveries are under way.

What would make each part correct: a key is charged once and the tables tell
the truth about the money and about every answer given; the outbox holds exactly
the events of what was committed; an event is DELIVERED or DEAD only for good
reason, for ever, and every event ends there; duplicates do not run together,
run once, and get their own response; clients and merchants are told nothing
that the ledger does not say; a breaker that has opened closes again; nothing is
served on half a schema and an orderly stop loses nothing; everything ends.

## 2. Modules

| Module | Models | Checked by | Proved in |
|---|---|---|---|
| `Router` | `psp/router.go` | within Payments | – |
| `Payments` (extends Router) | service, repository, retry, PSP outcomes, outbox insert | `MCPayments*.cfg` | `PaymentsProofs` |
| `Ledger` | abstract: what Payments promises about money | `ImplementsLedger` | `PaymentsProofs` |
| `Outbox` | outbox repository and webhook worker | `MCOutboxRace.cfg`, `MCPipeline.cfg` | `OutboxProofs` |
| `Delivery` | abstract: what Outbox promises about an event | `ImplementsDelivery` | `OutboxProofs` |
| `Pipeline` (extends Outbox, instantiates Ledger) | payments feeding the outbox | `MCPipeline.cfg` | `PipelineProofs` |
| `Idempotency` | the middleware and its two stores | `MCIdempotency*.cfg` | `IdempotencyProofs` |
| `Gateway` (extends Idempotency, instantiates Payments) | the middleware in front of CreatePayment | `MCGateway.cfg` | `GatewayProofs` |
| `CircuitBreaker` | breaker, retry loops, mocks of one PSP | `MCBreaker*.cfg` | `CircuitBreakerProofs` |
| `Server` | processes, migrations, shutdown | `MCServer.cfg` | `ServerProofs` |

### Payments

One process per call. `pc` names the statement or charge the call sends next:

    create:  insert -> toProcessing -> route -> attempt -> charging -> update -> enqueue -> commit
    refund:  lookup -> refund -> toRefunded -> enqueue -> commit

`tx` holds what the open transaction has written (the new status of the row,
the event, the refund row); `status`, `refunds` and `outbox` are committed
state. Row locks and waiting for an uncommitted unique key are derived from the
open transactions (`RowLocked`, `KeyPending`). A payment is named by the call
that creates it, as the code draws a fresh UUID. `captures` counts what the PSP
really did. Around every statement there are `DBError` (no effect, rollback,
HTTP 500), `LostAck` (effect, HTTP 500), `Cancel` (the client leaves: statements
and backoffs fail from then on, a charge under way may still be captured) and
`Crash` (all calls are lost, open transactions roll back).

`ChargeCaptured`, `ChargeRefused` and `ChargeRetryable` are the three things
`adapter.Charge` can do as the retry loop sees it. The mocks answer an error
only if they captured nothing; the model keeps that (the mutant of
`ChargeRefused` is a PSP that does not). An open circuit breaker is a
`ChargeRefused`: its error is not retryable. The mismatch branches of
`UpdatePaymentStatus`, `UpdatePaymentStatusWithPSP` and `UpdatePaymentFailed`
cannot be reached, since only the create itself moves its payment before it is
settled (`CreateInv`); a disabled step there would show up in `CallsEnd`.

*Ledger* is the same without the machinery: `Open` (under a key nobody owns),
`Process`, `Capture` (at most once, only while processing), `Settle` (the status
tells the truth about the money) and `Refund`, the last two in one step with
their event. `Payments!L` maps the committed tables to it; statements inside a
transaction, retries, rollbacks, answers and crashes are stutters. That a
payment may stay processing for ever is allowed: the code does not prevent it
(`payments_settled`).

### Outbox

One process per worker. `pc` is the place in `runOnce` and `task[w][e]` the
place of `handleOne` for each event of the batch, at most `PoolSize` of which
run at once. Time is two flags of a row: `due` and `stale`. `Overrun` says
whether a claim may grow stale while its worker is still delivering, which the
defaults allow (batch 20, pool 8, HTTP timeout 10 s, stale after 10 s). `acked`
and `fails` are history variables: what merchants answered. So are `forgotten`,
the events of which a 2xx was never marked (the mark failed, or the worker
stopped before it), and `overdue`, those whose claim grew stale under their
worker; they let the properties speak of each event alone. The order by
`next_retry_at` in ClaimBatch is left open; any batch of due rows may be taken.
`Stop` is a crash or a shutdown: `handleOne` leaves without a mark once its
context is done.

*Delivery* is what remains when workers are out of sight: an event is pending
until it is delivered, which needs an acknowledgement, or dead, which needs
`MaxAttempts` failures or a missing URL. `Outbox!D` maps PENDING and PROCESSING
to pending, so a claim, a reclaim and a retry are stutters.

### Pipeline

The abstract ledger and the detailed outbox, joined where the code joins them:
a step that adds an event to the ledger is the step that adds the row to the
outbox (`Publish`), since both are one transaction. `MerchantToldTruth` holds of
every acknowledgement at any later time. The order of two events of one payment
is not kept, neither by the code nor by the model: a refund may arrive first
while the success waits for its retry.

### Idempotency

One process per request with a key. A lookup is three steps (Redis GET,
PostgreSQL SELECT, warming Redis) and happens in three places (`phase`: first,
wait, recheck). A response is the pair of the request it is filed under (`as`)
and the request whose handler produced it (`by`); they differ only if a row was
completed by another than its lease holder. `rlock` and the leased rows name
their owner, but every comparison uses `Token`, the body's hash, as the code
does. `mode`, chosen once from `Modes`, says whether commands to a store work,
fail, or may do either; a failing command may have taken effect. `mode.overrun`
says whether a lock (15 s) or a lease (60 s unless configured) may expire before its holder
is through; without it only those of dead or finished requests do. A cancelled context
fails every command but the release; a client can leave until it is answered.
go-redis sends a command again whose reply was lost: `AcquireRedis` lets such a
`SET NX` find the request's own lock and wait for it. Method and path are one field, as they are
always compared together. Requests without a key or with GET pass straight
through and are left out; so is a loss of Redis' memory.

### Gateway

`Handler` and `StoreRedis` of Idempotency enclose a whole `CreatePayment` of
Payments: `Serving` starts it with the create that the body asks for, `Paying`
is any of its steps and errors, `Served` stores what it answered, be it a
payment, a refusal or an error. One `cancelled` serves both, as the request has
one context; `Die` takes the process with the lock and the transaction. The
header key and the body's key are different things (README of the repository):
the inputs include one body under two header keys and three bodies under one,
one of them invalid.
Refunds are left out: behind the middleware they are one more call with its own
key, and two of them are in `payments_refunds`.

### CircuitBreaker

Each call is the retry loop of a create that was routed to one PSP. gobreaker
(external, as the code configures it: 3 probes, open after 5 consecutive
failures) is entered before the charge (`StartAttempt`) and after it (`Report`).
Its generation number would grow without bound; the breaker keeps instead the
set `current` of charges that started in its generation. The 60 s interval and the
30 s timeout are one flag `due`, looked at, as in the library, only when a call
enters. The mocks answer (captured or declined), fail transiently or for good,
or return the context's error if the client has left. `calm` says that PSP and
clients fail no more, for the liveness property. `pspError` is history: whether
the failures counted include an error of the PSP.

### Server

`pc` is the place of `main` in each process: migrate, locked, applying, connect,
serving, stopping (waiting for the worker, still accepting), draining, closing
(the deferred calls), closed (the pool takes no one, and waits for the
connections in use). golang-migrate (external) is its advisory lock, version and
dirty mark. A request is running or in a query, which is what pool and exit
distinguish; what it does there is in the other modules. `excused` and `killed`
record which requests a drain that took too long, or a crash, has hit.

## 3. Runs

All runs explore every interleaving of their instance. `CHECK_DEADLOCK FALSE`
is set for Payments and Idempotency, where all calls may be over.

| Run | Instance | Shows |
|---|---|---|
| `payments_creates` | 2 creates, 1 refund, 3 attempts | key charged once, status matches the money, outbox exact, answers true, lifecycle; implements Ledger |
| `payments_refunds` | 1 create, 2 refunds, fair | one refund at most, refusals are justified, every call ends, `Inv` |
| `payments_settled` | 1 create, 1 refund | **violated**: captured money left unrecorded |
| `outbox_race` | 2 workers, 2 events, Overrun | final states are earned and final; bounded overshoot; one owner unless the event's own claim is overtaken; a 2xx is given up only if that event's was forgotten or overtaken; implements Delivery |
| `pipeline` | 1 payment, 1 refund, 2 workers, no Overrun, fair | merchants are told the truth and told everything: every event ends; `Inv` |
| `idempotency_stores` | 3 requests; Redis up with PostgreSQL flaky, or Redis down | serialized, run once, a retry is replayed the client's very response unless another path overwrote it, locks kept |
| `idempotency_flaky` | 2 requests, both flaky with overrun, or one store at work without, fair | a completed row is replaced only under the Redis lock, every request is answered, `Inv` |
| `idempotency_paths` | 2 requests, all up | **violated**: one key, two paths, both run |
| `gateway` | 2 requests, 2 header keys, 3 bodies (one invalid), overrun, Redis up or down | one payment per body key in what clients hear, every kind of answer and replay true, refused requests harmless |
| `breaker_recovers` | 3 calls, 2 probes, opens after 3, 2 attempts, fair | probes accounted for, the breaker closes again |
| `breaker_blame` | 3 calls, the limits of the code (3, 5, 3) | **violated**: clients that leave open the breaker |
| `server` | 2 processes, 2 requests, 3 migrations, fair | full schema before serving, each migration once, orderly stop, every stop ends, `Inv` |

Bounds. Two creates and one refund, or one create and two refunds, give every
pair of calls that can meet on a key or a row; the inputs include equal and
different keys, a missing route, an amount at and past `MaxInt`, too much, and
the wrong currency. `MaxInt = 3` stands for the largest int64. In Outbox,
`MaxFaults` bounds database errors and crashes and `MaxFails` the counter of
failed deliveries (it saturates); in `outbox_race` two faults allow a lost claim
and a lost mark in one behaviour, as in `pipeline`. Two workers are enough for two holders of one event; the
proofs cover more. In Idempotency three requests are a holder, a waiter and a
late comer; one key suffices, since nothing relates two keys. In Gateway two
requests meet in every step of each other; a third, or a Redis that fails
now and then, is out of TLC's reach, but expiring locks and leases let both
handlers run together as a failing Redis would. In CircuitBreaker the limits are
scaled down and keep their relation: more loops than probes, so that late
answers and refused probes occur, and fewer attempts than it takes to open, so
that it takes the failures of several loops. In Server two processes are
enough to race for the lock and to find the other's half-done migration.

Fairness. A goroutine that can take a step does, the stores, the PSP mocks and
merchants answer or time out (`http.Client` has a timeout, the mocks' latency is
bounded), and time passes. A call with a cancelled context gets its error. Only
the wait deadline of the middleware needs strong fairness: it is looked at
between two polls. In CircuitBreaker time, loops and mocks go on; payments need
not come and clients need not stay (`Recovers` says so in its premise). In
Server `main` and its deadlines, a round of the worker and a transaction go on;
a request need not end, and nobody restarts a process. Gateway is checked for
safety only; that its parts end is `Answered` and `CallsEnd`. Faults, restarts,
disconnects and, in Idempotency, expiry are never assumed to happen. `Informed` assumes that some worker is up in the end.

### The disagreements

Three runs state what a comment or the README says and TLC refutes it;
`PROJECT.json` quotes the lines. `payments_settled`: if the update that follows
a capture fails, the payment stays in `processing` and its key can never be used
again. A database error is the shortest way there; a client that leaves after
the capture is another, since the update uses the request's context (one that
leaves during the mock's sleep is not: the mock then captures nothing).
`idempotency_paths`: one key under two paths runs both handlers, and no failure
is needed. `breaker_blame`: five clients that leave while the mock sleeps open
the breaker for everyone. `main.go` wires mocks without latency, which never
look at the context, so this needs a latency to be configured.

Other consequences of the code that the models show, without runs of their own:

* a webhook that a merchant has acknowledged may end DEAD, when the mark after
  the 2xx is lost and later attempts fail; `DeadMeansNoSuccess` says that it
  takes a forgotten 2xx of that event, or a claim of it that was overtaken;
* a reclaimed webhook keeps its attempt_count, so it may be posted more often
  than the maximum;
* when two paths use one key together, the second response overwrites the first,
  and a retry of the first client is refused with 409: the exception in
  `Replayable`;
* a request whose `SET NX` took effect and was sent again by go-redis waits for
  its own lock, until it expires or the request is told that another one is in
  progress;
* a request that took the Redis lock leaves no lease, so if Redis fails for its
  duplicate both run; `OneStory` is what is left to hold then;
* with Redis down, a key whose completed row has expired is blocked: the row is
  no longer replayed, and cannot be leased;
* a request that lost its lease to one with an equal body completes the other's
  row, since the token is the hash of the body;
* a process that dies in a migration leaves the schema dirty, and no process
  starts again until somebody repairs it by hand (`ServesFullSchema` is the good
  side of this).

## 4. Proofs

Seven modules prove every safety property that a passing run checks, the action
properties and both refinements, for every value of the constants that the named
ASSUMEs allow. Those are what the code guarantees: creates and refunds are
different calls, amounts are integers, there is at least one attempt and probe,
workers and calls are finitely many, `MaxFails >= MaxAttempts`, a body says what
to create. In each module one invariant is shown to hold initially and to
survive every action, and the theorems follow from it. Where a property holds
only under a condition, the theorem states the condition; each of these is one
that a run meets.

*Payments.* The properties alone are not inductive: at `commit` nothing says
that the row is still what the transaction read. `Inv` adds that the place of a
create determines its row, its money and its transaction (`CreateInv`); that a
refund's checks still hold except that another refund may have overtaken it, and
that it has the row to itself once it has locked it (`RefundInv`); and that
holders of keys and rows exclude one another (`Exclusion`). There is one lemma
per action. From `Inv` follow `OutboxIsExact`, `ChargedOnce`, `MoneyIsRecorded`,
`RefundedOnce`, `CreateAnswersHold`, `RefundAnswersHold`, the action property
`LifecycleHolds`, and `LedgerImplemented`: only the insert, the move to
processing, a capture and the commits are steps of the ledger, and `Inv` supplies
their guards there (a fresh key, no capture before, a status that matches).

*Outbox.* `CountInv` is the heart: the attempts counted in a row plus the
failures that workers still hold unmarked never exceed the deliveries that
failed. It survives overlapping claims, because a mark counts at most once and
`seen` is never ahead of the row; hence `DeadIsEarned` without any assumption on
timing, and with it `DeliveryImplemented`. `OwnerIsAlone` holds of each event
whose claim never grew stale under its worker (`overdue`), next to others whose
claims do. Two more invariants are inductive on top of `Inv`. `AckInv`: an
acknowledged event whose 2xx was not forgotten and whose claim was not overtaken
is delivered or with the worker that knows (`DeadIsHonest`). `LateInv`: once a count is at the limit, each worker with an
older reading can raise it once more and no new one appears
(`OvershootIsBounded`; it needs a worker, as the bound counts all but one).

*Pipeline.* Its steps are steps of Outbox, so that `Inv` carries over
(`PipelineDelivers`); `PipelineInv` says that rows and recorded events are the
same and that no later step of the ledger takes back what an event says, which
is `MerchantIsToldTruth`.

*Idempotency.* `Inv` has seven layers, because the properties hold under
different conditions. In every mode: `TypeOK`, `ControlInv` (the place of a
request tells its lock and its answer), `FiledInv` (what is stored under a key
is about that key) and `TokenInv` (a response is filed under the hash of the
body it answers, even if a row was completed by another than its lease holder).
If TTLs outlive handlers, `HoldInv`: lock holders keep their locks, although
`Token` cannot tell duplicates apart and a release compares only tokens. If also
Redis does not come and go, `LockInv`: all requests use the same kind of lock.
With one store that does the whole work (`Reliable`), `OnceInv`: a response that
was given is still stored, a completed row is in Redis first unless Redis is down
(`RedisFirst`), and whoever has missed a response in its recheck holds the lock
under which it would have been stored. Its exception is a key that is `Spoiled`:
a request whose handler ran died or lost its client before it was answered, or
its response expired; waiters that leave spoil nothing. Theorems:
`CompletedIsFinal` (only `upsertPGCompleted` under the Redis lock replaces a
completed row, by the holder's own response) and
`RepliesAnswerTheBody` in every mode; `HoldersHold` and `RepliesMatch` without
overrun; `HandlersSerialized` if moreover Redis is not flaky; `HandlerRunsOnce`
and `ResponsesAreKept` if `Reliable`. The last one says that the response which
is kept is the client's own, which needs that nobody ran under the key on
another path: then all who ran are duplicates, and by `RunsOnce` they are one.

*Gateway.* The composition is a behaviour of the middleware
(`GatewayIsGuarded`), so its invariant carries over. It is not one of Payments,
where a crash takes all calls and clients leave only while a call is under way;
so the proof takes the step lemmas of `PaymentsProofs` and two more general ones
for the client that leaves and the process that dies. `Joined` ties the two: a
call has begun exactly when the handler ran, asks for what the body says, is
over before its response is stored, and answered `invalid` exactly if the body
is. With `TokenInv` a replay answers the same
body, so what Payments proves of an answer is true for whoever hears it; and
with `ChargedOnce` what it proves of one payment is true of all payments with
that body key (`Paid`). `ClientToldTruth` has a clause for each kind of answer,
an error included, which promises least: at most one capture, on record.
Hence `OneStoryIsTold`, `ClientsAreToldTruth` and `RefusedAreUntouched`, in every mode
and with locks that expire, for any number of requests.

*CircuitBreaker.* `TypeOK` and `ProbesAccounted` are inductive together; each
operation of gobreaker is first shown to keep them as a function on breakers.

*Server.* `SchemaInOrder` (who applies migrations has the advisory lock, a
migration under way is marked dirty, who has left `m.Up` left the full schema)
and `RequestsInOrder` (what is left when a drain ends has taken too long).

Only model-checked: liveness (`CallsEnd`, `Informed`, `Answered`, `Recovers`,
`Stops`), since the prover handles neither fairness nor ENABLED. The three
refuted statements are runs by nature.

## 5. Not modelled

Logging, metrics, tracing and test utilities observe or set up. Configuration,
decoding of JSON, identifiers, signatures and headers are data no property
speaks of. `getPayment`, `healthz` and `CountPending` only read. PSP refunds are
never called. The registry is reduced to whether a merchant has a URL. Delays
are not numbers: a backoff, a timeout or an expiry may come at any time.

## 6. Plan

*Done:* all modules above, with their runs, and the proofs of section 4.

1. *Refinement with fewer assumptions*: the ledger of `Pipeline` is the abstract
   one; that Payments may take its place there follows from `LedgerImplemented`
   by hand, and could be stated as a theorem of a composition.
2. *Router* against a reference definition over bounded rule lists.
