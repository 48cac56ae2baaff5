--------------------------- MODULE CircuitBreaker ---------------------------
(***************************************************************************)
(* The circuit breaker around one PSP, the retry loops that call it and    *)
(* the mock behind it.                                                     *)
(*                                                                         *)
(* Each call is the retry loop of one CreatePayment that was routed to the *)
(* PSP; they all share its breaker.  The breaker itself is the library     *)
(* gobreaker (external), with the settings NewCircuitBreakerAdapter gives  *)
(* it.  It is entered twice per attempt, before and after the charge, and  *)
(* the charges of several calls are under way at once.                     *)
(*                                                                         *)
(* gobreaker numbers its generations: a result counts only if the          *)
(* generation is still the one its charge started in.  Here the breaker    *)
(* keeps the charges of its generation as a set instead.                   *)
(***************************************************************************)
EXTENDS Integers, FiniteSets

CONSTANTS
    Calls,          \* retry loops that may run at once
    MaxRequests,    \* probes a half-open breaker lets through (3)
    TripAfter,      \* consecutive failures that open it (5)
    MaxAttempts     \* charges tried for a payment (3)

ASSUME LimitsAssumption ==
    /\ MaxRequests \in Nat \ {0}
    /\ TripAfter \in Nat \ {0}
    /\ MaxAttempts \in Nat \ {0}

ASSUME FiniteCalls == IsFiniteSet(Calls)

VARIABLES
    pc,         \* where each retry loop is
    attempt,    \* its failed attempts
    cancelled,  \* the calls whose client has gone away
    breaker,    \* the breaker of the PSP
    calm,       \* the PSP fails no charge and no client leaves
    pspError    \* history: a *psp.Error may be among the failures counted

vars == <<pc, attempt, cancelled, breaker, calm, pspError>>

-----------------------------------------------------------------------------
(* gobreaker.                                                              *)

\* A new generation.  requests and successes are read in half-open only and
\* are counted only there; due says that the generation's time is up: the
\* interval of a closed breaker, the timeout of an open one.
Fresh(s) ==
    [state |-> s, requests |-> 0, successes |-> 0, failures |-> 0,
     due |-> FALSE, current |-> {}]

\* currentState: time is looked at only when a call enters the breaker.
CurrentState(b) ==
    IF b.due
      THEN Fresh(IF b.state = "open" THEN "half-open" ELSE "closed")
      ELSE b

\* beforeRequest: ErrOpenState, ErrTooManyRequests, or the call goes ahead.
Admits(b) ==
    /\ b.state # "open"
    /\ b.state = "half-open" => b.requests < MaxRequests

OnRequest(b, c) ==
    [b EXCEPT !.requests = IF b.state = "half-open" THEN @ + 1 ELSE @,
              !.current = @ \cup {c}]

OnSuccess(b) ==
    IF b.state = "half-open"
      THEN IF b.successes + 1 >= MaxRequests
             THEN Fresh("closed")
             ELSE [b EXCEPT !.successes = @ + 1]
      ELSE [b EXCEPT !.failures = 0]

\* Mutant of ReadyToTrip: one failure too late.
ReadyToTripLate(failures) == failures > TripAfter

\* ReadyToTrip, from the adapter's settings.
ReadyToTrip(failures) == failures >= TripAfter

OnFailure(b) ==
    IF b.state = "half-open" \/ ReadyToTrip(b.failures + 1)
      THEN Fresh("open")
      ELSE [b EXCEPT !.failures = @ + 1]

\* afterRequest: a charge of an earlier generation changes nothing.
AfterRequest(b, c, ok) ==
    LET s == CurrentState(b)
        d == [s EXCEPT !.current = @ \ {c}]
    IN  IF c \notin s.current THEN s
        ELSE IF ok THEN OnSuccess(d) ELSE OnFailure(d)

-----------------------------------------------------------------------------
Init ==
    /\ pc = [c \in Calls |-> "idle"]
    /\ attempt = [c \in Calls |-> 0]
    /\ cancelled = {}
    /\ breaker = Fresh("closed")
    /\ calm = FALSE
    /\ pspError = FALSE

\* A create has been routed to the PSP: DoWithObserver.
Receive(c) ==
    /\ pc[c] = "idle"
    /\ pc' = [pc EXCEPT ![c] = "attempt"]
    /\ UNCHANGED <<attempt, cancelled, breaker, calm, pspError>>

\* The loop returns, and another create may take the call's place.
Return(c) ==
    /\ pc' = [pc EXCEPT ![c] = "idle"]
    /\ attempt' = [attempt EXCEPT ![c] = 0]
    /\ cancelled' = cancelled \ {c}

\* The head of the loop.  What the breaker answers instead of the PSP is not
\* retryable: it ends the loop.
StartAttempt(c) ==
    LET b == CurrentState(breaker)
    IN  /\ pc[c] = "attempt"
        /\ \/ /\ c \in cancelled
              /\ Return(c)
              /\ UNCHANGED breaker
           \/ /\ c \notin cancelled
              /\ Admits(b)
              /\ breaker' = OnRequest(b, c)
              /\ pc' = [pc EXCEPT ![c] = "calling"]
              /\ UNCHANGED <<attempt, cancelled>>
           \/ /\ c \notin cancelled
              /\ ~Admits(b)
              /\ breaker' = b
              /\ Return(c)
        /\ UNCHANGED <<calm, pspError>>

\* Mutant of Report: a charge whose client has left is not reported.
ReportUnlessGone(c, ok, isError) ==
    /\ pc[c] = "calling"
    /\ breaker' = IF ok \/ isError THEN AfterRequest(breaker, c, ok) ELSE breaker
    /\ pspError' = (pspError \/ isError)

\* The charge is over: the breaker hears of it before the loop does.  isError
\* tells a *psp.Error from the error of a context.
Report(c, ok, isError) ==
    /\ pc[c] = "calling"
    /\ breaker' = AfterRequest(breaker, c, ok)
    /\ pspError' = \/ isError
                   \/ pspError /\ breaker'.state # "closed"
                   \/ pspError /\ breaker'.failures # 0

\* The PSP captures the money or declines: to the breaker and to the loop both
\* are answers.
Respond(c) ==
    /\ Report(c, TRUE, FALSE)
    /\ Return(c)
    /\ UNCHANGED calm

\* A transient failure of the PSP (a retryable *Error): another attempt, unless
\* this was the last.
FailTransiently(c) ==
    /\ ~calm
    /\ Report(c, FALSE, TRUE)
    /\ \/ /\ attempt[c] + 1 < MaxAttempts
          /\ attempt' = [attempt EXCEPT ![c] = @ + 1]
          /\ pc' = [pc EXCEPT ![c] = "attempt"]
          /\ UNCHANGED cancelled
       \/ /\ attempt[c] + 1 = MaxAttempts
          /\ Return(c)
    /\ UNCHANGED calm

\* An *Error that is not retryable: insufficient funds.
FailForGood(c) ==
    /\ ~calm
    /\ Report(c, FALSE, TRUE)
    /\ Return(c)
    /\ UNCHANGED calm

\* sleepStripeMock: the client has left while the mock was sleeping, and the
\* mock returns the context's error.
Interrupted(c) ==
    /\ c \in cancelled
    /\ Report(c, FALSE, FALSE)
    /\ Return(c)
    /\ UNCHANGED calm

-----------------------------------------------------------------------------
\* Interval after a closed breaker's generation began, or Timeout after the
\* breaker opened.  A half-open breaker has no clock.
TimePasses ==
    /\ breaker.state # "half-open"
    /\ ~breaker.due
    /\ breaker' = [breaker EXCEPT !.due = TRUE]
    /\ UNCHANGED <<pc, attempt, cancelled, calm, pspError>>

\* The client disconnects.
Cancel(c) ==
    /\ ~calm
    /\ pc[c] # "idle"
    /\ c \notin cancelled
    /\ cancelled' = cancelled \cup {c}
    /\ UNCHANGED <<pc, attempt, breaker, calm, pspError>>

\* The PSP and the clients calm down, or become unruly again.
Turn ==
    /\ calm' = ~calm
    /\ UNCHANGED <<pc, attempt, cancelled, breaker, pspError>>

Charge(c) ==
    \/ Respond(c) \/ FailTransiently(c) \/ FailForGood(c) \/ Interrupted(c)

Next ==
    \/ \E c \in Calls : Receive(c) \/ StartAttempt(c) \/ Charge(c) \/ Cancel(c)
    \/ TimePasses
    \/ Turn

Spec == Init /\ [][Next]_vars

\* Time passes, a loop runs on, and the mock, whose latency is bounded, answers.
\* Nothing is assumed of the clients: neither that they come nor that they stay.
Fairness ==
    /\ WF_vars(TimePasses)
    /\ \A c \in Calls : WF_vars(StartAttempt(c) \/ Charge(c))

FairSpec == Spec /\ Fairness

-----------------------------------------------------------------------------
(* Properties.                                                             *)

States == {"closed", "half-open", "open"}

\* Every variable has its type: a closed breaker has seen fewer failures in a
\* row than would open it.
TypeOK ==
    /\ pc \in [Calls -> {"idle", "attempt", "calling"}]
    /\ attempt \in [Calls -> 0..(MaxAttempts - 1)]
    /\ cancelled \subseteq Calls
    /\ breaker \in [state : States, requests : 0..MaxRequests,
                    successes : 0..(MaxRequests - 1), failures : 0..(TripAfter - 1),
                    due : BOOLEAN, current : SUBSET Calls]
    /\ calm \in BOOLEAN
    /\ pspError \in BOOLEAN

\* "After 30 seconds, the circuit breaker permits up to three probe requests"
\* (README): of the probes a half-open breaker has let through, each has
\* answered or is still with the PSP, and they are never more than MaxRequests.
\* So a slot never leaks, whoever leaves or fails, and a late answer to a charge
\* that started before the breaker opened never takes the place of a probe.
ProbesAccounted ==
    /\ breaker.state = "half-open" =>
          /\ breaker.requests = breaker.successes + Cardinality(breaker.current)
          /\ breaker.requests <= MaxRequests
    /\ breaker.state = "open" => breaker.current = {}
    /\ \A c \in breaker.current : pc[c] = "calling"

\* The breaker cannot stay open for ever: once the PSP fails no more charges
\* and clients stay, it closes for good, as long as payments keep coming.
Recovers ==
    <>[]calm /\ (\E c \in Calls : []<>(pc[c] = "attempt"))
        => <>[](breaker.state = "closed")

\* "Use errors.As with *Error to classify errors in retry and circuit breaker
\* logic" (adapter.go): the breaker opens for errors of the PSP.  The code does
\* not classify: every error counts, that of a client who has left included.
OpensForPSPErrors == breaker.state = "open" => pspError
=============================================================================
