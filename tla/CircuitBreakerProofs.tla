------------------------ MODULE CircuitBreakerProofs ------------------------
(***************************************************************************)
(* Theorems about CircuitBreaker, for any finite set of concurrent calls   *)
(* and any limits.                                                         *)
(*                                                                         *)
(* TypeOK and ProbesAccounted are inductive together.  The lemmas say it   *)
(* of one breaker value first: Sound is what ProbesAccounted says of a     *)
(* breaker without its calls, and each operation of gobreaker keeps it.    *)
(***************************************************************************)
EXTENDS CircuitBreaker, FiniteSetTheorems, TLAPS

Breakers ==
    [state : States, requests : 0..MaxRequests, successes : 0..(MaxRequests - 1),
     failures : 0..(TripAfter - 1), due : BOOLEAN, current : SUBSET Calls]

\* A breaker's own part of ProbesAccounted.
Sound(b) ==
    /\ b.state = "half-open" =>
          /\ b.requests = b.successes + Cardinality(b.current)
          /\ b.requests <= MaxRequests
    /\ b.state = "open" => b.current = {}

-----------------------------------------------------------------------------
(* The operations of gobreaker.                                            *)

\* A new generation is sound and has no charge of its own.
LEMMA FreshSound ==
    ASSUME NEW s \in States
    PROVE  Fresh(s) \in Breakers /\ Sound(Fresh(s)) /\ Fresh(s).current = {}
<1>1. Cardinality({}) = 0
  BY FS_EmptySet
<1>2. {} \in SUBSET Calls /\ FALSE \in BOOLEAN
  OBVIOUS
<1>3. Fresh(s) \in Breakers
  BY <1>2, LimitsAssumption DEF Fresh, Breakers, States
<1> QED
  BY <1>1, <1>3, LimitsAssumption DEF Fresh, Sound

\* So is the breaker that currentState leaves; it keeps its charges or drops
\* them all.
LEMMA CurrentStateSound ==
    ASSUME NEW b \in Breakers, Sound(b)
    PROVE  /\ CurrentState(b) \in Breakers /\ Sound(CurrentState(b))
           /\ CurrentState(b).current \subseteq b.current
<1>1. CASE b.due
  <2>1. (IF b.state = "open" THEN "half-open" ELSE "closed") \in States
    BY DEF States
  <2> QED
    BY <1>1, <2>1, FreshSound DEF CurrentState
<1>2. CASE ~b.due
  BY <1>2 DEF CurrentState
<1> QED
  BY <1>1, <1>2

\* A charge that is let through takes one slot.
LEMMA OnRequestSound ==
    ASSUME NEW b \in Breakers, Sound(b), NEW c \in Calls, c \notin b.current,
           Admits(b)
    PROVE  /\ OnRequest(b, c) \in Breakers /\ Sound(OnRequest(b, c))
           /\ OnRequest(b, c).current = b.current \cup {c}
<1>1. b.current \subseteq Calls
  BY DEF Breakers
<1>2. IsFiniteSet(b.current) /\ Cardinality(b.current) \in Nat
  BY <1>1, FiniteCalls, FS_Subset, FS_CardinalityType
<1>3. Cardinality(b.current \cup {c}) = Cardinality(b.current) + 1
  BY <1>2, FS_AddElement
<1>4. OnRequest(b, c) \in Breakers
  <2> DEFINE n == IF b.state = "half-open" THEN b.requests + 1 ELSE b.requests
  <2>1. n \in 0..MaxRequests
    BY LimitsAssumption DEF Admits, Breakers
  <2>2. OnRequest(b, c) = [b EXCEPT !.requests = n, !.current = @ \cup {c}]
    BY DEF OnRequest, Breakers
  <2> HIDE DEF n
  <2> QED
    BY <1>1, <2>1, <2>2 DEF Breakers
<1>5. /\ OnRequest(b, c).current = b.current \cup {c}
      /\ OnRequest(b, c).state = b.state
      /\ OnRequest(b, c).successes = b.successes
      /\ OnRequest(b, c).requests =
            IF b.state = "half-open" THEN b.requests + 1 ELSE b.requests
  BY DEF OnRequest, Breakers
<1>6. b.requests \in Nat /\ b.successes \in Nat
  BY LimitsAssumption DEF Breakers
<1>7. Sound(OnRequest(b, c))
  BY <1>2, <1>3, <1>5, <1>6, LimitsAssumption DEF Sound, Admits
<1> QED
  BY <1>4, <1>5, <1>7

\* A charge that is over gives its slot back to an answer, or the breaker
\* starts a new generation; in either case the charge is no longer counted.
LEMMA AfterRequestSound ==
    ASSUME NEW b \in Breakers, Sound(b), NEW c \in Calls, NEW ok \in BOOLEAN
    PROVE  /\ AfterRequest(b, c, ok) \in Breakers
           /\ Sound(AfterRequest(b, c, ok))
           /\ AfterRequest(b, c, ok).current \subseteq b.current \ {c}
<1> DEFINE s == CurrentState(b)
           d == [s EXCEPT !.current = @ \ {c}]
<1>1. s \in Breakers /\ Sound(s) /\ s.current \subseteq b.current
  BY CurrentStateSound
<1> HIDE DEF s
<1>2. CASE c \notin s.current
  BY <1>1, <1>2 DEF AfterRequest, s
<1>3. CASE c \in s.current
  <2>1. s.current \subseteq Calls
    BY <1>1 DEF Breakers
  <2>2. IsFiniteSet(s.current) /\ Cardinality(s.current) \in Nat
    BY <2>1, FiniteCalls, FS_Subset, FS_CardinalityType
  <2>3. Cardinality(s.current \ {c}) = Cardinality(s.current) - 1
    BY <1>3, <2>2, FS_RemoveElement
  <2>4. /\ d \in Breakers /\ d.current = s.current \ {c}
        /\ d.state = s.state /\ d.requests = s.requests
        /\ d.successes = s.successes /\ d.failures = s.failures
    BY <1>1, <2>1 DEF Breakers
  <2> HIDE DEF d
  <2>5. d.state # "open"
    BY <1>1, <1>3, <2>4 DEF Sound
  <2>6. d.state = "half-open" =>
           d.requests = d.successes + 1 + Cardinality(d.current)
    BY <1>1, <2>2, <2>3, <2>4, LimitsAssumption DEF Sound, Breakers
  <2>7. /\ OnSuccess(d) \in Breakers /\ Sound(OnSuccess(d))
        /\ OnSuccess(d).current \subseteq d.current
    <3>1. CASE d.state = "half-open" /\ d.successes + 1 >= MaxRequests
      BY <3>1, FreshSound DEF OnSuccess, States
    <3>2. CASE d.state = "half-open" /\ ~(d.successes + 1 >= MaxRequests)
      <4>1. OnSuccess(d) = [d EXCEPT !.successes = @ + 1]
        BY <3>2 DEF OnSuccess
      <4>2. /\ OnSuccess(d) \in Breakers
            /\ OnSuccess(d).current = d.current /\ OnSuccess(d).state = d.state
            /\ OnSuccess(d).requests = d.requests
            /\ OnSuccess(d).successes = d.successes + 1
        BY <4>1, <3>2, <2>4, LimitsAssumption DEF Breakers
      <4>3. d.requests <= MaxRequests
        BY <2>4, LimitsAssumption DEF Breakers
      <4> QED
        BY <4>2, <4>3, <3>2, <2>6 DEF Sound
    <3>3. CASE d.state # "half-open"
      <4>1. OnSuccess(d) = [d EXCEPT !.failures = 0]
        BY <3>3 DEF OnSuccess
      <4> QED
        BY <4>1, <3>3, <2>4, <2>5, LimitsAssumption DEF Sound, Breakers
    <3> QED
      BY <3>1, <3>2, <3>3
  <2>8. /\ OnFailure(d) \in Breakers /\ Sound(OnFailure(d))
        /\ OnFailure(d).current \subseteq d.current
    <3>1. CASE d.state = "half-open" \/ ReadyToTrip(d.failures + 1)
      BY <3>1, FreshSound DEF OnFailure, States
    <3>2. CASE ~(d.state = "half-open" \/ ReadyToTrip(d.failures + 1))
      <4>1. OnFailure(d) = [d EXCEPT !.failures = @ + 1]
        BY <3>2 DEF OnFailure
      <4> QED
        BY <4>1, <3>2, <2>4, <2>5, LimitsAssumption DEF Sound, Breakers, ReadyToTrip
    <3> QED
      BY <3>1, <3>2
  <2>9. AfterRequest(b, c, ok) = IF ok THEN OnSuccess(d) ELSE OnFailure(d)
    BY <1>3 DEF AfterRequest, d, s
  <2> QED
    BY <1>1, <2>4, <2>7, <2>8, <2>9
<1> QED
  BY <1>2, <1>3

-----------------------------------------------------------------------------
(* The retry loops.                                                        *)

IInv == TypeOK /\ ProbesAccounted

\* IInv, seen as a statement about the breaker and one about the loops.
LEMMA IInvParts ==
    IInv <=> /\ breaker \in Breakers /\ Sound(breaker)
             /\ \A c \in breaker.current : pc[c] = "calling"
             /\ pc \in [Calls -> {"idle", "attempt", "calling"}]
             /\ attempt \in [Calls -> 0..(MaxAttempts - 1)]
             /\ cancelled \subseteq Calls
             /\ calm \in BOOLEAN
             /\ pspError \in BOOLEAN
BY DEF IInv, TypeOK, ProbesAccounted, Breakers, Sound

\* Likewise for the next state.
LEMMA IInvNext ==
    /\ breaker' \in Breakers /\ Sound(breaker')
    /\ \A c \in breaker'.current : pc'[c] = "calling"
    /\ pc' \in [Calls -> {"idle", "attempt", "calling"}]
    /\ attempt' \in [Calls -> 0..(MaxAttempts - 1)]
    /\ cancelled' \subseteq Calls
    /\ calm' \in BOOLEAN
    /\ pspError' \in BOOLEAN
    => IInv'
BY DEF IInv, TypeOK, ProbesAccounted, Breakers, Sound

\* A loop that returns keeps its types.
LEMMA ReturnTypes ==
    ASSUME IInv, NEW c \in Calls, Return(c)
    PROVE  /\ pc' \in [Calls -> {"idle", "attempt", "calling"}]
           /\ attempt' \in [Calls -> 0..(MaxAttempts - 1)]
           /\ cancelled' \subseteq Calls
           /\ \A d \in Calls \ {c} : pc'[d] = pc[d]
BY IInvParts, LimitsAssumption DEF Return

LEMMA IInvReceive ==
    ASSUME IInv, NEW c \in Calls, Receive(c)
    PROVE  IInv'
BY IInvParts, IInvNext DEF Receive

LEMMA IInvStartAttempt ==
    ASSUME IInv, NEW c \in Calls, StartAttempt(c)
    PROVE  IInv'
<1> DEFINE b == CurrentState(breaker)
<1>1. b \in Breakers /\ Sound(b) /\ b.current \subseteq breaker.current
  BY IInvParts, CurrentStateSound
<1>2. pc[c] = "attempt" /\ UNCHANGED <<calm, pspError>>
  BY DEF StartAttempt
<1>3. c \notin breaker.current /\ c \notin b.current
  BY <1>1, <1>2, IInvParts
<1>4. breaker.current \subseteq Calls
  BY IInvParts DEF Breakers
<1> HIDE DEF b
<1>5. CASE Return(c) /\ breaker' \in {breaker, b}
  <2>1. breaker' \in Breakers /\ Sound(breaker')
    BY <1>1, <1>5, IInvParts
  <2>2. \A d \in breaker'.current : pc'[d] = "calling"
    BY <1>1, <1>3, <1>4, <1>5, ReturnTypes, IInvParts
  <2> QED
    BY <1>2, <1>5, <2>1, <2>2, ReturnTypes, IInvParts, IInvNext
<1>6. CASE /\ Admits(b) /\ breaker' = OnRequest(b, c)
           /\ pc' = [pc EXCEPT ![c] = "calling"]
           /\ UNCHANGED <<attempt, cancelled>>
  <2>1. /\ breaker' \in Breakers /\ Sound(breaker')
        /\ breaker'.current = b.current \cup {c}
    BY <1>1, <1>3, <1>6, OnRequestSound
  <2>2. \A d \in breaker'.current : pc'[d] = "calling"
    BY <1>1, <1>4, <1>6, <2>1, IInvParts
  <2>3. pc' \in [Calls -> {"idle", "attempt", "calling"}]
    BY <1>6, IInvParts
  <2> QED
    BY <1>2, <1>6, <2>1, <2>2, <2>3, IInvParts, IInvNext
<1> QED
  BY <1>5, <1>6 DEF StartAttempt, b

\* Whatever the breaker hears of a charge, it is sound, and the charge is no
\* longer among its own.
LEMMA ReportSound ==
    ASSUME IInv, NEW c \in Calls, NEW ok \in BOOLEAN, NEW isError \in BOOLEAN,
           Report(c, ok, isError)
    PROVE  /\ breaker' \in Breakers /\ Sound(breaker')
           /\ breaker'.current \subseteq breaker.current \ {c}
           /\ pspError' \in BOOLEAN
BY IInvParts, AfterRequestSound DEF Report

LEMMA IInvCharge ==
    ASSUME IInv, NEW c \in Calls, Charge(c)
    PROVE  IInv'
<1>1. PICK ok \in BOOLEAN, isError \in BOOLEAN : Report(c, ok, isError)
  BY DEF Charge, Respond, FailTransiently, FailForGood, Interrupted
<1>2. /\ breaker' \in Breakers /\ Sound(breaker')
      /\ breaker'.current \subseteq breaker.current \ {c}
      /\ pspError' \in BOOLEAN
  BY <1>1, ReportSound
<1>3. UNCHANGED calm
  BY DEF Charge, Respond, FailTransiently, FailForGood, Interrupted
<1>4. breaker.current \subseteq Calls
  BY IInvParts DEF Breakers
<1>5. /\ pc' \in [Calls -> {"idle", "attempt", "calling"}]
      /\ attempt' \in [Calls -> 0..(MaxAttempts - 1)]
      /\ cancelled' \subseteq Calls
      /\ \A d \in Calls \ {c} : pc'[d] = pc[d]
  <2>1. CASE Return(c)
    BY <2>1, ReturnTypes
  <2>2. CASE /\ attempt[c] + 1 < MaxAttempts
             /\ attempt' = [attempt EXCEPT ![c] = @ + 1]
             /\ pc' = [pc EXCEPT ![c] = "attempt"]
             /\ UNCHANGED cancelled
    BY <2>2, IInvParts, LimitsAssumption
  <2> QED
    BY <2>1, <2>2 DEF Charge, Respond, FailTransiently, FailForGood, Interrupted
<1>6. \A d \in breaker'.current : pc'[d] = "calling"
  BY <1>2, <1>4, <1>5, IInvParts
<1> QED
  BY <1>2, <1>3, <1>5, <1>6, IInvParts, IInvNext

LEMMA IInvRest ==
    ASSUME IInv, TimePasses \/ Turn \/ \E c \in Calls : Cancel(c)
    PROVE  IInv'
<1>1. CASE TimePasses
  <2>1. breaker' \in Breakers /\ Sound(breaker') /\ breaker'.current = breaker.current
    BY <1>1, IInvParts DEF TimePasses, Breakers, Sound
  <2> QED
    BY <1>1, <2>1, IInvParts, IInvNext DEF TimePasses
<1>2. CASE Turn
  BY <1>2, IInvParts, IInvNext DEF Turn
<1>3. CASE \E c \in Calls : Cancel(c)
  BY <1>3, IInvParts, IInvNext DEF Cancel
<1> QED
  BY <1>1, <1>2, <1>3

-----------------------------------------------------------------------------
LEMMA IInvInit == Init => IInv
<1> SUFFICES ASSUME Init
             PROVE  IInv
  OBVIOUS
<1>1. breaker \in Breakers /\ Sound(breaker) /\ breaker.current = {}
  BY FreshSound DEF Init, States
<1>2. cancelled \subseteq Calls /\ calm \in BOOLEAN /\ pspError \in BOOLEAN
  BY DEF Init
<1>3. attempt \in [Calls -> 0..(MaxAttempts - 1)]
  BY LimitsAssumption DEF Init
<1>4. pc \in [Calls -> {"idle", "attempt", "calling"}]
  BY DEF Init
<1>5. \A c \in breaker.current : pc[c] = "calling"
  BY <1>1
<1> QED
  BY <1>1, <1>2, <1>3, <1>4, <1>5, IInvParts

LEMMA IInvStep == IInv /\ [Next]_vars => IInv'
<1> SUFFICES ASSUME IInv, [Next]_vars
             PROVE  IInv'
  OBVIOUS
<1>1. CASE UNCHANGED vars
  BY <1>1, IInvParts, IInvNext DEF vars
<1>2. CASE Next
  BY <1>2, IInvReceive, IInvStartAttempt, IInvCharge, IInvRest DEF Next
<1> QED
  BY <1>1, <1>2

\* A closed breaker never counts as many failures as would open it, a half-open
\* one never lets more probes through than it may: the counters of gobreaker
\* stay within the settings of NewCircuitBreakerAdapter.
THEOREM TypesHold == Spec => []TypeOK
<1>1. IInv => TypeOK
  BY DEF IInv
<1> QED
  BY <1>1, IInvInit, IInvStep, PTL DEF Spec

\* Every probe of a half-open breaker has answered or is still with the PSP,
\* whichever calls race for the slots, leave, fail or answer late: no slot leaks
\* and no late answer takes one (CreatePayment of the circuit breaker adapter).
THEOREM ProbesHold == Spec => []ProbesAccounted
<1>1. IInv => ProbesAccounted
  BY DEF IInv
<1> QED
  BY <1>1, IInvInit, IInvStep, PTL DEF Spec
=============================================================================
