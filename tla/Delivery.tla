------------------------------ MODULE Delivery ------------------------------
(***************************************************************************)
(* What the outbox and its workers promise about an event, however many    *)
(* workers there are and whichever die: once submitted it is pending until *)
(* it is delivered, for which the merchant must have acknowledged it, or   *)
(* given up, for which it must have no address or MaxAttempts failed       *)
(* deliveries.  Both are final.                                            *)
(*                                                                         *)
(* Delivery is at least once: a merchant may be asked again, and may       *)
(* answer, at any time after the event was submitted.                      *)
(***************************************************************************)
EXTENDS Integers

CONSTANTS
    Events,         \* events that may be submitted
    NoURL,          \* those without an address
    MaxAttempts,    \* failed deliveries before an event is given up
    MaxFails        \* bound: failed deliveries that are counted

VARIABLES
    state,  \* of each event
    acked,  \* the events acknowledged by their merchant
    fails   \* the failed deliveries of each event

vars == <<state, acked, fails>>

Init ==
    /\ state = [e \in Events |-> "absent"]
    /\ acked = {}
    /\ fails = [e \in Events |-> 0]

Submit(e) ==
    /\ state[e] = "absent"
    /\ state' = [state EXCEPT ![e] = "pending"]
    /\ UNCHANGED <<acked, fails>>

\* A delivery: the merchant acknowledges it, or it fails.
Ack(e) ==
    /\ state[e] # "absent" /\ e \notin NoURL
    /\ acked' = acked \cup {e}
    /\ UNCHANGED <<state, fails>>

Fail(e) ==
    /\ state[e] # "absent" /\ e \notin NoURL
    /\ fails[e] < MaxFails
    /\ fails' = [fails EXCEPT ![e] = @ + 1]
    /\ UNCHANGED <<state, acked>>

\* The two ends.
Deliver(e) ==
    /\ state[e] = "pending"
    /\ e \in acked
    /\ state' = [state EXCEPT ![e] = "delivered"]
    /\ UNCHANGED <<acked, fails>>

GiveUp(e) ==
    /\ state[e] = "pending"
    /\ e \in NoURL \/ fails[e] >= MaxAttempts
    /\ state' = [state EXCEPT ![e] = "dead"]
    /\ UNCHANGED <<acked, fails>>

Next ==
    \E e \in Events : Submit(e) \/ Ack(e) \/ Fail(e) \/ Deliver(e) \/ GiveUp(e)

Spec == Init /\ [][Next]_vars
=============================================================================
