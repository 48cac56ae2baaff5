------------------------------- MODULE Ledger -------------------------------
(***************************************************************************)
(* What the payment service promises about money, whoever calls it, fails  *)
(* or dies: a key names one payment, the money of a payment is captured at *)
(* most once and only while it is processing, and a payment is settled or  *)
(* refunded in one step with the event that tells the merchant.            *)
(*                                                                         *)
(* Nothing is promised about a payment that was left behind: it may stay   *)
(* processing, captured or not.                                            *)
(***************************************************************************)
EXTENDS Integers

CONSTANTS
    Payments,   \* payments that may be created
    Refunds,    \* refunds that may be made
    Keys,       \* the keys clients choose for payments
    NoKey       \* none of Keys: the payment does not exist

VARIABLES
    status,     \* of each payment
    key,        \* the key of each payment
    captures,   \* how often its money was captured
    events      \* the events for the merchant: [call, payment, type]

vars == <<status, key, captures, events>>

Event(c, p, type) == [call |-> c, payment |-> p, type |-> type]

Init ==
    /\ status = [p \in Payments |-> "absent"]
    /\ key = [p \in Payments |-> NoKey]
    /\ captures = [p \in Payments |-> 0]
    /\ events = {}

\* A payment is created under a key nobody owns.
Open(p, k) ==
    /\ status[p] = "absent"
    /\ \A q \in Payments : key[q] # k
    /\ status' = [status EXCEPT ![p] = "initiated"]
    /\ key' = [key EXCEPT ![p] = k]
    /\ UNCHANGED <<captures, events>>

Process(p) ==
    /\ status[p] = "initiated"
    /\ status' = [status EXCEPT ![p] = "processing"]
    /\ UNCHANGED <<key, captures, events>>

\* The PSP captures the money.
Capture(p) ==
    /\ status[p] = "processing"
    /\ captures[p] = 0
    /\ captures' = [captures EXCEPT ![p] = 1]
    /\ UNCHANGED <<status, key, events>>

\* The payment gets its final status, which tells the truth about the money,
\* and the event that says so.
Settle(p) ==
    LET final == IF captures[p] = 1 THEN "success" ELSE "failed"
    IN  /\ status[p] = "processing"
        /\ status' = [status EXCEPT ![p] = final]
        /\ events' = events \cup {Event(p, p, final)}
        /\ UNCHANGED <<key, captures>>

\* A successful payment is refunded, once.
Refund(p, r) ==
    /\ status[p] = "success"
    /\ \A e \in events : e.call # r
    /\ status' = [status EXCEPT ![p] = "refunded"]
    /\ events' = events \cup {Event(r, p, "refunded")}
    /\ UNCHANGED <<key, captures>>

Next ==
    \E p \in Payments :
        \/ \E k \in Keys : Open(p, k)
        \/ Process(p) \/ Capture(p) \/ Settle(p)
        \/ \E r \in Refunds : Refund(p, r)

Spec == Init /\ [][Next]_vars
=============================================================================
