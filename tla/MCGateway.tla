----------------------------- MODULE MCGateway -----------------------------
(* A small instance of Gateway.                                            *)
EXTENDS Gateway, TLC

CONSTANTS q1, q2, k1, k2

MCRules == << [currencies |-> {"USD"}, min |-> 0, max |-> 0, psp |-> "stripe"] >>

\* Three bodies: for one payment, for another, and one with the key of the first
\* that is invalid.
MCBody == [h \in {"b1", "b2", "b3"} |->
             [key |-> IF h = "b2" THEN k2 ELSE k1,
              amount |-> IF h = "b3" THEN 0 ELSE 1, currency |-> "USD"]]

\* A create, the same one under another header key, and the others under the same.
MCInputs ==
    {[key |-> "h1", path |-> "/v1/payments", hash |-> "b1"],
     [key |-> "h2", path |-> "/v1/payments", hash |-> "b1"],
     [key |-> "h1", path |-> "/v1/payments", hash |-> "b2"],
     [key |-> "h1", path |-> "/v1/payments", hash |-> "b3"]}

\* Redis or PostgreSQL keeps the duplicates apart, or fails to: locks and leases
\* may expire while their holder is still paying.
MCModes == {[redis |-> m, pg |-> "up", overrun |-> TRUE] : m \in {"up", "down"}}

MCSymmetry == Permutations(Requests)
=============================================================================
