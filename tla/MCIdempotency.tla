--------------------------- MODULE MCIdempotency ---------------------------
(* Small instances of Idempotency.                                         *)
EXTENDS Idempotency, TLC

CONSTANTS q1, q2, q3

\* One key, and requests that differ in nothing, in the path or in the body.
Charge == [key |-> "k", path |-> "/a", hash |-> "h1"]
OtherPath == [key |-> "k", path |-> "/b", hash |-> "h1"]
OtherBody == [key |-> "k", path |-> "/a", hash |-> "h2"]

MCInputs == {Charge, OtherPath, OtherBody}
MCPaths == {Charge, OtherPath}

Mode(r, p, o) == [redis |-> r, pg |-> p, overrun |-> o]

\* Redis works, whatever PostgreSQL does; PostgreSQL alone; a good day; anything,
\* the quiet modes included.
MCOneStore == {Mode("up", "flaky", FALSE), Mode("down", "up", FALSE)}
MCAllUp == {Mode("up", "up", FALSE)}
MCAnything == MCOneStore \cup {Mode("flaky", "flaky", TRUE)}

MCSymmetry == Permutations(Requests)
=============================================================================
