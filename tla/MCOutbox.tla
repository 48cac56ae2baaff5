------------------------------ MODULE MCOutbox ------------------------------
(* Small instances of Outbox.                                              *)
EXTENDS Outbox, TLC

CONSTANTS e1, e2, e3, w1, w2

\* The workers are alike.
MCSymmetry == Permutations(Workers)
=============================================================================
