------------------------------ MODULE MCServer ------------------------------
(* A small instance of Server.                                             *)
EXTENDS Server

CONSTANTS s1, s2, q1, q2
=============================================================================
