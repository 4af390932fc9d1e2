------------------------------ MODULE MCStaging ------------------------------
(* Instances of Staging for TLC: two promoters, each with one call under    *)
(* way at a time.                                                            *)
EXTENDS Staging

CONSTANTS p1, p2

MCCallerOf == [c \in Calls |-> c]
=============================================================================
