------------------------------ MODULE MCJobId ------------------------------
(* Instances of JobId for TLC: two ids and the jobs that bear them. *)
EXTENDS JobId

CONSTANTS i1, i2, s1, s2
=============================================================================
