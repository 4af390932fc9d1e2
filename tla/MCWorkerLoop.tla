---------------------------- MODULE MCWorkerLoop ----------------------------
(* Instances of WorkerLoop for TLC: two jobs of a group A, one of a group B. *)
EXTENDS WorkerLoop

CONSTANTS A, B

MCGroupOf == [j \in Jobs |-> IF j = 3 THEN B ELSE A]
=============================================================================
