----------------------------- MODULE MCDispatch -----------------------------
(* Instances of Dispatch for TLC: three groups of one job, and a fourth job  *)
(* that is the second of the first group.                                    *)
EXTENDS Dispatch

CONSTANTS A, B, C, w1, s1

MCGroupOf  == [j \in Jobs |-> IF j = 2 THEN B ELSE IF j = 3 THEN C ELSE A]
MCPriority == [g \in Groups |-> IF g = B THEN 2 ELSE 1]
=============================================================================
