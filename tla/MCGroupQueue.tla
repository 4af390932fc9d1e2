---------------------------- MODULE MCGroupQueue ----------------------------
(* Instances of GroupQueue for TLC: jobs of a group A, with jobs of two    *)
(* other groups between them in score order.                               *)
EXTENDS GroupQueueFifo, TLC

CONSTANTS a1, a2, a3, b1, c1, A, B, C, w1, w2, w3

AllJobs == <<a1, b1, a2, c1, a3>>
MCGroupOf ==
  [j \in Jobs |-> IF j \in {a1, a2, a3} THEN A ELSE IF j = b1 THEN B ELSE C]
MCScore == [j \in Jobs |-> CHOOSE n \in 1..Len(AllJobs) : AllJobs[n] = j]

\* The slots differ in name only.
SlotSymmetry == Permutations(Slots)
=============================================================================
