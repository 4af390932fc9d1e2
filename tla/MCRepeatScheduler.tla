-------------------------- MODULE MCRepeatScheduler --------------------------
(* Instances of RepeatScheduler for TLC: two definitions that were added   *)
(* with the same group and options, hence with one lookup key.             *)
EXTENDS RepeatScheduler, TLC

CONSTANTS d1, d2, n1, p1, p2

MCNameOf == [d \in Defs |-> n1]

\* The schedulers differ in name only.
SchedulerSymmetry == Permutations(Schedulers)
=============================================================================
