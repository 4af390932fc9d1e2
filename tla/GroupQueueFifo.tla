--------------------------- MODULE GroupQueueFifo ---------------------------
(* How GroupQueue implements GroupFifo: a job with a recorded outcome is   *)
(* done, a locked one runs for the slot whose token is stored.             *)
EXTENDS GroupQueue

Phase(j) ==
  IF outcome[j] # None THEN "done"
  ELSE IF lock[j] # None THEN "running"
  ELSE status[j]

Fifo == INSTANCE GroupFifo WITH
  phase <- [j \in Jobs |-> Phase(j)],
  owner <- [j \in Jobs |-> IF Phase(j) = "running" THEN lock[j] ELSE None],
  cap   <- limit

\* Every step of the scripts, workers, crashes and recoveries is a step of the
\* abstract queue or leaves it alone: no job is handed to two owners, comes back
\* after it ended, overtakes its group or lifts it above its limit.
ImplementsFifo == Fifo!Spec
=============================================================================
