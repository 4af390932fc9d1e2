---------------------------- MODULE MCQueueClient ----------------------------
(* Instances of QueueClient for TLC. *)
EXTENDS QueueClient

CONSTANTS w, x

\* One call waits for the first job, one for the second.
MCWaitFor == [u \in Waiters |-> IF u = x THEN 2 ELSE 1]
=============================================================================
