------------------------------ MODULE GroupFifo ------------------------------
(***************************************************************************)
(* What the group queue promises its users, without the sets, lists and    *)
(* scripts it is made of: a job arrives, is handed to one owner at a time, *)
(* may come back to be handed out again, and ends once. A group never has  *)
(* more running jobs than its limit by handing one out, and hands out its  *)
(* waiting jobs in score order. Several jobs may move in one step, since   *)
(* one script may take back, complete and hand out together.               *)
(***************************************************************************)
EXTENDS Integers, FiniteSets

CONSTANTS Jobs, Groups, Slots, None, GroupOf, Score

VARIABLES
  phase,  \* where the job is in its life
  owner,  \* the slot a running job was handed to
  cap     \* the limit of each group

vars == <<phase, owner, cap>>

Phases == {"none", "delayed", "waiting", "running", "done"}

Running(ph, g) == {j \in Jobs : GroupOf[j] = g /\ ph[j] = "running"}

Init ==
  /\ phase = [j \in Jobs |-> "none"]
  /\ owner = [j \in Jobs |-> None]
  /\ cap \in [Groups -> Nat]

\* The moves of one job. A job that is running may get a new owner in one step:
\* the same call takes it back and hands it out.
Move(j) ==
  \/ phase'[j] = phase[j] /\ owner'[j] = owner[j]
  \/ phase[j] = "none" /\ phase'[j] \in {"waiting", "delayed"} /\ owner'[j] = None
  \/ phase[j] = "delayed" /\ phase'[j] = "waiting" /\ owner'[j] = None
  \/ phase[j] \in {"waiting", "running"} /\ phase'[j] = "running"
     /\ owner'[j] \in Slots
  \/ phase[j] = "running" /\ phase'[j] \in {"waiting", "delayed", "done"}
     /\ owner'[j] = None

HandedOut(j) == owner'[j] # None /\ owner'[j] # owner[j]

Next ==
  /\ phase' \in [Jobs -> Phases]
  /\ owner' \in [Jobs -> Slots \cup {None}]
  /\ cap' \in [Groups -> Nat]
  /\ \A j \in Jobs : Move(j)
  /\ \A g \in Groups :
       Cardinality(Running(phase', g)) > Cardinality(Running(phase, g))
         => Cardinality(Running(phase', g)) <= cap[g]
  /\ \A j \in Jobs : HandedOut(j) =>
       \A i \in Jobs : GroupOf[i] = GroupOf[j] /\ Score[i] < Score[j]
         => phase'[i] # "waiting"

Spec == Init /\ [][Next]_vars
=============================================================================
