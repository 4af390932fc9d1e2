-------------------------------- MODULE Flow --------------------------------
(***************************************************************************)
(* Parent-child flows. enqueue-flow.lua stores a parent that waits for its *)
(* children with the number of children left in a field of its hash; every *)
(* script that ends a child decrements that field, and the one that        *)
(* brings it to zero puts the parent into its group. One action per        *)
(* script; worker slots make the calls of a job one by one.                *)
(*                                                                         *)
(* Left out: groups, order, limits and index sets (GroupQueue): a waiting  *)
(* job is handed to any slot. A completion that chains is a completion and *)
(* a reservation. Attempts are counted when a call settles them. Retention *)
(* keeps all jobs of a kind or none. A flow is added once and its ids are  *)
(* its own.                                                                *)
(***************************************************************************)
EXTENDS Integers, FiniteSets

CONSTANTS
  Parents, Children,
  ParentOf,       \* [Children -> Parents]
  Slots,          \* slots of workers; also the tokens of their reservations
  None,           \* no slot, no job
  MaxAttempts,    \* maxAttempts of every job
  MaxStalled,     \* maxStalledCount, 0 for no limit
  KeepCompleted,  \* keepCompleted > 0
  KeepFailed,     \* keepFailed > 0
  Delayable,      \* bound: children that may be added with a delay
  Stallable,      \* bound: jobs whose slots may die or miss the deadline
  Removable,      \* bound: jobs that may be removed or cleaned
  RemoveResolved  \* bound: children may be removed while counted (see Counted)

Jobs == Parents \cup Children

ASSUME FlowAssumption ==
  /\ Parents \cap Children = {} /\ IsFiniteSet(Children)
  /\ ParentOf \in [Children -> Parents]
  /\ None \notin Slots \cup Jobs
  /\ MaxAttempts \in Nat \ {0} /\ MaxStalled \in Nat
  /\ {KeepCompleted, KeepFailed, RemoveResolved} \subseteq BOOLEAN
  /\ Delayable \subseteq Children /\ Stallable \subseteq Jobs /\ Removable \subseteq Jobs

VARIABLES
  status,    \* hash field status; "none": there is no hash
  attempts,  \* hash field attempts (it stays when the hash is deleted: not read again)
  stalled,   \* hash field stalledCount (the same)
  remaining, \* hash field flowRemaining, 0 when absent
  kids,      \* flow:children:{parent}
  result,    \* flow:results:{parent}, the field of a child
  owner,     \* token of processing:{job}
  hold,      \* the job a slot works on
  stage,     \* how far the slot is with it
  added      \* history: flows that were added

hashes == <<status, attempts, stalled>>
flows  == <<remaining, kids, result>>
slots  == <<hold, stage>>
vars   == <<hashes, flows, owner, slots, added>>

Live     == {"waiting", "delayed", "processing"}
Statuses == Live \cup {"none", "waiting-children", "completed", "failed"}

ChildrenOf(p) == {c \in Children : ParentOf[c] = p}

\* Children on the list of p whose result is not stored.
Unresolved(p) == {c \in kids[p] : result[c] = "none"}

Init ==
  /\ status = [j \in Jobs |-> "none"]
  /\ attempts = [j \in Jobs |-> 0] /\ stalled = [j \in Jobs |-> 0]
  /\ remaining = [p \in Parents |-> 0]
  /\ kids = [p \in Parents |-> {}]
  /\ result = [c \in Children |-> "none"]
  /\ owner = [j \in Jobs |-> None]
  /\ hold = [s \in Slots |-> None] /\ stage = [s \in Slots |-> "idle"]
  /\ added = {}

-----------------------------------------------------------------------------
(* The update of the parent, shared by the scripts that end a child. *)

\* Statuses after the counter of p has become n.
ReleaseAtZero(st, p, n) ==
  IF n <= 0 /\ st[p] = "waiting-children" THEN [st EXCEPT ![p] = "waiting"] ELSE st

\* Mutant: the parent is released one child early.
ReleaseAtOne(st, p, n) ==
  IF n <= 1 /\ st[p] = "waiting-children" THEN [st EXCEPT ![p] = "waiting"] ELSE st
Release(st, p, n) == ReleaseAtZero(st, p, n)

CountDown(p) == remaining' = [remaining EXCEPT ![p] = @ - 1]

\* Mutant: the result is not stored ("CRITICAL: was missing!").
ResolveUnstored(c, r, st) ==
  LET p == ParentOf[c] IN
  /\ CountDown(p)
  /\ status' = Release([status EXCEPT ![c] = st], p, remaining[p] - 1)
  /\ UNCHANGED <<kids, result>>

\* A child that ends with outcome r and status st: its result is stored first.
ResolveChild(c, r, st) ==
  LET p == ParentOf[c] IN
  /\ result' = [result EXCEPT ![c] = r]
  /\ CountDown(p)
  /\ status' = Release([status EXCEPT ![c] = st], p, remaining[p] - 1)
  /\ UNCHANGED kids

\* A parent that ends; without retention its hash goes, counter included.
EndParent(p, st) ==
  /\ status' = [status EXCEPT ![p] = st]
  /\ remaining' = IF st = "none" THEN [remaining EXCEPT ![p] = 0] ELSE remaining
  /\ UNCHANGED kids

DropResults(p) == [c \in Children |-> IF ParentOf[c] = p THEN "none" ELSE result[c]]

-----------------------------------------------------------------------------
(* enqueue-flow.lua, promotion and reservation. *)

AddFlow(p) ==
  /\ p \notin added
  /\ added' = added \cup {p}
  /\ \E D \in SUBSET (ChildrenOf(p) \cap Delayable) :
       status' = [j \in Jobs |-> CASE j = p -> "waiting-children"
                                   [] j \in D -> "delayed"
                                   [] j \in ChildrenOf(p) \ D -> "waiting"
                                   [] OTHER -> status[j]]
  /\ remaining' = [remaining EXCEPT ![p] = Cardinality(ChildrenOf(p))]
  /\ kids' = [kids EXCEPT ![p] = ChildrenOf(p)]
  /\ UNCHANGED <<attempts, stalled, result, owner, slots>>

Promote(j) ==
  /\ status[j] = "delayed"
  /\ status' = [status EXCEPT ![j] = "waiting"]
  /\ UNCHANGED <<attempts, stalled, flows, owner, slots, added>>

Reserve(s, j) ==
  /\ hold[s] = None /\ status[j] = "waiting"
  /\ status' = [status EXCEPT ![j] = "processing"]
  /\ owner' = [owner EXCEPT ![j] = s]
  /\ hold' = [hold EXCEPT ![s] = j] /\ stage' = [stage EXCEPT ![s] = "work"]
  /\ UNCHANGED <<attempts, stalled, flows, added>>

-----------------------------------------------------------------------------
(* The calls of a slot. *)

Idle(s) == hold' = [hold EXCEPT ![s] = None] /\ stage' = [stage EXCEPT ![s] = "idle"]

Unlock(j) == owner' = [owner EXCEPT ![j] = None]

\* The slot still owns its job; the scripts check the token.
Owns(s) == hold[s] # None /\ owner[hold[s]] = s

\* complete-with-metadata.lua, and the first part of the one that chains.
CompleteJob(s) ==
  /\ stage[s] = "work" /\ Owns(s) /\ status[hold[s]] = "processing"
  /\ LET j == hold[s]
         st == IF KeepCompleted THEN "completed" ELSE "none"
     IN /\ IF j \in Children
             THEN ResolveChild(j, "completed", st)
             ELSE /\ EndParent(j, st)
                  /\ result' = IF KeepCompleted THEN result ELSE DropResults(j)
        /\ Unlock(j)
  /\ Idle(s)
  /\ UNCHANGED <<attempts, stalled, added>>

\* retry.lua, with or without a backoff.
Retry(s) ==
  /\ stage[s] = "work" /\ Owns(s) /\ attempts[hold[s]] + 1 < MaxAttempts
  /\ attempts' = [attempts EXCEPT ![hold[s]] = @ + 1]
  /\ \E st \in {"waiting", "delayed"} : status' = [status EXCEPT ![hold[s]] = st]
  /\ Unlock(hold[s]) /\ Idle(s)
  /\ UNCHANGED <<stalled, flows, added>>

\* record-job-result.lua, the first call for a final failure: the last attempt, or
\* an UnrecoverableError at any.
RecordFinalFailure(s) ==
  /\ stage[s] = "work" /\ Owns(s)
  /\ status[hold[s]] \notin {"none", "waiting"}
  /\ LET j == hold[s]
         st == IF KeepFailed THEN "failed" ELSE "none"
     IN IF j \in Children THEN ResolveChild(j, "failed", st)
                          ELSE EndParent(j, st) /\ UNCHANGED result
  /\ stage' = [stage EXCEPT ![s] = "bury"]
  /\ UNCHANGED <<attempts, stalled, owner, hold, added>>

\* The error of that call is caught and logged, and the worker goes on.
RecordLost(s) ==
  /\ stage[s] = "work"
  /\ stage' = [stage EXCEPT ![s] = "bury"]
  /\ UNCHANGED <<hashes, flows, owner, hold, added>>

\* dead-letter.lua, the second: "Flow logic removed to avoid double-decrementing"
DeadLetter(s) ==
  /\ stage[s] = "bury" /\ Owns(s)
  /\ Unlock(hold[s]) /\ Idle(s)
  /\ UNCHANGED <<hashes, flows, added>>

\* The calls of a slot whose token is gone are refused.
LockLost(s) ==
  /\ hold[s] # None /\ ~Owns(s)
  /\ Idle(s)
  /\ UNCHANGED <<hashes, flows, owner, added>>

Crash(s) ==
  /\ hold[s] \in Stallable
  /\ Idle(s)
  /\ UNCHANGED <<hashes, flows, owner, added>>

-----------------------------------------------------------------------------
(* Recoveries: the deadline of the job is past. *)

\* check-stalled.lua; the failing branch does not touch the parent.
CheckStalled(j) ==
  /\ j \in Stallable /\ owner[j] # None /\ status[j] = "processing"
  /\ stalled' = [stalled EXCEPT ![j] = @ + 1]
  /\ attempts' = [attempts EXCEPT ![j] = @ + 1]
  /\ LET fails == \/ MaxStalled > 0 /\ stalled[j] + 1 >= MaxStalled
                  \/ attempts[j] + 1 > MaxAttempts
     IN status' = [status EXCEPT ![j] = IF fails THEN "failed" ELSE "waiting"]
  /\ Unlock(j)
  /\ UNCHANGED <<flows, slots, added>>

\* The sweep of the reserve scripts, and cleanup.lua: any job that has a score.
Sweep(j) ==
  /\ j \in Stallable /\ owner[j] # None /\ status[j] # "none"
  /\ status' = [status EXCEPT ![j] = "waiting"]
  /\ Unlock(j)
  /\ UNCHANGED <<attempts, stalled, flows, slots, added>>

-----------------------------------------------------------------------------
(* remove.lua and clean-status.lua delete a job and count it as resolved. *)

\* Children whose result is stored and whose parent still waits for others.
Counted ==
  {c \in Children : result[c] # "none" /\ status[ParentOf[c]] = "waiting-children"}

\* Only a child on the list is counted: "avoids double-decrement".
OnList(c) == c \in kids[ParentOf[c]]

\* Mutant: the list keeps the deleted child.
KeepsListed(p, c) == UNCHANGED kids
Delist(p, c) == kids' = [kids EXCEPT ![p] = @ \ {c}]

DeleteChild(c) ==
  LET p  == ParentOf[c]
      st == [status EXCEPT ![c] = "none"]
  IN IF OnList(c)
       THEN /\ Delist(p, c)
            /\ result' = [result EXCEPT ![c] = "none"]
            /\ CountDown(p)
            /\ status' = Release(st, p, remaining[p] - 1)
       ELSE status' = st /\ UNCHANGED flows

DeleteParent(p) ==
  /\ status' = [status EXCEPT ![p] = "none"]
  /\ remaining' = [remaining EXCEPT ![p] = 0]
  /\ kids' = [kids EXCEPT ![p] = {}]
  /\ result' = DropResults(p)

Delete(j) ==
  /\ j \in Removable /\ (RemoveResolved \/ j \notin Counted)
  /\ IF j \in Children THEN DeleteChild(j) ELSE DeleteParent(j)
  /\ UNCHANGED <<attempts, stalled, slots, added>>

\* (A hash that a late decrement left without a status is not removed.)
Remove(j) == status[j] # "none" /\ Delete(j) /\ Unlock(j)

\* (By the index sets; a failed job that a sweep took back stays in one: left out.)
Clean(j) ==
  /\ status[j] \in {"completed", "failed", "delayed"}
  /\ Delete(j)
  /\ UNCHANGED owner

-----------------------------------------------------------------------------
Next ==
  \/ \E p \in Parents : AddFlow(p)
  \/ \E s \in Slots, j \in Jobs : Reserve(s, j)
  \/ \E s \in Slots : \/ CompleteJob(s) \/ Retry(s) \/ RecordFinalFailure(s)
                      \/ RecordLost(s) \/ DeadLetter(s) \/ LockLost(s) \/ Crash(s)
  \/ \E j \in Jobs : \/ Promote(j) \/ CheckStalled(j) \/ Sweep(j)
                     \/ Remove(j) \/ Clean(j)

Spec == Init /\ [][Next]_vars

-----------------------------------------------------------------------------
(* Properties. *)

\* Every variable holds what its key can hold.
TypeOK ==
  /\ status \in [Jobs -> Statuses]
  /\ attempts \in [Jobs -> Nat] /\ stalled \in [Jobs -> Nat]
  /\ remaining \in [Parents -> Int]
  /\ kids \in [Parents -> SUBSET Children]
  /\ \A p \in Parents : kids[p] \subseteq ChildrenOf(p)
  /\ result \in [Children -> {"none", "completed", "failed"}]
  /\ owner \in [Jobs -> Slots \cup {None}]
  /\ hold \in [Slots -> Jobs \cup {None}]
  /\ stage \in [Slots -> {"idle", "work", "bury"}]
  /\ \A s \in Slots : hold[s] = None <=> stage[s] = "idle"
  /\ added \subseteq Parents

\* While a parent waits, the counter in its hash is the number of children on its
\* list without a stored result, whatever fails, stalls or is removed meanwhile,
\* and it is not zero: the call that brings it to zero releases the parent.
CounterExact ==
  \A p \in Parents :
    status[p] = "waiting-children" /\ ChildrenOf(p) # {}
      => remaining[p] = Cardinality(Unresolved(p)) /\ remaining[p] > 0

\* "The parent job will only be processed after all child jobs have completed":
\* once it is released, no child waits, runs or runs again.
ParentAfterChildren ==
  \A c \in Children :
    status[ParentOf[c]] \in Live => status[c] \notin Live

\* A parent that runs finds a result for every child that was not removed.
ResultsComplete ==
  \A p \in Parents :
    status[p] \in Live => Unresolved(p) = {}

=============================================================================
