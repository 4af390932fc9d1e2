-------------------------------- MODULE JobId --------------------------------
(***************************************************************************)
(* Job ids and the jobs that bear them one after another: which adds are   *)
(* ignored, which store a job, and what the calls still under way for an   *)
(* earlier job of the id do to its successor.                              *)
(*                                                                         *)
(* Jobs are numbered in the order they are stored.  All jobs are of one    *)
(* group, whose order and limit are in GroupQueue.                         *)
(***************************************************************************)
EXTENDS Integers, FiniteSets

CONSTANTS
  Ids,      \* job ids
  Slots,    \* worker slots
  None,     \* no slot
  MaxJobs   \* bound: jobs that are stored

ASSUME JobIdAssumption ==
  None \notin Slots /\ MaxJobs \in Nat /\ IsFiniteSet(Ids) /\ Ids # {}

VARIABLES
  keep,      \* keepCompleted and keepFailed are not 0
  job,       \* hash job:{id}: the job it describes, 0 when it has no fields of one
  status,    \* hash job:{id}, field status
  ghost,     \* hashes that hold nothing but the record of an attempt
  unique,    \* keys unique:{id}
  group, delayed, stage,  \* zsets g:{gid}, delayed, stage
  lock,      \* zset processing with hash processing:{id}: the token, a slot
  count,     \* hash g:{gid}:meta, field count
  completed, failed,      \* zsets completed, failed
  hold,      \* the id and the job a slot has
  step,      \* the call a slot makes next
  stored,    \* history: how many jobs were stored
  ended      \* history: jobs that completed, failed or were removed

places   == <<group, delayed, stage>>
finished == <<completed, failed>>
slots    == <<hold, step>>
vars == <<keep, job, status, ghost, unique, places, lock, count, finished, slots,
          stored, ended>>

JobIds   == 1..MaxJobs
Statuses == {"none", "waiting", "delayed", "staged", "processing", "completed", "failed"}
Steps    == {"idle", "running", "recording", "burying", "retried"}
Nobody   == <<CHOOSE i \in Ids : TRUE, 0>>

\* The type of every variable; a hash has a status when it describes a job, and
\* a slot has a job while it has a call to make.
TypeOK ==
  /\ keep \in [{"completed", "failed"} -> BOOLEAN]
  /\ job \in [Ids -> 0..MaxJobs] /\ status \in [Ids -> Statuses]
  /\ \A i \in Ids : job[i] = 0 <=> status[i] = "none"
  /\ ghost \subseteq {i \in Ids : job[i] = 0} /\ unique \subseteq Ids
  /\ group \cup delayed \cup stage \cup completed \cup failed \subseteq Ids
  /\ lock \in [Ids -> Slots \cup {None}] /\ count \in Int
  /\ hold \in [Slots -> Ids \X (0..MaxJobs)] /\ step \in [Slots -> Steps]
  /\ \A s \in Slots : step[s] # "idle" => hold[s][2] # 0
  /\ stored \in 0..MaxJobs /\ ended \subseteq 1..stored

Init ==
  /\ keep \in [{"completed", "failed"} -> BOOLEAN]
  /\ job = [i \in Ids |-> 0] /\ status = [i \in Ids |-> "none"]
  /\ ghost = {} /\ unique = {} /\ group = {} /\ delayed = {} /\ stage = {}
  /\ lock = [i \in Ids |-> None] /\ count = 0
  /\ completed = {} /\ failed = {}
  /\ hold = [s \in Slots |-> Nobody] /\ step = [s \in Slots |-> "idle"]
  /\ stored = 0 /\ ended = {}

Exists(i) == job[i] # 0 \/ i \in ghost
InSome(i) == lock[i] # None \/ i \in delayed \/ i \in group

\* The hash of an id is deleted, and its key for idempotence.
Forget(i) ==
  /\ job' = [job EXCEPT ![i] = 0] /\ status' = [status EXCEPT ![i] = "none"]
  /\ ghost' = ghost \ {i} /\ unique' = unique \ {i}

-----------------------------------------------------------------------------
(* Adding. *)

\* A new job in the hash, HMSET over whatever is there, and in one of the sets.
\* Bound: nothing is staged unless completed jobs are kept, see Taken.
Store(i) ==
  /\ stored < MaxJobs /\ stored' = stored + 1 /\ count' = count + 1
  /\ job' = [job EXCEPT ![i] = stored + 1] /\ ghost' = ghost \ {i}
  /\ unique' = unique \cup {i}
  /\ \E st \in {"waiting", "delayed", "staged"} :
       /\ st = "staged" => keep["completed"]
       /\ status' = [status EXCEPT ![i] = st]
       /\ group' = IF st = "waiting" THEN group \cup {i} ELSE group
       /\ delayed' = IF st = "delayed" THEN delayed \cup {i} ELSE delayed
       /\ stage' = IF st = "staged" THEN stage \cup {i} ELSE stage

Ignore == UNCHANGED <<job, status, ghost, unique, places, count, stored>>

\* Mutant: the processing set is not looked at.
TakenWaiting(i) ==
  /\ i \in unique /\ Exists(i)
  /\ keep["completed"] \/ ((i \in delayed \/ i \in group) /\ status[i] # "completed")

\* enqueue.lua: the key is there, and so is the job.  A key without a hash is
\* stale; so is, unless completed jobs are kept, a hash in none of the three
\* sets it asks (stage is not one of them), and one that says completed.
Taken(i) ==
  /\ i \in unique /\ Exists(i)
  /\ keep["completed"] \/ (InSome(i) /\ status[i] # "completed")

Burying(i) == \E s \in Slots : step[s] = "burying" /\ hold[s][1] = i /\ lock[i] = s

\* Bound: no id is added again between the record of a final failure, when that
\* or a clean-up deleted hash and key, and the dead letter, which has the token
\* of the old job and takes the new one out of its group.
Settled(i) == i \in unique \/ ~Burying(i)

\* add(), without and with autoBatch: in enqueue-batch.lua the key decides.
Add(i) ==
  /\ Settled(i)
  /\ IF Taken(i) THEN Ignore ELSE Store(i)
  /\ UNCHANGED <<keep, lock, finished, slots, ended>>

AddBatch(i) ==
  /\ Settled(i)
  /\ IF i \in unique THEN Ignore ELSE Store(i)
  /\ UNCHANGED <<keep, lock, finished, slots, ended>>

-----------------------------------------------------------------------------
(* Moving. *)

\* Job i goes to the group, or to the delayed set, and to no other of the two.
Move(i, st) ==
  /\ group' = IF st = "waiting" THEN group \cup {i} ELSE group \ {i}
  /\ delayed' = IF st = "delayed" THEN delayed \cup {i} ELSE delayed \ {i}
  /\ status' = [status EXCEPT ![i] = st]

Unmoved == <<keep, job, ghost, unique, count, finished, stored, ended>>

\* promote-delayed-jobs.lua
PromoteDelayed(i) ==
  /\ i \in delayed /\ job[i] # 0 /\ Move(i, "waiting")
  /\ UNCHANGED <<Unmoved, stage, lock, slots>>

\* Mutant: the status is not looked at.
PromoteStagedAny(i) ==
  /\ i \in stage /\ job[i] # 0
  /\ stage' = stage \ {i} /\ group' = group \cup {i}
  /\ status' = [status EXCEPT ![i] = "waiting"]
  /\ UNCHANGED <<Unmoved, delayed, lock, slots>>

\* promote-staged.lua passes by what remove.lua left in the set.
PromoteStaged(i) ==
  /\ i \in stage /\ status[i] = "staged"
  /\ stage' = stage \ {i} /\ group' = group \cup {i}
  /\ status' = [status EXCEPT ![i] = "waiting"]
  /\ UNCHANGED <<Unmoved, delayed, lock, slots>>

\* changeDelay() and promote()
ChangeDelay(i) ==
  /\ job[i] # 0 /\ (i \in delayed \/ i \in group)
  /\ \E st \in {"waiting", "delayed"} : Move(i, st)
  /\ UNCHANGED <<Unmoved, stage, lock, slots>>

\* The reserve scripts.
Reserve(s, i) ==
  /\ step[s] = "idle" /\ i \in group /\ job[i] # 0
  /\ group' = group \ {i} /\ lock' = [lock EXCEPT ![i] = s]
  /\ status' = [status EXCEPT ![i] = "processing"]
  /\ hold' = [hold EXCEPT ![s] = <<i, job[i]>>] /\ step' = [step EXCEPT ![s] = "running"]
  /\ UNCHANGED <<Unmoved, delayed, stage>>

\* check-stalled.lua: back to the group, or failed, with key and count kept.
\* Bound: a deadline passes while the handler runs.
CheckStalled(i) ==
  /\ lock[i] # None /\ status[i] = "processing" /\ lock' = [lock EXCEPT ![i] = None]
  /\ \/ Move(i, "waiting") /\ UNCHANGED <<failed, ended>>
     \/ /\ Move(i, "failed")
        /\ failed' = failed \cup {i} /\ ended' = ended \cup {job[i]}
  /\ UNCHANGED <<keep, job, ghost, unique, stage, count, completed, slots, stored>>

-----------------------------------------------------------------------------
(* Ending.  A slot settles the job it holds, if it still has the token. *)

Mine(s) == lock[hold[s][1]] = s
Then(s, next) ==
  /\ step' = [step EXCEPT ![s] = next]
  /\ hold' = IF next = "idle" THEN [hold EXCEPT ![s] = Nobody] ELSE hold

\* The count of the group after n jobs less; at zero the group is cleaned up.
CountLess(n) == IF count - n <= 0 THEN 0 ELSE count - n
GroupLess(n, left) == IF count - n <= 0 THEN {} ELSE left

\* complete-with-metadata.lua.  Of the completed jobs it trims the oldest, by
\* the clocks of the workers.
Complete(s) ==
  LET i == hold[s][1] IN
  /\ step[s] = "running" /\ Mine(s) /\ status[i] = "processing" /\ Then(s, "idle")
  /\ lock' = [lock EXCEPT ![i] = None] /\ ended' = ended \cup {hold[s][2]}
  /\ count' = IF group = {} THEN CountLess(1) ELSE count - 1
  /\ \E trimmed \in SUBSET (completed \cup {i}) :
       /\ keep["completed"] => trimmed # completed \cup {i}
       /\ ~keep["completed"] => trimmed = {i}
       /\ completed' = (completed \cup {i}) \ trimmed
       /\ job' = [k \in Ids |-> IF k \in trimmed THEN 0 ELSE job[k]]
       /\ status' = [k \in Ids |-> IF k \in trimmed THEN "none"
                                   ELSE IF k = i THEN "completed" ELSE status[k]]
       /\ unique' = unique \ trimmed
  /\ UNCHANGED <<keep, ghost, places, failed, stored>>

\* retry.lua puts the job back, unless its attempts are used up; then, and when
\* the worker has counted so itself, the failure is final.
Retry(s) ==
  LET i == hold[s][1] IN
  /\ step[s] = "running" /\ Mine(s) /\ Then(s, "retried")
  /\ lock' = [lock EXCEPT ![i] = None]
  /\ \E st \in {"waiting", "delayed"} : Move(i, st)
  /\ UNCHANGED <<Unmoved, stage>>

FailFinally(s) ==
  /\ step[s] = "running" /\ Mine(s) /\ Then(s, "recording")
  /\ UNCHANGED <<Unmoved, places, status, lock>>

\* The answer says that the job is not the slot's any more.
LockLost(s) ==
  /\ step[s] = "running" /\ ~Mine(s) /\ Then(s, "idle")
  /\ UNCHANGED <<Unmoved, places, status, lock>>

\* recordAttemptFailure() writes into the hash, be it there or not.
RecordAttempt(s) ==
  /\ step[s] = "retried" /\ Then(s, "idle")
  /\ ghost' = IF job[hold[s][1]] = 0 THEN ghost \cup {hold[s][1]} ELSE ghost
  /\ UNCHANGED <<keep, job, status, unique, places, lock, count, finished, stored, ended>>

\* Mutant: neither the token nor the hash is looked at.
RecordJobResultAny(i, k, s) ==
  /\ ended' = ended \cup {k} /\ failed' = failed \cup {i}
  /\ status' = [status EXCEPT ![i] = "failed"] /\ UNCHANGED <<job, ghost, unique>>

\* record-job-result.lua for job k of id i with the token of s.
RecordJobResult(i, k, s) ==
  IF lock[i] # s THEN UNCHANGED <<job, status, ghost, unique, failed, ended>>
  ELSE /\ ended' = ended \cup {k}
       /\ IF keep["failed"]
          THEN /\ status' = [status EXCEPT ![i] = "failed"] /\ failed' = failed \cup {i}
               /\ UNCHANGED <<job, ghost, unique>>
          ELSE Forget(i) /\ UNCHANGED failed

\* recordFinalFailure(): the dead letter follows whatever the script answers.
\* Bound: it answers.
RecordFinal(s) ==
  /\ step[s] = "recording" /\ Then(s, "burying")
  /\ RecordJobResult(hold[s][1], hold[s][2], s)
  /\ UNCHANGED <<keep, places, lock, count, completed, stored>>

\* dead-letter.lua
Bury(i, k, s) ==
  IF lock[i] # s THEN UNCHANGED <<group, delayed, count, lock, unique, ended>>
  ELSE /\ group' = GroupLess(1, group \ {i}) /\ delayed' = delayed \ {i}
       /\ count' = CountLess(1) /\ lock' = [lock EXCEPT ![i] = None]
       /\ unique' = unique \ {i} /\ ended' = ended \cup {k}

DeadLetter(s) ==
  /\ step[s] = "burying" /\ Then(s, "idle")
  /\ Bury(hold[s][1], hold[s][2], s)
  /\ UNCHANGED <<keep, job, status, ghost, stage, finished, stored>>

\* The process dies while the handler runs; the lock stays.
Crash(s) ==
  /\ step[s] = "running" /\ Then(s, "idle")
  /\ UNCHANGED <<Unmoved, places, status, lock>>

-----------------------------------------------------------------------------
(* Removing. *)

\* Mutant: the key is not deleted with the hash.
RemoveKeepsKey(i) ==
  LET n == IF status[i] \in {"completed", "failed"} THEN 0 ELSE 1 IN
  /\ job[i] # 0
  /\ job' = [job EXCEPT ![i] = 0] /\ status' = [status EXCEPT ![i] = "none"]
  /\ lock' = [lock EXCEPT ![i] = None] /\ delayed' = delayed \ {i}
  /\ completed' = completed \ {i} /\ failed' = failed \ {i}
  /\ group' = GroupLess(n, group \ {i}) /\ count' = CountLess(n)
  /\ ended' = ended \cup {job[i]}
  /\ UNCHANGED <<keep, unique, ghost, stage, stored, slots>>

\* remove.lua, which does not know the staging set, and counts a job that has
\* not ended.  A hash without a group is only deleted.
Remove(i) ==
  LET n == IF status[i] \in {"completed", "failed"} THEN 0 ELSE 1 IN
  /\ Exists(i) /\ Forget(i)
  /\ lock' = [lock EXCEPT ![i] = None] /\ delayed' = delayed \ {i}
  /\ completed' = completed \ {i} /\ failed' = failed \ {i}
  /\ IF job[i] = 0 THEN UNCHANGED <<group, count, ended>>
     ELSE /\ group' = GroupLess(n, group \ {i}) /\ count' = CountLess(n)
          /\ ended' = ended \cup {job[i]}
  /\ UNCHANGED <<keep, stage, stored, slots>>

\* clean-status.lua: those of a set that are old enough.  Bound: an id that
\* failed and was added again is not cleaned with the failed ones, which would
\* delete its new job.
Clean(st) ==
  LET from == CASE st = "completed" -> completed [] st = "failed" -> failed
                [] st = "delayed" -> delayed IN
  \E S \in SUBSET {i \in from : status[i] = st} :
    LET n == IF st = "delayed" THEN Cardinality(S) ELSE 0 IN
    /\ S # {}
    /\ completed' = IF st = "completed" THEN completed \ S ELSE completed
    /\ failed' = IF st = "failed" THEN failed \ S ELSE failed
    /\ delayed' = IF st = "delayed" THEN delayed \ S ELSE delayed
    /\ group' = GroupLess(n, group \ S) /\ count' = CountLess(n)
    /\ job' = [i \in Ids |-> IF i \in S THEN 0 ELSE job[i]]
    /\ status' = [i \in Ids |-> IF i \in S THEN "none" ELSE status[i]]
    /\ unique' = unique \ S /\ ended' = ended \cup {job[i] : i \in S}
    /\ UNCHANGED <<keep, ghost, stage, lock, stored, slots>>

-----------------------------------------------------------------------------
Next ==
  \/ \E i \in Ids : \/ Add(i) \/ AddBatch(i) \/ PromoteDelayed(i) \/ PromoteStaged(i)
                    \/ ChangeDelay(i) \/ CheckStalled(i) \/ Remove(i)
  \/ \E s \in Slots, i \in Ids : Reserve(s, i)
  \/ \E s \in Slots : \/ Complete(s) \/ Retry(s) \/ FailFinally(s) \/ LockLost(s)
                      \/ RecordAttempt(s) \/ RecordFinal(s) \/ DeadLetter(s) \/ Crash(s)
  \/ \E st \in {"completed", "failed", "delayed"} : Clean(st)

Spec == Init /\ [][Next]_vars

-----------------------------------------------------------------------------
\* Where a job of a status is.
In(st) == CASE st = "waiting" -> group [] st = "delayed" -> delayed [] st = "staged" -> stage
            [] st = "processing" -> {i \in Ids : lock[i] # None} [] OTHER -> {}

\* A stored job that has not ended has the hash and the key of its id and is in
\* the one set its status names, whatever is added, retried, buried, removed or
\* cleaned under the same id: no add replaces it, and no late call for an
\* earlier job of the id takes it away.
NoneLost ==
  \A k \in 1..stored \ ended : \E i \in Ids :
    /\ job[i] = k /\ i \in unique /\ i \in In(status[i])
    /\ \A st \in Statuses \ {status[i], "staged"} : i \notin In(st)

\* A job that has ended, though its hash is there, is never handed out again.
NoneReturns ==
  \A i \in Ids : job[i] \in ended
    => i \notin In("waiting") \cup In("delayed") /\ status[i] # "staged"

\* The key that makes an add be ignored is that of a job: one that has not
\* ended, or one that is kept where the queries find it.
KeysHaveJobs ==
  \A i \in unique : job[i] # 0 /\ (job[i] \notin ended \/ i \in completed \cup failed)
=============================================================================
