----------------------------- MODULE GroupQueue -----------------------------
(***************************************************************************)
(* The core of the queue: jobs of a group move between the group's sorted  *)
(* set of waiting jobs, the delayed set and the processing set, while the  *)
(* group itself moves between the "ready" and the "limited" sorted sets.   *)
(* Every Lua script is atomic and is one action; a worker slot makes       *)
(* several calls per job and everything interleaves with them.             *)
(*                                                                         *)
(* Abstractions, none of which a script's control flow can tell apart:     *)
(*  - a slot of a worker process holds one job at a time, so the slot is   *)
(*    the processing token the script stored (a fresh UUID in the code);   *)
(*  - the clock is the set "late" of locked jobs whose deadline has passed *)
(*    for whoever asks next; throttles and circuit breakers are choices;   *)
(*  - a job id is added once (its reuse is the business of enqueue.lua's   *)
(*    idempotence block) and no job is a flow parent or a flow child.      *)
(***************************************************************************)
EXTENDS Integers, Sequences, FiniteSets

CONSTANTS
  Jobs,              \* job ids
  Groups,            \* group ids
  Slots,             \* worker slots (concurrency slots of all processes)
  None,              \* no job, no token, no outcome
  GroupOf,           \* [Jobs -> Groups]: field groupId of the job hash
  Score,             \* [Jobs -> Nat]: field score, the rank in the group set
  Limits,            \* the concurrency limits a group may be configured with
  StartLimit,        \* the limit every group starts with
  MaxAttempts,       \* job field maxAttempts
  WorkerMaxAttempts, \* option maxAttempts of the worker
  MaxStalled,        \* option maxStalledCount of the worker
  KeepCompleted,     \* keepCompleted > 0
  KeepFailed,        \* keepFailed > 0
  Delayable,         \* bound: the jobs that may be added with a delay
  Backoffs,          \* bound: may a retry back off (TRUE), or not (FALSE)
  WeakStages,        \* bound: stages at which a slot may crash or fall late
  MayPause           \* bound: may the queue be paused

Stages == {"idle", "running", "exhausted", "recorded"}

ASSUME ConstantsAssumption ==
  /\ IsFiniteSet(Jobs)
  /\ GroupOf \in [Jobs -> Groups]
  /\ Score \in [Jobs -> Nat \ {0}]
  /\ \A i, j \in Jobs : Score[i] = Score[j] => i = j
  /\ None \notin Jobs \cup Slots /\ None \notin {"completed", "failed"}
  /\ Limits \subseteq Nat /\ StartLimit \in Limits
  /\ MaxAttempts \in Nat \ {0} /\ WorkerMaxAttempts \in Nat \ {0}
  /\ WorkerMaxAttempts <= MaxAttempts + 2
  /\ MaxStalled \in Nat
  /\ KeepCompleted \in BOOLEAN /\ KeepFailed \in BOOLEAN /\ MayPause \in BOOLEAN
  /\ Delayable \subseteq Jobs /\ Backoffs \subseteq BOOLEAN
  /\ WeakStages \subseteq Stages

VARIABLES
  status,    \* hash job:{id}: field status; "none" never added, "gone" deleted
  attempts,  \* hash job:{id}: field attempts
  stalls,    \* hash job:{id}: field stalledCount
  gz,        \* zset g:{gid}: the waiting jobs of the group
  delayed,   \* zset delayed
  lock,      \* hash processing:{id} and zset processing: the token, or None
  late,      \* the locked jobs whose deadlineAt has passed
  active,    \* list g:{gid}:active, the newest reservation first
  count,     \* hash g:{gid}:meta, field count
  ready,     \* zset ready: the score of the group, 0 when absent
  limited,   \* zset limited
  limit,     \* hash config:{gid}, field concurrency
  paused,    \* key paused
  hold,      \* the job in the hands of a slot
  stage,     \* where the slot is in processSingleJob / handleJobFailure
  outcome    \* history: the final result recorded for the job

jobVars   == <<status, attempts, stalls, outcome>>
placeVars == <<gz, delayed, lock, late, active, count>>
groupVars == <<ready, limited>>
confVars  == <<limit, paused>>
slotVars  == <<hold, stage>>
queueVars == <<jobVars, placeVars, groupVars, confVars>>
vars      == <<jobVars, placeVars, groupVars, confVars, slotVars>>

Statuses == {"none", "waiting", "delayed", "processing",
             "completed", "failed", "gone"}

-----------------------------------------------------------------------------
(* Helpers on lists and sorted sets. *)

\* LREM: the list s without the members of S. No list holds a job twice.
Without(s, S) ==
  LET kept   == {i \in DOMAIN s : s[i] \notin S}
      nth(k) == CHOOSE i \in kept : Cardinality({m \in kept : m <= i}) = k
  IN  [k \in 1..Cardinality(kept) |-> s[nth(k)]]

\* The jobs of a group.
JobsOf(g) == {j \in Jobs : GroupOf[j] = g}

\* Mutant: the newest job first (ZREVRANGE, ZPOPMAX).
Head1Newest(S) == CHOOSE j \in S : \A i \in S : Score[i] <= Score[j]

\* ZRANGE 0 0 / ZPOPMIN of a set of jobs, and the score that comes with it.
Head1(S) == CHOOSE j \in S : \A i \in S : Score[j] <= Score[i]
HeadScore(S) == Score[Head1(S)]

\* The groups in a ready set, and the member a ready set has at a rank.
Listed(r) == {g \in Groups : r[g] > 0}
Rank(r, g) == Cardinality({h \in Listed(r) : r[h] < r[g]})
AtRank(r, k) == {g \in Listed(r) : Rank(r, g) = k}

\* Retention: what is left of the hash of a job with final status s.
Final(keep, s) == IF keep THEN s ELSE "gone"

\* Mutant: the counter is taken down.
BumpDown(n) == n - 1

\* attempts saturates above every value it is compared with.
Bump(n) == IF n > MaxAttempts THEN n ELSE n + 1

-----------------------------------------------------------------------------
(* Blocks the scripts share. *)

\* Mutants: the ZREM from the set the group leaves is missing.
RequeueKeepsReady(g, waiting, n) ==
  IF waiting = {} THEN UNCHANGED groupVars
  ELSE IF n < limit[g]
  THEN /\ ready' = [ready EXCEPT ![g] = HeadScore(waiting)]
       /\ limited' = limited \ {g}
  ELSE /\ limited' = limited \cup {g}
       /\ UNCHANGED ready
RequeueKeepsLimited(g, waiting, n) ==
  IF waiting = {} THEN UNCHANGED groupVars
  ELSE IF n < limit[g]
  THEN /\ ready' = [ready EXCEPT ![g] = HeadScore(waiting)]
       /\ UNCHANGED limited
  ELSE /\ ready' = [ready EXCEPT ![g] = 0]
       /\ limited' = limited \cup {g}

\* Place the group by its head and its free capacity.
Requeue(g, waiting, n) ==
  IF waiting = {} THEN UNCHANGED groupVars
  ELSE IF n < limit[g]
  THEN /\ ready' = [ready EXCEPT ![g] = HeadScore(waiting)]
       /\ limited' = limited \ {g}
  ELSE /\ ready' = [ready EXCEPT ![g] = 0]
       /\ limited' = limited \cup {g}

\* Take the group out of both sets.
Unqueue(g) ==
  /\ ready' = [ready EXCEPT ![g] = 0]
  /\ limited' = limited \ {g}

\* Mutant: a group that has jobs left is not added again.
SettleForgets(g, waiting, n) == Unqueue(g)

\* Place the group, or take it out when nothing of it waits.
Settle(g, waiting, n) ==
  IF waiting = {} THEN Unqueue(g) ELSE Requeue(g, waiting, n)

\* Mutant: the deadline stays in the sorted set processing.
UnlockKeepsDeadline(j) == lock' = [lock EXCEPT ![j] = None] /\ UNCHANGED late

\* DEL processing:{id} and ZREM processing.
Unlock(j) ==
  /\ lock' = [lock EXCEPT ![j] = None]
  /\ late' = late \ {j}

\* Mutant: the lock is checked, the token is not compared.
OwnsAnyToken(w, j) == lock[j] # None

\* The token check: the slot's token is still the one stored for the job.
Owns(w, j) == lock[j] = w

\* The slot is free again.
Drop(w) ==
  /\ hold' = [hold EXCEPT ![w] = None]
  /\ stage' = [stage EXCEPT ![w] = "idle"]

Running(w) == hold[w] # None /\ stage[w] = "running"

-----------------------------------------------------------------------------
Init ==
  /\ status = [j \in Jobs |-> "none"]
  /\ attempts = [j \in Jobs |-> 0]
  /\ stalls = [j \in Jobs |-> 0]
  /\ outcome = [j \in Jobs |-> None]
  /\ gz = [g \in Groups |-> {}]
  /\ delayed = {}
  /\ lock = [j \in Jobs |-> None]
  /\ late = {}
  /\ active = [g \in Groups |-> <<>>]
  /\ count = [g \in Groups |-> 0]
  /\ ready = [g \in Groups |-> 0]
  /\ limited = {}
  /\ limit = [g \in Groups |-> StartLimit]
  /\ paused = FALSE
  /\ hold = [w \in Slots |-> None]
  /\ stage = [w \in Slots |-> "idle"]

-----------------------------------------------------------------------------
(* Producers and the scheduler. *)

\* enqueue.lua for a fresh id without delay or ordering window.
Add(j) ==
  LET g == GroupOf[j] IN
  /\ status[j] = "none"
  /\ status' = [status EXCEPT ![j] = "waiting"]
  /\ gz' = [gz EXCEPT ![g] = @ \cup {j}]
  /\ count' = [count EXCEPT ![g] = @ + 1]
  /\ Requeue(g, gz[g] \cup {j}, Len(active[g]))
  /\ UNCHANGED <<attempts, stalls, outcome, delayed, lock, late, active,
                 confVars, slotVars>>

\* enqueue.lua for a fresh id with a delay that lies in the future.
AddDelayed(j) ==
  /\ j \in Delayable
  /\ status[j] = "none"
  /\ status' = [status EXCEPT ![j] = "delayed"]
  /\ delayed' = delayed \cup {j}
  /\ count' = [count EXCEPT ![GroupOf[j]] = @ + 1]
  /\ UNCHANGED <<attempts, stalls, outcome, gz, lock, late, active,
                 groupVars, confVars, slotVars>>

\* One round of promote-delayed-jobs.lua, for a job whose time has come.
Promote(j) ==
  LET g == GroupOf[j] IN
  /\ j \in delayed
  /\ delayed' = delayed \ {j}
  /\ gz' = [gz EXCEPT ![g] = @ \cup {j}]
  /\ status' = [status EXCEPT ![j] = "waiting"]
  /\ Requeue(g, gz[g] \cup {j}, Len(active[g]))
  /\ UNCHANGED <<attempts, stalls, outcome, lock, late, active, count,
                 confVars, slotVars>>

-----------------------------------------------------------------------------
(* Recovery of expired jobs inside a reserve call. The set R is what one   *)
(* sweep takes back; no script can put a delayUntil into the future on a   *)
(* locked job here, so every recovered job goes back to its group.         *)

\* Mutant: the sweep does not ask whether the job hash still exists.
ExpiredWithoutHash == late

\* The sweep: every late job whose hash still has a score.
Expired == {j \in late : status[j] # "gone"}
Swept(R) == {GroupOf[j] : j \in R}

WaitingAfter(R) == [g \in Groups |-> gz[g] \cup (R \cap JobsOf(g))]

\* Mutant: the recovery leaves the job in the active list.
ActiveAfterNoLrem(R) == active
ActiveAfter(R) == [g \in Groups |-> Without(active[g], R)]

\* The last job of the group to be recovered decides where the group goes,
\* and it is still counted in the active list when it does (LREM comes after).
ParkedBy(R, g) == Len(Without(active[g], R)) + 1 >= limit[g]
ReadyAfter(R) ==
  [g \in Groups |-> IF g \notin Swept(R) THEN ready[g]
                    ELSE IF ParkedBy(R, g) THEN 0
                    ELSE HeadScore(WaitingAfter(R)[g])]
LimitedAfter(R) ==
  {g \in Groups : IF g \in Swept(R) THEN ParkedBy(R, g) ELSE g \in limited}

\* Lazy cleanup of a full active list: drop the entries nobody processes.
Pruned(g, s) ==
  IF Len(s) >= limit[g] THEN Without(s, {j \in Jobs : lock[j] = None}) ELSE s

\* What the end of a reserve call writes: the jobs in R are taken back, and those
\* in the domain of f are locked with the token f gives them.
LockAll(R, f) ==
  /\ lock' = [j \in Jobs |-> IF j \in DOMAIN f THEN f[j]
                             ELSE IF j \in R THEN None ELSE lock[j]]
  /\ late' = late \ (R \cup DOMAIN f)
  /\ status' = [j \in Jobs |-> IF j \in DOMAIN f THEN "processing"
                               ELSE IF j \in R THEN "waiting" ELSE status[j]]
  /\ hold' = [w \in Slots |-> IF \E j \in DOMAIN f : f[j] = w
                              THEN CHOOSE j \in DOMAIN f : f[j] = w
                              ELSE hold[w]]
  /\ stage' = [w \in Slots |-> IF \E j \in DOMAIN f : f[j] = w
                               THEN "running" ELSE stage[w]]

Idle(w) == hold[w] = None

\* reserve.lua. The groups it scans are read before the recovery, unless
\* there were none.
Scanned(R) == IF Listed(ready) # {} THEN ready ELSE ReadyAfter(R)

HasRoom(R, g) == Len(Pruned(g, ActiveAfter(R)[g])) < limit[g]
Candidates(R) ==
  {g \in Listed(Scanned(R)) : HasRoom(R, g) /\ WaitingAfter(R)[g] # {}}
\* The groups the scan reaches: all, or those up to the first candidate.
Reached(R) ==
  {g \in Listed(Scanned(R)) :
     \A c \in Candidates(R) : Scanned(R)[g] <= Scanned(R)[c]}
Parked(R) == {g \in Reached(R) : ~HasRoom(R, g) /\ WaitingAfter(R)[g] # {}}

\* The active lists and the ready set the sweep and the scan leave behind.
ListsAfter(R) == [g \in Groups |-> IF g \in Reached(R)
                                   THEN Pruned(g, ActiveAfter(R)[g])
                                   ELSE ActiveAfter(R)[g]]
SweptReady(R) == [g \in Groups |-> IF g \in Parked(R) THEN 0 ELSE ReadyAfter(R)[g]]

\* A sweep happens when nothing is ready or when the throttle lets it.
SweepChoice == {Expired} \cup (IF Listed(ready) = {} THEN {} ELSE {{}})

\* The sweep R and a scan that hands nothing out: full groups are parked.
FindNothing(w, R) ==
  /\ Candidates(R) = {}
  /\ gz' = WaitingAfter(R)
  /\ active' = ListsAfter(R)
  /\ ready' = SweptReady(R)
  /\ limited' = LimitedAfter(R) \cup Parked(R)
  /\ LockAll(R, [j \in {} |-> w])

ReserveNone(w) ==
  /\ Idle(w) /\ ~paused
  /\ \E R \in SweepChoice : FindNothing(w, R)
  /\ UNCHANGED <<attempts, stalls, outcome, delayed, count, confVars>>

\* The sweep R and a scan that hands out the head of group g. At the end the
\* group is removed by the index it had in what was read; at that index there
\* may be another group by now, when the sweep listed one or the scan parked one.
HandOut(w, R, g) ==
  LET j      == Head1(WaitingAfter(R)[g])
      rest   == WaitingAfter(R)[g] \ {j}
      taken  == <<j>> \o ListsAfter(R)[g]
      victim == AtRank(SweptReady(R), Rank(Scanned(R), g))
  IN
  /\ g \in Reached(R)
  /\ gz' = [WaitingAfter(R) EXCEPT ![g] = rest]
  /\ active' = [ListsAfter(R) EXCEPT ![g] = taken]
  /\ ready' = [h \in Groups |->
                 IF h = g /\ rest # {} /\ Len(taken) < limit[g]
                 THEN HeadScore(rest)
                 ELSE IF h \in victim THEN 0 ELSE SweptReady(R)[h]]
  /\ limited' = LimitedAfter(R) \cup Parked(R) \cup
                  (IF rest # {} /\ Len(taken) >= limit[g] THEN {g} ELSE {})
  /\ LockAll(R, [i \in {j} |-> w])

ReserveJob(w) ==
  /\ Idle(w) /\ ~paused
  /\ \E R \in SweepChoice : \E g \in Candidates(R) : HandOut(w, R, g)
  /\ UNCHANGED <<attempts, stalls, outcome, delayed, count, confVars>>

\* reserve-batch.lua: after the sweep R, the groups it reads for n free slots,
\* those of them that are full, and the jobs it takes, one per group.
ReadBy(R, n) == {g \in Listed(ReadyAfter(R)) : Rank(ReadyAfter(R), g) < n}
FullOf(R, n) == {g \in ReadBy(R, n) : ~HasRoom(R, g) /\ WaitingAfter(R)[g] # {}}
Batch(R, n) ==
  {Head1(WaitingAfter(R)[g]) :
     g \in {h \in ReadBy(R, n) : HasRoom(R, h) /\ WaitingAfter(R)[h] # {}}}

\* The jobs of f go to the slots of f. The last loop takes every group served
\* out of ready, also the ones with room for more.
TakeBatch(R, n, f) ==
  LET served  == {GroupOf[j] : j \in DOMAIN f}
      rest(g) == WaitingAfter(R)[g] \ DOMAIN f
      left(g) == IF g \in ReadBy(R, n) THEN Pruned(g, ActiveAfter(R)[g])
                 ELSE ActiveAfter(R)[g]
  IN
  /\ \A i, j \in DOMAIN f : f[i] = f[j] => i = j
  /\ gz' = [g \in Groups |-> rest(g)]
  /\ active' = [g \in Groups |->
                  IF g \in served THEN <<Head1(WaitingAfter(R)[g])>> \o left(g)
                  ELSE left(g)]
  /\ ready' = [g \in Groups |-> IF g \in served \cup FullOf(R, n) THEN 0
                                ELSE ReadyAfter(R)[g]]
  /\ limited' = LimitedAfter(R) \cup FullOf(R, n) \cup
                  {g \in served : rest(g) # {} /\ Len(left(g)) + 1 >= limit[g]}
  /\ LockAll(R, f)

\* reserve-batch.lua for the free slots of a worker
ReserveBatch(W) ==
  /\ W # {} /\ \A w \in W : Idle(w)
  /\ ~paused
  /\ \E R \in {{}, Expired} : \E f \in [Batch(R, Cardinality(W)) -> W] :
       TakeBatch(R, Cardinality(W), f)
  /\ UNCHANGED <<attempts, stalls, outcome, delayed, count, confVars>>

\* reserve-atomic.lua, as a strategy calls it for a group it chose earlier.
ReserveAtomic(w, g) ==
  LET list == Pruned(g, active[g])
      j    == Head1(gz[g])
  IN
  /\ Idle(w) /\ ~paused
  /\ gz[g] # {}
  /\ IF Len(list) < limit[g]
     THEN /\ gz' = [gz EXCEPT ![g] = @ \ {j}]
          /\ active' = [active EXCEPT ![g] = <<j>> \o list]
          /\ Settle(g, gz[g] \ {j}, Len(list) + 1)
          /\ LockAll({}, [i \in {j} |-> w])
     ELSE /\ active' = [active EXCEPT ![g] = list]
          /\ Requeue(g, gz[g], limit[g])
          /\ UNCHANGED <<gz, lock, late, status, slotVars>>
  /\ UNCHANGED <<attempts, stalls, outcome, delayed, count, confVars>>

-----------------------------------------------------------------------------
(* The outcome of a job, in the order worker.ts makes the calls.           *)

\* The guard of both completion scripts.
Accepted(w, j) == status[j] = "processing" /\ lock[j] # None /\ Owns(w, j)

\* A call that finds the token gone changes nothing and the slot moves on:
\* completion returns 0 or nil, retry -2, and record-job-result.lua followed
\* by dead-letter.lua 0.
LockLost(w) ==
  /\ hold[w] # None
  /\ ~Owns(w, hold[w])
  /\ Drop(w)
  /\ UNCHANGED queueVars

\* Mutant: only the group's waiting jobs are asked, not its job count.
NothingWaits(g) == gz[g] = {}

\* The completed job was the last of its group: its keys are deleted.
LastOfGroup(g) == gz[g] = {} /\ count[g] <= 1

\* complete-with-metadata.lua
CompleteJob(w) ==
  LET j     == hold[w]
      g     == GroupOf[j]
      rest  == Without(active[g], {j})
      empty == LastOfGroup(g)
  IN
  /\ Running(w) /\ Accepted(w, j)
  /\ status' = [status EXCEPT ![j] = Final(KeepCompleted, "completed")]
  /\ outcome' = [outcome EXCEPT ![j] = "completed"]
  /\ Unlock(j)
  /\ active' = [active EXCEPT ![g] = IF empty THEN <<>> ELSE rest]
  /\ count' = [count EXCEPT ![g] = IF empty THEN 0 ELSE @ - 1]
  /\ IF gz[g] # {} /\ Len(rest) >= limit[g] /\ ready[g] = 0
     THEN UNCHANGED groupVars
     ELSE Settle(g, gz[g], Len(rest))
  /\ Drop(w)
  /\ UNCHANGED <<attempts, stalls, gz, delayed, confVars>>

\* complete-and-reserve-next-with-metadata.lua
CompleteAndReserveNext(w) ==
  LET j    == hold[w]
      g    == GroupOf[j]
      next == Head1(gz[g])
      rest == Without(active[g], {j})
      done == [status EXCEPT ![j] = Final(KeepCompleted, "completed")]
      free == [lock EXCEPT ![j] = None]
  IN
  /\ Running(w) /\ Accepted(w, j)
  /\ outcome' = [outcome EXCEPT ![j] = "completed"]
  /\ late' = late \ {j}
  /\ \/ \* not at the head of the active list: completed, nothing else
        /\ active[g] = <<>> \/ Head(active[g]) # j
        /\ active' = [active EXCEPT ![g] = rest]
        /\ status' = done /\ lock' = free
        /\ count' = [count EXCEPT ![g] = @ - 1]
        /\ Drop(w)
        /\ UNCHANGED <<gz, groupVars>>
     \/ \* at the head, nothing waits in the group
        /\ active[g] # <<>> /\ Head(active[g]) = j
        /\ gz[g] = {}
        /\ active' = [active EXCEPT ![g] = Tail(@)]
        /\ status' = done /\ lock' = free
        /\ count' = [count EXCEPT ![g] = IF @ <= 1 THEN 0 ELSE @ - 1]
        /\ Unqueue(g)
        /\ Drop(w)
        /\ UNCHANGED gz
     \/ \* at the head: the next job of the group takes the slot
        /\ active[g] # <<>> /\ Head(active[g]) = j
        /\ gz[g] # {}
        /\ active' = [active EXCEPT ![g] = <<next>> \o Tail(@)]
        /\ gz' = [gz EXCEPT ![g] = @ \ {next}]
        /\ count' = [count EXCEPT ![g] = @ - 1]
        /\ status' = [done EXCEPT ![next] = "processing"]
        /\ lock' = [free EXCEPT ![next] = w]
        /\ Settle(g, gz[g] \ {next}, Len(active[g]))
        /\ hold' = [hold EXCEPT ![w] = next]
        /\ UNCHANGED stage
  /\ UNCHANGED <<attempts, stalls, delayed, confVars>>

\* retry.lua after a failure the worker may retry. With the job's attempts
\* used up it keeps the lock and answers -1.
Retry(w, backoff) ==
  LET j    == hold[w]
      g    == GroupOf[j]
      rest == Without(active[g], {j})
  IN
  /\ Running(w) /\ Owns(w, j)
  /\ attempts[j] + 1 < WorkerMaxAttempts
  /\ attempts' = [attempts EXCEPT ![j] = Bump(@)]
  /\ IF attempts[j] + 1 >= MaxAttempts
     THEN /\ stage' = [stage EXCEPT ![w] = "exhausted"]
          /\ UNCHANGED <<status, placeVars, groupVars, hold>>
     ELSE /\ Unlock(j)
          /\ active' = [active EXCEPT ![g] = rest]
          /\ IF backoff
             THEN /\ delayed' = delayed \cup {j}
                  /\ status' = [status EXCEPT ![j] = "delayed"]
                  /\ gz' = [gz EXCEPT ![g] = @ \ {j}]
                  \* only the score is refreshed: a limited group stays so
                  /\ IF gz[g] \ {j} = {} THEN Unqueue(g)
                     ELSE /\ ready' = [ready EXCEPT ![g] = IF @ = 0 THEN 0
                                         ELSE HeadScore(gz[g] \ {j})]
                          /\ UNCHANGED limited
             ELSE /\ gz' = [gz EXCEPT ![g] = @ \cup {j}]
                  /\ status' = [status EXCEPT ![j] = "waiting"]
                  /\ Requeue(g, gz[g] \cup {j}, Len(rest))
                  /\ UNCHANGED delayed
          /\ Drop(w)
          /\ UNCHANGED count
  /\ UNCHANGED <<stalls, outcome, confVars>>

\* record-job-result.lua with status "failed", the first call of deadLetterJob:
\* an unrecoverable error, the worker's attempts used up, or retry's -1.
RecordFinalFailure(w) ==
  LET j == hold[w] IN
  /\ hold[w] # None /\ stage[w] \in {"running", "exhausted"}
  /\ Owns(w, j)
  /\ stage' = [stage EXCEPT ![w] = "recorded"]
  /\ IF status[j] \in {"waiting", "gone"}
     THEN UNCHANGED jobVars
     ELSE /\ status' = [status EXCEPT ![j] = Final(KeepFailed, "failed")]
          /\ outcome' = [outcome EXCEPT ![j] = "failed"]
          /\ UNCHANGED <<attempts, stalls>>
  /\ UNCHANGED <<placeVars, groupVars, confVars, hold>>

\* dead-letter.lua, the second call of deadLetterJob.
DeadLetter(w) ==
  LET j     == hold[w]
      g     == GroupOf[j]
      rest  == Without(active[g], {j})
      empty == count[g] <= 1
  IN
  /\ hold[w] # None /\ stage[w] = "recorded"
  /\ Owns(w, j)
  /\ Unlock(j)
  /\ delayed' = delayed \ {j}
  /\ gz' = [gz EXCEPT ![g] = IF empty THEN {} ELSE @ \ {j}]
  /\ active' = [active EXCEPT ![g] = IF empty THEN <<>> ELSE rest]
  /\ count' = [count EXCEPT ![g] = IF empty THEN 0 ELSE @ - 1]
  /\ IF empty THEN Unqueue(g) ELSE Requeue(g, gz[g] \ {j}, Len(rest))
  /\ Drop(w)
  /\ UNCHANGED <<jobVars, confVars>>

-----------------------------------------------------------------------------
(* Time, crashes and the recovery that answers them.                       *)

\* A locked job misses its deadline: its slot is slow at a weak stage, or has
\* crashed and holds it no more.
DeadlinePasses(j) ==
  /\ lock[j] # None /\ j \notin late
  /\ hold[lock[j]] = j => stage[lock[j]] \in WeakStages
  /\ late' = late \cup {j}
  /\ UNCHANGED <<jobVars, gz, delayed, lock, active, count, groupVars,
                 confVars, slotVars>>

\* Mutant: the token is not compared.
HeartbeatAnyToken(w) ==
  /\ Running(w)
  /\ lock[hold[w]] # None /\ hold[w] \in late
  /\ late' = late \ {hold[w]}
  /\ UNCHANGED <<jobVars, gz, delayed, lock, active, count, groupVars,
                 confVars, slotVars>>

\* heartbeat.lua: only while the handler runs, only with the token.
Heartbeat(w) ==
  /\ Running(w)
  /\ Owns(w, hold[w]) /\ hold[w] \in late
  /\ late' = late \ {hold[w]}
  /\ UNCHANGED <<jobVars, gz, delayed, lock, active, count, groupVars,
                 confVars, slotVars>>

\* The process of the slot dies, or a call throws and the slot gives up.
Crash(w) ==
  /\ hold[w] # None /\ stage[w] \in WeakStages
  /\ Drop(w)
  /\ UNCHANGED queueVars

\* One round of check-stalled.lua: fail the job or give it back.
CheckStalled(j) ==
  LET g    == GroupOf[j]
      rest == Without(active[g], {j})
  IN
  /\ j \in late /\ status[j] = "processing"
  /\ stalls' = [stalls EXCEPT ![j] = @ + 1]
  /\ attempts' = [attempts EXCEPT ![j] = Bump(@)]
  /\ active' = [active EXCEPT ![g] = rest]
  /\ Unlock(j)
  /\ IF \/ MaxStalled > 0 /\ stalls[j] + 1 >= MaxStalled
        \/ attempts[j] + 1 > MaxAttempts
     THEN /\ status' = [status EXCEPT ![j] = "failed"]
          /\ outcome' = [outcome EXCEPT ![j] = "failed"]
          /\ gz' = [gz EXCEPT ![g] = @ \ {j}]
          /\ UNCHANGED groupVars
     ELSE /\ gz' = [gz EXCEPT ![g] = @ \cup {j}]
          /\ status' = [status EXCEPT ![j] = "waiting"]
          /\ Requeue(g, gz[g] \cup {j}, Len(rest))
          /\ UNCHANGED outcome
  /\ UNCHANGED <<delayed, count, confVars, slotVars>>

\* One round of cleanup.lua: give an expired job back, whatever its status.
Cleanup(j) ==
  LET g == GroupOf[j] IN
  /\ j \in Expired
  /\ gz' = [gz EXCEPT ![g] = @ \cup {j}]
  /\ status' = [status EXCEPT ![j] = "waiting"]
  /\ Requeue(g, gz[g] \cup {j}, Len(active[g]))
  /\ active' = [active EXCEPT ![g] = Without(@, {j})]
  /\ Unlock(j)
  /\ UNCHANGED <<attempts, stalls, outcome, delayed, count, confVars, slotVars>>

-----------------------------------------------------------------------------
(* Operators of the queue.                                                 *)

\* groups.setConcurrency
SetConcurrency(g, n) ==
  /\ n # limit[g]
  /\ limit' = [limit EXCEPT ![g] = n]
  /\ IF n = 0
     THEN IF gz[g] = {} THEN UNCHANGED groupVars
          ELSE /\ ready' = [ready EXCEPT ![g] = 0]
               /\ limited' = limited \cup {g}
     ELSE IF Len(active[g]) < n /\ g \in limited
     THEN /\ ready' = [ready EXCEPT ![g] = IF gz[g] = {} THEN @
                                           ELSE HeadScore(gz[g])]
          /\ limited' = limited \ {g}
     ELSE UNCHANGED groupVars
  /\ UNCHANGED <<jobVars, placeVars, paused, slotVars>>

\* pause and resume
Pause ==
  /\ MayPause /\ ~paused /\ paused' = TRUE
  /\ UNCHANGED <<jobVars, placeVars, groupVars, limit, slotVars>>
Resume ==
  /\ paused /\ paused' = FALSE
  /\ UNCHANGED <<jobVars, placeVars, groupVars, limit, slotVars>>

-----------------------------------------------------------------------------
Reserve(w) == ReserveNone(w) \/ ReserveJob(w)

Finish(w) ==
  \/ CompleteJob(w)
  \/ CompleteAndReserveNext(w)
  \/ \E b \in Backoffs : Retry(w, b)
  \/ RecordFinalFailure(w)
  \/ DeadLetter(w)
  \/ LockLost(w)

Next ==
  \/ \E j \in Jobs : Add(j) \/ AddDelayed(j) \/ Promote(j)
  \/ \E w \in Slots : Reserve(w) \/ Finish(w) \/ Heartbeat(w) \/ Crash(w)
  \/ \E W \in SUBSET Slots : ReserveBatch(W)
  \/ \E w \in Slots, g \in Groups : ReserveAtomic(w, g)
  \/ \E j \in Jobs : DeadlinePasses(j) \/ CheckStalled(j) \/ Cleanup(j)
  \/ \E g \in Groups, n \in Limits : SetConcurrency(g, n)
  \/ Pause \/ Resume

Spec == Init /\ [][Next]_vars

\* Some worker loop keeps reserving (worker.ts), every handler returns or throws
\* and the calls that follow are made, and the scheduler timer promotes what is
\* due. Nothing else is fair: no add, no crash, no recovery.
Fairness ==
  /\ WF_vars(\E w \in Slots : Reserve(w))
  /\ \A w \in Slots : WF_vars(Finish(w))
  /\ \A j \in Jobs : WF_vars(Promote(j))

FairSpec == Spec /\ Fairness

-----------------------------------------------------------------------------
(* Properties.                                                             *)

\* Every variable holds what the key it stands for can hold.
TypeOK ==
  /\ status \in [Jobs -> Statuses]
  /\ attempts \in [Jobs -> Nat] /\ stalls \in [Jobs -> Nat]
  /\ outcome \in [Jobs -> {None, "completed", "failed"}]
  /\ gz \in [Groups -> SUBSET Jobs] /\ delayed \subseteq Jobs
  /\ lock \in [Jobs -> Slots \cup {None}] /\ late \subseteq Jobs
  /\ active \in [Groups -> Seq(Jobs)] /\ count \in [Groups -> Int]
  /\ ready \in [Groups -> Nat] /\ limited \subseteq Groups
  /\ limit \in [Groups -> Nat] /\ paused \in BOOLEAN
  /\ hold \in [Slots -> Jobs \cup {None}] /\ stage \in [Slots -> Stages]

\* The status of a job names the one set that holds it: no script leaves a job
\* in two sets, in none, or in another group's (the physical separation the
\* comments of the scripts speak of). Only a job whose final failure has been
\* recorded but not yet dead-lettered is still locked under another status.
OnePlace ==
  \A j \in Jobs :
    /\ \A g \in Groups : j \in gz[g] <=> g = GroupOf[j] /\ status[j] = "waiting"
    /\ j \in delayed <=> status[j] = "delayed"
    /\ status[j] = "processing" => lock[j] # None
    /\ lock[j] # None => status[j] \in {"processing", "failed", "gone"}
    /\ j \in late => lock[j] # None

\* The active list of a group, which the limit counts, holds exactly the jobs
\* of the group in processing, each once: no slot leaks and none is lent twice.
SlotsMatchLocks ==
  \A g \in Groups :
    /\ {active[g][i] : i \in DOMAIN active[g]} =
         {j \in JobsOf(g) : lock[j] # None}
    /\ \A i, k \in DOMAIN active[g] : active[g][i] = active[g][k] => i = k

\* The unfinished jobs of a group.
Live(g) ==
  {j \in JobsOf(g) :
     status[j] \in {"waiting", "delayed", "processing"} \/ lock[j] # None}

\* A group's job count never falls below its unfinished jobs, so that the
\* clean-up of an "empty" group at zero never deletes the keys of a live one.
CountCoversLive == \A g \in Groups : count[g] >= Cardinality(Live(g))

\* A job ends once: its recorded result is never replaced and nobody gets the
\* job again, however late its slots, retries and recoveries come.
OneOutcome ==
  [][\A j \in Jobs : outcome[j] # None =>
       /\ outcome'[j] = outcome[j]
       /\ lock'[j] # None => lock'[j] = lock[j]]_vars

\* The step is one of slot w: what it holds, or how far it is with it, changes.
Acts(w) == <<hold'[w], stage'[w]>> # <<hold[w], stage[w]>>

\* A job's result is written by the slot that holds the job and its lock, or by the
\* stalled check after the deadline: a slot that lost its lock to a recovery decides
\* nothing, whichever call it makes, also while a new owner has the job.
OutcomeByOwner ==
  [][\A j \in Jobs : outcome'[j] # outcome[j] =>
       \/ /\ lock[j] \in Slots /\ hold[lock[j]] = j
          /\ \A w \in Slots : Acts(w) <=> w = lock[j]
       \/ j \in late /\ outcome'[j] = "failed"]_vars

\* A deadline that has passed is taken back only with the lock, or for a slot that
\* has both the lock and the job in its hands: the heartbeat of an old owner, or of a
\* slot that died, extends nothing.
RenewalByOwner ==
  [][\A j \in late \ late' : lock'[j] # None => hold'[lock'[j]] = j]_vars

\* Per-group FIFO: when a job of a group is handed out, no job with a lower
\* score waits in its group; and at limit 1, unless more were active when the
\* limit was lowered, none is being processed either.
FifoPerGroup ==
  [][\A j \in Jobs : lock[j] # lock'[j] /\ lock'[j] # None =>
       LET g == GroupOf[j] IN
       \A i \in JobsOf(g) : Score[i] < Score[j] =>
          /\ status'[i] # "waiting"
          /\ limit[g] = 1 /\ Len(active[g]) <= 1 => lock'[i] = None]_vars

\* The dispatch index agrees with the groups: a group with waiting jobs is in
\* exactly one of ready and limited, in ready at the score of its head and with
\* a free slot, in limited only while it is full or waits for a retry's backoff.
\* (No stalls, fixed limit 1.)
IndexAgrees ==
  \A g \in Groups :
    /\ gz[g] # {} => ready[g] > 0 \/ g \in limited
    /\ ready[g] > 0 => /\ gz[g] # {} /\ ready[g] = HeadScore(gz[g])
                       /\ Len(active[g]) < limit[g]
                       /\ g \notin limited
    /\ g \in limited => \/ Len(active[g]) >= limit[g]
                        \/ \E j \in delayed : GroupOf[j] = g /\ attempts[j] > 0

\* A group that has waiting jobs and nothing in progress can be found: it is in
\* ready, unless its limit is 0 or a job of it sits out a retry's backoff.
\* (No stalls, fixed limits: see HandOut for what a parked group does to an index.)
IdleGroupIsReady ==
  \A g \in Groups :
    gz[g] # {} /\ active[g] = <<>> /\ limit[g] > 0
      => ready[g] > 0 \/ \E j \in delayed : GroupOf[j] = g /\ attempts[j] > 0

\* No interleaving of scripts leaves a group in both sets, though several of them
\* add to one without removing from the other. (No stalls, fixed limits.)
IndexDisjoint == \A g \in limited : ready[g] = 0

\* Every job that is added is eventually completed or failed.
EveryJobEnds == \A j \in Jobs : status[j] # "none" ~> outcome[j] # None

=============================================================================
