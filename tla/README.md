# GroupMQ in TLA+

A verification development for `groupmq-plus` 1.3.2 (`src/`), a job queue on Redis. Jobs
belong to groups; the jobs of a group are handed out in order, at most *limit* of them at
a time (1 by default), and different groups run in parallel. All state is in Redis. Every
state change of the core is a Lua script (`src/src/lua/`), which Redis runs atomically;
everything between two scripts is asynchronous TypeScript (`src/src/queue.ts`,
`src/src/worker.ts`) of any number of processes that may stall or die.

## Inventory

| part | state | operations | what is hard | module |
|---|---|---|---|---|
| job admission | `job:{id}`, `g:{gid}`, `delayed` | `enqueue`, `promote-delayed-*`, `change-delay` | delay against order, a group in two index sets | `GroupQueue` |
| ids and idempotence | `unique:{id}`, `job:{id}`, all sets of ids | the idempotence block of `enqueue`, `enqueue-batch`; every script that deletes a hash or a key | a late call for an old job meets the new one of its id | `JobId` |
| dispatch index | zsets `ready`, `limited` | end of nearly every script, `setConcurrency`, `setConfig`, `rebuildLimitedSet` | every path that frees a slot must put the group back; indices and counts read before a change and used after it | `GroupQueue`, `Dispatch` |
| reservation | `g:{gid}:active`, `processing`, `processing:{id}` | `reserve`, `reserve-batch`, `reserve-atomic` | recovery inside the reserve call | `GroupQueue` |
| blocking reserve, strategies | a group in a worker's hands | `reserveBlocking`, `acquireJob` | several calls per job; the window after `BZPOPMIN` | `Dispatch` |
| completion | retention zsets, `g:{gid}:meta` count | `complete-with-metadata`, `complete-and-reserve-next-with-metadata` | chaining, out-of-order completion, clean-up of the "empty" group | `GroupQueue` |
| failure | `attempts`, delayed set | `retry`, `record-job-result` then `dead-letter` | two calls for one final failure, late answers of slots that lost the lock | `GroupQueue`, `JobId` |
| stalled recovery | `stalledCount`, deadlines | `check-stalled`, `cleanup`, sweep in the reserve scripts | three recoveries racing for one job and its old owner | `GroupQueue` |
| heartbeat | deadlines | `heartbeat` | renewal against recovery | `GroupQueue` |
| limits and pause | `config:{gid}`, `paused` | `setConcurrency`, `setConfig`, `pause`, `resume` | change between two reservations | `GroupQueue`, `Dispatch` |
| worker | promises, timers, `AsyncFifoQueue` | run loop, `processJob`, `handleJobFailure`, `close` | overlap of fetching, chaining, closing; calls that fail | `WorkerLoop` |
| flows | `flowRemaining`, `flow:children`, `flow:results` | `enqueue-flow`, decrements in six scripts | a child counted twice, or never | `Flow` |
| repeating jobs | `repeat:*`, `sched:lock` | `addRepeatingJob`, `processRepeatingJobsBounded`, `removeRepeatingJob` | several calls per tick, crash in between, lock that expires | `RepeatScheduler` |
| staging | `stage`, `promoter:lock` | staging branch of `enqueue`, `promote-staged`, promoter | order after promotion, clocks, lock release | `Staging` |
| batching of add | buffer, timer, flush in flight | `add` with `autoBatch`, `flushBatch`, `close` | adds and close during a flush, failing or lost replies | `QueueClient` |
| waiters | waiters of the process, events | `waitUntilFinished`, `handleJobEvent` | an event before the subscription | `QueueClient` |
| queries | none | `getJob`, `getJobs...`, `getJobCounts`, `Job.fromStore` | several reads while jobs move | `StatusView` |
| administration | all of the above | `remove`, `clean`, `changeDelay`, `promote` | removal from every set and counter | `JobId`, `Flow`, `Staging`, `StatusView` |
| logger, adapters, website, tools | none of their own | | | not modelled |

What makes them correct: a job is in one place and ends once, by the result of its owner;
a group never gets more active jobs than its limit and hands them out in order; a group
with work can be found by the workers; a crash loses no job and no slot; every job ends; what
a caller is told is true. `PROJECT.json` lists each component with its status and each hazard
at its line with the properties that would catch it.

The parts meet in the keys of Redis, so every module has the keys its properties are about
and reduces the scripts it shares with another module to what they do to those keys. The
comment that opens a module says what it leaves to which other one.

## Modules

| module | what it is |
|---|---|
| `GroupQueue` | the core: admission, dispatch index, reservation, completion, failure, recovery, heartbeat, limits, pause |
| `GroupFifo` | the abstract queue a user sees: phase and owner of each job, a limit per group, order within the group |
| `GroupQueueFifo` | the refinement mapping of `GroupQueue` to `GroupFifo` (`ImplementsFifo`) |
| `Dispatch` | what takes several calls: `reserveBlocking`, strategies, `rebuildLimitedSet`, over the index of groups |
| `WorkerLoop` | a worker process: run loop, promises, chaining, stalled checker, close |
| `JobId` | jobs that bear one id one after another: adds, late calls, removals |
| `Flow` | parents and children: the counter, the list of children, the results, and every script that ends or deletes a job |
| `RepeatScheduler` | repeating jobs: definitions, schedule, lookup keys, the schedulers and their lock |
| `Staging` | ordering delay: the staging set, promoters and their lock, clocks |
| `QueueClient` | `Queue` in a client process: add with and without batches, `waitUntilFinished`, close |
| `StatusView` | the queries, read by read, against the scripts |
| `MC...` | the instances TLC checks |
| `...Proofs` | theorems and proofs: `GroupQueueProofs`, `DispatchProofs`, `WorkerLoopProofs`, `StagingProofs`, `FlowProofs`, `JobIdProofs`, `StatusViewProofs`, and `QueueCallsProofs` for `QueueClient` and `RepeatScheduler` |

### GroupQueue

Every variable is a key of Redis, except `hold` and `stage` (where a worker slot is in
`processSingleJob` / `handleJobFailure`) and the history variable `outcome`; the comment
at each declaration names the key. Every script is one action, the sweep of expired jobs
inside the reserve scripts included, and a worker slot makes its calls one by one:

- producers: `Add`, `AddDelayed`; scheduler: `Promote`, one job per script round;
- `ReserveNone`, `ReserveJob` (`reserve.lua`), `ReserveBatch`, `ReserveAtomic`;
- `CompleteJob`, `CompleteAndReserveNext`, `Retry`, `RecordFinalFailure` followed by
  `DeadLetter`, `LockLost` when the slot's token is gone, `Heartbeat`, `Crash`;
- `DeadlinePasses` (the clock), `CheckStalled`, `Cleanup`, one job per round;
- `SetConcurrency`, `Pause`, `Resume`.

The order of reads and writes within a script is kept where it can be seen:
`ParkedBy` counts the job being recovered (`LLEN` before `LREM`), `HandOut` removes a
group from `ready` by the index read before the sweep, `TakeBatch` removes every served
group from `ready` at the end.

Abstractions. The token is the slot (a slot holds one job, the code draws a fresh UUID
per reservation); the clock is the set `late`; throttles and circuit breakers are
choices; the seven-field result strings, events, retention zsets and the `groups` set are
left out; `Score` is any injective map, so the arithmetic of `enqueue.lua` is not
covered. The branches for a missing job hash in the reserve scripts and the scan limits
(20 groups, 100 jobs) are not reached by the modelled operations and bounds. A job id is
added once; ids that are added again and removals are in `JobId`, flows in `Flow`, staging in
`Staging`, batches, `setConfig` and the rebuild of the index in `Dispatch`.

The zsets `ready` and `limited` differ in the model: nothing reads a score of `limited`,
so it is a set; `ready` maps a group to its score, 0 for absent (the score of a group can
be out of date, and is then what the scan order goes by).

### RepeatScheduler

Unlike the core, repeating jobs use no script: adding, removing and a scheduler's pass are
chains of Redis calls, and every call is an action. `meta`, `sched`, `lookup` and `locked`
are keys of Redis; `planned`, `pass`, `now`, `key` and `seen` are locals of the code, and
`adding` and `removing` say how far a call has come; `ran`, `dead` and `overlap` are history.

- `addRepeatingJob`: `AddStore`, `AddList`, `AddLookup`; two definitions may share a name
  (group and repeat options), and the later add then takes over the lookup key;
- `removeRepeatingJob`: `RemoveMark`, `RemoveUnlist`, `RemoveLookup`;
- `processRepeatingJobsBounded`: `Start` takes the lock, then round by round `Scan`, `Read`,
  `Take` (out of the schedule), `Store` (the copy read before), `Plan` (back on the
  schedule), `Enqueue`; `Unlist` and `Discard` for a definition that is gone or marked;
  `Fail` is any call that throws, `GiveUp` the `ZREM` of the catch block, `GiveUpFails` the end of
  the pass when that throws too, `Die` the end of the process;
- `Tick`, and `LockExpires`: the TTL may run out at any time, as nothing renews it.

The two reads of the removal are one step with the SET that follows, since of the copy they
return only the flag matters and the flag is what the SET writes. Left out: the synthetic
hash `job:repeat:{key}`, cron patterns (an interval stands for both), the promotion of
delayed jobs at the start of a pass (`Promote` in `GroupQueue`), the limit of 16 entries per
pass, a ZRANGEBYSCORE that throws (the pass ends), a second remover of one definition, and
what `enqueue.lua` does with an instance.

### Flow

`enqueue-flow.lua` stores a parent with the status waiting-children and the number of its
children in the hash field `flowRemaining` (`remaining`); each script that ends a child stores
its result (`result`, the hash `flow:results:{parent}`), decrements the counter and releases
the parent when it reaches zero. `kids` is the set `flow:children:{parent}`, which only
removals shrink. `status`, `attempts`, `stalled` and `owner` are the hash and the token of a
job, `hold` and `stage` what a slot is doing, `added` is history.

- `AddFlow`; `Promote`; `Reserve`, any of the reserve scripts or a chained reservation;
- `CompleteJob`, `Retry` (with or without backoff), `RecordFinalFailure` and `DeadLetter`, the
  pair of calls of which only the first counts the child, `RecordLost` when the first one
  throws and the worker goes on, `LockLost`, `Crash`;
- `CheckStalled`, and `Sweep` for the sweep in `reserve` and for `cleanup.lua`;
- `Remove` (`remove.lua`) and `Clean` (`clean-status.lua`), which count what they delete.

The flow module and the core share the scripts and look at different keys: groups, order,
limits, index sets and pause are left to `GroupQueue`, so a waiting job is given to any slot;
what waits for what is left to `Flow`. A completion that chains is a completion followed by a
reservation. An attempt is counted by the call that settles it. Retention keeps all completed
or failed jobs or none; trimming old ones is left out, as are ids added twice and
`changeDelay`. A child that ends after its parent was removed decrements a counter without a
parent, in the model as in the code (`HINCRBY` creates the hash again).

### Dispatch

Taking a job is one script in `GroupQueue`; here it is the chain of calls a worker makes. The
queue is reduced to what those calls see: per group the waiting jobs (`gz`), the active ones,
the limit, and the two index sets.

- `reserveBlocking`: `Block` (`isPaused`), `Pop` (`BZPOPMIN`: the group is in no set now, but
  in `held`), `PopTimesOut`, `TryPopped` (`reserve-atomic.lua`), `Count` (`ZCARD`), `Restore`
  (`ZADD` with the score that was popped), `Crash` at any of these moments;
- a strategy: `List`, then `Try` group by group. What it lists is modelled for the three server
  algorithms (`Head`, `Sampled`, `Aged`); the order of the attempts, which is floating-point
  weights and random numbers on the client, may be any;
- `rebuildLimitedSet`: `RebuildCounts`, `RebuildHead`, `RebuildChecks`, `RebuildRemoves`,
  `RebuildAdds` for one group after the other, with everything else in between;
- `Reserve` is `reserve()` of any worker. It reads the groups of the lowest scores (`Scanned`),
  parks the full ones it comes past (`Parks`) until it finds one that has a job and room, and takes
  that job (`TakeScanned`) or none (`FindNothing`). Then it removes from ready what stands at the rank
  the group had in what was read: after a group was parked on the way that is another group, or
  none (`Robbed`); and it puts its own group into one set without taking it out of the other;
- `Add`, `AddBatch` (`enqueue-batch.lua` has index rules of its own), `Finish`, `SetConfig`
  (writes a limit, moves nothing), `Pause`.

`lost`, `disturbed` and `tainted` are history: which groups a crash or a removal by rank took out of
ready that are not back in it, and whether something ran during the last rebuild or during any. `Invalid` and `Missing` are what
`validate-limited-set.lua` reports.

### WorkerLoop

One worker process. An action is the segment of JavaScript that runs when an answer arrives;
a call has its effect when it is answered. `Iterate` chooses the call of the loop (batch,
strategy, blocking or plain reserve, or the promise queue), `BatchAnswers`, `FetchAnswers`,
`FetchEmpty`, `FetchFails` and `Resume` are its ends, `Take` starts `processJob`. A reply that cannot
be parsed (a payload with `|||` in it) leaves a locked job nobody has, and each call takes it
differently: `reserveBatch` passes over it (`Readable`), `reserve` answers null (`FetchEmpty`),
`reserveBlocking` goes on to block or to a plain reserve (`BlockingGoesOn`), and `reserveAtomic`
throws, which ends the fetch of a strategy (`StrategyThrows`). A lost reply may have locked a job,
that of a batch several (`LockedUnseen`).
`HandlerEnds`, `CompleteAnswers` or `CompleteFails`, `FailureAnswers` or `FailureFails` carry a
job through, `Resolve` hands a chained job back through the promise queue; `CheckStalled` is
the interval; `Close`, `ClearTimers`, `EndGrace`, `EndRace` are `close()` up to each of its
awaits. The server gives out the first job of a group at limit 1. Clocks are left out: a timer
may fire at any time, which covers every grace period. `fifo`, `work` and `tracked` are the three accounts
the code keeps of jobs in hand.

### JobId

Jobs are numbered in the order they are stored, and `job[i]` is the one the hash of id `i`
describes, so the model can tell a job from its successor, which the keys cannot. A worker
slot remembers both id and job. `Add` is the idempotence block of `enqueue.lua` (`Taken`: the
key, the hash, the three sets it asks, `keepCompleted`), `AddBatch` that of `enqueue-batch.lua`
(the key alone). Everything that moves or ends a job follows: `PromoteDelayed`, `PromoteStaged`,
`ChangeDelay`, `Reserve`, `CheckStalled`, `Complete` (which trims the oldest completed jobs),
`Retry` and `RecordAttempt` (which writes into the hash whether it is there or not: `ghost`),
`RecordFinal` and `DeadLetter`, `LockLost`, `Crash`, `Remove`, `Clean`. `keep` says whether completed
and failed jobs are kept; all four settings are initial states. All jobs are of one group,
whose count is there since the clean-up of an empty group deletes what is in it.

Bounds named in the module, each leaving out a case in which the code does not do what the
properties say (see *Disagreements*): nothing is staged when `keepCompleted` is 0 (`Store`), no add
comes between the record of a final failure that deleted the key and its dead letter
(`Settled`), `Clean` takes only ids whose hash has the status of the set, `RecordFinal` answers.
Deadlines pass and processes die while the handler runs. Children and parents of flows are
left out.

### Staging

`Add` is the staging branch of `enqueue.lua`, `Remove` what `remove.lua` leaves in the set, `Take`
a reservation. A promoter process has `Start`, `Started`, `StartFails`, `Stop`, `Crash`, and
each of its calls of `runPromotion` is `RunPromotion` (`SET NX PX`), `Promote` (the script with
the caller's clock), `ReadLock` and `DeleteLock` (the `GET` and the `DEL` of the release), or
`CallFails`. `Tick` moves the clock of the server and runs down the lock's lifetime. The assumption `Latency + Skew <= Delay` is
what orderingDelayMs is for: a job is added at most `Latency` after its orderMs, and the clock
of a promoter is ahead by at most `Skew`. The key `stage:timer` is left out: its expiry makes a
call that the interval makes too.

### QueueClient

What one client process keeps between calls. `Add` buffers a job, `TimerFires`, a full batch
and `ImmediateFires` flush, `FlushAnswers` and `FlushFails` end a flush; without autoBatch
`AddSingle`, `SingleAnswers`, `SingleFails`. The first call of a script loads it with a command
of its own, so a call can be overtaken by `QUIT` (`Overtaken`). `waitUntilFinished` is `Wait`,
`FirstRead`, `Register`, `SecondRead`, `Deliver` or `TimeOut`; `JobEnds` is the script that
publishes. `close()` is `Close`, `CloseFlushed`, `Unsubscribe`, `Quit`.

### StatusView

`in` is the set a job is in for each status and `raw` the status in its hash; `Enqueue`, `Ready`,
`Reserve`, `Complete`, `Retry`, `Postpone`, `RecordFailure`, `DeadLetter`, `RemoveJob` move jobs
as the scripts do. A call is `GetJob`, `GetJobCounts`, `GetJobsByStatus`, `GetEndedJobs`, `GetRows`
or `GetFlowChildren` with the list of reads it makes, `Read` makes the next one, and `Answer` is
what the code computes from them. A read of `getJobsByStatus` that fails is passed over (`Skip`, the two
empty catch blocks), any other ends the call (`Reject`). `seen` is history: the statuses each job had
during the call.

`in["group"]` is the sets `g:{gid}` of all groups together, and `groups` the set of their names, which
`getJobsByStatus` reads first: a group is listed while it has a live job, and may stay longer
(`ListGroup`). `Met` says which waiting jobs a read of them meets. What a call reads of a set is
`Entries`: its first `call.limit` members, twice the length of the page and no more than `Cap`, newest
first for the two sets of ended jobs. Of the waiting jobs it reads the first of each group, as many
as the limit divided by the number of listed groups and rounded up (`InShare`, `Heads`), of at most
`Scan` groups. `PageIds` joins what was read, drops repetitions and cuts the page; the status of an id
is that of the set it was read from last (`KnownStatus`).

## Runs

Runs named `GroupQueue...` use `MCGroupQueue`, the others `MC` and their own name.
`CHECK_DEADLOCK FALSE` everywhere: a queue whose jobs are all done stops, as do the bounded
clocks.

| run | instance | shows |
|---|---|---|
| `GroupQueueCore` | 3 jobs, 2 groups, 2 slots, limit 1, delay, pause, backoff, no lost lock | `TypeOK`, `CountCoversLive`, `IndexAgrees`, `FifoPerGroup` |
| `GroupQueueParallel` | 3 jobs of a group, 3 slots, limit 2, no lost lock | `IdleGroupIsReady`, `IndexDisjoint`, and `EveryJobEnds` under `FairSpec` |
| `GroupQueueFaults` | 2 jobs of one group, 3 slots, limits 0 to 2 changing at any time, deadlines missed and crashes at every stage | `OnePlace`, `SlotsMatchLocks`, `OneOutcome`, `OutcomeByOwner`, `RenewalByOwner`, `ImplementsFifo` |
| `GroupQueueStranded` | limit 1, missed deadlines | violates `IdleGroupIsReady` |
| `RepeatScheduler` | 2 definitions of one name, 2 schedulers, clock from 1 to 3, the calls for `d1` may fail or end `p2`, `d2` may be removed | `NeverForgotten`, `Spaced`, `DeadNeverRuns`, and `EveryRepeatRuns` under `FairRepeatSpec` |
| `Flow` | a parent, 3 children, 2 slots; one child may be delayed, the parent and a child stall, the parent and the other children be removed | `CounterExact`, `ParentAfterChildren`, `ResultsComplete` |
| `WorkerLoop` | 3 jobs of 2 groups, 2 promises, with and without a strategy, a job a crashed worker left locked, a reply that cannot be parsed, a call that fails | `HandsAccounted`, `EveryLockHeld`, and `Served`, `Drained` under `FairSpec` |
| `QueueClient` | 3 adds, single or in batches of 2, 2 waiters, one with a timeout, a call that fails, close | `AddAnswersTrue`, `NoLostWakeup`, and `Answered` under `FairSpec` |
| `Dispatch` | 3 groups, 4 jobs, a blocking worker and one with a strategy, a `reserve()` that scans 2 groups, one crash, `setConfig` or pause, 2 rebuilds | `TypeOK`, `IdleGroupReachable`, `RebuildRepairs` |
| `Staging` | 2 jobs, 2 promoters, a lock of the shortest lifetime, clocks that differ, one crash, stop or failed command | `TypeOK`, `ServedInOrder`, and `Promoted` under `FairSpec` |
| `JobId` | 2 ids, 3 jobs, 2 slots, completed and failed jobs kept or not | `TypeOK`, `NoneLost`, `NoneReturns`, `KeysHaveJobs` |
| `StatusView` | 3 jobs of 2 groups, up to 2 scripts and one failed read during a call, pages of one job and open lists, limits 0 and 2 | `TypeOK`, `AnswerWasTrue`, `RestingJobsShown` |

The index properties (`IndexAgrees`, `IndexDisjoint`, `IdleGroupIsReady`) are claimed without stalls and
at fixed limits only, and `EveryJobEnds` without stalls: what the other cases lead to is under
Disagreements. `IndexAgrees` and `IdleGroupIsReady` except a group one of whose jobs sits out a
retry's backoff (`retry.lua` then refreshes the score but does not move the group out of `limited`).

### Bounds

All bounds are constants, or guards with a comment that begins with "Bound".

- `GroupQueue`: `Delayable` (jobs that may be added with a delay), `Backoffs`, `Limits`,
  `WeakStages` (where a slot may crash or miss its deadline), `MayPause`; `attempts` saturates
  above every value it is compared with (`Bump`). Two jobs of a group and three slots are what
  the races need: the old owner of a recovered job, its new owner, and a third party that
  recovers, completes or reserves; two groups and three jobs are what the index needs (a
  victim at a stale index, a group that stays behind another). `MaxAttempts` 2 and
  `WorkerMaxAttempts` 3 let a retry, a `-1` answer and the worker's own limit all occur;
  `MaxStalled` 2 lets a stall be recovered once and failed the second time.
- `RepeatScheduler`: `MaxTime` (the clock), `Fragile` (definitions whose calls may fail),
  `Removable`, `Mortal` (schedulers that may die at work on a fragile definition), and four guards:
  the first run of a definition falls before the clock stops, a removal begins and the catch block
  fails before it, and passes overlap once. With the interval 1 and the clock from 1 to 3 a
  definition that is added at once is due at 2 and again at 3, without an overlap, which is what
  `Spaced` is about. Two schedulers show every overlap of a read with another process's write.
  What is promised is promised to definitions outside `Fragile`.
- `Flow`: `Delayable`, `Stallable` (jobs that may miss a deadline or lose their slot),
  `Removable`, `RemoveResolved`. Three children are the least with which one can be counted
  twice while another is still to come and a third has its own slot; two slots let a late
  answer meet the new owner. `KeepFailed` is FALSE there: a failed child that is kept can be
  swept back between the two calls of its failure, and is then counted twice. Parents without
  children are left out of `CounterExact`: by the code they wait for ever. That a parent is
  released at all is stated as safety: the counter of a waiting parent is exact and not zero,
  so the last of its children to end releases it.
- `WorkerLoop`: `Torn` (jobs whose reply cannot be parsed), `Orphans` (jobs a crashed worker
  left locked), `MaxFaults`. Two promises are the least at which a chained job, a fetched one
  and a batch compete for a place; two jobs of one group chain.
- `QueueClient`: `Awaited` (jobs that may end), `Forgotten` (not kept), `Silent` (end without an
  event), `MaxFaults`. Three jobs at a batch of two leave one behind a flush.
- `Dispatch`: `MaxUpsets` (crashes, `setConfig`, pauses), `MaxRebuilds` (the second may find what
  a disturbed first one left; the last one runs alone), `FewRebuilds` (in the run a rebuild starts
  while at most two groups have had jobs and the strategies are idle, and one step runs
  during it; the proofs hold with it and without), `ScanLimit` (20 in the code; the run 2, so that
  of three groups one is not read). A pause falls where the calls can tell. Three groups
  are the least that a removal by rank needs: one to be parked, one to be served, one to be
  removed in its place; four jobs give one of them a second job.
- `Staging`: `MaxTime`, `MaxAdds`, `MaxUpsets`, `Limit` (the script moves 100 jobs; the run 2, and
  fewer entries than that are dead), `SeqBase` (1000 in the code, above `MaxAdds`).
- `JobId`: `MaxJobs`. Three jobs on two ids let one id have a successor while the other id
  keeps the group alive, or all three be of one id; two slots let a late answer for the first
  job meet the worker of the second.
- `StatusView`: `MaxMoves`, `MaxSkips`, `Pages`, `Asks`, `Kids`, `Unbounded` (what the code takes for an
  open end: 100), `Cap` (500 in the code; the run 3, more than its pages ask for), `Scan` (100 in the
  code; the run 2, all its groups), `Limits` (of `getCompleted` and the like), and `Movers`: during a call
  scripts move job 1 only, and no other job is delayed, staged or failed in the run. Two scripts
  take a job past a read in either direction; two groups, one of them with two jobs, are the
  least in which a share falls short of what waits. The proofs bound none of this.

Slots are symmetric in the runs of `GroupQueue` and `Flow` that check safety; no run of a
liveness property uses symmetry.

### Fairness

- `GroupQueue`: some worker loop keeps reserving (`worker.ts`, `_runLoop`), each slot finishes
  what it holds (the handler returns or throws, the calls after it are awaited), the scheduler
  timer promotes what is due. None for adds, crashes, deadlines, recoveries, limits, heartbeats.
- `RepeatScheduler`: the clock and the TTL of the lock run on, the timer of some scheduler fires
  while it is alive (the `setInterval` of `run`), and a pass makes its next call as long as its
  process lives.
- `WorkerLoop`: the loop goes on (every call is answered or fails), every promise of
  `processJob` goes on, the interval of the stalled check fires. None for `close`, faults, or
  the ends of close's grace periods.
- `QueueClient`: calls in flight are answered or fail, timers and immediates fire, messages are
  delivered, a `close()` that began goes on. None for adds, waits or ends of jobs.
- `Staging`: the clock runs, a promoter that is to start starts, the interval calls
  `runPromotion`, calls under way go on. None for adds, crashes, stops and failures.

## Proofs

Every theorem holds for all values of the constants that meet the assumption of its module.

`GroupQueueProofs` (`ConstantsAssumption`: a finite set of jobs, distinct positive scores,
tokens different from jobs, non-empty attempt bounds; groups and slots may be infinitely
many) proves `Invariance`: `Inv`, which is `TypeOK`, `OnePlace`, `CountCoversLive` and
`RecordedIsFinal`, is an inductive invariant of `Spec`. `RecordedIsFinal` is the
strengthening: a slot between `record-job-result.lua` and `dead-letter.lua` that still has the
lock holds a job whose hash says failed or is gone. Without it `DeadLetter` could unlock a
job whose status is still "processing". There is one lemma per action (`...KeepsInv`); those
about the count rest on lemmas on how `Live(g)`, the unfinished jobs of a group, grows and
shrinks by one job (`LiveGrows`, `LiveEnds`, `LiveShrinks`), those about reservation on
`LockAllKeepsInv`, which says what the common end of the reserve scripts does to the places of
jobs. `TypeCorrect`, `OnePlaceHolds` and `CountCoversLiveHolds` follow.

It proves the action properties `OutcomeByOwner`, `RenewalByOwner` and `OneOutcome`. The first says who
acts in the step that writes a result (`Acts`): the slot that holds the job and its lock, and no
other. The second says the same of deadlines that are taken back, which is what keeps an old
owner's heartbeat from the new owner's lock. The third needs a further invariant, `Ended` (a job with an outcome is in no waiting or delayed set, and its lock,
if one is left, is that of a failure being recorded), and the assumption `KeepFailed = FALSE`:
with `keepFailed > 0` the hash of a failed job keeps its score, and a sweep that finds its lock
expired gives the finished job back to its group.

On `Inv` rests, in the second half of the module, what the scripts promise.

- `SlotsMatchLocks`, which is inductive together with `Inv`. `Exact(s, S)` says that a list holds
  each member of a set once; `ExactPush`, `ExactTail`, `ExactWithout` and `ExactPruned` say what the
  list operations of the scripts do to that.
- `FifoPerGroup`: `Serves` is what the reserve scripts have in common, that a job gets a lock only
  as the first of its group's waiting set as the sweep leaves it; chaining has a lemma of its own.
- `ImplementsFifo`, under `KeepFailed = FALSE` (in the abstract queue a job ends once, and so needs the
  precondition of `OneOutcome`): the initial states agree, every action is a step of `GroupFifo` or a
  stutter. The bound on the running jobs of a group is the length test of the scripts, carried
  over to the set of locked jobs by `SlotsMatchLocks` (`ExactLength`).
- `IndexDisjoint`, `IdleGroupIsReady` and `IndexAgrees` from `IndexInv`, in the setting `Settled` of their
  runs: no deadline is missed and limits stay as they are. Then a lock is always in the hands of a
  slot (`Steady`), a group in ready has work, room and the score of its head (`Fresh`), and a group
  with work but nothing in progress is in ready or backs off (`Found`); at limit 1 a group with
  work is in one of the two sets (`OnlyOne`). Every script does one of four things to a group:
  it keeps its place (`Kept`), places it by its head and its room (`Placed`), takes it out
  (`Emptied`), or lends its head and takes it out of ready (`Lent`); `HandledKeeps` says that each
  is in order. `RanksDiffer` is why the index of a group in ready is the index of no other one:
  the scores are those of different jobs. Without `Settled` the theorems are false; the attempt to
  do without fixed limits showed the stranded group described below.

`DispatchProofs` (`DispatchAssumption`: finitely many groups, at least one; any jobs, workers, limits,
priorities and number of rebuilds) proves `IdleGroupReachable` and `RebuildRepairs` from
`DispatchInv`. Neither is inductive: a batch of adds leaves a limited group where it is, so
the first needs that a group in limited has active jobs, whose completion will move it
(`LimitedIsBusy`); and a rebuild writes what it read some calls before, so both need that what
it has read is still so unless something ran (`ReadsHold`, `QuietSoFar`). `RepairedSoFar` says that the
groups a rebuild has been through are placed. A step outside a rebuild has to show that it leaves
each group with an active job, in ready, or as it was (`Found`, `Same`), and lets go of none that it
does not leave so (`DisturbKeeps`); `TakeFills` and `RefuseParks` say so of the
script `reserve-atomic.lua`. Of `reserve()` it holds because what it parks is full and what it serves
has an active job then; a group that it removes by rank is in `lost`, until it is in ready again.
`ListsSome` is the lemma on the strategies: whatever the fetch limit, the share and the
scan depth, the list of an algorithm has a group when one is ready.

`WorkerLoopProofs` (`WorkerAssumption`) proves `HandsAccounted` and `EveryLockHeld` from `LoopInv`, which
adds to the types and to `HandsBounded` and `InProgressTracked`: `OneHolder`, that a locked job has one
place among the promises, the queue and the lost replies, without which a job could be settled
twice; `EmptyHanded`, that the loop takes a batch, or blocks, only with nothing in hand, which is
what keeps a batch within the concurrency; and `CloserSeen`, what the loop leaves when it ends and
what `close()` may conclude from it.

`StagingProofs` (`StagingAssumption`) proves `ServedInOrder` from `OrderInv`: a job leaves the
staging set only when no earlier one can arrive any more (`Timely`), so what is staged comes
after what has left (`Sieved`), what waits after what was taken (`TakenFirst`), and a score is
its `orderMs` and a number (`Scored`). The theorem assumes `MaxAdds <= SeqBase`: with as many adds
under one counter as a millisecond weighs in the score the order is lost, as noted below.

`QueueCallsProofs` holds the proofs of the two modules in which a client or a scheduler makes its
calls one by one; the names of `RepeatScheduler` that every specification has begin with Repeat,
so that one module can extend both. About `RepeatScheduler` it proves `NeverForgotten`, `Spaced` and
`DeadNeverRuns` from `RepeatAssumption` (a positive interval; any definitions, names and
schedulers), as consequences of `RepeatInv`: what is scheduled, looked up or worked on was added
(`Known`); a definition nobody removes keeps its value and is not discarded (`Kept`); it is off the
schedule only between the ZREM and the ZADD of a pass (`Scheduled`); a definition marked
while nobody had a copy keeps the mark (`Buried`); while passes do not overlap there is one
pass, and every entry and every copy lies an interval after the last run (`InTurn`). The
properties alone are not inductive: `NeverForgotten` needs `Kept`, so that no pass unlists a
definition it believes gone, and `Spaced` needs the distances on the schedule.

`FlowProofs` proves, from `FlowAssumption` (finitely many children, each with one parent),
`CounterExact`, `ParentAfterChildren` and `ResultsComplete` in the setting `CountedOnce`:
failed jobs are not kept and a counted child is not removed, the two ways the code counts a
child twice. `IInv` says besides that a flow not yet added left no trace (`Fresh`), that a
lock belongs to a job in processing or to a deleted one and a slot with an unsettled job finds
it in processing (`Locked`), that a child with a result is finished and a child off the list
is gone (`Listed`), and that the children of a released parent are finished (`Released`).
Without `Locked` a late answer could count a child again; without `Listed` the counter could
reach zero with a live child. `CountOne` is the common step of all the scripts that count a
child, and rests on the cardinality of the children without a result (`OneLess`); there is
one lemma per action.

About `QueueClient` (`ClientAssumption`) `QueueCallsProofs` proves `NoLostWakeup` (`NothingMissed`)
and `AddAnswersTrue` (`AddsAreTrue`). The first follows from `WaitInv`, which adds `Subscribed`: a
client whose waiter is registered is subscribed, so a job that ends afterwards sends it a
message, and one that ended before is met by the second read. The second follows from
`AddInv`: what is stored, in flight and in the buffer is one line in the order of the adds
(`InLine`, `Numbered`), a job in the process has not been answered (`Unanswered`), and an answer
agrees with what is stored (`Truthful`). `ConcatRange`, `ConcatRising` and the lemmas after them say
what joining and cutting the parts of the line does to that.

`JobIdProofs` (`JobIdAssumption`: finitely many ids, at least one; any slots, number of jobs and
settings of what is kept) proves `NoneLost` (`NoJobIsLost`), `NoneReturns` (`NoJobReturns`) and
`KeysHaveJobs` (`NoKeyIsStale`) from one invariant, `Inv`. `Numbered` ties the status of a hash to
the history of its job; `Placed` says a live job is where its status says, and that a lock
belongs to a job in processing or to one being buried; `Held` that a token always meets the
job its slot took, which is what keeps a late answer away from the successor of an id;
`Keyed` that a key has a job, and that completed jobs are in the set only where they are
kept, so no add replaces one; `Covered` that the count of the group is at least the number
of jobs not counted off, so the clean-up of an "empty" group, which deletes its waiting set,
never meets a waiting job (`GroupStays`). No one of these is inductive without the others.
`MoveKeepsInv`, `DeleteKeepsInv` and `SlotLeavesKeepsInv` are the common steps of the actions that move
a job, delete hashes, or only take a slot further.

`StatusViewProofs` (`StatusViewAssumption`: finitely many jobs and groups; any pages, limits, sets
asked for, failed reads and number of scripts during a call) proves `AnswerWasTrue` and
`RestingJobsShown`. What a call has read is the subject of one invariant, `IInv`: `Placed` (the sets a
job is in go with its hash), `Listing` (the group of a live job is listed), `GroupsFirst` and
`GroupsFound` (the groups are read before the waiting jobs, and that of a job that waits throughout
is among them unless there are as many as `Scan`), `ReadWasTrue` (what was read of a job is among the
statuses it had during the call),
`RestingFound` (a job with one status throughout is in the set of that status, if the set was
read), `QuietSoFar` (while no script ran, what was read is what is there) and `PageFits` (as much is
read of each set as the first two pages have). The properties say what the code makes of those reads, and
need the facts about lists that come first in the module. That the n-th of a finite set of
numbers exists (`Ranked`) is an induction; it is done by the least number without one (`Lowest`,
from the well-foundedness of `<`). From it follow, without further induction, that a set in order
has each member once (`AscendingIs`, `DescendingIs`), what a selection of places of a list is
(`OnlyIs`, `OnlyDistinct`), and that dropping repetitions keeps the members (`UniqueIs`). `KnownIs`
says that the status noted last for an id is that of a set the id was read from; `PagesFull`
counts: either every set was read to its end, or one alone reaches the end of the page.
`ShareFillsPage` is the part of that about the waiting jobs, where a share that is cut off has to
reach the end of the page.

The types (`TypeOK`) of every module with variables are proved, as `TypeCorrect` of the module's
proofs (`RepeatTypeCorrect` for `RepeatScheduler`). Those of `Flow`, `QueueClient`,
`RepeatScheduler` and `WorkerLoop` are proved only; no run spends time on them.

Every safety property that a passing run checks, invariant or action property, is proved. Model-checked
only are the liveness properties (`EveryJobEnds`, `EveryRepeatRuns`, `Served`, `Drained`, `Answered`, `Promoted`):
liveness under fairness, and anything about ENABLED, is out of the prover's reach.

## Disagreements

One run, `GroupQueueStranded`, shows the code doing other than what its documentation says: at
limit 1 the recovery of an expired job counts the job itself as active and parks its group with
nothing running; the job then waits until another job of the group is added.

What follows was met while modelling. Each is a case that some property leaves out, by a
bound or a precondition its comment names; `queue.ts`, `worker.ts` and `*.lua` are in `src/src`.

Failure and recovery:
- A crash between `recordFinalFailure` and `deadLetter` with `keepFailed` 0 leaves a lock on a job
  without a hash. With `keepFailed` set, a sweep gives the failed job back to its group.
- `recordFinalFailure` that throws is swallowed: after the dead letter the hash says processing
  for ever, and a later `remove()` counts the job a second time.
- A job failed by the stalled check publishes no event and is not counted for its parent.
- `reserve.lua` removes the group it served by the index read before the scan (`reserve.lua:227`). When
  the scan parked a full group on its way (`:193`), or the sweep listed one, another group is removed
  instead: it has work and room and is in neither set until its next add, and the served group
  stays in ready, perhaps also in limited (`:249-253` asks neither set). A full group is in ready
  after `setConfig` lowered its limit, and at fixed limits when `reserveBlocking` restores it: it pops
  A, others fill A, its reserve is refused, and its `ZADD` puts the full A back. The next `reserve()`
  parks A, serves B, and takes the idle C out of ready.
- Completions out of the order of the active list can leave the group in `limited` with room.

Ids:
- With `keepFailed` 0, an add of the id between the record of a failure and the dead letter is
  accepted, and the dead letter then takes the new job out of its group.
- With `keepCompleted` 0, adding the id of a staged job, or of a parent that waits for its
  children, stores it again; the comment at `queue.ts:410-411` says such an add is ignored.
- A failed job that is kept loses its key but stays in the zset `failed`; when its id is added
  again, `clean('failed')` can delete the new job.
- `enqueue-flow.lua` stores children without asking whether their id is taken.

Staging:
- The score is `orderMs * 1000` plus a number that counts all adds of a day (`enqueue.lua:105-109`):
  after 1000 or more adds between two jobs of a group, both inside the ordering delay, a
  smaller `orderMs` can come out later.
- Removed jobs stay in the set and `promote-staged.lua` looks at the first 100 entries only, so
  100 of them at the head stop the promotion until they are gone.

Clients and queries:
- `close()` does not wait for a flush in flight (`queue.ts:2672` says it flushes pending jobs).
- `waitUntilFinished` without a timeout waits for ever for a job that is removed, fails by the
  stalled check, or ends unkept between the first read and the subscription.
- In the lists of jobs the raw statuses processing and staged become unknown; a job that moves
  from waiting to active during the call may be missed. `getCompleted(0)` and the like answer
  one job (`queue.ts:1511`), not none.
- `getJobsByStatus` reads of each set twice as many entries as the page has, whatever its start
  (`queue.ts:2253`), and cuts the page out of these: the first two pages are full, as
  `RestingJobsShown` says, later ones may be short or empty. Of the waiting jobs it reads a share of
  each listed group (`queue.ts:2299-2305`), also of those without waiting jobs: with two jobs waiting
  in A and one active in B, `getJobsByStatus(['waiting'], 1, 1)` answers an empty page at rest.
- A read of `getJobsByStatus` that fails is swallowed (`queue.ts:2270`, `:2316`), and the list lacks the
  jobs of that set, without a word to the caller.

Dispatch and workers:
- A crash between `BZPOPMIN` and `reserve-atomic.lua` loses the group until its next add; the
  `ZADD` that restores a group can put it into both sets.
- A rebuild disturbed by a completion can leave an idle group in `limited`.
- The waiting time in the aging algorithm is clamped to 0, so waiting does not raise a
  priority.
- A closing worker goes on chaining; a reply it cannot parse leaves the job to the stalled
  check; an error of a fetch while it closes ends the loop with jobs in hand.

Flows and repeating jobs:
- A child removed after its end, with the parent still waiting, is counted twice; a flow
  without children waits for ever.
- The comment at `queue.ts:756` says a parent is processed after all children "have completed
  successfully". The code, and the tests
  (`src/test/queue.flow.test.ts:72`), release it when all have ended, failed ones included.
- A definition removed while a scheduler has a copy of it is written back and runs on; one in
  the hands of a pass that fails or dies is off the schedule for good; passes that overlap
  enqueue one run twice. A catch block whose own `ZREM` throws ends the pass (`queue.ts:2958`).

## Not modelled

- The logger, the helpers, the BullBoard adapter, the command line tools, benchmarks, examples
  and the website: they keep no state of the queue.
- The cleanup lock and the intervals that call `cleanup()` and collect metrics (the script
  `cleanup.lua` is in `GroupQueue`), reconnection and the error events of the clients, backoff
  times.
- The order in which a strategy tries the groups it has listed: floating-point weights, aging
  and random numbers. `Dispatch` lets it be any.
- What `remove`, `clean`, `changeDelay` and `promote` do to `ready`, `limited` and the active lists;
  `updateData`, which writes the data of a job into its hash; `getUniqueGroups`, `isEmpty` and the
  other counts of groups.
- Ids that are added again within a flow.
- `cleanup-poisoned-group.lua`: nothing calls the method that runs it.

## Plan

1. The index updates of `remove`, `clean` and `changeDelay`, in `Dispatch`, with their cases in
   `DispatchProofs`.
