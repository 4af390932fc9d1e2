----------------------------- MODULE WorkerLoop -----------------------------
(***************************************************************************)
(* One worker process: the run loop that fetches jobs into its             *)
(* AsyncFifoQueue, the promises that process them, the sweep for stalled   *)
(* jobs, and close().  JavaScript runs one segment between two awaits at a *)
(* time, so an action is the segment that runs when an answer arrives.  A  *)
(* call has its effect when it is answered.                                *)
(*                                                                         *)
(* The server is what the loop sees of it: a group gives out its first     *)
(* waiting job while none of its jobs is locked (a concurrency limit of 1; *)
(* GroupQueue has the scripts).  Clocks are left out: a timer is a step    *)
(* that may come at any time, a delay before a retry is no delay.          *)
(***************************************************************************)
EXTENDS Integers, Sequences, FiniteSets, FiniteSetsExt, SequencesExt

CONSTANTS
  Jobs,         \* job ids, numbers in their order within a group
  GroupOf,      \* [Jobs -> groups]
  Null,         \* what a promise without a job resolves to
  Concurrency,  \* option concurrency
  Strategies,   \* bound: may the option strategy be set (TRUE), or not (FALSE)
  Torn,         \* jobs whose data holds the delimiter "|||" of a reply
  Orphans,      \* jobs a crashed worker left locked
  MaxAttempts,  \* option maxAttempts
  MaxStalled,   \* option maxStalledCount
  MaxFaults     \* bound: calls that fail

ASSUME WorkerAssumption ==
  /\ Jobs \subseteq Nat /\ IsFiniteSet(Jobs)
  /\ Torn \subseteq Jobs /\ Orphans \subseteq Jobs /\ Null \notin Jobs
  /\ \A i, j \in Orphans : GroupOf[i] = GroupOf[j] => i = j
  /\ Concurrency \in Nat \ {0} /\ MaxAttempts \in Nat \ {0}
  /\ MaxStalled \in Nat /\ MaxFaults \in Nat /\ Strategies \subseteq BOOLEAN

VARIABLES
  store,    \* the server: where a job is
  stalls,   \* the server: stalledCount of a job
  lost,     \* the locked jobs no process has in hand; nobody renews them
  strategy, \* option strategy is set
  loop,     \* where _runLoop is; a call's name while it waits for the call
  fifo,     \* asyncFifoQueue.queue: what the resolved promises left
  work,     \* the pending promises of processJob, by job
  tracked,  \* jobsInProgress
  empties,  \* blockingStats.consecutiveEmptyReserves, up to 2
  timers,   \* the intervals that run
  throws,   \* failed attempts of a job
  closer,   \* where close() is
  stopping, \* flag stopping
  aborted,  \* history: an error made the loop return while stopping
  expired,  \* history: close() did not see the loop end
  faults    \* bound: calls that may still fail

server     == <<store, stalls, lost>>
processing == <<work, tracked, throws>>
closing    == <<closer, stopping, aborted, expired>>
vars == <<server, strategy, loop, fifo, processing, empties, timers,
          closing, faults>>

Fetches == {"reserve", "blocking", "strategy"}
Loops   == Fetches \cup {"off", "check", "top", "inner", "batch", "take",
                         "pause", "ended"}
Works   == {"none", "handle", "complete", "fail"}
Timers  == {"cleanup", "scheduler", "stalled"}

\* The type of every variable.
TypeOK ==
  /\ store \in [Jobs -> {"waiting", "locked", "done"}]
  /\ stalls \in [Jobs -> 0..MaxStalled] /\ lost \subseteq Jobs
  /\ strategy \in BOOLEAN /\ loop \in Loops
  /\ fifo \in Seq(Jobs \cup {Null}) /\ work \in [Jobs -> Works]
  /\ tracked \subseteq Jobs /\ empties \in 0..2 /\ timers \subseteq Timers
  /\ throws \in [Jobs -> 0..MaxAttempts]
  /\ closer \in {"open", "delay", "grace", "race", "closed"}
  /\ stopping \in BOOLEAN /\ aborted \in BOOLEAN /\ expired \in BOOLEAN
  /\ faults \in 0..MaxFaults

-----------------------------------------------------------------------------
\* The jobs that are being processed, and the jobs in the worker's hands.
Processed == {j \in Jobs : work[j] # "none"}
Queued    == {fifo[i] : i \in DOMAIN fifo} \ {Null}
InHand    == Processed \cup Queued

\* asyncFifoQueue.numTotal(): the pending promises and the resolved ones.
\* A batch is awaited outside the queue.
NumTotal ==
  Cardinality(Processed) + Len(fifo) + (IF loop \in Fetches THEN 1 ELSE 0)

\* Mutant: the queued promises are not counted.
NumPending ==
  Cardinality(Processed) + (IF loop \in Fetches THEN 1 ELSE 0)

\* The waiting jobs of j's group, and the jobs a reserve script may give out.
WaitingWith(j) == {k \in Jobs : GroupOf[k] = GroupOf[j] /\ store[k] = "waiting"}
Heads ==
  {j \in Jobs : /\ j \in WaitingWith(j) /\ \A k \in WaitingWith(j) : j <= k
                /\ \A k \in Jobs : GroupOf[k] = GroupOf[j] => store[k] # "locked"}

\* A promise in the queue has resolved with this.
Settled(value) == fifo' = Append(fifo, value)

\* Where fetch() ends that was called until it gave a job.
FirstJob ==
  LET jobs == {i \in DOMAIN fifo : fifo[i] # Null}
  IN  IF jobs = {} THEN Len(fifo) ELSE Min(jobs)

Put(S, place) == [j \in Jobs |-> IF j \in S THEN place ELSE store[j]]

Init ==
  /\ store = [j \in Jobs |-> IF j \in Orphans THEN "locked" ELSE "waiting"]
  /\ stalls = [j \in Jobs |-> 0] /\ lost = Orphans
  /\ strategy \in Strategies /\ loop = "off" /\ fifo = <<>>
  /\ work = [j \in Jobs |-> "none"] /\ tracked = {} /\ empties = 0
  /\ timers = {} /\ throws = [j \in Jobs |-> 0]
  /\ closer = "open" /\ stopping = FALSE
  /\ aborted = FALSE /\ expired = FALSE /\ faults = MaxFaults

-----------------------------------------------------------------------------
(* The stalled checker. *)

\* check-stalled.lua: what nobody renews goes back, or fails for good.
Recover(S) ==
  /\ store' = [j \in Jobs |->
       IF j \notin S THEN store[j]
       ELSE IF stalls[j] < MaxStalled THEN "waiting" ELSE "done"]
  /\ stalls' = [j \in Jobs |->
       IF j \in S /\ stalls[j] < MaxStalled THEN stalls[j] + 1 ELSE stalls[j]]
  /\ lost' = lost \ S

\* checkStalled() on its interval; an ended worker looks at nothing.
CheckStalled ==
  /\ "stalled" \in timers /\ ~stopping
  /\ \E S \in SUBSET lost \ {{}} : Recover(S)
  /\ UNCHANGED <<strategy, loop, fifo, processing, empties, timers, closing,
                 faults>>

-----------------------------------------------------------------------------
(* run() and _runLoop(). *)

\* run(): the timers start, and the first check for stalled jobs.
Run ==
  /\ loop = "off"
  /\ loop' = "check" /\ timers' = timers \cup {"cleanup", "scheduler"}
  /\ UNCHANGED <<server, strategy, fifo, processing, empties, closing, faults>>

\* Mutant: the interval is not started.
StartedOnce ==
  /\ loop = "check"
  /\ loop' = "top" /\ UNCHANGED timers
  /\ \E S \in IF stopping THEN {{}} ELSE SUBSET lost : Recover(S)
  /\ UNCHANGED <<strategy, fifo, processing, empties, closing, faults>>

\* The first check is answered: startStalledChecker(), even if stopping.
Started ==
  /\ loop = "check"
  /\ loop' = "top" /\ timers' = timers \cup {"stalled"}
  /\ \E S \in IF stopping THEN {{}} ELSE SUBSET lost : Recover(S)
  /\ UNCHANGED <<strategy, fifo, processing, empties, closing, faults>>

\* Mutant: one promise too many.
FetchAtCapacity == ~stopping /\ NumTotal <= Concurrency

\* When the loop of Phase 1 goes on.
CanFetch == ~stopping /\ NumTotal < Concurrency

\* Mutant: when no promise is pending.
LoopQuitsEarly == stopping /\ NumPending = 0

\* When the outer loop is left.
LoopOver == stopping /\ NumTotal = 0

\* The tests of the two while loops, and the call that Phase 1 makes.
Iterate ==
  /\ loop \in {"top", "inner"}
  /\ loop' = IF CanFetch THEN IF strategy THEN "strategy"
                              ELSE IF NumTotal = 0 THEN "batch" ELSE "reserve"
             ELSE IF loop = "top" /\ LoopOver THEN "ended"
             ELSE "take"
  /\ UNCHANGED <<server, strategy, fifo, processing, empties, timers, closing,
                 faults>>

\* reserveBatch() passes over a reply that has not twelve parts; its job stays
\* locked.
Readable(S) == S \ Torn

\* What reserveBatch() may take: one job of each of as many groups as there is
\* room for.
Batches ==
  kSubset(Min({Concurrency - NumTotal, 8, Cardinality(Heads)}), Heads)

\* Nothing readable: go on to a reserve, a blocking one after two empty ones.
BatchAnswers ==
  /\ loop = "batch"
  /\ \E S \in Batches :
       /\ store' = Put(S, "locked") /\ lost' = lost \cup (S \ Readable(S))
       /\ fifo' = fifo \o SetToSeq(Readable(S))
       /\ IF Readable(S) # {}
          THEN loop' = "inner" /\ empties' = 0
          ELSE /\ loop' = IF empties >= 2 /\ tracked = {} THEN "blocking"
                          ELSE "reserve"
               /\ UNCHANGED empties
  /\ UNCHANGED <<stalls, strategy, processing, timers, closing, faults>>

\* A fetch resolves with a job; the promise is in the queue already.
FetchAnswers ==
  /\ loop \in Fetches
  /\ \E j \in Heads \ Torn :
       store' = Put({j}, "locked") /\ Settled(j)
  /\ loop' = "inner" /\ empties' = 0
  /\ UNCHANGED <<stalls, lost, strategy, processing, timers, closing, faults>>

\* The script locks the jobs S, and nobody learns of it.
LockedUnseen(S) == store' = Put(S, "locked") /\ lost' = lost \cup S

\* A fetch resolves with null: nothing to give, or reserve() gets a reply of
\* more than 12 parts.  Null has reached the queue, so NumTotal is not 0 and
\* neither the backoff nor the idle exit of lines 707-745 is ever taken.
FetchEmpty ==
  /\ \/ loop \in Fetches /\ Heads = {} /\ UNCHANGED <<store, lost>>
     \/ loop = "reserve" /\ \E j \in Heads \cap Torn : LockedUnseen({j})
  /\ Settled(Null)
  /\ empties' = Min({empties + 1, 2})
  /\ loop' = "take"
  /\ UNCHANGED <<stalls, strategy, processing, timers, closing, faults>>

\* Such a reply does not end reserveBlocking(): its first reserve() finds null and
\* it blocks, reserveAtomic() throws at JSON.parse and it falls back to reserve().
BlockingGoesOn ==
  /\ loop = "blocking" /\ loop' \in {"blocking", "reserve"}
  /\ \E j \in Heads \cap Torn : LockedUnseen({j})
  /\ UNCHANGED <<stalls, strategy, fifo, processing, empties, timers, closing,
                 faults>>

\* A fetch rejects: the catch of the loop returns when stopping, and else waits
\* and goes on.
Rejects ==
  /\ IF loop = "batch" THEN UNCHANGED fifo ELSE Settled(Null)
  /\ loop' = IF stopping THEN "ended" ELSE "pause"
  /\ aborted' = stopping
  /\ UNCHANGED <<stalls, strategy, processing, empties, timers, closer,
                 stopping, expired>>

\* A strategy calls reserveAtomic() itself, and what JSON.parse throws ends the
\* fetch.
StrategyThrows ==
  /\ loop = "strategy"
  /\ \E j \in Heads \cap Torn : LockedUnseen({j})
  /\ Rejects /\ UNCHANGED faults

\* The call fails, before the script ran or after.
FetchFails ==
  /\ loop \in Fetches \cup {"batch"} /\ faults > 0
  /\ \E S \in {{}} \cup (IF loop = "batch" THEN Batches ELSE {{j} : j \in Heads}) :
       LockedUnseen(S)
  /\ Rejects /\ faults' = faults - 1

\* The delay after an error is over.
Resume ==
  /\ loop = "pause" /\ loop' = "top"
  /\ UNCHANGED <<server, strategy, fifo, processing, empties, timers, closing,
                 faults>>

\* Phase 2: asyncFifoQueue.fetch() past every Null, and processJob(). It
\* waits while promises are pending and none has resolved.
Take ==
  /\ loop = "take" /\ (fifo # <<>> \/ Processed = {})
  /\ fifo' = SubSeq(fifo, FirstJob + 1, Len(fifo))
  /\ IF Queued = {} THEN UNCHANGED <<work, tracked>>
     ELSE /\ work' = [work EXCEPT ![fifo[FirstJob]] = "handle"]
          /\ tracked' = tracked \cup {fifo[FirstJob]}
  /\ loop' = "top"
  /\ UNCHANGED <<server, strategy, throws, empties, timers, closing, faults>>

-----------------------------------------------------------------------------
(* processJob() and processSingleJob(). *)

\* The handler returns, or throws.
HandlerEnds(j) ==
  /\ work[j] = "handle"
  /\ \/ work' = [work EXCEPT ![j] = "complete"] /\ UNCHANGED throws
     \/ /\ throws[j] < MaxAttempts
        /\ throws' = [throws EXCEPT ![j] = @ + 1]
        /\ work' = [work EXCEPT ![j] = "fail"]
  /\ UNCHANGED <<server, strategy, loop, fifo, tracked, empties, timers,
                 closing, faults>>

\* Mutant: a job chained while the worker stops is dropped.
ResolveDropped(j, next) ==
  /\ work' = [work EXCEPT ![j] = "none"]
  /\ tracked' = tracked \ {j}
  /\ Settled(IF stopping THEN Null ELSE next)
  /\ UNCHANGED <<strategy, loop, throws, timers, closing>>

\* The promise of processJob(j) resolves with next: a chained job is tracked
\* before j is not.
Resolve(j, next) ==
  /\ work' = [work EXCEPT ![j] = "none"]
  /\ tracked' = (tracked \cup ({next} \ {Null})) \ {j}
  /\ Settled(next)
  /\ UNCHANGED <<strategy, loop, throws, timers, closing>>

\* completeJob(): the next job of the group comes with the completion, when
\* fetchNextCallback finds the capacity not exceeded; it does not ask whether
\* the worker is stopping.  The reply of a torn job cannot be parsed.
CompleteAnswers(j) ==
  LET rest == IF NumTotal <= Concurrency THEN WaitingWith(j) ELSE {}
      next == IF rest = {} THEN Null ELSE Min(rest)
  IN  /\ work[j] = "complete"
      /\ store' = [k \in Jobs |-> IF k = j THEN "done"
                                ELSE IF k = next THEN "locked" ELSE store[k]]
      /\ lost' = lost \cup ({next} \cap Torn)
      /\ Resolve(j, IF next \in Torn THEN Null ELSE next)
      /\ empties' = 0
      /\ UNCHANGED <<stalls, faults>>

\* The call rejects, before the script ran or after: the error is swallowed,
\* and the job is reported completed.
CompleteFails(j) ==
  /\ work[j] = "complete" /\ faults > 0
  /\ \/ store' = store /\ lost' = lost \cup {j}
     \/ WaitingWith(j) = {} /\ store' = Put({j}, "done") /\ lost' = lost
     \/ /\ WaitingWith(j) # {}
        /\ store' = [Put({j}, "done") EXCEPT ![Min(WaitingWith(j))] = "locked"]
        /\ lost' = lost \cup {Min(WaitingWith(j))}
  /\ Resolve(j, Null)
  /\ empties' = 0 /\ faults' = faults - 1
  /\ UNCHANGED stalls

\* handleJobFailure(): a retry, or the dead letter after the last attempt or
\* an UnrecoverableError.
FailureAnswers(j) ==
  /\ work[j] = "fail"
  /\ \/ throws[j] < MaxAttempts /\ store' = Put({j}, "waiting")
     \/ store' = Put({j}, "done")
  /\ Resolve(j, Null)
  /\ empties' = 0
  /\ UNCHANGED <<stalls, lost, faults>>

\* The call rejects, and with it the promise of processJob().
FailureFails(j) ==
  /\ work[j] = "fail" /\ faults > 0
  /\ lost' = lost \cup {j}
  /\ Resolve(j, Null)
  /\ empties' = 0 /\ faults' = faults - 1
  /\ UNCHANGED <<store, stalls>>

-----------------------------------------------------------------------------
(* close(). *)

Close ==
  /\ closer = "open"
  /\ stopping' = TRUE /\ closer' = "delay"
  /\ UNCHANGED <<server, strategy, loop, fifo, processing, empties, timers,
                 aborted, expired, faults>>

\* The 100 ms are over.
ClearTimers ==
  /\ closer = "delay"
  /\ timers' = {} /\ closer' = "grace"
  /\ UNCHANGED <<server, strategy, loop, fifo, processing, empties, aborted,
                 expired, stopping, faults>>

\* Nothing is in progress, or gracefulTimeoutMs is over: the blocking client
\* is disconnected, which rejects a BZPOPMIN and so ends the loop, unless
\* reserveBlocking is at a call of another client.
EndGrace ==
  /\ closer = "grace"
  /\ closer' = "race"
  /\ \/ UNCHANGED <<loop, fifo>>
     \/ /\ loop = "blocking" /\ tracked = {}
        /\ loop' = "ended" /\ Settled(Null)
  /\ UNCHANGED <<server, strategy, processing, empties, timers, aborted,
                 expired, stopping, faults>>

\* The run loop has ended, or the timeout of the race is over (2 seconds
\* when nothing was in progress): what is in progress is forgotten.
EndRace ==
  /\ closer = "race"
  /\ expired' = (loop \notin {"off", "ended"})
  /\ tracked' = {} /\ closer' = "closed"
  /\ UNCHANGED <<server, strategy, loop, fifo, work, throws, empties, timers,
                 aborted, stopping, faults>>

-----------------------------------------------------------------------------
Loop == \/ Run \/ Started \/ Iterate \/ BatchAnswers \/ FetchAnswers
        \/ FetchEmpty \/ BlockingGoesOn \/ StrategyThrows \/ Resume \/ Take
Process(j) == HandlerEnds(j) \/ CompleteAnswers(j) \/ FailureAnswers(j)
Fault == FetchFails \/ \E j \in Jobs : CompleteFails(j) \/ FailureFails(j)
Closing == Close \/ ClearTimers \/ EndGrace \/ EndRace

Next == \/ Loop \/ CheckStalled \/ Fault \/ Closing
        \/ \E j \in Jobs : Process(j)

Spec == Init /\ [][Next]_vars

\* The event loop runs every answer, handlers end, intervals tick.
FairSpec ==
  /\ Spec /\ WF_vars(Loop) /\ WF_vars(CheckStalled)
  /\ \A j \in Jobs : WF_vars(Process(j))

-----------------------------------------------------------------------------
\* At most Concurrency promises are pending or resolved.
HandsBounded == NumTotal <= Concurrency

\* Until close() forgets them, what is being processed is in jobsInProgress, and
\* all that is in jobsInProgress is in hand.
InProgressTracked ==
  closer # "closed" => Processed \subseteq tracked /\ tracked \subseteq InHand

\* A close() that saw the loop end, and an end that was no error, leave no
\* job in hand.
CleanClose == closer = "closed" /\ ~expired /\ ~aborted => InHand = {}

\* close() waits for exactly what it must: the fetches, the chained jobs and the
\* jobs at work that the loop, the promise queue and jobsInProgress each count
\* in their own way stay one account, and it is empty after a clean close.
HandsAccounted == HandsBounded /\ InProgressTracked /\ CleanClose

\* A job is locked exactly when one promise or one place of the queue has it,
\* or a failed call or an unreadable reply lost it: no job is worked on
\* twice, and no healthy call leaves a lock behind.
EveryLockHeld ==
  \A j \in Jobs :
    Cardinality({i \in DOMAIN fifo : fifo[i] = j})
      + (IF j \in Processed THEN 1 ELSE 0) + (IF j \in lost THEN 1 ELSE 0)
    = (IF store[j] = "locked" THEN 1 ELSE 0)

\* A waiting job ends, also when replies are lost, unless the worker closes.
Served == \A j \in Jobs : store[j] = "waiting" ~> (store[j] = "done" \/ stopping)

\* A worker that stops works off what it holds and what it chains, and ends.
Drained == stopping ~> (aborted \/ (loop \in {"off", "ended"} /\ InHand = {}))
=============================================================================
