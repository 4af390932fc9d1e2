---------------------------- MODULE QueueClient ----------------------------
(***************************************************************************)
(* What one process keeps between its calls: add() collects jobs in a      *)
(* buffer that is flushed in batches, waitUntilFinished() waits for an     *)
(* event of a job, and close() ends both and quits the connection.  An     *)
(* action is the segment between two awaits that runs when an answer, a    *)
(* timer or a message arrives; a call has its effect when it is answered.  *)
(*                                                                         *)
(* A command sent after QUIT is rejected, one sent before is answered.     *)
(* Jobs are numbered in the order in which add() gets them.                *)
(***************************************************************************)
EXTENDS Integers, Sequences, FiniteSets

CONSTANTS
  Jobs,       \* the jobs add() is called with, 1..N
  Batches,    \* bound: may option autoBatch be set (TRUE), or not (FALSE)
  BatchSize,  \* option autoBatch.size
  Waiters,    \* calls of waitUntilFinished
  WaitFor,    \* [Waiters -> Jobs]
  Timed,      \* the waiters with a timeoutMs
  Awaited,    \* bound: the jobs that may end
  Forgotten,  \* the jobs that are not kept when they end (keepCompleted = 0)
  Silent,     \* the jobs whose end is not published (check-stalled, remove)
  MaxFaults   \* bound: calls that fail

ASSUME ClientAssumption ==
  /\ Jobs = 1..Cardinality(Jobs) /\ BatchSize \in Nat \ {0}
  /\ WaitFor \in [Waiters -> Jobs] /\ Timed \subseteq Waiters
  /\ Awaited \subseteq Jobs /\ Forgotten \subseteq Jobs
  /\ Silent \subseteq Jobs /\ MaxFaults \in Nat /\ Batches \subseteq BOOLEAN

VARIABLES
  promise,    \* what the caller of add() has
  stored,     \* the server: the jobs in the order they were stored
  fate,       \* the server: is a job alive, ended and kept, or gone
  batched,    \* option autoBatch is set
  buffer,     \* batchBuffer
  flight,     \* the batch that flushBatch() waits for; flushing if not empty
  late,       \* that batch was sent after QUIT
  timer,      \* batchTimer is set
  immediates, \* flushBatch() calls in setImmediate
  wait,       \* where a call of waitUntilFinished is
  recheck,    \* the waiters whose second read is not answered
  subscribed, \* eventsSubscribed: the channel is delivered
  events,     \* messages on their way
  closer,     \* where close() is
  faults      \* bound: calls that may still fail

batcher  == <<batched, buffer, flight, late, timer, immediates>>
batching == <<batcher, promise, stored, faults>>
waiting  == <<wait, recheck, subscribed, events>>
vars     == <<batching, waiting, fate, closer>>

Range1(s) == {s[i] : i \in DOMAIN s}

\* The type of every variable; the timer runs for jobs in the buffer only.
TypeOK ==
  /\ promise \in [Jobs -> {"none", "pending", "resolved", "rejected"}]
  /\ stored \in Seq(Jobs) /\ buffer \in Seq(Jobs) /\ flight \in Seq(Jobs)
  /\ fate \in [Jobs -> {"live", "kept", "gone"}]
  /\ batched \in Batches /\ (~batched => buffer = <<>> /\ flight = <<>>)
  /\ late \in BOOLEAN /\ timer \in BOOLEAN /\ (timer => buffer # <<>>)
  /\ immediates \in Nat
  /\ wait \in [Waiters -> {"idle", "reading", "subscribing", "registered",
                           "settled"}]
  /\ recheck \subseteq Waiters /\ subscribed \in BOOLEAN /\ events \subseteq Jobs
  /\ closer \in {"open", "flush", "unsubscribe", "quit", "closed"}
  /\ faults \in 0..MaxFaults

Init ==
  /\ promise = [j \in Jobs |-> "none"] /\ stored = <<>>
  /\ fate = [j \in Jobs |-> "live"]
  /\ batched \in Batches /\ buffer = <<>> /\ flight = <<>> /\ late = FALSE
  /\ timer = FALSE /\ immediates = 0
  /\ wait = [w \in Waiters |-> "idle"] /\ recheck = {}
  /\ subscribed = FALSE /\ events = {} /\ closer = "open"
  /\ faults = MaxFaults

-----------------------------------------------------------------------------
(* Jobs are added, one by one or in batches. *)

\* The next job that add() is called with.
Next1(j) == promise[j] = "none" /\ \A i \in Jobs : i < j => promise[i] # "none"

\* addSingle(), which add() calls without autoBatch: enqueue.lua is on its way.
AddSingle(j) ==
  /\ ~batched /\ Next1(j)
  /\ promise' = [promise EXCEPT ![j] = IF closer = "closed" THEN "rejected"
                                       ELSE "pending"]
  /\ UNCHANGED <<batcher, stored, faults, fate, waiting, closer>>

\* Its answer.  The first calls of a process load the script, so that one of
\* them may be overtaken by a later one.
SingleAnswers(j) ==
  /\ ~batched /\ promise[j] = "pending"
  /\ promise' = [promise EXCEPT ![j] = "resolved"]
  /\ stored' = Append(stored, j)
  /\ UNCHANGED <<batcher, faults, fate, waiting, closer>>

\* A call that has first to load its script sends it in a command of its own,
\* and finds the connection closed when QUIT came in between.
Overtaken == closer = "closed" /\ stored = <<>>

\* The script did not run, or its reply was lost.
SingleFails(j) ==
  /\ ~batched /\ promise[j] = "pending"
  /\ promise' = [promise EXCEPT ![j] = "rejected"]
  /\ \/ Overtaken /\ UNCHANGED <<stored, faults>>
     \/ /\ faults > 0 /\ faults' = faults - 1
        /\ stored' \in {stored, Append(stored, j)}
  /\ UNCHANGED <<batcher, fate, waiting, closer>>

\* flushBatch() with these jobs in the buffer: it clears the timer, and goes
\* no further while a flush is in flight or when there is nothing to send.
Flush(jobs) ==
  /\ timer' = FALSE
  /\ IF flight # <<>> \/ jobs = <<>>
     THEN buffer' = jobs /\ UNCHANGED <<flight, late>>
     ELSE buffer' = <<>> /\ flight' = jobs /\ late' = (closer = "closed")

\* add() with autoBatch.
Add(j) ==
  /\ batched /\ Next1(j)
  /\ promise' = [promise EXCEPT ![j] = "pending"]
  /\ LET jobs == Append(buffer, j)
     IN  IF Len(jobs) >= BatchSize THEN Flush(jobs)
         ELSE buffer' = jobs /\ timer' = TRUE /\ UNCHANGED <<flight, late>>
  /\ UNCHANGED <<batched, stored, immediates, faults, fate, waiting, closer>>

\* The timer, or a callback of setImmediate.
TimerFires ==
  /\ timer /\ Flush(buffer)
  /\ UNCHANGED <<batched, promise, stored, immediates, faults, fate, waiting,
                 closer>>

ImmediateFires ==
  /\ immediates > 0 /\ immediates' = immediates - 1 /\ Flush(buffer)
  /\ UNCHANGED <<batched, promise, stored, faults, fate, waiting, closer>>

\* Mutant: nothing is done for the jobs that came during the flush.
SettleForgets(result) ==
  /\ promise' = [j \in Jobs |-> IF j \in Range1(flight) THEN result
                                ELSE promise[j]]
  /\ flight' = <<>> /\ UNCHANGED immediates

\* Mutant: the batch is the buffer itself and not a copy of it.
SettleAliased(result) ==
  /\ promise' = [j \in Jobs |-> IF j \in Range1(flight) \cup Range1(buffer)
                                THEN result ELSE promise[j]]
  /\ flight' = <<>>
  /\ immediates' = IF buffer = <<>> THEN immediates ELSE immediates + 1

\* The rest of flushBatch(): every promise of the batch is settled, and what
\* has come in the meantime is flushed soon.
Settle(result) ==
  /\ promise' = [j \in Jobs |-> IF j \in Range1(flight) THEN result
                                ELSE promise[j]]
  /\ flight' = <<>>
  /\ immediates' = IF buffer = <<>> THEN immediates ELSE immediates + 1

FlushAnswers ==
  /\ flight # <<>> /\ ~late
  /\ stored' = stored \o flight /\ Settle("resolved")
  /\ UNCHANGED <<batched, buffer, late, timer, faults, fate, waiting, closer>>

\* enqueue-batch.lua did not run, or its reply was lost.
FlushFails ==
  /\ flight # <<>>
  /\ \/ (late \/ Overtaken) /\ UNCHANGED <<stored, faults>>
     \/ /\ ~late /\ faults > 0 /\ faults' = faults - 1
        /\ stored' \in {stored, stored \o flight}
  /\ Settle("rejected")
  /\ UNCHANGED <<batched, buffer, late, timer, fate, waiting, closer>>

-----------------------------------------------------------------------------
(* Jobs end, and calls wait for it. *)

\* The completion or the final failure of a job is published, but a job that
\* check-stalled.lua fails or remove() deletes ends without a message.
JobEnds(j) ==
  /\ j \in Awaited /\ j \in Range1(stored) /\ fate[j] = "live"
  /\ fate' = [fate EXCEPT ![j] = IF j \in Forgotten THEN "gone" ELSE "kept"]
  /\ events' = IF subscribed /\ j \notin Silent THEN events \cup {j} ELSE events
  /\ UNCHANGED <<batching, wait, recheck, subscribed, closer>>

Set(w, s) == wait' = [wait EXCEPT ![w] = s]

\* waitUntilFinished() reads the job; it rejects when the job is not there.
Wait(w) ==
  /\ wait[w] = "idle" /\ promise[WaitFor[w]] = "resolved"
  /\ Set(w, "reading")
  /\ UNCHANGED <<batching, fate, recheck, subscribed, events, closer>>

FirstRead(w) ==
  /\ wait[w] = "reading"
  /\ Set(w, IF fate[WaitFor[w]] = "live" /\ closer # "closed"
            THEN "subscribing" ELSE "settled")
  /\ UNCHANGED <<batching, fate, recheck, subscribed, events, closer>>

\* setupSubscriber(): after close() nothing is delivered any more.
Subscribe == subscribed' = (closer \notin {"quit", "closed"})

\* Mutant: no second read after the registration.
RegisterOnly(w) ==
  /\ wait[w] = "subscribing"
  /\ Subscribe /\ Set(w, "registered") /\ UNCHANGED recheck
  /\ UNCHANGED <<batching, fate, events, closer>>

\* The subscriber is set up: the waiter is registered and a second read sent.
Register(w) ==
  /\ wait[w] = "subscribing"
  /\ Subscribe /\ Set(w, "registered") /\ recheck' = recheck \cup {w}
  /\ UNCHANGED <<batching, fate, events, closer>>

\* The second read: a job that is gone, or a closed connection, is ignored.
SecondRead(w) ==
  /\ w \in recheck /\ recheck' = recheck \ {w}
  /\ IF wait[w] = "registered" /\ fate[WaitFor[w]] = "kept" /\ closer # "closed"
     THEN Set(w, "settled") ELSE UNCHANGED wait
  /\ UNCHANGED <<batching, fate, subscribed, events, closer>>

Woken(j) == {w \in Waiters : WaitFor[w] = j /\ wait[w] = "registered"}

\* handleJobEvent(): all waiters of the job are settled.
Deliver(j) ==
  /\ j \in events /\ events' = events \ {j}
  /\ wait' = [w \in Waiters |-> IF w \in Woken(j) THEN "settled" ELSE wait[w]]
  /\ UNCHANGED <<batching, fate, recheck, subscribed, closer>>

TimeOut(w) ==
  /\ w \in Timed /\ wait[w] = "registered" /\ Set(w, "settled")
  /\ UNCHANGED <<batching, fate, recheck, subscribed, events, closer>>

-----------------------------------------------------------------------------
(* close(). *)

\* It awaits a flush of its own; when one is in flight already, flushBatch()
\* returns at once and close() does not wait for it.
Close ==
  /\ closer = "open"
  /\ closer' = IF buffer # <<>> /\ flight = <<>> THEN "flush" ELSE "unsubscribe"
  /\ IF buffer # <<>> THEN Flush(buffer)
     ELSE UNCHANGED <<timer, buffer, flight, late>>
  /\ UNCHANGED <<batched, promise, stored, immediates, faults, fate, waiting>>

CloseFlushed ==
  /\ closer = "flush" /\ flight = <<>>
  /\ closer' = "unsubscribe"
  /\ UNCHANGED <<batching, waiting, fate>>

\* The subscriber is torn down; the messages it had sent are handled.
Unsubscribe ==
  /\ closer = "unsubscribe" /\ events = {}
  /\ closer' = "quit" /\ subscribed' = FALSE
  /\ UNCHANGED <<batching, wait, recheck, fate, events>>

\* The registered waiters are rejected, and QUIT is sent.
Quit ==
  /\ closer = "quit" /\ closer' = "closed"
  /\ wait' = [w \in Waiters |-> IF wait[w] = "registered" THEN "settled"
                                ELSE wait[w]]
  /\ UNCHANGED <<batching, recheck, subscribed, events, fate>>

-----------------------------------------------------------------------------
Batching == TimerFires \/ ImmediateFires \/ FlushAnswers \/ FlushFails
Single(j) == SingleAnswers(j) \/ SingleFails(j)
Closing  == CloseFlushed \/ Unsubscribe \/ Quit
Reading(w) == FirstRead(w) \/ Register(w) \/ SecondRead(w)

Next ==
  \/ Batching \/ Close \/ Closing
  \/ \E j \in Jobs : \/ Add(j) \/ AddSingle(j) \/ Single(j)
                       \/ JobEnds(j) \/ Deliver(j)
  \/ \E w \in Waiters : Wait(w) \/ Reading(w) \/ TimeOut(w)

Spec == Init /\ [][Next]_vars

\* Answers, timers and messages come; nobody must add, wait or close.
FairSpec ==
  /\ Spec /\ WF_vars(Batching) /\ WF_vars(Closing)
  /\ \A j \in Jobs : WF_vars(Single(j)) /\ WF_vars(Deliver(j))
  /\ \A w \in Waiters : WF_vars(Reading(w)) /\ WF_vars(TimeOut(w))

-----------------------------------------------------------------------------
\* What add() answers is true: a resolved job is stored, and without a fault
\* a rejected one is not; a job is stored once, and batches store
\* the jobs in the order in which they were added.
AddAnswersTrue ==
  /\ \A j \in Jobs : promise[j] = "resolved" => j \in Range1(stored)
  /\ \A j \in Jobs : promise[j] = "rejected" /\ faults = MaxFaults
                       => j \notin Range1(stored)
  /\ \A m, n \in DOMAIN stored :
       m < n => stored[m] # stored[n] /\ (batched => stored[m] < stored[n])

\* A registered waiter of an ended job that is kept and whose end was
\* published is about to hear of it: a message or its second read is coming.
NoLostWakeup ==
  \A w \in Waiters :
    /\ wait[w] = "registered" /\ closer = "open"
    /\ fate[WaitFor[w]] = "kept" /\ WaitFor[w] \notin Silent
    => WaitFor[w] \in events \/ w \in recheck

\* Every add() is answered, with or without close(); so is every wait with a
\* timeout, and while the queue is open every wait for a job that has ended,
\* is kept and was published.
Answered ==
  /\ \A j \in Jobs : promise[j] = "pending" ~> promise[j] # "pending"
  /\ \A w \in Waiters :
       (wait[w] # "idle" /\ fate[WaitFor[w]] = "kept" /\ WaitFor[w] \notin Silent)
         ~> (wait[w] = "settled" \/ closer # "open")
  /\ \A w \in Timed : wait[w] # "idle" ~> wait[w] = "settled"

=============================================================================
