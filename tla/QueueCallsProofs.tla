-------------------------- MODULE QueueCallsProofs --------------------------
(***************************************************************************)
(* What class Queue does in several calls (QueueClient, RepeatScheduler).   *)
(*                                                                         *)
(* First what add() and waitUntilFinished() promise, for any jobs, waiters, *)
(* size of a batch and number of failing calls.  The two halves of the      *)
(* process share the variable closer only and have an invariant each.      *)
(*                                                                         *)
(* Then the safety of repeating jobs, for any definitions, schedulers,     *)
(* interval and clock, and whichever calls fail: one inductive invariant,  *)
(* one lemma per action that keeps it, and the properties.                 *)
(***************************************************************************)
EXTENDS QueueClient, RepeatScheduler, TLAPS

\* Jobs in the order in which they were added, all of s before all of t.
Rising(s) == \A m, n \in DOMAIN s : m < n => s[m] < s[n]
Ahead(s, t) == \A m \in DOMAIN s, n \in DOMAIN t : s[m] < t[n]

\* What is stored, in flight and in the buffer is one line.
Line(s, f, b) ==
  /\ Rising(s) /\ Rising(f) /\ Rising(b)
  /\ Ahead(s, f) /\ Ahead(s, b) /\ Ahead(f, b)

\* The line stands whenever jobs are batched, and one by one no job is stored
\* before its call or twice.
InLine ==
  /\ batched => Line(stored, flight, buffer)
  /\ ~batched => /\ \A j \in Jobs : promise[j] = "pending" => j \notin Range1(stored)
                 /\ \A m, n \in DOMAIN stored : m < n => stored[m] # stored[n]

\* Jobs come in their order, and are stored after they came.
Numbered ==
  \A j \in Jobs : promise[j] = "none" =>
    /\ j \notin Range1(stored)
    /\ \A i \in Jobs : j < i => promise[i] = "none"

\* A job that waits in the process has not been answered.
Unanswered ==
  \A j \in Jobs :
    j \in Range1(flight) \/ j \in Range1(buffer) => promise[j] = "pending"

\* What was answered is true.
Truthful ==
  \A j \in Jobs :
    /\ promise[j] = "resolved" => j \in Range1(stored)
    /\ promise[j] = "rejected" /\ faults = MaxFaults => j \notin Range1(stored)

AddInv == TypeOK /\ InLine /\ Numbered /\ Unanswered /\ Truthful

\* While the queue is open a registered waiter has a subscriber.
Subscribed ==
  \A w \in Waiters : wait[w] = "registered" /\ closer = "open" => subscribed

WaitInv == TypeOK /\ Subscribed /\ NoLostWakeup

-----------------------------------------------------------------------------
(* Types. *)

LEMMA JobsAreNumbers == Jobs \subseteq Int
<1> DEFINE N == Cardinality(Jobs)
<1>1. Jobs = 1..N
  BY ClientAssumption
<1> HIDE DEF N
<1> QED
  BY <1>1

LEMMA FlushTypes ==
  ASSUME TypeOK, NEW jobs \in Seq(Jobs), Flush(jobs)
  PROVE  /\ buffer' \in Seq(Jobs) /\ flight' \in Seq(Jobs)
         /\ late' \in BOOLEAN /\ timer' = FALSE
         /\ ~batched /\ jobs = <<>> => buffer' = <<>> /\ flight' = <<>>
BY DEF TypeOK, Flush

LEMMA SettleTypes ==
  ASSUME TypeOK, NEW result \in {"resolved", "rejected"}, Settle(result)
  PROVE  /\ promise' \in [Jobs -> {"none", "pending", "resolved", "rejected"}]
         /\ flight' = <<>> /\ immediates' \in Nat
BY DEF TypeOK, Settle

LEMMA InitTypes == Init => TypeOK
<1> SUFFICES ASSUME Init PROVE TypeOK
  OBVIOUS
<1>1. MaxFaults \in 0..MaxFaults
  BY ClientAssumption
<1>2. <<>> \in Seq(Jobs)
  OBVIOUS
<1> QED
  BY <1>1, <1>2 DEF Init, TypeOK

LEMMA AddingTypes ==
  ASSUME TypeOK, NEW j \in Jobs, Add(j) \/ AddSingle(j) \/ Single(j)
  PROVE  TypeOK'
<1>1. CASE Add(j)
  <2> DEFINE jobs == Append(buffer, j)
  <2>1. jobs \in Seq(Jobs) /\ jobs # <<>> /\ batched
    <3>1. buffer \in Seq(Jobs)
      BY DEF TypeOK
    <3>2. jobs \in Seq(Jobs) /\ Len(jobs) = Len(buffer) + 1
      BY <3>1
    <3> QED
      BY <1>1, <3>1, <3>2 DEF Add
  <2>2. /\ buffer' \in Seq(Jobs) /\ flight' \in Seq(Jobs) /\ late' \in BOOLEAN
        /\ timer' \in BOOLEAN /\ (timer' => buffer' # <<>>)
    <3>1. CASE Len(jobs) >= BatchSize
      <4>1. Flush(jobs)
        BY <1>1, <3>1 DEF Add
      <4> QED
        BY <2>1, <4>1, FlushTypes
    <3>2. CASE ~(Len(jobs) >= BatchSize)
      BY <1>1, <2>1, <3>2 DEF Add, TypeOK
    <3> QED
      BY <3>1, <3>2
  <2> QED
    BY <1>1, <2>1, <2>2 DEF Add, TypeOK, waiting
<1>2. CASE AddSingle(j)
  BY <1>2 DEF AddSingle, TypeOK, batcher, waiting
<1>3. CASE SingleAnswers(j)
  BY <1>3 DEF SingleAnswers, TypeOK, batcher, waiting
<1>4. CASE SingleFails(j)
  <2>1. stored' \in Seq(Jobs)
    <3>1. stored \in Seq(Jobs) /\ Append(stored, j) \in Seq(Jobs)
      BY DEF TypeOK
    <3> QED
      BY <1>4, <3>1 DEF SingleFails
  <2>2. faults' \in 0..MaxFaults
    <3>1. faults' = faults \/ (faults > 0 /\ faults' = faults - 1)
      BY <1>4 DEF SingleFails
    <3> QED
      BY <3>1, ClientAssumption DEF TypeOK
  <2>3. promise' = [promise EXCEPT ![j] = "rejected"] /\ UNCHANGED
          <<batched, buffer, flight, late, timer, immediates, fate, wait, recheck,
            subscribed, events, closer>>
    BY <1>4 DEF SingleFails, batcher, waiting
  <2> QED
    BY <2>1, <2>2, <2>3 DEF TypeOK
<1> QED
  BY <1>1, <1>2, <1>3, <1>4 DEF Single

LEMMA BatchingTypes ==
  ASSUME TypeOK, Batching
  PROVE  TypeOK'
<1> DEFINE Buffers == /\ buffer' \in Seq(Jobs) /\ flight' \in Seq(Jobs)
                      /\ late' \in BOOLEAN /\ timer' = FALSE
                      /\ (~batched => buffer' = <<>> /\ flight' = <<>>)
<1>0. Flush(buffer) => Buffers
  <2>1. buffer \in Seq(Jobs) /\ (~batched => buffer = <<>>)
    BY DEF TypeOK
  <2> QED
    BY <2>1, FlushTypes
<1>1. CASE TimerFires
  <2>1. Buffers
    BY <1>0, <1>1 DEF TimerFires
  <2>2. UNCHANGED <<batched, promise, stored, immediates, faults, fate, wait,
                    recheck, subscribed, events, closer>>
    BY <1>1 DEF TimerFires, waiting
  <2> QED
    BY <2>1, <2>2 DEF TypeOK
<1>2. CASE ImmediateFires
  <2>1. Buffers
    BY <1>0, <1>2 DEF ImmediateFires
  <2>2. immediates' \in Nat
    BY <1>2 DEF ImmediateFires, TypeOK
  <2>3. UNCHANGED <<batched, promise, stored, faults, fate, wait, recheck,
                    subscribed, events, closer>>
    BY <1>2 DEF ImmediateFires, waiting
  <2> QED
    BY <2>1, <2>2, <2>3 DEF TypeOK
<1>3. CASE FlushAnswers
  <2>1. stored' \in Seq(Jobs)
    BY <1>3 DEF FlushAnswers, TypeOK
  <2>2. /\ promise' \in [Jobs -> {"none", "pending", "resolved", "rejected"}]
        /\ flight' = <<>> /\ immediates' \in Nat
    BY <1>3, SettleTypes DEF FlushAnswers
  <2>3. UNCHANGED <<batched, buffer, late, timer, faults, fate, wait, recheck,
                    subscribed, events, closer>>
    BY <1>3 DEF FlushAnswers, waiting
  <2> QED
    BY <2>1, <2>2, <2>3 DEF TypeOK
<1>4. CASE FlushFails
  <2>1. stored' \in Seq(Jobs)
    <3>1. stored \in Seq(Jobs) /\ stored \o flight \in Seq(Jobs)
      BY DEF TypeOK
    <3> QED
      BY <1>4, <3>1 DEF FlushFails
  <2>2. faults' \in 0..MaxFaults
    <3>1. faults' = faults \/ (faults > 0 /\ faults' = faults - 1)
      BY <1>4 DEF FlushFails
    <3> QED
      BY <3>1, ClientAssumption DEF TypeOK
  <2>3. Settle("rejected") /\ UNCHANGED <<batched, buffer, late, timer, fate, wait,
                                         recheck, subscribed, events, closer>>
    BY <1>4 DEF FlushFails, waiting
  <2>4. /\ promise' \in [Jobs -> {"none", "pending", "resolved", "rejected"}]
        /\ flight' = <<>> /\ immediates' \in Nat
    BY <2>3, SettleTypes
  <2> QED
    BY <2>1, <2>2, <2>3, <2>4 DEF TypeOK
<1> QED
  BY <1>1, <1>2, <1>3, <1>4 DEF Batching

LEMMA WaitingTypes ==
  ASSUME TypeOK, NEW w \in Waiters, Wait(w) \/ Reading(w) \/ TimeOut(w)
  PROVE  TypeOK'
<1>1. CASE Wait(w)
  BY <1>1 DEF Wait, Set, TypeOK, batching, batcher
<1>2. CASE FirstRead(w)
  BY <1>2 DEF FirstRead, Set, TypeOK, batching, batcher
<1>3. CASE Register(w)
  BY <1>3 DEF Register, Subscribe, Set, TypeOK, batching, batcher
<1>4. CASE SecondRead(w)
  BY <1>4 DEF SecondRead, Set, TypeOK, batching, batcher
<1>5. CASE TimeOut(w)
  BY <1>5 DEF TimeOut, Set, TypeOK, batching, batcher
<1> QED
  BY <1>1, <1>2, <1>3, <1>4, <1>5 DEF Reading

LEMMA EndingTypes ==
  ASSUME TypeOK, NEW j \in Jobs, JobEnds(j) \/ Deliver(j)
  PROVE  TypeOK'
<1>1. CASE JobEnds(j)
  BY <1>1 DEF JobEnds, TypeOK, batching, batcher
<1>2. CASE Deliver(j)
  BY <1>2 DEF Deliver, TypeOK, batching, batcher
<1> QED
  BY <1>1, <1>2

LEMMA ClosingTypes ==
  ASSUME TypeOK, Close \/ Closing
  PROVE  TypeOK'
<1>1. CASE Close
  <2>1. closer' \in {"flush", "unsubscribe"}
    BY <1>1 DEF Close
  <2>2. CASE buffer = <<>>
    BY <1>1, <2>1, <2>2 DEF Close, TypeOK, waiting
  <2>3. CASE buffer # <<>>
    BY <1>1, <2>1, <2>3, FlushTypes DEF Close, TypeOK, waiting
  <2> QED
    BY <2>2, <2>3
<1>2. CASE CloseFlushed
  BY <1>2 DEF CloseFlushed, TypeOK, batching, batcher, waiting
<1>3. CASE Unsubscribe
  BY <1>3 DEF Unsubscribe, TypeOK, batching, batcher
<1>4. CASE Quit
  BY <1>4 DEF Quit, TypeOK, batching, batcher
<1> QED
  BY <1>1, <1>2, <1>3, <1>4 DEF Closing

LEMMA StepTypes == TypeOK /\ [Next]_vars => TypeOK'
<1> SUFFICES ASSUME TypeOK, [Next]_vars PROVE TypeOK'
  OBVIOUS
<1>1. CASE UNCHANGED vars
  BY <1>1 DEF vars, batching, batcher, waiting, TypeOK
<1> QED
  BY <1>1, AddingTypes, BatchingTypes, WaitingTypes, EndingTypes, ClosingTypes
  DEF Next

\* Every variable of the process keeps its shape, and the timer of a batch never
\* runs for an empty buffer.
THEOREM TypeCorrect == Spec => []TypeOK
<1> QED
  BY InitTypes, StepTypes, PTL DEF Spec

-----------------------------------------------------------------------------
(* Waiting for a job. *)

LEMMA InitWaits == Init => WaitInv
<1> SUFFICES ASSUME Init PROVE Subscribed /\ NoLostWakeup
  BY InitTypes DEF WaitInv
<1> QED
  BY DEF Init, Subscribed, NoLostWakeup

\* What touches neither the waiters nor the end of a job only closes.
LEMMA BatchingWaits ==
  ASSUME WaitInv, UNCHANGED <<waiting, fate>>, closer' = "open" => closer = "open"
  PROVE  Subscribed' /\ NoLostWakeup'
BY DEF WaitInv, Subscribed, NoLostWakeup, waiting

\* The published end of a job goes out to every registered waiter.
LEMMA JobEndsWaits ==
  ASSUME WaitInv, NEW j \in Jobs, JobEnds(j)
  PROVE  Subscribed' /\ NoLostWakeup'
<1>1. UNCHANGED <<wait, recheck, subscribed, closer>>
  BY DEF JobEnds
<1>2. Subscribed'
  BY <1>1 DEF WaitInv, Subscribed
<1>3. ASSUME NEW w \in Waiters, wait[w] = "registered", closer = "open",
             fate'[WaitFor[w]] = "kept", WaitFor[w] \notin Silent
      PROVE  WaitFor[w] \in events' \/ w \in recheck
  <2>1. WaitFor[w] \in Jobs /\ fate \in [Jobs -> {"live", "kept", "gone"}]
    BY ClientAssumption DEF WaitInv, TypeOK
  <2>2. CASE WaitFor[w] = j
    <3>1. subscribed
      BY <1>3 DEF WaitInv, Subscribed
    <3> QED
      BY <1>3, <2>2, <3>1 DEF JobEnds
  <2>3. CASE WaitFor[w] # j
    <3>1. fate[WaitFor[w]] = "kept" /\ events \subseteq events'
      BY <1>3, <2>1, <2>3 DEF JobEnds
    <3> QED
      BY <1>3, <3>1 DEF WaitInv, NoLostWakeup
  <2> QED
    BY <2>2, <2>3
<1> QED
  BY <1>1, <1>2, <1>3 DEF NoLostWakeup

\* A message settles all that wait for it.
LEMMA DeliverWaits ==
  ASSUME WaitInv, NEW j \in Jobs, Deliver(j)
  PROVE  Subscribed' /\ NoLostWakeup'
<1>1. UNCHANGED <<recheck, subscribed, closer, fate>> /\ events' = events \ {j}
  BY DEF Deliver
<1>2. ASSUME NEW w \in Waiters, wait'[w] = "registered"
      PROVE  wait[w] = "registered" /\ WaitFor[w] # j
  BY <1>2 DEF Deliver, Woken, WaitInv, TypeOK
<1> QED
  BY <1>1, <1>2 DEF WaitInv, Subscribed, NoLostWakeup

\* A call that is registered reads once more.
LEMMA CallWaits ==
  ASSUME WaitInv, NEW w \in Waiters, Wait(w) \/ Reading(w) \/ TimeOut(w)
  PROVE  Subscribed' /\ NoLostWakeup'
<1> USE DEF Set
<1>0. wait \in [Waiters -> {"idle", "reading", "subscribing", "registered", "settled"}]
  BY DEF WaitInv, TypeOK
<1>1. CASE Wait(w) \/ FirstRead(w) \/ TimeOut(w)
  <2>1. UNCHANGED <<fate, recheck, subscribed, events, closer>>
    BY <1>1 DEF Wait, FirstRead, TimeOut
  <2>2. ASSUME NEW v \in Waiters, wait'[v] = "registered"
        PROVE  wait[v] = "registered"
    BY <1>0, <1>1, <2>2 DEF Wait, FirstRead, TimeOut
  <2> QED
    BY <2>1, <2>2 DEF WaitInv, Subscribed, NoLostWakeup
<1>2. CASE Register(w)
  <2>1. UNCHANGED <<fate, events, closer>> /\ recheck' = recheck \cup {w}
    BY <1>2 DEF Register
  <2>2. closer = "open" => subscribed'
    BY <1>2 DEF Register, Subscribe
  <2>3. ASSUME NEW v \in Waiters \ {w}, wait'[v] = "registered"
        PROVE  wait[v] = "registered"
    BY <1>0, <1>2, <2>3 DEF Register
  <2> QED
    BY <2>1, <2>2, <2>3 DEF WaitInv, Subscribed, NoLostWakeup
<1>3. CASE SecondRead(w)
  <2>1. UNCHANGED <<fate, events, closer, subscribed>> /\ recheck' = recheck \ {w}
    BY <1>3 DEF SecondRead
  <2>2. ASSUME NEW v \in Waiters, wait'[v] = "registered"
        PROVE  /\ wait[v] = "registered"
               /\ v = w /\ closer = "open" => fate[WaitFor[w]] # "kept"
    BY <1>0, <1>3, <2>2 DEF SecondRead
  <2> QED
    BY <2>1, <2>2 DEF WaitInv, Subscribed, NoLostWakeup
<1> QED
  BY <1>1, <1>2, <1>3 DEF Reading

LEMMA ClosingWaits ==
  ASSUME WaitInv, Close \/ Closing
  PROVE  Subscribed' /\ NoLostWakeup'
<1>1. CASE Close \/ CloseFlushed
  BY <1>1, BatchingWaits DEF Close, CloseFlushed, waiting
<1>2. CASE Unsubscribe \/ Quit
  <2>1. closer' # "open"
    BY <1>2 DEF Unsubscribe, Quit
  <2> QED
    BY <2>1 DEF Subscribed, NoLostWakeup
<1> QED
  BY <1>1, <1>2 DEF Closing

LEMMA StepWaits == WaitInv /\ [Next]_vars => WaitInv'
<1> SUFFICES ASSUME WaitInv, [Next]_vars PROVE Subscribed' /\ NoLostWakeup'
  BY StepTypes DEF WaitInv
<1>1. CASE UNCHANGED vars
  BY <1>1, BatchingWaits DEF vars
<1>2. CASE Batching
  BY <1>2, BatchingWaits
  DEF Batching, TimerFires, ImmediateFires, FlushAnswers, FlushFails
<1>3. ASSUME NEW j \in Jobs, Add(j) \/ AddSingle(j) \/ Single(j)
      PROVE  Subscribed' /\ NoLostWakeup'
  BY <1>3, BatchingWaits DEF Add, AddSingle, Single, SingleAnswers, SingleFails
<1> QED
  BY <1>1, <1>2, <1>3, JobEndsWaits, DeliverWaits, CallWaits, ClosingWaits DEF Next

\* waitUntilFinished reads, subscribes, registers and reads again: whatever comes
\* in between, a registered waiter of a job whose end was published hears of it.
THEOREM NothingMissed == Spec => []NoLostWakeup
<1>1. WaitInv => NoLostWakeup
  BY DEF WaitInv
<1> QED
  BY <1>1, InitWaits, StepWaits, PTL DEF Spec

-----------------------------------------------------------------------------
(* Lines of jobs. *)

LEMMA ConcatRange ==
  ASSUME NEW s \in Seq(Jobs), NEW t \in Seq(Jobs)
  PROVE  Range1(s \o t) = Range1(s) \cup Range1(t)
<1> DEFINE u == s \o t
<1>1. /\ DOMAIN s = 1..Len(s) /\ DOMAIN t = 1..Len(t)
      /\ DOMAIN u = 1..(Len(s) + Len(t)) /\ Len(s) \in Nat /\ Len(t) \in Nat
  OBVIOUS
<1>2. /\ \A i \in DOMAIN s : i \in DOMAIN u /\ u[i] = s[i]
      /\ \A i \in DOMAIN t : Len(s) + i \in DOMAIN u /\ u[Len(s) + i] = t[i]
  BY <1>1
<1>3. ASSUME NEW i \in DOMAIN u
      PROVE  \/ i \in DOMAIN s /\ u[i] = s[i]
             \/ i - Len(s) \in DOMAIN t /\ u[i] = t[i - Len(s)]
  BY <1>1
<1>4. Range1(u) \subseteq Range1(s) \cup Range1(t)
  BY <1>3 DEF Range1
<1>5. Range1(s) \subseteq Range1(u) /\ Range1(t) \subseteq Range1(u)
  <2> HIDE DEF u
  <2> QED
    BY <1>2 DEF Range1
<1> QED
  BY <1>4, <1>5

LEMMA AppendRange ==
  ASSUME NEW s \in Seq(Jobs), NEW j \in Jobs
  PROVE  Range1(Append(s, j)) = Range1(s) \cup {j}
<1> DEFINE u == Append(s, j)
<1>1. /\ DOMAIN s = 1..Len(s) /\ DOMAIN u = 1..(Len(s) + 1) /\ Len(s) \in Nat
      /\ \A i \in DOMAIN s : u[i] = s[i]
      /\ u[Len(s) + 1] = j
  OBVIOUS
<1> HIDE DEF u
<1>2. \A i \in DOMAIN u : i \in DOMAIN s \/ i = Len(s) + 1
  BY <1>1
<1>3. DOMAIN s \subseteq DOMAIN u /\ Len(s) + 1 \in DOMAIN u
  BY <1>1
<1>4. Range1(u) = Range1(s) \cup {j}
  BY <1>1, <1>2, <1>3 DEF Range1
<1> QED
  BY <1>4 DEF u

LEMMA ConcatRising ==
  ASSUME NEW s \in Seq(Jobs), NEW t \in Seq(Jobs), Rising(s), Rising(t), Ahead(s, t)
  PROVE  Rising(s \o t)
<1> DEFINE u == s \o t
<1>1. ASSUME NEW i \in DOMAIN u
      PROVE  \/ i \in DOMAIN s /\ u[i] = s[i]
             \/ i - Len(s) \in DOMAIN t /\ u[i] = t[i - Len(s)] /\ i > Len(s)
  OBVIOUS
<1>2. DOMAIN s = 1..Len(s) /\ DOMAIN u \subseteq Int /\ Len(s) \in Nat
  OBVIOUS
<1> HIDE DEF u
<1>3. ASSUME NEW m \in DOMAIN u, NEW n \in DOMAIN u, m < n
      PROVE  u[m] < u[n]
  <2>1. CASE n \in DOMAIN s /\ u[n] = s[n]
    <3>1. m \in DOMAIN s /\ u[m] = s[m]
      BY <1>1, <1>2, <1>3, <2>1
    <3> QED
      BY <1>3, <2>1, <3>1 DEF Rising
  <2>2. CASE n - Len(s) \in DOMAIN t /\ u[n] = t[n - Len(s)]
    <3>1. CASE m \in DOMAIN s /\ u[m] = s[m]
      BY <2>2, <3>1 DEF Ahead
    <3>2. CASE m - Len(s) \in DOMAIN t /\ u[m] = t[m - Len(s)]
      <4>1. m - Len(s) < n - Len(s)
        BY <1>2, <1>3
      <4> QED
        BY <2>2, <3>2, <4>1 DEF Rising
    <3> QED
      BY <1>1, <3>1, <3>2
  <2> QED
    BY <1>1, <2>1, <2>2
<1>4. Rising(u)
  BY <1>3 DEF Rising
<1> QED
  BY <1>4 DEF u

\* A sequence is ahead of another when all its jobs are.
LEMMA AheadByRange ==
  ASSUME NEW s, NEW t
  PROVE  Ahead(s, t) <=> \A x \in Range1(s), y \in Range1(t) : x < y
BY DEF Ahead, Range1

LEMMA SingleRising ==
  ASSUME NEW s \in Seq(Jobs), NEW j \in Jobs, Rising(s), \A x \in Range1(s) : x < j
  PROVE  Rising(Append(s, j))
<1> DEFINE u == Append(s, j)
<1>1. /\ DOMAIN s = 1..Len(s) /\ DOMAIN u = 1..(Len(s) + 1) /\ Len(s) \in Nat
      /\ \A i \in DOMAIN s : u[i] = s[i]
      /\ u[Len(s) + 1] = j
  OBVIOUS
<1> HIDE DEF u
<1>2. ASSUME NEW m \in DOMAIN u, NEW n \in DOMAIN u, m < n
      PROVE  u[m] < u[n]
  <2>1. m \in DOMAIN s /\ u[m] = s[m]
    BY <1>1, <1>2
  <2>2. CASE n \in DOMAIN s
    BY <1>1, <1>2, <2>1, <2>2 DEF Rising
  <2>3. CASE n = Len(s) + 1
    BY <1>1, <2>1, <2>3 DEF Range1
  <2> QED
    BY <1>1, <2>2, <2>3
<1>3. Rising(u)
  BY <1>2 DEF Rising
<1> QED
  BY <1>3 DEF u

\* The last in the line.
LEMMA JoinLine ==
  ASSUME NEW s \in Seq(Jobs), NEW f \in Seq(Jobs), NEW b \in Seq(Jobs),
         NEW j \in Jobs, Line(s, f, b),
         \A x \in Range1(s) \cup Range1(f) \cup Range1(b) : x < j
  PROVE  Line(s, f, Append(b, j))
<1>1. Rising(Append(b, j))
  BY SingleRising DEF Line
<1>2. Range1(Append(b, j)) = Range1(b) \cup {j}
  BY AppendRange
<1>3. Ahead(s, Append(b, j)) /\ Ahead(f, Append(b, j))
  BY <1>2, AheadByRange DEF Line
<1> QED
  BY <1>1, <1>3 DEF Line

\* The jobs in flight are stored.
LEMMA LandLine ==
  ASSUME NEW s \in Seq(Jobs), NEW f \in Seq(Jobs), NEW b \in Seq(Jobs), Line(s, f, b)
  PROVE  Line(s \o f, <<>>, b)
<1>1. Rising(s \o f)
  BY ConcatRising DEF Line
<1>2. Ahead(s \o f, b)
  BY ConcatRange, AheadByRange DEF Line
<1> QED
  BY <1>1, <1>2 DEF Line, Rising, Ahead

\* The jobs of the buffer are sent, or stay.
LEMMA FlushLine ==
  ASSUME NEW jobs \in Seq(Jobs), Line(stored, flight, jobs), Flush(jobs)
  PROVE  /\ Line(stored, flight', buffer')
         /\ Range1(flight') \cup Range1(buffer') = Range1(flight) \cup Range1(jobs)
<1>1. CASE flight # <<>> \/ jobs = <<>>
  BY <1>1 DEF Flush
<1>2. CASE ~(flight # <<>> \/ jobs = <<>>)
  BY <1>2 DEF Flush, Line, Rising, Ahead, Range1
<1> QED
  BY <1>1, <1>2

-----------------------------------------------------------------------------
(* Adding jobs. *)

LEMMA InitAdds == Init => AddInv
<1> SUFFICES ASSUME Init
             PROVE  InLine /\ Numbered /\ Unanswered /\ Truthful
  BY InitTypes DEF AddInv
<1>1. stored = <<>> /\ buffer = <<>> /\ flight = <<>>
  BY DEF Init
<1>2. Range1(stored) = {} /\ Range1(buffer) = {} /\ Range1(flight) = {}
  BY <1>1 DEF Range1
<1> QED
  BY <1>1, <1>2
  DEF Init, InLine, Line, Rising, Ahead, Numbered, Unanswered, Truthful

\* What waits or is stored came before a job that is not added yet.
LEMMA Earlier ==
  ASSUME AddInv, NEW j \in Jobs, promise[j] = "none"
  PROVE  \A x \in Range1(stored) \cup Range1(flight) \cup Range1(buffer) :
           x \in Jobs /\ x < j
<1> TAKE x \in Range1(stored) \cup Range1(flight) \cup Range1(buffer)
<1>1. x \in Jobs
  BY DEF AddInv, TypeOK, Range1
<1>2. promise[x] # "none"
  BY <1>1 DEF AddInv, Numbered, Unanswered
<1>3. x # j /\ ~(j < x)
  BY <1>1, <1>2 DEF AddInv, Numbered
<1> QED
  BY <1>1, <1>3, JobsAreNumbers

\* flushBatch() with the jobs of the buffer, which are pending.
LEMMA FlushAdds ==
  ASSUME NEW jobs \in Seq(Jobs), Flush(jobs), UNCHANGED <<batched, stored>>,
         batched => Line(stored, flight, jobs),
         \A j \in Range1(flight) \cup Range1(jobs) : promise'[j] = "pending",
         ~batched => flight = <<>> /\ jobs = <<>>
  PROVE  /\ batched' => Line(stored', flight', buffer')
         /\ Unanswered'
<1>1. CASE batched
  BY <1>1, FlushLine DEF Unanswered
<1>2. CASE ~batched
  <2>1. flight' = <<>> /\ buffer' = <<>>
    BY <1>2 DEF Flush
  <2> QED
    BY <1>2, <2>1 DEF Unanswered, Range1
<1> QED
  BY <1>1, <1>2

\* add() counts a job as pending, or rejects it.
LEMMA AskedAdds ==
  ASSUME AddInv, NEW j \in Jobs, Next1(j), UNCHANGED <<stored, faults>>,
         NEW answer \in {"pending", "rejected"},
         promise' = [promise EXCEPT ![j] = answer]
  PROVE  Numbered' /\ Truthful'
<1>1. promise[j] = "none" /\ \A i \in Jobs : i < j => promise[i] # "none"
  BY DEF Next1
<1>2. promise \in [Jobs -> {"none", "pending", "resolved", "rejected"}]
  BY DEF AddInv, TypeOK
<1>3. j \notin Range1(stored)
  BY <1>1 DEF AddInv, Numbered
<1>4. Numbered'
  <2> SUFFICES ASSUME NEW i \in Jobs, promise'[i] = "none"
               PROVE  /\ i \notin Range1(stored)
                      /\ \A k \in Jobs : i < k => promise'[k] = "none"
    BY DEF Numbered
  <2>1. i # j /\ promise[i] = "none"
    BY <1>2
  <2>2. ~(i < j)
    BY <1>1, <2>1
  <2> QED
    BY <1>2, <2>1, <2>2 DEF AddInv, Numbered
<1>5. Truthful'
  BY <1>2, <1>3 DEF AddInv, Truthful
<1> QED
  BY <1>4, <1>5

LEMMA AddAdds ==
  ASSUME AddInv, NEW j \in Jobs, Add(j)
  PROVE  InLine' /\ Numbered' /\ Unanswered' /\ Truthful'
<1> DEFINE jobs == Append(buffer, j)
<1>1. /\ batched /\ Next1(j) /\ promise' = [promise EXCEPT ![j] = "pending"]
      /\ UNCHANGED <<batched, stored, faults>>
  BY DEF Add
<1>2. Numbered' /\ Truthful'
  BY <1>1, AskedAdds
<1>3. /\ stored \in Seq(Jobs) /\ flight \in Seq(Jobs) /\ buffer \in Seq(Jobs)
      /\ promise \in [Jobs -> {"none", "pending", "resolved", "rejected"}]
  BY DEF AddInv, TypeOK
<1>4. Line(stored, flight, jobs) /\ jobs \in Seq(Jobs)
  BY <1>1, <1>3, Earlier, JoinLine DEF Next1, AddInv, InLine
<1>5. \A x \in Range1(flight) \cup Range1(jobs) : promise'[x] = "pending"
  <2>1. Range1(jobs) = Range1(buffer) \cup {j}
    BY <1>3, AppendRange
  <2>2. \A x \in Range1(flight) \cup Range1(buffer) : x \in Jobs
    BY <1>3 DEF Range1
  <2> QED
    BY <1>1, <1>3, <2>1, <2>2 DEF AddInv, Unanswered
<1>6. Line(stored, flight', buffer') /\ Unanswered'
  <2>1. CASE Len(jobs) >= BatchSize
    <3>1. Flush(jobs)
      BY <2>1 DEF Add
    <3> HIDE DEF jobs
    <3> QED
      BY <1>1, <1>4, <1>5, <3>1, FlushAdds
  <2>2. CASE ~(Len(jobs) >= BatchSize)
    BY <1>4, <1>5, <2>2 DEF Add, Unanswered
  <2> QED
    BY <2>1, <2>2
<1> QED
  BY <1>1, <1>2, <1>6 DEF InLine

LEMMA SingleAdds ==
  ASSUME AddInv, NEW j \in Jobs, AddSingle(j) \/ Single(j)
  PROVE  InLine' /\ Numbered' /\ Unanswered' /\ Truthful'
<1>1. /\ ~batched /\ UNCHANGED <<batched, buffer, flight>>
      /\ buffer = <<>> /\ flight = <<>>
  BY DEF AddSingle, Single, SingleAnswers, SingleFails, batcher, AddInv, TypeOK
<1>2. Unanswered'
  BY <1>1 DEF Unanswered, Range1
<1>3. /\ stored \in Seq(Jobs) /\ faults \in 0..MaxFaults /\ MaxFaults \in Nat
      /\ promise \in [Jobs -> {"none", "pending", "resolved", "rejected"}]
  BY ClientAssumption DEF AddInv, TypeOK
<1>4. CASE AddSingle(j)
  <2>1. /\ Next1(j) /\ UNCHANGED <<stored, faults>>
        /\ \/ promise' = [promise EXCEPT ![j] = "pending"]
           \/ promise' = [promise EXCEPT ![j] = "rejected"]
    BY <1>4 DEF AddSingle
  <2>2. Numbered' /\ Truthful'
    BY <2>1, AskedAdds
  <2>3. j \notin Range1(stored)
    BY <2>1 DEF Next1, AddInv, Numbered
  <2>4. InLine'
    BY <1>1, <1>3, <2>1, <2>3 DEF AddInv, InLine
  <2> QED
    BY <1>2, <2>2, <2>4
<1>5. CASE Single(j)
  <2>1. j \notin Range1(stored) /\ promise[j] = "pending"
    BY <1>1, <1>5 DEF Single, SingleAnswers, SingleFails, AddInv, InLine
  <2>2. /\ promise' = [promise EXCEPT ![j] = promise'[j]]
        /\ promise'[j] \in {"resolved", "rejected"}
        /\ stored' = stored \/ stored' = Append(stored, j)
        /\ promise'[j] = "resolved" => stored' = Append(stored, j)
        /\ promise'[j] = "rejected" => stored' = stored \/ faults' < MaxFaults
        /\ faults' \in 0..MaxFaults /\ faults' <= faults
    BY <1>3, <1>5 DEF Single, SingleAnswers, SingleFails
  <2>3. Range1(Append(stored, j)) = Range1(stored) \cup {j}
    BY <1>3, AppendRange
  <2>4. Numbered'
    BY <1>3, <2>1, <2>2, <2>3 DEF AddInv, Numbered
  <2>5. Truthful'
    <3> SUFFICES ASSUME NEW i \in Jobs
                 PROVE  /\ promise'[i] = "resolved" => i \in Range1(stored')
                        /\ promise'[i] = "rejected" /\ faults' = MaxFaults
                             => i \notin Range1(stored')
      BY DEF Truthful
    <3>1. CASE i = j
      <4>1. promise'[i] \in {"resolved", "rejected"}
        BY <2>2, <3>1
      <4>2. CASE promise'[i] = "resolved"
        BY <2>2, <2>3, <3>1, <4>2
      <4>3. CASE promise'[i] = "rejected"
        <5>1. stored' = stored \/ faults' < MaxFaults
          BY <2>2, <3>1, <4>3
        <5>2. faults' < MaxFaults => faults' # MaxFaults
          BY <1>3, <2>2
        <5>3. stored' = stored => i \notin Range1(stored')
          BY <2>1, <3>1
        <5> QED
          BY <4>3, <5>1, <5>2, <5>3
      <4> QED
        BY <4>1, <4>2, <4>3
    <3>2. CASE i # j
      <4>1. /\ promise'[i] = promise[i]
            /\ i \in Range1(stored') <=> i \in Range1(stored)
        BY <1>3, <2>2, <2>3, <3>2
      <4>2. faults' = MaxFaults => faults = MaxFaults
        BY <1>3, <2>2
      <4> QED
        BY <4>1, <4>2 DEF AddInv, Truthful
    <3> QED
      BY <3>1, <3>2
  <2>6. \A m, n \in DOMAIN stored' : m < n => stored'[m] # stored'[n]
    <3>1. CASE stored' = stored
      BY <1>1, <3>1 DEF AddInv, InLine
    <3>2. CASE stored' = Append(stored, j)
      <4>1. /\ DOMAIN stored = 1..Len(stored) /\ Len(stored) \in Nat
            /\ DOMAIN stored' = 1..(Len(stored) + 1)
            /\ \A i \in DOMAIN stored : stored'[i] = stored[i]
            /\ stored'[Len(stored) + 1] = j
        BY <1>3, <3>2
      <4>2. \A i \in DOMAIN stored : stored[i] # j
        BY <2>1 DEF Range1
      <4> QED
        BY <1>1, <4>1, <4>2 DEF AddInv, InLine
    <3> QED
      BY <2>2, <3>1, <3>2
  <2>7. InLine'
    BY <1>1, <1>3, <2>1, <2>2, <2>3, <2>6 DEF AddInv, InLine
  <2> QED
    BY <1>2, <2>4, <2>5, <2>7
<1> QED
  BY <1>4, <1>5

\* The timer, setImmediate and close() flush the buffer as it is.
LEMMA FlushedAdds ==
  ASSUME AddInv, Flush(buffer), UNCHANGED <<batched, promise, stored, faults>>
  PROVE  InLine' /\ Numbered' /\ Unanswered' /\ Truthful'
<1>1. buffer \in Seq(Jobs) /\ (~batched => flight = <<>> /\ buffer = <<>>)
  BY DEF AddInv, TypeOK
<1>2. \A j \in Range1(flight) \cup Range1(buffer) : promise'[j] = "pending"
  BY DEF AddInv, TypeOK, Unanswered, Range1
<1>3. (batched' => Line(stored', flight', buffer')) /\ Unanswered'
  BY <1>1, <1>2, FlushAdds DEF AddInv, InLine
<1> QED
  BY <1>3 DEF AddInv, InLine, Numbered, Truthful

\* The answer of a batch, or the error for all of it.
LEMMA SettledAdds ==
  ASSUME AddInv, NEW result \in {"resolved", "rejected"}, Settle(result),
         flight # <<>>, UNCHANGED <<batched, buffer>>,
         stored' = stored \/ stored' = stored \o flight,
         result = "resolved" => stored' = stored \o flight,
         result = "rejected" => stored' = stored \/ faults' < MaxFaults,
         faults' \in 0..MaxFaults, faults' <= faults
  PROVE  InLine' /\ Numbered' /\ Unanswered' /\ Truthful'
<1>1. /\ stored \in Seq(Jobs) /\ flight \in Seq(Jobs) /\ buffer \in Seq(Jobs)
      /\ promise \in [Jobs -> {"none", "pending", "resolved", "rejected"}]
      /\ faults \in 0..MaxFaults /\ MaxFaults \in Nat
  BY ClientAssumption DEF AddInv, TypeOK
<1>2. batched /\ Line(stored, flight, buffer)
  BY DEF AddInv, InLine, TypeOK
<1>3. /\ flight' = <<>>
      /\ \A j \in Jobs : promise'[j] = IF j \in Range1(flight) THEN result
                                       ELSE promise[j]
  BY DEF Settle
<1>4. Range1(stored \o flight) = Range1(stored) \cup Range1(flight)
  BY <1>1, ConcatRange
<1>5. \A x \in Range1(flight) : x \notin Range1(stored) \cup Range1(buffer)
  <2>1. \A x \in Range1(flight) : x \in Int
    <3>1. \A n \in DOMAIN flight : flight[n] \in Jobs
      BY <1>1
    <3> QED
      BY <3>1, JobsAreNumbers DEF Range1
  <2> QED
    BY <1>2, <2>1, AheadByRange DEF Line
<1>6. InLine'
  <2>1. Line(stored', <<>>, buffer)
    <3>1. CASE stored' = stored
      BY <1>2, <3>1 DEF Line, Rising, Ahead
    <3>2. CASE stored' = stored \o flight
      BY <1>1, <1>2, <3>2, LandLine
    <3> QED
      BY <3>1, <3>2
  <2> QED
    BY <1>2, <1>3, <2>1 DEF InLine
<1>7. Numbered'
  <2>1. ASSUME NEW j \in Jobs, promise'[j] = "none"
        PROVE  promise[j] = "none" /\ j \notin Range1(flight)
    BY <1>3, <2>1
  <2>2. ASSUME NEW j \in Jobs, promise[j] = "none"
        PROVE  promise'[j] = "none"
    BY <1>3, <2>2 DEF AddInv, Unanswered
  <2> QED
    BY <1>4, <2>1, <2>2 DEF AddInv, Numbered
<1>8. Unanswered'
  <2>1. Range1(flight') = {}
    BY <1>3 DEF Range1
  <2> QED
    BY <1>3, <1>5, <2>1 DEF AddInv, Unanswered
<1>9. Truthful'
  <2> SUFFICES ASSUME NEW i \in Jobs
               PROVE  /\ promise'[i] = "resolved" => i \in Range1(stored')
                      /\ promise'[i] = "rejected" /\ faults' = MaxFaults
                           => i \notin Range1(stored')
    BY DEF Truthful
  <2>1. CASE i \in Range1(flight)
    <3>1. promise'[i] = result /\ i \notin Range1(stored)
      BY <1>3, <1>5, <2>1
    <3>2. promise'[i] = "resolved" => i \in Range1(stored')
      BY <1>4, <2>1, <3>1
    <3>3. promise'[i] = "rejected" => stored' = stored \/ faults' < MaxFaults
      BY <3>1
    <3>4. faults' < MaxFaults => faults' # MaxFaults
      BY <1>1
    <3>5. stored' = stored => i \notin Range1(stored')
      BY <3>1
    <3> QED
      BY <3>2, <3>3, <3>4, <3>5
  <2>2. CASE i \notin Range1(flight)
    <3>1. /\ promise'[i] = promise[i]
          /\ i \in Range1(stored') <=> i \in Range1(stored)
      BY <1>3, <1>4, <2>2
    <3>2. faults' = MaxFaults => faults = MaxFaults
      BY <1>1
    <3> QED
      BY <3>1, <3>2 DEF AddInv, Truthful
  <2> QED
    BY <2>1, <2>2
<1> QED
  BY <1>6, <1>7, <1>8, <1>9

LEMMA BatchingAdds ==
  ASSUME AddInv, Batching
  PROVE  InLine' /\ Numbered' /\ Unanswered' /\ Truthful'
<1>0. faults \in 0..MaxFaults /\ MaxFaults \in Nat
  BY ClientAssumption DEF AddInv, TypeOK
<1>1. CASE TimerFires \/ ImmediateFires
  BY <1>1, FlushedAdds DEF TimerFires, ImmediateFires
<1>2. CASE FlushAnswers
  BY <1>0, <1>2, SettledAdds DEF FlushAnswers
<1>3. CASE FlushFails
  <2>1. /\ flight # <<>> /\ Settle("rejected") /\ UNCHANGED <<batched, buffer>>
        /\ stored' = stored \/ stored' = stored \o flight
        /\ UNCHANGED <<stored, faults>> \/ (faults > 0 /\ faults' = faults - 1)
    BY <1>3 DEF FlushFails
  <2>2. faults' \in 0..MaxFaults /\ faults' <= faults
    BY <1>0, <2>1
  <2>3. stored' = stored \/ faults' < MaxFaults
    BY <1>0, <2>1
  <2> QED
    BY <2>1, <2>2, <2>3, SettledAdds
<1> QED
  BY <1>1, <1>2, <1>3 DEF Batching

LEMMA StepAdds == AddInv /\ [Next]_vars => AddInv'
<1> SUFFICES ASSUME AddInv, [Next]_vars
             PROVE  InLine' /\ Numbered' /\ Unanswered' /\ Truthful'
  BY StepTypes DEF AddInv
<1>1. CASE UNCHANGED batching
  BY <1>1 DEF batching, batcher, AddInv, InLine, Numbered, Unanswered, Truthful
<1>2. CASE Close
  <2>1. CASE buffer # <<>>
    BY <1>2, <2>1, FlushedAdds DEF Close
  <2>2. CASE buffer = <<>>
    BY <1>2, <2>2
    DEF Close, AddInv, InLine, Numbered, Unanswered, Truthful
  <2> QED
    BY <2>1, <2>2
<1>3. ASSUME NEW w \in Waiters, Wait(w) \/ Reading(w) \/ TimeOut(w)
      PROVE  UNCHANGED batching
  BY <1>3 DEF Wait, Reading, FirstRead, Register, SecondRead, TimeOut
<1>4. ASSUME NEW j \in Jobs, JobEnds(j) \/ Deliver(j)
      PROVE  UNCHANGED batching
  BY <1>4 DEF JobEnds, Deliver
<1>5. CASE Closing
  BY <1>1, <1>5 DEF Closing, CloseFlushed, Unsubscribe, Quit
<1>6. CASE UNCHANGED vars
  BY <1>1, <1>6 DEF vars
<1> QED
  BY <1>1, <1>2, <1>3, <1>4, <1>5, <1>6, AddAdds, SingleAdds, BatchingAdds DEF Next

\* Whatever flushes overlap, fail or meet close(): add() resolves for a job that
\* is stored, rejects without a fault for one that is not, and no job is stored
\* twice or, by batches, out of order.
THEOREM AddsAreTrue == Spec => []AddAnswersTrue
<1>1. AddInv => AddAnswersTrue
  <2> SUFFICES ASSUME AddInv PROVE AddAnswersTrue
    OBVIOUS
  <2>1. \A m, n \in DOMAIN stored :
          m < n => stored[m] # stored[n] /\ (batched => stored[m] < stored[n])
    <3>1. stored \in Seq(Jobs)
      BY DEF AddInv, TypeOK
    <3>2. \A m \in DOMAIN stored : stored[m] \in Jobs
      BY <3>1
    <3>3. \A m \in DOMAIN stored : stored[m] \in Int
      BY <3>2, JobsAreNumbers
    <3> QED
      BY <3>3 DEF AddInv, InLine, Line, Rising
  <2> QED
    BY <2>1 DEF AddInv, Truthful, AddAnswersTrue
<1> QED
  BY <1>1, InitAdds, StepAdds, PTL DEF Spec

-----------------------------------------------------------------------------
(* Repeating jobs. *)

\* What is scheduled, looked up or worked on has been added.
Known ==
  /\ \A d \in Defs : sched[d] > 0 => adding[d] \in {"listed", "added"}
  /\ \A n \in Names : lookup[n] # None => adding[lookup[n]] = "added"
  /\ \A p \in Schedulers : key[p] # None => adding[key[p]] \in {"listed", "added"}
  /\ \A d \in Defs : adding[d] = "stored" => planned[d] > 0
  /\ \A d \in Defs : ran[d] > 0 => adding[d] \in {"listed", "added"}
  /\ \A d \in Defs : removing[d] # "none" => adding[d] = "added"

\* A definition that is not being removed keeps its value, and no pass discards it.
Kept ==
  /\ \A d \in Defs : adding[d] # "none" /\ removing[d] = "none" => meta[d] = "live"
  /\ \A p \in Schedulers :
       pass[p] \in {"unlist", "purge", "discard"} => removing[key[p]] # "none"
  /\ \A p \in Schedulers : pass[p] = "failed" => key[p] \in Fragile

\* It is on the schedule, or off it only between the ZREM and the ZADD of a pass.
Scheduled ==
  \A d \in Defs \ Fragile :
    adding[d] \in {"listed", "added"} /\ removing[d] = "none"
      => \/ sched[d] > 0
         \/ \E p \in Schedulers : key[p] = d /\ pass[p] \in {"store", "plan"}

\* A dead definition keeps its mark and no scheduler has a copy from before.
Buried ==
  \A d \in dead :
    /\ removing[d] # "none"
    /\ meta[d] # "live"
    /\ \A p \in Schedulers : ~Carries(p, d)

\* Passes one after the other: each finds a definition at least an interval after
\* its last run, and puts it back an interval after the run it enqueues.
InTurn ==
  ~overlap =>
    /\ \A p, q \in Schedulers : Passing(p) /\ Passing(q) => p = q
    /\ \A d \in Defs : sched[d] > 0 /\ ran[d] > 0 => sched[d] >= ran[d] + Every
    /\ \A p \in Schedulers : key[p] # None => seen[p] > 0 /\ seen[p] <= now[p]
    /\ \A p \in Schedulers :
         pass[p] \in {"read", "take", "store", "plan", "enqueue"} /\ ran[key[p]] > 0
           => seen[p] >= ran[key[p]] + Every
    /\ \A p \in Schedulers :
         pass[p] = "enqueue" /\ sched[key[p]] > 0 => sched[key[p]] >= seen[p] + Every

RepeatInv == RepeatTypeOK /\ Known /\ Kept /\ Scheduled /\ Buried /\ InTurn

-----------------------------------------------------------------------------
(* addRepeatingJob. *)

LEMMA AddStoreKeeps ==
  ASSUME RepeatInv, NEW d \in Defs, AddStore(d)
  PROVE  RepeatInv'
<1>1. RepeatTypeOK'
  BY RepeatAssumption DEF RepeatInv, RepeatTypeOK, AddStages, passVars, history,
     AddStore
<1>2. Known'
  BY RepeatAssumption DEF RepeatInv, RepeatTypeOK, Known, passVars, history, AddStore
<1>3. Kept'
  BY DEF RepeatInv, RepeatTypeOK, Kept, passVars, history, AddStore
<1>4. Scheduled'
  BY DEF RepeatInv, RepeatTypeOK, Scheduled, passVars, history, AddStore
<1>5. Buried'
  BY DEF RepeatInv, RepeatTypeOK, Known, Buried, passVars, history, Carries, AddStore
<1>6. InTurn'
  BY DEF RepeatInv, RepeatTypeOK, InTurn, passVars, history, Passing, AddStore
<1> QED
  BY <1>1, <1>2, <1>3, <1>4, <1>5, <1>6 DEF RepeatInv

LEMMA AddListKeeps ==
  ASSUME RepeatInv, NEW d \in Defs, AddList(d)
  PROVE  RepeatInv'
<1>1. RepeatTypeOK'
  BY DEF RepeatInv, RepeatTypeOK, AddStages, passVars, history, AddList
<1>2. Known'
  BY DEF RepeatInv, RepeatTypeOK, Known, passVars, history, AddList
<1>3. Kept'
  BY DEF RepeatInv, RepeatTypeOK, Kept, passVars, history, AddList
<1>4. Scheduled'
  BY DEF RepeatInv, RepeatTypeOK, Known, Scheduled, passVars, history, AddList
<1>5. Buried'
  BY DEF RepeatInv, RepeatTypeOK, Buried, passVars, history, Carries, AddList
<1>6. InTurn'
  BY DEF RepeatInv, RepeatTypeOK, Known, InTurn, passVars, history, Passing, AddList
<1> QED
  BY <1>1, <1>2, <1>3, <1>4, <1>5, <1>6 DEF RepeatInv

LEMMA AddLookupKeeps ==
  ASSUME RepeatInv, NEW d \in Defs, AddLookup(d)
  PROVE  RepeatInv'
<1>1. RepeatTypeOK'
  BY DEF RepeatInv, RepeatTypeOK, AddStages, passVars, history, AddLookup
<1>2. Known'
  BY DEF RepeatInv, RepeatTypeOK, Known, passVars, history, AddLookup
<1>3. Kept'
  BY DEF RepeatInv, RepeatTypeOK, Kept, passVars, history, AddLookup
<1>4. Scheduled'
  BY DEF RepeatInv, RepeatTypeOK, Scheduled, passVars, history, AddLookup
<1>5. Buried'
  BY DEF RepeatInv, RepeatTypeOK, Buried, passVars, history, Carries, AddLookup
<1>6. InTurn'
  BY DEF RepeatInv, RepeatTypeOK, InTurn, passVars, history, Passing, AddLookup
<1> QED
  BY <1>1, <1>2, <1>3, <1>4, <1>5, <1>6 DEF RepeatInv

-----------------------------------------------------------------------------
(* removeRepeatingJob. *)

LEMMA RemoveMarkKeeps ==
  ASSUME RepeatInv, NEW d \in Defs, RemoveMark(d)
  PROVE  RepeatInv'
<1>1. RepeatTypeOK'
  BY DEF RepeatInv, RepeatTypeOK, RemoveStages, passVars, RemoveMark, RemoveStep,
     MarkRemoved
<1>2. Known'
  <2>0. NameOf[d] \in Names /\ d # None
    BY RepeatAssumption
  <2>1. adding[d] = "added"
    BY <2>0 DEF RepeatInv, RepeatTypeOK, Known, passVars, RemoveMark, RemoveStep,
       MarkRemoved
  <2> QED
    BY <2>1 DEF RepeatInv, RepeatTypeOK, Known, passVars, RemoveMark, RemoveStep,
       MarkRemoved
<1>3. Kept'
  BY DEF RepeatInv, RepeatTypeOK, Kept, passVars, RemoveMark, RemoveStep, MarkRemoved
<1>4. Scheduled'
  BY DEF RepeatInv, RepeatTypeOK, Scheduled, passVars, RemoveMark, RemoveStep,
     MarkRemoved
<1>5. Buried'
  BY DEF RepeatInv, RepeatTypeOK, Buried, passVars, Carries, RemoveMark, RemoveStep,
     MarkRemoved
<1>6. InTurn'
  BY DEF RepeatInv, RepeatTypeOK, InTurn, passVars, Passing, RemoveMark, RemoveStep,
     MarkRemoved
<1> QED
  BY <1>1, <1>2, <1>3, <1>4, <1>5, <1>6 DEF RepeatInv

LEMMA RemoveUnlistKeeps ==
  ASSUME RepeatInv, NEW d \in Defs, RemoveUnlist(d)
  PROVE  RepeatInv'
<1>1. RepeatTypeOK'
  BY DEF RepeatInv, RepeatTypeOK, RemoveStages, passVars, RemoveUnlist, RemoveStep
<1>2. Known'
  BY DEF RepeatInv, RepeatTypeOK, Known, passVars, RemoveUnlist, RemoveStep
<1>3. Kept'
  BY DEF RepeatInv, RepeatTypeOK, Kept, passVars, RemoveUnlist, RemoveStep
<1>4. Scheduled'
  BY DEF RepeatInv, RepeatTypeOK, Scheduled, passVars, RemoveUnlist, RemoveStep
<1>5. Buried'
  BY DEF RepeatInv, RepeatTypeOK, Buried, passVars, Carries, RemoveUnlist, RemoveStep
<1>6. InTurn'
  BY DEF RepeatInv, RepeatTypeOK, InTurn, passVars, Passing, RemoveUnlist, RemoveStep
<1> QED
  BY <1>1, <1>2, <1>3, <1>4, <1>5, <1>6 DEF RepeatInv

LEMMA RemoveLookupKeeps ==
  ASSUME RepeatInv, NEW d \in Defs, RemoveLookup(d)
  PROVE  RepeatInv'
<1>1. RepeatTypeOK'
  BY DEF RepeatInv, RepeatTypeOK, RemoveStages, passVars, RemoveLookup, RemoveStep
<1>2. Known'
  BY DEF RepeatInv, RepeatTypeOK, Known, passVars, RemoveLookup, RemoveStep
<1>3. Kept'
  BY DEF RepeatInv, RepeatTypeOK, Kept, passVars, RemoveLookup, RemoveStep
<1>4. Scheduled'
  BY DEF RepeatInv, RepeatTypeOK, Scheduled, passVars, RemoveLookup, RemoveStep
<1>5. Buried'
  BY DEF RepeatInv, RepeatTypeOK, Buried, passVars, Carries, RemoveLookup, RemoveStep
<1>6. InTurn'
  BY DEF RepeatInv, RepeatTypeOK, InTurn, passVars, Passing, RemoveLookup, RemoveStep
<1> QED
  BY <1>1, <1>2, <1>3, <1>4, <1>5, <1>6 DEF RepeatInv

-----------------------------------------------------------------------------
(* A scheduler's pass. *)

\* With overlap' FALSE the pass that starts is the only one.
LEMMA StartKeeps ==
  ASSUME RepeatInv, NEW p \in Schedulers, Start(p)
  PROVE  RepeatInv'
<1>1. RepeatTypeOK'
  BY DEF RepeatInv, RepeatTypeOK, PassStages, keys, Start
<1>2. Known'
  BY DEF RepeatInv, RepeatTypeOK, Known, keys, Start
<1>3. Kept'
  BY DEF RepeatInv, RepeatTypeOK, Kept, keys, Start
<1>4. Scheduled'
  BY DEF RepeatInv, RepeatTypeOK, Scheduled, keys, Start
<1>5. Buried'
  BY DEF RepeatInv, RepeatTypeOK, Buried, keys, Carries, Start
<1>6. InTurn'
  <2>1. /\ ~overlap' => ~overlap /\ \A q \in Schedulers : ~Passing(q)
        /\ \A q \in Schedulers : q # p => pass'[q] = pass[q]
        /\ UNCHANGED <<sched, ran, key, seen>>
    BY DEF RepeatInv, RepeatTypeOK, keys, Start
  <2>2. \A q \in Schedulers : ~Passing(q) => key[q] = None
    BY DEF RepeatInv, RepeatTypeOK, Passing
  <2>3. \A q \in Schedulers :
          pass'[q] \in {"read", "take", "store", "plan", "enqueue"} => key[q] # None
    BY RepeatAssumption, <1>1, <2>1 DEF RepeatTypeOK
  <2> QED
    BY <2>1, <2>2, <2>3 DEF RepeatInv, InTurn, Passing
<1> QED
  BY <1>1, <1>2, <1>3, <1>4, <1>5, <1>6 DEF RepeatInv

LEMMA ScanKeeps ==
  ASSUME RepeatInv, NEW p \in Schedulers, Scan(p)
  PROVE  RepeatInv'
<1>1. RepeatTypeOK'
  <2>1. CASE Due(p) = {} /\ Leave(p, "idle")
    BY <2>1 DEF RepeatInv, RepeatTypeOK, PassStages, Scan, Due, Leave, PassOnly
  <2>2. CASE \E d \in Due(p) : /\ pass' = [pass EXCEPT ![p] = "read"]
                                 /\ UNCHANGED now
                                 /\ key' = [key EXCEPT ![p] = d]
                                 /\ seen' = [seen EXCEPT ![p] = sched[d]]
    <3>1. PICK d \in Defs : /\ pass' = [pass EXCEPT ![p] = "read"]
                           /\ UNCHANGED now
                           /\ key' = [key EXCEPT ![p] = d]
                           /\ seen' = [seen EXCEPT ![p] = sched[d]]
      BY <2>2 DEF Due
    <3> QED
      BY <3>1, RepeatAssumption DEF RepeatInv, RepeatTypeOK, PassStages, Scan, Due,
         Leave,
         PassOnly
  <2> QED
    BY <2>1, <2>2 DEF Scan
<1>2. Known'
  BY DEF RepeatInv, RepeatTypeOK, Known, Scan, Due, Leave, PassOnly
<1>3. Kept'
  BY DEF RepeatInv, RepeatTypeOK, Kept, Scan, Due, Leave, PassOnly
<1>4. Scheduled'
  BY DEF RepeatInv, RepeatTypeOK, Scheduled, Scan, Due, Leave, PassOnly
<1>5. Buried'
  BY DEF RepeatInv, RepeatTypeOK, Buried, Carries, Scan, Due, Leave, PassOnly
<1>6. InTurn'
  BY DEF RepeatInv, RepeatTypeOK, InTurn, Passing, Scan, Due, Leave, PassOnly
<1> QED
  BY <1>1, <1>2, <1>3, <1>4, <1>5, <1>6 DEF RepeatInv

LEMMA ReadKeeps ==
  ASSUME RepeatInv, NEW p \in Schedulers, Read(p)
  PROVE  RepeatInv'
<1>1. RepeatTypeOK'
  BY DEF RepeatInv, RepeatTypeOK, PassStages, Read, AfterRead, Goto, PassOnly
<1>2. Known'
  BY DEF RepeatInv, RepeatTypeOK, Known, Read, AfterRead, Goto, PassOnly
<1>3. Kept'
  BY DEF RepeatInv, RepeatTypeOK, Known, Kept, Read, AfterRead, Goto, PassOnly
<1>4. Scheduled'
  BY DEF RepeatInv, RepeatTypeOK, Scheduled, Read, AfterRead, Goto, PassOnly
<1>5. Buried'
  BY DEF RepeatInv, RepeatTypeOK, Buried, Carries, Read, AfterRead, Goto, PassOnly
<1>6. InTurn'
  BY DEF RepeatInv, RepeatTypeOK, InTurn, Passing, Read, AfterRead, Goto, PassOnly
<1> QED
  BY <1>1, <1>2, <1>3, <1>4, <1>5, <1>6 DEF RepeatInv

LEMMA UnlistKeeps ==
  ASSUME RepeatInv, NEW p \in Schedulers, Unlist(p)
  PROVE  RepeatInv'
<1>1. RepeatTypeOK'
  BY DEF RepeatInv, RepeatTypeOK, PassStages, Unlist, Leave, Goto, PassOnly
<1>2. Known'
  BY DEF RepeatInv, RepeatTypeOK, Known, Unlist, Leave, Goto, PassOnly
<1>3. Kept'
  BY DEF RepeatInv, RepeatTypeOK, Kept, Unlist, Leave, Goto, PassOnly
<1>4. Scheduled'
  BY DEF RepeatInv, RepeatTypeOK, Kept, Scheduled, Unlist, Leave, Goto, PassOnly
<1>5. Buried'
  BY DEF RepeatInv, RepeatTypeOK, Buried, Carries, Unlist, Leave, Goto, PassOnly
<1>6. InTurn'
  <2>1. CASE pass[p] = "unlist"
    BY <2>1 DEF RepeatInv, RepeatTypeOK, InTurn, Passing, Unlist, Leave, Goto, PassOnly
  <2>2. CASE pass[p] = "purge"
    BY <2>2 DEF RepeatInv, RepeatTypeOK, InTurn, Passing, Unlist, Leave, Goto, PassOnly
  <2> QED
    BY <2>1, <2>2 DEF RepeatInv, RepeatTypeOK, InTurn, Passing, Unlist, Leave, Goto,
       PassOnly
<1> QED
  BY <1>1, <1>2, <1>3, <1>4, <1>5, <1>6 DEF RepeatInv

LEMMA DiscardKeeps ==
  ASSUME RepeatInv, NEW p \in Schedulers, Discard(p)
  PROVE  RepeatInv'
<1>1. RepeatTypeOK'
  BY DEF RepeatInv, RepeatTypeOK, PassStages, Discard, Leave, PassOnly
<1>2. Known'
  BY DEF RepeatInv, RepeatTypeOK, Known, Discard, Leave, PassOnly
<1>3. Kept'
  BY DEF RepeatInv, RepeatTypeOK, Kept, Discard, Leave, PassOnly
<1>4. Scheduled'
  BY DEF RepeatInv, RepeatTypeOK, Scheduled, Discard, Leave, PassOnly
<1>5. Buried'
  BY DEF RepeatInv, RepeatTypeOK, Buried, Carries, Discard, Leave, PassOnly
<1>6. InTurn'
  BY DEF RepeatInv, RepeatTypeOK, InTurn, Passing, Discard, Leave, PassOnly
<1> QED
  BY <1>1, <1>2, <1>3, <1>4, <1>5, <1>6 DEF RepeatInv

LEMMA TakeKeeps ==
  ASSUME RepeatInv, NEW p \in Schedulers, Take(p)
  PROVE  RepeatInv'
<1>1. RepeatTypeOK'
  BY DEF RepeatInv, RepeatTypeOK, PassStages, Take, Goto, PassOnly
<1>2. Known'
  BY DEF RepeatInv, RepeatTypeOK, Known, Take, Goto, PassOnly
<1>3. Kept'
  BY DEF RepeatInv, RepeatTypeOK, Kept, Take, Goto, PassOnly
<1>4. Scheduled'
  BY DEF RepeatInv, RepeatTypeOK, Scheduled, Take, Goto, PassOnly
<1>5. Buried'
  BY DEF RepeatInv, RepeatTypeOK, Buried, Carries, Take, Goto, PassOnly
<1>6. InTurn'
  BY DEF RepeatInv, RepeatTypeOK, InTurn, Passing, Take, Goto, PassOnly
<1> QED
  BY <1>1, <1>2, <1>3, <1>4, <1>5, <1>6 DEF RepeatInv

LEMMA StoreKeeps ==
  ASSUME RepeatInv, NEW p \in Schedulers, Store(p)
  PROVE  RepeatInv'
<1>1. RepeatTypeOK'
  BY DEF RepeatInv, RepeatTypeOK, PassStages, Store, Goto, PassOnly
<1>2. Known'
  BY DEF RepeatInv, RepeatTypeOK, Known, Store, Goto, PassOnly
<1>3. Kept'
  BY DEF RepeatInv, RepeatTypeOK, Kept, Store, Goto, PassOnly
<1>4. Scheduled'
  BY DEF RepeatInv, RepeatTypeOK, Scheduled, Store, Goto, PassOnly
<1>5. Buried'
  BY DEF RepeatInv, RepeatTypeOK, Buried, Carries, Store, Goto, PassOnly
<1>6. InTurn'
  BY DEF RepeatInv, RepeatTypeOK, InTurn, Passing, Store, Goto, PassOnly
<1> QED
  BY <1>1, <1>2, <1>3, <1>4, <1>5, <1>6 DEF RepeatInv

LEMMA PlanKeeps ==
  ASSUME RepeatInv, NEW p \in Schedulers, Plan(p)
  PROVE  RepeatInv'
<1>1. RepeatTypeOK'
  BY RepeatAssumption DEF RepeatInv, RepeatTypeOK, PassStages, Plan, Goto, PassOnly,
     NextRun
<1>2. Known'
  BY DEF RepeatInv, RepeatTypeOK, Known, Plan, Goto, PassOnly, NextRun
<1>3. Kept'
  BY DEF RepeatInv, RepeatTypeOK, Kept, Plan, Goto, PassOnly, NextRun
<1>4. Scheduled'
  BY RepeatAssumption DEF RepeatInv, RepeatTypeOK, Scheduled, Plan, Goto, PassOnly,
     NextRun
<1>5. Buried'
  BY DEF RepeatInv, RepeatTypeOK, Buried, Carries, Plan, Goto, PassOnly, NextRun
<1>6. InTurn'
  BY RepeatAssumption DEF RepeatInv, RepeatTypeOK, InTurn, Passing, Plan, Goto,
     PassOnly,
     NextRun
<1> QED
  BY <1>1, <1>2, <1>3, <1>4, <1>5, <1>6 DEF RepeatInv

LEMMA EnqueueKeeps ==
  ASSUME RepeatInv, NEW p \in Schedulers, Enqueue(p)
  PROVE  RepeatInv'
<1>1. RepeatTypeOK'
  <2>1. CASE Leave(p, "scan")
    BY <2>1 DEF RepeatInv, RepeatTypeOK, PassStages, Enqueue, Leave, Goto, PassOnly
  <2>2. CASE key[p] \in Fragile /\ Goto(p, "failed")
    BY <2>2 DEF RepeatInv, RepeatTypeOK, PassStages, Enqueue, Leave, Goto, PassOnly
  <2> QED
    BY <2>1, <2>2 DEF RepeatInv, RepeatTypeOK, PassStages, Enqueue, Leave, Goto,
       PassOnly
<1>2. Known'
  BY DEF RepeatInv, RepeatTypeOK, Known, Enqueue, Leave, Goto, PassOnly
<1>3. Kept'
  BY DEF RepeatInv, RepeatTypeOK, Kept, Enqueue, Leave, Goto, PassOnly
<1>4. Scheduled'
  BY DEF RepeatInv, RepeatTypeOK, Scheduled, Enqueue, Leave, Goto, PassOnly
<1>5. Buried'
  BY DEF RepeatInv, RepeatTypeOK, Buried, Carries, Enqueue, Leave, Goto, PassOnly
<1>6. InTurn'
  BY DEF RepeatInv, RepeatTypeOK, InTurn, Passing, Enqueue, Leave, Goto, PassOnly
<1> QED
  BY <1>1, <1>2, <1>3, <1>4, <1>5, <1>6 DEF RepeatInv

LEMMA FailKeeps ==
  ASSUME RepeatInv, NEW p \in Schedulers, Fail(p)
  PROVE  RepeatInv'
<1>1. RepeatTypeOK'
  BY DEF RepeatInv, RepeatTypeOK, PassStages, Fail, Goto, PassOnly
<1>2. Known'
  BY DEF RepeatInv, RepeatTypeOK, Known, Fail, Goto, PassOnly
<1>3. Kept'
  BY DEF RepeatInv, RepeatTypeOK, Kept, Fail, Goto, PassOnly
<1>4. Scheduled'
  BY DEF RepeatInv, RepeatTypeOK, Scheduled, Fail, Goto, PassOnly
<1>5. Buried'
  BY DEF RepeatInv, RepeatTypeOK, Buried, Carries, Fail, Goto, PassOnly
<1>6. InTurn'
  BY DEF RepeatInv, RepeatTypeOK, InTurn, Passing, Fail, Goto, PassOnly
<1> QED
  BY <1>1, <1>2, <1>3, <1>4, <1>5, <1>6 DEF RepeatInv

LEMMA GiveUpKeeps ==
  ASSUME RepeatInv, NEW p \in Schedulers, GiveUp(p)
  PROVE  RepeatInv'
<1>1. RepeatTypeOK'
  BY DEF RepeatInv, RepeatTypeOK, PassStages, GiveUp, Leave, PassOnly
<1>2. Known'
  BY DEF RepeatInv, RepeatTypeOK, Known, GiveUp, Leave, PassOnly
<1>3. Kept'
  BY DEF RepeatInv, RepeatTypeOK, Kept, GiveUp, Leave, PassOnly
<1>4. Scheduled'
  BY DEF RepeatInv, RepeatTypeOK, Kept, Scheduled, GiveUp, Leave, PassOnly
<1>5. Buried'
  BY DEF RepeatInv, RepeatTypeOK, Buried, Carries, GiveUp, Leave, PassOnly
<1>6. InTurn'
  BY DEF RepeatInv, RepeatTypeOK, InTurn, Passing, GiveUp, Leave, PassOnly
<1> QED
  BY <1>1, <1>2, <1>3, <1>4, <1>5, <1>6 DEF RepeatInv

LEMMA GiveUpFailsKeeps ==
  ASSUME RepeatInv, NEW p \in Schedulers, GiveUpFails(p)
  PROVE  RepeatInv'
<1>1. RepeatTypeOK'
  BY DEF RepeatInv, RepeatTypeOK, PassStages, GiveUpFails, Leave, PassOnly
<1>2. Known'
  BY DEF RepeatInv, RepeatTypeOK, Known, GiveUpFails, Leave, PassOnly
<1>3. Kept'
  BY DEF RepeatInv, RepeatTypeOK, Kept, GiveUpFails, Leave, PassOnly
<1>4. Scheduled'
  BY DEF RepeatInv, RepeatTypeOK, Kept, Scheduled, GiveUpFails, Leave, PassOnly
<1>5. Buried'
  BY DEF RepeatInv, RepeatTypeOK, Buried, Carries, GiveUpFails, Leave, PassOnly
<1>6. InTurn'
  BY DEF RepeatInv, RepeatTypeOK, InTurn, Passing, GiveUpFails, Leave, PassOnly
<1> QED
  BY <1>1, <1>2, <1>3, <1>4, <1>5, <1>6 DEF RepeatInv

LEMMA DieKeeps ==
  ASSUME RepeatInv, NEW p \in Schedulers, Die(p)
  PROVE  RepeatInv'
<1>1. RepeatTypeOK'
  BY DEF RepeatInv, RepeatTypeOK, PassStages, Die, Leave, PassOnly
<1>2. Known'
  BY DEF RepeatInv, RepeatTypeOK, Known, Die, Leave, PassOnly
<1>3. Kept'
  BY DEF RepeatInv, RepeatTypeOK, Kept, Die, Leave, PassOnly
<1>4. Scheduled'
  BY DEF RepeatInv, RepeatTypeOK, Scheduled, Die, Leave, PassOnly
<1>5. Buried'
  BY DEF RepeatInv, RepeatTypeOK, Buried, Carries, Die, Leave, PassOnly
<1>6. InTurn'
  BY DEF RepeatInv, RepeatTypeOK, InTurn, Passing, Die, Leave, PassOnly
<1> QED
  BY <1>1, <1>2, <1>3, <1>4, <1>5, <1>6 DEF RepeatInv

-----------------------------------------------------------------------------
(* The clock and the lock. *)

LEMMA TickKeeps ==
  ASSUME RepeatInv, Tick
  PROVE  RepeatInv'
<1>1. RepeatTypeOK'
  BY RepeatAssumption DEF RepeatInv, RepeatTypeOK, keys, passVars, history, Tick
<1>2. Known'
  BY DEF RepeatInv, RepeatTypeOK, Known, keys, passVars, history, Tick
<1>3. Kept'
  BY DEF RepeatInv, RepeatTypeOK, Kept, keys, passVars, history, Tick
<1>4. Scheduled'
  BY DEF RepeatInv, RepeatTypeOK, Scheduled, keys, passVars, history, Tick
<1>5. Buried'
  BY DEF RepeatInv, RepeatTypeOK, Buried, keys, passVars, history, Carries, Tick
<1>6. InTurn'
  BY DEF RepeatInv, RepeatTypeOK, InTurn, keys, passVars, history, Passing, Tick
<1> QED
  BY <1>1, <1>2, <1>3, <1>4, <1>5, <1>6 DEF RepeatInv

LEMMA LockExpiresKeeps ==
  ASSUME RepeatInv, LockExpires
  PROVE  RepeatInv'
<1>1. RepeatTypeOK'
  BY DEF RepeatInv, RepeatTypeOK, keys, passVars, history, LockExpires
<1>2. Known'
  BY DEF RepeatInv, RepeatTypeOK, Known, keys, passVars, history, LockExpires
<1>3. Kept'
  BY DEF RepeatInv, RepeatTypeOK, Kept, keys, passVars, history, LockExpires
<1>4. Scheduled'
  BY DEF RepeatInv, RepeatTypeOK, Scheduled, keys, passVars, history, LockExpires
<1>5. Buried'
  BY DEF RepeatInv, RepeatTypeOK, Buried, keys, passVars, history, Carries, LockExpires
<1>6. InTurn'
  BY DEF RepeatInv, RepeatTypeOK, InTurn, keys, passVars, history, Passing, LockExpires
<1> QED
  BY <1>1, <1>2, <1>3, <1>4, <1>5, <1>6 DEF RepeatInv

-----------------------------------------------------------------------------
(* The inductive invariant and what follows from it.                       *)

LEMMA RepeatInitHolds ==
  ASSUME RepeatInit
  PROVE  RepeatInv
<1>1. RepeatTypeOK
  <2>1. time \in 1..MaxTime /\ dead \subseteq Defs
    BY RepeatAssumption DEF RepeatInit
  <2> QED
    BY <2>1 DEF RepeatInit, RepeatTypeOK, PassStages, AddStages, RemoveStages
<1>2. Known /\ Kept /\ Scheduled
  BY DEF RepeatInit, Known, Kept, Scheduled
<1>3. Buried /\ InTurn
  BY DEF RepeatInit, Buried, InTurn, Passing
<1> QED
  BY <1>1, <1>2, <1>3 DEF RepeatInv

LEMMA RepeatStutterKeeps ==
  ASSUME RepeatInv, UNCHANGED repeatVars
  PROVE  RepeatInv'
BY DEF RepeatInv, RepeatTypeOK, Known, Kept, Scheduled, Buried, InTurn, Carries,
   Passing,
   repeatVars, keys, passVars, history

LEMMA RepeatStepKeeps ==
  ASSUME RepeatInv, [RepeatNext]_repeatVars
  PROVE  RepeatInv'
<1>1. CASE UNCHANGED repeatVars
  BY <1>1, RepeatStutterKeeps
<1>2. ASSUME NEW d \in Defs, AddRepeating(d)
      PROVE  RepeatInv'
  BY <1>2, AddStoreKeeps, AddListKeeps, AddLookupKeeps DEF AddRepeating
<1>3. ASSUME NEW d \in Defs, Remove(d)
      PROVE  RepeatInv'
  BY <1>3, RemoveMarkKeeps, RemoveUnlistKeeps, RemoveLookupKeeps DEF Remove
<1>4. ASSUME NEW p \in Schedulers, Step(p)
      PROVE  RepeatInv'
  BY <1>4, ScanKeeps, ReadKeeps, UnlistKeeps, DiscardKeeps, TakeKeeps, StoreKeeps,
     PlanKeeps, EnqueueKeeps, GiveUpKeeps DEF Step
<1>5. ASSUME NEW p \in Schedulers, Start(p) \/ Fail(p) \/ GiveUpFails(p) \/ Die(p)
      PROVE  RepeatInv'
  BY <1>5, StartKeeps, FailKeeps, GiveUpFailsKeeps, DieKeeps
<1>6. CASE Tick \/ LockExpires
  BY <1>6, TickKeeps, LockExpiresKeeps
<1> QED
  BY <1>1, <1>2, <1>3, <1>4, <1>5, <1>6 DEF RepeatNext

\* In every reachable state the strengthened invariant holds.
THEOREM RepeatInductive == RepeatSpec => []RepeatInv
<1>1. RepeatInit => RepeatInv
  BY RepeatInitHolds
<1>2. RepeatInv /\ [RepeatNext]_repeatVars => RepeatInv'
  BY RepeatStepKeeps
<1> QED
  BY <1>1, <1>2, PTL DEF RepeatSpec

\* Every variable of the repeat keys and of the passes holds what it can hold.
THEOREM RepeatTypeCorrect == RepeatSpec => []RepeatTypeOK
<1>1. RepeatInv => RepeatTypeOK
  BY DEF RepeatInv
<1> QED
  BY <1>1, RepeatInductive, PTL

\* processRepeatingJobsBounded takes a definition off the schedule before it writes
\* it back, and removal, failures and deaths may come at any call: a definition
\* whose own calls do not fail is scheduled or about to be, until it is removed.
THEOREM NothingForgotten == RepeatSpec => []NeverForgotten
<1>1. RepeatInv => NeverForgotten
  BY DEF RepeatInv, Scheduled, NeverForgotten, Carries
<1> QED
  BY <1>1, RepeatInductive, PTL

\* The mark of removeRepeatingJob is final when no scheduler held a copy without it.
THEOREM RemovalIsFinal == RepeatSpec => []DeadNeverRuns
<1>1. RepeatInv => DeadNeverRuns
  BY DEF RepeatInv, Buried, DeadNeverRuns
<1> QED
  BY <1>1, RepeatInductive, PTL

\* While the lock outlives every pass, runs of a definition lie an interval apart.
THEOREM RunsAreSpaced == RepeatSpec => []Spaced
<1>1. RepeatInv => Spaced
  BY DEF RepeatInv, InTurn, Spaced
<1> QED
  BY <1>1, RepeatInductive, PTL

=============================================================================
