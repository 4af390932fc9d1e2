------------------------------ MODULE Staging ------------------------------
(***************************************************************************)
(* The ordering delay: a job waits in the set stage until orderMs +        *)
(* orderingDelayMs and is then moved into its group, where orderMs decides *)
(* its place, so that a job of a producer that is late still finds its     *)
(* place.  The promoters of several processes move the jobs, each with a   *)
(* lock of a limited lifetime around the script.  A promoter is woken every *)
(* 100 ms and by the expiry of the key stage:timer; the key is left out, a  *)
(* message makes no call that the interval does not make.                  *)
(*                                                                         *)
(* The jobs are those of one group.  Its place in ready and limited is in  *)
(* GroupQueue; here a Take is a reservation of the group's first job.      *)
(***************************************************************************)
EXTENDS Integers, Sequences, FiniteSets

CONSTANTS
  Jobs,       \* job ids: numbers, in the order Redis breaks ties of a zset
  Promoters,  \* processes that run startPromoter()
  Calls,      \* runPromotion() calls that may be under way at once
  CallerOf,   \* [Calls -> Promoters]
  Orders,     \* the values of orderMs
  Delay,      \* orderingDelayMs
  Latency,    \* how long after orderMs its job is added at the latest
  Skew,       \* how far the clock of a promoter may be ahead
  Ttl,        \* lifetime of promoter:lock
  Limit,      \* how many jobs the script moves: 100 in the code
  SeqBase,    \* what a millisecond weighs in a score: 1000 in the code
  MaxTime,    \* bound: the clock stops here
  MaxAdds,    \* bound: calls of add()
  MaxUpsets   \* bound: crashes, stops, failed starts and failed commands

ASSUME StagingAssumption ==
  /\ Jobs \cup Orders \subseteq Nat /\ IsFiniteSet(Jobs)
  /\ {Latency, Skew, MaxTime, MaxAdds, MaxUpsets} \subseteq Nat
  /\ {Delay, Ttl, Limit, SeqBase} \subseteq Nat \ {0}
  /\ CallerOf \in [Calls -> Promoters]
  /\ Latency + Skew <= Delay

VARIABLES
  clock,     \* the time of the Redis server
  status,    \* hash job:{id}, field status
  order,     \* hash job:{id}, field orderMs
  score,     \* hash job:{id}, field score
  stage,     \* zset stage: when a job is released, 0 when absent
  seq,       \* key seq:{day}
  lock,      \* key promoter:lock
  running,   \* promoterRunning
  epoch,     \* promoterLockId: the how manieth start it is of
  starting,  \* startPromoter() calls that await Redis
  polling,   \* promoterInterval is set
  call,      \* the runPromotion() calls under way
  served,    \* history: the jobs taken, in this order
  upsets     \* bound

jobs     == <<status, order, score, stage, seq, served>>
promoter == <<running, epoch, starting, polling>>
vars     == <<clock, jobs, lock, promoter, call, upsets>>

Unlocked == [by |-> <<0, 0>>, ttl |-> 0]

\* The type of every variable; the lock lives for as long as it is held, and a
\* job is staged only while the promoters' script will find it.
TypeOK ==
  /\ clock \in 0..MaxTime /\ seq \in 0..MaxAdds
  /\ status \in [Jobs -> {"new", "staged", "waiting", "taken", "removed"}]
  /\ order \in [Jobs -> Orders \cup {0}] /\ score \in [Jobs -> Nat]
  /\ stage \in [Jobs -> Nat]
  /\ \A j \in Jobs : status[j] = "staged" => stage[j] = order[j] + Delay
  /\ \A j \in Jobs : status[j] \in {"waiting", "taken"} => stage[j] = 0
  /\ lock \in [by : Promoters \X (1..MaxUpsets + 1), ttl : 1..Ttl] \cup {Unlocked}
  /\ running \in [Promoters -> BOOLEAN] /\ polling \in [Promoters -> BOOLEAN]
  /\ epoch \in [Promoters -> 0..MaxUpsets + 1]
  /\ starting \in [Promoters -> 0..MaxUpsets + 1]
  /\ call \in [Calls -> {"idle", "locked", "promoted", "mine"}]
  /\ served \in Seq(Jobs) /\ upsets \in 0..MaxUpsets

\* The worker's constructor has called startPromoter() of every promoter.
Init ==
  /\ clock = 0 /\ seq = 0 /\ lock = Unlocked
  /\ status = [j \in Jobs |-> "new"]
  /\ order = [j \in Jobs |-> 0] /\ score = [j \in Jobs |-> 0]
  /\ stage = [j \in Jobs |-> 0]
  /\ running = [p \in Promoters |-> TRUE] /\ epoch = [p \in Promoters |-> 1]
  /\ starting = [p \in Promoters |-> 1]
  /\ polling = [p \in Promoters |-> FALSE]
  /\ call = [c \in Calls |-> "idle"]
  /\ served = <<>> /\ upsets = 0

Upset == upsets < MaxUpsets /\ upsets' = upsets + 1

-----------------------------------------------------------------------------
(* The scripts. *)

\* Redis sorts a zset by score and then by member.
Precedes(f, i, j) == f[i] < f[j] \/ (f[i] = f[j] /\ i < j)

\* enqueue.lua for a job with orderMs o, which its producer adds at o + Latency
\* at the latest.  The id of a staged job is in none of the sets its check for a
\* duplicate reads: the job is stored again, with a new sequence number.
Add(j, o) ==
  /\ status[j] \in {"new", "staged", "removed"}
  /\ clock <= o + Latency /\ seq < MaxAdds
  /\ seq' = seq + 1
  /\ order' = [order EXCEPT ![j] = o]
  /\ score' = [score EXCEPT ![j] = o * SeqBase + seq']
  /\ status' = [status EXCEPT ![j] = "staged"]
  /\ stage' = [stage EXCEPT ![j] = o + Delay]
  /\ UNCHANGED <<clock, lock, promoter, call, served, upsets>>

\* remove.lua knows nothing of the staging set: the entry stays, without a hash.
\* Bound: fewer such entries than the script looks at.
Remove(j) ==
  /\ status[j] \in {"staged", "waiting"}
  /\ Cardinality({k \in Jobs : status[k] = "removed"}) + 1 < Limit
  /\ status' = [status EXCEPT ![j] = "removed"]
  /\ UNCHANGED <<clock, order, score, stage, seq, served, lock,
                 promoter, call, upsets>>

\* A worker reserves the first job of the group.
Take(j) ==
  /\ status[j] = "waiting"
  /\ \A k \in Jobs \ {j} : status[k] = "waiting" => Precedes(score, j, k)
  /\ status' = [status EXCEPT ![j] = "taken"]
  /\ served' = Append(served, j)
  /\ UNCHANGED <<clock, order, score, stage, seq, lock, promoter,
                 call, upsets>>

\* Mutant: the script releases a job a millisecond early.
DueEarly(now) ==
  LET due == {j \in Jobs : stage[j] # 0 /\ stage[j] <= now + 1}
  IN  {j \in due : Cardinality({k \in due : Precedes(stage, k, j)}) < Limit}

\* The entries that promote-staged.lua looks at: the first Limit that are due.
Due(now) ==
  LET due == {j \in Jobs : stage[j] # 0 /\ stage[j] <= now}
  IN  {j \in due : Cardinality({k \in due : Precedes(stage, k, j)}) < Limit}

\* Mutant: the script forgets to take the entry out of the staging set.
PromoteKeeps(now) ==
  LET moved == {j \in Due(now) : status[j] = "staged"} IN
  /\ status' = [j \in Jobs |-> IF j \in moved THEN "waiting" ELSE status[j]]
  /\ UNCHANGED <<order, score, stage, seq, served>>

\* promote-staged.lua, called with the time now of the promoter's clock: an
\* entry whose job is not staged any more is passed over and stays.
PromoteStaged(now) ==
  LET moved == {j \in Due(now) : status[j] = "staged"} IN
  /\ status' = [j \in Jobs |-> IF j \in moved THEN "waiting" ELSE status[j]]
  /\ stage' = [j \in Jobs |-> IF j \in moved THEN 0 ELSE stage[j]]
  /\ UNCHANGED <<order, score, seq, served>>

-----------------------------------------------------------------------------
(* A promoter. *)

\* startPromoter(): runs at once up to the commands of its own connection.
Start(p) ==
  /\ ~running[p]
  /\ running' = [running EXCEPT ![p] = TRUE]
  /\ epoch' = [epoch EXCEPT ![p] = @ + 1]
  /\ starting' = [starting EXCEPT ![p] = @ + 1]
  /\ UNCHANGED <<clock, jobs, lock, polling, call, upsets>>

\* ... and is subscribed: it sets the interval, also when stopPromoter() has run
\* in between, whose clearInterval() found none.
Started(p) ==
  /\ starting[p] > 0
  /\ starting' = [starting EXCEPT ![p] = @ - 1]
  /\ polling' = [polling EXCEPT ![p] = TRUE]
  /\ UNCHANGED <<clock, jobs, lock, running, epoch, call, upsets>>

\* ... or a command throws: the catch block clears promoterRunning, for which
\* stopPromoter() returns before it clears anything.
StartFails(p) ==
  /\ starting[p] > 0 /\ Upset
  /\ starting' = [starting EXCEPT ![p] = @ - 1]
  /\ running' = [running EXCEPT ![p] = FALSE]
  /\ UNCHANGED <<clock, jobs, lock, epoch, polling, call>>

\* stopPromoter(); the calls under way go on.
Stop(p) ==
  /\ running[p] /\ Upset
  /\ running' = [running EXCEPT ![p] = FALSE]
  /\ polling' = [polling EXCEPT ![p] = FALSE]
  /\ UNCHANGED <<clock, jobs, lock, epoch, starting, call>>

\* The process dies; another one takes its place.
Crash(p) ==
  /\ (running[p] \/ polling[p]) /\ Upset
  /\ running' = [running EXCEPT ![p] = FALSE]
  /\ polling' = [polling EXCEPT ![p] = FALSE]
  /\ starting' = [starting EXCEPT ![p] = 0]
  /\ call' = [c \in Calls |-> IF CallerOf[c] = p THEN "idle" ELSE call[c]]
  /\ UNCHANGED <<clock, jobs, lock, epoch>>

Goto(c, pc) == call' = [call EXCEPT ![c] = pc]

\* runPromotion() up to the answer of SET NX PX; when the lock is taken, or the
\* promoter stopped, the call ends without a trace.
RunPromotion(c) ==
  LET p == CallerOf[c] IN
  /\ polling[p] /\ running[p] /\ call[c] = "idle" /\ lock = Unlocked
  /\ lock' = [by |-> <<p, epoch[p]>>, ttl |-> Ttl]
  /\ Goto(c, "locked")
  /\ UNCHANGED <<clock, jobs, promoter, upsets>>

\* The script runs, whether the lock is still there or not.
Promote(c) ==
  /\ call[c] = "locked"
  /\ \E ahead \in 0..Skew : PromoteStaged(clock + ahead)
  /\ Goto(c, "promoted")
  /\ UNCHANGED <<clock, lock, promoter, upsets>>

\* The finally block: it reads the lock, compares it with the id the promoter
\* has by now, and deletes it in a call of its own.
ReadLock(c) ==
  /\ call[c] = "promoted"
  /\ LET p == CallerOf[c]
     IN  Goto(c, IF lock.by = <<p, epoch[p]>> THEN "mine" ELSE "idle")
  /\ UNCHANGED <<clock, jobs, lock, promoter, upsets>>

DeleteLock(c) ==
  /\ call[c] = "mine"
  /\ lock' = Unlocked
  /\ Goto(c, "idle")
  /\ UNCHANGED <<clock, jobs, promoter, upsets>>

\* A command throws: after the script the finally block still runs, after that
\* the lock is left.
CallFails(c) ==
  /\ call[c] # "idle" /\ Upset
  /\ Goto(c, IF call[c] = "locked" THEN "promoted" ELSE "idle")
  /\ UNCHANGED <<clock, jobs, lock, promoter>>

-----------------------------------------------------------------------------
(* Redis. *)

\* Mutant: the lock has no lifetime.
TickForEver ==
  /\ clock < MaxTime
  /\ clock' = clock + 1
  /\ UNCHANGED <<jobs, lock, promoter, call, upsets>>

\* A millisecond: the lock comes nearer to its end.
Tick ==
  /\ clock < MaxTime \/ lock # Unlocked
  /\ clock' = IF clock < MaxTime THEN clock + 1 ELSE clock
  /\ lock' = IF lock.ttl <= 1 THEN Unlocked ELSE [lock EXCEPT !.ttl = @ - 1]
  /\ UNCHANGED <<jobs, promoter, call, upsets>>

-----------------------------------------------------------------------------
Work(c) == Promote(c) \/ ReadLock(c) \/ DeleteLock(c)

Next ==
  \/ \E j \in Jobs : (\E o \in Orders : Add(j, o)) \/ Remove(j) \/ Take(j)
  \/ \E p \in Promoters : \/ Start(p) \/ Started(p) \/ StartFails(p)
                          \/ Stop(p) \/ Crash(p)
  \/ \E c \in Calls : RunPromotion(c) \/ Work(c) \/ CallFails(c)
  \/ Tick

Spec == Init /\ [][Next]_vars

\* Time passes, Redis answers somebody, some interval fires and a process that
\* is gone is started again.  Nobody has to add, take or remove a job.
FairSpec ==
  /\ Spec
  /\ WF_vars(Tick)
  /\ WF_vars(\E p \in Promoters : Start(p) \/ Started(p))
  /\ WF_vars(\E c \in Calls : RunPromotion(c))
  /\ WF_vars(\E c \in Calls : Work(c))

-----------------------------------------------------------------------------
\* A group's jobs are taken in the order of their orderMs, whatever the order in
\* which they were added, if each was added within Latency and the clock of no
\* promoter is ahead by more than the delay leaves: also when the lock of one
\* promoter ran out or was deleted by another and two of them promote at once.
ServedInOrder ==
  \A m, n \in 1..Len(served) : m < n => order[served[m]] <= order[served[n]]

\* Every staged job leaves the staging set, or is removed, though processes die
\* and commands fail while they hold the lock.
Promoted == \A j \in Jobs : status[j] = "staged" ~> status[j] # "staged"

=============================================================================
