--------------------------- MODULE RepeatScheduler ---------------------------
(***************************************************************************)
(* Repeating jobs (queue.ts): a definition is a JSON value under           *)
(* repeat:{key}, an entry of the sorted set repeat:schedule at its next    *)
(* run, and a lookup key by which it is removed. Nothing here is a script: *)
(* adding, removing and a scheduler's pass are chains of Redis calls, one  *)
(* action each, of any number of processes. The scheduler lock is a key    *)
(* with a TTL that nobody deletes.                                         *)
(*                                                                         *)
(* Left out: what nothing here reads (the synthetic hash job:repeat:{key},  *)
(* the times in the JSON value) and the promotion of delayed jobs at the    *)
(* start of a pass. What becomes of an enqueued instance is the business    *)
(* of GroupQueue. A definition is removed by one caller (a second one       *)
(* repeats the same writes), and a pass does not meet its limit of 16.      *)
(***************************************************************************)
EXTENDS Integers

CONSTANTS
  Defs,        \* repeat keys; each is used by one add (it holds a random part)
  Names,       \* lookup keys: group id and repeat options
  NameOf,      \* [Defs -> Names]
  Schedulers,  \* processes whose timer calls runSchedulerOnce
  None,        \* no definition
  Every,       \* the repeat interval
  MaxTime,     \* bound: the clock stops here
  Fragile,     \* bound: definitions whose calls may fail
  Removable,   \* bound: definitions that may be removed
  Mortal       \* bound: schedulers that may die, at work on a fragile one

ASSUME RepeatAssumption ==
  /\ NameOf \in [Defs -> Names] /\ None \notin Defs
  /\ Every \in Nat \ {0} /\ MaxTime \in Nat \ {0}
  /\ Fragile \subseteq Defs /\ Removable \subseteq Defs /\ Mortal \subseteq Schedulers

VARIABLES
  time,     \* the clock
  meta,     \* repeat:{key}: absent, live, or with removed = true
  planned,  \* nextRunTime, local of addRepeatingJob, 0 when it is over
  sched,    \* zset repeat:schedule: the next run, 0 when not a member
  lookup,   \* repeat:lookup:{name}
  locked,   \* key sched:lock exists
  pass,     \* where a scheduler is in its pass
  now,      \* the clock as its pass read it
  key,      \* the definition it works on
  seen,     \* the score under which it found that definition
  adding,   \* how far addRepeatingJob is
  removing, \* how far removeRepeatingJob is
  ran,      \* history: the run enqueued last, by its score in the schedule
  dead,     \* history: marked removed while no scheduler had a live copy
  overlap   \* history: a pass was started while another was under way

keys       == <<meta, planned, sched, lookup>>
passVars   == <<pass, now, key, seen>>
history    == <<ran, dead, overlap>>
repeatVars == <<time, keys, locked, passVars, adding, removing, history>>

PassStages   == {"idle", "scan", "read", "take", "store", "plan", "enqueue",
                 "unlist", "purge", "discard", "failed", "dead"}
AddStages    == {"none", "stored", "listed", "added"}
RemoveStages == {"none", "marked", "unlisted", "done"}

\* The scheduler holds a copy of the definition without the removed flag.
Carries(p, d) == key[p] = d /\ pass[p] \in {"take", "store", "plan", "enqueue"}

\* Scheduler p goes on to stage s with the definition it has, or drops it.
Goto(p, s) == pass' = [pass EXCEPT ![p] = s] /\ UNCHANGED <<now, key, seen>>

Leave(p, s) ==
  /\ pass' = [pass EXCEPT ![p] = s]
  /\ key' = [key EXCEPT ![p] = None]
  /\ seen' = [seen EXCEPT ![p] = 0]
  /\ now' = [now EXCEPT ![p] = IF s = "scan" THEN @ ELSE 0]

\* The calls of one scheduler leave these alone.
PassOnly == UNCHANGED <<time, lookup, planned, locked, adding, removing, dead, overlap>>

RepeatInit ==
  /\ time = 1
  /\ meta = [d \in Defs |-> "absent"]
  /\ planned = [d \in Defs |-> 0]
  /\ sched = [d \in Defs |-> 0]
  /\ lookup = [n \in Names |-> None]
  /\ locked = FALSE
  /\ pass = [p \in Schedulers |-> "idle"]
  /\ now = [p \in Schedulers |-> 0]
  /\ key = [p \in Schedulers |-> None]
  /\ seen = [p \in Schedulers |-> 0]
  /\ adding = [d \in Defs |-> "none"]
  /\ removing = [d \in Defs |-> "none"]
  /\ ran = [d \in Defs |-> 0]
  /\ dead = {}
  /\ overlap = FALSE

-----------------------------------------------------------------------------
(* addRepeatingJob: SET repeat:{key}, ZADD, SET lookup. *)

\* (bound: the first run comes before the clock stops)
AddStore(d) ==
  /\ adding[d] = "none" /\ time + Every <= MaxTime
  /\ adding' = [adding EXCEPT ![d] = "stored"]
  /\ meta' = [meta EXCEPT ![d] = "live"]
  /\ planned' = [planned EXCEPT ![d] = time + Every]
  /\ UNCHANGED <<time, sched, lookup, locked, passVars, removing, history>>

AddList(d) ==
  /\ adding[d] = "stored"
  /\ adding' = [adding EXCEPT ![d] = "listed"]
  /\ sched' = [sched EXCEPT ![d] = planned[d]]
  /\ planned' = [planned EXCEPT ![d] = 0]
  /\ UNCHANGED <<time, meta, lookup, locked, passVars, removing, history>>

AddLookup(d) ==
  /\ adding[d] = "listed"
  /\ adding' = [adding EXCEPT ![d] = "added"]
  /\ lookup' = [lookup EXCEPT ![NameOf[d]] = d]
  /\ UNCHANGED <<time, meta, planned, sched, locked, passVars, removing, history>>

-----------------------------------------------------------------------------
(* removeRepeatingJob: GET lookup and GET repeat:{key}, then SET, ZREM and DEL *)
(* lookup. The reads are one step with the SET: a key found under a name keeps *)
(* its value until it is marked, and only the flag of the copy is written.     *)

RemoveStep(d, from, to) ==
  /\ removing[d] = from
  /\ removing' = [removing EXCEPT ![d] = to]
  /\ UNCHANGED <<time, planned, locked, passVars, adding, ran, overlap>>

\* Mutant: the flag is not written.
MarkNothing(d) == UNCHANGED meta
MarkRemoved(d) == meta' = [meta EXCEPT ![d] = "removed"]

\* (bound: a removal begins before the clock stops)
RemoveMark(d) ==
  /\ d \in Removable /\ lookup[NameOf[d]] = d /\ time < MaxTime
  /\ RemoveStep(d, "none", "marked")
  /\ MarkRemoved(d)
  /\ dead' = IF \E p \in Schedulers : Carries(p, d) THEN dead ELSE dead \cup {d}
  /\ UNCHANGED <<sched, lookup>>

RemoveUnlist(d) ==
  /\ RemoveStep(d, "marked", "unlisted")
  /\ sched' = [sched EXCEPT ![d] = 0]
  /\ UNCHANGED <<meta, lookup, dead>>

RemoveLookup(d) ==
  /\ RemoveStep(d, "unlisted", "done")
  /\ lookup' = [lookup EXCEPT ![NameOf[d]] = None]
  /\ UNCHANGED <<meta, sched, dead>>

-----------------------------------------------------------------------------
(* runSchedulerOnce and processRepeatingJobsBounded. *)

Passing(p) == pass[p] \notin {"idle", "dead"}

\* SET sched:lock NX PX; the value is the same for everybody.
\* (bound: passes overlap once)
Start(p) ==
  /\ pass[p] = "idle" /\ ~locked
  /\ ~(overlap /\ \E q \in Schedulers : Passing(q))
  /\ locked' = TRUE
  /\ overlap' = (overlap \/ \E q \in Schedulers : Passing(q))
  /\ now' = [now EXCEPT ![p] = time]
  /\ pass' = [pass EXCEPT ![p] = "scan"]
  /\ UNCHANGED <<time, keys, key, seen, adding, removing, ran, dead>>

\* ZRANGEBYSCORE 0 now LIMIT 0 1
Due(p) == {d \in Defs : sched[d] > 0 /\ sched[d] <= now[p]}

Scan(p) ==
  /\ pass[p] = "scan"
  /\ \/ Due(p) = {} /\ Leave(p, "idle")
     \/ \E d \in Due(p) :
          /\ \A e \in Due(p) : sched[d] <= sched[e]
          /\ pass' = [pass EXCEPT ![p] = "read"]
          /\ UNCHANGED now
          /\ key' = [key EXCEPT ![p] = d]
          /\ seen' = [seen EXCEPT ![p] = sched[d]]
  /\ PassOnly /\ UNCHANGED <<meta, sched, ran>>

AfterRead(m) ==
  CASE m = "absent" -> "unlist" [] m = "removed" -> "purge" [] m = "live" -> "take"

Read(p) ==
  /\ pass[p] = "read"
  /\ Goto(p, AfterRead(meta[key[p]]))
  /\ PassOnly /\ UNCHANGED <<meta, sched, ran>>

\* The definition is gone or marked: ZREM, and DEL of a marked one.
Unlist(p) ==
  /\ pass[p] \in {"unlist", "purge"}
  /\ sched' = [sched EXCEPT ![key[p]] = 0]
  /\ IF pass[p] = "unlist" THEN Leave(p, "scan") ELSE Goto(p, "discard")
  /\ PassOnly /\ UNCHANGED <<meta, ran>>

Discard(p) ==
  /\ pass[p] = "discard"
  /\ meta' = [meta EXCEPT ![key[p]] = "absent"]
  /\ Leave(p, "scan")
  /\ PassOnly /\ UNCHANGED <<sched, ran>>

\* "Remove from schedule first to prevent duplicates"
Take(p) ==
  /\ pass[p] = "take"
  /\ sched' = [sched EXCEPT ![key[p]] = 0]
  /\ Goto(p, "store")
  /\ PassOnly /\ UNCHANGED <<meta, ran>>

\* SET of the copy read before, which has removed = false.
Store(p) ==
  /\ pass[p] = "store"
  /\ meta' = [meta EXCEPT ![key[p]] = "live"]
  /\ Goto(p, "plan")
  /\ PassOnly /\ UNCHANGED <<sched, ran>>

\* Mutants: the interval is forgotten, or the ZADD is.
NextIsNow(p) == now[p]
NextIsNever(p) == 0
NextRun(p) == now[p] + Every

Plan(p) ==
  /\ pass[p] = "plan"
  /\ sched' = [sched EXCEPT ![key[p]] = NextRun(p)]
  /\ Goto(p, "enqueue")
  /\ PassOnly /\ UNCHANGED <<meta, ran>>

\* enqueue.lua for a new instance; the answer of the call may be lost.
Enqueue(p) ==
  /\ pass[p] = "enqueue"
  /\ ran' = [ran EXCEPT ![key[p]] = seen[p]]
  /\ \/ Leave(p, "scan")
     \/ key[p] \in Fragile /\ Goto(p, "failed")
  /\ PassOnly /\ UNCHANGED <<meta, sched>>

\* A call throws, and the catch block goes on.
Fail(p) ==
  /\ pass[p] \in {"read", "take", "store", "plan", "enqueue", "unlist", "purge",
                  "discard"}
  /\ key[p] \in Fragile
  /\ Goto(p, "failed")
  /\ PassOnly /\ UNCHANGED <<meta, sched, ran>>

\* The ZREM of the catch block takes the definition out of the schedule.
GiveUp(p) ==
  /\ pass[p] = "failed"
  /\ sched' = [sched EXCEPT ![key[p]] = 0]
  /\ Leave(p, "scan")
  /\ PassOnly /\ UNCHANGED <<meta, ran>>

\* That ZREM throws too, and the pass ends with the definition still scheduled.
\* (bound: not for ever, hence not after the clock has stopped)
GiveUpFails(p) ==
  /\ pass[p] = "failed" /\ time < MaxTime
  /\ Leave(p, "idle")
  /\ PassOnly /\ UNCHANGED <<meta, sched, ran>>

-----------------------------------------------------------------------------
(* Clock, lock and crashes. *)

Tick ==
  /\ time < MaxTime
  /\ time' = time + 1
  /\ UNCHANGED <<keys, locked, passVars, adding, removing, history>>

\* Mutant: the lock is set without a TTL.
LockStays == FALSE /\ UNCHANGED repeatVars

\* The TTL runs out, whether or not the pass is over.
LockExpires ==
  /\ locked
  /\ locked' = FALSE
  /\ UNCHANGED <<time, keys, passVars, adding, removing, history>>

Die(p) ==
  /\ p \in Mortal /\ key[p] \in Fragile
  /\ Leave(p, "dead")
  /\ PassOnly /\ UNCHANGED <<meta, sched, ran>>

-----------------------------------------------------------------------------
AddRepeating(d) == AddStore(d) \/ AddList(d) \/ AddLookup(d)

Remove(d) ==
  RemoveMark(d) \/ RemoveUnlist(d) \/ RemoveLookup(d)

Step(p) ==
  \/ Scan(p) \/ Read(p) \/ Unlist(p) \/ Discard(p) \/ Take(p) \/ Store(p)
  \/ Plan(p) \/ Enqueue(p) \/ GiveUp(p)

RepeatNext ==
  \/ \E d \in Defs : AddRepeating(d) \/ Remove(d)
  \/ \E p \in Schedulers : Start(p) \/ Step(p) \/ Fail(p) \/ GiveUpFails(p) \/ Die(p)
  \/ Tick \/ LockExpires

RepeatSpec == RepeatInit /\ [][RepeatNext]_repeatVars

\* The clock and the TTL run, some scheduler's timer fires, and the calls of a
\* pass are made while its process lives. Adds and removals need not go on.
Fairness ==
  /\ WF_repeatVars(Tick) /\ WF_repeatVars(LockExpires)
  /\ WF_repeatVars(\E p \in Schedulers : Start(p))
  /\ \A p \in Schedulers : WF_repeatVars(Step(p))

FairRepeatSpec == RepeatSpec /\ Fairness

-----------------------------------------------------------------------------
(* Properties. *)

\* Every variable holds what its key can hold.
RepeatTypeOK ==
  /\ time \in 1..MaxTime /\ locked \in BOOLEAN
  /\ meta \in [Defs -> {"absent", "live", "removed"}]
  /\ planned \in [Defs -> Nat] /\ sched \in [Defs -> Nat]
  /\ lookup \in [Names -> Defs \cup {None}]
  /\ pass \in [Schedulers -> PassStages]
  /\ now \in [Schedulers -> Nat] /\ seen \in [Schedulers -> Nat]
  /\ key \in [Schedulers -> Defs \cup {None}]
  /\ \A p \in Schedulers : key[p] = None <=> pass[p] \in {"idle", "scan", "dead"}
  /\ adding \in [Defs -> AddStages] /\ removing \in [Defs -> RemoveStages]
  /\ ran \in [Defs -> Nat] /\ dead \subseteq Defs /\ overlap \in BOOLEAN

\* As long as passes do not overlap, two runs of a definition lie an interval apart,
\* whatever fails, dies or is removed in between; so no run is enqueued twice.
Spaced ==
  ~overlap => \A p \in Schedulers :
    pass[p] = "enqueue" /\ ran[key[p]] > 0 => seen[p] >= ran[key[p]] + Every

\* A definition whose calls do not fail is on the schedule or in the hands of a
\* scheduler that puts it back, until somebody begins to remove it.
NeverForgotten ==
  \A d \in Defs \ Fragile :
    adding[d] \in {"listed", "added"} /\ removing[d] = "none"
      => sched[d] > 0 \/ \E p \in Schedulers : Carries(p, d)

\* A definition marked removed while no scheduler had read it never runs again,
\* also when a scheduler had already found it on the schedule.
DeadNeverRuns == \A d \in dead : \A p \in Schedulers : ~Carries(p, d)

\* Every definition that is added runs, and goes on being planned until the clock
\* stops, whatever fails or dies in the passes that work on others, unless somebody
\* begins to remove it.
EveryRepeatRuns ==
  \A d \in Defs \ Fragile :
    adding[d] = "added" ~> \/ ran[d] > 0 /\ sched[d] > MaxTime
                           \/ removing[d] # "none"

=============================================================================
