------------------------------ MODULE Dispatch ------------------------------
(***************************************************************************)
(* How a job is taken when it takes more than one call: reserveBlocking()  *)
(* pops a group from the ready set, tries to reserve from it and puts it   *)
(* back; a strategy reads the ready groups and tries them in an order of   *)
(* its own; rebuildLimitedSet() reads and rewrites the sets ready and      *)
(* limited call by call.  Scripts run between any two of their calls.      *)
(*                                                                         *)
(* The queue is what these calls see: per group the waiting and the active *)
(* jobs, the limit, and the two sets.  A job's number is its score.        *)
(* reserve() is the call of another worker, or the first and the last one  *)
(* of reserveBlocking; its recovery of stalled jobs is in GroupQueue.      *)
(***************************************************************************)
EXTENDS Integers, FiniteSets, FiniteSetsExt

CONSTANTS
  Jobs,        \* job ids: numbers, their scores
  Groups,      \* group ids
  GroupOf,     \* [Jobs -> Groups]
  Blockers,    \* workers without a strategy
  Strategists, \* workers with a strategy
  Limits,      \* the limits setConfig may write
  Priority,    \* [Groups -> Nat], hash config:{gid}, field priority
  ScanLimit,   \* groups that reserve() looks at, 20 in the code
  ListSizes,   \* the values of fetchLimit or batchSize
  TopPercent,  \* topPercent of the algorithm "probability", in percent
  ScanDepth,   \* scanDepth of "probability" and "virtual-aging"
  MaxUpsets,   \* bound: crashes of workers, calls of setConfig and of pause
  MaxRebuilds, \* bound: calls of rebuildLimitedSet
  FewRebuilds  \* bound: if TRUE a rebuild starts with jobs of at most two groups
               \* added and the strategies idle, and one step runs during it

ASSUME DispatchAssumption ==
  /\ Jobs \subseteq Nat \ {0} /\ IsFiniteSet(Groups) /\ Groups # {}
  /\ GroupOf \in [Jobs -> Groups]
  /\ Blockers \cap Strategists = {} /\ Limits \subseteq Nat \ {0} /\ 1 \in Limits
  /\ Priority \in [Groups -> Nat] /\ ListSizes \subseteq Nat \ {0}
  /\ ScanLimit \in Nat \ {0}
  /\ TopPercent \in 0..100 /\ ScanDepth \in Nat \ {0}
  /\ MaxUpsets \in Nat /\ MaxRebuilds \in Nat /\ FewRebuilds \in BOOLEAN

VARIABLES
  fresh,     \* the jobs that are not added yet
  gz,        \* zset g:{gid}
  active,    \* list g:{gid}:active, as a set
  limit,     \* hash config:{gid}, field concurrency
  ready,     \* zset ready: the score of a group, 0 when absent
  limited,   \* zset limited
  paused,    \* key paused
  pc,        \* where a worker is
  held,      \* the group a blocking worker popped, and its score
  todo,      \* the groups a strategy has still to try
  rebuild,   \* where rebuildLimitedSet is, and what it has read
  lost,      \* history: groups that fell out of ready, and are not back
  disturbed, \* history: something ran during the last rebuild
  tainted,   \* history: something ran during some rebuild
  upsets, rebuilds  \* bounds: how often each happened

queue  == <<fresh, gz, active, limit, ready, limited, paused>>
worker == <<pc, held, todo>>
bounds == <<upsets, rebuilds>>
vars   == <<queue, worker, rebuild, lost, disturbed, tainted, bounds>>

Workers == Blockers \cup Strategists
Steps   == {"off", "counted", "headed", "checked", "removed"}

\* The type of every variable; a worker with a group in its hands knows its
\* score, and a strategy tries until its list is through.
TypeOK ==
  /\ fresh \subseteq Jobs /\ paused \in BOOLEAN
  /\ gz \in [Groups -> SUBSET Jobs] /\ active \in [Groups -> SUBSET Jobs]
  /\ limit \in [Groups -> Limits] /\ ready \in [Groups -> Jobs \cup {0}]
  /\ limited \subseteq Groups /\ lost \subseteq Groups
  /\ pc \in [Workers -> {"idle", "blocking", "popped", "refused", "restoring",
                         "trying"}]
  /\ held \in [Workers -> Groups \X (Jobs \cup {0})]
  /\ todo \in [Workers -> SUBSET Groups]
  /\ \A w \in Workers : todo[w] # {} <=> pc[w] = "trying"
  /\ rebuild.todo \subseteq Groups /\ rebuild.step \in Steps
  /\ disturbed \in BOOLEAN /\ tainted \in BOOLEAN
  /\ upsets \in 0..MaxUpsets /\ rebuilds \in 0..MaxRebuilds
  /\ \A w \in Workers : pc[w] \in {"popped", "refused", "restoring"}
                          => held[w][2] # 0

\* No group, and rebuildLimitedSet between two groups.
Nothing == <<CHOOSE g \in Groups : TRUE, 0>>
Between(groups) == [step |-> "off", todo |-> groups, group |-> Nothing[1],
                    empty |-> TRUE, full |-> FALSE, head |-> 0]

Rebuilding == rebuild.step # "off" \/ rebuild.todo # {}
Listed == {g \in Groups : ready[g] > 0}
Full(g) == Cardinality(active[g]) >= limit[g]

Init ==
  /\ fresh = Jobs /\ paused = FALSE
  /\ gz = [g \in Groups |-> {}] /\ active = [g \in Groups |-> {}]
  /\ limit = [g \in Groups |-> 1]
  /\ ready = [g \in Groups |-> 0] /\ limited = {}
  /\ pc = [w \in Workers |-> "idle"]
  /\ held = [w \in Workers |-> Nothing]
  /\ todo = [w \in Workers |-> {}]
  /\ rebuild = Between({})
  /\ lost = {} /\ disturbed = FALSE /\ tainted = FALSE
  /\ upsets = 0 /\ rebuilds = 0

\* What every step outside the rebuild does to the history.  The last rebuild
\* that the bound allows is left alone.
Disturb ==
  /\ Rebuilding => rebuilds < MaxRebuilds /\ ~(FewRebuilds /\ disturbed)
  /\ disturbed' = TRUE
  /\ tainted' = (tainted \/ Rebuilding)
  /\ UNCHANGED <<rebuild, rebuilds>>

Upset == upsets < MaxUpsets /\ upsets' = upsets + 1

\* A step by which the groups S fall out of ready; others may be back in it.
Loses(S) == lost' = {g \in lost \cup S : ready'[g] = 0}

-----------------------------------------------------------------------------
(* Scripts that move a group between ready and limited. *)

\* A group with the jobs W waiting and n jobs active, where every script but
\* two puts it.
Index(g, W, n) ==
  /\ ready' = [ready EXCEPT ![g] = IF W = {} \/ n >= limit[g] THEN 0 ELSE Min(W)]
  /\ limited' = IF W # {} /\ n >= limit[g] THEN limited \cup {g}
                ELSE limited \ {g}

\* enqueue.lua
Add(j) ==
  LET g == GroupOf[j] IN
  /\ j \in fresh /\ fresh' = fresh \ {j}
  /\ gz' = [gz EXCEPT ![g] = @ \cup {j}]
  /\ Index(g, gz[g] \cup {j}, Cardinality(active[g]))
  /\ Disturb /\ UNCHANGED <<active, limit, paused, worker, upsets>> /\ Loses({})

\* enqueue-batch.lua leaves a limited group where it is, and takes no group
\* out of the set it does not put it into.
AddBatch(S) ==
  LET into == {GroupOf[j] : j \in S} \ limited
      W(g) == gz[g] \cup {j \in S : GroupOf[j] = g} IN
  /\ S \subseteq fresh /\ fresh' = fresh \ S
  /\ gz' = [g \in Groups |-> W(g)]
  /\ limited' = limited \cup {g \in into : Full(g)}
  /\ ready' = [g \in Groups |-> IF g \in into /\ ~Full(g) THEN Min(W(g))
                                ELSE ready[g]]
  /\ Disturb /\ UNCHANGED <<active, limit, paused, worker, upsets>> /\ Loses({})

\* complete-with-metadata.lua: a full group is only parked when it was ready.
Finish(j) ==
  LET g == GroupOf[j]
      n == Cardinality(active[g]) - 1 IN
  /\ j \in active[g] /\ active' = [active EXCEPT ![g] = @ \ {j}]
  /\ IF gz[g] # {} /\ n >= limit[g] /\ ready[g] = 0 THEN UNCHANGED <<ready, limited>>
     ELSE Index(g, gz[g], n)
  /\ Disturb /\ UNCHANGED <<fresh, gz, limit, paused, worker, upsets>> /\ Loses({})

\* groups.setConfig() writes the limit and moves nothing.
SetConfig(g, n) ==
  /\ Upset
  /\ n # limit[g] /\ limit' = [limit EXCEPT ![g] = n]
  /\ Disturb
  /\ UNCHANGED <<fresh, gz, active, ready, limited, paused, worker>> /\ Loses({})

\* pause() and resume().  Bound: it pauses where the calls can tell, while a
\* worker has a group in its hands.
Pause ==
  /\ paused' = ~paused
  /\ IF paused THEN UNCHANGED upsets
     ELSE Upset /\ \E w \in Blockers : pc[w] = "popped"
  /\ Disturb
  /\ UNCHANGED <<fresh, gz, active, limit, ready, limited, worker>> /\ Loses({})

\* A reserve script takes the first job of a group.
Take(g) ==
  /\ gz' = [gz EXCEPT ![g] = @ \ {Min(@)}]
  /\ active' = [active EXCEPT ![g] = @ \cup {Min(gz[g])}]
  /\ Index(g, gz[g] \ {Min(gz[g])}, Cardinality(active[g]) + 1)

CanTake(g) == ~paused /\ ~Full(g) /\ gz[g] # {}

\* reserve-atomic.lua that takes nothing: a full group that waits is parked.
Refuse(g) ==
  /\ ~CanTake(g)
  /\ IF ~paused /\ Full(g) /\ gz[g] # {}
     THEN Index(g, gz[g], Cardinality(active[g])) ELSE UNCHANGED <<ready, limited>>
  /\ UNCHANGED <<gz, active>>

\* Where a group stands among the groups R in the order of ready.
Rank(R, g) == Cardinality({h \in R : ready[h] < ready[g]})

\* reserve() reads the groups of the lowest scores, and takes a job of the
\* first of them that has one and has room.
Scanned == {g \in Listed : Rank(Listed, g) < ScanLimit}
Candidates == {g \in Scanned : CanTake(g)}

\* The full groups that it comes past, which it parks.
Parks(S) == {g \in S : Full(g) /\ gz[g] # {}}

\* After the scan that has parked P it removes from ready what stands where the
\* group g stood in what was read: another group, or none, when it has parked.
Robbed(P, g) == {h \in Listed \ P : Rank(Listed \ P, h) = Rank(Listed, g)}

\* It takes the first job of g, and puts g into one set without a look at the
\* other.
TakeScanned(g) ==
  LET P    == Parks({h \in Scanned : ready[h] < ready[g]})
      rest == gz[g] \ {Min(gz[g])}
      full == Cardinality(active[g]) + 1 >= limit[g]
      out  == P \cup Robbed(P, g) IN
  /\ \A h \in Candidates : ready[g] <= ready[h]
  /\ gz' = [gz EXCEPT ![g] = rest]
  /\ active' = [active EXCEPT ![g] = @ \cup {Min(gz[g])}]
  /\ ready' = [h \in Groups |-> IF h = g /\ rest # {} /\ ~full THEN Min(rest)
                                ELSE IF h \in out THEN 0 ELSE ready[h]]
  /\ limited' = limited \cup P \cup {h \in {g} : rest # {} /\ full}
  /\ Loses({h \in Robbed(P, g) : active'[h] = {}})

\* It finds no job, and has parked what is full.
FindNothing ==
  LET P == Parks(Scanned) IN
  /\ ~paused /\ Candidates = {}
  /\ ready' = [h \in Groups |-> IF h \in P THEN 0 ELSE ready[h]]
  /\ limited' = limited \cup P
  /\ Loses({}) /\ UNCHANGED <<gz, active>>

\* reserve() of anybody.
Reserve ==
  /\ FindNothing \/ \E g \in Candidates : TakeScanned(g)
  /\ Disturb
  /\ UNCHANGED <<fresh, limit, paused, worker, upsets>>

-----------------------------------------------------------------------------
(* reserveBlocking(). *)

At(w, before, after) == pc[w] = before /\ pc' = [pc EXCEPT ![w] = after]
Release(w) == held' = [held EXCEPT ![w] = Nothing]
Others == <<fresh, limit, paused, upsets>>

\* isPaused() says no.
Block(w) ==
  /\ w \in Blockers /\ ~paused /\ At(w, "idle", "blocking")
  /\ Disturb /\ UNCHANGED <<queue, held, todo, upsets>> /\ Loses({})

\* BZPOPMIN: the first ready group is in no set now, but in the worker's hands.
Pop(w) ==
  /\ At(w, "blocking", "popped")
  /\ \E g \in Listed :
       /\ \A h \in Listed : ready[g] <= ready[h]
       /\ held' = [held EXCEPT ![w] = <<g, ready[g]>>]
       /\ ready' = [ready EXCEPT ![g] = 0]
  /\ Disturb /\ UNCHANGED <<Others, gz, active, limited, todo>> /\ Loses({})

PopTimesOut(w) ==
  /\ Listed = {} /\ At(w, "blocking", "idle")
  /\ Disturb /\ UNCHANGED <<queue, held, todo, upsets>> /\ Loses({})

\* reserveAtomic() of the popped group.  The worker leaves with the job; when the
\* reply is torn the job stays locked and the worker leaves for reserve().
TryPopped(w) ==
  LET g == held[w][1] IN
  /\ \/ CanTake(g) /\ Take(g) /\ At(w, "popped", "idle") /\ Release(w)
     \/ Refuse(g) /\ At(w, "popped", "refused") /\ UNCHANGED held
  /\ Disturb /\ UNCHANGED <<Others, todo>> /\ Loses({})

\* Mutant: a group that was refused is not looked at again.
CountNothing(w) ==
  /\ At(w, "refused", "idle") /\ Release(w)
  /\ Disturb /\ UNCHANGED <<queue, todo, upsets>> /\ Loses({})

\* ZCARD of the group: an empty group is not put back.
Count(w) ==
  /\ IF gz[held[w][1]] = {} THEN At(w, "refused", "idle") /\ Release(w)
     ELSE At(w, "refused", "restoring") /\ UNCHANGED held
  /\ Disturb /\ UNCHANGED <<queue, todo, upsets>> /\ Loses({})

\* ZADD ready with the score that was popped, whatever happened since.
Restore(w) ==
  /\ At(w, "restoring", "idle") /\ Release(w)
  /\ ready' = [ready EXCEPT ![held[w][1]] = held[w][2]]
  /\ Disturb /\ UNCHANGED <<Others, gz, active, limited, todo>> /\ Loses({})

\* The worker dies, or its next call fails, with the group in its hands.
Crash(w) ==
  /\ Upset
  /\ pc[w] \in {"popped", "refused", "restoring"}
  /\ pc' = [pc EXCEPT ![w] = "idle"] /\ Release(w)
  /\ Disturb /\ UNCHANGED <<queue, todo>> /\ Loses({held[w][1]})

-----------------------------------------------------------------------------
(* acquireJob() of a strategy: its list of groups, then one after the other,  *)
(* in the order of weights and random numbers, which may be any.              *)

\* ZRANGE ready 0 n-1: the n ready groups of the lowest scores, and all of
\* them for n = 0.  It is what getReadyGroups() and the algorithm "none" list.
Head(n) ==
  IF n = 0 THEN Listed
  ELSE {g \in Listed : Rank(Listed, g) < n}

\* Algorithm "probability": the share of the head, the rest drawn at random
\* from what lies behind it.  With a share of 0 the list is everything, and
\* the groups that are drawn are in it twice.
Sampled(n) ==
  LET share == (n * TopPercent) \div 100
      tail  == Head(ScanDepth) \ Head(share) IN
  {Head(share) \cup S : S \in kSubset(Min({n - share, Cardinality(tail)}), tail)}

\* Algorithm "virtual-aging": the groups of the highest virtual score.  The
\* wait in it is now - score; a score counts microseconds since 2024 and is
\* above the clock for every orderMs after 20 January 2024, so the wait is cut
\* off at 0 and the priority decides alone; equals in any order.
Aged(n) ==
  LET found == Head(ScanDepth) IN
  {S \in kSubset(Min({n, Cardinality(found)}), found) :
     \A g \in S, h \in found \ S : Priority[g] >= Priority[h]}

\* What a strategy lists, as its constructor has set it up.
Algorithms == {"none", "probability", "virtual-aging"}
Lists(algorithm, n) ==
  CASE algorithm = "none"          -> {Head(n)}
    [] algorithm = "probability"   -> Sampled(n)
    [] algorithm = "virtual-aging" -> Aged(n)

List(w) ==
  /\ w \in Strategists /\ Listed # {} /\ At(w, "idle", "trying")
  /\ \E algorithm \in Algorithms, n \in ListSizes :
       \E S \in Lists(algorithm, n) : todo' = [todo EXCEPT ![w] = S]
  /\ Disturb /\ UNCHANGED <<queue, held, upsets>> /\ Loses({})

\* Mutant: the list is not given up when a job was found.
TryOn(w, g) ==
  /\ pc[w] = "trying" /\ g \in todo[w]
  /\ (CanTake(g) /\ Take(g)) \/ Refuse(g)
  /\ todo' = [todo EXCEPT ![w] = @ \ {g}]
  /\ pc' = [pc EXCEPT ![w] = IF CanTake(g) \/ todo'[w] = {} THEN "idle" ELSE "trying"]
  /\ Disturb /\ UNCHANGED <<Others, held>> /\ Loses({})

\* reserveAtomic() of one group of the list.
Try(w, g) ==
  /\ pc[w] = "trying" /\ g \in todo[w]
  /\ \/ CanTake(g) /\ Take(g) /\ todo' = [todo EXCEPT ![w] = {}]
     \/ Refuse(g) /\ todo' = [todo EXCEPT ![w] = @ \ {g}]
  /\ pc' = [pc EXCEPT ![w] = IF todo'[w] = {} THEN "idle" ELSE "trying"]
  /\ Disturb /\ UNCHANGED <<Others, held>> /\ Loses({})

-----------------------------------------------------------------------------
(* rebuildLimitedSet(): one group after the other. *)

\* Set groups: a completion drops the group that has no job left.
Known == {g \in Groups : gz[g] # {} \/ active[g] # {}}

RebuildStarts ==
  /\ ~Rebuilding /\ rebuilds < MaxRebuilds /\ rebuilds' = rebuilds + 1
  /\ FewRebuilds => /\ Cardinality({GroupOf[j] : j \in Jobs \ fresh}) <= 2
                    /\ \A w \in Strategists : pc[w] = "idle"
  /\ rebuild' = Between(Known)
  /\ disturbed' = FALSE
  /\ UNCHANGED <<queue, worker, lost, tainted, upsets>>

\* ZCARD, LLEN and HGET of the next group.
RebuildCounts(g) ==
  /\ rebuild.step = "off" /\ g \in rebuild.todo
  /\ rebuild' = [rebuild EXCEPT !.step = "counted", !.todo = @ \ {g}, !.group = g,
                                !.empty = (gz[g] = {}), !.full = Full(g)]
  /\ UNCHANGED queue

\* ZRANGE 0 0
RebuildHead(g) ==
  /\ rebuild.step = "counted"
  /\ rebuild' = [rebuild EXCEPT !.step = "headed",
                                !.head = IF gz[g] = {} THEN 0 ELSE Min(gz[g])]
  /\ UNCHANGED queue

\* Mutant: only the set the group belongs into is looked at.
Misplaced1(g) == IF rebuild.full THEN g \notin limited ELSE ready[g] = 0

\* In the wrong set, or not in the right one (two ZSCORE).
Misplaced(g) ==
  IF rebuild.full THEN ready[g] > 0 \/ g \notin limited
  ELSE g \in limited \/ ready[g] = 0

RebuildChecks(g) ==
  /\ rebuild.step = "headed"
  /\ rebuild' = IF rebuild.empty \/ (rebuild.head # 0 /\ Misplaced(g))
                THEN [rebuild EXCEPT !.step = "checked"]
                ELSE Between(rebuild.todo)
  /\ UNCHANGED queue

\* ZREM from the set where the group should not be.
RebuildRemoves(g) ==
  /\ rebuild.step = "checked"
  /\ rebuild' = [rebuild EXCEPT !.step = "removed"]
  /\ IF rebuild.empty \/ rebuild.full
     THEN ready' = [ready EXCEPT ![g] = 0] /\ UNCHANGED limited
     ELSE limited' = limited \ {g} /\ UNCHANGED ready
  /\ UNCHANGED <<fresh, gz, active, limit, paused>>

\* ZADD to the other one with the score that was read; ZREM when empty.
RebuildAdds(g) ==
  /\ rebuild.step = "removed"
  /\ rebuild' = Between(rebuild.todo)
  /\ IF rebuild.empty THEN limited' = limited \ {g} /\ UNCHANGED ready
     ELSE IF rebuild.full THEN limited' = limited \cup {g} /\ UNCHANGED ready
     ELSE ready' = [ready EXCEPT ![g] = rebuild.head] /\ UNCHANGED limited
  /\ UNCHANGED <<fresh, gz, active, limit, paused>>

RebuildSteps ==
  /\ \/ \E g \in Groups : RebuildCounts(g)
     \/ LET g == rebuild.group IN
          RebuildHead(g) \/ RebuildChecks(g) \/ RebuildRemoves(g) \/ RebuildAdds(g)
  /\ UNCHANGED <<worker, disturbed, tainted, bounds>> /\ Loses({})

-----------------------------------------------------------------------------
Blocking(w) == \/ Block(w) \/ Pop(w) \/ PopTimesOut(w) \/ TryPopped(w)
               \/ Count(w) \/ Restore(w)
Strategy(w) == List(w) \/ \E g \in Groups : Try(w, g)

Next ==
  \/ \E j \in Jobs : Add(j) \/ Finish(j)
  \/ \E S \in kSubset(2, fresh) : AddBatch(S)
  \/ \E g \in Groups, n \in Limits : SetConfig(g, n)
  \/ Pause \/ Reserve \/ RebuildStarts \/ RebuildSteps
  \/ \E w \in Workers : Blocking(w) \/ Strategy(w) \/ Crash(w)

Spec == Init /\ [][Next]_vars

-----------------------------------------------------------------------------
\* A group with waiting jobs and nothing active can be found: it is in ready,
\* or a worker that popped it is on its way to take from it or put it back.
\* Not so when a worker crashed with it, or when reserve() removed it by the rank
\* of a group behind which it moved up, until something puts it back; and not
\* after something ran during a rebuild.
IdleGroupReachable ==
  \A g \in Groups \ lost :
    gz[g] # {} /\ active[g] = {} /\ ~tainted
    => \/ ready[g] > 0
       \/ \E w \in Blockers : /\ pc[w] \in {"popped", "refused", "restoring"}
                              /\ held[w][1] = g

\* validate-limited-set.lua: what it reports as invalid, and as missing.
Invalid == {g \in limited : gz[g] = {} \/ ~Full(g) \/ ready[g] > 0}
Missing == {g \in Groups \ limited : gz[g] # {} /\ Full(g)}

\* After a rebuild during which nothing ran validateLimitedSet reports no
\* group that has jobs, and every one with room that waits is ready, whatever
\* a crash, setConfig or an earlier rebuild had left.  A group without jobs
\* that an earlier rebuild left in limited is not in the set groups any more,
\* and no rebuild removes it.
RebuildRepairs ==
  rebuilds > 0 /\ ~Rebuilding /\ ~disturbed =>
    /\ Missing = {} /\ Invalid \cap Known = {}
    /\ \A g \in Groups : gz[g] # {} /\ ~Full(g) => ready[g] > 0
=============================================================================
