--------------------------- MODULE DispatchProofs ---------------------------
(***************************************************************************)
(* That a group with waiting jobs can be found, and that a rebuild which   *)
(* nothing disturbs repairs the index, for every number of jobs, groups    *)
(* and workers and every limit. One lemma per action says that the action  *)
(* keeps the inductive invariant.                                          *)
(***************************************************************************)
EXTENDS Dispatch, TLAPS, FiniteSetTheorems, WellFoundedInduction

-----------------------------------------------------------------------------
(* The inductive invariant.                                                *)

\* What rebuildLimitedSet has read has the type of the replies.
RebuildTyped ==
  rebuild \in [step : Steps, todo : SUBSET Groups, group : Groups,
               empty : BOOLEAN, full : BOOLEAN, head : Jobs \cup {0}]

\* A strategy pops no group.
OnlyBlockers ==
  \A w \in Workers : pc[w] \in {"blocking", "popped", "refused", "restoring"}
                       => w \in Blockers

\* What runs during a rebuild is seen at once, and at its end.
QuietSoFar == Rebuilding /\ ~tainted => ~disturbed

\* While nothing runs, what a rebuild has read is so, and so is the set it has
\* removed the group from.
ReadsHold ==
  ~disturbed /\ rebuild.step # "off" =>
    LET g == rebuild.group IN
    /\ rebuild.empty = (gz[g] = {}) /\ rebuild.full = Full(g)
    /\ rebuild.step # "counted" /\ gz[g] # {} => rebuild.head = Min(gz[g])
    /\ rebuild.step = "removed" =>
         IF rebuild.empty \/ rebuild.full THEN ready[g] = 0 ELSE g \notin limited

\* A limited group has active jobs, whose completion will move it.
LimitedIsBusy == ~tainted => \A g \in limited : active[g] # {}

\* The group g is in the set it belongs into, and in no other.
Placed(g) ==
  /\ g \in limited => gz[g] # {} /\ Full(g) /\ ready[g] = 0
  /\ gz[g] # {} => IF Full(g) THEN g \in limited ELSE ready[g] > 0

\* The groups that a rebuild has been through are placed.
RepairedSoFar ==
  rebuilds > 0 /\ ~disturbed =>
    \A g \in Known \ rebuild.todo :
      (rebuild.step # "off" => g # rebuild.group) => Placed(g)

\* The types.
Typed == TypeOK /\ RebuildTyped /\ OnlyBlockers

\* The inductive invariant.
DispatchInv ==
  /\ Typed /\ QuietSoFar /\ ReadsHold /\ LimitedIsBusy /\ RepairedSoFar
  /\ IdleGroupReachable

-----------------------------------------------------------------------------
(* Helpers: heads of sorted sets, and counts.                              *)

\* The constants that are numbers, and the groups.
LEMMA Numbers ==
  /\ Jobs \subseteq Nat \ {0} /\ Limits \subseteq Nat \ {0} /\ 1 \in Limits
  /\ IsFiniteSet(Groups) /\ Groups # {} /\ GroupOf \in [Jobs -> Groups]
  /\ ListSizes \subseteq Nat \ {0} /\ TopPercent \in 0..100
  /\ ScanDepth \in Nat \ {0} /\ MaxUpsets \in Nat /\ MaxRebuilds \in Nat
BY DispatchAssumption

\* A set of numbers has a lowest one.
LEMMA Lowest ==
  ASSUME NEW S \in SUBSET Nat, S # {}
  PROVE  Min(S) \in S /\ \A y \in S : Min(S) <= y
<1>1. PICK n \in S : \A m \in S : <<m, n>> \notin OpToRel(<, Nat)
  BY NatLessThanWellFounded, WFMin
<1>2. \A m \in S : n <= m
  <2>1. \A m \in S : ~(m < n)
    BY <1>1 DEF OpToRel
  <2> QED
    BY <2>1
<1> DEFINE m == Min(S)
<1>3. m \in S /\ \A y \in S : m =< y
  BY <1>2, Zenon DEF Min
<1> QED
  BY <1>3

\* ZRANGE 0 0 of a group with jobs answers one of them.
LEMMA HeadIsJob ==
  ASSUME NEW W \in SUBSET Jobs, W # {}
  PROVE  Min(W) \in W /\ Min(W) \in Jobs /\ Min(W) > 0
<1>1. W \in SUBSET Nat
  BY Numbers
<1>2. Min(W) \in W
  BY <1>1, Lowest
<1> DEFINE m == Min(W)
<1>3. m \in W /\ m \in Jobs
  BY <1>2
<1> HIDE DEF m
<1>4. m > 0
  BY <1>3, Numbers
<1> QED
  BY <1>3, <1>4 DEF m

\* A group without active jobs has room.
LEMMA IdleHasRoom ==
  ASSUME TypeOK, NEW g \in Groups, active[g] = {}
  PROVE  ~Full(g) /\ ~(Cardinality(active[g]) >= limit[g])
<1>1. Cardinality(active[g]) = 0
  BY FS_EmptySet
<1>2. limit[g] \in Nat \ {0}
  BY Numbers DEF TypeOK
<1> QED
  BY <1>1, <1>2 DEF Full

-----------------------------------------------------------------------------
(* What the scripts do to the index.                                       *)

\* The queue has its types.
QueueTyped ==
  /\ fresh \subseteq Jobs /\ paused \in BOOLEAN
  /\ gz \in [Groups -> SUBSET Jobs] /\ active \in [Groups -> SUBSET Jobs]
  /\ limit \in [Groups -> Limits] /\ ready \in [Groups -> Jobs \cup {0}]
  /\ limited \subseteq Groups

\* The workers have their types.
WorkersTyped ==
  /\ pc \in [Workers -> {"idle", "blocking", "popped", "refused", "restoring",
                         "trying"}]
  /\ held \in [Workers -> Groups \X (Jobs \cup {0})]
  /\ todo \in [Workers -> SUBSET Groups]
  /\ \A w \in Workers : todo[w] # {} <=> pc[w] = "trying"
  /\ \A w \in Workers : pc[w] \in {"popped", "refused", "restoring"}
                          => held[w][2] # 0
  /\ OnlyBlockers

\* The history and the bounds have their types.
HistoryTyped ==
  /\ lost \subseteq Groups /\ disturbed \in BOOLEAN /\ tainted \in BOOLEAN
  /\ upsets \in 0..MaxUpsets /\ rebuilds \in 0..MaxRebuilds
  /\ RebuildTyped

\* The parts are the whole.
LEMMA TypedParts == Typed <=> QueueTyped /\ WorkersTyped /\ HistoryTyped
BY DEF Typed, TypeOK, RebuildTyped, QueueTyped, WorkersTyped, HistoryTyped

LEMMA TypedPartsNext == Typed' <=> QueueTyped' /\ WorkersTyped' /\ HistoryTyped'
BY DEF Typed, TypeOK, RebuildTyped, QueueTyped, WorkersTyped, HistoryTyped, OnlyBlockers

\* Index(): the group g is in the set its jobs and its limit say, the others stay.
LEMMA IndexMoves ==
  ASSUME TypeOK, NEW g \in Groups, NEW W \in SUBSET Jobs, NEW n, Index(g, W, n)
  PROVE  /\ ready' \in [Groups -> Jobs \cup {0}] /\ limited' \subseteq Groups
         /\ \A h \in Groups \ {g} :
              ready'[h] = ready[h] /\ (h \in limited' <=> h \in limited)
         /\ W # {} /\ ~(n >= limit[g]) => ready'[g] > 0
         /\ g \in limited' => W # {} /\ n >= limit[g]
<1> DEFINE r == IF W = {} \/ n >= limit[g] THEN 0 ELSE Min(W)
<1>1. W # {} => Min(W) \in Jobs /\ Min(W) > 0
  BY HeadIsJob
<1>2. r \in Jobs \cup {0} /\ (W # {} /\ ~(n >= limit[g]) => r > 0)
  BY <1>1
<1>3. ready' = [ready EXCEPT ![g] = r]
  BY DEF Index
<1>4. ready \in [Groups -> Jobs \cup {0}] /\ limited \subseteq Groups
  BY DEF TypeOK
<1>5. limited' = IF W # {} /\ n >= limit[g] THEN limited \cup {g} ELSE limited \ {g}
  BY DEF Index
<1> HIDE DEF r
<1>6. /\ ready' \in [Groups -> Jobs \cup {0}] /\ ready'[g] = r
      /\ \A h \in Groups \ {g} : ready'[h] = ready[h]
  BY <1>2, <1>3, <1>4
<1>7. /\ limited' \subseteq Groups
      /\ \A h \in Groups \ {g} : h \in limited' <=> h \in limited
      /\ g \in limited' => W # {} /\ n >= limit[g]
  BY <1>4, <1>5, Zenon
<1> QED
  BY <1>2, <1>6, <1>7

\* A worker has the group h in its hands.
InHands(h) ==
  \E w \in Blockers : pc[w] \in {"popped", "refused", "restoring"} /\ held[w][1] = h

\* Nothing of the group h moves, but into the hands of a worker or out of ready
\* with a mark of it.
Same(h) ==
  /\ gz'[h] = gz[h] /\ active'[h] = active[h]
  /\ ready'[h] = ready[h] \/ InHands(h)' \/ h \in lost'
  /\ h \in limited' => h \in limited

\* The group h can be found after the step, or has an active job.
Found(h) ==
  active'[h] # {} \/ (h \notin limited' /\ (gz'[h] # {} => ready'[h] > 0))

\* A reserve script that takes a job leaves the group with an active one.
LEMMA TakeFills ==
  ASSUME TypeOK, NEW g \in Groups, CanTake(g), Take(g)
  PROVE  /\ gz' \in [Groups -> SUBSET Jobs] /\ active' \in [Groups -> SUBSET Jobs]
         /\ ready' \in [Groups -> Jobs \cup {0}] /\ limited' \subseteq Groups
         /\ \A h \in Groups : Found(h) \/ Same(h)
         /\ Found(g)
<1>1. gz \in [Groups -> SUBSET Jobs] /\ active \in [Groups -> SUBSET Jobs]
  BY DEF TypeOK
<1>2. Min(gz[g]) \in Jobs
  BY <1>1, HeadIsJob DEF CanTake
<1> DEFINE first == Min(gz[g])
<1>3. /\ gz' = [gz EXCEPT ![g] = @ \ {first}]
      /\ active' = [active EXCEPT ![g] = @ \cup {first}]
      /\ Index(g, gz[g] \ {first}, Cardinality(active[g]) + 1)
  BY DEF Take
<1> HIDE DEF first
<1>4. /\ gz' \in [Groups -> SUBSET Jobs] /\ active' \in [Groups -> SUBSET Jobs]
      /\ active'[g] # {}
      /\ \A h \in Groups \ {g} : gz'[h] = gz[h] /\ active'[h] = active[h]
  BY <1>1, <1>2, <1>3 DEF first
<1>5. /\ ready' \in [Groups -> Jobs \cup {0}] /\ limited' \subseteq Groups
      /\ \A h \in Groups \ {g} :
           ready'[h] = ready[h] /\ (h \in limited' <=> h \in limited)
  <2>1. gz[g] \ {first} \in SUBSET Jobs
    BY <1>1
  <2> QED
    BY <2>1, <1>3, IndexMoves
<1> QED
  BY <1>4, <1>5 DEF Found, Same

\* A reserve script that takes nothing parks a full group at most.
LEMMA RefuseParks ==
  ASSUME TypeOK, NEW g \in Groups, Refuse(g)
  PROVE  /\ ready' \in [Groups -> Jobs \cup {0}] /\ limited' \subseteq Groups
         /\ gz' = gz /\ active' = active
         /\ \A h \in Groups : Found(h) \/ Same(h)
<1>1. /\ gz \in [Groups -> SUBSET Jobs] /\ ready \in [Groups -> Jobs \cup {0}]
      /\ limited \subseteq Groups
  BY DEF TypeOK
<1>2. gz' = gz /\ active' = active
  BY DEF Refuse
<1>3. CASE ~paused /\ Full(g) /\ gz[g] # {}
  <2>1. Index(g, gz[g], Cardinality(active[g]))
    BY <1>3 DEF Refuse
  <2>2. gz[g] \in SUBSET Jobs
    BY <1>1
  <2>3. /\ ready' \in [Groups -> Jobs \cup {0}] /\ limited' \subseteq Groups
        /\ \A h \in Groups \ {g} :
             ready'[h] = ready[h] /\ (h \in limited' <=> h \in limited)
    BY <2>1, <2>2, IndexMoves
  <2>4. active[g] # {}
    BY <1>3, IdleHasRoom
  <2> QED
    BY <1>2, <2>3, <2>4 DEF Found, Same
<1>4. CASE ~(~paused /\ Full(g) /\ gz[g] # {})
  <2>1. ready' = ready /\ limited' = limited
    BY <1>4 DEF Refuse
  <2> QED
    BY <1>1, <1>2, <2>1 DEF Same
<1> QED
  BY <1>3, <1>4

-----------------------------------------------------------------------------
(* What a step outside a rebuild has to do for the invariant.              *)

\* Disturb keeps what is said of rebuilds, since it says that it ran.
LEMMA DisturbTells ==
  ASSUME HistoryTyped, Disturb,
         UNCHANGED upsets \/ Upset, lost' \subseteq Groups
  PROVE  HistoryTyped' /\ QuietSoFar' /\ ReadsHold' /\ RepairedSoFar'
<1>1. /\ disturbed' = TRUE /\ tainted' = (tainted \/ Rebuilding)
      /\ rebuild' = rebuild /\ rebuilds' = rebuilds
  BY DEF Disturb
<1>2. Rebuilding' = Rebuilding
  BY <1>1 DEF Rebuilding
<1>3. QuietSoFar' /\ ReadsHold' /\ RepairedSoFar'
  BY <1>1, <1>2 DEF QuietSoFar, ReadsHold, RepairedSoFar
<1>4. upsets' \in 0..MaxUpsets
  BY Numbers DEF HistoryTyped, Upset
<1>5. Rebuilding \in BOOLEAN
  BY DEF Rebuilding
<1>6. HistoryTyped'
  BY <1>1, <1>4, <1>5 DEF HistoryTyped, RebuildTyped
<1> QED
  BY <1>3, <1>6

\* A step keeps the groups in reach when it leaves each with an active job, in
\* ready or as it was, and lets go of none that it does not leave so.
LEMMA ReachKept ==
  ASSUME LimitedIsBusy, IdleGroupReachable, QueueTyped',
         NEW L, Loses(L),
         tainted => tainted',
         ~tainted => \A h \in Groups : Found(h) \/ Same(h),
         ~tainted => \A h \in Groups \ lost' :
           InHands(h) /\ gz[h] # {} => InHands(h)' \/ Found(h)
  PROVE  LimitedIsBusy' /\ IdleGroupReachable'
<1> SUFFICES ASSUME ~tainted'
             PROVE  LimitedIsBusy' /\ IdleGroupReachable'
  BY DEF LimitedIsBusy, IdleGroupReachable
<1>1. ~tainted /\ limited' \subseteq Groups
  BY DEF QueueTyped
<1>2. \A h \in limited : active[h] # {}
  BY <1>1 DEF LimitedIsBusy
<1>3. \A h \in limited' : active'[h] # {}
  BY <1>1, <1>2 DEF Found, Same
<1>4. ASSUME NEW h \in Groups \ lost', gz'[h] # {}, active'[h] = {}
      PROVE  ready'[h] > 0 \/ InHands(h)'
  <2>0. CASE h \in lost
    <3>1. ready'[h] # 0
      BY <1>4, <2>0 DEF Loses
    <3>2. ready'[h] \in Jobs \cup {0}
      BY DEF QueueTyped
    <3>3. \A n \in Jobs : n > 0
      BY Numbers
    <3> QED
      BY <3>1, <3>2, <3>3
  <2>1. CASE Found(h)
    BY <1>4, <2>1 DEF Found
  <2>2. CASE h \notin lost /\ Same(h) /\ ~Found(h)
    <3>1. ready[h] > 0 \/ InHands(h)
      BY <1>1, <1>4, <2>2 DEF IdleGroupReachable, InHands, Same
    <3> QED
      BY <1>1, <1>4, <2>2, <3>1 DEF Same
  <2> QED
    BY <1>1, <2>0, <2>1, <2>2
<1> QED
  BY <1>3, <1>4 DEF LimitedIsBusy, IdleGroupReachable, InHands

\* Together: what a step outside a rebuild has to show.
LEMMA DisturbKeeps ==
  ASSUME DispatchInv, Disturb, UNCHANGED upsets \/ Upset,
         NEW L \in SUBSET Groups, Loses(L),
         QueueTyped', WorkersTyped',
         ~tainted => \A h \in Groups : Found(h) \/ Same(h),
         ~tainted => \A h \in Groups \ lost' :
           InHands(h) /\ gz[h] # {} => InHands(h)' \/ Found(h)
  PROVE  DispatchInv'
<1>1. HistoryTyped' /\ QuietSoFar' /\ ReadsHold' /\ RepairedSoFar'
  <2>1. HistoryTyped
    BY TypedParts DEF DispatchInv
  <2>2. lost' \subseteq Groups
    BY <2>1 DEF Loses, HistoryTyped
  <2> QED
    BY <2>1, <2>2, DisturbTells
<1>2. tainted => tainted'
  BY DEF Disturb
<1>3. LimitedIsBusy' /\ IdleGroupReachable'
  BY <1>2, ReachKept DEF DispatchInv
<1> QED
  BY <1>1, <1>3, TypedPartsNext DEF DispatchInv

\* A step that leaves the workers alone keeps what they have in their hands.
LEMMA HandsStay ==
  ASSUME UNCHANGED <<pc, held>>
  PROVE  \A h \in Groups : InHands(h) => InHands(h)'
BY DEF InHands

-----------------------------------------------------------------------------
(* The scripts keep the invariant.                                         *)

LEMMA AddKeeps ==
  ASSUME DispatchInv, NEW j \in Jobs, Add(j)
  PROVE  DispatchInv'
<1> DEFINE g == GroupOf[j]
           W == gz[g] \cup {j}
<1>1. g \in Groups
  BY Numbers
<1>2. QueueTyped /\ WorkersTyped /\ HistoryTyped /\ TypeOK
  BY TypedParts DEF DispatchInv, Typed
<1>3. /\ gz' = [gz EXCEPT ![g] = @ \cup {j}] /\ Index(g, W, Cardinality(active[g]))
      /\ Disturb /\ UNCHANGED <<active, limit, paused, pc, held, todo, upsets>> /\ Loses({})
      /\ fresh' = fresh \ {j}
  BY DEF Add, worker
<1>4. W \in SUBSET Jobs /\ W # {}
  BY <1>1, <1>2 DEF QueueTyped
<1> HIDE DEF g, W
<1>5. /\ ready' \in [Groups -> Jobs \cup {0}] /\ limited' \subseteq Groups
      /\ \A h \in Groups \ {g} :
           ready'[h] = ready[h] /\ (h \in limited' <=> h \in limited)
      /\ ~(Cardinality(active[g]) >= limit[g]) => ready'[g] > 0
      /\ g \in limited' => Cardinality(active[g]) >= limit[g]
  BY <1>1, <1>2, <1>3, <1>4, IndexMoves
<1>6. QueueTyped'
  BY <1>2, <1>3, <1>5 DEF QueueTyped
<1>7. WorkersTyped'
  BY <1>2, <1>3 DEF WorkersTyped, OnlyBlockers
<1>8. ASSUME NEW h \in Groups
      PROVE  Found(h) \/ Same(h)
  <2>1. CASE h = g
    <3>1. active[g] = {} => ~(Cardinality(active[g]) >= limit[g])
      BY <1>1, <1>2, IdleHasRoom
    <3> QED
      BY <1>3, <1>5, <2>1, <3>1 DEF Found
  <2>2. CASE h # g
    <3>1. gz'[h] = gz[h]
      BY <1>2, <1>3, <2>2 DEF QueueTyped
    <3> QED
      BY <1>3, <1>5, <2>2, <3>1 DEF Same
  <2> QED
    BY <2>1, <2>2
<1>9. \A h \in Groups : InHands(h) => InHands(h)'
  BY <1>3, HandsStay
<1> QED
  BY <1>2, <1>3, <1>6, <1>7, <1>8, <1>9, DisturbKeeps

LEMMA AddBatchKeeps ==
  ASSUME DispatchInv, NEW S, AddBatch(S)
  PROVE  DispatchInv'
<1> DEFINE into == {GroupOf[j] : j \in S} \ limited
           W(g) == gz[g] \cup {j \in S : GroupOf[j] = g}
<1>1. QueueTyped /\ WorkersTyped /\ HistoryTyped /\ TypeOK
  BY TypedParts DEF DispatchInv, Typed
<1>2. /\ S \subseteq fresh /\ fresh' = fresh \ S
      /\ gz' = [g \in Groups |-> W(g)]
      /\ limited' = limited \cup {g \in into : Full(g)}
      /\ ready' = [g \in Groups |-> IF g \in into /\ ~Full(g) THEN Min(W(g))
                                    ELSE ready[g]]
      /\ Disturb /\ UNCHANGED <<active, limit, paused, pc, held, todo, upsets>> /\ Loses({})
  BY DEF AddBatch, worker
<1>3. S \subseteq Jobs /\ into \subseteq Groups
  BY <1>1, <1>2, Numbers DEF QueueTyped
<1>4. \A g \in Groups : W(g) \in SUBSET Jobs
  BY <1>1, <1>3 DEF QueueTyped
<1>5. \A g \in into : W(g) # {}
  OBVIOUS
<1>6. \A g \in into : Min(W(g)) \in Jobs /\ Min(W(g)) > 0
  BY <1>3, <1>4, <1>5, HeadIsJob
<1>7. \A g \in Groups \ into : g \in limited \/ W(g) = gz[g]
  OBVIOUS
<1>8. \A g \in into : g \notin limited
  OBVIOUS
<1> HIDE DEF W, into
<1>9. QueueTyped'
  <2>1. ready' \in [Groups -> Jobs \cup {0}]
    BY <1>1, <1>2, <1>6 DEF QueueTyped
  <2>2. gz' \in [Groups -> SUBSET Jobs] /\ limited' \subseteq Groups
    BY <1>1, <1>2, <1>3, <1>4 DEF QueueTyped
  <2> QED
    BY <1>1, <1>2, <2>1, <2>2 DEF QueueTyped
<1>10. WorkersTyped'
  BY <1>1, <1>2 DEF WorkersTyped, OnlyBlockers
<1>11. ASSUME ~tainted, NEW h \in Groups
       PROVE  Found(h) \/ Same(h)
  <2>1. CASE h \in limited
    BY <1>2, <1>11, <2>1 DEF DispatchInv, LimitedIsBusy, Found
  <2>2. CASE h \in into /\ Full(h)
    <3>1. active[h] # {}
      BY <1>1, <2>2, IdleHasRoom
    <3> QED
      BY <1>2, <3>1 DEF Found
  <2>3. CASE h \in into /\ ~Full(h)
    BY <1>2, <1>6, <1>8, <2>3 DEF Found
  <2>4. CASE h \notin into /\ h \notin limited
    BY <1>2, <1>7, <2>4 DEF Same
  <2> QED
    BY <2>1, <2>2, <2>3, <2>4
<1>12. \A h \in Groups : InHands(h) => InHands(h)'
  BY <1>2, HandsStay
<1> QED
  BY <1>1, <1>2, <1>9, <1>10, <1>11, <1>12, DisturbKeeps

LEMMA FinishKeeps ==
  ASSUME DispatchInv, NEW j \in Jobs, Finish(j)
  PROVE  DispatchInv'
<1> DEFINE g == GroupOf[j]
           n == Cardinality(active[g]) - 1
<1>1. g \in Groups
  BY Numbers
<1>2. QueueTyped /\ WorkersTyped /\ HistoryTyped /\ TypeOK
  BY TypedParts DEF DispatchInv, Typed
<1>3. /\ j \in active[g] /\ active' = [active EXCEPT ![g] = @ \ {j}]
      /\ \/ gz[g] # {} /\ n >= limit[g] /\ UNCHANGED <<ready, limited>>
         \/ Index(g, gz[g], n)
      /\ Disturb /\ UNCHANGED <<fresh, gz, limit, paused, pc, held, todo, upsets>> /\ Loses({})
  BY DEF Finish, worker
<1>4. gz[g] \in SUBSET Jobs /\ active[g] \in SUBSET Jobs
  BY <1>1, <1>2 DEF QueueTyped
<1>5. active'[g] = {} => ~(n >= limit[g])
  <2> SUFFICES ASSUME active'[g] = {}
               PROVE  ~(n >= limit[g])
    OBVIOUS
  <2>1. active[g] = {j}
    BY <1>1, <1>2, <1>3 DEF QueueTyped
  <2>2. Cardinality(active[g]) = 1
    BY <2>1, FS_Singleton
  <2>3. limit[g] \in Nat \ {0}
    BY <1>1, <1>2, Numbers DEF QueueTyped
  <2> QED
    BY <2>2, <2>3
<1> HIDE DEF g, n
<1>6. /\ ready' \in [Groups -> Jobs \cup {0}] /\ limited' \subseteq Groups
      /\ \A h \in Groups \ {g} :
           ready'[h] = ready[h] /\ (h \in limited' <=> h \in limited)
      /\ ~(n >= limit[g]) => g \notin limited' /\ (gz[g] # {} => ready'[g] > 0)
  <2>1. CASE Index(g, gz[g], n)
    BY <1>1, <1>2, <1>4, <2>1, IndexMoves
  <2>2. CASE n >= limit[g] /\ UNCHANGED <<ready, limited>>
    BY <1>2, <2>2 DEF QueueTyped
  <2> QED
    BY <1>3, <2>1, <2>2
<1>7. QueueTyped'
  BY <1>1, <1>2, <1>3, <1>6 DEF QueueTyped
<1>8. WorkersTyped'
  BY <1>2, <1>3 DEF WorkersTyped, OnlyBlockers
<1>9. ASSUME NEW h \in Groups
      PROVE  Found(h) \/ Same(h)
  <2>1. CASE h = g
    BY <1>3, <1>5, <1>6, <2>1 DEF Found
  <2>2. CASE h # g
    <3>1. active'[h] = active[h]
      BY <1>2, <1>3, <2>2 DEF QueueTyped
    <3> QED
      BY <1>3, <1>6, <2>2, <3>1 DEF Same
  <2> QED
    BY <2>1, <2>2
<1>10. \A h \in Groups : InHands(h) => InHands(h)'
  BY <1>3, HandsStay
<1> QED
  BY <1>2, <1>3, <1>7, <1>8, <1>9, <1>10, DisturbKeeps

LEMMA SetConfigKeeps ==
  ASSUME DispatchInv, NEW g \in Groups, NEW n \in Limits, SetConfig(g, n)
  PROVE  DispatchInv'
<1>1. QueueTyped /\ WorkersTyped /\ HistoryTyped
  BY TypedParts DEF DispatchInv
<1>2. /\ Upset /\ limit' = [limit EXCEPT ![g] = n] /\ Disturb
      /\ UNCHANGED <<fresh, gz, active, ready, limited, paused, pc, held, todo>> /\ Loses({})
  BY DEF SetConfig, worker
<1>3. QueueTyped'
  BY <1>1, <1>2 DEF QueueTyped
<1>4. WorkersTyped'
  BY <1>1, <1>2 DEF WorkersTyped, OnlyBlockers
<1>5. \A h \in Groups : Same(h)
  BY <1>2 DEF Same
<1>6. \A h \in Groups : InHands(h) => InHands(h)'
  BY <1>2, HandsStay
<1> QED
  BY <1>1, <1>2, <1>3, <1>4, <1>5, <1>6, DisturbKeeps

LEMMA PauseKeeps ==
  ASSUME DispatchInv, Pause
  PROVE  DispatchInv'
<1>1. QueueTyped /\ WorkersTyped /\ HistoryTyped
  BY TypedParts DEF DispatchInv
<1>2. /\ UNCHANGED upsets \/ Upset
      /\ paused' = ~paused /\ Disturb
      /\ UNCHANGED <<fresh, gz, active, limit, ready, limited, pc, held, todo>> /\ Loses({})
  BY DEF Pause, worker
<1>3. QueueTyped'
  BY <1>1, <1>2 DEF QueueTyped
<1>4. WorkersTyped'
  BY <1>1, <1>2 DEF WorkersTyped, OnlyBlockers
<1>5. \A h \in Groups : Same(h)
  BY <1>2 DEF Same
<1>6. \A h \in Groups : InHands(h) => InHands(h)'
  BY <1>2, HandsStay
<1> QED
  BY <1>1, <1>2, <1>3, <1>4, <1>5, <1>6, DisturbKeeps

\* reserve() that takes a job of g: the groups it has parked are full, the one it
\* has removed instead of g is marked when it is idle.
LEMMA ScanTakes ==
  ASSUME TypeOK, NEW g \in Candidates, TakeScanned(g)
  PROVE  /\ gz' \in [Groups -> SUBSET Jobs] /\ active' \in [Groups -> SUBSET Jobs]
         /\ ready' \in [Groups -> Jobs \cup {0}] /\ limited' \subseteq Groups
         /\ \E L \in SUBSET Groups : Loses(L)
         /\ \A h \in Groups : Found(h) \/ Same(h)
<1> DEFINE P     == Parks({h \in Scanned : ready[h] < ready[g]})
           first == Min(gz[g])
           rest  == gz[g] \ {first}
           full  == Cardinality(active[g]) + 1 >= limit[g]
           next  == Min(rest)
<1>1. /\ gz \in [Groups -> SUBSET Jobs] /\ active \in [Groups -> SUBSET Jobs]
      /\ ready \in [Groups -> Jobs \cup {0}] /\ limited \subseteq Groups
  BY DEF TypeOK
<1>2. g \in Groups /\ gz[g] # {}
  BY DEF Candidates, Scanned, Listed, CanTake
<1>3. first \in Jobs
  BY <1>1, <1>2, HeadIsJob
<1>4. rest \in SUBSET Jobs
  BY <1>1, <1>2
<1>5. rest # {} => next \in Jobs
  <2> HIDE DEF rest
  <2> QED
    BY <1>4, HeadIsJob
<1>6. P \subseteq Groups /\ \A h \in P : active[h] # {}
  <2>1. \A h \in P : h \in Groups /\ Full(h)
    BY DEF Parks, Scanned, Listed
  <2> QED
    BY <2>1, IdleHasRoom
<1>7. Robbed(P, g) \subseteq Groups
  BY DEF Robbed, Listed
<1>8. /\ gz' = [gz EXCEPT ![g] = rest]
      /\ active' = [active EXCEPT ![g] = @ \cup {first}]
      /\ ready' = [h \in Groups |-> IF h = g /\ rest # {} /\ ~full THEN next
                                    ELSE IF h \in P \cup Robbed(P, g) THEN 0
                                    ELSE ready[h]]
      /\ limited' = limited \cup P \cup {h \in {g} : rest # {} /\ full}
      /\ Loses({h \in Robbed(P, g) : active'[h] = {}})
  BY DEF TakeScanned
<1> HIDE DEF P, first, rest, full, next
<1>9. /\ gz' \in [Groups -> SUBSET Jobs] /\ active' \in [Groups -> SUBSET Jobs]
      /\ active'[g] # {}
      /\ \A h \in Groups \ {g} : gz'[h] = gz[h] /\ active'[h] = active[h]
  BY <1>1, <1>2, <1>3, <1>4, <1>8
<1>10. ready' \in [Groups -> Jobs \cup {0}] /\ limited' \subseteq Groups
  BY <1>1, <1>2, <1>5, <1>6, <1>8
<1>11. \E L \in SUBSET Groups : Loses(L)
  BY <1>7, <1>8
<1>12. ASSUME NEW h \in Groups
       PROVE  Found(h) \/ Same(h)
  <2>1. CASE active'[h] # {}
    BY <2>1 DEF Found
  <2>2. CASE active'[h] = {}
    <3>1. h # g /\ h \notin P
      BY <1>6, <1>9, <2>2
    <3>2. h \in limited' => h \in limited
      BY <1>8, <3>1
    <3>3. ready'[h] = IF h \in Robbed(P, g) THEN 0 ELSE ready[h]
      BY <1>8, <3>1
    <3>4. h \in Robbed(P, g) => h \in lost'
      BY <1>8, <2>2, <3>3 DEF Loses
    <3> QED
      BY <1>9, <3>1, <3>2, <3>3, <3>4 DEF Same
  <2> QED
    BY <2>1, <2>2
<1> QED
  BY <1>9, <1>10, <1>11, <1>12

\* reserve() that finds no job parks full groups at most.
LEMMA ScanParks ==
  ASSUME TypeOK, FindNothing
  PROVE  /\ gz' \in [Groups -> SUBSET Jobs] /\ active' \in [Groups -> SUBSET Jobs]
         /\ ready' \in [Groups -> Jobs \cup {0}] /\ limited' \subseteq Groups
         /\ \E L \in SUBSET Groups : Loses(L)
         /\ \A h \in Groups : Found(h) \/ Same(h)
<1> DEFINE P == Parks(Scanned)
<1>1. /\ gz \in [Groups -> SUBSET Jobs] /\ active \in [Groups -> SUBSET Jobs]
      /\ ready \in [Groups -> Jobs \cup {0}] /\ limited \subseteq Groups
  BY DEF TypeOK
<1>2. P \subseteq Groups /\ \A h \in P : active[h] # {}
  <2>1. \A h \in P : h \in Groups /\ Full(h)
    BY DEF Parks, Scanned, Listed
  <2> QED
    BY <2>1, IdleHasRoom
<1>3. /\ ready' = [h \in Groups |-> IF h \in P THEN 0 ELSE ready[h]]
      /\ limited' = limited \cup P
      /\ Loses({}) /\ UNCHANGED <<gz, active>>
  BY DEF FindNothing
<1> HIDE DEF P
<1>4. ready' \in [Groups -> Jobs \cup {0}] /\ limited' \subseteq Groups
  BY <1>1, <1>2, <1>3
<1>5. \A h \in Groups : Found(h) \/ Same(h)
  BY <1>2, <1>3 DEF Found, Same
<1> QED
  BY <1>1, <1>3, <1>4, <1>5

LEMMA ReserveKeeps ==
  ASSUME DispatchInv, Reserve
  PROVE  DispatchInv'
<1>1. QueueTyped /\ WorkersTyped /\ HistoryTyped /\ TypeOK
  BY TypedParts DEF DispatchInv, Typed
<1>2. Disturb /\ UNCHANGED <<fresh, limit, paused, pc, held, todo, upsets>>
  BY DEF Reserve, worker
<1>3. /\ gz' \in [Groups -> SUBSET Jobs] /\ active' \in [Groups -> SUBSET Jobs]
      /\ ready' \in [Groups -> Jobs \cup {0}] /\ limited' \subseteq Groups
      /\ \E L \in SUBSET Groups : Loses(L)
      /\ \A h \in Groups : Found(h) \/ Same(h)
  BY <1>1, ScanTakes, ScanParks DEF Reserve
<1>4. PICK L \in SUBSET Groups : Loses(L)
  BY <1>3
<1>5. QueueTyped'
  BY <1>1, <1>2, <1>3 DEF QueueTyped
<1>6. WorkersTyped'
  BY <1>1, <1>2 DEF WorkersTyped, OnlyBlockers
<1>7. \A h \in Groups : InHands(h) => InHands(h)'
  BY <1>2, HandsStay
<1> QED
  BY <1>2, <1>3, <1>4, <1>5, <1>6, <1>7, DisturbKeeps

-----------------------------------------------------------------------------
(* reserveBlocking() keeps the invariant.                                  *)

\* A worker that has no group in its hands goes on without one, or dies with it.
LEMMA WalkKeeps ==
  ASSUME DispatchInv, NEW w \in Workers, NEW s \in {"idle", "blocking"},
         Disturb, pc' = [pc EXCEPT ![w] = s], pc[w] # "trying",
         s = "blocking" => w \in Blockers,
         UNCHANGED <<queue, todo, upsets>> \/ (Upset /\ UNCHANGED <<queue, todo>>),
         NEW L \in SUBSET Groups, Loses(L),
         \/ UNCHANGED held
            /\ pc[w] \notin {"popped", "refused", "restoring"}
         \/ Release(w)
            /\ \/ gz[held[w][1]] = {} \/ held[w][1] \in lost'
               \/ ready[held[w][1]] > 0
  PROVE  DispatchInv'
<1>1. QueueTyped /\ WorkersTyped /\ HistoryTyped
  BY TypedParts DEF DispatchInv
<1>2. /\ UNCHANGED <<fresh, gz, active, limit, ready, limited, paused, todo>>
      /\ UNCHANGED upsets \/ Upset
  BY DEF queue
<1>3. Nothing \in Groups \X (Jobs \cup {0})
  BY Numbers DEF Nothing
<1>4. held' \in [Workers -> Groups \X (Jobs \cup {0})]
      /\ \A v \in Workers \ {w} : held'[v] = held[v]
  BY <1>1, <1>3 DEF WorkersTyped, Release
<1>5. QueueTyped'
  BY <1>1, <1>2 DEF QueueTyped
<1>6. WorkersTyped'
  BY <1>1, <1>2, <1>4 DEF WorkersTyped, OnlyBlockers
<1>7. \A h \in Groups : Same(h)
  BY <1>2 DEF Same
<1>8. ASSUME ~tainted, NEW h \in Groups \ lost', InHands(h), gz[h] # {}
      PROVE  InHands(h)' \/ Found(h)
  <2>1. PICK v \in Blockers : /\ pc[v] \in {"popped", "refused", "restoring"}
                              /\ held[v][1] = h
    BY <1>8 DEF InHands
  <2>2. CASE v = w
    <3>1. ready'[h] > 0
      BY <1>2, <1>8, <2>1, <2>2
    <3>2. h \in limited => active[h] # {}
      BY <1>8 DEF DispatchInv, LimitedIsBusy
    <3> QED
      BY <1>2, <3>1, <3>2 DEF Found
  <2>3. CASE v # w
    <3>1. pc'[v] = pc[v] /\ held'[v] = held[v]
      BY <1>1, <1>4, <2>3 DEF WorkersTyped, Workers
    <3> QED
      BY <2>1, <3>1 DEF InHands
  <2> QED
    BY <2>2, <2>3
<1> QED
  BY <1>2, <1>5, <1>6, <1>7, <1>8, DisturbKeeps

LEMMA BlockKeeps ==
  ASSUME DispatchInv, NEW w \in Workers, Block(w)
  PROVE  DispatchInv'
<1>1. HistoryTyped
  BY TypedParts DEF DispatchInv
<1> QED
  BY <1>1, WalkKeeps DEF Block, At, HistoryTyped

LEMMA PopTimesOutKeeps ==
  ASSUME DispatchInv, NEW w \in Workers, PopTimesOut(w)
  PROVE  DispatchInv'
<1>1. HistoryTyped
  BY TypedParts DEF DispatchInv
<1> QED
  BY <1>1, WalkKeeps DEF PopTimesOut, At, HistoryTyped

LEMMA CrashKeeps ==
  ASSUME DispatchInv, NEW w \in Workers, Crash(w)
  PROVE  DispatchInv'
<1>1. HistoryTyped /\ WorkersTyped
  BY TypedParts DEF DispatchInv
<1>2. held[w][1] \in Groups
  BY <1>1 DEF WorkersTyped
<1>3. Loses({held[w][1]}) /\ {held[w][1]} \in SUBSET Groups
  BY <1>1, <1>2 DEF Crash
<1>4. held[w][1] \in lost' \/ ready[held[w][1]] > 0
  <2>1. ready' = ready /\ ready[held[w][1]] \in Jobs \cup {0}
    BY <1>2, TypedParts DEF Crash, queue, DispatchInv, QueueTyped
  <2>2. \A n \in Jobs : n > 0
    BY Numbers
  <2> QED
    BY <1>3, <2>1, <2>2 DEF Loses
<1> QED
  BY <1>3, <1>4, WalkKeeps DEF Crash

LEMMA CountKeeps ==
  ASSUME DispatchInv, NEW w \in Workers, Count(w)
  PROVE  DispatchInv'
<1>1. QueueTyped /\ WorkersTyped /\ HistoryTyped
  BY TypedParts DEF DispatchInv
<1>2. pc[w] = "refused" /\ Disturb /\ UNCHANGED <<queue, todo, upsets>> /\ Loses({})
  BY DEF Count, At
<1>3. CASE gz[held[w][1]] = {}
  BY <1>1, <1>2, <1>3, WalkKeeps DEF Count, At, HistoryTyped
<1>4. CASE gz[held[w][1]] # {}
  <2>1. pc' = [pc EXCEPT ![w] = "restoring"] /\ UNCHANGED held
    BY <1>4 DEF Count, At
  <2>2. UNCHANGED <<fresh, gz, active, limit, ready, limited, paused>>
    BY <1>2 DEF queue
  <2>3. QueueTyped'
    BY <1>1, <2>2 DEF QueueTyped
  <2>4. WorkersTyped'
    BY <1>1, <1>2, <2>1 DEF WorkersTyped, OnlyBlockers
  <2>5. \A h \in Groups : Same(h)
    BY <2>2 DEF Same
  <2>6. \A h \in Groups : InHands(h) => InHands(h)'
    BY <1>1, <2>1 DEF InHands, WorkersTyped, Workers
  <2> QED
    BY <1>1, <1>2, <2>3, <2>4, <2>5, <2>6, DisturbKeeps
<1> QED
  BY <1>3, <1>4

LEMMA PopKeeps ==
  ASSUME DispatchInv, NEW w \in Workers, Pop(w)
  PROVE  DispatchInv'
<1>1. QueueTyped /\ WorkersTyped /\ HistoryTyped
  BY TypedParts DEF DispatchInv
<1>2. PICK g \in Listed : /\ held' = [held EXCEPT ![w] = <<g, ready[g]>>]
                          /\ ready' = [ready EXCEPT ![g] = 0]
  BY DEF Pop
<1>3. /\ pc[w] = "blocking" /\ pc' = [pc EXCEPT ![w] = "popped"]
      /\ Disturb
      /\ UNCHANGED <<fresh, limit, paused, upsets, gz, active, limited, todo>> /\ Loses({})
  BY DEF Pop, At, Others
<1>4. g \in Groups /\ ready[g] \in Jobs /\ ready[g] # 0
  BY <1>1 DEF Listed, QueueTyped
<1>5. w \in Blockers
  BY <1>1, <1>3 DEF WorkersTyped, OnlyBlockers
<1>6. QueueTyped'
  BY <1>1, <1>2, <1>3 DEF QueueTyped
<1>7. /\ held' \in [Workers -> Groups \X (Jobs \cup {0})]
      /\ held'[w][1] = g /\ held'[w][2] # 0
      /\ \A v \in Workers \ {w} : held'[v] = held[v] /\ pc'[v] = pc[v]
      /\ pc'[w] = "popped"
  BY <1>1, <1>2, <1>3, <1>4 DEF WorkersTyped
<1>8. WorkersTyped'
  BY <1>1, <1>3, <1>5, <1>7 DEF WorkersTyped, OnlyBlockers
<1>9. ASSUME NEW h \in Groups
      PROVE  Same(h)
  <2>1. InHands(g)'
    BY <1>5, <1>7 DEF InHands
  <2>2. h # g => ready'[h] = ready[h]
    BY <1>1, <1>2 DEF QueueTyped
  <2> QED
    BY <1>3, <2>1, <2>2 DEF Same
<1>10. ASSUME NEW h \in Groups, InHands(h)
       PROVE  InHands(h)'
  <2>1. PICK v \in Blockers : /\ pc[v] \in {"popped", "refused", "restoring"}
                              /\ held[v][1] = h
    BY <1>10 DEF InHands
  <2>2. v \in Workers /\ v # w
    BY <1>3, <2>1 DEF Workers
  <2> QED
    BY <1>7, <2>1, <2>2 DEF InHands
<1> QED
  BY <1>1, <1>3, <1>6, <1>8, <1>9, <1>10, DisturbKeeps

LEMMA TryPoppedKeeps ==
  ASSUME DispatchInv, NEW w \in Workers, TryPopped(w)
  PROVE  DispatchInv'
<1>1. QueueTyped /\ WorkersTyped /\ HistoryTyped /\ TypeOK
  BY TypedParts DEF DispatchInv, Typed
<1>2. /\ pc[w] = "popped" /\ Disturb
      /\ UNCHANGED <<fresh, limit, paused, upsets, todo>> /\ Loses({})
  BY DEF TryPopped, At, Others
<1>3. PICK g \in Groups : held[w][1] = g
  BY <1>1 DEF WorkersTyped
<1>4. \/ CanTake(g) /\ Take(g) /\ pc' = [pc EXCEPT ![w] = "idle"] /\ Release(w)
      \/ Refuse(g) /\ pc' = [pc EXCEPT ![w] = "refused"] /\ UNCHANGED held
  BY <1>3 DEF TryPopped, At
<1>5. CASE CanTake(g) /\ Take(g) /\ pc' = [pc EXCEPT ![w] = "idle"] /\ Release(w)
  <2>1. /\ gz' \in [Groups -> SUBSET Jobs] /\ active' \in [Groups -> SUBSET Jobs]
        /\ ready' \in [Groups -> Jobs \cup {0}] /\ limited' \subseteq Groups
        /\ \A h \in Groups : Found(h) \/ Same(h)
        /\ Found(g)
    BY <1>1, <1>5, TakeFills
  <2>2. QueueTyped'
    BY <1>1, <1>2, <2>1 DEF QueueTyped
  <2>3. Nothing \in Groups \X (Jobs \cup {0})
    BY Numbers DEF Nothing
  <2>4. held' \in [Workers -> Groups \X (Jobs \cup {0})]
        /\ \A v \in Workers \ {w} : held'[v] = held[v]
    BY <1>1, <1>5, <2>3 DEF WorkersTyped, Release
  <2>5. WorkersTyped'
    BY <1>1, <1>2, <1>5, <2>4 DEF WorkersTyped, OnlyBlockers
  <2>6. ASSUME NEW h \in Groups, InHands(h)
        PROVE  InHands(h)' \/ Found(h)
    <3>1. PICK v \in Blockers : /\ pc[v] \in {"popped", "refused", "restoring"}
                                /\ held[v][1] = h
      BY <2>6 DEF InHands
    <3>2. CASE v = w
      BY <1>3, <2>1, <3>1, <3>2
    <3>3. CASE v # w
      <4>1. held'[v] = held[v] /\ pc'[v] = pc[v]
        BY <1>1, <1>5, <2>4, <3>3 DEF Workers, WorkersTyped
      <4> QED
        BY <3>1, <4>1 DEF InHands
    <3> QED
      BY <3>2, <3>3
  <2> QED
    BY <1>1, <1>2, <2>1, <2>2, <2>5, <2>6, DisturbKeeps
<1>6. CASE Refuse(g) /\ pc' = [pc EXCEPT ![w] = "refused"] /\ UNCHANGED held
  <2>1. /\ ready' \in [Groups -> Jobs \cup {0}] /\ limited' \subseteq Groups
        /\ gz' = gz /\ active' = active
        /\ \A h \in Groups : Found(h) \/ Same(h)
    BY <1>1, <1>6, RefuseParks
  <2>2. QueueTyped'
    BY <1>1, <1>2, <2>1 DEF QueueTyped
  <2>3. WorkersTyped'
    BY <1>1, <1>2, <1>6 DEF WorkersTyped, OnlyBlockers
  <2>4. \A h \in Groups : InHands(h) => InHands(h)'
    BY <1>1, <1>6 DEF InHands, WorkersTyped, Workers
  <2> QED
    BY <1>1, <1>2, <2>1, <2>2, <2>3, <2>4, DisturbKeeps
<1> QED
  BY <1>4, <1>5, <1>6

LEMMA RestoreKeeps ==
  ASSUME DispatchInv, NEW w \in Workers, Restore(w)
  PROVE  DispatchInv'
<1>1. QueueTyped /\ WorkersTyped /\ HistoryTyped
  BY TypedParts DEF DispatchInv
<1>2. /\ pc[w] = "restoring" /\ pc' = [pc EXCEPT ![w] = "idle"] /\ Release(w)
      /\ Disturb
      /\ UNCHANGED <<fresh, limit, paused, upsets, gz, active, limited, todo>> /\ Loses({})
  BY DEF Restore, At, Others
<1>3. PICK g \in Groups : held[w][1] = g
  BY <1>1 DEF WorkersTyped
<1>4. PICK score \in Jobs : held[w][2] = score
  BY <1>1, <1>2 DEF WorkersTyped
<1>5. ready' = [ready EXCEPT ![g] = score] /\ score > 0
  BY <1>3, <1>4, Numbers DEF Restore
<1>6. QueueTyped'
  BY <1>1, <1>2, <1>5 DEF QueueTyped
<1>7. Nothing \in Groups \X (Jobs \cup {0})
  BY Numbers DEF Nothing
<1>8. held' \in [Workers -> Groups \X (Jobs \cup {0})]
      /\ \A v \in Workers \ {w} : held'[v] = held[v] /\ pc'[v] = pc[v]
  BY <1>1, <1>2, <1>7 DEF WorkersTyped, Release
<1>9. WorkersTyped'
  BY <1>1, <1>2, <1>8 DEF WorkersTyped, OnlyBlockers
<1>10. ready'[g] > 0 /\ \A h \in Groups \ {g} : ready'[h] = ready[h]
  BY <1>1, <1>5 DEF QueueTyped
<1>11. ASSUME ~tainted, NEW h \in Groups
       PROVE  Found(h) \/ Same(h)
  <2>1. h \in limited => active[h] # {}
    BY <1>11 DEF DispatchInv, LimitedIsBusy
  <2> QED
    BY <1>2, <1>10, <2>1 DEF Found, Same
<1>12. ASSUME ~tainted, NEW h \in Groups, InHands(h)
       PROVE  InHands(h)' \/ Found(h)
  <2>1. PICK v \in Blockers : /\ pc[v] \in {"popped", "refused", "restoring"}
                              /\ held[v][1] = h
    BY <1>12 DEF InHands
  <2>2. CASE v = w
    <3>1. h = g
      BY <1>3, <2>1, <2>2
    <3>2. h \in limited => active[h] # {}
      BY <1>12 DEF DispatchInv, LimitedIsBusy
    <3> QED
      BY <1>2, <1>10, <3>1, <3>2 DEF Found
  <2>3. CASE v # w
    BY <1>8, <2>1, <2>3 DEF InHands, Workers
  <2> QED
    BY <2>2, <2>3
<1> QED
  BY <1>1, <1>2, <1>6, <1>9, <1>11, <1>12, DisturbKeeps

-----------------------------------------------------------------------------
(* The strategies keep the invariant.                                      *)

\* ZRANGE ready lists a group when there is one.
LEMMA HeadLists ==
  ASSUME TypeOK, Listed # {}, NEW n \in Nat
  PROVE  Head(n) \subseteq Listed /\ Head(n) # {}
<1>1. Listed \subseteq Groups /\ \A g \in Listed : ready[g] \in Nat
  <2>1. ready \in [Groups -> Jobs \cup {0}] /\ Jobs \cup {0} \subseteq Nat
    BY Numbers DEF TypeOK
  <2> QED
    BY <2>1 DEF Listed
<1> DEFINE S == {ready[g] : g \in Listed}
<1>2. S \in SUBSET Nat /\ S # {}
  BY <1>1
<1>3. PICK g \in Listed : \A h \in Listed : ready[g] <= ready[h]
  <2>1. Min(S) \in S /\ \A y \in S : Min(S) <= y
    <3> HIDE DEF S
    <3> QED
      BY <1>2, Lowest
  <2> QED
    BY <2>1
<1>4. {h \in Listed : ready[h] < ready[g]} = {}
  BY <1>1, <1>3
<1>5. Rank(Listed, g) = 0
  BY <1>4, FS_EmptySet DEF Rank
<1>6. CASE n = 0
  BY <1>6 DEF Head
<1>7. CASE n # 0
  <2>1. Rank(Listed, g) < n
    BY <1>5, <1>7
  <2>2. Head(n) = {f \in Listed : Rank(Listed, f) < n}
    BY <1>7 DEF Head
  <2> QED
    BY <1>3, <2>1, <2>2
<1> QED
  BY <1>6, <1>7

\* Each algorithm lists a group when there is one.
LEMMA ListsSome ==
  ASSUME TypeOK, Listed # {}, NEW algorithm \in Algorithms, NEW n \in ListSizes,
         NEW S \in Lists(algorithm, n)
  PROVE  S \subseteq Groups /\ S # {}
<1>1. Listed \subseteq Groups /\ n \in Nat /\ n > 0
  BY Numbers DEF Listed
<1>2. CASE algorithm = "none"
  <2>1. S = Head(n)
    BY <1>2 DEF Lists
  <2> QED
    BY <1>1, <2>1, HeadLists
<1>3. CASE algorithm = "probability"
  <2> DEFINE share == (n * TopPercent) \div 100
             tail  == Head(ScanDepth) \ Head(share)
  <2>1. S \in Sampled(n)
    BY <1>3 DEF Lists
  <2>2. PICK D \in SUBSET tail : S = Head(share) \cup D
    BY <2>1 DEF Sampled, kSubset
  <2>3. share \in Nat
    <3>1. TopPercent \in Nat
      BY Numbers
    <3>2. n * TopPercent \in Nat
      BY <1>1, <3>1
    <3> QED
      BY <3>2
  <2>4. Head(share) \subseteq Listed /\ Head(share) # {}
    <3> HIDE DEF share
    <3> QED
      BY <2>3, HeadLists
  <2>5. Head(ScanDepth) \subseteq Listed
    BY Numbers, HeadLists
  <2> HIDE DEF share
  <2> QED
    BY <1>1, <2>2, <2>4, <2>5
<1>4. CASE algorithm = "virtual-aging"
  <2> DEFINE found == Head(ScanDepth)
             k == Min({n, Cardinality(found)})
  <2>1. found \subseteq Listed /\ found # {}
    BY Numbers, HeadLists
  <2>2. S \in Aged(n)
    BY <1>4 DEF Lists
  <2>3. S \in SUBSET found /\ Cardinality(S) = k
    BY <2>2, Zenon DEF Aged, kSubset
  <2> HIDE DEF found
  <2>4. IsFiniteSet(found)
    BY <1>1, <2>1, Numbers, FS_Subset
  <2>5. Cardinality(found) \in Nat /\ Cardinality(found) # 0
    BY <2>1, <2>4, FS_CardinalityType, FS_EmptySet
  <2>6. {n, Cardinality(found)} \in SUBSET Nat /\ {n, Cardinality(found)} # {}
    BY <1>1, <2>5
  <2>7. k \in {n, Cardinality(found)}
    BY <2>6, Lowest
  <2>8. k # 0
    BY <1>1, <2>5, <2>7
  <2>9. S # {}
    BY <2>3, <2>8, FS_EmptySet
  <2> QED
    BY <1>1, <2>1, <2>3, <2>9
<1> QED
  BY <1>2, <1>3, <1>4 DEF Algorithms

LEMMA ListKeeps ==
  ASSUME DispatchInv, NEW w \in Workers, List(w)
  PROVE  DispatchInv'
<1>1. QueueTyped /\ WorkersTyped /\ HistoryTyped /\ TypeOK
  BY TypedParts DEF DispatchInv, Typed
<1>2. PICK algorithm \in Algorithms, n \in ListSizes :
        \E S \in Lists(algorithm, n) : todo' = [todo EXCEPT ![w] = S]
  BY DEF List
<1>3. PICK S \in Lists(algorithm, n) : todo' = [todo EXCEPT ![w] = S]
  BY <1>2
<1>4. /\ pc[w] = "idle" /\ pc' = [pc EXCEPT ![w] = "trying"] /\ Listed # {}
      /\ Disturb
      /\ UNCHANGED <<fresh, gz, active, limit, ready, limited, paused, held,
                     upsets>> /\ Loses({})
  BY DEF List, At, queue
<1>5. S \subseteq Groups /\ S # {}
  BY <1>1, <1>4, ListsSome
<1>6. QueueTyped'
  BY <1>1, <1>4 DEF QueueTyped
<1>7. WorkersTyped'
  BY <1>1, <1>3, <1>4, <1>5 DEF WorkersTyped, OnlyBlockers
<1>8. \A h \in Groups : Same(h)
  BY <1>4 DEF Same
<1>9. \A h \in Groups : InHands(h) => InHands(h)'
  BY <1>1, <1>4 DEF InHands, WorkersTyped, Workers
<1> QED
  BY <1>1, <1>4, <1>6, <1>7, <1>8, <1>9, DisturbKeeps

LEMMA TryKeeps ==
  ASSUME DispatchInv, NEW w \in Workers, NEW g \in Groups, Try(w, g)
  PROVE  DispatchInv'
<1>1. QueueTyped /\ WorkersTyped /\ HistoryTyped /\ TypeOK
  BY TypedParts DEF DispatchInv, Typed
<1>2. PICK rest \in SUBSET Groups : todo' = [todo EXCEPT ![w] = rest]
  BY <1>1 DEF Try, WorkersTyped
<1>3. /\ pc[w] = "trying" /\ Disturb
      /\ pc' = [pc EXCEPT ![w] = IF todo'[w] = {} THEN "idle" ELSE "trying"]
      /\ UNCHANGED <<fresh, limit, paused, upsets, held>> /\ Loses({})
  BY DEF Try, Others
<1>4. /\ gz' \in [Groups -> SUBSET Jobs] /\ active' \in [Groups -> SUBSET Jobs]
      /\ ready' \in [Groups -> Jobs \cup {0}] /\ limited' \subseteq Groups
      /\ \A h \in Groups : Found(h) \/ Same(h)
  <2>1. CASE CanTake(g) /\ Take(g)
    BY <1>1, <2>1, TakeFills
  <2>2. CASE Refuse(g)
    <3>1. /\ ready' \in [Groups -> Jobs \cup {0}] /\ limited' \subseteq Groups
          /\ gz' = gz /\ active' = active
          /\ \A h \in Groups : Found(h) \/ Same(h)
      BY <1>1, <2>2, RefuseParks
    <3> QED
      BY <1>1, <3>1 DEF QueueTyped
  <2> QED
    BY <2>1, <2>2 DEF Try
<1>5. QueueTyped'
  BY <1>1, <1>3, <1>4 DEF QueueTyped
<1>6. todo'[w] = rest
  BY <1>1, <1>2 DEF WorkersTyped
<1>7. WorkersTyped'
  <2>1. /\ pc'[w] = (IF rest = {} THEN "idle" ELSE "trying")
        /\ \A v \in Workers \ {w} : pc'[v] = pc[v] /\ todo'[v] = todo[v]
    BY <1>1, <1>2, <1>3, <1>6 DEF WorkersTyped
  <2>2. pc' \in [Workers -> {"idle", "blocking", "popped", "refused", "restoring",
                             "trying"}]
        /\ todo' \in [Workers -> SUBSET Groups]
    BY <1>1, <1>2, <1>3 DEF WorkersTyped
  <2> QED
    BY <1>1, <1>3, <1>6, <2>1, <2>2 DEF WorkersTyped, OnlyBlockers
<1>8. \A h \in Groups : InHands(h) => InHands(h)'
  <2>1. \A v \in Workers \ {w} : pc'[v] = pc[v]
    BY <1>1, <1>3 DEF WorkersTyped
  <2> QED
    BY <1>3, <2>1 DEF InHands, Workers
<1> QED
  BY <1>1, <1>3, <1>4, <1>5, <1>7, <1>8, DisturbKeeps

-----------------------------------------------------------------------------
(* rebuildLimitedSet() keeps the invariant.                                *)

\* What the steps of a rebuild leave alone.
LEMMA RebuildLeaves ==
  ASSUME HistoryTyped, WorkersTyped, UNCHANGED <<worker, disturbed, tainted, bounds>>, Loses({}),
         RebuildTyped'
  PROVE  WorkersTyped' /\ HistoryTyped'
BY DEF WorkersTyped, OnlyBlockers, HistoryTyped, worker, bounds, Loses

\* While nothing has run a rebuild has read what is so.
LEMMA ReadsAreTrue ==
  ASSUME DispatchInv, ~disturbed \/ ~tainted, rebuild.step # "off",
         NEW g, g = rebuild.group
  PROVE  /\ g \in Groups /\ ~disturbed
         /\ rebuild.empty = (gz[g] = {}) /\ rebuild.full = Full(g)
         /\ rebuild.step # "counted" /\ gz[g] # {} => rebuild.head = Min(gz[g])
         /\ rebuild.step = "removed" =>
              IF rebuild.empty \/ rebuild.full THEN ready[g] = 0 ELSE g \notin limited
<1>1. ~disturbed
  BY DEF DispatchInv, QuietSoFar, Rebuilding
<1>2. g \in Groups
  BY DEF DispatchInv, Typed, RebuildTyped
<1> QED
  BY <1>1, <1>2 DEF DispatchInv, ReadsHold

\* The parts that all steps of a rebuild keep alike.
LEMMA RebuildKeeps ==
  ASSUME DispatchInv, Rebuilding, QueueTyped', RebuildTyped',
         UNCHANGED <<worker, disturbed, tainted, bounds>>, Loses({}),
         ~tainted => \A h \in Groups : Found(h) \/ Same(h)
  PROVE  Typed' /\ QuietSoFar' /\ LimitedIsBusy' /\ IdleGroupReachable'
<1>1. QueueTyped /\ WorkersTyped /\ HistoryTyped
  BY TypedParts DEF DispatchInv
<1>2. Typed'
  BY <1>1, RebuildLeaves, TypedPartsNext
<1>3. QuietSoFar'
  BY DEF DispatchInv, QuietSoFar
<1>4. \A h \in Groups : InHands(h) => InHands(h)'
  BY HandsStay DEF worker
<1>5. LimitedIsBusy' /\ IdleGroupReachable'
  BY <1>4, ReachKept DEF DispatchInv
<1> QED
  BY <1>2, <1>3, <1>5

\* A step of a rebuild that only reads.
LEMMA LookKeeps ==
  ASSUME DispatchInv, Rebuilding, RebuildTyped',
         UNCHANGED <<queue, worker, disturbed, tainted, bounds>>, Loses({})
  PROVE  Typed' /\ QuietSoFar' /\ LimitedIsBusy' /\ IdleGroupReachable'
<1>1. QueueTyped
  BY TypedParts DEF DispatchInv
<1>2. UNCHANGED <<fresh, gz, active, limit, ready, limited, paused>>
  BY DEF queue
<1>3. QueueTyped' /\ \A h \in Groups : Same(h)
  BY <1>1, <1>2 DEF QueueTyped, Same
<1> QED
  BY <1>3, RebuildKeeps

\* Between two groups nothing is read, and what is typed.
LEMMA BetweenTyped ==
  ASSUME NEW T \in SUBSET Groups
  PROVE  /\ Between(T) \in [step : Steps, todo : SUBSET Groups, group : Groups,
                            empty : BOOLEAN, full : BOOLEAN, head : Jobs \cup {0}]
         /\ Between(T).step = "off" /\ Between(T).todo = T
BY Numbers DEF Between, Nothing, Steps

LEMMA RebuildStartsKeeps ==
  ASSUME DispatchInv, RebuildStarts
  PROVE  DispatchInv'
<1>1. QueueTyped /\ WorkersTyped /\ HistoryTyped
  BY TypedParts DEF DispatchInv
<1>2. /\ rebuilds < MaxRebuilds /\ rebuilds' = rebuilds + 1
      /\ rebuild' = Between(Known) /\ disturbed' = FALSE
      /\ UNCHANGED <<fresh, gz, active, limit, ready, limited, paused>>
      /\ UNCHANGED <<pc, held, todo, lost, tainted, upsets>>
  BY DEF RebuildStarts, queue, worker
<1>3. Known \in SUBSET Groups /\ Known' = Known
  BY <1>2 DEF Known
<1>4. RebuildTyped' /\ rebuild'.step = "off" /\ rebuild'.todo = Known'
  BY <1>2, <1>3, BetweenTyped DEF RebuildTyped
<1>5. QueueTyped' /\ WorkersTyped'
  BY <1>1, <1>2 DEF QueueTyped, WorkersTyped, OnlyBlockers
<1>6. rebuilds' \in 0..MaxRebuilds
  BY <1>1, <1>2, Numbers DEF HistoryTyped
<1>7. Typed'
  <2>1. HistoryTyped'
    BY <1>1, <1>2, <1>4, <1>6 DEF HistoryTyped
  <2> QED
    BY <1>5, <2>1, TypedPartsNext
<1>8. QuietSoFar' /\ ReadsHold' /\ RepairedSoFar'
  BY <1>2, <1>4 DEF QuietSoFar, ReadsHold, RepairedSoFar
<1>9. LimitedIsBusy' /\ IdleGroupReachable'
  BY <1>2 DEF DispatchInv, LimitedIsBusy, IdleGroupReachable
<1> QED
  BY <1>7, <1>8, <1>9 DEF DispatchInv

LEMMA RebuildCountsKeeps ==
  ASSUME DispatchInv, NEW g \in Groups, RebuildCounts(g),
         UNCHANGED <<worker, disturbed, tainted, bounds>>, Loses({})
  PROVE  DispatchInv'
<1>1. /\ rebuild.step = "off" /\ g \in rebuild.todo
      /\ rebuild' = [rebuild EXCEPT !.step = "counted", !.todo = @ \ {g}, !.group = g,
                                    !.empty = (gz[g] = {}), !.full = Full(g)]
      /\ UNCHANGED queue
  BY DEF RebuildCounts
<1>2. UNCHANGED <<gz, active, limit, ready, limited, disturbed, rebuilds>>
  BY <1>1 DEF queue, bounds
<1>3. RebuildTyped
  BY DEF DispatchInv, Typed
<1>4. Full(g) \in BOOLEAN
  BY DEF Full
<1>5. /\ RebuildTyped' /\ rebuild'.step = "counted" /\ rebuild'.group = g
      /\ rebuild'.todo = rebuild.todo \ {g}
      /\ rebuild'.empty = (gz[g] = {}) /\ rebuild'.full = Full(g)
  BY <1>1, <1>3, <1>4 DEF RebuildTyped, Steps
<1>6. Rebuilding
  BY <1>1 DEF Rebuilding
<1>7. Typed' /\ QuietSoFar' /\ LimitedIsBusy' /\ IdleGroupReachable'
  BY <1>1, <1>5, <1>6, LookKeeps
<1>8. ReadsHold'
  BY <1>2, <1>5 DEF ReadsHold, Full
<1>9. RepairedSoFar'
  <2>1. Known' = Known /\ \A h \in Groups : Placed(h) => Placed(h)'
    BY <1>2 DEF Known, Placed, Full
  <2> QED
    BY <1>1, <1>2, <1>5, <2>1 DEF DispatchInv, RepairedSoFar, Known
<1> QED
  BY <1>7, <1>8, <1>9 DEF DispatchInv

LEMMA RebuildHeadKeeps ==
  ASSUME DispatchInv, NEW g, g = rebuild.group, RebuildHead(g),
         UNCHANGED <<worker, disturbed, tainted, bounds>>, Loses({})
  PROVE  DispatchInv'
<1> DEFINE head == IF gz[g] = {} THEN 0 ELSE Min(gz[g])
<1>1. /\ rebuild.step = "counted" /\ UNCHANGED queue
      /\ rebuild' = [rebuild EXCEPT !.step = "headed", !.head = head]
  BY DEF RebuildHead
<1>2. UNCHANGED <<gz, active, limit, ready, limited, disturbed, rebuilds>>
  BY <1>1 DEF queue, bounds
<1>3. RebuildTyped /\ g \in Groups /\ QueueTyped
  BY TypedParts DEF DispatchInv, Typed, RebuildTyped
<1>4. head \in Jobs \cup {0}
  BY <1>3, HeadIsJob DEF QueueTyped
<1>5. gz[g] # {} => head = Min(gz[g])
  OBVIOUS
<1> HIDE DEF head
<1>6. /\ RebuildTyped' /\ rebuild'.step = "headed" /\ rebuild'.group = g
      /\ rebuild'.todo = rebuild.todo /\ rebuild'.head = head
      /\ rebuild'.empty = rebuild.empty /\ rebuild'.full = rebuild.full
  BY <1>1, <1>3, <1>4 DEF RebuildTyped, Steps
<1>7. Rebuilding
  BY <1>1 DEF Rebuilding
<1>8. Typed' /\ QuietSoFar' /\ LimitedIsBusy' /\ IdleGroupReachable'
  BY <1>1, <1>6, <1>7, LookKeeps
<1>9. ReadsHold'
  <2>1. ~disturbed => rebuild.empty = (gz[g] = {}) /\ rebuild.full = Full(g)
    BY <1>1, ReadsAreTrue
  <2> QED
    BY <1>2, <1>5, <1>6, <2>1 DEF ReadsHold, Full
<1>10. RepairedSoFar'
  <2>1. Known' = Known /\ \A h \in Groups : Placed(h) => Placed(h)'
    BY <1>2 DEF Known, Placed, Full
  <2> QED
    BY <1>1, <1>2, <1>6, <2>1 DEF DispatchInv, RepairedSoFar, Known
<1> QED
  BY <1>8, <1>9, <1>10 DEF DispatchInv

LEMMA RebuildChecksKeeps ==
  ASSUME DispatchInv, NEW g, g = rebuild.group, RebuildChecks(g),
         UNCHANGED <<worker, disturbed, tainted, bounds>>, Loses({})
  PROVE  DispatchInv'
<1>1. rebuild.step = "headed" /\ UNCHANGED queue
  BY DEF RebuildChecks
<1>2. UNCHANGED <<gz, active, limit, ready, limited, disturbed, rebuilds>>
  BY <1>1 DEF queue, bounds
<1>3. RebuildTyped /\ g \in Groups /\ QueueTyped
  BY TypedParts DEF DispatchInv, Typed, RebuildTyped
<1>4. ~disturbed =>
        /\ rebuild.empty = (gz[g] = {}) /\ rebuild.full = Full(g)
        /\ gz[g] # {} => rebuild.head = Min(gz[g])
  BY <1>1, ReadsAreTrue
<1>5. Known' = Known /\ \A h \in Groups : Placed(h) => Placed(h)'
  BY <1>2 DEF Known, Placed, Full
<1>6. Rebuilding
  BY <1>1 DEF Rebuilding
<1>7. CASE rebuild.empty \/ (rebuild.head # 0 /\ Misplaced(g))
  <2>1. rebuild' = [rebuild EXCEPT !.step = "checked"]
    BY <1>7 DEF RebuildChecks
  <2>2. /\ RebuildTyped' /\ rebuild'.step = "checked" /\ rebuild'.group = g
        /\ rebuild'.todo = rebuild.todo /\ rebuild'.head = rebuild.head
        /\ rebuild'.empty = rebuild.empty /\ rebuild'.full = rebuild.full
    BY <1>3, <2>1 DEF RebuildTyped, Steps
  <2>3. Typed' /\ QuietSoFar' /\ LimitedIsBusy' /\ IdleGroupReachable'
    BY <1>1, <1>6, <2>2, LookKeeps
  <2>4. ReadsHold'
    BY <1>2, <1>4, <2>2 DEF ReadsHold, Full
  <2>5. RepairedSoFar'
    BY <1>1, <1>2, <1>5, <2>2 DEF DispatchInv, RepairedSoFar, Known
  <2> QED
    BY <2>3, <2>4, <2>5 DEF DispatchInv
<1>8. CASE ~(rebuild.empty \/ (rebuild.head # 0 /\ Misplaced(g)))
  <2>1. rebuild' = Between(rebuild.todo) /\ rebuild.todo \in SUBSET Groups
    BY <1>3, <1>8 DEF RebuildChecks, RebuildTyped
  <2>2. RebuildTyped' /\ rebuild'.step = "off" /\ rebuild'.todo = rebuild.todo
    BY <2>1, BetweenTyped DEF RebuildTyped
  <2>3. Typed' /\ QuietSoFar' /\ LimitedIsBusy' /\ IdleGroupReachable'
    BY <1>1, <1>6, <2>2, LookKeeps
  <2>4. ReadsHold'
    BY <2>2 DEF ReadsHold
  <2>5. ~disturbed => Placed(g)
    <3> SUFFICES ASSUME ~disturbed PROVE Placed(g)
      OBVIOUS
    <3>1. gz[g] # {} /\ rebuild.full = Full(g)
      BY <1>4, <1>8
    <3>2. rebuild.head # 0
      BY <1>3, <1>4, <3>1, HeadIsJob DEF QueueTyped
    <3>3. ready[g] \in Nat
      <4>1. ready[g] \in Jobs \cup {0}
        BY <1>3 DEF QueueTyped
      <4>2. \A x \in Jobs \cup {0} : x \in Nat
        BY Numbers
      <4> QED
        BY <4>1, <4>2, Zenon
    <3>4. ~Misplaced(g)
      BY <1>8, <3>2
    <3>5. CASE Full(g)
      <4>1. ~(ready[g] > 0) /\ g \in limited
        BY <3>1, <3>4, <3>5 DEF Misplaced
      <4> QED
        BY <3>1, <3>3, <3>5, <4>1 DEF Placed
    <3>6. CASE ~Full(g)
      <4>1. ready[g] # 0 /\ g \notin limited
        BY <3>1, <3>4, <3>6 DEF Misplaced
      <4> QED
        BY <3>3, <3>6, <4>1 DEF Placed
    <3> QED
      BY <3>5, <3>6
  <2>6. RepairedSoFar'
    BY <1>2, <1>5, <2>2, <2>5 DEF DispatchInv, RepairedSoFar, Known
  <2> QED
    BY <2>3, <2>4, <2>6 DEF DispatchInv
<1> QED
  BY <1>7, <1>8

LEMMA RebuildRemovesKeeps ==
  ASSUME DispatchInv, NEW g, g = rebuild.group, RebuildRemoves(g),
         UNCHANGED <<worker, disturbed, tainted, bounds>>, Loses({})
  PROVE  DispatchInv'
<1>1. /\ rebuild.step = "checked" /\ rebuild' = [rebuild EXCEPT !.step = "removed"]
      /\ IF rebuild.empty \/ rebuild.full
         THEN ready' = [ready EXCEPT ![g] = 0] /\ UNCHANGED limited
         ELSE limited' = limited \ {g} /\ UNCHANGED ready
      /\ UNCHANGED <<fresh, gz, active, limit, paused, disturbed, tainted, rebuilds>>
  BY DEF RebuildRemoves, bounds
<1>2. RebuildTyped /\ g \in Groups /\ QueueTyped /\ TypeOK
  BY TypedParts DEF DispatchInv, Typed, RebuildTyped
<1>3. /\ RebuildTyped' /\ rebuild'.step = "removed" /\ rebuild'.group = g
      /\ rebuild'.todo = rebuild.todo /\ rebuild'.head = rebuild.head
      /\ rebuild'.empty = rebuild.empty /\ rebuild'.full = rebuild.full
  BY <1>1, <1>2 DEF RebuildTyped, Steps
<1>4. ~disturbed \/ ~tainted =>
        /\ ~disturbed
        /\ rebuild.empty = (gz[g] = {}) /\ rebuild.full = Full(g)
        /\ gz[g] # {} => rebuild.head = Min(gz[g])
  BY <1>1, ReadsAreTrue
<1>5. /\ QueueTyped'
      /\ IF rebuild.empty \/ rebuild.full THEN ready'[g] = 0 /\ limited' = limited
         ELSE g \notin limited'
      /\ \A h \in Groups : h \in limited' => h \in limited
      /\ ~(rebuild.empty \/ rebuild.full) => ready' = ready
      /\ \A h \in Groups \ {g} :
           ready'[h] = ready[h] /\ (h \in limited' <=> h \in limited)
  <2>1. CASE rebuild.empty \/ rebuild.full
    BY <1>1, <1>2, <2>1 DEF QueueTyped
  <2>2. CASE ~(rebuild.empty \/ rebuild.full)
    BY <1>1, <1>2, <2>2 DEF QueueTyped
  <2> QED
    BY <2>1, <2>2
<1>6. ASSUME ~tainted, NEW h \in Groups
      PROVE  Found(h) \/ Same(h)
  <2>1. h \in limited => active[h] # {}
    BY <1>6 DEF DispatchInv, LimitedIsBusy
  <2>2. CASE h = g /\ rebuild.full
    <3>1. active[g] # {}
      BY <1>2, <1>4, <1>6, <2>2, IdleHasRoom
    <3> QED
      BY <1>1, <2>2, <3>1 DEF Found
  <2>3. CASE h = g /\ rebuild.empty
    BY <1>1, <1>4, <1>5, <1>6, <2>1, <2>3 DEF Found
  <2>4. CASE h # g \/ ~(rebuild.empty \/ rebuild.full)
    BY <1>1, <1>5, <2>4 DEF Same
  <2> QED
    BY <2>2, <2>3, <2>4
<1>7. Rebuilding
  BY <1>1 DEF Rebuilding
<1>8. Typed' /\ QuietSoFar' /\ LimitedIsBusy' /\ IdleGroupReachable'
  BY <1>3, <1>5, <1>6, <1>7, RebuildKeeps
<1>9. Full(g)' = Full(g)
  BY <1>1 DEF Full
<1>10. ReadsHold'
  BY <1>1, <1>3, <1>4, <1>5, <1>9 DEF ReadsHold, Full
<1>11. RepairedSoFar'
  <2>1. Known' = Known /\ \A h \in Groups \ {g} : Placed(h) => Placed(h)'
    BY <1>1, <1>5 DEF Known, Placed, Full
  <2> QED
    BY <1>1, <1>3, <2>1 DEF DispatchInv, RepairedSoFar, Known
<1> QED
  BY <1>8, <1>10, <1>11 DEF DispatchInv

LEMMA RebuildAddsKeeps ==
  ASSUME DispatchInv, NEW g, g = rebuild.group, RebuildAdds(g),
         UNCHANGED <<worker, disturbed, tainted, bounds>>, Loses({})
  PROVE  DispatchInv'
<1>1. /\ rebuild.step = "removed" /\ rebuild' = Between(rebuild.todo)
      /\ IF rebuild.empty THEN limited' = limited \ {g} /\ UNCHANGED ready
         ELSE IF rebuild.full THEN limited' = limited \cup {g} /\ UNCHANGED ready
         ELSE ready' = [ready EXCEPT ![g] = rebuild.head] /\ UNCHANGED limited
      /\ UNCHANGED <<fresh, gz, active, limit, paused, disturbed, tainted, rebuilds>>
  BY DEF RebuildAdds, bounds
<1>2. /\ RebuildTyped /\ g \in Groups /\ QueueTyped /\ TypeOK
      /\ rebuild.todo \in SUBSET Groups /\ rebuild.head \in Jobs \cup {0}
  BY TypedParts DEF DispatchInv, Typed, RebuildTyped
<1>3. RebuildTyped' /\ rebuild'.step = "off" /\ rebuild'.todo = rebuild.todo
  BY <1>1, <1>2, BetweenTyped DEF RebuildTyped
<1>4. ~disturbed \/ ~tainted =>
        /\ ~disturbed
        /\ rebuild.empty = (gz[g] = {}) /\ rebuild.full = Full(g)
        /\ gz[g] # {} => rebuild.head = Min(gz[g])
        /\ IF rebuild.empty \/ rebuild.full THEN ready[g] = 0 ELSE g \notin limited
  BY <1>1, ReadsAreTrue
<1>5. ASSUME rebuild.empty \/ rebuild.full
      PROVE  /\ QueueTyped' /\ (~tainted => \A h \in Groups : Found(h) \/ Same(h))
             /\ ~disturbed => Placed(g)'
             /\ \A h \in Groups \ {g} : Placed(h) => Placed(h)'
  <2>1. /\ ready' = ready /\ limited' \subseteq Groups
        /\ \A h \in Groups \ {g} : h \in limited' <=> h \in limited
        /\ g \in limited' <=> ~rebuild.empty
    BY <1>1, <1>2, <1>5 DEF QueueTyped
  <2>2. QueueTyped'
    BY <1>1, <1>2, <2>1 DEF QueueTyped
  <2>3. ASSUME ~tainted, NEW h \in Groups
        PROVE  Found(h) \/ Same(h)
    <3>1. CASE h = g /\ ~rebuild.empty
      <4>1. active[g] # {}
        BY <1>2, <1>4, <1>5, <2>3, <3>1, IdleHasRoom
      <4> QED
        BY <1>1, <3>1, <4>1 DEF Found
    <3>2. CASE h # g \/ rebuild.empty
      BY <1>1, <2>1, <3>2 DEF Same
    <3> QED
      BY <3>1, <3>2
  <2>4. ~disturbed => Placed(g)'
    <3>1. Full(g)' = Full(g)
      BY <1>1 DEF Full
    <3> QED
      BY <1>1, <1>4, <1>5, <2>1, <3>1 DEF Placed, Full
  <2>5. \A h \in Groups \ {g} : Placed(h) => Placed(h)'
    BY <1>1, <2>1 DEF Placed, Full
  <2> QED
    BY <2>2, <2>3, <2>4, <2>5
<1>6. ASSUME ~(rebuild.empty \/ rebuild.full)
      PROVE  /\ QueueTyped' /\ (~tainted => \A h \in Groups : Found(h) \/ Same(h))
             /\ ~disturbed => Placed(g)'
             /\ \A h \in Groups \ {g} : Placed(h) => Placed(h)'
  <2>1. /\ limited' = limited /\ ready' = [ready EXCEPT ![g] = rebuild.head]
    BY <1>1, <1>6
  <2>2. QueueTyped'
    BY <1>1, <1>2, <2>1 DEF QueueTyped
  <2>3. ready'[g] = rebuild.head /\ \A h \in Groups \ {g} : ready'[h] = ready[h]
    BY <1>2, <2>1 DEF QueueTyped
  <2>4. ~disturbed \/ ~tainted => ready'[g] > 0
    <3>1. gz[g] # {} => Min(gz[g]) > 0
      BY <1>2, HeadIsJob DEF QueueTyped
    <3> QED
      BY <1>4, <1>6, <2>3, <3>1
  <2>5. ASSUME ~tainted, NEW h \in Groups
        PROVE  Found(h) \/ Same(h)
    <3>1. h \in limited => active[h] # {}
      BY <2>5 DEF DispatchInv, LimitedIsBusy
    <3> QED
      BY <1>1, <2>1, <2>3, <2>4, <2>5, <3>1 DEF Found, Same
  <2>6. ~disturbed => Placed(g)'
    <3>1. Full(g)' = Full(g)
      BY <1>1 DEF Full
    <3>2. ~disturbed => g \notin limited' /\ ~Full(g)' /\ ready'[g] > 0
      BY <1>4, <1>6, <2>1, <2>4, <3>1
    <3> QED
      BY <3>2 DEF Placed, Full
  <2>7. \A h \in Groups \ {g} : Placed(h) => Placed(h)'
    BY <1>1, <2>1, <2>3 DEF Placed, Full
  <2> QED
    BY <2>2, <2>5, <2>6, <2>7
<1>7. /\ QueueTyped' /\ (~tainted => \A h \in Groups : Found(h) \/ Same(h))
      /\ ~disturbed => Placed(g)'
      /\ \A h \in Groups \ {g} : Placed(h) => Placed(h)'
  BY <1>5, <1>6
<1>8. Rebuilding
  BY <1>1 DEF Rebuilding
<1>9. Typed' /\ QuietSoFar' /\ LimitedIsBusy' /\ IdleGroupReachable'
  BY <1>3, <1>7, <1>8, RebuildKeeps
<1>10. ReadsHold'
  BY <1>3 DEF ReadsHold
<1>11. RepairedSoFar'
  <2>1. Known' = Known /\ Known \subseteq Groups
    BY <1>1 DEF Known
  <2> QED
    BY <1>1, <1>3, <1>7, <2>1 DEF DispatchInv, RepairedSoFar
<1> QED
  BY <1>9, <1>10, <1>11 DEF DispatchInv

-----------------------------------------------------------------------------
(* The theorems.                                                           *)

\* At the start nothing waits and nothing was read.
LEMMA InitHolds == Init => DispatchInv
<1> SUFFICES ASSUME Init
             PROVE  DispatchInv
  OBVIOUS
<1>1. /\ fresh = Jobs /\ paused = FALSE
      /\ gz = [g \in Groups |-> {}] /\ active = [g \in Groups |-> {}]
      /\ limit = [g \in Groups |-> 1]
      /\ ready = [g \in Groups |-> 0] /\ limited = {}
      /\ pc = [w \in Workers |-> "idle"]
      /\ held = [w \in Workers |-> Nothing]
      /\ todo = [w \in Workers |-> {}]
      /\ rebuild = Between({})
      /\ lost = {} /\ disturbed = FALSE /\ tainted = FALSE
      /\ upsets = 0 /\ rebuilds = 0
  BY DEF Init
<1>2. RebuildTyped /\ rebuild.step = "off" /\ rebuild.todo = {}
  BY <1>1, BetweenTyped DEF RebuildTyped
<1>3. Nothing \in Groups \X (Jobs \cup {0})
  BY Numbers DEF Nothing
<1>4. QueueTyped
  BY <1>1, Numbers DEF QueueTyped
<1>5. WorkersTyped
  BY <1>1, <1>3 DEF WorkersTyped, OnlyBlockers
<1>6. HistoryTyped
  <2>1. 0 \in 0..MaxUpsets /\ 0 \in 0..MaxRebuilds
    BY Numbers
  <2> QED
    BY <1>1, <1>2, <2>1 DEF HistoryTyped
<1>7. QuietSoFar /\ ReadsHold /\ RepairedSoFar
  BY <1>1, <1>2 DEF QuietSoFar, ReadsHold, RepairedSoFar
<1>8. LimitedIsBusy /\ IdleGroupReachable
  BY <1>1 DEF LimitedIsBusy, IdleGroupReachable
<1> QED
  BY <1>4, <1>5, <1>6, <1>7, <1>8, TypedParts DEF DispatchInv

\* A step that changes nothing keeps the invariant.
LEMMA StutterKeeps ==
  ASSUME DispatchInv, UNCHANGED vars
  PROVE  DispatchInv'
<1>1. UNCHANGED <<fresh, gz, active, limit, ready, limited, paused>>
      /\ UNCHANGED <<pc, held, todo, rebuild, lost, disturbed, tainted, upsets, rebuilds>>
  BY DEF vars, queue, worker, bounds
<1>2. QueueTyped' /\ WorkersTyped' /\ HistoryTyped'
  BY <1>1, TypedParts DEF DispatchInv, QueueTyped, WorkersTyped, OnlyBlockers,
                          HistoryTyped, RebuildTyped
<1>3. QuietSoFar' /\ ReadsHold' /\ LimitedIsBusy' /\ IdleGroupReachable'
  BY <1>1 DEF DispatchInv, QuietSoFar, Rebuilding, ReadsHold, Full, LimitedIsBusy,
              IdleGroupReachable
<1>4. RepairedSoFar'
  BY <1>1 DEF DispatchInv, RepairedSoFar, Known, Placed, Full
<1> QED
  BY <1>2, <1>3, <1>4, TypedPartsNext DEF DispatchInv

\* Every step keeps the invariant.
LEMMA StepKeeps == DispatchInv /\ [Next]_vars => DispatchInv'
<1> SUFFICES ASSUME DispatchInv, [Next]_vars
             PROVE  DispatchInv'
  OBVIOUS
<1>1. CASE \E j \in Jobs : Add(j) \/ Finish(j)
  BY <1>1, AddKeeps, FinishKeeps
<1>2. CASE \E S \in kSubset(2, fresh) : AddBatch(S)
  BY <1>2, AddBatchKeeps
<1>3. CASE \E g \in Groups, n \in Limits : SetConfig(g, n)
  BY <1>3, SetConfigKeeps
<1>4. CASE Pause \/ Reserve \/ RebuildStarts
  BY <1>4, PauseKeeps, ReserveKeeps, RebuildStartsKeeps
<1>5. CASE RebuildSteps
  <2>1. UNCHANGED <<worker, disturbed, tainted, bounds>> /\ Loses({})
    BY <1>5 DEF RebuildSteps
  <2>2. CASE \E g \in Groups : RebuildCounts(g)
    BY <2>1, <2>2, RebuildCountsKeeps
  <2>3. ASSUME NEW g, g = rebuild.group,
               \/ RebuildHead(g) \/ RebuildChecks(g) \/ RebuildRemoves(g)
               \/ RebuildAdds(g)
        PROVE  DispatchInv'
    BY <2>1, <2>3, RebuildHeadKeeps, RebuildChecksKeeps, RebuildRemovesKeeps,
       RebuildAddsKeeps
  <2> QED
    BY <1>5, <2>2, <2>3 DEF RebuildSteps
<1>6. ASSUME NEW w \in Workers, Blocking(w) \/ Crash(w)
      PROVE  DispatchInv'
  BY <1>6, BlockKeeps, PopKeeps, PopTimesOutKeeps, TryPoppedKeeps, CountKeeps,
     RestoreKeeps, CrashKeeps DEF Blocking
<1>7. ASSUME NEW w \in Workers, Strategy(w)
      PROVE  DispatchInv'
  BY <1>7, ListKeeps, TryKeeps DEF Strategy
<1>8. CASE UNCHANGED vars
  BY <1>8, StutterKeeps
<1> QED
  BY <1>1, <1>2, <1>3, <1>4, <1>5, <1>6, <1>7, <1>8 DEF Next

\* DispatchInv is inductive: it holds at the start and every step keeps it.
THEOREM Inductive == Spec => []DispatchInv
<1> QED
  BY InitHolds, StepKeeps, PTL DEF Spec

\* Every variable has its type, and a strategy tries until its list is through.
THEOREM TypeCorrect == Spec => []TypeOK
<1>1. DispatchInv => TypeOK
  BY DEF DispatchInv, Typed
<1> QED
  BY <1>1, Inductive, PTL

\* A group with waiting jobs and nothing active is in ready or in the hands of a
\* worker that will take from it or put it back, unless a worker died with it,
\* reserve() removed it by the rank of another group, or a rebuild was disturbed:
\* for all numbers of groups and workers, all lengths of reserve()'s scan, all
\* orders of the calls of reserveBlocking, the strategies and rebuildLimitedSet.
THEOREM IdleGroupReachableHolds == Spec => []IdleGroupReachable
<1>1. DispatchInv => IdleGroupReachable
  BY DEF DispatchInv
<1> QED
  BY <1>1, Inductive, PTL

\* After a rebuildLimitedSet that nothing disturbed the sets ready and limited are
\* as the jobs and limits say, whatever they were before.
THEOREM RebuildRepairsHolds == Spec => []RebuildRepairs
<1>1. DispatchInv => RebuildRepairs
  <2> SUFFICES ASSUME DispatchInv, rebuilds > 0, ~Rebuilding, ~disturbed
               PROVE  /\ Missing = {} /\ Invalid \cap Known = {}
                      /\ \A g \in Groups : gz[g] # {} /\ ~Full(g) => ready[g] > 0
    BY DEF RebuildRepairs
  <2>1. rebuild.step = "off" /\ rebuild.todo = {}
    BY DEF Rebuilding
  <2>2. \A g \in Known : Placed(g)
    BY <2>1 DEF DispatchInv, RepairedSoFar
  <2>4. Missing = {}
    BY <2>2 DEF Missing, Known, Placed
  <2>5. Invalid \cap Known = {}
    <3>1. \A g \in Known : g \in limited => gz[g] # {} /\ Full(g) /\ ~(ready[g] > 0)
      BY <2>2 DEF Placed
    <3> QED
      BY <3>1 DEF Invalid
  <2>6. \A g \in Groups : gz[g] # {} /\ ~Full(g) => ready[g] > 0
    BY <2>2 DEF Placed, Known
  <2> QED
    BY <2>4, <2>5, <2>6
<1> QED
  BY <1>1, Inductive, PTL
=============================================================================
