-------------------------- MODULE GroupQueueProofs --------------------------
(***************************************************************************)
(* The safety of the group queue for every number of jobs, groups, slots,  *)
(* every limit and every setting. First types, one place per job, the      *)
(* outcome of each job and a counter that covers the live jobs, as one     *)
(* inductive invariant; then what rests on it: that the active lists and   *)
(* the locks agree, that a group is served in order and within its limit,  *)
(* that the queue implements GroupFifo, and that the dispatch index is in  *)
(* order. One lemma per action says that the action keeps each part.       *)
(***************************************************************************)
EXTENDS GroupQueueFifo, TLAPS, FiniteSetTheorems, WellFoundedInduction

-----------------------------------------------------------------------------
(* Helpers: heads of sorted sets and LREM.                                 *)

\* ZRANGE 0 0 of a non-empty set answers a member with the lowest score.
LEMMA HasHead ==
  ASSUME NEW S \in SUBSET Jobs, S # {}
  PROVE  /\ Head1(S) \in S
         /\ \A i \in S : Score[Head1(S)] <= Score[i]
<1> DEFINE T == {Score[i] : i \in S}
<1>1. T \subseteq Nat /\ T # {}
  BY ConstantsAssumption
<1>2. PICK n \in T : \A m \in T : n <= m
  <2>1. PICK n \in T : \A m \in T : <<m, n>> \notin OpToRel(<, Nat)
    BY <1>1, NatLessThanWellFounded, WFMin
  <2>2. \A m \in T : ~(m < n)
    BY <2>1, <1>1 DEF OpToRel
  <2>3. \A m \in T : n <= m
    <3> HIDE DEF T
    <3> QED
      BY <2>2, <1>1
  <2> QED
    BY <2>3
<1>3. \E j \in S : \A i \in S : Score[j] <= Score[i]
  BY <1>2
<1> QED
  BY <1>3 DEF Head1

\* LREM copies every kept position of the list once: the CHOOSE in Without finds, for
\* every n up to the number of kept positions, the n-th of them.
LEMMA WithoutPicks ==
  ASSUME NEW s \in Seq(Jobs), NEW S
  PROVE  \E N \in Nat : \E f \in Bijection(1..N, {i \in DOMAIN s : s[i] \notin S}) :
           Without(s, S) = [n \in 1..N |-> s[f[n]]]
<1> DEFINE kept   == {i \in DOMAIN s : s[i] \notin S}
           upto(i) == {m \in kept : m <= i}
           N      == Cardinality(kept)
           rank   == [i \in kept |-> Cardinality(upto(i))]
<1>1. kept \subseteq 1..Len(s) /\ IsFiniteSet(kept) /\ N \in Nat
  <2>1. kept \subseteq 1..Len(s) /\ Len(s) \in Nat
    OBVIOUS
  <2>2. IsFiniteSet(1..Len(s))
    BY <2>1, FS_Interval
  <2>3. IsFiniteSet(kept)
    BY <2>1, <2>2, FS_Subset
  <2> QED
    BY <2>1, <2>3, FS_CardinalityType
<1>2. \A i \in kept : IsFiniteSet(upto(i)) /\ rank[i] \in 1..N
  <2> TAKE i \in kept
  <2>1. IsFiniteSet(upto(i)) /\ Cardinality(upto(i)) <= N
    BY <1>1, FS_Subset
  <2>2. Cardinality(upto(i)) \in Nat /\ Cardinality(upto(i)) # 0
    <3>1. i \in upto(i)
      BY <1>1
    <3> HIDE DEF upto
    <3> QED
      BY <2>1, <3>1, FS_CardinalityType, FS_EmptySet
  <2> HIDE DEF upto, kept
  <2> QED
    BY <2>1, <2>2, <1>1
<1>3. ASSUME NEW i \in kept, NEW k \in kept, i < k
      PROVE  rank[i] # rank[k]
  <2>1. upto(i) \in SUBSET upto(k) /\ k \in upto(k) /\ k \notin upto(i)
    BY <1>1, <1>3
  <2>2. IsFiniteSet(upto(k))
    BY <1>2
  <2> HIDE DEF upto, kept
  <2> QED
    BY <2>1, <2>2, FS_Subset
<1>4. rank \in Injection(kept, 1..N)
  <2>1. rank \in [kept -> 1..N]
    BY <1>2
  <2>2. ASSUME NEW i \in kept, NEW k \in kept, rank[i] = rank[k]
        PROVE  i = k
    BY <1>1, <1>3, <2>2
  <2> HIDE DEF rank, kept
  <2> QED
    BY <2>1, <2>2 DEF Injection, IsInjective
<1>5. rank \in Surjection(kept, 1..N)
  <2> HIDE DEF rank, kept
  <2>1. IsFiniteSet(1..N) /\ Cardinality(1..N) = N
    BY <1>1, FS_Interval
  <2> QED
    BY <1>4, <2>1, FS_Injection DEF N
<1>6. \A n \in 1..N : \E i \in kept : Cardinality(upto(i)) = n
  BY <1>5 DEF Surjection
<1> DEFINE nth(n) == CHOOSE i \in kept : Cardinality({m \in kept : m <= i}) = n
           f      == [n \in 1..N |-> nth(n)]
<1>7. \A n \in 1..N : nth(n) \in kept /\ rank[nth(n)] = n
  BY <1>6
<1>8. Without(s, S) = [n \in 1..N |-> s[f[n]]]
  BY DEF Without
<1>9. f \in Bijection(1..N, kept)
  <2>1. f \in [1..N -> kept]
    BY <1>7
  <2>2. \A m, n \in 1..N : f[m] = f[n] => m = n
    BY <1>7
  <2>3. \A i \in kept : rank[i] \in 1..N /\ f[rank[i]] = i
    <3> TAKE i \in kept
    <3> HIDE DEF nth, kept, rank
    <3>1. rank[i] \in 1..N
      BY <1>4 DEF Injection
    <3>2. nth(rank[i]) \in kept /\ rank[nth(rank[i])] = rank[i]
      BY <1>7, <3>1
    <3>3. nth(rank[i]) = i
      BY <1>4, <3>2 DEF Injection, IsInjective
    <3> QED
      BY <3>1, <3>3
  <2> HIDE DEF f, kept, rank
  <2>4. \A i \in kept : \E n \in 1..N : f[n] = i
    BY <2>3
  <2> QED
    BY <2>1, <2>2, <2>4 DEF Bijection, Injection, IsInjective, Surjection
<1> HIDE DEF f, N
<1> QED
  BY <1>1, <1>8, <1>9

\* So it leaves a list of jobs.
LEMMA WithoutType ==
  ASSUME NEW s \in Seq(Jobs), NEW S
  PROVE  Without(s, S) \in Seq(Jobs)
<1> DEFINE kept == {i \in DOMAIN s : s[i] \notin S}
<1>1. PICK N \in Nat : \E f \in Bijection(1..N, kept) :
        Without(s, S) = [n \in 1..N |-> s[f[n]]]
  BY WithoutPicks
<1>2. PICK f \in Bijection(1..N, kept) : Without(s, S) = [n \in 1..N |-> s[f[n]]]
  BY <1>1
<1>3. \A n \in 1..N : s[f[n]] \in Jobs
  BY <1>2 DEF Bijection, Injection
<1> HIDE DEF kept
<1> QED
  BY <1>2, <1>3

-----------------------------------------------------------------------------
(* The inductive invariant and what keeps its parts.                       *)

\* The score a group enters ready with is positive, so 0 stays free for "absent".
LEMMA HeadScoreType ==
  ASSUME NEW S \in SUBSET Jobs, S # {}
  PROVE  Head1(S) \in S /\ HeadScore(S) \in Nat \ {0}
BY HasHead, ConstantsAssumption DEF HeadScore

\* A slot that has recorded the final failure of its job and still has the lock sees a
\* job that no other script changes: the first call of deadLetterJob is not undone
\* before the second.
RecordedIsFinal ==
  \A w \in Slots :
    stage[w] = "recorded" /\ hold[w] # None /\ Owns(w, hold[w])
      => status[hold[w]] \in {"failed", "gone"}

\* The inductive invariant. OnePlace and CountCoversLive need each other (the group is
\* emptied by the counter) and RecordedIsFinal (dead-letter.lua trusts the first call).
Inv == TypeOK /\ OnePlace /\ CountCoversLive /\ RecordedIsFinal

\* RecordedIsFinal survives a step in which no slot becomes "recorded" and no job that
\* a recorded slot holds the lock of changes its status.
LEMMA RecordedKept ==
  ASSUME Inv,
         \A w \in Slots : \/ stage'[w] # "recorded"
                          \/ hold'[w] = None
                          \/ stage[w] = "recorded" /\ hold'[w] = hold[w],
         \A w \in Slots : \A j \in Jobs :
           lock'[j] = w /\ stage'[w] = "recorded"
             => lock[j] = w /\ status'[j] = status[j]
  PROVE  RecordedIsFinal'
<1> SUFFICES ASSUME NEW w \in Slots, stage'[w] = "recorded", hold'[w] # None,
                    lock'[hold'[w]] = w
             PROVE  status'[hold'[w]] \in {"failed", "gone"}
  BY DEF RecordedIsFinal, Owns
<1>1. stage[w] = "recorded" /\ hold'[w] = hold[w] /\ hold[w] \in Jobs
  BY DEF Inv, TypeOK
<1>2. lock[hold[w]] = w /\ status'[hold[w]] = status[hold[w]]
  BY <1>1
<1> QED
  BY <1>1, <1>2 DEF Inv, RecordedIsFinal, Owns

\* ZREM from both sets keeps their types.
LEMMA UnqueueType ==
  ASSUME TypeOK, NEW g \in Groups, Unqueue(g)
  PROVE  ready' \in [Groups -> Nat] /\ limited' \subseteq Groups
BY DEF TypeOK, Unqueue

\* Placing a group keeps the types of ready and limited.
LEMMA RequeueType ==
  ASSUME TypeOK, NEW g \in Groups, NEW S \in SUBSET Jobs, NEW n, Requeue(g, S, n)
  PROVE  ready' \in [Groups -> Nat] /\ limited' \subseteq Groups
<1>1. CASE S = {}
  BY <1>1 DEF TypeOK, Requeue, groupVars
<1>2. CASE S # {} /\ n < limit[g]
  <2>1. HeadScore(S) \in Nat
    BY <1>2, HeadScoreType
  <2> QED
    BY <1>2, <2>1 DEF TypeOK, Requeue
<1>3. CASE S # {} /\ ~(n < limit[g])
  BY <1>3 DEF TypeOK, Requeue
<1> QED
  BY <1>1, <1>2, <1>3

\* So does placing it or taking it out.
LEMMA SettleType ==
  ASSUME TypeOK, NEW g \in Groups, NEW S \in SUBSET Jobs, NEW n, Settle(g, S, n)
  PROVE  ready' \in [Groups -> Nat] /\ limited' \subseteq Groups
BY RequeueType, UnqueueType DEF Settle

\* The unfinished jobs of a group can be counted, before and after a step.
LEMMA LiveFinite ==
  ASSUME NEW g
  PROVE  IsFiniteSet(Live(g)) /\ IsFiniteSet(Live(g)')
<1>1. Live(g) \in SUBSET Jobs /\ Live(g)' \in SUBSET Jobs
  BY DEF Live, JobsOf
<1> QED
  BY <1>1, ConstantsAssumption, FS_Subset

\* A step that leaves the counters alone and makes no job live keeps CountCoversLive.
LEMMA LiveShrinks ==
  ASSUME Inv, count' = count, \A g \in Groups : Live(g)' \subseteq Live(g)
  PROVE  CountCoversLive'
<1> SUFFICES ASSUME NEW g \in Groups
             PROVE  count'[g] >= Cardinality(Live(g)')
  BY DEF CountCoversLive
<1>1. Cardinality(Live(g)') <= Cardinality(Live(g))
  BY LiveFinite, FS_Subset
<1>2. Cardinality(Live(g)) \in Nat /\ Cardinality(Live(g)') \in Nat
  BY LiveFinite, FS_CardinalityType
<1> QED
  BY <1>1, <1>2 DEF Inv, TypeOK, CountCoversLive

\* So does a step that counts up for the one job it may make live.
LEMMA LiveGrows ==
  ASSUME Inv, NEW j \in Jobs,
         count' = [count EXCEPT ![GroupOf[j]] = @ + 1],
         \A g \in Groups :
           Live(g)' \subseteq (IF g = GroupOf[j] THEN Live(g) \cup {j} ELSE Live(g))
  PROVE  CountCoversLive'
<1> SUFFICES ASSUME NEW g \in Groups
             PROVE  count'[g] >= Cardinality(Live(g)')
  BY DEF CountCoversLive
<1> DEFINE most == IF g = GroupOf[j] THEN Live(g) \cup {j} ELSE Live(g)
<1>1. IsFiniteSet(most) /\ Cardinality(most) <=
         Cardinality(Live(g)) + (IF g = GroupOf[j] THEN 1 ELSE 0)
  <2>1. IsFiniteSet(Live(g)) /\ Cardinality(Live(g)) \in Nat
    BY LiveFinite, FS_CardinalityType
  <2>2. /\ IsFiniteSet(Live(g) \cup {j})
        /\ Cardinality(Live(g) \cup {j}) =
             IF j \in Live(g) THEN Cardinality(Live(g)) ELSE Cardinality(Live(g)) + 1
    <3> HIDE DEF Live
    <3> QED
      BY <2>1, FS_AddElement, Zenon
  <2> QED
    BY <2>1, <2>2
<1>2. Cardinality(Live(g)') <= Cardinality(most)
  BY <1>1, FS_Subset
<1>3. /\ Cardinality(Live(g)) \in Nat /\ Cardinality(Live(g)') \in Nat
      /\ Cardinality(most) \in Nat
  BY <1>1, LiveFinite, FS_CardinalityType
<1> HIDE DEF most
<1> QED
  BY <1>1, <1>2, <1>3, ConstantsAssumption DEF Inv, TypeOK, CountCoversLive

\* And a step that counts down for a live job it ends, stopping at zero or not.
LEMMA LiveEnds ==
  ASSUME Inv, NEW j \in Jobs, j \in Live(GroupOf[j]),
         count' = [count EXCEPT ![GroupOf[j]] =
                     IF count[GroupOf[j]] <= 1 THEN 0 ELSE @ - 1]
         \/ count' = [count EXCEPT ![GroupOf[j]] = @ - 1],
         \A g \in Groups : Live(g)' \subseteq Live(g) \ {j}
  PROVE  CountCoversLive'
<1> SUFFICES ASSUME NEW g \in Groups
             PROVE  count'[g] >= Cardinality(Live(g)')
  BY DEF CountCoversLive
<1>1. IsFiniteSet(Live(g) \ {j}) /\ Cardinality(Live(g) \ {j}) =
         (IF j \in Live(g) THEN Cardinality(Live(g)) - 1 ELSE Cardinality(Live(g)))
  BY LiveFinite, FS_RemoveElement
<1>2. Cardinality(Live(g)') <= Cardinality(Live(g) \ {j})
  BY <1>1, FS_Subset
<1>3. /\ Cardinality(Live(g)) \in Nat /\ Cardinality(Live(g)') \in Nat
      /\ Cardinality(Live(g) \ {j}) \in Nat
  BY <1>1, LiveFinite, FS_CardinalityType
<1>4. count[g] \in Int /\ count[g] >= Cardinality(Live(g)) /\ GroupOf[j] \in Groups
  BY ConstantsAssumption DEF Inv, TypeOK, CountCoversLive
<1>5. CASE g = GroupOf[j]
  <2>1. count'[g] = count[g] - 1 \/ (count[g] <= 1 /\ count'[g] = 0)
    BY <1>4, <1>5 DEF Inv, TypeOK
  <2> QED
    BY <1>1, <1>2, <1>3, <1>4, <1>5, <2>1
<1>6. CASE g # GroupOf[j]
  <2>1. count'[g] = count[g]
    BY <1>6 DEF Inv, TypeOK
  <2> QED
    BY <1>1, <1>2, <1>3, <1>4, <2>1
<1> QED
  BY <1>5, <1>6

\* A counter of at most one means the live job at hand is the only one of its group:
\* what the scripts rely on when they delete the keys of an "empty" group.
LEMMA OnlyOneLive ==
  ASSUME Inv, NEW j \in Jobs, j \in Live(GroupOf[j]), count[GroupOf[j]] <= 1
  PROVE  Live(GroupOf[j]) = {j}
<1> DEFINE L == Live(GroupOf[j])
<1>1. IsFiniteSet(L) /\ Cardinality(L) \in Nat
  BY LiveFinite, FS_CardinalityType
<1>2. Cardinality(L) <= 1
  BY <1>1, ConstantsAssumption DEF Inv, TypeOK, CountCoversLive
<1> HIDE DEF L
<1>3. IsFiniteSet(L \ {j}) /\ Cardinality(L \ {j}) = Cardinality(L) - 1
  BY <1>1, FS_RemoveElement DEF L
<1>4. Cardinality(L \ {j}) = 0
  BY <1>1, <1>2, <1>3, FS_CardinalityType
<1>5. L \ {j} = {}
  BY <1>3, <1>4, FS_EmptySet
<1> QED
  BY <1>5 DEF L

-----------------------------------------------------------------------------
(* Locking, frames and the producers.                                      *)

\* What all reserve calls share: recovering the jobs in R and locking those of f, each
\* of them waiting or recovered, keeps the parts of Inv that it touches.
LEMMA LockAllKeepsInv ==
  ASSUME Inv, NEW R \in SUBSET Expired, NEW f, LockAll(R, f),
         \A j \in DOMAIN f : /\ j \in Jobs /\ f[j] \in Slots
                             /\ j \in R \/ status[j] = "waiting",
         gz' = [g \in Groups |-> WaitingAfter(R)[g] \ DOMAIN f],
         UNCHANGED <<delayed, count>>
  PROVE  /\ gz' \in [Groups -> SUBSET Jobs]
         /\ status' \in [Jobs -> Statuses]
         /\ lock' \in [Jobs -> Slots \cup {None}] /\ late' \subseteq Jobs
         /\ hold' \in [Slots -> Jobs \cup {None}] /\ stage' \in [Slots -> Stages]
         /\ OnePlace' /\ CountCoversLive' /\ RecordedIsFinal'
<1> USE ConstantsAssumption
<1> DEFINE T == DOMAIN f
<1>1. R \subseteq Jobs /\ \A j \in R : lock[j] # None /\ status[j] # "gone"
  BY DEF Inv, TypeOK, OnePlace, Expired
<1>2. /\ gz' \in [Groups -> SUBSET Jobs]
      /\ \A g \in Groups : gz'[g] = (gz[g] \cup (R \cap JobsOf(g))) \ T
  BY <1>1 DEF Inv, TypeOK, WaitingAfter
<1>3. /\ status' = [j \in Jobs |-> IF j \in T THEN "processing"
                                   ELSE IF j \in R THEN "waiting" ELSE status[j]]
      /\ late' = late \ (R \cup T)
      /\ lock' = [j \in Jobs |-> IF j \in T THEN f[j]
                                 ELSE IF j \in R THEN None ELSE lock[j]]
  BY DEF LockAll
<1>4. status' \in [Jobs -> Statuses] /\ late' \subseteq Jobs
      /\ lock' \in [Jobs -> Slots \cup {None}]
  BY <1>3 DEF Inv, TypeOK, Statuses
<1>5. hold' \in [Slots -> Jobs \cup {None}]
  BY DEF LockAll, Inv, TypeOK
<1>6. stage' \in [Slots -> Stages]
  BY DEF LockAll, Inv, TypeOK, Stages
<1>7. OnePlace'
  <2> SUFFICES ASSUME NEW j \in Jobs
        PROVE  /\ \A g \in Groups :
                    j \in gz'[g] <=> g = GroupOf[j] /\ status'[j] = "waiting"
               /\ j \in delayed' <=> status'[j] = "delayed"
               /\ status'[j] = "processing" => lock'[j] # None
               /\ lock'[j] # None => status'[j] \in {"processing", "failed", "gone"}
               /\ j \in late' => lock'[j] # None
    BY DEF OnePlace
  <2>1. CASE j \in T
    BY <2>1, <1>1, <1>2, <1>3 DEF Inv, OnePlace
  <2>2. CASE j \in R \ T
    BY <2>2, <1>1, <1>2, <1>3 DEF Inv, OnePlace, JobsOf
  <2>3. CASE j \notin R \cup T
    BY <2>3, <1>2, <1>3 DEF Inv, OnePlace
  <2> QED
    BY <2>1, <2>2, <2>3
<1>8. CountCoversLive'
  <2>1. ASSUME NEW g \in Groups, NEW j \in Jobs, j \in Live(g)'
        PROVE  j \in Live(g)
    <3>1. j \in JobsOf(g)
      BY <2>1 DEF Live
    <3>2. j \in T => j \in R \/ status[j] = "waiting"
      OBVIOUS
    <3>3. CASE j \in R \cup T
      BY <3>1, <3>2, <3>3, <1>1 DEF Live
    <3>4. CASE j \notin R \cup T
      BY <3>1, <3>4, <2>1, <1>3 DEF Live
    <3> QED
      BY <3>3, <3>4
  <2>2. \A g \in Groups : Live(g)' \subseteq Live(g)
    BY <2>1 DEF Live, JobsOf
  <2> QED
    BY <2>2, LiveShrinks
<1>9. RecordedIsFinal'
  <2>1. \A w \in Slots : stage'[w] # "recorded"
                           \/ (stage[w] = "recorded" /\ hold'[w] = hold[w])
    BY DEF LockAll
  <2>2. ASSUME NEW w \in Slots, NEW j \in Jobs, lock'[j] = w, stage'[w] = "recorded"
        PROVE  lock[j] = w /\ status'[j] = status[j]
    <3>1. j \notin T
      <4>1. stage'[w] = IF \E i \in T : f[i] = w THEN "running" ELSE stage[w]
        BY DEF LockAll
      <4> QED
        BY <4>1, <2>2, <1>3
    <3>2. j \notin R
      BY <2>2, <3>1, <1>3
    <3> QED
      BY <2>2, <3>1, <3>2, <1>3
  <2> QED
    BY <2>1, <2>2, RecordedKept
<1> QED
  BY <1>2, <1>4, <1>5, <1>6, <1>7, <1>8, <1>9

\* A step that moves no job keeps Inv when it keeps the types.
LEMMA Frame ==
  ASSUME Inv, TypeOK', UNCHANGED <<status, gz, delayed, lock, count>>,
         late' \subseteq late,
         \A w \in Slots : \/ stage'[w] # "recorded"
                          \/ hold'[w] = None
                          \/ stage[w] = "recorded" /\ hold'[w] = hold[w]
  PROVE  Inv'
<1>1. OnePlace'
  BY DEF Inv, OnePlace
<1>2. \A g \in Groups : Live(g)' = Live(g)
  BY DEF Live
<1>3. RecordedIsFinal'
  BY RecordedKept
<1> QED
  BY <1>1, <1>2, <1>3, LiveShrinks DEF Inv

\* The counters stay integers when one of them goes up.
LEMMA CountType ==
  ASSUME TypeOK, NEW j \in Jobs
  PROVE  /\ [count EXCEPT ![GroupOf[j]] = @ + 1] \in [Groups -> Int]
         /\ [count EXCEPT ![GroupOf[j]] = @ - 1] \in [Groups -> Int]
         /\ [count EXCEPT ![GroupOf[j]] = 0] \in [Groups -> Int]
<1>1. /\ GroupOf[j] \in Groups /\ count \in [Groups -> Int]
      /\ count[GroupOf[j]] \in Int
  BY ConstantsAssumption DEF TypeOK
<1>2. count[GroupOf[j]] + 1 \in Int /\ count[GroupOf[j]] - 1 \in Int
  BY <1>1
<1> QED
  BY <1>1, <1>2

\* enqueue.lua, immediate.
LEMMA AddKeepsInv ==
  ASSUME Inv, NEW j \in Jobs, Add(j)
  PROVE  Inv'
<1> USE ConstantsAssumption
<1> DEFINE g == GroupOf[j]
<1>1. TypeOK'
  <2>1. gz[g] \cup {j} \in SUBSET Jobs
    BY DEF Inv, TypeOK
  <2>2. ready' \in [Groups -> Nat] /\ limited' \subseteq Groups
    BY <2>1, RequeueType DEF Inv, Add
  <2>3. count' \in [Groups -> Int]
    BY CountType DEF Inv, Add
  <2>4. gz' \in [Groups -> SUBSET Jobs] /\ status' \in [Jobs -> Statuses]
    BY DEF Inv, TypeOK, Add, Statuses
  <2> QED
    BY <2>2, <2>3, <2>4 DEF Inv, TypeOK, Add, confVars, slotVars
<1>2. OnePlace'
  BY DEF Inv, TypeOK, OnePlace, Add
<1>3. CountCoversLive'
  <2>1. \A h \in Groups :
          Live(h)' \subseteq (IF h = g THEN Live(h) \cup {j} ELSE Live(h))
    BY DEF Inv, TypeOK, Add, Live, JobsOf
  <2> QED
    BY <2>1, LiveGrows DEF Add
<1>4. RecordedIsFinal'
  <2>1. lock[j] = None /\ \A i \in Jobs \ {j} : status'[i] = status[i]
    BY DEF Add, Inv, TypeOK, OnePlace
  <2> QED
    BY <2>1, RecordedKept DEF Add, slotVars
<1> QED
  BY <1>1, <1>2, <1>3, <1>4 DEF Inv

\* enqueue.lua, delayed.
LEMMA AddDelayedKeepsInv ==
  ASSUME Inv, NEW j \in Jobs, AddDelayed(j)
  PROVE  Inv'
<1> USE ConstantsAssumption
<1>1. TypeOK'
  <2>1. count' \in [Groups -> Int]
    BY CountType DEF Inv, AddDelayed
  <2>2. delayed' \subseteq Jobs /\ status' \in [Jobs -> Statuses]
    BY DEF Inv, TypeOK, AddDelayed, Statuses
  <2> QED
    BY <2>1, <2>2 DEF Inv, TypeOK, AddDelayed, groupVars, confVars, slotVars
<1>2. OnePlace'
  BY DEF Inv, TypeOK, OnePlace, AddDelayed
<1>3. CountCoversLive'
  <2>1. \A h \in Groups :
          Live(h)' \subseteq (IF h = GroupOf[j] THEN Live(h) \cup {j} ELSE Live(h))
    BY DEF Inv, TypeOK, AddDelayed, Live, JobsOf
  <2> QED
    BY <2>1, LiveGrows DEF AddDelayed
<1>4. RecordedIsFinal'
  <2>1. lock[j] = None /\ \A i \in Jobs \ {j} : status'[i] = status[i]
    BY DEF AddDelayed, Inv, TypeOK, OnePlace
  <2> QED
    BY <2>1, RecordedKept DEF AddDelayed, slotVars
<1> QED
  BY <1>1, <1>2, <1>3, <1>4 DEF Inv

\* promote-delayed-jobs.lua.
LEMMA PromoteKeepsInv ==
  ASSUME Inv, NEW j \in Jobs, Promote(j)
  PROVE  Inv'
<1> USE ConstantsAssumption
<1>1. TypeOK'
  <2>1. gz[GroupOf[j]] \cup {j} \in SUBSET Jobs
    BY DEF Inv, TypeOK
  <2>2. ready' \in [Groups -> Nat] /\ limited' \subseteq Groups
    BY <2>1, RequeueType DEF Inv, Promote
  <2> QED
    BY <2>2 DEF Inv, TypeOK, Promote, Statuses, confVars, slotVars
<1>2. OnePlace'
  BY DEF Inv, TypeOK, OnePlace, Promote
<1>3. CountCoversLive'
  <2>1. \A h \in Groups : Live(h)' \subseteq Live(h)
    BY DEF Inv, TypeOK, OnePlace, Promote, Live, JobsOf
  <2> QED
    BY <2>1, LiveShrinks DEF Promote
<1>4. RecordedIsFinal'
  <2>1. lock[j] = None /\ \A i \in Jobs \ {j} : status'[i] = status[i]
    BY DEF Promote, Inv, TypeOK, OnePlace
  <2> QED
    BY <2>1, RecordedKept DEF Promote, slotVars
<1> QED
  BY <1>1, <1>2, <1>3, <1>4 DEF Inv

-----------------------------------------------------------------------------
(* The reserve calls.                                                      *)

\* The lazy cleanup of an active list leaves a list of jobs.
LEMMA PrunedType ==
  ASSUME NEW g, NEW s \in Seq(Jobs)
  PROVE  Pruned(g, s) \in Seq(Jobs)
BY WithoutType DEF Pruned

\* What a sweep reads and leaves has the types of the keys.
LEMMA RecoveryType ==
  ASSUME Inv, NEW R \in SUBSET Expired
  PROVE  /\ R \subseteq Jobs
         /\ WaitingAfter(R) \in [Groups -> SUBSET Jobs]
         /\ ActiveAfter(R) \in [Groups -> Seq(Jobs)]
         /\ ReadyAfter(R) \in [Groups -> Nat]
         /\ LimitedAfter(R) \subseteq Groups
<1>1. R \subseteq Jobs
  BY DEF Expired, Inv, TypeOK
<1>2. WaitingAfter(R) \in [Groups -> SUBSET Jobs]
  BY <1>1 DEF WaitingAfter, Inv, TypeOK
<1>3. ActiveAfter(R) \in [Groups -> Seq(Jobs)]
  BY WithoutType DEF ActiveAfter, Inv, TypeOK
<1>4. ReadyAfter(R) \in [Groups -> Nat]
  <2>1. ASSUME NEW g \in Groups, g \in Swept(R)
        PROVE  HeadScore(WaitingAfter(R)[g]) \in Nat
    <3>1. PICK j \in R : g = GroupOf[j]
      BY <2>1 DEF Swept
    <3>2. j \in WaitingAfter(R)[g]
      BY <1>1, <3>1 DEF WaitingAfter, JobsOf
    <3>3. WaitingAfter(R)[g] \in SUBSET Jobs
      BY <1>2
    <3> QED
      BY <3>2, <3>3, HeadScoreType
  <2>2. \A g \in Groups : ready[g] \in Nat
    BY DEF Inv, TypeOK
  <2> QED
    BY <2>1, <2>2 DEF ReadyAfter
<1>5. LimitedAfter(R) \subseteq Groups
  BY DEF LimitedAfter
<1> QED
  BY <1>1, <1>2, <1>3, <1>4, <1>5

\* A sweep takes back expired jobs only.
LEMMA SweepsExpired ==
  ASSUME Inv
  PROVE  \A R \in SweepChoice : R \in SUBSET Expired
BY DEF SweepChoice

\* So has what the scan after the sweep leaves.
LEMMA ListsAfterType ==
  ASSUME Inv, NEW R \in SUBSET Expired
  PROVE  /\ ListsAfter(R) \in [Groups -> Seq(Jobs)]
         /\ SweptReady(R) \in [Groups -> Nat]
         /\ Parked(R) \subseteq Groups
<1>1. ListsAfter(R) \in [Groups -> Seq(Jobs)]
  BY RecoveryType, PrunedType DEF ListsAfter
<1>2. SweptReady(R) \in [Groups -> Nat]
  BY RecoveryType DEF SweptReady
<1> QED
  BY <1>1, <1>2 DEF Parked, Reached, Listed

\* reserve.lua that finds nothing to hand out.
LEMMA ReserveNoneKeepsInv ==
  ASSUME Inv, NEW w \in Slots, ReserveNone(w)
  PROVE  Inv'
<1>1. PICK R \in SweepChoice : FindNothing(w, R)
  BY DEF ReserveNone
<1>2. R \in SUBSET Expired
  BY SweepsExpired
<1> DEFINE f == [j \in {} |-> w]
<1>3. DOMAIN f = {} /\ LockAll(R, f)
  BY <1>1 DEF FindNothing
<1>4. gz' = [g \in Groups |-> WaitingAfter(R)[g] \ DOMAIN f]
  BY <1>1, <1>3 DEF FindNothing, WaitingAfter
<1>5. UNCHANGED <<attempts, stalls, outcome, delayed, count, confVars>>
  BY DEF ReserveNone
<1> HIDE DEF f
<1>6. /\ gz' \in [Groups -> SUBSET Jobs]
      /\ status' \in [Jobs -> Statuses]
      /\ lock' \in [Jobs -> Slots \cup {None}] /\ late' \subseteq Jobs
      /\ hold' \in [Slots -> Jobs \cup {None}] /\ stage' \in [Slots -> Stages]
      /\ OnePlace' /\ CountCoversLive' /\ RecordedIsFinal'
  BY <1>2, <1>3, <1>4, <1>5, LockAllKeepsInv
<1>7. /\ active' \in [Groups -> Seq(Jobs)]
      /\ ready' \in [Groups -> Nat] /\ limited' \subseteq Groups
  BY <1>1, <1>2, RecoveryType, ListsAfterType DEF FindNothing
<1> QED
  BY <1>5, <1>6, <1>7 DEF Inv, TypeOK, confVars

\* reserve.lua that hands a job out.
LEMMA ReserveJobKeepsInv ==
  ASSUME Inv, NEW w \in Slots, ReserveJob(w)
  PROVE  Inv'
<1>0. PICK R \in SweepChoice : \E g \in Candidates(R) : HandOut(w, R, g)
  BY DEF ReserveJob
<1>1. PICK g \in Candidates(R) : HandOut(w, R, g)
  BY <1>0
<1>2. R \in SUBSET Expired
  BY SweepsExpired
<1>3. g \in Groups /\ WaitingAfter(R)[g] # {}
  BY DEF Candidates, Listed
<1>4. UNCHANGED <<attempts, stalls, outcome, delayed, count, confVars>>
  BY DEF ReserveJob
<1> DEFINE j     == Head1(WaitingAfter(R)[g])
           rest  == WaitingAfter(R)[g] \ {j}
           taken == <<j>> \o ListsAfter(R)[g]
           f     == [i \in {j} |-> w]
<1>5. WaitingAfter(R)[g] \in SUBSET Jobs
  BY <1>2, <1>3, RecoveryType
<1>6. j \in WaitingAfter(R)[g] /\ j \in Jobs
  BY <1>3, <1>5, HasHead
<1>7. (j \in R \/ status[j] = "waiting") /\ GroupOf[j] = g
  BY <1>3, <1>6 DEF WaitingAfter, JobsOf, Inv, OnePlace
<1>8. DOMAIN f = {j} /\ f[j] = w /\ LockAll(R, f)
  BY <1>1 DEF HandOut
<1> HIDE DEF f
<1>9. gz' = [h \in Groups |-> WaitingAfter(R)[h] \ DOMAIN f]
  <2>1. gz' = [WaitingAfter(R) EXCEPT ![g] = rest]
    BY <1>1 DEF HandOut
  <2>2. \A h \in Groups : h # g => j \notin WaitingAfter(R)[h]
    BY <1>6, <1>7 DEF WaitingAfter, JobsOf, Inv, OnePlace
  <2>3. WaitingAfter(R) = [h \in Groups |-> WaitingAfter(R)[h]]
    BY DEF WaitingAfter
  <2> HIDE DEF j
  <2> QED
    BY <2>1, <2>2, <2>3, <1>3, <1>8
<1>10. active' \in [Groups -> Seq(Jobs)]
  <2>1. ListsAfter(R) \in [Groups -> Seq(Jobs)]
    BY <1>2, ListsAfterType
  <2>2. taken \in Seq(Jobs)
    <3>1. ListsAfter(R)[g] \in Seq(Jobs) /\ <<j>> \in Seq(Jobs)
      BY <2>1, <1>3, <1>6
    <3> HIDE DEF j
    <3> QED
      BY <3>1
  <2>3. active' = [ListsAfter(R) EXCEPT ![g] = taken]
    BY <1>1 DEF HandOut
  <2> HIDE DEF taken
  <2> QED
    BY <2>1, <2>2, <2>3
<1>11. ready' \in [Groups -> Nat]
  <2>1. rest # {} => HeadScore(rest) \in Nat
    BY <1>5, HeadScoreType
  <2>2. SweptReady(R) \in [Groups -> Nat]
    BY <1>2, ListsAfterType
  <2>3. ready' = [h \in Groups |->
                    IF h = g /\ rest # {} /\ Len(taken) < limit[g]
                    THEN HeadScore(rest)
                    ELSE IF h \in AtRank(SweptReady(R), Rank(Scanned(R), g))
                    THEN 0 ELSE SweptReady(R)[h]]
    BY <1>1 DEF HandOut
  <2> HIDE DEF rest, taken
  <2> QED
    BY <2>1, <2>2, <2>3
<1>12. limited' \subseteq Groups
  <2>1. limited' \subseteq LimitedAfter(R) \cup Parked(R) \cup {g}
    BY <1>1 DEF HandOut
  <2> QED
    BY <2>1, <1>2, <1>3, RecoveryType, ListsAfterType
<1>13. /\ gz' \in [Groups -> SUBSET Jobs]
       /\ status' \in [Jobs -> Statuses]
       /\ lock' \in [Jobs -> Slots \cup {None}] /\ late' \subseteq Jobs
       /\ hold' \in [Slots -> Jobs \cup {None}] /\ stage' \in [Slots -> Stages]
       /\ OnePlace' /\ CountCoversLive' /\ RecordedIsFinal'
  <2>1. \A i \in DOMAIN f : /\ i \in Jobs /\ f[i] \in Slots
                            /\ i \in R \/ status[i] = "waiting"
    BY <1>6, <1>7, <1>8
  <2> QED
    BY <2>1, <1>2, <1>4, <1>8, <1>9, LockAllKeepsInv
<1> QED
  BY <1>4, <1>10, <1>11, <1>12, <1>13 DEF Inv, TypeOK, confVars

\* reserve-batch.lua.
LEMMA ReserveBatchKeepsInv ==
  ASSUME Inv, NEW W \in SUBSET Slots, ReserveBatch(W)
  PROVE  Inv'
<1> DEFINE n == Cardinality(W)
<1>1. PICK R \in {{}, Expired} : \E f \in [Batch(R, n) -> W] : TakeBatch(R, n, f)
  BY DEF ReserveBatch
<1>2. PICK f \in [Batch(R, n) -> W] : TakeBatch(R, n, f)
  BY <1>1
<1>3. R \in SUBSET Expired
  OBVIOUS
<1>4. UNCHANGED <<attempts, stalls, outcome, delayed, count, confVars>>
  BY DEF ReserveBatch
<1> HIDE DEF n
<1>5. \A g \in ReadBy(R, n) : WaitingAfter(R)[g] # {} =>
         /\ Head1(WaitingAfter(R)[g]) \in Jobs
         /\ Head1(WaitingAfter(R)[g]) \in WaitingAfter(R)[g]
  <2>1. \A g \in Groups : WaitingAfter(R)[g] \in SUBSET Jobs
    BY <1>3, RecoveryType
  <2> QED
    BY <2>1, HasHead DEF ReadBy, Listed
<1>6. \A i \in Batch(R, n) : /\ i \in Jobs
                             /\ i \in R \/ status[i] = "waiting"
                             /\ i = Head1(WaitingAfter(R)[GroupOf[i]])
                             /\ WaitingAfter(R)[GroupOf[i]] # {}
  <2> TAKE i \in Batch(R, n)
  <2>1. PICK g \in ReadBy(R, n) : /\ WaitingAfter(R)[g] # {}
                                  /\ i = Head1(WaitingAfter(R)[g])
    BY DEF Batch
  <2>2. i \in Jobs /\ i \in WaitingAfter(R)[g] /\ g \in Groups
    BY <2>1, <1>5 DEF ReadBy, Listed
  <2>3. (i \in R \/ status[i] = "waiting") /\ GroupOf[i] = g
    BY <2>2 DEF WaitingAfter, JobsOf, Inv, OnePlace
  <2> QED
    BY <2>1, <2>2, <2>3
<1>7. DOMAIN f = Batch(R, n) /\ \A i \in DOMAIN f : f[i] \in Slots
  OBVIOUS
<1>8. /\ gz' \in [Groups -> SUBSET Jobs]
      /\ status' \in [Jobs -> Statuses]
      /\ lock' \in [Jobs -> Slots \cup {None}] /\ late' \subseteq Jobs
      /\ hold' \in [Slots -> Jobs \cup {None}] /\ stage' \in [Slots -> Stages]
      /\ OnePlace' /\ CountCoversLive' /\ RecordedIsFinal'
  <2>1. LockAll(R, f) /\ gz' = [g \in Groups |-> WaitingAfter(R)[g] \ DOMAIN f]
    BY <1>2 DEF TakeBatch
  <2>2. \A i \in DOMAIN f : /\ i \in Jobs /\ f[i] \in Slots
                            /\ i \in R \/ status[i] = "waiting"
    BY <1>6, <1>7
  <2> QED
    BY <2>1, <2>2, <1>3, <1>4, LockAllKeepsInv
<1> DEFINE served  == {GroupOf[j] : j \in DOMAIN f}
           left(g) == IF g \in ReadBy(R, n) THEN Pruned(g, ActiveAfter(R)[g])
                      ELSE ActiveAfter(R)[g]
<1>9. active' \in [Groups -> Seq(Jobs)]
  <2>1. \A g \in Groups : left(g) \in Seq(Jobs)
    BY <1>3, RecoveryType, PrunedType
  <2>2. \A g \in served : Head1(WaitingAfter(R)[g]) \in Jobs
    BY <1>6, <1>7
  <2>3. active' = [g \in Groups |->
                     IF g \in served
                     THEN <<Head1(WaitingAfter(R)[g])>> \o left(g)
                     ELSE left(g)]
    BY <1>2 DEF TakeBatch
  <2> HIDE DEF left, served
  <2>4. ASSUME NEW g \in Groups, g \in served
        PROVE  <<Head1(WaitingAfter(R)[g])>> \o left(g) \in Seq(Jobs)
    <3>1. <<Head1(WaitingAfter(R)[g])>> \in Seq(Jobs) /\ left(g) \in Seq(Jobs)
      BY <2>1, <2>2, <2>4
    <3> QED
      BY <3>1
  <2> QED
    BY <2>1, <2>3, <2>4
<1>10. ready' \in [Groups -> Nat]
  <2>1. ready' = [g \in Groups |-> IF g \in served \cup FullOf(R, n) THEN 0
                                   ELSE ReadyAfter(R)[g]]
    BY <1>2 DEF TakeBatch
  <2> HIDE DEF served
  <2> QED
    BY <2>1, <1>3, RecoveryType
<1>11. limited' \subseteq Groups
  <2>1. limited' \subseteq LimitedAfter(R) \cup FullOf(R, n) \cup served
    BY <1>2 DEF TakeBatch
  <2>2. served \subseteq Groups
    BY <1>6, <1>7, ConstantsAssumption
  <2> HIDE DEF served
  <2> QED
    BY <2>1, <2>2, <1>3, RecoveryType DEF FullOf, ReadBy, Listed
<1> QED
  BY <1>4, <1>8, <1>9, <1>10, <1>11 DEF Inv, TypeOK, confVars

\* reserve-atomic.lua.
LEMMA ReserveAtomicKeepsInv ==
  ASSUME Inv, NEW w \in Slots, NEW g \in Groups, ReserveAtomic(w, g)
  PROVE  Inv'
<1> DEFINE list == Pruned(g, active[g])
           j    == Head1(gz[g])
           f    == [i \in {j} |-> w]
<1>1. UNCHANGED <<attempts, stalls, outcome, delayed, count, confVars>>
  BY DEF ReserveAtomic
<1>2. gz[g] \in SUBSET Jobs /\ gz[g] # {}
  BY DEF ReserveAtomic, Inv, TypeOK
<1>3. j \in gz[g] /\ j \in Jobs /\ status[j] = "waiting" /\ GroupOf[j] = g
  BY <1>2, HasHead DEF Inv, OnePlace
<1>4. list \in Seq(Jobs)
  BY PrunedType DEF Inv, TypeOK
<1>5. CASE Len(list) < limit[g]
  <2>1. /\ gz' = [gz EXCEPT ![g] = @ \ {j}]
        /\ active' = [active EXCEPT ![g] = <<j>> \o list]
        /\ Settle(g, gz[g] \ {j}, Len(list) + 1)
        /\ LockAll({}, f)
    BY <1>5 DEF ReserveAtomic
  <2>2. ready' \in [Groups -> Nat] /\ limited' \subseteq Groups
    <3>1. gz[g] \ {j} \in SUBSET Jobs
      BY <1>2
    <3> HIDE DEF j, list
    <3> QED
      BY <2>1, <3>1, SettleType DEF Inv
  <2>3. active' \in [Groups -> Seq(Jobs)]
    <3> HIDE DEF j, list
    <3>1. <<j>> \in Seq(Jobs)
      BY <1>3
    <3>2. <<j>> \o list \in Seq(Jobs)
      BY <3>1, <1>4
    <3> QED
      BY <2>1, <3>2 DEF Inv, TypeOK
  <2>4. gz' = [h \in Groups |-> WaitingAfter({})[h] \ {j}]
    <3> HIDE DEF j
    <3>1. \A h \in Groups : WaitingAfter({})[h] = gz[h]
      BY DEF WaitingAfter
    <3>2. \A h \in Groups : h # g => j \notin gz[h]
      BY <1>3 DEF Inv, OnePlace
    <3> QED
      BY <2>1, <3>1, <3>2 DEF Inv, TypeOK
  <2>5. DOMAIN f = {j} /\ f[j] = w
    OBVIOUS
  <2> HIDE DEF f, j, list
  <2>6. /\ gz' \in [Groups -> SUBSET Jobs]
        /\ status' \in [Jobs -> Statuses]
        /\ lock' \in [Jobs -> Slots \cup {None}] /\ late' \subseteq Jobs
        /\ hold' \in [Slots -> Jobs \cup {None}] /\ stage' \in [Slots -> Stages]
        /\ OnePlace' /\ CountCoversLive' /\ RecordedIsFinal'
    <3>1. {} \in SUBSET Expired
      OBVIOUS
    <3>2. \A i \in DOMAIN f : /\ i \in Jobs /\ f[i] \in Slots
                              /\ i \in {} \/ status[i] = "waiting"
      BY <2>5, <1>3
    <3> QED
      BY <3>1, <3>2, <2>1, <2>4, <2>5, <1>1, LockAllKeepsInv
  <2> QED
    BY <1>1, <2>2, <2>3, <2>6 DEF Inv, TypeOK, confVars
<1>6. CASE ~(Len(list) < limit[g])
  <2>1. /\ active' = [active EXCEPT ![g] = list]
        /\ Requeue(g, gz[g], limit[g])
        /\ UNCHANGED <<gz, lock, late, status, slotVars>>
    BY <1>6 DEF ReserveAtomic
  <2>2. ready' \in [Groups -> Nat] /\ limited' \subseteq Groups
    BY <2>1, <1>2, RequeueType DEF Inv
  <2>3. active' \in [Groups -> Seq(Jobs)]
    <3> HIDE DEF list
    <3> QED
      BY <2>1, <1>4 DEF Inv, TypeOK
  <2>4. TypeOK'
    BY <1>1, <2>1, <2>2, <2>3 DEF Inv, TypeOK, confVars, slotVars
  <2> QED
    BY <1>1, <2>1, <2>4, Frame DEF slotVars
<1> QED
  BY <1>5, <1>6

-----------------------------------------------------------------------------
(* Slots, operators of the queue, completion and retry.                    *)

\* Freeing a slot keeps the types of the slot variables.
LEMMA SlotType ==
  ASSUME Inv, NEW w \in Slots, Drop(w)
  PROVE  hold' \in [Slots -> Jobs \cup {None}] /\ stage' \in [Slots -> Stages]
BY DEF Inv, TypeOK, Drop, Stages

\* Unlocking a job keeps the types of the lock variables.
LEMMA UnlockType ==
  ASSUME Inv, NEW j \in Jobs, Unlock(j)
  PROVE  lock' \in [Jobs -> Slots \cup {None}] /\ late' \subseteq Jobs
BY DEF Inv, TypeOK, Unlock

\* Freeing a slot makes no slot "recorded".
LEMMA Dropped ==
  ASSUME Inv, NEW w \in Slots, Drop(w)
  PROVE  \A v \in Slots : \/ stage'[v] # "recorded"
                          \/ hold'[v] = None
                          \/ stage[v] = "recorded" /\ hold'[v] = hold[v]
BY DEF Drop, Inv, TypeOK

\* A slot that passes the token check holds a live job.
LEMMA OwnerHolds ==
  ASSUME Inv, NEW w \in Slots, hold[w] # None, Owns(w, hold[w])
  PROVE  /\ hold[w] \in Jobs /\ GroupOf[hold[w]] \in Groups
         /\ lock[hold[w]] # None
         /\ hold[w] \in Live(GroupOf[hold[w]])
<1>1. hold[w] \in Jobs /\ w # None
  BY ConstantsAssumption DEF Inv, TypeOK
<1> QED
  BY <1>1, ConstantsAssumption DEF Owns, Live, JobsOf

\* A call that finds its token gone.
LEMMA LockLostKeepsInv ==
  ASSUME Inv, NEW w \in Slots, LockLost(w)
  PROVE  Inv'
<1>1. TypeOK'
  BY SlotType DEF LockLost, Inv, TypeOK, queueVars, jobVars, placeVars, groupVars,
                  confVars
<1> QED
  BY <1>1, Dropped, Frame DEF LockLost, queueVars, jobVars, placeVars

\* A crash of the process, or of the slot only.
LEMMA CrashKeepsInv ==
  ASSUME Inv, NEW w \in Slots, Crash(w)
  PROVE  Inv'
<1>1. TypeOK'
  BY SlotType DEF Crash, Inv, TypeOK, queueVars, jobVars, placeVars, groupVars,
                  confVars
<1> QED
  BY <1>1, Dropped, Frame DEF Crash, queueVars, jobVars, placeVars

\* heartbeat.lua.
LEMMA HeartbeatKeepsInv ==
  ASSUME Inv, NEW w \in Slots, Heartbeat(w)
  PROVE  Inv'
<1>1. TypeOK'
  BY DEF Heartbeat, Inv, TypeOK, jobVars, groupVars, confVars, slotVars
<1> QED
  BY <1>1, Frame DEF Heartbeat, jobVars, slotVars

\* The clock passes a deadline.
LEMMA DeadlinePassesKeepsInv ==
  ASSUME Inv, NEW j \in Jobs, DeadlinePasses(j)
  PROVE  Inv'
<1>1. TypeOK'
  BY DEF DeadlinePasses, Inv, TypeOK, jobVars, groupVars, confVars, slotVars
<1>2. OnePlace'
  BY DEF DeadlinePasses, Inv, OnePlace, jobVars
<1>3. CountCoversLive'
  <2>1. \A g \in Groups : Live(g)' = Live(g)
    BY DEF DeadlinePasses, jobVars, Live
  <2> QED
    BY <2>1, LiveShrinks DEF DeadlinePasses
<1>4. RecordedIsFinal'
  BY RecordedKept DEF DeadlinePasses, jobVars, slotVars
<1> QED
  BY <1>1, <1>2, <1>3, <1>4 DEF Inv

\* Pause and resume.
LEMMA PauseKeepsInv ==
  ASSUME Inv, Pause \/ Resume
  PROVE  Inv'
<1>1. TypeOK'
  BY DEF Pause, Resume, Inv, TypeOK, jobVars, placeVars, groupVars, slotVars
<1> QED
  BY <1>1, Frame DEF Pause, Resume, jobVars, placeVars, slotVars

\* setConcurrency of a group.
LEMMA SetConcurrencyKeepsInv ==
  ASSUME Inv, NEW g \in Groups, NEW n \in Limits, SetConcurrency(g, n)
  PROVE  Inv'
<1>1. TypeOK'
  <2>1. limit' \in [Groups -> Nat]
    BY ConstantsAssumption DEF SetConcurrency, Inv, TypeOK
  <2>2. gz[g] # {} => HeadScore(gz[g]) \in Nat
    BY HeadScoreType DEF Inv, TypeOK
  <2>3. ready' \in [Groups -> Nat]
    <3>1. \/ ready' = ready
          \/ ready' = [ready EXCEPT ![g] = 0]
          \/ ready' = [ready EXCEPT ![g] = IF gz[g] = {} THEN @ ELSE HeadScore(gz[g])]
      BY DEF SetConcurrency, groupVars
    <3>2. ready \in [Groups -> Nat] /\ ready[g] \in Nat
      BY DEF Inv, TypeOK
    <3> QED
      BY <2>2, <3>1, <3>2
  <2>4. limited' \subseteq Groups
    BY DEF SetConcurrency, Inv, TypeOK, groupVars
  <2> QED
    BY <2>1, <2>3, <2>4 DEF SetConcurrency, Inv, TypeOK, jobVars, placeVars, slotVars
<1> QED
  BY <1>1, Frame DEF SetConcurrency, jobVars, placeVars, slotVars

\* complete-with-metadata.lua.
LEMMA CompleteJobKeepsInv ==
  ASSUME Inv, NEW w \in Slots, CompleteJob(w)
  PROVE  Inv'
<1> DEFINE j    == hold[w]
           g    == GroupOf[j]
           rest == Without(active[g], {j})
<1>1. /\ j \in Jobs /\ g \in Groups /\ lock[j] # None /\ j \in Live(g)
      /\ status[j] = "processing"
  BY OwnerHolds DEF CompleteJob, Running, Accepted
<1>2. /\ status' = [status EXCEPT ![j] = Final(KeepCompleted, "completed")]
      /\ outcome' = [outcome EXCEPT ![j] = "completed"]
      /\ Unlock(j)
      /\ active' = [active EXCEPT ![g] = IF LastOfGroup(g) THEN <<>> ELSE rest]
      /\ count' = [count EXCEPT ![g] = IF LastOfGroup(g) THEN 0 ELSE @ - 1]
      /\ Drop(w)
      /\ UNCHANGED <<attempts, stalls, gz, delayed, confVars>>
  BY DEF CompleteJob
<1>3. UNCHANGED groupVars \/ Settle(g, gz[g], Len(rest))
  BY DEF CompleteJob
<1> HIDE DEF j
<1>4. TypeOK'
  <2>1. gz[g] \in SUBSET Jobs /\ active[g] \in Seq(Jobs)
    BY <1>1 DEF Inv, TypeOK
  <2>2. ready' \in [Groups -> Nat] /\ limited' \subseteq Groups
    <3>1. CASE UNCHANGED groupVars
      BY <3>1 DEF Inv, TypeOK, groupVars
    <3>2. CASE Settle(g, gz[g], Len(rest))
      BY <3>2, <2>1, <1>1, SettleType DEF Inv
    <3> QED
      BY <3>1, <3>2, <1>3
  <2>3. active' \in [Groups -> Seq(Jobs)]
    <3>1. rest \in Seq(Jobs) /\ <<>> \in Seq(Jobs)
      BY <2>1, WithoutType
    <3> HIDE DEF rest
    <3> QED
      BY <3>1, <1>2 DEF Inv, TypeOK
  <2>4. count' \in [Groups -> Int]
    BY <1>1, <1>2, CountType DEF Inv
  <2>5. status' \in [Jobs -> Statuses] /\ outcome' \in [Jobs -> {None, "completed", "failed"}]
    BY <1>2 DEF Inv, TypeOK, Statuses, Final
  <2>6. /\ lock' \in [Jobs -> Slots \cup {None}] /\ late' \subseteq Jobs
        /\ hold' \in [Slots -> Jobs \cup {None}] /\ stage' \in [Slots -> Stages]
    BY <1>1, <1>2, UnlockType, SlotType
  <2> QED
    BY <2>2, <2>3, <2>4, <2>5, <2>6, <1>2 DEF Inv, TypeOK, confVars
<1>5. OnePlace'
  BY <1>1, <1>2 DEF Inv, TypeOK, OnePlace, Unlock, Final
<1>6. CountCoversLive'
  <2>1. \A h \in Groups : Live(h)' \subseteq Live(h) \ {j}
    BY <1>1, <1>2 DEF Inv, TypeOK, Live, JobsOf, Unlock, Final
  <2>2. \/ count' = [count EXCEPT ![g] = IF count[g] <= 1 THEN 0 ELSE @ - 1]
        \/ count' = [count EXCEPT ![g] = @ - 1]
    BY <1>2 DEF LastOfGroup
  <2> QED
    BY <2>1, <2>2, <1>1, LiveEnds
<1>7. RecordedIsFinal'
  BY <1>1, <1>2, Dropped, RecordedKept, ConstantsAssumption, ZenonT(60)
    DEF Unlock, Inv, TypeOK
<1> QED
  BY <1>4, <1>5, <1>6, <1>7 DEF Inv

\* complete-and-reserve-next-with-metadata.lua.
LEMMA NextKeepsInv ==
  ASSUME Inv, NEW w \in Slots, CompleteAndReserveNext(w)
  PROVE  Inv'
<1> DEFINE j    == hold[w]
           g    == GroupOf[j]
           next == Head1(gz[g])
           rest == Without(active[g], {j})
           done == [status EXCEPT ![j] = Final(KeepCompleted, "completed")]
           free == [lock EXCEPT ![j] = None]
<1>1. /\ j \in Jobs /\ g \in Groups /\ lock[j] # None /\ j \in Live(g)
      /\ status[j] = "processing"
  BY OwnerHolds DEF CompleteAndReserveNext, Running, Accepted
<1>2. /\ outcome' = [outcome EXCEPT ![j] = "completed"]
      /\ late' = late \ {j}
      /\ UNCHANGED <<attempts, stalls, delayed, confVars>>
  BY DEF CompleteAndReserveNext
<1>3. \/ /\ active' = [active EXCEPT ![g] = rest]
         /\ status' = done /\ lock' = free
         /\ Drop(w)
         /\ UNCHANGED <<gz, groupVars>>
      \/ /\ active[g] # <<>>
         /\ active' = [active EXCEPT ![g] = Tail(@)]
         /\ status' = done /\ lock' = free
         /\ Unqueue(g)
         /\ Drop(w)
         /\ UNCHANGED gz
      \/ /\ active[g] # <<>> /\ gz[g] # {}
         /\ active' = [active EXCEPT ![g] = <<next>> \o Tail(@)]
         /\ gz' = [gz EXCEPT ![g] = @ \ {next}]
         /\ status' = [done EXCEPT ![next] = "processing"]
         /\ lock' = [free EXCEPT ![next] = w]
         /\ Settle(g, gz[g] \ {next}, Len(active[g]))
         /\ hold' = [hold EXCEPT ![w] = next]
         /\ UNCHANGED stage
  BY DEF CompleteAndReserveNext
<1>11. \/ count' = [count EXCEPT ![g] = IF count[g] <= 1 THEN 0 ELSE @ - 1]
       \/ count' = [count EXCEPT ![g] = @ - 1]
  BY <1>1 DEF CompleteAndReserveNext, Inv, TypeOK
<1> HIDE DEF j
<1>4. gz[g] # {} => next \in gz[g] /\ next \in Jobs /\ status[next] = "waiting"
                    /\ GroupOf[next] = g
  BY <1>1, HasHead, ZenonT(60) DEF Inv, TypeOK, OnePlace
<1>5. gz[g] \in SUBSET Jobs /\ active[g] \in Seq(Jobs) /\ rest \in Seq(Jobs)
  BY <1>1, WithoutType DEF Inv, TypeOK
<1> HIDE DEF next, rest
<1>9. \/ UNCHANGED gz /\ status' = done /\ lock' = free
      \/ /\ gz[g] # {}
         /\ gz' = [gz EXCEPT ![g] = @ \ {next}]
         /\ status' = [done EXCEPT ![next] = "processing"]
         /\ lock' = [free EXCEPT ![next] = w]
  BY <1>3
<1>6. TypeOK'
  <2>1. ready' \in [Groups -> Nat] /\ limited' \subseteq Groups
    <3>1. UNCHANGED groupVars \/ Unqueue(g)
             \/ Settle(g, gz[g] \ {next}, Len(active[g]))
      BY <1>3
    <3>2. gz[g] \ {next} \in SUBSET Jobs
      BY <1>5
    <3>3. CASE UNCHANGED groupVars
      BY <3>3 DEF Inv, TypeOK, groupVars
    <3>4. CASE Unqueue(g)
      BY <3>4, <1>1, UnqueueType DEF Inv
    <3>5. CASE Settle(g, gz[g] \ {next}, Len(active[g]))
      BY <3>2, <3>5, <1>1, SettleType DEF Inv
    <3> QED
      BY <3>1, <3>3, <3>4, <3>5
  <2>2. active' \in [Groups -> Seq(Jobs)]
    <3>1. active[g] # <<>> => Tail(active[g]) \in Seq(Jobs)
      BY <1>5
    <3>2. active[g] # <<>> /\ gz[g] # {} => <<next>> \o Tail(active[g]) \in Seq(Jobs)
      <4>1. gz[g] # {} => <<next>> \in Seq(Jobs)
        BY <1>4
      <4> QED
        BY <3>1, <4>1
    <3> QED
      BY <3>1, <3>2, <1>3, <1>5, ZenonT(60) DEF Inv, TypeOK
  <2>3. count' \in [Groups -> Int]
    BY <1>1, <1>11, CountType DEF Inv, TypeOK
  <2>4. /\ status' \in [Jobs -> Statuses] /\ gz' \in [Groups -> SUBSET Jobs]
        /\ lock' \in [Jobs -> Slots \cup {None}]
    <3>1. done \in [Jobs -> Statuses] /\ free \in [Jobs -> Slots \cup {None}]
      BY DEF Inv, TypeOK, Statuses, Final
    <3>2. /\ gz \in [Groups -> SUBSET Jobs]
          /\ [gz EXCEPT ![g] = @ \ {next}] \in [Groups -> SUBSET Jobs]
          /\ [done EXCEPT ![next] = "processing"] \in [Jobs -> Statuses]
          /\ [free EXCEPT ![next] = w] \in [Jobs -> Slots \cup {None}]
      BY <3>1 DEF Inv, TypeOK, Statuses
    <3> HIDE DEF done, free
    <3> QED
      BY <3>1, <3>2, <1>9
  <2>5. outcome' \in [Jobs -> {None, "completed", "failed"}] /\ late' \subseteq Jobs
    BY <1>2 DEF Inv, TypeOK
  <2>6. hold' \in [Slots -> Jobs \cup {None}] /\ stage' \in [Slots -> Stages]
    <3>1. CASE Drop(w)
      BY <3>1, SlotType
    <3>2. CASE gz[g] # {} /\ hold' = [hold EXCEPT ![w] = next] /\ UNCHANGED stage
      BY <3>2, <1>4 DEF Inv, TypeOK
    <3> QED
      BY <3>1, <3>2, <1>3
  <2> QED
    BY <2>1, <2>2, <2>3, <2>4, <2>5, <2>6, <1>2 DEF Inv, TypeOK, confVars
<1>7. OnePlace'
  <2>1. CASE UNCHANGED gz /\ status' = done /\ lock' = free
    BY <2>1, <1>1, <1>2 DEF Inv, TypeOK, OnePlace, Final
  <2>2. CASE /\ gz[g] # {}
             /\ gz' = [gz EXCEPT ![g] = @ \ {next}]
             /\ status' = [done EXCEPT ![next] = "processing"]
             /\ lock' = [free EXCEPT ![next] = w]
    <3>1. next # j
      BY <2>2, <1>1, <1>4
    <3>2. w # None
      BY ConstantsAssumption
    <3>3. /\ status'[j] \in {"completed", "gone"} /\ lock'[j] = None
          /\ status'[next] = "processing" /\ lock'[next] = w
          /\ \A i \in Jobs \ {j, next} : status'[i] = status[i] /\ lock'[i] = lock[i]
      BY <2>2, <3>1, <1>1, <1>4 DEF Inv, TypeOK, Final
    <3>4. \A h \in Groups : gz'[h] = IF h = g THEN gz[g] \ {next} ELSE gz[h]
      BY <2>2 DEF Inv, TypeOK
    <3>5. UNCHANGED delayed /\ late' = late \ {j}
      BY <1>2
    <3> SUFFICES ASSUME NEW i \in Jobs
          PROVE  /\ \A h \in Groups :
                      i \in gz'[h] <=> h = GroupOf[i] /\ status'[i] = "waiting"
                 /\ i \in delayed' <=> status'[i] = "delayed"
                 /\ status'[i] = "processing" => lock'[i] # None
                 /\ lock'[i] # None => status'[i] \in {"processing", "failed", "gone"}
                 /\ i \in late' => lock'[i] # None
      BY DEF OnePlace
    <3>6. CASE i = j
      BY <3>1, <3>3, <3>4, <3>5, <3>6, <1>1 DEF Inv, OnePlace
    <3>7. CASE i = next
      <4>1. status[i] = "waiting" /\ GroupOf[i] = g
        BY <3>7, <2>2, <1>4
      <4>2. status'[i] = "processing" /\ lock'[i] # None
        BY <3>2, <3>3, <3>7
      <4>3. i \notin delayed'
        BY <4>1, <3>5 DEF Inv, OnePlace
      <4>4. \A h \in Groups : i \notin gz'[h]
        BY <4>1, <3>4, <3>7 DEF Inv, OnePlace
      <4> QED
        BY <4>2, <4>3, <4>4
    <3>8. CASE i \notin {j, next}
      BY <3>3, <3>4, <3>5, <3>8 DEF Inv, OnePlace
    <3> QED
      BY <3>6, <3>7, <3>8
  <2> QED
    BY <2>1, <2>2, <1>9
<1>8. CountCoversLive'
  <2>1. \A h \in Groups : Live(h)' \subseteq Live(h) \ {j}
    <3>1. CASE status' = done /\ lock' = free
      BY <3>1, <1>1 DEF Inv, TypeOK, Live, JobsOf, Final
    <3>2. CASE /\ gz[g] # {}
               /\ status' = [done EXCEPT ![next] = "processing"]
               /\ lock' = [free EXCEPT ![next] = w]
      BY <3>2, <1>1, <1>4 DEF Inv, TypeOK, Live, JobsOf, Final
    <3> QED
      BY <3>1, <3>2, <1>3
  <2> QED
    BY <2>1, <1>1, <1>11, LiveEnds
<1>10. RecordedIsFinal'
  <2>1. stage[w] = "running"
    BY DEF CompleteAndReserveNext, Running
  <2>2. \A v \in Slots : \/ stage'[v] # "recorded"
                         \/ hold'[v] = None
                         \/ stage[v] = "recorded" /\ hold'[v] = hold[v]
    <3>1. CASE Drop(w)
      BY <3>1, Dropped
    <3>2. CASE hold' = [hold EXCEPT ![w] = next] /\ UNCHANGED stage
      BY <3>2, <2>1 DEF Inv, TypeOK
    <3> QED
      BY <3>1, <3>2, <1>3
  <2>3. stage'[w] # "recorded"
    BY <2>1, <1>3 DEF Drop, Inv, TypeOK
  <2>4. ASSUME NEW v \in Slots, NEW i \in Jobs, lock'[i] = v, v # w
        PROVE  lock[i] = v /\ status'[i] = status[i]
    <3>1. v # None
      BY ConstantsAssumption
    <3>2. CASE status' = done /\ lock' = free
      BY <2>4, <3>1, <3>2, <1>1 DEF Inv, TypeOK
    <3>3. CASE /\ gz[g] # {}
               /\ status' = [done EXCEPT ![next] = "processing"]
               /\ lock' = [free EXCEPT ![next] = w]
      BY <2>4, <3>1, <3>3, <1>1, <1>4 DEF Inv, TypeOK
    <3> QED
      BY <3>2, <3>3, <1>9
  <2> QED
    BY <2>2, <2>3, <2>4, RecordedKept
<1> QED
  BY <1>6, <1>7, <1>8, <1>10 DEF Inv

\* The attempts of a job stay a natural number.
LEMMA BumpType ==
  ASSUME NEW n \in Nat
  PROVE  Bump(n) \in Nat
BY ConstantsAssumption DEF Bump

\* retry.lua, with and without backoff, and its answer -1.
LEMMA RetryKeepsInv ==
  ASSUME Inv, NEW w \in Slots, NEW b \in Backoffs, Retry(w, b)
  PROVE  Inv'
<1> DEFINE j    == hold[w]
           g    == GroupOf[j]
           rest == Without(active[g], {j})
<1>1. j \in Jobs /\ g \in Groups /\ lock[j] # None /\ j \in Live(g)
  BY OwnerHolds DEF Retry, Running
<1>2. attempts' = [attempts EXCEPT ![j] = Bump(@)] /\ UNCHANGED <<stalls, outcome, confVars>>
  BY DEF Retry
<1>3. attempts' \in [Jobs -> Nat]
  BY <1>1, <1>2, BumpType DEF Inv, TypeOK
<1>4. CASE attempts[j] + 1 >= MaxAttempts
  <2>1. /\ stage' = [stage EXCEPT ![w] = "exhausted"]
        /\ UNCHANGED <<status, placeVars, groupVars, hold>>
    BY <1>4 DEF Retry
  <2>2. TypeOK'
    BY <2>1, <1>2, <1>3 DEF Inv, TypeOK, Stages, placeVars, groupVars, confVars
  <2> QED
    BY <2>1, <2>2, Frame DEF placeVars, Inv, TypeOK
<1>5. CASE ~(attempts[j] + 1 >= MaxAttempts)
  <2> DEFINE backedOff == /\ delayed' = delayed \cup {j}
                          /\ status' = [status EXCEPT ![j] = "delayed"]
                          /\ gz' = [gz EXCEPT ![g] = @ \ {j}]
             givenBack == /\ gz' = [gz EXCEPT ![g] = @ \cup {j}]
                          /\ status' = [status EXCEPT ![j] = "waiting"]
                          /\ UNCHANGED delayed
  <2>1. /\ Unlock(j)
        /\ active' = [active EXCEPT ![g] = rest]
        /\ backedOff \/ givenBack
        /\ \/ Unqueue(g)
           \/ /\ gz[g] \ {j} # {}
              /\ ready' = [ready EXCEPT ![g] = IF @ = 0 THEN 0
                                               ELSE HeadScore(gz[g] \ {j})]
              /\ UNCHANGED limited
           \/ Requeue(g, gz[g] \cup {j}, Len(rest))
        /\ Drop(w)
        /\ UNCHANGED count
    BY <1>5 DEF Retry
  <2> HIDE DEF j, rest
  <2>2. ready' \in [Groups -> Nat] /\ limited' \subseteq Groups
    <3>1. gz[g] \ {j} \in SUBSET Jobs /\ gz[g] \cup {j} \in SUBSET Jobs
      BY <1>1 DEF Inv, TypeOK
    <3>2. CASE Unqueue(g)
      BY <3>2, <1>1, UnqueueType DEF Inv
    <3>3. CASE /\ gz[g] \ {j} # {}
               /\ ready' = [ready EXCEPT ![g] = IF @ = 0 THEN 0
                                                ELSE HeadScore(gz[g] \ {j})]
               /\ UNCHANGED limited
      <4>1. HeadScore(gz[g] \ {j}) \in Nat
        BY <3>1, <3>3, HeadScoreType
      <4> QED
        BY <3>3, <4>1 DEF Inv, TypeOK
    <3>4. CASE Requeue(g, gz[g] \cup {j}, Len(rest))
      BY <3>1, <3>4, <1>1, RequeueType DEF Inv
    <3> QED
      BY <2>1, <3>2, <3>3, <3>4
  <2>3. active' \in [Groups -> Seq(Jobs)]
    <3>1. rest \in Seq(Jobs)
      BY <1>1, WithoutType DEF rest, Inv, TypeOK
    <3> QED
      BY <2>1, <3>1 DEF Inv, TypeOK
  <2>4. /\ status' \in [Jobs -> Statuses] /\ gz' \in [Groups -> SUBSET Jobs]
        /\ delayed' \subseteq Jobs
    <3>1. CASE backedOff
      BY <3>1, <1>1 DEF Inv, TypeOK, Statuses
    <3>2. CASE givenBack
      BY <3>2, <1>1 DEF Inv, TypeOK, Statuses
    <3> QED
      BY <3>1, <3>2, <2>1
  <2>5. /\ lock' \in [Jobs -> Slots \cup {None}] /\ late' \subseteq Jobs
        /\ hold' \in [Slots -> Jobs \cup {None}] /\ stage' \in [Slots -> Stages]
    BY <2>1, <1>1, UnlockType, SlotType
  <2>6. TypeOK'
    BY <2>1, <2>2, <2>3, <2>4, <2>5, <1>2, <1>3 DEF Inv, TypeOK, confVars
  <2>7. OnePlace'
    <3>1. CASE backedOff
      BY <2>1, <3>1, <1>1 DEF Inv, TypeOK, OnePlace, Unlock
    <3>2. CASE givenBack
      BY <2>1, <3>2, <1>1 DEF Inv, TypeOK, OnePlace, Unlock
    <3> QED
      BY <3>1, <3>2, <2>1
  <2>8. \A h \in Groups : Live(h)' \subseteq Live(h)
    BY <2>1, <1>1 DEF Inv, TypeOK, Live, JobsOf, Unlock
  <2>9. RecordedIsFinal'
    <3>1. \A i \in Jobs \ {j} : status'[i] = status[i] /\ lock'[i] = lock[i]
      BY <2>1, <1>1 DEF Inv, TypeOK, Unlock
    <3>2. lock'[j] = None
      BY <2>1, <1>1 DEF Inv, TypeOK, Unlock
    <3> QED
      BY <2>1, <3>1, <3>2, Dropped, RecordedKept, ConstantsAssumption
  <2> QED
    BY <2>1, <2>6, <2>7, <2>8, <2>9, LiveShrinks DEF Inv
<1> QED
  BY <1>4, <1>5

-----------------------------------------------------------------------------
(* Final failures and recovery.                                            *)

\* record-job-result.lua.
LEMMA RecordFinalFailureKeepsInv ==
  ASSUME Inv, NEW w \in Slots, RecordFinalFailure(w)
  PROVE  Inv'
<1> DEFINE j == hold[w]
<1>1. j \in Jobs /\ lock[j] # None
  BY OwnerHolds DEF RecordFinalFailure
<1>2. /\ stage' = [stage EXCEPT ![w] = "recorded"]
      /\ UNCHANGED <<attempts, stalls, placeVars, groupVars, confVars, hold>>
      /\ \/ UNCHANGED <<status, outcome>> /\ status[j] \in {"waiting", "gone"}
         \/ /\ status' = [status EXCEPT ![j] = Final(KeepFailed, "failed")]
            /\ outcome' = [outcome EXCEPT ![j] = "failed"]
            /\ status[j] \notin {"waiting", "gone"}
  BY DEF RecordFinalFailure, jobVars
<1> HIDE DEF j
<1>3. TypeOK'
  <2>1. /\ status' \in [Jobs -> Statuses] /\ stage' \in [Slots -> Stages]
        /\ outcome' \in [Jobs -> {None, "completed", "failed"}]
    BY <1>2 DEF Inv, TypeOK, Statuses, Stages, Final
  <2> QED
    BY <2>1, <1>2 DEF Inv, TypeOK, placeVars, groupVars, confVars
<1>4. OnePlace'
  BY <1>1, <1>2 DEF Inv, TypeOK, OnePlace, Final, placeVars
<1>5. CountCoversLive'
  <2>1. \A g \in Groups : Live(g)' \subseteq Live(g)
    BY <1>1, <1>2 DEF Inv, TypeOK, Live, JobsOf, placeVars
  <2> QED
    BY <2>1, <1>2, LiveShrinks DEF placeVars
<1>6. RecordedIsFinal'
  <2>1. status'[j] \in {"failed", "gone"}
    BY <1>1, <1>2 DEF Inv, TypeOK, OnePlace, Final
  <2>2. \A i \in Jobs \ {j} : status'[i] = status[i]
    BY <1>2 DEF Inv, TypeOK
  <2>3. \A v \in Slots \ {w} : stage'[v] = stage[v]
    BY <1>2 DEF Inv, TypeOK
  <2>4. lock[j] = w
    BY DEF RecordFinalFailure, Owns, j
  <2> QED
    BY <2>1, <2>2, <2>3, <2>4, <1>2 DEF Inv, TypeOK, RecordedIsFinal, Owns, j, placeVars
<1> QED
  BY <1>3, <1>4, <1>5, <1>6 DEF Inv

\* dead-letter.lua: RecordedIsFinal tells that the job it takes the lock of is final,
\* so that nothing is left in two places.
LEMMA DeadLetterKeepsInv ==
  ASSUME Inv, NEW w \in Slots, DeadLetter(w)
  PROVE  Inv'
<1> DEFINE j    == hold[w]
           g    == GroupOf[j]
           rest == Without(active[g], {j})
<1>1. /\ j \in Jobs /\ g \in Groups /\ lock[j] # None /\ j \in Live(g)
      /\ status[j] \in {"failed", "gone"}
  BY OwnerHolds DEF DeadLetter, Inv, RecordedIsFinal
<1>2. /\ Unlock(j)
      /\ delayed' = delayed \ {j}
      /\ gz' = [gz EXCEPT ![g] = IF count[g] <= 1 THEN {} ELSE @ \ {j}]
      /\ active' = [active EXCEPT ![g] = IF count[g] <= 1 THEN <<>> ELSE rest]
      /\ count' = [count EXCEPT ![g] = IF count[g] <= 1 THEN 0 ELSE @ - 1]
      /\ Unqueue(g) \/ Requeue(g, gz[g] \ {j}, Len(rest))
      /\ Drop(w)
      /\ UNCHANGED <<jobVars, confVars>>
  BY DEF DeadLetter
<1> HIDE DEF j
<1>3. TypeOK'
  <2>1. gz[g] \ {j} \in SUBSET Jobs /\ active[g] \in Seq(Jobs) /\ rest \in Seq(Jobs)
    BY <1>1, WithoutType DEF Inv, TypeOK
  <2> HIDE DEF rest
  <2>2. ready' \in [Groups -> Nat] /\ limited' \subseteq Groups
    BY <1>1, <1>2, <2>1, UnqueueType, RequeueType DEF Inv
  <2>3. active' \in [Groups -> Seq(Jobs)]
    <3>1. <<>> \in Seq(Jobs)
      OBVIOUS
    <3> QED
      BY <3>1, <2>1, <1>2 DEF Inv, TypeOK
  <2>4. count' \in [Groups -> Int]
    BY <1>1, <1>2, CountType DEF Inv
  <2>5. gz' \in [Groups -> SUBSET Jobs] /\ delayed' \subseteq Jobs
    BY <1>2 DEF Inv, TypeOK
  <2>6. /\ lock' \in [Jobs -> Slots \cup {None}] /\ late' \subseteq Jobs
        /\ hold' \in [Slots -> Jobs \cup {None}] /\ stage' \in [Slots -> Stages]
    BY <1>1, <1>2, UnlockType, SlotType
  <2> QED
    BY <2>2, <2>3, <2>4, <2>5, <2>6, <1>2 DEF Inv, TypeOK, jobVars, confVars
<1>4. gz[g] = {} \/ count[g] > 1
  <2>1. CASE count[g] <= 1
    <3>1. Live(g) = {j}
      BY <2>1, <1>1, OnlyOneLive
    <3>2. \A i \in gz[g] : i \in Live(g) /\ status[i] = "waiting"
      BY <1>1 DEF Inv, TypeOK, OnePlace, Live, JobsOf
    <3> QED
      BY <3>1, <3>2, <1>1
  <2> QED
    BY <2>1, <1>1 DEF Inv, TypeOK
<1>5. UNCHANGED gz
  <2>1. gz[g] \ {j} = gz[g]
    BY <1>1 DEF Inv, OnePlace
  <2>2. gz' = [gz EXCEPT ![g] = gz[g]]
    <3>1. count[g] <= 1 => gz[g] = {}
      BY <1>1, <1>4 DEF Inv, TypeOK
    <3> QED
      BY <2>1, <3>1, <1>2
  <2> QED
    BY <2>2, <1>1 DEF Inv, TypeOK
<1>6. OnePlace'
  BY <1>1, <1>2, <1>5 DEF Inv, TypeOK, OnePlace, Unlock, jobVars
<1>7. CountCoversLive'
  <2>1. \A h \in Groups : Live(h)' \subseteq Live(h) \ {j}
    BY <1>1, <1>2 DEF Inv, TypeOK, OnePlace, Live, JobsOf, Unlock, jobVars
  <2> QED
    BY <2>1, <1>1, <1>2, LiveEnds
<1>8. RecordedIsFinal'
  BY <1>1, <1>2, Dropped, RecordedKept, ConstantsAssumption
    DEF Unlock, Inv, TypeOK, jobVars
<1> QED
  BY <1>3, <1>6, <1>7, <1>8 DEF Inv

\* check-stalled.lua.
LEMMA CheckStalledKeepsInv ==
  ASSUME Inv, NEW j \in Jobs, CheckStalled(j)
  PROVE  Inv'
<1> DEFINE g         == GroupOf[j]
           rest      == Without(active[g], {j})
           failed    == /\ status' = [status EXCEPT ![j] = "failed"]
                        /\ outcome' = [outcome EXCEPT ![j] = "failed"]
                        /\ gz' = [gz EXCEPT ![g] = @ \ {j}]
                        /\ UNCHANGED groupVars
           givenBack == /\ gz' = [gz EXCEPT ![g] = @ \cup {j}]
                        /\ status' = [status EXCEPT ![j] = "waiting"]
                        /\ Requeue(g, gz[g] \cup {j}, Len(rest))
                        /\ UNCHANGED outcome
<1>1. /\ g \in Groups /\ j \in late /\ status[j] = "processing"
      /\ lock[j] # None /\ j \in Live(g)
  BY ConstantsAssumption DEF CheckStalled, Inv, OnePlace, Live, JobsOf
<1>2. /\ stalls' = [stalls EXCEPT ![j] = @ + 1]
      /\ attempts' = [attempts EXCEPT ![j] = Bump(@)]
      /\ active' = [active EXCEPT ![g] = rest]
      /\ Unlock(j)
      /\ failed \/ givenBack
      /\ UNCHANGED <<delayed, count, confVars, slotVars>>
  BY DEF CheckStalled
<1>3. TypeOK'
  <2>1. gz[g] \cup {j} \in SUBSET Jobs /\ rest \in Seq(Jobs)
    BY <1>1, WithoutType DEF Inv, TypeOK
  <2> HIDE DEF rest
  <2>2. stalls' \in [Jobs -> Nat] /\ attempts' \in [Jobs -> Nat]
    <3>1. stalls[j] + 1 \in Nat /\ Bump(attempts[j]) \in Nat
      BY BumpType DEF Inv, TypeOK
    <3> QED
      BY <3>1, <1>2 DEF Inv, TypeOK
  <2>3. active' \in [Groups -> Seq(Jobs)]
    BY <1>2, <2>1 DEF Inv, TypeOK
  <2>4. lock' \in [Jobs -> Slots \cup {None}] /\ late' \subseteq Jobs
    BY <1>2, UnlockType
  <2>5. /\ status' \in [Jobs -> Statuses] /\ gz' \in [Groups -> SUBSET Jobs]
        /\ outcome' \in [Jobs -> {None, "completed", "failed"}]
        /\ ready' \in [Groups -> Nat] /\ limited' \subseteq Groups
    <3>1. CASE failed
      BY <3>1 DEF Inv, TypeOK, Statuses, groupVars
    <3>2. CASE givenBack
      <4>1. ready' \in [Groups -> Nat] /\ limited' \subseteq Groups
        BY <3>2, <2>1, <1>1, RequeueType DEF Inv
      <4> QED
        BY <4>1, <3>2 DEF Inv, TypeOK, Statuses
    <3> QED
      BY <3>1, <3>2, <1>2
  <2> QED
    BY <2>2, <2>3, <2>4, <2>5, <1>2 DEF Inv, TypeOK, confVars, slotVars
<1>4. OnePlace'
  <2>1. CASE failed
    BY <2>1, <1>1, <1>2 DEF Inv, TypeOK, OnePlace, Unlock
  <2>2. CASE givenBack
    BY <2>2, <1>1, <1>2 DEF Inv, TypeOK, OnePlace, Unlock
  <2> QED
    BY <2>1, <2>2, <1>2
<1>5. CountCoversLive'
  <2>1. \A h \in Groups : Live(h)' \subseteq Live(h)
    BY <1>1, <1>2 DEF Inv, TypeOK, Live, JobsOf, Unlock
  <2> QED
    BY <2>1, <1>2, LiveShrinks
<1>6. RecordedIsFinal'
  <2>1. \A i \in Jobs \ {j} : status'[i] = status[i] /\ lock'[i] = lock[i]
    BY <1>2 DEF Inv, TypeOK, Unlock
  <2>2. lock'[j] = None
    BY <1>2 DEF Inv, TypeOK, Unlock
  <2> QED
    BY <1>2, <2>1, <2>2, RecordedKept, ConstantsAssumption DEF slotVars
<1> QED
  BY <1>3, <1>4, <1>5, <1>6 DEF Inv

\* cleanup.lua.
LEMMA CleanupKeepsInv ==
  ASSUME Inv, NEW j \in Jobs, Cleanup(j)
  PROVE  Inv'
<1> DEFINE g == GroupOf[j]
<1>1. g \in Groups /\ lock[j] # None /\ status[j] # "gone" /\ j \in Live(g)
  BY ConstantsAssumption DEF Cleanup, Expired, Inv, OnePlace, Live, JobsOf
<1>2. TypeOK'
  <2>1. gz[g] \cup {j} \in SUBSET Jobs /\ Without(active[g], {j}) \in Seq(Jobs)
    BY <1>1, WithoutType DEF Inv, TypeOK
  <2>2. ready' \in [Groups -> Nat] /\ limited' \subseteq Groups
    BY <2>1, <1>1, RequeueType DEF Cleanup, Inv
  <2>3. active' \in [Groups -> Seq(Jobs)]
    BY <2>1 DEF Cleanup, Inv, TypeOK
  <2>4. status' \in [Jobs -> Statuses] /\ gz' \in [Groups -> SUBSET Jobs]
    BY DEF Cleanup, Inv, TypeOK, Statuses
  <2>5. lock' \in [Jobs -> Slots \cup {None}] /\ late' \subseteq Jobs
    BY UnlockType DEF Cleanup
  <2> QED
    BY <2>2, <2>3, <2>4, <2>5 DEF Cleanup, Inv, TypeOK, confVars, slotVars
<1>3. OnePlace'
  BY <1>1 DEF Cleanup, Inv, TypeOK, OnePlace, Unlock
<1>4. CountCoversLive'
  <2>1. \A h \in Groups : Live(h)' \subseteq Live(h)
    BY <1>1 DEF Cleanup, Inv, TypeOK, Live, JobsOf, Unlock
  <2> QED
    BY <2>1, LiveShrinks DEF Cleanup
<1>5. RecordedIsFinal'
  BY RecordedKept, ConstantsAssumption DEF Cleanup, Unlock, slotVars, Inv, TypeOK
<1> QED
  BY <1>2, <1>3, <1>4, <1>5 DEF Inv

-----------------------------------------------------------------------------
(* The theorems.                                                           *)

\* The empty queue satisfies Inv.
LEMMA InitInv == Init => Inv
<1> SUFFICES ASSUME Init PROVE Inv
  OBVIOUS
<1> USE ConstantsAssumption DEF Init
<1>1. TypeOK
  <2>1. StartLimit \in Nat
    OBVIOUS
  <2>2. active \in [Groups -> Seq(Jobs)]
    <3>1. <<>> \in Seq(Jobs)
      OBVIOUS
    <3> QED
      BY <3>1
  <2>3. /\ status \in [Jobs -> Statuses] /\ stage \in [Slots -> Stages]
        /\ hold \in [Slots -> Jobs \cup {None}]
    BY DEF Statuses, Stages
  <2>4. /\ attempts \in [Jobs -> Nat] /\ stalls \in [Jobs -> Nat]
        /\ outcome \in [Jobs -> {None, "completed", "failed"}]
        /\ lock \in [Jobs -> Slots \cup {None}] /\ late \subseteq Jobs
    OBVIOUS
  <2>5. /\ gz \in [Groups -> SUBSET Jobs] /\ delayed \subseteq Jobs
        /\ limited \subseteq Groups /\ paused \in BOOLEAN
    OBVIOUS
  <2>7. count \in [Groups -> Int] /\ ready \in [Groups -> Nat]
    <3>1. 0 \in Int /\ 0 \in Nat
      OBVIOUS
    <3> QED
      BY <3>1
  <2>6. limit \in [Groups -> Nat]
    BY <2>1
  <2> QED
    BY <2>2, <2>3, <2>4, <2>5, <2>6, <2>7 DEF TypeOK
<1>2. OnePlace
  BY DEF OnePlace
<1>3. CountCoversLive
  <2>1. \A g \in Groups : Live(g) = {}
    BY DEF Live, JobsOf
  <2>2. \A g \in Groups : Cardinality(Live(g)) = 0 /\ count[g] = 0
    BY <2>1, FS_EmptySet
  <2> QED
    BY <2>2 DEF CountCoversLive
<1>4. RecordedIsFinal
  BY DEF RecordedIsFinal
<1> QED
  BY <1>1, <1>2, <1>3, <1>4 DEF Inv

\* A stuttering step keeps Inv.
LEMMA StutterKeepsInv ==
  ASSUME Inv, UNCHANGED vars
  PROVE  Inv'
<1>1. TypeOK'
  BY DEF Inv, TypeOK, vars, jobVars, placeVars, groupVars, confVars, slotVars
<1> QED
  BY <1>1, Frame DEF vars, jobVars, placeVars, slotVars

\* Every action keeps Inv.
LEMMA NextKeeps ==
  ASSUME Inv, Next
  PROVE  Inv'
<1>1. CASE \E j \in Jobs : Add(j) \/ AddDelayed(j) \/ Promote(j)
  BY <1>1, AddKeepsInv, AddDelayedKeepsInv, PromoteKeepsInv
<1>2. CASE \E w \in Slots : Reserve(w)
  BY <1>2, ReserveNoneKeepsInv, ReserveJobKeepsInv DEF Reserve
<1>3. CASE \E w \in Slots : Finish(w)
  BY <1>3, CompleteJobKeepsInv, NextKeepsInv, RetryKeepsInv,
     RecordFinalFailureKeepsInv, DeadLetterKeepsInv, LockLostKeepsInv DEF Finish
<1>4. CASE \E w \in Slots : Heartbeat(w) \/ Crash(w)
  BY <1>4, HeartbeatKeepsInv, CrashKeepsInv
<1>5. CASE \E W \in SUBSET Slots : ReserveBatch(W)
  BY <1>5, ReserveBatchKeepsInv
<1>6. CASE \E w \in Slots, g \in Groups : ReserveAtomic(w, g)
  BY <1>6, ReserveAtomicKeepsInv
<1>7. CASE \E j \in Jobs : DeadlinePasses(j) \/ CheckStalled(j) \/ Cleanup(j)
  BY <1>7, DeadlinePassesKeepsInv, CheckStalledKeepsInv, CleanupKeepsInv
<1>8. CASE \E g \in Groups, n \in Limits : SetConcurrency(g, n)
  BY <1>8, SetConcurrencyKeepsInv
<1>9. CASE Pause \/ Resume
  BY <1>9, PauseKeepsInv
<1> QED
  BY <1>1, <1>2, <1>3, <1>4, <1>5, <1>6, <1>7, <1>8, <1>9 DEF Next

\* Inv is an inductive invariant of the queue, for every number of jobs, groups and
\* slots, every limit and every setting.
THEOREM Invariance == Spec => []Inv
<1>1. Inv /\ [Next]_vars => Inv'
  BY NextKeeps, StutterKeepsInv
<1> QED
  BY <1>1, InitInv, PTL DEF Spec

\* Every key holds what it can hold, in every reachable state.
THEOREM TypeCorrect == Spec => []TypeOK
<1>1. Inv => TypeOK
  BY DEF Inv
<1> QED
  BY <1>1, Invariance, PTL

\* In every reachable state each job is in the one set its status names, whatever the
\* order of calls, crashes and recoveries.
THEOREM OnePlaceHolds == Spec => []OnePlace
<1>1. Inv => OnePlace
  BY DEF Inv
<1> QED
  BY <1>1, Invariance, PTL

\* In every reachable state the job count of a group covers its unfinished jobs, so
\* the deletion of an empty group's keys never takes a live job with it.
THEOREM CountCoversLiveHolds == Spec => []CountCoversLive
<1>1. Inv => CountCoversLive
  BY DEF Inv
<1> QED
  BY <1>1, Invariance, PTL

-----------------------------------------------------------------------------
(* Only the owner of the lock, or the stalled check, decides.              *)

\* The action of OutcomeByOwner.
OwnerDecides ==
  \A j \in Jobs : outcome'[j] # outcome[j] =>
    \/ /\ lock[j] \in Slots /\ hold[lock[j]] = j
       /\ \A w \in Slots : Acts(w) <=> w = lock[j]
    \/ j \in late /\ outcome'[j] = "failed"

\* The only scripts that record a result.
LEMMA OutcomeWriters ==
  ASSUME Next
  PROVE  \/ UNCHANGED outcome
         \/ \E w \in Slots : CompleteJob(w) \/ CompleteAndReserveNext(w)
                               \/ RecordFinalFailure(w)
         \/ \E j \in Jobs : CheckStalled(j)
BY DEF Next, Add, AddDelayed, Promote, Reserve, ReserveNone, ReserveJob, Finish,
  Retry, DeadLetter, LockLost, Heartbeat, Crash, ReserveBatch, ReserveAtomic,
  DeadlinePasses, Cleanup, SetConcurrency, Pause, Resume, queueVars, jobVars

\* Each of them passes the token check, and only the slot that passed it acts, or
\* they act after the deadline.
LEMMA NextOwnerDecides ==
  ASSUME Inv, Next
  PROVE  OwnerDecides
<1>1. ASSUME NEW w \in Slots, hold[w] # None, Owns(w, hold[w]), Acts(w),
             \A v \in Slots : v # w => ~Acts(v),
             \A j \in Jobs : j # hold[w] => outcome'[j] = outcome[j]
      PROVE  OwnerDecides
  BY <1>1 DEF OwnerDecides, Owns
<1>2. ASSUME NEW w \in Slots, CompleteJob(w) \/ CompleteAndReserveNext(w)
      PROVE  OwnerDecides
  <2>1. hold[w] # None /\ Owns(w, hold[w]) /\ status[hold[w]] = "processing"
    BY <1>2 DEF CompleteJob, CompleteAndReserveNext, Running, Accepted
  <2>2. outcome' = [outcome EXCEPT ![hold[w]] = "completed"]
    BY <1>2 DEF CompleteJob, CompleteAndReserveNext
  <2>3. hold' = [hold EXCEPT ![w] = hold'[w]] /\ stage' = [stage EXCEPT ![w] = stage'[w]]
    BY <1>2 DEF CompleteJob, CompleteAndReserveNext, Drop, Inv, TypeOK
  <2>4. hold'[w] # hold[w]
    <3>1. CASE Drop(w)
      BY <2>1, <3>1 DEF Drop, Inv, TypeOK
    <3>2. CASE /\ gz[GroupOf[hold[w]]] # {}
               /\ hold' = [hold EXCEPT ![w] = Head1(gz[GroupOf[hold[w]]])]
      <4> DEFINE g == GroupOf[hold[w]]
      <4>1. hold[w] \in Jobs /\ g \in Groups
        BY <2>1, ConstantsAssumption DEF Inv, TypeOK
      <4>2. gz[g] \in SUBSET Jobs
        BY <4>1 DEF Inv, TypeOK
      <4>3. Head1(gz[g]) \in gz[g]
        BY <3>2, <4>2, HasHead
      <4>4. hold[w] \notin gz[g]
        BY <2>1, <4>1 DEF Inv, OnePlace
      <4> QED
        BY <3>2, <4>3, <4>4 DEF Inv, TypeOK
    <3> QED
      BY <1>2, <3>1, <3>2 DEF CompleteJob, CompleteAndReserveNext
  <2> QED
    BY <1>1, <2>1, <2>2, <2>3, <2>4 DEF Acts, Inv, TypeOK
<1>3. ASSUME NEW w \in Slots, RecordFinalFailure(w)
      PROVE  OwnerDecides
  <2>1. hold[w] # None /\ Owns(w, hold[w])
    BY <1>3 DEF RecordFinalFailure
  <2>2. UNCHANGED outcome \/ outcome' = [outcome EXCEPT ![hold[w]] = "failed"]
    BY <1>3 DEF RecordFinalFailure, jobVars
  <2>3. Acts(w) /\ \A v \in Slots : v # w => ~Acts(v)
    BY <1>3 DEF RecordFinalFailure, Acts, Inv, TypeOK
  <2> QED
    BY <1>1, <2>1, <2>2, <2>3 DEF Inv, TypeOK
<1>4. ASSUME NEW j \in Jobs, CheckStalled(j)
      PROVE  OwnerDecides
  <2>1. j \in late /\ (UNCHANGED outcome \/ outcome' = [outcome EXCEPT ![j] = "failed"])
    BY <1>4 DEF CheckStalled
  <2> QED
    BY <2>1 DEF OwnerDecides, Inv, TypeOK
<1> QED
  BY <1>2, <1>3, <1>4, OutcomeWriters DEF OwnerDecides

\* A slot that lost its lock decides nothing: in every step a result comes from the slot
\* that holds both job and lock, or from the stalled check after the deadline.
THEOREM OutcomeByOwnerHolds == Spec => OutcomeByOwner
<1>1. Inv /\ [Next]_vars => [OwnerDecides]_vars
  BY NextOwnerDecides
<1> QED
  BY <1>1, Invariance, PTL DEF Spec, OutcomeByOwner, OwnerDecides

-----------------------------------------------------------------------------
(* Only the owner of the lock extends it.                                  *)

\* The action of RenewalByOwner.
OwnerRenews == \A j \in late \ late' : lock'[j] # None => hold'[lock'[j]] = j

\* A late job that a reserve call takes back and hands out again is in the hands of
\* the slot that got it.
LEMMA LockAllRenews ==
  ASSUME Inv, NEW R, NEW f, LockAll(R, f),
         \A i \in DOMAIN f : f[i] \in Slots,
         \A i, k \in DOMAIN f : f[i] = f[k] => i = k
  PROVE  OwnerRenews
<1> SUFFICES ASSUME NEW j \in late, j \notin late', lock'[j] # None
             PROVE  hold'[lock'[j]] = j
  BY DEF OwnerRenews
<1>1. j \in Jobs /\ j \in R \cup DOMAIN f
  BY DEF Inv, TypeOK, LockAll
<1>2. j \in DOMAIN f /\ lock'[j] = f[j]
  BY <1>1 DEF LockAll
<1>3. hold'[f[j]] = CHOOSE i \in DOMAIN f : f[i] = f[j]
  BY <1>2 DEF LockAll
<1> QED
  BY <1>2, <1>3

\* Who takes a deadline back: reserve calls, calls that unlock the job, and heartbeats.
LEMMA NextRenews ==
  ASSUME Inv, Next
  PROVE  OwnerRenews
<1>1. ASSUME late \subseteq late'
      PROVE  OwnerRenews
  BY <1>1 DEF OwnerRenews
<1>2. ASSUME NEW j \in Jobs, late' = late \ {j},
             lock'[j] = None \/ hold'[lock'[j]] = j
      PROVE  OwnerRenews
  BY <1>2 DEF OwnerRenews
<1>3. ASSUME NEW j \in Jobs, Unlock(j)
      PROVE  OwnerRenews
  BY <1>2, <1>3 DEF Unlock, Inv, TypeOK
<1>4. ASSUME NEW j \in Jobs, Add(j) \/ AddDelayed(j) \/ Promote(j) \/ DeadlinePasses(j)
                               \/ CheckStalled(j) \/ Cleanup(j)
      PROVE  OwnerRenews
  BY <1>1, <1>3, <1>4 DEF Add, AddDelayed, Promote, DeadlinePasses, CheckStalled, Cleanup
<1>5. ASSUME NEW w \in Slots, Reserve(w)
      PROVE  OwnerRenews
  <2>1. ASSUME NEW R, NEW S, LockAll(R, [i \in S |-> w]), \A i, k \in S : i = k
        PROVE  OwnerRenews
    BY <2>1, LockAllRenews
  <2>2. CASE ReserveNone(w)
    <3>1. PICK R \in SweepChoice : LockAll(R, [j \in {} |-> w])
      BY <2>2 DEF ReserveNone, FindNothing
    <3> DEFINE f == [j \in {} |-> w]
    <3>2. DOMAIN f = {} /\ LockAll(R, f)
      BY <3>1
    <3> HIDE DEF f
    <3> QED
      BY <3>2, LockAllRenews
  <2>3. CASE ReserveJob(w)
    <3>1. PICK R \in SweepChoice : \E g \in Candidates(R) : HandOut(w, R, g)
      BY <2>3 DEF ReserveJob
    <3>2. PICK g \in Candidates(R) : HandOut(w, R, g)
      BY <3>1
    <3>3. LockAll(R, [i \in {Head1(WaitingAfter(R)[g])} |-> w])
      BY <3>2 DEF HandOut
    <3> QED
      BY <2>1, <3>3
  <2> QED
    BY <1>5, <2>2, <2>3 DEF Reserve
<1>6. ASSUME NEW W \in SUBSET Slots, ReserveBatch(W)
      PROVE  OwnerRenews
  <2>1. PICK R : \E f \in [Batch(R, Cardinality(W)) -> W] :
                   TakeBatch(R, Cardinality(W), f)
    BY <1>6 DEF ReserveBatch
  <2>2. PICK f \in [Batch(R, Cardinality(W)) -> W] : TakeBatch(R, Cardinality(W), f)
    BY <2>1
  <2> QED
    BY <2>2, LockAllRenews DEF TakeBatch
<1>7. ASSUME NEW w \in Slots, NEW g \in Groups, ReserveAtomic(w, g)
      PROVE  OwnerRenews
  <2>1. CASE LockAll({}, [i \in {Head1(gz[g])} |-> w])
    BY <2>1, LockAllRenews
  <2> QED
    BY <1>1, <1>7, <2>1 DEF ReserveAtomic
<1>8. ASSUME NEW w \in Slots, CompleteJob(w) \/ DeadLetter(w)
      PROVE  OwnerRenews
  <2>1. hold[w] \in Jobs /\ Unlock(hold[w])
    BY <1>8 DEF CompleteJob, DeadLetter, Running, Inv, TypeOK
  <2> QED
    BY <1>3, <2>1
<1>9. ASSUME NEW w \in Slots, CompleteAndReserveNext(w)
      PROVE  OwnerRenews
  <2> DEFINE j == hold[w]
             g == GroupOf[j]
  <2>1. j \in Jobs /\ g \in Groups /\ late' = late \ {j} /\ status[j] = "processing"
    BY <1>9, ConstantsAssumption DEF CompleteAndReserveNext, Running, Accepted, Inv, TypeOK
  <2>2. CASE lock' = [lock EXCEPT ![j] = None]
    BY <1>2, <2>1, <2>2 DEF Inv, TypeOK
  <2>3. CASE gz[g] # {} /\ lock' = [[lock EXCEPT ![j] = None] EXCEPT ![Head1(gz[g])] = w]
    <3>1. Head1(gz[g]) # j
      <4>1. gz[g] \in SUBSET Jobs
        BY <2>1 DEF Inv, TypeOK
      <4>2. Head1(gz[g]) \in gz[g]
        BY <2>3, <4>1, HasHead
      <4>3. j \notin gz[g]
        BY <2>1 DEF Inv, OnePlace
      <4> QED
        BY <4>2, <4>3
    <3>2. lock'[j] = None
      BY <2>1, <2>3, <3>1 DEF Inv, TypeOK
    <3> QED
      BY <1>2, <2>1, <3>2
  <2> QED
    BY <1>9, <2>2, <2>3 DEF CompleteAndReserveNext
<1>10. ASSUME NEW w \in Slots, NEW b \in Backoffs, Retry(w, b)
       PROVE  OwnerRenews
  <2>1. hold[w] \in Jobs
    BY <1>10 DEF Retry, Running, Inv, TypeOK
  <2>2. CASE Unlock(hold[w])
    BY <1>3, <2>1, <2>2
  <2>3. CASE UNCHANGED placeVars
    BY <1>1, <2>3 DEF placeVars
  <2> QED
    BY <1>10, <2>2, <2>3 DEF Retry
<1>11. ASSUME NEW w \in Slots, Heartbeat(w)
       PROVE  OwnerRenews
  <2>1. /\ hold[w] \in Jobs /\ lock[hold[w]] = w
        /\ late' = late \ {hold[w]} /\ UNCHANGED <<lock, hold>>
    BY <1>11 DEF Heartbeat, Running, Owns, slotVars, Inv, TypeOK
  <2> QED
    BY <1>2, <2>1
<1>12. ASSUME NEW w \in Slots, RecordFinalFailure(w) \/ LockLost(w) \/ Crash(w)
       PROVE  OwnerRenews
  BY <1>1, <1>12 DEF RecordFinalFailure, LockLost, Crash, placeVars, queueVars
<1>13. ASSUME NEW g \in Groups, NEW n \in Limits, SetConcurrency(g, n)
       PROVE  OwnerRenews
  BY <1>1, <1>13 DEF SetConcurrency, placeVars
<1>14. CASE Pause \/ Resume
  BY <1>1, <1>14 DEF Pause, Resume, placeVars
<1> QED
  BY <1>4, <1>5, <1>6, <1>7, <1>8, <1>9, <1>10, <1>11, <1>12, <1>13, <1>14 DEF Next, Finish

\* The heartbeat of a slot whose lock went to another extends nothing, for every number
\* of slots: what takes a deadline back is the owner's heartbeat or a new reservation.
THEOREM RenewalByOwnerHolds == Spec => RenewalByOwner
<1>1. Inv /\ [Next]_vars => [OwnerRenews]_vars
  BY NextRenews
<1> QED
  BY <1>1, Invariance, PTL DEF Spec, RenewalByOwner, OwnerRenews

-----------------------------------------------------------------------------
(* A job ends once.                                                        *)

\* What is inductive about a job with a recorded result: its hash is final or gone, it is
\* locked only between the two calls of deadLetterJob, by the slot that made the first.
Ended ==
  \A j \in Jobs : outcome[j] # None =>
    /\ status[j] \in {"completed", "failed", "gone"}
    /\ lock[j] # None => status[j] = "gone"
    /\ \A w \in Slots : lock[j] = w /\ hold[w] = j => stage[w] = "recorded"

\* A slot keeps its job and stage, drops the job, or gets one without a result.
SlotsKept ==
  \A w \in Slots :
    \/ hold'[w] = hold[w] /\ stage'[w] = stage[w]
    \/ hold'[w] = None
    \/ hold'[w] \in Jobs /\ outcome[hold'[w]] = None

\* Freeing a slot is such a change.
LEMMA DropKeepsSlots ==
  ASSUME Inv, NEW w \in Slots, Drop(w)
  PROVE  SlotsKept
BY DEF Drop, SlotsKept, Inv, TypeOK

\* The action of OneOutcome.
StaysEnded ==
  \A j \in Jobs : outcome[j] # None =>
    /\ outcome'[j] = outcome[j]
    /\ lock'[j] # None => lock'[j] = lock[j]

\* A step that writes no result and leaves the ended jobs and their slots alone.
LEMMA Untouched ==
  ASSUME Inv, Ended, SlotsKept, UNCHANGED outcome,
         \A j \in Jobs : outcome[j] # None =>
           status'[j] = status[j] /\ lock'[j] \in {lock[j], None}
  PROVE  Ended' /\ StaysEnded
BY ConstantsAssumption DEF Ended, StaysEnded, SlotsKept

\* A step that unlocks one job without a result, and may give it one.
LEMMA EndsWell ==
  ASSUME Inv, Ended, SlotsKept, NEW j \in Jobs, outcome[j] = None,
         lock' = [lock EXCEPT ![j] = None],
         \A i \in Jobs \ {j} : outcome'[i] = outcome[i] /\ status'[i] = status[i],
         outcome'[j] = None \/ status'[j] \in {"completed", "failed", "gone"}
  PROVE  Ended' /\ StaysEnded
<1>1. /\ lock'[j] = None
      /\ \A i \in Jobs \ {j} : lock'[i] = lock[i]
  BY DEF Inv, TypeOK
<1>2. StaysEnded
  BY <1>1 DEF StaysEnded
<1>3. Ended'
  <2> SUFFICES ASSUME NEW i \in Jobs, outcome'[i] # None
               PROVE  /\ status'[i] \in {"completed", "failed", "gone"}
                      /\ lock'[i] # None => status'[i] = "gone"
                      /\ \A v \in Slots :
                           lock'[i] = v /\ hold'[v] = i => stage'[v] = "recorded"
    BY DEF Ended
  <2>1. CASE i = j
    BY <1>1, <2>1, ConstantsAssumption
  <2>2. CASE i # j
    <3>1. /\ outcome[i] # None /\ status'[i] = status[i] /\ lock'[i] = lock[i]
      BY <1>1, <2>2
    <3>2. \A v \in Slots : hold'[v] = i => hold'[v] = hold[v] /\ stage'[v] = stage[v]
      BY <3>1, ConstantsAssumption DEF SlotsKept
    <3> QED
      BY <3>1, <3>2 DEF Ended
  <2> QED
    BY <2>1, <2>2
<1> QED
  BY <1>2, <1>3

\* The state change of a reserve call: recover R, lock the jobs of f.
Locks ==
  \E R \in SUBSET Expired : \E f :
    /\ LockAll(R, f)
    /\ \A i \in DOMAIN f : i \in Jobs /\ (i \in R \/ status[i] = "waiting")

\* reserve.lua that finds nothing is such a change (with f empty).
LEMMA ReserveNoneLocks ==
  ASSUME Inv, NEW w \in Slots, ReserveNone(w)
  PROVE  Locks
<1>1. PICK R \in SweepChoice : LockAll(R, [j \in {} |-> w])
  BY DEF ReserveNone, FindNothing
<1>2. R \in SUBSET Expired
  BY SweepsExpired
<1> DEFINE f == [j \in {} |-> w]
<1>3. DOMAIN f = {} /\ LockAll(R, f)
  BY <1>1
<1> HIDE DEF f
<1> QED
  BY <1>2, <1>3 DEF Locks

\* reserve.lua locks the head of a group.
LEMMA ReserveJobLocks ==
  ASSUME Inv, NEW w \in Slots, ReserveJob(w)
  PROVE  Locks
<1>1. PICK R \in SweepChoice : \E g \in Candidates(R) : HandOut(w, R, g)
  BY DEF ReserveJob
<1>2. PICK g \in Candidates(R) : HandOut(w, R, g)
  BY <1>1
<1>3. R \in SUBSET Expired
  BY SweepsExpired
<1> DEFINE j == Head1(WaitingAfter(R)[g])
           f == [i \in {j} |-> w]
<1>4. j \in Jobs /\ (j \in R \/ status[j] = "waiting")
  <2>1. g \in Groups /\ WaitingAfter(R)[g] # {}
    BY DEF Candidates, Listed
  <2>2. WaitingAfter(R)[g] \in SUBSET Jobs
    BY <1>3, <2>1, RecoveryType
  <2>3. j \in WaitingAfter(R)[g] /\ j \in Jobs
    BY <2>1, <2>2, HasHead
  <2> QED
    BY <2>1, <2>3 DEF WaitingAfter, Inv, OnePlace
<1>5. DOMAIN f = {j} /\ LockAll(R, f)
  BY <1>2 DEF HandOut
<1> HIDE DEF j, f
<1> QED
  BY <1>3, <1>4, <1>5 DEF Locks

\* reserve-batch.lua locks heads of groups.
LEMMA ReserveBatchLocks ==
  ASSUME Inv, NEW W \in SUBSET Slots, ReserveBatch(W)
  PROVE  Locks
<1> DEFINE n == Cardinality(W)
<1>1. PICK R \in {{}, Expired} : \E f \in [Batch(R, n) -> W] : TakeBatch(R, n, f)
  BY DEF ReserveBatch
<1>2. PICK f \in [Batch(R, n) -> W] : TakeBatch(R, n, f)
  BY <1>1
<1>3. R \in SUBSET Expired
  OBVIOUS
<1> HIDE DEF n
<1>4. \A i \in Batch(R, n) : i \in Jobs /\ (i \in R \/ status[i] = "waiting")
  <2> TAKE i \in Batch(R, n)
  <2>1. PICK g \in ReadBy(R, n) : /\ WaitingAfter(R)[g] # {}
                                  /\ i = Head1(WaitingAfter(R)[g])
    BY DEF Batch
  <2>2. g \in Groups /\ WaitingAfter(R)[g] \in SUBSET Jobs
    BY <1>3, RecoveryType DEF ReadBy, Listed
  <2>3. i \in WaitingAfter(R)[g] /\ i \in Jobs
    BY <2>1, <2>2, HasHead
  <2> QED
    BY <2>2, <2>3 DEF WaitingAfter, Inv, OnePlace
<1>5. LockAll(R, f)
  BY <1>2 DEF TakeBatch
<1> QED
  BY <1>3, <1>4, <1>5 DEF Locks

\* reserve-atomic.lua locks the head of its group or nothing.
LEMMA ReserveAtomicLocks ==
  ASSUME Inv, NEW w \in Slots, NEW g \in Groups, ReserveAtomic(w, g)
  PROVE  Locks \/ UNCHANGED <<lock, status, slotVars>>
<1> DEFINE j == Head1(gz[g])
           f == [i \in {j} |-> w]
<1>1. j \in Jobs /\ status[j] = "waiting"
  <2>1. gz[g] \in SUBSET Jobs /\ gz[g] # {}
    BY DEF ReserveAtomic, Inv, TypeOK
  <2> QED
    BY <2>1, HasHead DEF Inv, OnePlace
<1>2. LockAll({}, f) \/ UNCHANGED <<lock, status, slotVars>>
  BY DEF ReserveAtomic
<1>3. DOMAIN f = {j} /\ {} \in SUBSET Expired
  OBVIOUS
<1> HIDE DEF j, f
<1> QED
  BY <1>1, <1>2, <1>3 DEF Locks

\* Every action keeps Ended and leaves what has ended as it is. KeepFailed = FALSE is
\* needed: a kept job hash with status "failed" and an expired lock is recovered by a sweep.
LEMMA EndedKept ==
  ASSUME KeepFailed = FALSE, Inv, Ended, Next
  PROVE  Ended' /\ StaysEnded
<1> DEFINE Goal == Ended' /\ StaysEnded
<1>1. ASSUME Locks, UNCHANGED outcome
      PROVE  Goal
  <2>1. PICK R \in SUBSET Expired : \E f :
          /\ LockAll(R, f)
          /\ \A i \in DOMAIN f : i \in Jobs /\ (i \in R \/ status[i] = "waiting")
    BY <1>1 DEF Locks
  <2>2. PICK f : /\ LockAll(R, f)
                 /\ \A i \in DOMAIN f : i \in Jobs /\ (i \in R \/ status[i] = "waiting")
    BY <2>1
  <2>3. \A j \in Jobs : outcome[j] # None => j \notin R \cup DOMAIN f
    BY <2>2 DEF Ended, Expired, Inv, OnePlace
  <2>4. \A j \in Jobs : outcome[j] # None =>
          status'[j] = status[j] /\ lock'[j] = lock[j]
    BY <2>2, <2>3 DEF LockAll
  <2>5. SlotsKept
    <3> SUFFICES ASSUME NEW w \in Slots
                 PROVE  \/ hold'[w] = hold[w] /\ stage'[w] = stage[w]
                        \/ hold'[w] \in Jobs /\ outcome[hold'[w]] = None
      BY DEF SlotsKept
    <3>1. CASE \E j \in DOMAIN f : f[j] = w
      <4> DEFINE h == CHOOSE j \in DOMAIN f : f[j] = w
      <4>1. hold'[w] = h
        BY <2>2, <3>1 DEF LockAll
      <4>2. h \in DOMAIN f
        BY <3>1
      <4> QED
        BY <2>2, <2>3, <4>1, <4>2
    <3>2. CASE ~\E j \in DOMAIN f : f[j] = w
      BY <2>2, <3>2 DEF LockAll
    <3> QED
      BY <3>1, <3>2
  <2> QED
    BY <1>1, <2>4, <2>5, Untouched
<1>2. ASSUME NEW j \in Jobs, Add(j) \/ AddDelayed(j) \/ Promote(j)
      PROVE  Goal
  <2>1. outcome[j] = None
    BY <1>2 DEF Add, AddDelayed, Promote, Ended, Inv, OnePlace
  <2>2. /\ UNCHANGED <<outcome, lock>>
        /\ \A i \in Jobs \ {j} : status'[i] = status[i]
    BY <1>2 DEF Add, AddDelayed, Promote, Inv, TypeOK
  <2>3. SlotsKept
    BY <1>2 DEF Add, AddDelayed, Promote, slotVars, SlotsKept
  <2> QED
    BY <2>1, <2>2, <2>3, Untouched
<1>3. ASSUME NEW w \in Slots, Reserve(w)
      PROVE  Goal
  <2>1. UNCHANGED outcome
    BY <1>3 DEF Reserve, ReserveNone, ReserveJob
  <2> QED
    BY <1>1, <1>3, <2>1, ReserveNoneLocks, ReserveJobLocks DEF Reserve
<1>4. ASSUME NEW W \in SUBSET Slots, ReserveBatch(W)
      PROVE  Goal
  <2>1. UNCHANGED outcome
    BY <1>4 DEF ReserveBatch
  <2> QED
    BY <1>1, <1>4, <2>1, ReserveBatchLocks
<1>5. ASSUME NEW w \in Slots, NEW g \in Groups, ReserveAtomic(w, g)
      PROVE  Goal
  <2>1. UNCHANGED outcome
    BY <1>5 DEF ReserveAtomic
  <2>2. CASE UNCHANGED <<lock, status, slotVars>>
    <3>1. SlotsKept
      BY <2>2 DEF slotVars, SlotsKept
    <3> QED
      BY <2>1, <2>2, <3>1, Untouched
  <2> QED
    BY <1>1, <1>5, <2>1, <2>2, ReserveAtomicLocks
<1>6. ASSUME NEW w \in Slots, CompleteJob(w)
      PROVE  Goal
  <2> DEFINE j == hold[w]
  <2>1. /\ j \in Jobs /\ status[j] = "processing" /\ outcome[j] = None
        /\ status' = [status EXCEPT ![j] = Final(KeepCompleted, "completed")]
        /\ outcome' = [outcome EXCEPT ![j] = "completed"]
        /\ lock' = [lock EXCEPT ![j] = None]
    BY <1>6, OwnerHolds DEF CompleteJob, Running, Accepted, Unlock, Ended
  <2>2. SlotsKept
    BY <1>6, DropKeepsSlots DEF CompleteJob
  <2> HIDE DEF j
  <2>3. /\ \A i \in Jobs \ {j} : outcome'[i] = outcome[i] /\ status'[i] = status[i]
        /\ status'[j] \in {"completed", "gone"}
    BY <2>1 DEF Inv, TypeOK, Final
  <2> QED
    BY <2>1, <2>2, <2>3, EndsWell
<1>7. ASSUME NEW w \in Slots, CompleteAndReserveNext(w)
      PROVE  Goal
  <2> DEFINE j    == hold[w]
             next == Head1(gz[GroupOf[j]])
             done == [status EXCEPT ![j] = Final(KeepCompleted, "completed")]
             free == [lock EXCEPT ![j] = None]
  <2>1. /\ j \in Jobs /\ GroupOf[j] \in Groups
        /\ status[j] = "processing" /\ outcome[j] = None
        /\ outcome' = [outcome EXCEPT ![j] = "completed"]
    BY <1>7, OwnerHolds DEF CompleteAndReserveNext, Running, Accepted, Ended
  <2>2. \/ status' = done /\ lock' = free /\ Drop(w)
        \/ /\ gz[GroupOf[j]] # {}
           /\ status' = [done EXCEPT ![next] = "processing"]
           /\ lock' = [free EXCEPT ![next] = w]
           /\ hold' = [hold EXCEPT ![w] = next] /\ UNCHANGED stage
    BY <1>7 DEF CompleteAndReserveNext
  <2> HIDE DEF j
  <2>3. gz[GroupOf[j]] # {} =>
          next \in Jobs /\ status[next] = "waiting" /\ outcome[next] = None
    BY <2>1, HasHead, ZenonT(60) DEF Inv, TypeOK, OnePlace, Ended
  <2> HIDE DEF next
  <2>4. CASE status' = done /\ lock' = free /\ Drop(w)
    <3>1. SlotsKept
      BY <2>4, DropKeepsSlots
    <3>2. /\ \A i \in Jobs \ {j} : outcome'[i] = outcome[i] /\ status'[i] = status[i]
          /\ status'[j] \in {"completed", "gone"}
      BY <2>1, <2>4 DEF Inv, TypeOK, Final
    <3> QED
      BY <2>1, <2>4, <3>1, <3>2, EndsWell
  <2>5. CASE /\ gz[GroupOf[j]] # {}
             /\ status' = [done EXCEPT ![next] = "processing"]
             /\ lock' = [free EXCEPT ![next] = w]
             /\ hold' = [hold EXCEPT ![w] = next] /\ UNCHANGED stage
    <3>1. next # j /\ outcome[next] = None /\ next \in Jobs
      BY <2>1, <2>3, <2>5
    <3>2. /\ outcome'[j] = "completed" /\ outcome'[next] = None
          /\ status'[j] \in {"completed", "gone"} /\ lock'[j] = None
      BY <2>1, <2>5, <3>1 DEF Inv, TypeOK, Final
    <3>3. \A i \in Jobs \ {j, next} :
            outcome'[i] = outcome[i] /\ status'[i] = status[i] /\ lock'[i] = lock[i]
      BY <2>1, <2>5, <3>1 DEF Inv, TypeOK
    <3>4. \A v \in Slots : \/ hold'[v] = next
                           \/ hold'[v] = hold[v] /\ stage'[v] = stage[v]
      BY <2>5 DEF Inv, TypeOK
    <3> HIDE DEF done, free
    <3>5. Ended'
      <4> SUFFICES ASSUME NEW i \in Jobs, outcome'[i] # None
                   PROVE  /\ status'[i] \in {"completed", "failed", "gone"}
                          /\ lock'[i] # None => status'[i] = "gone"
                          /\ \A v \in Slots :
                               lock'[i] = v /\ hold'[v] = i => stage'[v] = "recorded"
        BY DEF Ended
      <4>1. CASE i = j
        BY <3>2, <4>1, ConstantsAssumption
      <4>2. CASE i # j
        <5>1. i # next
          BY <3>2
        <5> QED
          BY <3>3, <3>4, <4>2, <5>1 DEF Ended
      <4> QED
        BY <4>1, <4>2
    <3>6. StaysEnded
      BY <2>1, <3>1, <3>3 DEF StaysEnded
    <3> QED
      BY <3>5, <3>6
  <2> QED
    BY <2>2, <2>4, <2>5
<1>8. ASSUME NEW w \in Slots, NEW b \in Backoffs, Retry(w, b)
      PROVE  Goal
  <2> DEFINE j == hold[w]
  <2>1. j \in Jobs /\ lock[j] = w /\ stage[w] = "running"
    BY <1>8, OwnerHolds DEF Retry, Running, Owns
  <2>2. UNCHANGED outcome /\ outcome[j] = None
    BY <1>8, <2>1 DEF Retry, Ended
  <2>3. \A i \in Jobs \ {j} : status'[i] = status[i] /\ lock'[i] = lock[i]
    BY <1>8, <2>1 DEF Retry, Unlock, placeVars, Inv, TypeOK
  <2>4. SlotsKept
    <3>1. CASE Drop(w)
      BY <3>1, DropKeepsSlots
    <3>2. CASE UNCHANGED hold /\ stage' = [stage EXCEPT ![w] = "exhausted"]
      BY <2>1, <2>2, <3>2 DEF SlotsKept, Inv, TypeOK
    <3> QED
      BY <1>8, <3>1, <3>2 DEF Retry
  <2> HIDE DEF j
  <2> QED
    BY <2>2, <2>3, <2>4, Untouched
<1>9. ASSUME NEW w \in Slots, RecordFinalFailure(w)
      PROVE  Goal
  <2> DEFINE j == hold[w]
  <2>1. j \in Jobs /\ lock[j] = w /\ w # None /\ stage[w] # "recorded"
    BY <1>9, OwnerHolds, ConstantsAssumption DEF RecordFinalFailure, Owns
  <2>2. outcome[j] = None
    BY <2>1 DEF Ended
  <2>3. /\ UNCHANGED <<lock, hold>>
        /\ stage' = [stage EXCEPT ![w] = "recorded"]
        /\ \/ UNCHANGED <<status, outcome>>
           \/ /\ status' = [status EXCEPT ![j] = "gone"]
              /\ outcome' = [outcome EXCEPT ![j] = "failed"]
    BY <1>9 DEF RecordFinalFailure, Final, jobVars, placeVars
  <2>4. \A v \in Slots \ {w} : hold'[v] = hold[v] /\ stage'[v] = stage[v]
    BY <2>3 DEF Inv, TypeOK
  <2>5. stage'[w] = "recorded" /\ hold'[w] = j
    BY <2>3 DEF Inv, TypeOK
  <2>6. \A i \in Jobs \ {j} : /\ status'[i] = status[i] /\ lock'[i] = lock[i]
                             /\ outcome'[i] = outcome[i]
    BY <2>3 DEF Inv, TypeOK
  <2>7. outcome'[j] = None \/ status'[j] = "gone"
    BY <2>1, <2>2, <2>3 DEF Inv, TypeOK
  <2>8. lock'[j] = w
    BY <2>1, <2>3
  <2> HIDE DEF j
  <2>9. Ended'
    <3> SUFFICES ASSUME NEW i \in Jobs, outcome'[i] # None
                 PROVE  /\ status'[i] \in {"completed", "failed", "gone"}
                        /\ lock'[i] # None => status'[i] = "gone"
                        /\ \A v \in Slots :
                             lock'[i] = v /\ hold'[v] = i => stage'[v] = "recorded"
      BY DEF Ended
    <3>1. CASE i = j
      BY <2>5, <2>7, <2>8, <3>1
    <3>2. CASE i # j
      BY <2>4, <2>5, <2>6, <3>2 DEF Ended
    <3> QED
      BY <3>1, <3>2
  <2>10. StaysEnded
    BY <2>2, <2>6 DEF StaysEnded
  <2> QED
    BY <2>9, <2>10
<1>10. ASSUME NEW w \in Slots, DeadLetter(w) \/ LockLost(w)
       PROVE  Goal
  <2>1. UNCHANGED <<outcome, status>> /\ \A i \in Jobs : lock'[i] \in {lock[i], None}
    BY <1>10 DEF DeadLetter, LockLost, Unlock, queueVars, jobVars, placeVars, Inv, TypeOK
  <2>2. SlotsKept
    BY <1>10, DropKeepsSlots DEF DeadLetter, LockLost
  <2> QED
    BY <2>1, <2>2, Untouched
<1>11. ASSUME NEW w \in Slots, Heartbeat(w) \/ Crash(w)
       PROVE  Goal
  <2>1. UNCHANGED <<outcome, status, lock>>
    BY <1>11 DEF Heartbeat, Crash, queueVars, jobVars, placeVars
  <2>2. SlotsKept
    BY <1>11, DropKeepsSlots DEF Heartbeat, Crash, slotVars, SlotsKept
  <2> QED
    BY <2>1, <2>2, Untouched
<1>12. ASSUME NEW j \in Jobs, DeadlinePasses(j)
       PROVE  Goal
  <2>1. UNCHANGED <<outcome, status, lock>>
    BY <1>12 DEF DeadlinePasses, jobVars
  <2>2. SlotsKept
    BY <1>12 DEF DeadlinePasses, slotVars, SlotsKept
  <2> QED
    BY <2>1, <2>2, Untouched
<1>13. ASSUME NEW j \in Jobs, CheckStalled(j)
       PROVE  Goal
  <2>1. outcome[j] = None
    BY <1>13 DEF CheckStalled, Ended
  <2>2. /\ lock' = [lock EXCEPT ![j] = None]
        /\ \A i \in Jobs \ {j} : outcome'[i] = outcome[i] /\ status'[i] = status[i]
        /\ outcome'[j] = None \/ status'[j] = "failed"
    BY <1>13, <2>1 DEF CheckStalled, Unlock, Inv, TypeOK
  <2>3. SlotsKept
    BY <1>13 DEF CheckStalled, slotVars, SlotsKept
  <2> QED
    BY <2>1, <2>2, <2>3, EndsWell
<1>14. ASSUME NEW j \in Jobs, Cleanup(j)
       PROVE  Goal
  <2>1. outcome[j] = None
    BY <1>14 DEF Cleanup, Expired, Ended, Inv, OnePlace
  <2>2. /\ UNCHANGED outcome
        /\ \A i \in Jobs \ {j} : lock'[i] = lock[i] /\ status'[i] = status[i]
    BY <1>14 DEF Cleanup, Unlock, Inv, TypeOK
  <2>3. SlotsKept
    BY <1>14 DEF Cleanup, slotVars, SlotsKept
  <2> QED
    BY <2>1, <2>2, <2>3, Untouched
<1>15. ASSUME NEW g \in Groups, NEW n \in Limits, SetConcurrency(g, n)
       PROVE  Goal
  <2>1. UNCHANGED <<outcome, status, lock>>
    BY <1>15 DEF SetConcurrency, jobVars, placeVars
  <2>2. SlotsKept
    BY <1>15 DEF SetConcurrency, slotVars, SlotsKept
  <2> QED
    BY <2>1, <2>2, Untouched
<1>16. ASSUME Pause \/ Resume
       PROVE  Goal
  <2>1. UNCHANGED <<outcome, status, lock>>
    BY <1>16 DEF Pause, Resume, jobVars, placeVars
  <2>2. SlotsKept
    BY <1>16 DEF Pause, Resume, slotVars, SlotsKept
  <2> QED
    BY <2>1, <2>2, Untouched
<1> QED
  BY <1>2, <1>3, <1>4, <1>5, <1>6, <1>7, <1>8, <1>9, <1>10, <1>11, <1>12, <1>13,
     <1>14, <1>15, <1>16 DEF Next, Finish

\* Without retention of failed jobs (keepFailed = 0, the default) a job ends once and is
\* never handed out again, in every behaviour of the queue.
THEOREM OneOutcomeHolds ==
  ASSUME KeepFailed = FALSE
  PROVE  Spec => OneOutcome
<1>1. Init => Ended
  BY DEF Init, Ended
<1>2. Inv /\ Ended /\ [Next]_vars => Ended' /\ [StaysEnded]_vars
  <2>1. CASE UNCHANGED vars
    BY <2>1 DEF Ended, vars, jobVars, placeVars, slotVars
  <2> QED
    BY <2>1, EndedKept
<1> QED
  BY <1>1, <1>2, Invariance, PTL DEF Spec, OneOutcome, StaysEnded

-----------------------------------------------------------------------------
(* Lists that hold each member of a set once.                              *)

\* The list s holds the members of S and nothing else, each once.
Exact(s, S) ==
  /\ {s[i] : i \in DOMAIN s} = S
  /\ \A i, k \in DOMAIN s : s[i] = s[k] => i = k

\* LREM of the members of T.
LEMMA ExactWithout ==
  ASSUME NEW s \in Seq(Jobs), NEW S, NEW T, Exact(s, S)
  PROVE  Exact(Without(s, T), S \ T)
<1> DEFINE kept == {i \in DOMAIN s : s[i] \notin T}
           r    == Without(s, T)
<1>1. PICK N \in Nat : \E f \in Bijection(1..N, kept) : r = [n \in 1..N |-> s[f[n]]]
  BY WithoutPicks
<1>2. PICK f \in Bijection(1..N, kept) : r = [n \in 1..N |-> s[f[n]]]
  BY <1>1
<1> HIDE DEF r
<1>3. DOMAIN r = 1..N /\ \A n \in 1..N : r[n] = s[f[n]] /\ f[n] \in kept
  BY <1>2 DEF Bijection, Injection
<1>4. {r[n] : n \in DOMAIN r} = S \ T
  <2>1. \A n \in DOMAIN r : r[n] \in S \ T
    BY <1>3 DEF Exact
  <2>2. ASSUME NEW j \in S \ T
        PROVE  \E n \in DOMAIN r : r[n] = j
    <3>1. PICK i \in DOMAIN s : s[i] = j
      BY DEF Exact
    <3>2. i \in kept
      BY <3>1
    <3>3. PICK n \in 1..N : f[n] = i
      BY <3>2 DEF Bijection, Surjection
    <3> QED
      BY <1>3, <3>1, <3>3
  <2> QED
    BY <2>1, <2>2
<1>5. ASSUME NEW m \in DOMAIN r, NEW n \in DOMAIN r, r[m] = r[n]
      PROVE  m = n
  <2>1. f[m] = f[n]
    BY <1>3, <1>5 DEF Exact
  <2> QED
    BY <1>3, <2>1 DEF Bijection, Injection, IsInjective
<1> QED
  BY <1>4, <1>5 DEF Exact, r

\* LPUSH of a job that is not in the list.
LEMMA ExactPush ==
  ASSUME NEW s \in Seq(Jobs), NEW S, NEW j \in Jobs, Exact(s, S), j \notin S
  PROVE  Exact(<<j>> \o s, S \cup {j}) /\ Len(<<j>> \o s) = Len(s) + 1
<1> DEFINE r == <<j>> \o s
<1>1. /\ r \in Seq(Jobs) /\ Len(s) \in Nat /\ Len(r) = Len(s) + 1 /\ r[1] = j
      /\ \A i \in 2..Len(s) + 1 : r[i] = s[i - 1]
  OBVIOUS
<1>2. DOMAIN r = 1..Len(s) + 1 /\ DOMAIN s = 1..Len(s)
  BY <1>1
<1>3. \A i \in DOMAIN r : i = 1 \/ (i - 1 \in DOMAIN s /\ r[i] = s[i - 1])
  BY <1>1, <1>2
<1>4. \A i \in DOMAIN s : i + 1 \in DOMAIN r /\ r[i + 1] = s[i]
  BY <1>1, <1>2
<1> HIDE DEF r
<1>5. {r[i] : i \in DOMAIN r} = S \cup {j}
  <2>1. \A i \in DOMAIN r : r[i] \in S \cup {j}
    BY <1>1, <1>3 DEF Exact
  <2>2. \A k \in S : \E i \in DOMAIN r : r[i] = k
    BY <1>4 DEF Exact
  <2>3. 1 \in DOMAIN r /\ r[1] = j
    BY <1>1, <1>2
  <2> QED
    BY <2>1, <2>2, <2>3
<1>6. ASSUME NEW i \in DOMAIN r, NEW k \in DOMAIN r, r[i] = r[k]
      PROVE  i = k
  <2>1. \A m \in DOMAIN s : s[m] # j
    BY DEF Exact
  <2>2. i \in Int /\ k \in Int
    BY <1>2
  <2>3. CASE i = 1 \/ k = 1
    BY <1>1, <1>3, <1>6, <2>1, <2>3
  <2>4. CASE i # 1 /\ k # 1
    <3>1. i - 1 = k - 1
      BY <1>3, <1>6, <2>4 DEF Exact
    <3> QED
      BY <3>1, <2>2
  <2> QED
    BY <2>3, <2>4
<1> QED
  BY <1>1, <1>5, <1>6 DEF Exact, r

\* LPOP.
LEMMA ExactTail ==
  ASSUME NEW s \in Seq(Jobs), NEW S, Exact(s, S), s # <<>>
  PROVE  /\ Tail(s) \in Seq(Jobs) /\ Len(s) = Len(Tail(s)) + 1
         /\ Exact(Tail(s), S \ {Head(s)})
<1> DEFINE r == Tail(s)
<1>1. /\ r \in Seq(Jobs) /\ Len(s) \in Nat /\ Len(s) # 0 /\ Len(s) = Len(r) + 1
      /\ Head(s) = s[1] /\ \A i \in 1..Len(s) - 1 : r[i] = s[i + 1]
  OBVIOUS
<1>2. DOMAIN r = 1..Len(s) - 1 /\ DOMAIN s = 1..Len(s)
  BY <1>1
<1>3. \A i \in DOMAIN r : i \in Nat /\ i + 1 \in DOMAIN s /\ r[i] = s[i + 1] /\ i + 1 # 1
  BY <1>1, <1>2
<1>4. \A i \in DOMAIN s : i # 1 => i - 1 \in DOMAIN r /\ r[i - 1] = s[i]
  BY <1>1, <1>2
<1>5. 1 \in DOMAIN s
  BY <1>1, <1>2
<1> HIDE DEF r
<1>6. {r[i] : i \in DOMAIN r} = S \ {Head(s)}
  <2>1. \A i \in DOMAIN r : r[i] \in S \ {Head(s)}
    BY <1>1, <1>3, <1>5 DEF Exact
  <2>2. ASSUME NEW k \in S \ {Head(s)}
        PROVE  \E i \in DOMAIN r : r[i] = k
    <3>1. PICK i \in DOMAIN s : s[i] = k
      BY DEF Exact
    <3> QED
      BY <1>1, <1>4, <3>1
  <2> QED
    BY <2>1, <2>2
<1>7. \A i, k \in DOMAIN r : r[i] = r[k] => i = k
  <2> SUFFICES ASSUME NEW i \in DOMAIN r, NEW k \in DOMAIN r, r[i] = r[k]
               PROVE  i = k
    OBVIOUS
  <2>1. i + 1 = k + 1 /\ i \in Nat /\ k \in Nat
    BY <1>3 DEF Exact
  <2> QED
    BY <2>1
<1> QED
  BY <1>1, <1>6, <1>7 DEF Exact, r

\* Such a list is as long as the set is large.
LEMMA ExactLength ==
  ASSUME NEW s \in Seq(Jobs), NEW S, Exact(s, S)
  PROVE  IsFiniteSet(S) /\ Cardinality(S) = Len(s)
<1>1. Len(s) \in Nat /\ DOMAIN s = 1..Len(s)
  OBVIOUS
<1>2. s \in Bijection(1..Len(s), S)
  <2>1. s \in [1..Len(s) -> S]
    BY <1>1 DEF Exact
  <2>2. \A k \in S : \E i \in 1..Len(s) : s[i] = k
    BY <1>1 DEF Exact
  <2> QED
    BY <2>1, <2>2, <1>1 DEF Exact, Bijection, Injection, IsInjective, Surjection
<1>3. IsFiniteSet(1..Len(s)) /\ Cardinality(1..Len(s)) = Len(s)
  BY <1>1, FS_Interval
<1> QED
  BY <1>2, <1>3, FS_Bijection DEF ExistsBijection

-----------------------------------------------------------------------------
(* The active lists and the locks.                                         *)

\* The jobs of the group somebody has the lock of.
Locked(g) == {j \in JobsOf(g) : lock[j] # None}

\* SlotsMatchLocks, by groups.
LEMMA SlotsByGroup ==
  /\ SlotsMatchLocks <=> \A g \in Groups : Exact(active[g], Locked(g))
  /\ SlotsMatchLocks' <=> \A g \in Groups : Exact(active'[g], Locked(g)')
BY DEF SlotsMatchLocks, Exact, Locked

\* The lazy cleanup of a full list finds nothing to drop: every entry is locked.
LEMMA ExactPruned ==
  ASSUME NEW g \in Groups, NEW s \in Seq(Jobs), NEW S \in SUBSET Locked(g),
         Exact(s, S)
  PROVE  Exact(Pruned(g, s), S)
<1>1. S \ {j \in Jobs : lock[j] = None} = S
  BY DEF Locked
<1> QED
  BY <1>1, ExactWithout DEF Pruned

\* After a sweep the lists hold the jobs that were not taken back, pruned or not.
LEMMA SweptLists ==
  ASSUME Inv, SlotsMatchLocks, NEW R \in SUBSET Expired, NEW g \in Groups
  PROVE  /\ Exact(ActiveAfter(R)[g], Locked(g) \ R)
         /\ Exact(Pruned(g, ActiveAfter(R)[g]), Locked(g) \ R)
         /\ Exact(ListsAfter(R)[g], Locked(g) \ R)
<1>1. active[g] \in Seq(Jobs) /\ Exact(active[g], Locked(g))
  BY SlotsByGroup DEF Inv, TypeOK
<1>2. Exact(ActiveAfter(R)[g], Locked(g) \ R)
  BY <1>1, ExactWithout DEF ActiveAfter
<1>3. Exact(Pruned(g, ActiveAfter(R)[g]), Locked(g) \ R)
  BY <1>2, RecoveryType, ExactPruned
<1> QED
  BY <1>2, <1>3 DEF ListsAfter

-----------------------------------------------------------------------------
(* What a reserve call does to the jobs.                                   *)

\* It takes the jobs in R back and locks those of f, each the first of its group; the
\* lists follow the locks, and a group that is served ends within its limit.
Serves ==
  \E R \in SUBSET Expired : \E f :
    /\ LockAll(R, f)
    /\ gz' = [g \in Groups |-> WaitingAfter(R)[g] \ DOMAIN f]
    /\ \A j \in DOMAIN f :
         /\ j \in Jobs /\ f[j] \in Slots /\ j \in WaitingAfter(R)[GroupOf[j]]
         /\ \A i \in WaitingAfter(R)[GroupOf[j]] : Score[j] <= Score[i]
    /\ \A g \in Groups :
         /\ Exact(active'[g], (Locked(g) \ R) \cup (DOMAIN f \cap JobsOf(g)))
         /\ DOMAIN f \cap JobsOf(g) # {} => Len(active'[g]) <= limit[g]
    /\ UNCHANGED <<outcome, limit>>

\* reserve.lua that hands nothing out: f is empty.
LEMMA ReserveNoneServes ==
  ASSUME Inv, SlotsMatchLocks, NEW w \in Slots, ReserveNone(w)
  PROVE  Serves
<1>1. PICK R \in SweepChoice : FindNothing(w, R)
  BY DEF ReserveNone
<1>2. R \in SUBSET Expired
  BY SweepsExpired
<1> DEFINE f == [j \in {} |-> w]
<1>3. /\ DOMAIN f = {} /\ LockAll(R, f)
      /\ gz' = WaitingAfter(R) /\ active' = ListsAfter(R)
  BY <1>1 DEF FindNothing
<1> HIDE DEF f
<1>4. gz' = [g \in Groups |-> WaitingAfter(R)[g] \ DOMAIN f]
  BY <1>3 DEF WaitingAfter
<1>5. \A g \in Groups : Exact(active'[g], (Locked(g) \ R) \cup (DOMAIN f \cap JobsOf(g)))
  <2> TAKE g \in Groups
  <2>1. (Locked(g) \ R) \cup (DOMAIN f \cap JobsOf(g)) = Locked(g) \ R
    BY <1>3
  <2> QED
    BY <1>2, <1>3, <2>1, SweptLists
<1>6. UNCHANGED <<outcome, limit>>
  BY DEF ReserveNone, confVars
<1> QED
  BY <1>2, <1>3, <1>4, <1>5, <1>6 DEF Serves

\* reserve.lua that hands out the head of a group with room.
LEMMA ReserveJobServes ==
  ASSUME Inv, SlotsMatchLocks, NEW w \in Slots, ReserveJob(w)
  PROVE  Serves
<1>0. PICK R \in SweepChoice : \E g \in Candidates(R) : HandOut(w, R, g)
  BY DEF ReserveJob
<1>1. PICK g \in Candidates(R) : HandOut(w, R, g)
  BY <1>0
<1>2. R \in SUBSET Expired
  BY SweepsExpired
<1>3. g \in Groups /\ WaitingAfter(R)[g] # {} /\ HasRoom(R, g) /\ g \in Reached(R)
  BY <1>1 DEF Candidates, Listed, HandOut
<1> DEFINE j    == Head1(WaitingAfter(R)[g])
           f    == [i \in {j} |-> w]
           list == ListsAfter(R)[g]
<1>4. /\ j \in WaitingAfter(R)[g] /\ j \in Jobs
      /\ \A i \in WaitingAfter(R)[g] : Score[j] <= Score[i]
  <2>1. WaitingAfter(R)[g] \in SUBSET Jobs
    BY <1>2, <1>3, RecoveryType
  <2> QED
    BY <1>3, <2>1, HasHead
<1>5. GroupOf[j] = g /\ j \notin Locked(g) \ R
  BY <1>3, <1>4 DEF WaitingAfter, JobsOf, Locked, Inv, OnePlace
<1>6. /\ DOMAIN f = {j} /\ f[j] = w /\ LockAll(R, f)
      /\ gz' = [WaitingAfter(R) EXCEPT ![g] = @ \ {j}]
      /\ active' = [ListsAfter(R) EXCEPT ![g] = <<j>> \o list]
  BY <1>1 DEF HandOut
<1> HIDE DEF f, j
<1>7. gz' = [h \in Groups |-> WaitingAfter(R)[h] \ DOMAIN f]
  <2>1. \A h \in Groups : h # g => j \notin WaitingAfter(R)[h]
    BY <1>4, <1>5 DEF WaitingAfter, JobsOf, Inv, OnePlace
  <2>2. WaitingAfter(R) = [h \in Groups |-> WaitingAfter(R)[h]]
    BY DEF WaitingAfter
  <2> QED
    BY <2>1, <2>2, <1>3, <1>6
<1>8. list \in Seq(Jobs) /\ Exact(list, Locked(g) \ R) /\ Len(list) < limit[g]
  <2>1. list = Pruned(g, ActiveAfter(R)[g])
    BY <1>3 DEF ListsAfter
  <2> QED
    BY <2>1, <1>2, <1>3, ListsAfterType, SweptLists DEF HasRoom
<1>9. /\ Exact(<<j>> \o list, (Locked(g) \ R) \cup {j})
      /\ Len(<<j>> \o list) <= limit[g]
  <2>1. /\ Exact(<<j>> \o list, (Locked(g) \ R) \cup {j})
        /\ Len(<<j>> \o list) = Len(list) + 1
    BY <1>4, <1>5, <1>8, ExactPush
  <2>2. Len(list) \in Nat /\ limit[g] \in Nat
    BY <1>3, <1>8 DEF Inv, TypeOK
  <2> QED
    BY <1>8, <2>1, <2>2
<1>10. \A h \in Groups :
         /\ Exact(active'[h], (Locked(h) \ R) \cup (DOMAIN f \cap JobsOf(h)))
         /\ DOMAIN f \cap JobsOf(h) # {} => Len(active'[h]) <= limit[h]
  <2> TAKE h \in Groups
  <2>1. CASE h = g
    <3>1. active'[h] = <<j>> \o list
      BY <1>2, <1>6, <2>1, ListsAfterType
    <3>2. DOMAIN f \cap JobsOf(h) = {j}
      BY <1>4, <1>5, <1>6, <2>1 DEF JobsOf
    <3> QED
      BY <1>9, <2>1, <3>1, <3>2
  <2>2. CASE h # g
    <3>1. active'[h] = ListsAfter(R)[h]
      BY <1>2, <1>6, <2>2, ListsAfterType
    <3>2. DOMAIN f \cap JobsOf(h) = {}
      BY <1>5, <1>6, <2>2 DEF JobsOf
    <3>3. (Locked(h) \ R) \cup (DOMAIN f \cap JobsOf(h)) = Locked(h) \ R
      BY <3>2
    <3> QED
      BY <1>2, <3>1, <3>2, <3>3, SweptLists
  <2> QED
    BY <2>1, <2>2
<1>11. UNCHANGED <<outcome, limit>>
  BY DEF ReserveJob, confVars
<1>12. \A i \in DOMAIN f :
         /\ i \in Jobs /\ f[i] \in Slots /\ i \in WaitingAfter(R)[GroupOf[i]]
         /\ \A k \in WaitingAfter(R)[GroupOf[i]] : Score[i] <= Score[k]
  BY <1>4, <1>5, <1>6
<1> QED
  BY <1>2, <1>6, <1>7, <1>10, <1>11, <1>12 DEF Serves

\* reserve-batch.lua: one job per group read that has room.
LEMMA ReserveBatchServes ==
  ASSUME Inv, SlotsMatchLocks, NEW W \in SUBSET Slots, ReserveBatch(W)
  PROVE  Serves
<1> DEFINE n == Cardinality(W)
<1>1. PICK R \in {{}, Expired} : \E f \in [Batch(R, n) -> W] : TakeBatch(R, n, f)
  BY DEF ReserveBatch
<1>2. PICK f \in [Batch(R, n) -> W] : TakeBatch(R, n, f)
  BY <1>1
<1>3. R \in SUBSET Expired
  OBVIOUS
<1> HIDE DEF n
<1> DEFINE first(g) == Head1(WaitingAfter(R)[g])
           served   == {GroupOf[j] : j \in DOMAIN f}
           left(g)  == IF g \in ReadBy(R, n) THEN Pruned(g, ActiveAfter(R)[g])
                       ELSE ActiveAfter(R)[g]
<1>4. \A g \in Groups : WaitingAfter(R)[g] # {} =>
        /\ first(g) \in Jobs /\ first(g) \in WaitingAfter(R)[g]
        /\ GroupOf[first(g)] = g /\ first(g) \notin Locked(g) \ R
        /\ \A i \in WaitingAfter(R)[g] : Score[first(g)] <= Score[i]
  <2> SUFFICES ASSUME NEW g \in Groups, WaitingAfter(R)[g] # {}
               PROVE  /\ first(g) \in Jobs /\ first(g) \in WaitingAfter(R)[g]
                      /\ GroupOf[first(g)] = g /\ first(g) \notin Locked(g) \ R
                      /\ \A i \in WaitingAfter(R)[g] : Score[first(g)] <= Score[i]
    OBVIOUS
  <2>1. WaitingAfter(R)[g] \in SUBSET Jobs
    BY <1>3, RecoveryType
  <2>2. /\ first(g) \in WaitingAfter(R)[g] /\ first(g) \in Jobs
        /\ \A i \in WaitingAfter(R)[g] : Score[first(g)] <= Score[i]
    BY <2>1, HasHead
  <2> HIDE DEF first
  <2> QED
    BY <2>2 DEF WaitingAfter, JobsOf, Locked, Inv, OnePlace
<1>5. \A i \in DOMAIN f : \E g \in Groups :
        /\ g \in ReadBy(R, n) /\ HasRoom(R, g) /\ WaitingAfter(R)[g] # {}
        /\ i = first(g)
  BY DEF Batch, ReadBy, Listed
<1>6. \A i \in DOMAIN f :
        /\ GroupOf[i] \in ReadBy(R, n) /\ HasRoom(R, GroupOf[i])
        /\ GroupOf[i] \in Groups
        /\ WaitingAfter(R)[GroupOf[i]] # {} /\ i = first(GroupOf[i])
  <2> HIDE DEF first
  <2> QED
    BY <1>4, <1>5
<1>7. /\ LockAll(R, f)
      /\ gz' = [g \in Groups |-> WaitingAfter(R)[g] \ DOMAIN f]
      /\ active' = [g \in Groups |-> IF g \in served THEN <<first(g)>> \o left(g)
                                     ELSE left(g)]
  BY <1>2 DEF TakeBatch
<1> HIDE DEF first
<1>8. \A i \in DOMAIN f :
        /\ i \in Jobs /\ f[i] \in Slots /\ i \in WaitingAfter(R)[GroupOf[i]]
        /\ \A k \in WaitingAfter(R)[GroupOf[i]] : Score[i] <= Score[k]
  BY <1>4, <1>6
<1>9. \A g \in Groups :
        /\ Exact(active'[g], (Locked(g) \ R) \cup (DOMAIN f \cap JobsOf(g)))
        /\ DOMAIN f \cap JobsOf(g) # {} => Len(active'[g]) <= limit[g]
  <2> TAKE g \in Groups
  <2>1. left(g) \in Seq(Jobs) /\ Exact(left(g), Locked(g) \ R)
    BY <1>3, RecoveryType, PrunedType, SweptLists
  <2>2. CASE g \in served
    <3>1. PICK i \in DOMAIN f : g = GroupOf[i]
      BY <2>2
    <3>2. g \in ReadBy(R, n) /\ HasRoom(R, g) /\ WaitingAfter(R)[g] # {} /\ i = first(g)
      BY <1>6, <3>1
    <3>3. DOMAIN f \cap JobsOf(g) = {first(g)}
      BY <1>4, <1>6, <3>1, <3>2 DEF JobsOf
    <3>4. active'[g] = <<first(g)>> \o left(g)
      BY <1>7, <2>2
    <3>5. Len(left(g)) < limit[g]
      BY <3>2 DEF HasRoom
    <3> HIDE DEF left
    <3>6. /\ Exact(<<first(g)>> \o left(g), (Locked(g) \ R) \cup {first(g)})
          /\ Len(<<first(g)>> \o left(g)) = Len(left(g)) + 1
      BY <1>4, <2>1, <3>2, ExactPush
    <3>7. Len(left(g)) \in Nat /\ limit[g] \in Nat
      BY <2>1 DEF Inv, TypeOK
    <3>8. Len(active'[g]) <= limit[g]
      BY <3>4, <3>5, <3>6, <3>7
    <3> QED
      BY <3>3, <3>4, <3>6, <3>8
  <2>3. CASE g \notin served
    <3>1. DOMAIN f \cap JobsOf(g) = {}
      BY <2>3 DEF JobsOf
    <3>2. active'[g] = left(g)
      BY <1>7, <2>3
    <3>3. (Locked(g) \ R) \cup (DOMAIN f \cap JobsOf(g)) = Locked(g) \ R
      BY <3>1
    <3> HIDE DEF left
    <3> QED
      BY <2>1, <3>1, <3>2, <3>3
  <2> QED
    BY <2>2, <2>3
<1>10. UNCHANGED <<outcome, limit>>
  BY DEF ReserveBatch, confVars
<1> HIDE DEF left, served
<1> QED
  BY <1>3, <1>7, <1>8, <1>9, <1>10 DEF Serves

\* reserve-atomic.lua: the head of the group it is called for, or only the cleanup.
LEMMA ReserveAtomicServes ==
  ASSUME Inv, SlotsMatchLocks, NEW w \in Slots, NEW g \in Groups, ReserveAtomic(w, g)
  PROVE  Serves
<1> DEFINE R    == {}
           list == Pruned(g, active[g])
           j    == Head1(gz[g])
<1>1. \A h \in Groups : WaitingAfter(R)[h] = gz[h] /\ Locked(h) \ R = Locked(h)
  BY DEF WaitingAfter
<1>2. gz[g] \in SUBSET Jobs /\ gz[g] # {}
  BY DEF ReserveAtomic, Inv, TypeOK
<1>3. /\ j \in gz[g] /\ j \in Jobs /\ \A i \in gz[g] : Score[j] <= Score[i]
      /\ GroupOf[j] = g /\ j \notin Locked(g)
  <2>1. j \in gz[g] /\ j \in Jobs /\ \A i \in gz[g] : Score[j] <= Score[i]
    BY <1>2, HasHead
  <2> QED
    BY <2>1 DEF Locked, Inv, OnePlace
<1>4. list \in Seq(Jobs) /\ \A h \in Groups : active[h] \in Seq(Jobs)
  BY PrunedType DEF Inv, TypeOK
<1>5. Exact(list, Locked(g)) /\ \A h \in Groups : Exact(active[h], Locked(h))
  BY <1>4, SlotsByGroup, ExactPruned
<1>6. UNCHANGED <<outcome, limit>>
  BY DEF ReserveAtomic, confVars
<1>7. R \in SUBSET Expired
  OBVIOUS
<1>8. CASE Len(list) < limit[g]
  <2> DEFINE f == [i \in {j} |-> w]
  <2>1. /\ DOMAIN f = {j} /\ f[j] = w /\ LockAll(R, f)
        /\ gz' = [gz EXCEPT ![g] = @ \ {j}]
        /\ active' = [active EXCEPT ![g] = <<j>> \o list]
    BY <1>8 DEF ReserveAtomic
  <2> HIDE DEF f, j, list, R
  <2>2. gz' = [h \in Groups |-> WaitingAfter(R)[h] \ DOMAIN f]
    <3>1. \A h \in Groups : h # g => j \notin gz[h]
      BY <1>3 DEF Inv, OnePlace
    <3> QED
      BY <1>1, <2>1, <3>1 DEF Inv, TypeOK
  <2>3. \A i \in DOMAIN f :
          /\ i \in Jobs /\ f[i] \in Slots /\ i \in WaitingAfter(R)[GroupOf[i]]
          /\ \A k \in WaitingAfter(R)[GroupOf[i]] : Score[i] <= Score[k]
    BY <1>1, <1>3, <2>1
  <2>4. /\ Exact(<<j>> \o list, Locked(g) \cup {j})
        /\ Len(<<j>> \o list) = Len(list) + 1
    BY <1>3, <1>4, <1>5, ExactPush
  <2>5. Len(list) \in Nat /\ limit[g] \in Nat
    BY <1>4 DEF Inv, TypeOK
  <2>6. \A h \in Groups :
          /\ Exact(active'[h], (Locked(h) \ R) \cup (DOMAIN f \cap JobsOf(h)))
          /\ DOMAIN f \cap JobsOf(h) # {} => Len(active'[h]) <= limit[h]
    <3> TAKE h \in Groups
    <3>1. CASE h = g
      <4>1. DOMAIN f \cap JobsOf(h) = {j}
        BY <1>3, <2>1, <3>1 DEF JobsOf
      <4>2. active'[h] = <<j>> \o list
        BY <2>1, <3>1 DEF Inv, TypeOK
      <4>3. Len(active'[h]) <= limit[h]
        BY <1>8, <2>4, <2>5, <3>1, <4>2
      <4>4. (Locked(h) \ R) \cup (DOMAIN f \cap JobsOf(h)) = Locked(g) \cup {j}
        BY <1>1, <3>1, <4>1
      <4> QED
        BY <2>4, <4>2, <4>3, <4>4
    <3>2. CASE h # g
      <4>1. DOMAIN f \cap JobsOf(h) = {}
        BY <1>3, <2>1, <3>2 DEF JobsOf
      <4>2. active'[h] = active[h]
        BY <2>1, <3>2 DEF Inv, TypeOK
      <4>3. (Locked(h) \ R) \cup (DOMAIN f \cap JobsOf(h)) = Locked(h)
        BY <1>1, <4>1
      <4> QED
        BY <1>5, <4>1, <4>2, <4>3
    <3> QED
      BY <3>1, <3>2
  <2> QED
    BY <1>6, <1>7, <2>1, <2>2, <2>3, <2>6 DEF Serves
<1>9. CASE ~(Len(list) < limit[g])
  <2> DEFINE f == [i \in {} |-> w]
  <2>1. /\ active' = [active EXCEPT ![g] = list]
        /\ UNCHANGED <<gz, lock, late, status, slotVars>>
    BY <1>9 DEF ReserveAtomic
  <2>2. DOMAIN f = {}
    OBVIOUS
  <2> HIDE DEF f, j, list
  <2>3. LockAll(R, f)
    BY <2>1, <2>2 DEF LockAll, Inv, TypeOK, slotVars
  <2>4. gz' = [h \in Groups |-> WaitingAfter(R)[h] \ DOMAIN f]
    BY <1>1, <2>1, <2>2 DEF Inv, TypeOK
  <2>5. \A h \in Groups : Exact(active'[h], (Locked(h) \ R) \cup (DOMAIN f \cap JobsOf(h)))
    <3> TAKE h \in Groups
    <3>1. (Locked(h) \ R) \cup (DOMAIN f \cap JobsOf(h)) = Locked(h)
      BY <2>2
    <3>2. (active'[h] = list /\ h = g) \/ active'[h] = active[h]
      BY <2>1 DEF Inv, TypeOK
    <3> QED
      BY <1>5, <3>1, <3>2
  <2> HIDE DEF R
  <2> QED
    BY <1>6, <1>7, <2>2, <2>3, <2>4, <2>5 DEF Serves
<1> QED
  BY <1>8, <1>9

\* The locks such a call leaves behind.
LEMMA ServedLocks ==
  ASSUME NEW R \in SUBSET Jobs, NEW f, LockAll(R, f), \A j \in DOMAIN f : f[j] \in Slots
  PROVE  \A g \in Groups :
           Locked(g)' = (Locked(g) \ R) \cup (DOMAIN f \cap JobsOf(g))
BY ConstantsAssumption DEF LockAll, Locked, JobsOf

\* So every reserve call keeps the lists and the locks in step.
LEMMA ServesKeepsSlots ==
  ASSUME Inv, Serves
  PROVE  SlotsMatchLocks'
<1>1. PICK R \in SUBSET Expired : \E f :
        /\ LockAll(R, f) /\ \A j \in DOMAIN f : f[j] \in Slots
        /\ \A g \in Groups :
             Exact(active'[g], (Locked(g) \ R) \cup (DOMAIN f \cap JobsOf(g)))
  BY DEF Serves
<1>2. PICK f :
        /\ LockAll(R, f) /\ \A j \in DOMAIN f : f[j] \in Slots
        /\ \A g \in Groups :
             Exact(active'[g], (Locked(g) \ R) \cup (DOMAIN f \cap JobsOf(g)))
  BY <1>1
<1>3. R \in SUBSET Jobs
  BY DEF Expired, Inv, TypeOK
<1> QED
  BY <1>2, <1>3, ServedLocks, SlotsByGroup

-----------------------------------------------------------------------------
(* No slot of a group leaks and none is lent twice.                        *)

\* A step that moves neither list nor lock.
LEMMA SlotsFrame ==
  ASSUME SlotsMatchLocks, UNCHANGED <<lock, active>>
  PROVE  SlotsMatchLocks'
BY DEF SlotsMatchLocks

\* A step that unlocks a job and takes it out of the list of its group, by whatever
\* command the script uses for that.
LEMMA SlotsUnlock ==
  ASSUME Inv, SlotsMatchLocks, NEW j \in Jobs, NEW s,
         lock' = [lock EXCEPT ![j] = None],
         active' = [active EXCEPT ![GroupOf[j]] = s],
         Exact(s, Locked(GroupOf[j]) \ {j})
  PROVE  SlotsMatchLocks'
<1>1. \A g \in Groups : Locked(g)' = Locked(g) \ {j}
  BY DEF Locked, JobsOf, Inv, TypeOK
<1>2. ASSUME NEW g \in Groups
      PROVE  Exact(active'[g], Locked(g)')
  <2>1. CASE g = GroupOf[j]
    BY <1>1, <2>1 DEF Inv, TypeOK
  <2>2. CASE g # GroupOf[j]
    <3>1. active'[g] = active[g] /\ Locked(g) \ {j} = Locked(g)
      BY <2>2 DEF Inv, TypeOK, Locked, JobsOf
    <3> QED
      BY <1>1, <3>1, SlotsByGroup
  <2> QED
    BY <2>1, <2>2
<1> QED
  BY <1>2, SlotsByGroup

\* LREM of a job from the list of its group.
LEMMA ActiveWithout ==
  ASSUME Inv, SlotsMatchLocks, NEW j \in Jobs
  PROVE  /\ Exact(active[GroupOf[j]], Locked(GroupOf[j]))
         /\ Exact(Without(active[GroupOf[j]], {j}), Locked(GroupOf[j]) \ {j})
<1>1. /\ GroupOf[j] \in Groups /\ active[GroupOf[j]] \in Seq(Jobs)
      /\ Exact(active[GroupOf[j]], Locked(GroupOf[j]))
  BY SlotsByGroup, ConstantsAssumption DEF Inv, TypeOK
<1> QED
  BY <1>1, ExactWithout

\* DEL of the list of a group whose counter says that this job is its last.
LEMMA EmptyGroup ==
  ASSUME Inv, NEW j \in Jobs, lock[j] # None, count[GroupOf[j]] <= 1
  PROVE  Exact(<<>>, Locked(GroupOf[j]) \ {j})
<1>1. j \in Live(GroupOf[j])
  BY ConstantsAssumption DEF Live, JobsOf
<1>2. Live(GroupOf[j]) = {j}
  BY <1>1, OnlyOneLive
<1>3. Locked(GroupOf[j]) \ {j} = {}
  BY <1>2 DEF Locked, Live
<1> QED
  BY <1>3 DEF Exact

\* complete-with-metadata.lua and dead-letter.lua, which delete the keys of a group they
\* find empty.
LEMMA CompleteJobKeepsSlots ==
  ASSUME Inv, SlotsMatchLocks, NEW w \in Slots, CompleteJob(w) \/ DeadLetter(w)
  PROVE  SlotsMatchLocks'
<1> DEFINE j    == hold[w]
           g    == GroupOf[j]
           rest == Without(active[g], {j})
<1>1. j \in Jobs /\ lock[j] # None
  BY OwnerHolds DEF CompleteJob, DeadLetter, Running, Accepted
<1>2. /\ lock' = [lock EXCEPT ![j] = None]
      /\ \/ active' = [active EXCEPT ![g] = rest]
         \/ active' = [active EXCEPT ![g] = <<>>] /\ count[g] <= 1
  BY DEF CompleteJob, DeadLetter, Unlock, LastOfGroup
<1> HIDE DEF j
<1> QED
  BY <1>1, <1>2, SlotsUnlock, ActiveWithout, EmptyGroup

\* complete-and-reserve-next-with-metadata.lua: LREM, LPOP, or LPOP and LPUSH of the next
\* job, which takes over the slot of the completed one.
LEMMA NextKeepsSlots ==
  ASSUME Inv, SlotsMatchLocks, NEW w \in Slots, CompleteAndReserveNext(w)
  PROVE  SlotsMatchLocks'
<1> DEFINE j    == hold[w]
           g    == GroupOf[j]
           next == Head1(gz[g])
           list == active[g]
           free == [lock EXCEPT ![j] = None]
<1>1. j \in Jobs /\ g \in Groups /\ lock[j] # None
  BY OwnerHolds DEF CompleteAndReserveNext, Running, Accepted
<1>2. \/ active' = [active EXCEPT ![g] = Without(list, {j})] /\ lock' = free
      \/ /\ list # <<>> /\ Head(list) = j
         /\ active' = [active EXCEPT ![g] = Tail(list)] /\ lock' = free
      \/ /\ list # <<>> /\ Head(list) = j /\ gz[g] # {}
         /\ active' = [active EXCEPT ![g] = <<next>> \o Tail(list)]
         /\ lock' = [free EXCEPT ![next] = w]
  BY DEF CompleteAndReserveNext
<1>3. gz[g] # {} => next \in Jobs /\ GroupOf[next] = g /\ lock[next] = None
  <2>1. gz[g] \in SUBSET Jobs
    BY <1>1 DEF Inv, TypeOK
  <2>2. gz[g] # {} => next \in gz[g] /\ next \in Jobs
    BY <2>1, HasHead
  <2> HIDE DEF next, j
  <2> QED
    BY <2>2, <1>1 DEF Inv, OnePlace
<1> HIDE DEF j, next
<1>4. list \in Seq(Jobs) /\ Exact(list, Locked(g))
  BY <1>1, SlotsByGroup DEF Inv, TypeOK
<1>5. CASE active' = [active EXCEPT ![g] = Without(list, {j})] /\ lock' = free
  BY <1>1, <1>5, ActiveWithout, SlotsUnlock
<1>6. CASE /\ list # <<>> /\ Head(list) = j
           /\ active' = [active EXCEPT ![g] = Tail(list)] /\ lock' = free
  BY <1>1, <1>4, <1>6, ExactTail, SlotsUnlock
<1>7. CASE /\ list # <<>> /\ Head(list) = j /\ gz[g] # {}
           /\ active' = [active EXCEPT ![g] = <<next>> \o Tail(list)]
           /\ lock' = [free EXCEPT ![next] = w]
  <2>1. Tail(list) \in Seq(Jobs) /\ Exact(Tail(list), Locked(g) \ {j})
    BY <1>4, <1>7, ExactTail
  <2>2. Exact(<<next>> \o Tail(list), (Locked(g) \ {j}) \cup {next})
    <3>1. next \notin Locked(g) \ {j}
      BY <1>3, <1>7 DEF Locked
    <3> QED
      BY <1>3, <1>7, <2>1, <3>1, ExactPush
  <2>3. next # j /\ w # None
    BY <1>1, <1>3, <1>7, ConstantsAssumption
  <2>4. /\ lock'[j] = None /\ lock'[next] # None
        /\ \A i \in Jobs \ {j, next} : lock'[i] = lock[i]
    BY <1>1, <1>3, <1>7, <2>3 DEF Inv, TypeOK
  <2>5. active'[g] = <<next>> \o Tail(list) /\ \A h \in Groups \ {g} : active'[h] = active[h]
    BY <1>1, <1>7 DEF Inv, TypeOK
  <2>6. ASSUME NEW h \in Groups
        PROVE  Exact(active'[h], Locked(h)')
    <3>1. CASE h = g
      <4>1. Locked(h)' = (Locked(g) \ {j}) \cup {next}
        BY <1>1, <1>3, <1>7, <2>3, <2>4, <3>1 DEF Locked, JobsOf
      <4> QED
        BY <2>2, <2>5, <3>1, <4>1
    <3>2. CASE h # g
      <4>1. Locked(h)' = Locked(h)
        BY <1>1, <1>3, <1>7, <2>4, <3>2 DEF Locked, JobsOf
      <4> QED
        BY <2>5, <3>2, <4>1, SlotsByGroup
    <3> QED
      BY <3>1, <3>2
  <2> QED
    BY <2>6, SlotsByGroup
<1> QED
  BY <1>2, <1>5, <1>6, <1>7

\* Every action keeps the lists and the locks in step.
LEMMA SlotsKeptByNext ==
  ASSUME Inv, SlotsMatchLocks, Next
  PROVE  SlotsMatchLocks'
<1>1. ASSUME NEW j \in Jobs, Add(j) \/ AddDelayed(j) \/ Promote(j) \/ DeadlinePasses(j)
      PROVE  SlotsMatchLocks'
  BY <1>1, SlotsFrame DEF Add, AddDelayed, Promote, DeadlinePasses
<1>2. ASSUME NEW w \in Slots, Reserve(w)
      PROVE  SlotsMatchLocks'
  BY <1>2, ReserveNoneServes, ReserveJobServes, ServesKeepsSlots DEF Reserve
<1>3. ASSUME NEW W \in SUBSET Slots, ReserveBatch(W)
      PROVE  SlotsMatchLocks'
  BY <1>3, ReserveBatchServes, ServesKeepsSlots
<1>4. ASSUME NEW w \in Slots, NEW g \in Groups, ReserveAtomic(w, g)
      PROVE  SlotsMatchLocks'
  BY <1>4, ReserveAtomicServes, ServesKeepsSlots
<1>5. ASSUME NEW w \in Slots, CompleteJob(w) \/ DeadLetter(w)
      PROVE  SlotsMatchLocks'
  BY <1>5, CompleteJobKeepsSlots
<1>6. ASSUME NEW w \in Slots, CompleteAndReserveNext(w)
      PROVE  SlotsMatchLocks'
  BY <1>6, NextKeepsSlots
<1>7. ASSUME NEW w \in Slots, NEW b \in Backoffs, Retry(w, b)
      PROVE  SlotsMatchLocks'
  <2> DEFINE j == hold[w]
             s == Without(active[GroupOf[j]], {j})
  <2>1. j \in Jobs
    BY <1>7, OwnerHolds DEF Retry, Running
  <2>2. \/ UNCHANGED <<lock, active>>
        \/ /\ lock' = [lock EXCEPT ![j] = None]
           /\ active' = [active EXCEPT ![GroupOf[j]] = s]
    BY <1>7 DEF Retry, placeVars, Unlock
  <2> HIDE DEF j
  <2> QED
    BY <2>1, <2>2, SlotsFrame, ActiveWithout, SlotsUnlock
<1>8. ASSUME NEW w \in Slots, RecordFinalFailure(w) \/ LockLost(w) \/ Heartbeat(w) \/ Crash(w)
      PROVE  SlotsMatchLocks'
  BY <1>8, SlotsFrame
    DEF RecordFinalFailure, LockLost, Heartbeat, Crash, queueVars, placeVars
<1>9. ASSUME NEW j \in Jobs, CheckStalled(j) \/ Cleanup(j)
      PROVE  SlotsMatchLocks'
  <2> DEFINE s == Without(active[GroupOf[j]], {j})
  <2>1. /\ lock' = [lock EXCEPT ![j] = None]
        /\ active' = [active EXCEPT ![GroupOf[j]] = s]
    BY <1>9 DEF CheckStalled, Cleanup, Unlock
  <2> QED
    BY <2>1, ActiveWithout, SlotsUnlock
<1>10. ASSUME NEW g \in Groups, NEW n \in Limits, SetConcurrency(g, n)
       PROVE  SlotsMatchLocks'
  BY <1>10, SlotsFrame DEF SetConcurrency, placeVars
<1>11. ASSUME Pause \/ Resume
       PROVE  SlotsMatchLocks'
  BY <1>11, SlotsFrame DEF Pause, Resume, placeVars
<1> QED
  BY <1>1, <1>2, <1>3, <1>4, <1>5, <1>6, <1>7, <1>8, <1>9, <1>10, <1>11
    DEF Next, Finish

\* The inductive invariant of this module: Inv says who can be locked and when a group
\* is deleted as empty, without which the lists could lose a job.
LEMMA SlotsInvariance == Spec => [](Inv /\ SlotsMatchLocks)
<1>1. Init => SlotsMatchLocks
  BY DEF Init, SlotsMatchLocks, JobsOf
<1>2. Inv /\ SlotsMatchLocks /\ [Next]_vars => SlotsMatchLocks'
  <2>1. CASE UNCHANGED vars
    BY <2>1, SlotsFrame DEF vars, placeVars
  <2> QED
    BY <2>1, SlotsKeptByNext
<1> QED
  BY <1>1, <1>2, Invariance, PTL DEF Spec

\* Whatever crashes, expires, is retried, recovered, paused or completed out of order, the
\* list the concurrency limit counts is exactly what is locked.
THEOREM SlotsMatchLocksHolds == Spec => []SlotsMatchLocks
BY SlotsInvariance, PTL

-----------------------------------------------------------------------------
(* A group is served in order.                                             *)

\* The action of FifoPerGroup.
InOrder ==
  \A j \in Jobs : lock[j] # lock'[j] /\ lock'[j] # None =>
    LET g == GroupOf[j] IN
    \A i \in JobsOf(g) : Score[i] < Score[j] =>
       /\ status'[i] # "waiting"
       /\ limit[g] = 1 /\ Len(active[g]) <= 1 => lock'[i] = None

\* Only a reserve call and complete-and-reserve-next lock a job.
LEMMA LockWriters ==
  ASSUME Inv, SlotsMatchLocks, Next
  PROVE  \/ Serves
         \/ \E w \in Slots : CompleteAndReserveNext(w)
         \/ \A j \in Jobs : lock'[j] \in {lock[j], None}
<1>1. ASSUME NEW w \in Slots, Reserve(w)
      PROVE  Serves
  BY <1>1, ReserveNoneServes, ReserveJobServes DEF Reserve
<1>2. ASSUME NEW W \in SUBSET Slots, ReserveBatch(W)
      PROVE  Serves
  BY <1>2, ReserveBatchServes
<1>3. ASSUME NEW w \in Slots, NEW g \in Groups, ReserveAtomic(w, g)
      PROVE  Serves
  BY <1>3, ReserveAtomicServes
<1>4. ASSUME \/ \E j \in Jobs : \/ Add(j) \/ AddDelayed(j) \/ Promote(j)
                               \/ DeadlinePasses(j) \/ CheckStalled(j) \/ Cleanup(j)
             \/ \E w \in Slots : Heartbeat(w) \/ Crash(w)
             \/ \E g \in Groups, n \in Limits : SetConcurrency(g, n)
             \/ Pause \/ Resume
      PROVE  \A j \in Jobs : lock'[j] \in {lock[j], None}
  BY <1>4, ZenonT(60) DEF Add, AddDelayed, Promote, DeadlinePasses, CheckStalled, Cleanup,
    Heartbeat, Crash, SetConcurrency, Pause, Resume, Unlock, queueVars, placeVars,
    Inv, TypeOK
<1>5. ASSUME NEW w \in Slots,
             \/ CompleteJob(w) \/ RecordFinalFailure(w) \/ DeadLetter(w) \/ LockLost(w)
             \/ \E b \in Backoffs : Retry(w, b)
      PROVE  \A j \in Jobs : lock'[j] \in {lock[j], None}
  <2>1. \/ UNCHANGED lock
        \/ lock' = [lock EXCEPT ![hold[w]] = None]
    BY <1>5 DEF CompleteJob, Retry, RecordFinalFailure, DeadLetter, LockLost, Unlock,
      queueVars, placeVars
  <2> QED
    BY <2>1 DEF Inv, TypeOK
<1> QED
  BY <1>1, <1>2, <1>3, <1>4, <1>5 DEF Next, Finish

\* A list of at most one entry holds one job.
LEMMA ExactOne ==
  ASSUME NEW s \in Seq(Jobs), NEW S, Exact(s, S), Len(s) <= 1, NEW i \in S, NEW j \in S
  PROVE  i = j
<1>1. DOMAIN s = 1..Len(s) /\ Len(s) \in Nat
  OBVIOUS
<1>2. PICK m \in DOMAIN s : s[m] = i
  BY DEF Exact
<1>3. PICK n \in DOMAIN s : s[n] = j
  BY DEF Exact
<1>4. m = 1 /\ n = 1
  BY <1>1
<1> QED
  BY <1>2, <1>3, <1>4

\* At limit 1, what a reserve call locks is alone in its group.
LEMMA AloneInGroup ==
  ASSUME Inv', SlotsMatchLocks', NEW g \in Groups, Len(active'[g]) <= 1,
         NEW i \in JobsOf(g), NEW j \in JobsOf(g), i # j, lock'[j] # None
  PROVE  lock'[i] = None
<1>1. active'[g] \in Seq(Jobs) /\ Exact(active'[g], Locked(g)')
  BY SlotsByGroup DEF Inv, TypeOK
<1>2. j \in Locked(g)' /\ (lock'[i] # None => i \in Locked(g)')
  BY DEF Locked, JobsOf
<1> QED
  BY <1>1, <1>2, ExactOne

\* The first of its group is locked, whoever locks.
LEMMA NextInOrder ==
  ASSUME Inv, SlotsMatchLocks, Inv', SlotsMatchLocks', Next
  PROVE  InOrder
<1> SUFFICES ASSUME NEW j \in Jobs, lock[j] # lock'[j], lock'[j] # None,
                    NEW g \in Groups, g = GroupOf[j],
                    NEW i \in JobsOf(g), Score[i] < Score[j]
             PROVE  /\ status'[i] # "waiting"
                    /\ limit[g] = 1 /\ Len(active[g]) <= 1 => lock'[i] = None
  BY ConstantsAssumption DEF InOrder
<1>1. i \in Jobs /\ GroupOf[i] = g /\ j \in JobsOf(g) /\ i # j
      /\ Score[i] \in Nat /\ Score[j] \in Nat
  BY ConstantsAssumption DEF JobsOf
<1>2. status'[i] = "waiting" => i \in gz'[g]
  BY <1>1 DEF Inv, OnePlace
<1>3. CASE Serves
  <2>1. PICK R \in SUBSET Expired : \E f :
          /\ LockAll(R, f)
          /\ gz' = [h \in Groups |-> WaitingAfter(R)[h] \ DOMAIN f]
          /\ \A k \in DOMAIN f : \A m \in WaitingAfter(R)[GroupOf[k]] : Score[k] <= Score[m]
          /\ \A h \in Groups :
               DOMAIN f \cap JobsOf(h) # {} => Len(active'[h]) <= limit[h]
    BY <1>3 DEF Serves
  <2>2. PICK f :
          /\ LockAll(R, f)
          /\ gz' = [h \in Groups |-> WaitingAfter(R)[h] \ DOMAIN f]
          /\ \A k \in DOMAIN f : \A m \in WaitingAfter(R)[GroupOf[k]] : Score[k] <= Score[m]
          /\ \A h \in Groups :
               DOMAIN f \cap JobsOf(h) # {} => Len(active'[h]) <= limit[h]
    BY <2>1
  <2>3. j \in DOMAIN f
    BY <2>2 DEF LockAll
  <2>4. status'[i] # "waiting"
    BY <1>1, <1>2, <2>2, <2>3
  <2>5. Len(active'[g]) <= limit[g]
    BY <1>1, <2>2, <2>3
  <2> QED
    BY <1>1, <2>4, <2>5, AloneInGroup
<1>4. CASE \E w \in Slots : CompleteAndReserveNext(w)
  <2>1. PICK w \in Slots : CompleteAndReserveNext(w)
    BY <1>4
  <2> DEFINE d    == hold[w]
             gd   == GroupOf[d]
             next == Head1(gz[gd])
             list == active[gd]
             free == [lock EXCEPT ![d] = None]
  <2>2. \/ lock' = free
        \/ /\ list # <<>> /\ Head(list) = d /\ gz[gd] # {}
           /\ active' = [active EXCEPT ![gd] = <<next>> \o Tail(list)]
           /\ gz' = [gz EXCEPT ![gd] = @ \ {next}]
           /\ lock' = [free EXCEPT ![next] = w]
    BY <2>1 DEF CompleteAndReserveNext
  <2>3. d \in Jobs /\ gd \in Groups
    BY <2>1, OwnerHolds DEF CompleteAndReserveNext, Running, Accepted
  <2>4. gz[gd] \in SUBSET Jobs /\ list \in Seq(Jobs)
    BY <2>3 DEF Inv, TypeOK
  <2>5. gz[gd] # {} => /\ next \in gz[gd] /\ next \in Jobs
                       /\ \A m \in gz[gd] : Score[next] <= Score[m]
    BY <2>4, HasHead
  <2> HIDE DEF d, next
  <2>6. /\ list # <<>> /\ gz[gd] # {} /\ j = next
        /\ active' = [active EXCEPT ![gd] = <<next>> \o Tail(list)]
        /\ gz' = [gz EXCEPT ![gd] = @ \ {next}]
    BY <2>2, <2>3, <2>5 DEF Inv, TypeOK
  <2>7. gd = g
    BY <2>3, <2>5, <2>6 DEF Inv, OnePlace
  <2>8. gz'[g] = gz[g] \ {next} /\ active'[g] = <<next>> \o Tail(list)
    BY <2>6, <2>7 DEF Inv, TypeOK
  <2>9. status'[i] # "waiting"
    BY <1>1, <1>2, <2>5, <2>6, <2>7, <2>8
  <2>10. Len(active'[g]) = Len(active[g])
    <3> HIDE DEF list, gd
    <3>1. Len(<<next>> \o Tail(list)) = Len(list)
      BY <2>4, <2>5, <2>6
    <3> QED
      BY <3>1, <2>7, <2>8 DEF list
  <2> QED
    BY <1>1, <2>9, <2>10, AloneInGroup
<1>5. CASE \A k \in Jobs : lock'[k] \in {lock[k], None}
  BY <1>5
<1> QED
  BY <1>3, <1>4, <1>5, LockWriters

\* Per-group FIFO: whoever gets a job gets the first of its group, and at limit 1 gets it
\* only when nothing before it is in processing.
THEOREM FifoPerGroupHolds == Spec => FifoPerGroup
<1>1. /\ Inv /\ SlotsMatchLocks /\ Inv' /\ SlotsMatchLocks' /\ [Next]_vars
      => [InOrder]_vars
  BY NextInOrder
<1> QED
  BY <1>1, SlotsInvariance, PTL DEF Spec, FifoPerGroup, InOrder

-----------------------------------------------------------------------------
(* The queue implements GroupFifo, when failed jobs are not retained.      *)

\* The statuses of a job that is over.
Finals == {"completed", "failed", "gone"}

\* What is over has its result.
Recorded == \A j \in Jobs : status[j] \in Finals => outcome[j] # None

\* The invariant of the refinement.
FifoInv == Inv /\ SlotsMatchLocks /\ Ended /\ Recorded

\* Under it the status of a job alone says where it is in its life and who has it.
PhaseTold ==
  \A j \in Jobs :
    /\ status[j] \in Finals => Phase(j) = "done"
    /\ status[j] = "processing" => Phase(j) = "running" /\ lock[j] \in Slots
    /\ status[j] \in {"none", "delayed", "waiting"} =>
         Phase(j) = status[j] /\ lock[j] = None
    /\ status[j] \in Finals \cup {"processing", "none", "delayed", "waiting"}

LEMMA PhaseByStatus == FifoInv => PhaseTold
BY ConstantsAssumption
  DEF PhaseTold, Phase, Finals, FifoInv, Recorded, Ended, Inv, OnePlace, TypeOK, Statuses

\* The life of a job in the statuses: what one step of any script may do to it.
Moves(j) ==
  /\ \/ status'[j] = status[j] /\ lock'[j] = lock[j]
     \/ status[j] = "none" /\ status'[j] \in {"waiting", "delayed"}
     \/ status[j] = "delayed" /\ status'[j] = "waiting"
     \/ status[j] \in {"waiting", "processing"} /\ status'[j] = "processing"
     \/ status[j] = "processing" /\ status'[j] \in {"waiting", "delayed"} \cup Finals
     \/ status[j] \in Finals /\ status'[j] \in Finals
  /\ status'[j] \in Finals => outcome'[j] # None

\* The jobs of the group in processing, which the abstract queue calls running.
Busy(g) == {j \in JobsOf(g) : status[j] = "processing"}

\* No step lifts a group above its limit.
WithinLimit ==
  \A g \in Groups :
    Cardinality(Busy(g)') > Cardinality(Busy(g)) => Cardinality(Busy(g)') <= limit[g]

\* The jobs in processing can be counted, before and after a step.
LEMMA BusyFinite ==
  ASSUME NEW g
  PROVE  /\ IsFiniteSet(Busy(g)) /\ Cardinality(Busy(g)) \in Nat
         /\ IsFiniteSet(Busy(g)') /\ Cardinality(Busy(g)') \in Nat
<1>1. Busy(g) \in SUBSET Jobs /\ Busy(g)' \in SUBSET Jobs
  BY DEF Busy, JobsOf
<1>2. IsFiniteSet(Busy(g)) /\ IsFiniteSet(Busy(g)')
  BY <1>1, ConstantsAssumption, FS_Subset
<1> QED
  BY <1>2, FS_CardinalityType

\* A group that gets no job does not grow.
LEMMA NotGrowing ==
  ASSUME NEW g, Busy(g)' \subseteq Busy(g)
  PROVE  ~(Cardinality(Busy(g)') > Cardinality(Busy(g)))
BY BusyFinite, FS_Subset

\* Sweeps take back nothing that is over.
LEMMA SweptProcessing ==
  ASSUME FifoInv, NEW j \in Expired
  PROVE  j \in Jobs /\ status[j] = "processing"
BY DEF FifoInv, Inv, TypeOK, OnePlace, Expired, Ended, Recorded, Finals

\* A reserve call moves jobs as it should and stays within the limits.
LEMMA ServesMoves ==
  ASSUME FifoInv, Inv', SlotsMatchLocks', Serves
  PROVE  (\A j \in Jobs : Moves(j)) /\ WithinLimit
<1>1. PICK R \in SUBSET Expired : \E f :
        /\ LockAll(R, f)
        /\ \A k \in DOMAIN f : k \in Jobs /\ k \in WaitingAfter(R)[GroupOf[k]]
        /\ \A h \in Groups :
             DOMAIN f \cap JobsOf(h) # {} => Len(active'[h]) <= limit[h]
        /\ UNCHANGED outcome
  BY DEF Serves
<1>2. PICK f :
        /\ LockAll(R, f)
        /\ \A k \in DOMAIN f : k \in Jobs /\ k \in WaitingAfter(R)[GroupOf[k]]
        /\ \A h \in Groups :
             DOMAIN f \cap JobsOf(h) # {} => Len(active'[h]) <= limit[h]
        /\ UNCHANGED outcome
  BY <1>1
<1>3. \A j \in R : j \in Jobs /\ status[j] = "processing"
  BY SweptProcessing
<1>4. \A j \in DOMAIN f : status[j] \in {"waiting", "processing"}
  BY <1>2, <1>3, ConstantsAssumption DEF WaitingAfter, FifoInv, Inv, OnePlace
<1>5. \A j \in Jobs : Moves(j)
  BY <1>2, <1>3, <1>4 DEF LockAll, Moves, FifoInv, Recorded, Finals
<1>6. WithinLimit
  <2> SUFFICES ASSUME NEW g \in Groups, Cardinality(Busy(g)') > Cardinality(Busy(g))
               PROVE  Cardinality(Busy(g)') <= limit[g]
    BY DEF WithinLimit
  <2>1. DOMAIN f \cap JobsOf(g) # {}
    <3>1. CASE DOMAIN f \cap JobsOf(g) = {}
      <4>1. Busy(g)' \subseteq Busy(g)
        BY <1>2, <3>1 DEF LockAll, Busy, JobsOf
      <4> QED
        BY <4>1, NotGrowing
    <3> QED
      BY <3>1
  <2>2. active'[g] \in Seq(Jobs) /\ Exact(active'[g], Locked(g)')
    BY SlotsByGroup DEF Inv, TypeOK
  <2>3. IsFiniteSet(Locked(g)') /\ Cardinality(Locked(g)') = Len(active'[g])
    BY <2>2, ExactLength
  <2>4. Busy(g)' \subseteq Locked(g)'
    BY DEF Busy, Locked, JobsOf, Inv, OnePlace
  <2>5. Cardinality(Busy(g)') <= Cardinality(Locked(g)')
    BY <2>3, <2>4, FS_Subset
  <2>6. Len(active'[g]) \in Nat /\ limit[g] \in Nat
    BY <2>2 DEF FifoInv, Inv, TypeOK
  <2> QED
    BY <1>2, <2>1, <2>3, <2>5, <2>6, BusyFinite
<1> QED
  BY <1>5, <1>6

\* complete-and-reserve-next ends one job and hands out another of the group at most.
LEMMA NextMoves ==
  ASSUME FifoInv, NEW w \in Slots, CompleteAndReserveNext(w)
  PROVE  (\A j \in Jobs : Moves(j)) /\ WithinLimit
<1> DEFINE d    == hold[w]
           g    == GroupOf[d]
           next == Head1(gz[g])
           done == [status EXCEPT ![d] = Final(KeepCompleted, "completed")]
           free == [lock EXCEPT ![d] = None]
<1>1. /\ d \in Jobs /\ g \in Groups /\ status[d] = "processing" /\ Inv
      /\ outcome' = [outcome EXCEPT ![d] = "completed"]
  BY OwnerHolds DEF CompleteAndReserveNext, Running, Accepted, FifoInv
<1>2. \/ status' = done /\ lock' = free
      \/ /\ gz[g] # {}
         /\ status' = [done EXCEPT ![next] = "processing"]
         /\ lock' = [free EXCEPT ![next] = w]
  BY DEF CompleteAndReserveNext
<1>3. gz[g] # {} => next \in Jobs /\ status[next] = "waiting" /\ GroupOf[next] = g
  <2>1. gz[g] \in SUBSET Jobs
    BY <1>1 DEF Inv, TypeOK
  <2>2. gz[g] # {} => next \in gz[g] /\ next \in Jobs
    BY <2>1, HasHead
  <2> HIDE DEF next, d
  <2> QED
    BY <2>2, <1>1 DEF Inv, OnePlace
<1> HIDE DEF d, next
<1>4. /\ outcome'[d] = "completed" /\ outcome'[d] # None
      /\ \A i \in Jobs \ {d} : outcome'[i] = outcome[i]
  BY <1>1, ConstantsAssumption DEF Inv, TypeOK
<1>5. CASE status' = done /\ lock' = free
  <2>1. /\ status'[d] \in Finals
        /\ \A i \in Jobs \ {d} : status'[i] = status[i] /\ lock'[i] = lock[i]
    BY <1>1, <1>5 DEF Inv, TypeOK, Final, Finals
  <2>2. \A i \in Jobs : Moves(i)
    BY <1>1, <1>4, <2>1 DEF Moves, FifoInv, Recorded
  <2>3. \A h \in Groups : Busy(h)' \subseteq Busy(h)
    BY <1>1, <2>1 DEF Busy, JobsOf, Finals
  <2> QED
    BY <2>2, <2>3, NotGrowing DEF WithinLimit
<1>6. CASE /\ gz[g] # {}
           /\ status' = [done EXCEPT ![next] = "processing"]
           /\ lock' = [free EXCEPT ![next] = w]
  <2>1. next # d
    BY <1>1, <1>3, <1>6
  <2>2. /\ status'[d] \in Finals /\ status'[next] = "processing"
        /\ \A i \in Jobs \ {d, next} : status'[i] = status[i] /\ lock'[i] = lock[i]
    BY <1>1, <1>3, <1>6, <2>1 DEF Inv, TypeOK, Final, Finals
  <2>3. \A i \in Jobs : Moves(i)
    BY <1>1, <1>3, <1>4, <1>6, <2>2, ZenonT(60) DEF Moves, FifoInv, Recorded, Finals
  <2>4. ASSUME NEW h \in Groups
        PROVE  ~(Cardinality(Busy(h)') > Cardinality(Busy(h)))
    <3>1. CASE h = g
      <4>1. d \in Busy(h) /\ next \notin Busy(h)
        BY <1>1, <1>3, <1>6, <3>1 DEF Busy, JobsOf
      <4>2. Busy(h)' = (Busy(h) \ {d}) \cup {next}
        BY <1>1, <1>3, <1>6, <2>2, <3>1 DEF Busy, JobsOf, Finals
      <4>3. IsFiniteSet(Busy(h) \ {d})
            /\ Cardinality(Busy(h) \ {d}) = Cardinality(Busy(h)) - 1
        BY <4>1, BusyFinite, FS_RemoveElement
      <4>4. Cardinality((Busy(h) \ {d}) \cup {next}) = Cardinality(Busy(h) \ {d}) + 1
        <5>1. next \notin Busy(h) \ {d}
          BY <4>1
        <5> QED
          BY <4>3, <5>1, FS_AddElement
      <4>5. Cardinality(Busy(h)') = Cardinality(Busy(h))
        BY <4>2, <4>3, <4>4, BusyFinite
      <4> QED
        BY <4>5, BusyFinite
    <3>2. CASE h # g
      <4>1. Busy(h)' \subseteq Busy(h)
        BY <1>1, <1>3, <1>6, <2>2, <3>2 DEF Busy, JobsOf, Finals
      <4> QED
        BY <4>1, NotGrowing
    <3> QED
      BY <3>1, <3>2
  <2> QED
    BY <2>3, <2>4 DEF WithinLimit
<1> QED
  BY <1>2, <1>5, <1>6

\* A step that hands out nothing.
Quiet == \A j \in Jobs : Moves(j) /\ (status'[j] = "processing" => status[j] = "processing")

\* Such a step stays within the limits.
LEMMA QuietWithinLimit ==
  ASSUME Quiet
  PROVE  WithinLimit
<1>1. \A g \in Groups : Busy(g)' \subseteq Busy(g)
  BY DEF Quiet, Busy, JobsOf
<1> QED
  BY <1>1, NotGrowing DEF WithinLimit

\* A step that leaves all statuses and results and unlocks what is over at most.
LEMMA QuietFrame ==
  ASSUME FifoInv, UNCHANGED <<status, outcome>>,
         \A j \in Jobs : lock'[j] = lock[j] \/ status[j] \in Finals
  PROVE  Quiet
BY DEF Quiet, Moves, FifoInv, Recorded

\* A step that moves one job.
LEMMA QuietMove ==
  ASSUME FifoInv, NEW j \in Jobs, Moves(j), status'[j] # "processing",
         \A i \in Jobs \ {j} : /\ status'[i] = status[i] /\ lock'[i] = lock[i]
                               /\ outcome'[i] = outcome[i]
  PROVE  Quiet
BY DEF Quiet, Moves, FifoInv, Recorded

\* All other steps are such steps.
LEMMA OthersQuiet ==
  ASSUME KeepFailed = FALSE, FifoInv, Next
  PROVE  Serves \/ (\E w \in Slots : CompleteAndReserveNext(w)) \/ Quiet
<1> USE DEF FifoInv
<1>1. ASSUME NEW j \in Jobs, Add(j) \/ AddDelayed(j) \/ Promote(j)
      PROVE  Quiet
  <2>1. \/ status[j] = "none" /\ status' = [status EXCEPT ![j] = "waiting"]
        \/ status[j] = "none" /\ status' = [status EXCEPT ![j] = "delayed"]
        \/ status[j] = "delayed" /\ status' = [status EXCEPT ![j] = "waiting"]
    BY <1>1 DEF Add, AddDelayed, Promote, Inv, OnePlace
  <2>2. UNCHANGED <<lock, outcome>>
    BY <1>1 DEF Add, AddDelayed, Promote
  <2>3. Moves(j) /\ status'[j] # "processing"
    BY <2>1 DEF Moves, Finals, Inv, TypeOK
  <2>4. \A i \in Jobs \ {j} : status'[i] = status[i]
    BY <2>1 DEF Inv, TypeOK
  <2> QED
    BY <2>2, <2>3, <2>4, QuietMove
<1>2. ASSUME NEW w \in Slots, Reserve(w)
      PROVE  Serves
  BY <1>2, ReserveNoneServes, ReserveJobServes DEF Reserve
<1>3. ASSUME NEW W \in SUBSET Slots, ReserveBatch(W)
      PROVE  Serves
  BY <1>3, ReserveBatchServes
<1>4. ASSUME NEW w \in Slots, NEW g \in Groups, ReserveAtomic(w, g)
      PROVE  Serves
  BY <1>4, ReserveAtomicServes
<1>5. ASSUME NEW w \in Slots, CompleteJob(w)
      PROVE  Quiet
  <2> DEFINE j == hold[w]
  <2>1. /\ j \in Jobs /\ status[j] = "processing"
        /\ status' = [status EXCEPT ![j] = Final(KeepCompleted, "completed")]
        /\ outcome' = [outcome EXCEPT ![j] = "completed"]
        /\ lock' = [lock EXCEPT ![j] = None]
    BY <1>5, OwnerHolds DEF CompleteJob, Running, Accepted, Unlock
  <2> HIDE DEF j
  <2>2. Moves(j) /\ status'[j] # "processing"
    BY <2>1, ConstantsAssumption DEF Moves, Final, Finals, Inv, TypeOK
  <2>3. \A i \in Jobs \ {j} : /\ status'[i] = status[i] /\ lock'[i] = lock[i]
                              /\ outcome'[i] = outcome[i]
    BY <2>1 DEF Inv, TypeOK
  <2> QED
    BY <2>1, <2>2, <2>3, QuietMove
<1>6. ASSUME NEW w \in Slots, NEW b \in Backoffs, Retry(w, b)
      PROVE  Quiet
  <2> DEFINE j == hold[w]
  <2>1. j \in Jobs /\ lock[j] = w /\ stage[w] = "running" /\ lock[j] # None
    BY <1>6, OwnerHolds DEF Retry, Running, Owns
  <2>2. outcome[j] = None
    BY <2>1 DEF Ended
  <2>3. status[j] = "processing"
    BY <2>1, <2>2 DEF Recorded, Finals, Inv, OnePlace
  <2>4. UNCHANGED outcome
    BY <1>6 DEF Retry
  <2>5. \/ UNCHANGED <<status, lock>>
        \/ /\ lock' = [lock EXCEPT ![j] = None]
           /\ \/ status' = [status EXCEPT ![j] = "delayed"]
              \/ status' = [status EXCEPT ![j] = "waiting"]
    BY <1>6 DEF Retry, Unlock, placeVars
  <2> HIDE DEF j
  <2>6. CASE UNCHANGED <<status, lock>>
    BY <2>4, <2>6, QuietFrame
  <2>7. CASE /\ lock' = [lock EXCEPT ![j] = None]
             /\ \/ status' = [status EXCEPT ![j] = "delayed"]
                \/ status' = [status EXCEPT ![j] = "waiting"]
    <3>1. Moves(j) /\ status'[j] # "processing"
      BY <2>1, <2>3, <2>7 DEF Moves, Finals, Inv, TypeOK
    <3>2. \A i \in Jobs \ {j} : status'[i] = status[i] /\ lock'[i] = lock[i]
      BY <2>7 DEF Inv, TypeOK
    <3> QED
      BY <2>1, <2>4, <3>1, <3>2, QuietMove
  <2> QED
    BY <2>5, <2>6, <2>7
<1>7. ASSUME NEW w \in Slots, RecordFinalFailure(w)
      PROVE  Quiet
  <2> DEFINE j == hold[w]
  <2>1. j \in Jobs /\ lock[j] # None
    BY <1>7, OwnerHolds DEF RecordFinalFailure
  <2>2. /\ UNCHANGED lock
        /\ \/ UNCHANGED <<status, outcome>>
           \/ /\ status' = [status EXCEPT ![j] = "gone"]
              /\ outcome' = [outcome EXCEPT ![j] = "failed"]
    BY <1>7 DEF RecordFinalFailure, Final, jobVars, placeVars
  <2> HIDE DEF j
  <2>3. CASE UNCHANGED <<status, outcome>>
    BY <2>2, <2>3, QuietFrame
  <2>4. CASE /\ status' = [status EXCEPT ![j] = "gone"]
             /\ outcome' = [outcome EXCEPT ![j] = "failed"]
    <3>1. status[j] \in {"processing"} \cup Finals
      BY <2>1 DEF Inv, OnePlace, Finals
    <3>2. Moves(j) /\ status'[j] # "processing"
      BY <2>1, <2>4, <3>1, ConstantsAssumption DEF Moves, Finals, Inv, TypeOK
    <3>3. \A i \in Jobs \ {j} : status'[i] = status[i] /\ outcome'[i] = outcome[i]
      BY <2>4 DEF Inv, TypeOK
    <3> QED
      BY <2>1, <2>2, <3>2, <3>3, QuietMove
  <2> QED
    BY <2>2, <2>3, <2>4
<1>8. ASSUME NEW w \in Slots, DeadLetter(w)
      PROVE  Quiet
  <2> DEFINE j == hold[w]
  <2>1. j \in Jobs /\ status[j] \in {"failed", "gone"}
    BY <1>8, OwnerHolds DEF DeadLetter, Inv, RecordedIsFinal
  <2>2. UNCHANGED <<status, outcome>> /\ lock' = [lock EXCEPT ![j] = None]
    BY <1>8 DEF DeadLetter, Unlock, jobVars
  <2> HIDE DEF j
  <2>3. \A i \in Jobs : lock'[i] = lock[i] \/ status[i] \in Finals
    BY <2>1, <2>2 DEF Inv, TypeOK, Finals
  <2> QED
    BY <2>2, <2>3, QuietFrame
<1>9. ASSUME \/ \E w \in Slots : LockLost(w) \/ Heartbeat(w) \/ Crash(w)
             \/ \E j \in Jobs : DeadlinePasses(j)
             \/ \E g \in Groups, n \in Limits : SetConcurrency(g, n)
             \/ Pause \/ Resume
      PROVE  Quiet
  <2>1. UNCHANGED <<status, lock, outcome>>
    BY <1>9 DEF LockLost, Heartbeat, Crash, DeadlinePasses, SetConcurrency, Pause,
      Resume, queueVars, jobVars, placeVars
  <2> QED
    BY <2>1, QuietFrame
<1>10. ASSUME NEW j \in Jobs, CheckStalled(j)
       PROVE  Quiet
  <2>1. /\ status[j] = "processing" /\ lock' = [lock EXCEPT ![j] = None]
        /\ \/ /\ status' = [status EXCEPT ![j] = "failed"]
              /\ outcome' = [outcome EXCEPT ![j] = "failed"]
           \/ status' = [status EXCEPT ![j] = "waiting"] /\ UNCHANGED outcome
    BY <1>10 DEF CheckStalled, Unlock
  <2>2. Moves(j) /\ status'[j] # "processing"
    BY <2>1, ConstantsAssumption DEF Moves, Finals, Inv, TypeOK
  <2>3. \A i \in Jobs \ {j} : /\ status'[i] = status[i] /\ lock'[i] = lock[i]
                              /\ outcome'[i] = outcome[i]
    BY <2>1 DEF Inv, TypeOK
  <2> QED
    BY <2>2, <2>3, QuietMove
<1>11. ASSUME NEW j \in Jobs, Cleanup(j)
       PROVE  Quiet
  <2>1. /\ lock' = [lock EXCEPT ![j] = None]
        /\ status' = [status EXCEPT ![j] = "waiting"] /\ UNCHANGED outcome
    BY <1>11 DEF Cleanup, Unlock
  <2>2. status[j] = "processing"
    BY <1>11, SweptProcessing DEF Cleanup
  <2>3. Moves(j) /\ status'[j] # "processing"
    BY <2>1, <2>2 DEF Moves, Finals, Inv, TypeOK
  <2>4. \A i \in Jobs \ {j} : status'[i] = status[i] /\ lock'[i] = lock[i]
    BY <2>1 DEF Inv, TypeOK
  <2> QED
    BY <2>1, <2>3, <2>4, QuietMove
<1> QED
  BY <1>1, <1>2, <1>3, <1>4, <1>5, <1>6, <1>7, <1>8, <1>9, <1>10, <1>11
    DEF Next, Finish

\* The life of the jobs and the limits, for every step.
LEMMA NextMovesJobs ==
  ASSUME KeepFailed = FALSE, FifoInv, Inv', SlotsMatchLocks', Next
  PROVE  (\A j \in Jobs : Moves(j)) /\ WithinLimit
<1>1. CASE Serves
  BY <1>1, ServesMoves
<1>2. CASE \E w \in Slots : CompleteAndReserveNext(w)
  BY <1>2, NextMoves
<1>3. CASE Quiet
  BY <1>3, QuietWithinLimit DEF Quiet
<1> QED
  BY <1>1, <1>2, <1>3, OthersQuiet

\* What is over keeps having its result.
LEMMA RecordedKeptByNext ==
  ASSUME \A j \in Jobs : Moves(j)
  PROVE  Recorded'
BY DEF Moves, Recorded

\* The invariant of the refinement holds.
LEMMA FifoInvariance ==
  ASSUME KeepFailed = FALSE
  PROVE  Spec => []FifoInv
<1>1. Init => Ended /\ Recorded
  BY DEF Init, Ended, Recorded, Finals
<1>2. FifoInv /\ Inv' /\ SlotsMatchLocks' /\ [Next]_vars => Ended' /\ Recorded'
  <2>1. CASE UNCHANGED vars
    BY <2>1 DEF FifoInv, Ended, Recorded, vars, jobVars, placeVars, slotVars
  <2> QED
    BY <2>1, EndedKept, NextMovesJobs, RecordedKeptByNext DEF FifoInv
<1>3. FifoInv <=> Inv /\ SlotsMatchLocks /\ Ended /\ Recorded
  BY DEF FifoInv
<1> QED
  BY <1>1, <1>2, <1>3, SlotsInvariance, PTL DEF Spec

\* GroupFifo counts as the queue does.
LEMMA SameCount == \A S : Fifo!Cardinality(S) = Cardinality(S)
BY DEF Cardinality, Fifo!Cardinality

\* A step of the queue is a step of the abstract one.
LEMMA NextRefines ==
  ASSUME FifoInv, FifoInv', InOrder, \A j \in Jobs : Moves(j), WithinLimit
  PROVE  Fifo!Next
<1> DEFINE phase   == [j \in Jobs |-> Phase(j)]
           Own(j)  == IF Phase(j) = "running" THEN lock[j] ELSE None
           owner   == [j \in Jobs |-> Own(j)]
<1>1. \A j \in Jobs : /\ phase[j] = Phase(j) /\ phase'[j] = Phase(j)'
                      /\ owner[j] = Own(j) /\ owner'[j] = Own(j)'
  OBVIOUS
<1>0. PhaseTold /\ PhaseTold'
  BY PhaseByStatus, PTL
<1>2. phase' \in [Jobs -> Fifo!Phases]
  <2>1. \A j \in Jobs : Phase(j)' \in Fifo!Phases
    BY <1>0 DEF PhaseTold, Finals, Fifo!Phases
  <2> QED
    BY <2>1
<1>3. owner' \in [Jobs -> Slots \cup {None}]
  <2>1. \A j \in Jobs : Own(j)' \in Slots \cup {None}
    BY DEF FifoInv, Inv, TypeOK
  <2> HIDE DEF Own
  <2> QED
    BY <2>1
<1>4. limit' \in [Groups -> Nat]
  BY DEF FifoInv, Inv, TypeOK
<1>5. \A j \in Jobs : Fifo!Move(j)
  <2> SUFFICES ASSUME NEW j \in Jobs
               PROVE  Fifo!Move(j)
    OBVIOUS
  <2>1. Moves(j)
    OBVIOUS
  <2>2. /\ status[j] \in Finals => Phase(j) = "done"
        /\ status[j] = "processing" => Phase(j) = "running"
        /\ status[j] \in {"none", "delayed", "waiting"} => Phase(j) = status[j]
    BY <1>0 DEF PhaseTold
  <2>3. /\ status'[j] \in Finals => Phase(j)' = "done"
        /\ status'[j] = "processing" => Phase(j)' = "running" /\ lock'[j] \in Slots
        /\ status'[j] \in {"none", "delayed", "waiting"} => Phase(j)' = status'[j]
        /\ status'[j] \in Finals \cup {"processing", "none", "delayed", "waiting"}
    BY <1>0 DEF PhaseTold
  <2> HIDE DEF phase, owner
  <2> QED
    BY <1>1, <2>1, <2>2, <2>3 DEF Moves, Finals, Fifo!Move
<1>6. \A g \in Groups :
        Cardinality(Fifo!Running(phase', g)) > Cardinality(Fifo!Running(phase, g))
          => Cardinality(Fifo!Running(phase', g)) <= limit[g]
  <2> TAKE g \in Groups
  <2>1. Fifo!Running(phase, g) = Busy(g)
    BY <1>0, <1>1 DEF PhaseTold, Finals, Fifo!Running, Busy, JobsOf
  <2>2. Fifo!Running(phase', g) = Busy(g)'
    BY <1>0, <1>1 DEF PhaseTold, Finals, Fifo!Running, Busy, JobsOf
  <2> HIDE DEF phase
  <2> QED
    BY <2>1, <2>2 DEF WithinLimit
<1>7. ASSUME NEW j \in Jobs, owner'[j] # None, owner'[j] # owner[j],
             NEW i \in Jobs, GroupOf[i] = GroupOf[j], Score[i] < Score[j]
      PROVE  phase'[i] # "waiting"
  <2>1. status'[j] = "processing" /\ lock'[j] # None
    BY <1>0, <1>1, <1>7 DEF PhaseTold, Finals
  <2>2. lock[j] # lock'[j]
    <3>1. CASE status[j] = "processing"
      BY <1>0, <1>1, <1>7, <2>1, <3>1 DEF PhaseTold
    <3>2. CASE status[j] # "processing"
      BY <1>0, <2>1, <3>2 DEF Moves, PhaseTold, Finals
    <3> QED
      BY <3>1, <3>2
  <2>3. status'[i] # "waiting"
    BY <1>7, <2>1, <2>2 DEF InOrder, JobsOf
  <2> QED
    BY <1>0, <1>1, <2>3 DEF PhaseTold, Finals
<1> HIDE DEF phase, owner
<1> QED
  BY SameCount, <1>2, <1>3, <1>4, <1>5, <1>6, <1>7 DEF Fifo!Next, Fifo!HandedOut, phase, owner, Own

\* Without retention of failed jobs, every behaviour of the scripts, workers, crashes and
\* recoveries is one of the abstract queue: one owner at a time, no way back from the end,
\* no overtaking in a group and no hand-out above its limit.
THEOREM ImplementsFifoHolds ==
  ASSUME KeepFailed = FALSE
  PROVE  Spec => ImplementsFifo
<1>1. Init => Fifo!Init
  BY ConstantsAssumption DEF Init, Phase, Fifo!Init
<1>2. FifoInv /\ FifoInv' /\ [Next]_vars => [Fifo!Next]_(Fifo!vars)
  <2> SUFFICES ASSUME FifoInv, FifoInv', [Next]_vars
               PROVE  Fifo!Next \/ UNCHANGED Fifo!vars
    OBVIOUS
  <2>1. CASE Next
    <3>1. Inv /\ SlotsMatchLocks /\ Inv' /\ SlotsMatchLocks'
      BY DEF FifoInv
    <3> QED
      BY <2>1, <3>1, NextInOrder, NextMovesJobs, NextRefines
  <2>2. CASE UNCHANGED vars
    <3>1. UNCHANGED <<status, lock, outcome, limit>>
      BY <2>2 DEF vars, jobVars, placeVars, confVars
    <3> QED
      BY <3>1 DEF Fifo!vars, Phase
  <2> QED
    BY <2>1, <2>2
<1> QED
  BY <1>1, <1>2, FifoInvariance, PTL DEF Spec, ImplementsFifo, Fifo!Spec

-----------------------------------------------------------------------------
(* The dispatch index, where no deadline is missed and limits stay as they  *)
(* are: then a lock is always in the hands of a slot, and the index is what *)
(* the last script that touched a group made of it.                         *)

Settled == WeakStages = {} /\ Limits = {StartLimit}

\* A job of the group sits out a retry's backoff.
Backing(g) == \E j \in delayed : GroupOf[j] = g /\ attempts[j] > 0

\* No job is late, and who has a lock has the job in hand.
Steady ==
  /\ late = {}
  /\ \A j \in Jobs : lock[j] # None => hold[lock[j]] = j
  /\ \A g \in Groups : limit[g] = StartLimit

\* A group in ready has work and room, has the score of its head, and is not in limited.
Fresh(g) ==
  ready[g] > 0 => /\ gz[g] # {} /\ ready[g] = HeadScore(gz[g])
                  /\ Len(active[g]) < StartLimit /\ g \notin limited

\* A group with work and nothing in progress is in ready or waits for a backoff.
Found(g) ==
  gz[g] # {} /\ Len(active[g]) = 0 /\ StartLimit > 0 => ready[g] > 0 \/ Backing(g)

\* At limit 1 a group with work is in one of the sets, and in limited for a reason.
OnlyOne(g) ==
  StartLimit = 1 =>
    /\ gz[g] # {} => ready[g] > 0 \/ g \in limited
    /\ g \in limited => gz[g] # {} /\ (Len(active[g]) > 0 \/ Backing(g))

Indexed(g) == Len(active[g]) <= StartLimit /\ Fresh(g) /\ Found(g) /\ OnlyOne(g)

\* The inductive invariant, with Inv and SlotsMatchLocks.
IndexInv == Steady /\ \A g \in Groups : Indexed(g)

\* What a script may do to a group. It leaves its places alone, and may take a job off the
\* list, but the last one only when none waits or the job backs off;
Kept(g) ==
  /\ gz'[g] = gz[g] /\ ready'[g] = ready[g] /\ (g \in limited' <=> g \in limited)
  /\ Len(active'[g]) <= Len(active[g])
  /\ Backing(g) => Backing(g)'
  /\ (gz[g] # {} /\ StartLimit > 0 /\ Len(active'[g]) = 0)
       => Len(active[g]) = 0 \/ Backing(g)'

\* it places the group by its head and its room;
Placed(g) ==
  /\ gz'[g] # {} /\ Len(active'[g]) <= StartLimit
  /\ Len(active'[g]) < StartLimit => ready'[g] = HeadScore(gz'[g]) /\ g \notin limited'
  /\ ~(Len(active'[g]) < StartLimit) => ready'[g] = 0 /\ g \in limited'

\* it takes a group without work out of both sets;
Emptied(g) ==
  gz'[g] = {} /\ Len(active'[g]) <= StartLimit /\ ready'[g] = 0 /\ g \notin limited'

\* or it hands out its first job and takes it out of ready, room or not.
Lent(g) ==
  /\ ready'[g] = 0 /\ 0 < Len(active'[g]) /\ Len(active'[g]) <= StartLimit
  /\ g \in limited' <=> (gz'[g] # {} /\ ~(Len(active'[g]) < StartLimit))

Handled(g) == Kept(g) \/ Placed(g) \/ Emptied(g) \/ Lent(g)

\* Numbers and types the proofs below use.
LEMMA IndexTypes ==
  ASSUME TypeOK, NEW g \in Groups
  PROVE  /\ Len(active[g]) \in Nat /\ StartLimit \in Nat /\ ready[g] \in Nat
         /\ gz[g] \in SUBSET Jobs /\ active[g] \in Seq(Jobs)
         /\ gz[g] # {} => HeadScore(gz[g]) \in Nat /\ HeadScore(gz[g]) > 0
<1>1. gz[g] \in SUBSET Jobs /\ active[g] \in Seq(Jobs) /\ ready[g] \in Nat
  BY DEF TypeOK
<1>2. StartLimit \in Nat
  BY ConstantsAssumption
<1>3. gz[g] # {} => HeadScore(gz[g]) \in Nat /\ HeadScore(gz[g]) > 0
  BY <1>1, HeadScoreType
<1> QED
  BY <1>1, <1>2, <1>3

\* Each of these keeps the index in order.
LEMMA HandledKeeps ==
  ASSUME TypeOK, TypeOK', NEW g \in Groups, Indexed(g), Handled(g)
  PROVE  Indexed(g)'
<1>1. /\ Len(active[g]) \in Nat /\ Len(active'[g]) \in Nat /\ StartLimit \in Nat
      /\ ready[g] \in Nat /\ ready'[g] \in Nat
      /\ gz'[g] # {} => HeadScore(gz'[g]) \in Nat /\ HeadScore(gz'[g]) > 0
      /\ HeadScore(gz[g])' = HeadScore(gz'[g])
  <2>1. gz'[g] \in SUBSET Jobs /\ active'[g] \in Seq(Jobs) /\ ready'[g] \in Nat
    BY DEF TypeOK
  <2>2. gz'[g] # {} => HeadScore(gz'[g]) \in Nat /\ HeadScore(gz'[g]) > 0
    BY <2>1, HeadScoreType
  <2> QED
    BY <2>1, <2>2, IndexTypes DEF HeadScore, Head1
<1> DEFINE a == Len(active[g])
           b == Len(active'[g])
           hs == HeadScore(gz'[g])
<1>2. CASE Kept(g)
  <2>1. Fresh(g)'
    <3>1. gz'[g] = gz[g] => hs = HeadScore(gz[g])
      OBVIOUS
    <3> HIDE DEF hs
    <3> QED
      BY <1>1, <1>2, <3>1 DEF Kept, Indexed, Fresh, hs
  <2>2. Found(g)'
    BY <1>1, <1>2 DEF Kept, Indexed, Found
  <2>3. OnlyOne(g)'
    BY <1>1, <1>2 DEF Kept, Indexed, OnlyOne
  <2> QED
    BY <1>1, <1>2, <2>1, <2>2, <2>3 DEF Kept, Indexed
<1>3. CASE Placed(g)
  BY <1>1, <1>3 DEF Placed, Indexed, Fresh, Found, OnlyOne
<1>4. CASE Emptied(g)
  BY <1>1, <1>4 DEF Emptied, Indexed, Fresh, Found, OnlyOne
<1>5. CASE Lent(g)
  BY <1>1, <1>5 DEF Lent, Indexed, Fresh, Found, OnlyOne
<1> QED
  BY <1>2, <1>3, <1>4, <1>5 DEF Handled

-----------------------------------------------------------------------------
(* The blocks the scripts share.                                           *)

\* The other groups keep their places in the index.
OthersPlaced(g) ==
  \A h \in Groups \ {g} : ready'[h] = ready[h] /\ (h \in limited' <=> h \in limited)

\* Unqueue takes the group out of both sets.
LEMMA UnqueueEmpties ==
  ASSUME TypeOK, NEW g \in Groups, Unqueue(g)
  PROVE  ready'[g] = 0 /\ g \notin limited' /\ OthersPlaced(g)
BY DEF Unqueue, TypeOK, OthersPlaced

\* Requeue with the list's length places a group with work.
LEMMA RequeuePlaces ==
  ASSUME TypeOK, NEW g \in Groups, NEW n, Requeue(g, gz'[g], n), gz'[g] # {},
         limit[g] = StartLimit, Len(active'[g]) <= StartLimit,
         n < StartLimit <=> Len(active'[g]) < StartLimit
  PROVE  Placed(g) /\ OthersPlaced(g)
<1>1. CASE n < StartLimit
  <2>1. /\ ready' = [ready EXCEPT ![g] = HeadScore(gz'[g])]
        /\ limited' = limited \ {g}
    BY <1>1 DEF Requeue
  <2> QED
    BY <1>1, <2>1 DEF Placed, OthersPlaced, TypeOK
<1>2. CASE ~(n < StartLimit)
  <2>1. ready' = [ready EXCEPT ![g] = 0] /\ limited' = limited \cup {g}
    BY <1>2 DEF Requeue
  <2> QED
    BY <1>2, <2>1 DEF Placed, OthersPlaced, TypeOK
<1> QED
  BY <1>1, <1>2

\* Settle places the group or takes it out.
LEMMA SettlePlaces ==
  ASSUME TypeOK, NEW g \in Groups, NEW n, Settle(g, gz'[g], n),
         limit[g] = StartLimit, Len(active'[g]) <= StartLimit,
         n < StartLimit <=> Len(active'[g]) < StartLimit
  PROVE  Handled(g) /\ OthersPlaced(g)
<1>1. CASE gz'[g] = {}
  BY <1>1, UnqueueEmpties DEF Settle, Handled, Emptied
<1>2. CASE gz'[g] # {}
  BY <1>2, RequeuePlaces DEF Settle, Handled
<1> QED
  BY <1>1, <1>2

\* What a group keeps when a script is about another one: its jobs, its list and its
\* delayed jobs.
Aside(g) ==
  \A h \in Groups \ {g} : gz'[h] = gz[h] /\ active'[h] = active[h]

\* No delayed job of the other groups is promoted, and none begins anew.
BackingKept(g) ==
  \A j \in delayed : GroupOf[j] # g => j \in delayed' /\ attempts'[j] = attempts[j]

\* A script about one group.
LEMMA OneGroup ==
  ASSUME TypeOK, TypeOK', NEW g \in Groups, \A h \in Groups : Indexed(h),
         Handled(g), OthersPlaced(g), Aside(g), BackingKept(g)
  PROVE  \A h \in Groups : Indexed(h)'
<1> TAKE h \in Groups
<1>1. CASE h = g
  BY <1>1, HandledKeeps
<1>2. CASE h # g
  <2>1. Backing(h) => Backing(h)'
    BY <1>2 DEF Backing, BackingKept
  <2>2. Len(active[h]) \in Nat
    BY IndexTypes
  <2>3. Kept(h)
    BY <1>2, <2>1, <2>2 DEF Kept, OthersPlaced, Aside
  <2> QED
    BY <2>3, HandledKeeps DEF Handled
<1> QED
  BY <1>1, <1>2

\* A script that leaves the index, the lists and the waiting jobs alone.
LEMMA NoGroup ==
  ASSUME TypeOK, TypeOK', \A h \in Groups : Indexed(h),
         UNCHANGED <<ready, limited, gz, active>>,
         \A j \in delayed : j \in delayed' /\ attempts'[j] = attempts[j]
  PROVE  \A h \in Groups : Indexed(h)'
<1> TAKE h \in Groups
<1>1. Backing(h) => Backing(h)'
  BY DEF Backing
<1>2. Len(active[h]) \in Nat
  BY IndexTypes
<1>3. Kept(h)
  BY <1>1, <1>2 DEF Kept
<1> QED
  BY <1>3, HandledKeeps DEF Handled

-----------------------------------------------------------------------------
(* The actions, one lemma each.                                            *)

\* The index outside of a step is in order, with what its proofs use.
Settling == Inv /\ SlotsMatchLocks /\ IndexInv

\* enqueue.lua and promote-delayed-jobs.lua place the group they add to.
LEMMA ArrivalIndexed ==
  ASSUME Settling, TypeOK', NEW j \in Jobs, Add(j) \/ Promote(j)
  PROVE  \A h \in Groups : Indexed(h)'
<1> DEFINE g == GroupOf[j]
<1>1. /\ g \in Groups /\ TypeOK /\ \A h \in Groups : Indexed(h)
      /\ limit[g] = StartLimit
  BY ConstantsAssumption DEF Settling, Inv, IndexInv, Steady
<1>2. /\ gz' = [gz EXCEPT ![g] = @ \cup {j}] /\ active' = active
      /\ Requeue(g, gz[g] \cup {j}, Len(active[g])) /\ attempts' = attempts
      /\ delayed' = delayed \/ delayed' = delayed \ {j}
  BY DEF Add, Promote
<1> HIDE DEF g
<1>3. gz'[g] = gz[g] \cup {j}
  BY <1>1, <1>2 DEF TypeOK
<1>4. Requeue(g, gz'[g], Len(active[g])) /\ gz'[g] # {} /\ Len(active'[g]) = Len(active[g])
  BY <1>2, <1>3
<1>5. Len(active[g]) <= StartLimit
  BY <1>1 DEF Indexed
<1>6. Handled(g) /\ OthersPlaced(g)
  BY <1>1, <1>4, <1>5, RequeuePlaces DEF Handled
<1>7. Aside(g)
  BY <1>1, <1>2 DEF Aside, TypeOK
<1>8. BackingKept(g)
  BY <1>2 DEF BackingKept, g
<1> QED
  BY <1>1, <1>6, <1>7, <1>8, OneGroup

\* enqueue.lua with a delay touches no group.
LEMMA DelayIndexed ==
  ASSUME Settling, TypeOK', NEW j \in Jobs, AddDelayed(j)
  PROVE  \A h \in Groups : Indexed(h)'
<1>1. /\ UNCHANGED <<ready, limited, gz, active>> /\ attempts' = attempts
      /\ delayed' = delayed \cup {j}
  BY DEF AddDelayed, groupVars
<1> QED
  BY <1>1, NoGroup DEF Settling, Inv, IndexInv

\* The list of the group without a job that has its lock is one shorter.
LEMMA RestShorter ==
  ASSUME Inv, SlotsMatchLocks, NEW j \in Jobs, lock[j] # None
  PROVE  /\ Without(active[GroupOf[j]], {j}) \in Seq(Jobs)
         /\ Len(Without(active[GroupOf[j]], {j})) = Len(active[GroupOf[j]]) - 1
         /\ Len(Without(active[GroupOf[j]], {j})) \in Nat
         /\ Len(active[GroupOf[j]]) \in Nat
<1> DEFINE g    == GroupOf[j]
           rest == Without(active[g], {j})
<1>1. g \in Groups /\ active[g] \in Seq(Jobs)
  BY ConstantsAssumption DEF Inv, TypeOK
<1>2. rest \in Seq(Jobs)
  BY <1>1, WithoutType
<1>3. /\ IsFiniteSet(Locked(g)) /\ Cardinality(Locked(g)) = Len(active[g])
      /\ Cardinality(Locked(g) \ {j}) = Len(rest)
  BY <1>1, <1>2, ActiveWithout, ExactLength
<1>4. j \in Locked(g)
  BY DEF Locked, JobsOf
<1> HIDE DEF g, rest
<1>5. Cardinality(Locked(g) \ {j}) = Cardinality(Locked(g)) - 1
  BY <1>3, <1>4, FS_RemoveElement
<1>6. Len(rest) \in Nat /\ Len(active[g]) \in Nat
  BY <1>1, <1>2
<1> QED
  BY <1>2, <1>3, <1>5, <1>6 DEF g, rest

\* A job in hand with its lock neither waits nor is delayed.
LEMMA InHand ==
  ASSUME Inv, NEW w \in Slots, hold[w] # None, Owns(w, hold[w])
  PROVE  /\ hold[w] \in Jobs /\ lock[hold[w]] # None /\ GroupOf[hold[w]] \in Groups
         /\ hold[w] \notin delayed /\ \A g \in Groups : hold[w] \notin gz[g]
<1>1. hold[w] \in Jobs /\ lock[hold[w]] # None /\ GroupOf[hold[w]] \in Groups
  BY OwnerHolds
<1>2. status[hold[w]] \in {"processing", "failed", "gone"}
  BY <1>1 DEF Inv, OnePlace
<1> QED
  BY <1>1, <1>2 DEF Inv, OnePlace

\* complete-with-metadata.lua settles the group, or leaves a full one where it is.
LEMMA CompleteIndexed ==
  ASSUME Settling, TypeOK', NEW w \in Slots, CompleteJob(w)
  PROVE  \A h \in Groups : Indexed(h)'
<1>0. PICK j \in Jobs : hold[w] = j /\ lock[j] # None /\ GroupOf[j] \in Groups
  BY InHand DEF Settling, CompleteJob, Running, Accepted
<1> DEFINE g    == GroupOf[j]
           rest == Without(active[g], {j})
           list == IF LastOfGroup(g) THEN <<>> ELSE rest
<1>1. /\ j \in Jobs /\ lock[j] # None /\ g \in Groups
  BY <1>0
<1>2. /\ TypeOK /\ (\A h \in Groups : Indexed(h)) /\ limit[g] = StartLimit
  BY <1>1 DEF Settling, Inv, IndexInv, Steady
<1>3. /\ Len(rest) = Len(active[g]) - 1 /\ Len(rest) \in Nat /\ Len(active[g]) \in Nat
      /\ rest \in Seq(Jobs)
  BY <1>1, RestShorter DEF Settling
<1>4. /\ gz' = gz /\ attempts' = attempts /\ delayed' = delayed
      /\ active' = [active EXCEPT ![g] = list]
      /\ IF gz[g] # {} /\ Len(rest) >= limit[g] /\ ready[g] = 0
         THEN UNCHANGED groupVars
         ELSE Settle(g, gz[g], Len(rest))
  BY <1>0 DEF CompleteJob
<1>5. /\ Len(active[g]) <= StartLimit /\ StartLimit \in Nat
      /\ Len(<<>>) = 0
  BY <1>1, <1>2, ConstantsAssumption DEF Indexed
<1>6. gz[g] # {} => list = rest
  BY DEF LastOfGroup
<1> HIDE DEF g, rest, list
<1>7. active'[g] = list /\ Aside(g) /\ BackingKept(g)
  BY <1>1, <1>2, <1>4 DEF Aside, BackingKept, TypeOK
<1>8. Len(active'[g]) <= StartLimit
  <2>1. list = <<>> \/ list = rest
    BY DEF list, rest
  <2> QED
    BY <2>1, <1>3, <1>5, <1>7
<1>9. CASE gz[g] = {}
  <2>1. Unqueue(g)
    BY <1>4, <1>9 DEF Settle
  <2>2. Handled(g) /\ OthersPlaced(g)
    BY <1>1, <1>2, <1>4, <1>8, <1>9, <2>1, UnqueueEmpties DEF Handled, Emptied
  <2> QED
    BY <1>1, <1>2, <1>7, <2>2, OneGroup
<1>10. CASE gz[g] # {} /\ Len(rest) >= limit[g] /\ ready[g] = 0
  <2>1. UNCHANGED groupVars /\ Len(active'[g]) = Len(rest)
    BY <1>4, <1>6, <1>7, <1>10
  <2>2. Len(active'[g]) <= Len(active[g]) /\ ~(Len(active'[g]) = 0 /\ StartLimit > 0)
    BY <1>2, <1>3, <1>5, <1>10, <2>1
  <2>3. Backing(g) => Backing(g)'
    BY <1>4 DEF Backing
  <2>4. Handled(g) /\ OthersPlaced(g)
    BY <1>4, <2>1, <2>2, <2>3 DEF Handled, Kept, OthersPlaced, groupVars
  <2> QED
    BY <1>1, <1>2, <1>7, <2>4, OneGroup
<1>11. CASE gz[g] # {} /\ ~(Len(rest) >= limit[g] /\ ready[g] = 0)
  <2>1. Settle(g, gz'[g], Len(rest)) /\ Len(active'[g]) = Len(rest)
    BY <1>4, <1>6, <1>7, <1>11
  <2>2. Handled(g) /\ OthersPlaced(g)
    BY <1>1, <1>2, <1>8, <2>1, SettlePlaces
  <2> QED
    BY <1>1, <1>2, <1>7, <2>2, OneGroup
<1> QED
  BY <1>9, <1>10, <1>11

\* complete-and-reserve-next-with-metadata.lua: a job that is not the newest of its group
\* leaves another one in progress, the newest empties its group or is followed by the head.
LEMMA ChainIndexed ==
  ASSUME Settling, TypeOK', NEW w \in Slots, CompleteAndReserveNext(w)
  PROVE  \A h \in Groups : Indexed(h)'
<1>0. PICK j \in Jobs : hold[w] = j /\ lock[j] # None /\ GroupOf[j] \in Groups
  BY InHand DEF Settling, CompleteAndReserveNext, Running, Accepted
<1> DEFINE g    == GroupOf[j]
           next == Head1(gz[g])
           rest == Without(active[g], {j})
<1>1. /\ j \in Jobs /\ lock[j] # None /\ g \in Groups
  BY <1>0
<1>2. /\ TypeOK /\ (\A h \in Groups : Indexed(h)) /\ limit[g] = StartLimit
  BY <1>1 DEF Settling, Inv, IndexInv, Steady
<1>3. /\ Len(rest) = Len(active[g]) - 1 /\ Len(rest) \in Nat /\ Len(active[g]) \in Nat
      /\ rest \in Seq(Jobs) /\ active[g] \in Seq(Jobs) /\ Exact(active[g], Locked(g))
  BY <1>1, <1>2, RestShorter, ActiveWithout DEF Settling, TypeOK
<1>4. attempts' = attempts /\ delayed' = delayed
  BY DEF CompleteAndReserveNext
<1>5. Len(active[g]) <= StartLimit /\ StartLimit \in Nat
  BY <1>1, <1>2, ConstantsAssumption DEF Indexed
<1>6. active[g] # <<>> /\ Len(active[g]) # 0 /\ j \in Locked(g)
  <2>1. j \in Locked(g)
    BY <1>1 DEF Locked, JobsOf
  <2>2. Len(active[g]) # 0
    BY <1>3
  <2> QED
    BY <2>1, <2>2, <1>3
<1>7. \/ /\ Head(active[g]) # j
         /\ active' = [active EXCEPT ![g] = rest] /\ UNCHANGED <<gz, groupVars>>
      \/ /\ gz[g] = {} /\ active' = [active EXCEPT ![g] = Tail(active[g])]
         /\ Unqueue(g) /\ gz' = gz
      \/ /\ gz[g] # {} /\ active' = [active EXCEPT ![g] = <<next>> \o Tail(active[g])]
         /\ gz' = [gz EXCEPT ![g] = gz[g] \ {next}]
         /\ Settle(g, gz[g] \ {next}, Len(active[g]))
  BY <1>0, <1>6 DEF CompleteAndReserveNext
<1> HIDE DEF g, rest, next
<1>8. Tail(active[g]) \in Seq(Jobs) /\ Len(active[g]) = Len(Tail(active[g])) + 1
  BY <1>3, <1>6, ExactTail
<1>9. Aside(g) /\ BackingKept(g)
  BY <1>2, <1>4, <1>7 DEF Aside, BackingKept, TypeOK
<1>10. CASE /\ Head(active[g]) # j
            /\ active' = [active EXCEPT ![g] = rest] /\ UNCHANGED <<gz, groupVars>>
  <2>1. Head(active[g]) \in Locked(g)
    <3>1. Head(active[g]) = active[g][1] /\ 1 \in DOMAIN active[g]
      BY <1>3, <1>6
    <3> QED
      BY <3>1, <1>3 DEF Exact
  <2>2. ~(Len(active[g]) <= 1)
    BY <1>3, <1>6, <1>10, <2>1, ExactOne
  <2>3. active'[g] = rest
    BY <1>1, <1>2, <1>10 DEF TypeOK
  <2>4. Len(active'[g]) <= Len(active[g]) /\ Len(active'[g]) # 0
    BY <1>3, <2>2, <2>3
  <2>5. Backing(g) => Backing(g)'
    BY <1>4 DEF Backing
  <2>6. Handled(g) /\ OthersPlaced(g)
    BY <1>10, <2>4, <2>5 DEF Handled, Kept, OthersPlaced, groupVars
  <2> QED
    BY <1>1, <1>2, <1>9, <2>6, OneGroup
<1>11. CASE /\ gz[g] = {} /\ active' = [active EXCEPT ![g] = Tail(active[g])]
            /\ Unqueue(g) /\ gz' = gz
  <2>1. active'[g] = Tail(active[g])
    BY <1>1, <1>2, <1>11 DEF TypeOK
  <2>2. Len(active'[g]) <= StartLimit
    <3>1. Len(Tail(active[g])) \in Nat
      BY <1>8
    <3> QED
      BY <1>3, <1>5, <1>8, <2>1, <3>1
  <2>3. Handled(g) /\ OthersPlaced(g)
    BY <1>1, <1>2, <1>11, <2>2, UnqueueEmpties DEF Handled, Emptied
  <2> QED
    BY <1>1, <1>2, <1>9, <2>3, OneGroup
<1>12. CASE /\ gz[g] # {} /\ active' = [active EXCEPT ![g] = <<next>> \o Tail(active[g])]
            /\ gz' = [gz EXCEPT ![g] = gz[g] \ {next}]
            /\ Settle(g, gz[g] \ {next}, Len(active[g]))
  <2>1. /\ active'[g] = <<next>> \o Tail(active[g])
        /\ gz'[g] = gz[g] \ {next}
    BY <1>1, <1>2, <1>12 DEF TypeOK
  <2>2. Len(<<next>> \o Tail(active[g])) = Len(Tail(active[g])) + 1
    <3>1. next \in Jobs
      BY <1>1, <1>2, <1>12, HasHead DEF TypeOK, next
    <3> QED
      BY <1>8, <3>1
  <2>3. Len(active'[g]) = Len(active[g])
    BY <1>8, <2>1, <2>2
  <2>4. Settle(g, gz'[g], Len(active[g]))
    BY <1>12, <2>1
  <2>5. Handled(g) /\ OthersPlaced(g)
    BY <1>1, <1>2, <1>5, <2>3, <2>4, SettlePlaces
  <2> QED
    BY <1>1, <1>2, <1>9, <2>5, OneGroup
<1> QED
  BY <1>7, <1>10, <1>11, <1>12

\* retry.lua: with a backoff the group keeps its place, and the job backs it.
LEMMA RetryIndexed ==
  ASSUME Settling, TypeOK', NEW w \in Slots, NEW b \in Backoffs, Retry(w, b)
  PROVE  \A h \in Groups : Indexed(h)'
<1>0. PICK j \in Jobs :
        /\ hold[w] = j /\ lock[j] # None /\ GroupOf[j] \in Groups
        /\ j \notin delayed /\ \A h \in Groups : j \notin gz[h]
  BY InHand DEF Settling, Retry, Running
<1> DEFINE g    == GroupOf[j]
           rest == Without(active[g], {j})
<1>1. j \in Jobs /\ lock[j] # None /\ g \in Groups /\ j \notin gz[g]
  BY <1>0
<1>2. /\ TypeOK /\ (\A h \in Groups : Indexed(h)) /\ limit[g] = StartLimit
      /\ gz[g] \in SUBSET Jobs
  BY <1>1 DEF Settling, Inv, IndexInv, Steady, TypeOK
<1>3. /\ Len(rest) = Len(active[g]) - 1 /\ Len(rest) \in Nat /\ Len(active[g]) \in Nat
  BY <1>1, RestShorter DEF Settling
<1>4. attempts' = [attempts EXCEPT ![j] = Bump(attempts[j])]
  BY <1>0 DEF Retry
<1>5. attempts'[j] > 0 /\ \A i \in Jobs \ {j} : attempts'[i] = attempts[i]
  <2>1. attempts[j] \in Nat /\ MaxAttempts \in Nat \ {0}
    BY <1>1, <1>2, ConstantsAssumption DEF TypeOK
  <2>2. Bump(attempts[j]) > 0
    BY <2>1 DEF Bump
  <2> QED
    BY <1>1, <1>2, <1>4, <2>2 DEF TypeOK
<1>6. \/ UNCHANGED <<placeVars, groupVars>>
      \/ /\ active' = [active EXCEPT ![g] = rest]
         /\ delayed' = delayed \cup {j} /\ gz' = [gz EXCEPT ![g] = @ \ {j}]
         /\ IF gz[g] \ {j} = {} THEN Unqueue(g)
            ELSE /\ ready' = [ready EXCEPT ![g] = IF @ = 0 THEN 0
                                                  ELSE HeadScore(gz[g] \ {j})]
                 /\ UNCHANGED limited
      \/ /\ active' = [active EXCEPT ![g] = rest]
         /\ delayed' = delayed /\ gz' = [gz EXCEPT ![g] = @ \cup {j}]
         /\ Requeue(g, gz[g] \cup {j}, Len(rest))
  BY <1>0 DEF Retry
<1>7. Len(active[g]) <= StartLimit /\ StartLimit \in Nat
  BY <1>1, <1>2, ConstantsAssumption DEF Indexed
<1> HIDE DEF g, rest
<1>8. gz[g] \ {j} = gz[g]
  BY <1>1
<1>9. CASE UNCHANGED <<placeVars, groupVars>>
  <2>1. UNCHANGED <<ready, limited, gz, active, delayed>>
    BY <1>9 DEF placeVars, groupVars
  <2>2. \A i \in delayed : i \in delayed' /\ attempts'[i] = attempts[i]
    BY <1>0, <1>2, <1>5, <2>1 DEF TypeOK
  <2> QED
    BY <1>2, <2>1, <2>2, NoGroup
<1>10. CASE /\ active' = [active EXCEPT ![g] = rest]
            /\ delayed' = delayed \cup {j} /\ gz' = [gz EXCEPT ![g] = @ \ {j}]
            /\ IF gz[g] \ {j} = {} THEN Unqueue(g)
               ELSE /\ ready' = [ready EXCEPT ![g] = IF @ = 0 THEN 0
                                                     ELSE HeadScore(gz[g] \ {j})]
                    /\ UNCHANGED limited
  <2>1. active'[g] = rest /\ gz'[g] = gz[g]
    BY <1>1, <1>2, <1>8, <1>10 DEF TypeOK
  <2>2. Len(active'[g]) <= StartLimit /\ Len(active'[g]) <= Len(active[g])
    BY <1>3, <1>7, <2>1
  <2>3. Aside(g) /\ BackingKept(g)
    <3>1. delayed \subseteq Jobs /\ g = GroupOf[j]
      BY <1>2 DEF TypeOK, g
    <3> QED
      BY <1>2, <1>5, <1>10, <3>1 DEF Aside, BackingKept, TypeOK
  <2>4. Handled(g) /\ OthersPlaced(g)
    <3>1. CASE gz[g] = {}
      <4>1. Unqueue(g)
        BY <1>8, <1>10, <3>1
      <4> QED
        BY <1>1, <1>2, <2>1, <2>2, <3>1, <4>1, UnqueueEmpties DEF Handled, Emptied
    <3>2. CASE gz[g] # {}
      <4>1. /\ ready' = [ready EXCEPT ![g] = IF ready[g] = 0 THEN 0 ELSE HeadScore(gz[g])]
            /\ limited' = limited
        BY <1>8, <1>10, <3>2
      <4>2. ready[g] # 0 => ready[g] = HeadScore(gz[g])
        <5>1. ready[g] \in Nat
          BY <1>1, <1>2 DEF TypeOK
        <5>2. Fresh(g)
          BY <1>1, <1>2 DEF Indexed
        <5> QED
          BY <5>1, <5>2 DEF Fresh
      <4>3. ready' = ready
        BY <1>1, <1>2, <4>1, <4>2 DEF TypeOK
      <4>4. Backing(g)'
        BY <1>5, <1>10 DEF Backing, g
      <4> QED
        BY <2>1, <2>2, <4>1, <4>3, <4>4 DEF Handled, Kept, OthersPlaced
    <3> QED
      BY <3>1, <3>2
  <2> QED
    BY <1>1, <1>2, <2>3, <2>4, OneGroup
<1>11. CASE /\ active' = [active EXCEPT ![g] = rest]
            /\ delayed' = delayed /\ gz' = [gz EXCEPT ![g] = @ \cup {j}]
            /\ Requeue(g, gz[g] \cup {j}, Len(rest))
  <2>1. active'[g] = rest /\ gz'[g] = gz[g] \cup {j}
    BY <1>1, <1>2, <1>11 DEF TypeOK
  <2>2. Len(active'[g]) <= StartLimit
    BY <1>3, <1>7, <2>1
  <2>3. Aside(g) /\ BackingKept(g)
    <3>1. delayed \subseteq Jobs /\ g = GroupOf[j]
      BY <1>2 DEF TypeOK, g
    <3> QED
      BY <1>2, <1>5, <1>11, <3>1 DEF Aside, BackingKept, TypeOK
  <2>4. Requeue(g, gz'[g], Len(rest)) /\ gz'[g] # {}
    BY <1>11, <2>1
  <2>5. Handled(g) /\ OthersPlaced(g)
    BY <1>1, <1>2, <2>1, <2>2, <2>4, RequeuePlaces DEF Handled
  <2> QED
    BY <1>1, <1>2, <2>3, <2>5, OneGroup
<1> QED
  BY <1>6, <1>9, <1>10, <1>11

\* dead-letter.lua: at a count of one nothing of the group is left, and else it is placed.
LEMMA DeadLetterIndexed ==
  ASSUME Settling, TypeOK', NEW w \in Slots, DeadLetter(w)
  PROVE  \A h \in Groups : Indexed(h)'
<1>0. PICK j \in Jobs :
        /\ hold[w] = j /\ lock[j] # None /\ GroupOf[j] \in Groups
        /\ j \notin delayed /\ \A h \in Groups : j \notin gz[h]
  BY InHand DEF Settling, DeadLetter
<1> DEFINE g     == GroupOf[j]
           rest  == Without(active[g], {j})
           empty == count[g] <= 1
<1>1. j \in Jobs /\ lock[j] # None /\ g \in Groups /\ j \notin gz[g]
  BY <1>0
<1>2. /\ TypeOK /\ (\A h \in Groups : Indexed(h)) /\ limit[g] = StartLimit
      /\ gz[g] \in SUBSET Jobs
  BY <1>1 DEF Settling, Inv, IndexInv, Steady, TypeOK
<1>3. /\ Len(rest) = Len(active[g]) - 1 /\ Len(rest) \in Nat /\ Len(active[g]) \in Nat
  BY <1>1, RestShorter DEF Settling
<1>4. /\ attempts' = attempts /\ delayed' = delayed \ {j}
      /\ gz' = [gz EXCEPT ![g] = IF empty THEN {} ELSE @ \ {j}]
      /\ active' = [active EXCEPT ![g] = IF empty THEN <<>> ELSE rest]
      /\ IF empty THEN Unqueue(g) ELSE Requeue(g, gz[g] \ {j}, Len(rest))
  BY <1>0 DEF DeadLetter, jobVars
<1>5. Len(active[g]) <= StartLimit /\ StartLimit \in Nat /\ Len(<<>>) = 0
  BY <1>1, <1>2, ConstantsAssumption DEF Indexed
<1> HIDE DEF g, rest, empty
<1>6. Aside(g)
  BY <1>2, <1>4 DEF Aside, TypeOK
<1>7. delayed' = delayed
  BY <1>0, <1>4
<1>8. BackingKept(g) /\ (Backing(g) => Backing(g)')
  BY <1>4, <1>7 DEF BackingKept, Backing
<1>9. gz[g] \ {j} = gz[g]
  BY <1>1
<1>10. CASE empty
  <2>1. gz'[g] = {} /\ active'[g] = <<>> /\ Unqueue(g)
    BY <1>1, <1>2, <1>4, <1>10 DEF TypeOK
  <2>2. Len(active'[g]) <= StartLimit
    BY <1>5, <2>1
  <2>3. Handled(g) /\ OthersPlaced(g)
    BY <1>1, <1>2, <2>1, <2>2, UnqueueEmpties DEF Handled, Emptied
  <2> QED
    BY <1>1, <1>2, <1>6, <1>8, <2>3, OneGroup
<1>11. CASE ~empty
  <2>1. gz'[g] = gz[g] /\ active'[g] = rest /\ Requeue(g, gz[g], Len(rest))
    BY <1>1, <1>2, <1>4, <1>9, <1>11 DEF TypeOK
  <2>2. Len(active'[g]) <= StartLimit /\ Len(active'[g]) <= Len(active[g])
    BY <1>3, <1>5, <2>1
  <2>3. Handled(g) /\ OthersPlaced(g)
    <3>1. CASE gz[g] = {}
      <4>1. UNCHANGED groupVars
        BY <2>1, <3>1 DEF Requeue
      <4> QED
        BY <1>8, <2>1, <2>2, <3>1, <4>1 DEF Handled, Kept, OthersPlaced, groupVars
    <3>2. CASE gz[g] # {}
      <4>1. Requeue(g, gz'[g], Len(rest)) /\ gz'[g] # {}
        BY <2>1, <3>2
      <4> QED
        BY <1>1, <1>2, <2>1, <2>2, <4>1, RequeuePlaces DEF Handled
    <3> QED
      BY <3>1, <3>2
  <2> QED
    BY <1>1, <1>2, <1>6, <1>8, <2>3, OneGroup
<1> QED
  BY <1>10, <1>11

-----------------------------------------------------------------------------
(* The reserve scripts, which have nothing to take back.                   *)

\* Lists without the dead entries, of which there are none, keep their length.
LEMMA CalmLists ==
  ASSUME Settling, NEW g \in Groups
  PROVE  /\ Len(Pruned(g, ActiveAfter({})[g])) = Len(active[g])
         /\ Len(ActiveAfter({})[g]) = Len(active[g])
         /\ Len(ListsAfter({})[g]) = Len(active[g])
         /\ Len(Pruned(g, active[g])) = Len(active[g])
         /\ Pruned(g, ActiveAfter({})[g]) \in Seq(Jobs) /\ ActiveAfter({})[g] \in Seq(Jobs)
         /\ ListsAfter({})[g] \in Seq(Jobs) /\ Pruned(g, active[g]) \in Seq(Jobs)
<1>1. {} \in SUBSET Expired
  OBVIOUS
<1>2. Locked(g) \ {} = Locked(g)
  OBVIOUS
<1>3. active[g] \in Seq(Jobs) /\ Exact(active[g], Locked(g))
  BY SlotsByGroup DEF Settling, Inv, TypeOK
<1>4. /\ Exact(ActiveAfter({})[g], Locked(g))
      /\ Exact(Pruned(g, ActiveAfter({})[g]), Locked(g))
      /\ Exact(ListsAfter({})[g], Locked(g))
  BY <1>1, <1>2, SweptLists DEF Settling
<1>5. Exact(Pruned(g, active[g]), Locked(g))
  BY <1>3, ExactPruned
<1>6. /\ ActiveAfter({})[g] \in Seq(Jobs) /\ ListsAfter({})[g] \in Seq(Jobs)
  BY <1>1, RecoveryType, ListsAfterType DEF Settling
<1>7. /\ Pruned(g, active[g]) \in Seq(Jobs)
      /\ Pruned(g, ActiveAfter({})[g]) \in Seq(Jobs)
  BY <1>3, <1>6, PrunedType
<1> QED
  BY <1>3, <1>4, <1>5, <1>6, <1>7, ExactLength

\* What a sweep and a scan find: nothing is late, and what is listed has room.
LEMMA CalmSweep ==
  ASSUME Settling
  PROVE  /\ Expired = {} /\ (\A R \in SweepChoice : R = {})
         /\ WaitingAfter({}) = gz /\ ReadyAfter({}) = ready /\ LimitedAfter({}) = limited
         /\ Scanned({}) = ready
         /\ \A g \in Listed(ready) :
              /\ g \in Groups /\ HasRoom({}, g) /\ gz[g] # {} /\ g \notin limited
              /\ Len(active[g]) < StartLimit /\ limit[g] = StartLimit
         /\ Parked({}) = {} /\ SweptReady({}) = ready
         /\ \A n : FullOf({}, n) = {} /\ ReadBy({}, n) \subseteq Listed(ready)
<1>1. /\ TypeOK /\ late = {} /\ (\A g \in Groups : limit[g] = StartLimit /\ Fresh(g))
  BY DEF Settling, Inv, IndexInv, Steady, Indexed
<1>2. Expired = {} /\ (\A R \in SweepChoice : R = {})
  BY <1>1 DEF Expired, SweepChoice
<1>3. WaitingAfter({}) = gz
  BY <1>1 DEF WaitingAfter, TypeOK
<1>4. ReadyAfter({}) = ready /\ LimitedAfter({}) = limited
  BY <1>1 DEF ReadyAfter, LimitedAfter, Swept, TypeOK
<1>5. Scanned({}) = ready
  BY <1>4 DEF Scanned
<1>6. \A g \in Listed(ready) :
        /\ g \in Groups /\ HasRoom({}, g) /\ gz[g] # {} /\ g \notin limited
        /\ Len(active[g]) < StartLimit /\ limit[g] = StartLimit
  BY <1>1, CalmLists DEF Listed, HasRoom, Fresh
<1>7. Parked({}) = {}
  BY <1>5, <1>6 DEF Parked, Reached
<1>8. SweptReady({}) = ready
  BY <1>1, <1>4, <1>7 DEF SweptReady, TypeOK
<1>9. \A n : FullOf({}, n) = {} /\ ReadBy({}, n) \subseteq Listed(ready)
  BY <1>4, <1>6 DEF FullOf, ReadBy
<1> QED
  BY <1>2, <1>3, <1>4, <1>5, <1>6, <1>7, <1>8, <1>9

\* reserve.lua that finds nothing changes nothing here.
LEMMA ReserveNoneIndexed ==
  ASSUME Settling, TypeOK', NEW w \in Slots, ReserveNone(w)
  PROVE  \A h \in Groups : Indexed(h)'
<1>1. /\ gz' = gz /\ active' = ListsAfter({}) /\ ready' = ready /\ limited' = limited
  <2>1. PICK R \in SweepChoice : FindNothing(w, R)
    BY DEF ReserveNone
  <2>2. R = {}
    BY <2>1, CalmSweep
  <2>3. /\ gz' = WaitingAfter({}) /\ active' = ListsAfter({})
        /\ ready' = SweptReady({}) /\ limited' = LimitedAfter({}) \cup Parked({})
    BY <2>1, <2>2 DEF FindNothing
  <2> QED
    BY <2>3, CalmSweep
<1>2. attempts' = attempts /\ delayed' = delayed
  BY DEF ReserveNone
<1> TAKE h \in Groups
<1>3. Len(active'[h]) = Len(active[h]) /\ Len(active[h]) \in Nat
  BY <1>1, CalmLists, IndexTypes DEF Settling, Inv
<1>4. Backing(h) => Backing(h)'
  BY <1>2 DEF Backing
<1>5. Kept(h)
  BY <1>1, <1>3, <1>4 DEF Kept
<1> QED
  BY <1>5, HandledKeeps DEF Handled, Settling, Inv, IndexInv

\* No two groups in ready have the same rank: their scores are those of different jobs.
LEMMA RanksDiffer ==
  ASSUME Settling, NEW g \in Listed(ready), NEW h \in Listed(ready), g # h,
         Rank(ready, g) = Rank(ready, h)
  PROVE  FALSE
<1> DEFINE Below(k) == {i \in Listed(ready) : ready[i] < ready[k]}
<1>1. /\ TypeOK /\ (\A k \in Listed(ready) : k \in Groups /\ gz[k] # {} /\ Fresh(k))
  BY CalmSweep DEF Settling, Inv, IndexInv, Indexed
<1>2. \A k \in Listed(ready) :
        /\ Head1(gz[k]) \in Jobs /\ GroupOf[Head1(gz[k])] = k
        /\ ready[k] = Score[Head1(gz[k])]
  <2> TAKE k \in Listed(ready)
  <2>1. gz[k] \in SUBSET Jobs /\ gz[k] # {} /\ k \in Groups
    BY <1>1 DEF TypeOK
  <2>2. Head1(gz[k]) \in gz[k] /\ Head1(gz[k]) \in Jobs
    BY <2>1, HasHead
  <2>3. ready[k] = HeadScore(gz[k])
    BY <1>1 DEF Fresh, Listed
  <2> QED
    BY <2>1, <2>2, <2>3 DEF HeadScore, Settling, Inv, OnePlace
<1>3. IsFiniteSet(Listed(ready))
  <2> DEFINE head == [k \in Listed(ready) |-> Head1(gz[k])]
  <2>1. head \in Injection(Listed(ready), Jobs)
    BY <1>2 DEF Injection, IsInjective
  <2>2. IsFiniteSet(Jobs)
    BY ConstantsAssumption
  <2> QED
    BY <2>1, <2>2, FS_Injection
<1>4. \A k \in Listed(ready) : ready[k] \in Nat
  BY <1>1 DEF TypeOK
<1>5. ready[g] # ready[h]
  <2>1. Head1(gz[g]) # Head1(gz[h])
    BY <1>2
  <2> QED
    BY <1>2, <2>1, ConstantsAssumption
<1>6. ASSUME NEW a \in Listed(ready), NEW b \in Listed(ready), ready[a] < ready[b]
      PROVE  Cardinality(Below(a)) # Cardinality(Below(b))
  <2>1. ready[a] \in Nat /\ ready[b] \in Nat
    BY <1>4
  <2>2. Below(a) \in SUBSET Below(b)
    <3> SUFFICES ASSUME NEW i \in Below(a)
                 PROVE  ready[i] < ready[b]
      OBVIOUS
    <3>1. ready[i] \in Nat /\ ready[i] < ready[a]
      BY <1>4
    <3> QED
      BY <1>6, <2>1, <3>1
  <2>3. a \in Below(b) /\ a \notin Below(a)
    BY <1>6, <2>1
  <2>4. Below(b) \in SUBSET Listed(ready)
    OBVIOUS
  <2> HIDE DEF Below
  <2>5. IsFiniteSet(Below(b))
    BY <1>3, <2>4, FS_Subset
  <2>6. Below(b) # Below(a)
    BY <2>3
  <2> QED
    BY <2>2, <2>5, <2>6, FS_Subset
<1>7. ready[g] < ready[h] \/ ready[h] < ready[g]
  BY <1>4, <1>5
<1> QED
  BY <1>6, <1>7 DEF Rank

\* reserve.lua removes the group it served, and no other, by its index in ready.
LEMMA ReserveJobIndexed ==
  ASSUME Settling, TypeOK', NEW w \in Slots, ReserveJob(w)
  PROVE  \A h \in Groups : Indexed(h)'
<1>1. PICK g \in Candidates({}) : HandOut(w, {}, g)
  BY CalmSweep DEF ReserveJob
<1>2. g \in Listed(ready)
  BY <1>1, CalmSweep DEF Candidates
<1>3. /\ TypeOK /\ (\A h \in Groups : Indexed(h)) /\ g \in Groups
      /\ limit[g] = StartLimit /\ g \notin limited /\ gz[g] # {}
      /\ Len(active[g]) < StartLimit /\ gz[g] \in SUBSET Jobs
  BY <1>2, CalmSweep DEF Settling, Inv, IndexInv, TypeOK
<1>4. /\ StartLimit \in Nat /\ Len(active[g]) \in Nat
      /\ Len(ListsAfter({})[g]) = Len(active[g]) /\ ListsAfter({})[g] \in Seq(Jobs)
      /\ ListsAfter({}) \in [Groups -> Seq(Jobs)]
  BY <1>3, CalmLists, IndexTypes, ListsAfterType, ConstantsAssumption DEF Settling
<1> DEFINE j     == Head1(gz[g])
           rest  == gz[g] \ {j}
           taken == <<j>> \o ListsAfter({})[g]
<1>5. AtRank(ready, Rank(ready, g)) = {g}
  <2>1. g \in AtRank(ready, Rank(ready, g))
    BY <1>2 DEF AtRank
  <2>2. \A h \in AtRank(ready, Rank(ready, g)) : h = g
    BY <1>2, RanksDiffer DEF AtRank
  <2> QED
    BY <2>1, <2>2
<1>6. /\ gz' = [gz EXCEPT ![g] = rest]
      /\ active' = [ListsAfter({}) EXCEPT ![g] = taken]
      /\ ready' = [h \in Groups |->
                     IF h = g /\ rest # {} /\ Len(taken) < limit[g] THEN HeadScore(rest)
                     ELSE IF h \in {g} THEN 0 ELSE ready[h]]
      /\ limited' = limited \cup (IF rest # {} /\ Len(taken) >= limit[g] THEN {g} ELSE {})
  <2>1. /\ WaitingAfter({}) = gz /\ Scanned({}) = ready /\ SweptReady({}) = ready
        /\ LimitedAfter({}) \cup Parked({}) = limited
    BY CalmSweep
  <2> QED
    BY <1>1, <1>5, <2>1 DEF HandOut
<1>7. Len(taken) = Len(active[g]) + 1
  <2>1. j \in Jobs
    BY <1>3, HasHead
  <2> QED
    BY <1>4, <2>1
<1>8. attempts' = attempts /\ delayed' = delayed
  BY DEF ReserveJob
<1> HIDE DEF rest, taken, j
<1>9. /\ gz'[g] = rest /\ active'[g] = taken
      /\ ready'[g] = IF rest # {} /\ Len(taken) < StartLimit THEN HeadScore(rest) ELSE 0
      /\ g \in limited' <=> (rest # {} /\ Len(taken) >= StartLimit)
  BY <1>3, <1>4, <1>6 DEF TypeOK
<1>10. Handled(g)
  <2>1. Len(taken) <= StartLimit
    BY <1>3, <1>4, <1>7
  <2>2. Len(taken) >= StartLimit <=> ~(Len(taken) < StartLimit)
    BY <1>4, <1>7
  <2>3. CASE rest = {}
    BY <1>9, <2>1, <2>3 DEF Handled, Emptied
  <2>4. CASE rest # {}
    BY <1>9, <2>1, <2>2, <2>4 DEF Handled, Placed
  <2> QED
    BY <2>3, <2>4
<1> TAKE h \in Groups
<1>11. CASE h = g
  BY <1>3, <1>10, <1>11, HandledKeeps
<1>12. CASE h # g
  <2>1. /\ gz'[h] = gz[h] /\ active'[h] = ListsAfter({})[h]
        /\ ready'[h] = ready[h] /\ (h \in limited' <=> h \in limited)
    BY <1>3, <1>4, <1>6, <1>12 DEF TypeOK
  <2>2. Len(active'[h]) = Len(active[h]) /\ Len(active[h]) \in Nat
    BY <1>3, <2>1, CalmLists, IndexTypes
  <2>3. Backing(h) => Backing(h)'
    BY <1>8 DEF Backing
  <2>4. Kept(h)
    BY <2>1, <2>2, <2>3 DEF Kept
  <2> QED
    BY <1>3, <2>4, HandledKeeps DEF Handled
<1> QED
  BY <1>11, <1>12

\* reserve-batch.lua lends the first job of each group it serves.
LEMMA ReserveBatchIndexed ==
  ASSUME Settling, TypeOK', NEW W \in SUBSET Slots, ReserveBatch(W)
  PROVE  \A h \in Groups : Indexed(h)'
<1> DEFINE n == Cardinality(W)
<1>1. PICK f \in [Batch({}, n) -> W] : TakeBatch({}, n, f)
  <2>1. PICK R \in {{}, Expired} : \E f \in [Batch(R, n) -> W] : TakeBatch(R, n, f)
    BY DEF ReserveBatch
  <2>2. R = {}
    BY CalmSweep
  <2> QED
    BY <2>1, <2>2
<1> HIDE DEF n
<1> DEFINE first(g) == Head1(gz[g])
           served   == {GroupOf[j] : j \in DOMAIN f}
           rest(g)  == gz[g] \ DOMAIN f
           left(g)  == IF g \in ReadBy({}, n) THEN Pruned(g, ActiveAfter({})[g])
                       ELSE ActiveAfter({})[g]
<1>2. /\ gz' = [g \in Groups |-> rest(g)]
      /\ active' = [g \in Groups |-> IF g \in served THEN <<first(g)>> \o left(g)
                                     ELSE left(g)]
      /\ ready' = [g \in Groups |-> IF g \in served THEN 0 ELSE ready[g]]
      /\ limited' = limited \cup
                      {g \in served : rest(g) # {} /\ Len(left(g)) + 1 >= limit[g]}
  <2>1. /\ WaitingAfter({}) = gz /\ ReadyAfter({}) = ready /\ LimitedAfter({}) = limited
        /\ FullOf({}, n) = {}
    BY CalmSweep
  <2>2. /\ gz' = [g \in Groups |-> WaitingAfter({})[g] \ DOMAIN f]
        /\ active' = [g \in Groups |->
             IF g \in served THEN <<Head1(WaitingAfter({})[g])>> \o left(g) ELSE left(g)]
        /\ ready' = [g \in Groups |-> IF g \in served \cup FullOf({}, n) THEN 0
                                      ELSE ReadyAfter({})[g]]
        /\ limited' = LimitedAfter({}) \cup FullOf({}, n) \cup
             {g \in served : WaitingAfter({})[g] \ DOMAIN f # {}
                             /\ Len(left(g)) + 1 >= limit[g]}
    BY <1>1 DEF TakeBatch
  <2> HIDE DEF served, left
  <2> QED
    BY <2>1, <2>2
<1>3. /\ TypeOK /\ (\A h \in Groups : Indexed(h))
      /\ attempts' = attempts /\ delayed' = delayed
      /\ StartLimit \in Nat
  BY ConstantsAssumption DEF ReserveBatch, Settling, Inv, IndexInv
<1>4. \A g \in Listed(ready) : first(g) \in gz[g] /\ first(g) \in Jobs /\ GroupOf[first(g)] = g
  <2> TAKE g \in Listed(ready)
  <2>1. g \in Groups /\ gz[g] # {} /\ gz[g] \in SUBSET Jobs
    BY <1>3, CalmSweep DEF TypeOK
  <2>2. first(g) \in gz[g] /\ first(g) \in Jobs
    BY <2>1, HasHead
  <2> HIDE DEF first
  <2> QED
    BY <2>1, <2>2 DEF Settling, Inv, OnePlace
<1>5. \A j \in DOMAIN f : GroupOf[j] \in Listed(ready) /\ j = first(GroupOf[j])
  <2> TAKE j \in DOMAIN f
  <2>1. PICK g \in ReadBy({}, n) : j = Head1(WaitingAfter({})[g])
    BY DEF Batch
  <2>2. g \in Listed(ready) /\ j = first(g)
    BY <2>1, CalmSweep
  <2> HIDE DEF first
  <2> QED
    BY <1>4, <2>2
<1>6. served \subseteq Listed(ready)
  BY <1>5
<1>7. \A g \in Groups : /\ left(g) \in Seq(Jobs) /\ Len(left(g)) = Len(active[g])
                        /\ Len(active[g]) \in Nat
  BY <1>3, CalmLists, IndexTypes
<1>8. \A g \in Groups : g \notin served => rest(g) = gz[g]
  <2>1. \A g \in Groups : \A j \in gz[g] : j \in Jobs /\ GroupOf[j] = g
    BY DEF Settling, Inv, OnePlace, TypeOK
  <2> QED
    BY <2>1
<1> HIDE DEF first, served, rest, left
<1> TAKE h \in Groups
<1>9. CASE h \in served
  <2>1. /\ h \in Listed(ready) /\ h \notin limited /\ limit[h] = StartLimit
        /\ Len(active[h]) < StartLimit /\ first(h) \in Jobs
    BY <1>4, <1>6, <1>9, CalmSweep
  <2>2. /\ gz'[h] = rest(h) /\ active'[h] = <<first(h)>> \o left(h) /\ ready'[h] = 0
        /\ h \in limited' <=> (rest(h) # {} /\ Len(left(h)) + 1 >= StartLimit)
    BY <1>2, <1>9, <2>1
  <2>3. left(h) \in Seq(Jobs) /\ Len(left(h)) = Len(active[h]) /\ Len(active[h]) \in Nat
    BY <1>7
  <2>4. Len(active'[h]) = Len(left(h)) + 1
    BY <2>1, <2>2, <2>3
  <2>5. /\ 0 < Len(active'[h]) /\ Len(active'[h]) <= StartLimit
        /\ Len(left(h)) + 1 >= StartLimit <=> ~(Len(active'[h]) < StartLimit)
    BY <1>3, <2>1, <2>3, <2>4
  <2>6. Lent(h)
    BY <2>2, <2>5 DEF Lent
  <2> QED
    BY <1>3, <2>6, HandledKeeps DEF Handled
<1>10. CASE h \notin served
  <2>1. /\ gz'[h] = gz[h] /\ active'[h] = left(h) /\ ready'[h] = ready[h]
        /\ h \in limited' <=> h \in limited
    BY <1>2, <1>8, <1>10
  <2>2. Len(active'[h]) = Len(active[h]) /\ Len(active[h]) \in Nat
    BY <1>7, <2>1
  <2>3. Backing(h) => Backing(h)'
    BY <1>3 DEF Backing
  <2>4. Kept(h)
    BY <2>1, <2>2, <2>3 DEF Kept
  <2> QED
    BY <1>3, <2>4, HandledKeeps DEF Handled
<1> QED
  BY <1>9, <1>10

\* reserve-atomic.lua settles the group it serves, and parks it when it is full.
LEMMA ReserveAtomicIndexed ==
  ASSUME Settling, TypeOK', NEW w \in Slots, NEW g \in Groups, ReserveAtomic(w, g)
  PROVE  \A h \in Groups : Indexed(h)'
<1> DEFINE list == Pruned(g, active[g])
           j    == Head1(gz[g])
<1>1. /\ TypeOK /\ (\A h \in Groups : Indexed(h)) /\ limit[g] = StartLimit
      /\ gz[g] \in SUBSET Jobs /\ gz[g] # {}
      /\ attempts' = attempts /\ delayed' = delayed
  BY DEF Settling, Inv, IndexInv, Steady, TypeOK, ReserveAtomic
<1>2. /\ Len(list) = Len(active[g]) /\ list \in Seq(Jobs) /\ Len(active[g]) \in Nat
      /\ StartLimit \in Nat /\ Len(active[g]) <= StartLimit /\ j \in Jobs
  BY <1>1, CalmLists, IndexTypes, HasHead DEF Indexed
<1>3. \/ /\ Len(list) < limit[g] /\ gz' = [gz EXCEPT ![g] = @ \ {j}]
         /\ active' = [active EXCEPT ![g] = <<j>> \o list]
         /\ Settle(g, gz[g] \ {j}, Len(list) + 1)
      \/ /\ ~(Len(list) < limit[g]) /\ gz' = gz
         /\ active' = [active EXCEPT ![g] = list]
         /\ Requeue(g, gz[g], limit[g])
  BY DEF ReserveAtomic
<1> HIDE DEF list, j
<1>4. Aside(g) /\ BackingKept(g)
  BY <1>1, <1>3 DEF Aside, BackingKept, TypeOK
<1>5. CASE /\ Len(list) < limit[g] /\ gz' = [gz EXCEPT ![g] = @ \ {j}]
           /\ active' = [active EXCEPT ![g] = <<j>> \o list]
           /\ Settle(g, gz[g] \ {j}, Len(list) + 1)
  <2>1. gz'[g] = gz[g] \ {j} /\ active'[g] = <<j>> \o list
    BY <1>1, <1>5 DEF TypeOK
  <2>2. Len(<<j>> \o list) = Len(list) + 1
    BY <1>2
  <2>3. Len(active'[g]) = Len(list) + 1 /\ Len(active'[g]) <= StartLimit
    BY <1>1, <1>2, <1>5, <2>1, <2>2
  <2>4. Settle(g, gz'[g], Len(list) + 1)
    BY <1>5, <2>1
  <2>5. Handled(g) /\ OthersPlaced(g)
    BY <1>1, <2>3, <2>4, SettlePlaces
  <2> QED
    BY <1>1, <1>4, <2>5, OneGroup
<1>6. CASE /\ ~(Len(list) < limit[g]) /\ gz' = gz
           /\ active' = [active EXCEPT ![g] = list]
           /\ Requeue(g, gz[g], limit[g])
  <2>1. gz'[g] = gz[g] /\ active'[g] = list
    BY <1>1, <1>6 DEF TypeOK
  <2>2. /\ Len(active'[g]) <= StartLimit
        /\ limit[g] < StartLimit <=> Len(active'[g]) < StartLimit
    BY <1>1, <1>2, <1>6, <2>1
  <2>3. Handled(g) /\ OthersPlaced(g)
    BY <1>1, <1>6, <2>1, <2>2, RequeuePlaces DEF Handled
  <2> QED
    BY <1>1, <1>4, <2>3, OneGroup
<1> QED
  BY <1>3, <1>5, <1>6

-----------------------------------------------------------------------------
(* Locks stay in hands.                                                    *)

\* Who has a lock has the job in hand.
Handed == \A j \in Jobs : lock[j] # None => hold[lock[j]] = j

\* A reserve script gives free slots a job each.
LEMMA LockAllHanded ==
  ASSUME Settling, NEW f, LockAll({}, f),
         \A i \in DOMAIN f : i \in Jobs /\ f[i] \in Slots /\ hold[f[i]] = None,
         \A i, k \in DOMAIN f : f[i] = f[k] => i = k
  PROVE  late' = {} /\ Handed'
<1>1. late = {} /\ Handed /\ lock \in [Jobs -> Slots \cup {None}] /\ None \notin Jobs
  BY ConstantsAssumption DEF Settling, IndexInv, Steady, Handed, Inv, TypeOK
<1>2. late' = {}
  BY <1>1 DEF LockAll
<1>3. ASSUME NEW j \in Jobs, lock'[j] # None
      PROVE  hold'[lock'[j]] = j
  <2>1. CASE j \in DOMAIN f
    <3>1. lock'[j] = f[j] /\ f[j] \in Slots
      BY <2>1 DEF LockAll
    <3>2. hold'[f[j]] = CHOOSE i \in DOMAIN f : f[i] = f[j]
      BY <2>1, <3>1 DEF LockAll
    <3>3. \A i \in DOMAIN f : f[i] = f[j] <=> i = j
      BY <2>1
    <3>4. (CHOOSE i \in DOMAIN f : f[i] = f[j]) = j
      BY <2>1, <3>3
    <3> QED
      BY <3>1, <3>2, <3>4
  <2>2. CASE j \notin DOMAIN f
    <3>1. lock'[j] = lock[j] /\ lock[j] \in Slots /\ hold[lock[j]] = j
      BY <1>1, <1>3, <2>2 DEF LockAll, Handed
    <3>2. ~ \E i \in DOMAIN f : f[i] = lock[j]
      BY <1>1, <3>1
    <3>3. hold'[lock[j]] = hold[lock[j]]
      BY <3>1, <3>2 DEF LockAll
    <3> QED
      BY <3>1, <3>3
  <2> QED
    BY <2>1, <2>2
<1> QED
  BY <1>2, <1>3 DEF Handed

\* A slot that drops its job leaves no lock of its own.
LEMMA DropHanded ==
  ASSUME Settling, NEW w \in Slots, Drop(w),
         \A j \in Jobs : lock'[j] # None => lock'[j] = lock[j] /\ lock[j] # w
  PROVE  Handed'
BY DEF Settling, IndexInv, Steady, Handed, Drop, Inv, TypeOK

\* The locks of the reserve scripts.
LEMMA ReserveHanded ==
  ASSUME Settling,
         \/ \E w \in Slots : Reserve(w)
         \/ \E W \in SUBSET Slots : ReserveBatch(W)
         \/ \E w \in Slots, g \in Groups : ReserveAtomic(w, g)
  PROVE  late' = {} /\ Handed'
<1>1. ASSUME NEW w \in Slots, ReserveNone(w)
      PROVE  late' = {} /\ Handed'
  <2>1. LockAll({}, [j \in {} |-> w])
    BY <1>1, CalmSweep DEF ReserveNone, FindNothing
  <2> QED
    BY <2>1, LockAllHanded
<1>2. ASSUME NEW w \in Slots, NEW j \in Jobs, LockAll({}, [i \in {j} |-> w]), Idle(w)
      PROVE  late' = {} /\ Handed'
  BY <1>2, LockAllHanded DEF Idle
<1>3. ASSUME NEW g \in Groups, gz[g] # {}
      PROVE  Head1(gz[g]) \in Jobs
  <2>1. gz[g] \in SUBSET Jobs
    BY DEF Settling, Inv, TypeOK
  <2> QED
    BY <1>3, <2>1, HasHead
<1>4. ASSUME NEW w \in Slots, ReserveJob(w)
      PROVE  late' = {} /\ Handed'
  <2>1. PICK g \in Candidates({}) : HandOut(w, {}, g)
    BY <1>4, CalmSweep DEF ReserveJob
  <2>2. g \in Groups /\ gz[g] # {} /\ WaitingAfter({}) = gz
    BY <2>1, CalmSweep DEF Candidates
  <2>3. LockAll({}, [i \in {Head1(gz[g])} |-> w]) /\ Idle(w)
    BY <1>4, <2>1, <2>2 DEF HandOut, ReserveJob
  <2> QED
    BY <1>2, <1>3, <2>2, <2>3
<1>5. ASSUME NEW w \in Slots, NEW g \in Groups, ReserveAtomic(w, g)
      PROVE  late' = {} /\ Handed'
  <2>1. gz[g] # {} /\ Idle(w)
    BY <1>5 DEF ReserveAtomic
  <2>2. \/ LockAll({}, [i \in {Head1(gz[g])} |-> w])
        \/ UNCHANGED <<late, lock, slotVars>>
    BY <1>5 DEF ReserveAtomic
  <2>3. CASE UNCHANGED <<late, lock, slotVars>>
    BY <2>3 DEF Settling, IndexInv, Steady, Handed, slotVars
  <2> QED
    BY <1>2, <1>3, <2>1, <2>2, <2>3
<1>6. ASSUME NEW W \in SUBSET Slots, ReserveBatch(W)
      PROVE  late' = {} /\ Handed'
  <2> DEFINE n == Cardinality(W)
  <2>1. PICK f \in [Batch({}, n) -> W] : TakeBatch({}, n, f)
    <3>1. PICK R \in {{}, Expired} : \E f \in [Batch(R, n) -> W] : TakeBatch(R, n, f)
      BY <1>6 DEF ReserveBatch
    <3>2. R = {}
      BY CalmSweep
    <3> QED
      BY <3>1, <3>2
  <2> HIDE DEF n
  <2>2. \A i \in Batch({}, n) : i \in Jobs
    <3> TAKE i \in Batch({}, n)
    <3>1. PICK g \in ReadBy({}, n) : i = Head1(WaitingAfter({})[g])
      BY DEF Batch
    <3>2. g \in Groups /\ gz[g] # {} /\ WaitingAfter({}) = gz
      BY <3>1, CalmSweep
    <3> QED
      BY <1>3, <3>1, <3>2
  <2>3. \A w \in W : w \in Slots /\ hold[w] = None
    BY <1>6 DEF ReserveBatch, Idle
  <2>4. LockAll({}, f) /\ \A i, k \in DOMAIN f : f[i] = f[k] => i = k
    BY <2>1 DEF TakeBatch
  <2>5. \A i \in DOMAIN f : i \in Jobs /\ f[i] \in Slots /\ hold[f[i]] = None
    BY <2>2, <2>3
  <2> QED
    BY <2>4, <2>5, LockAllHanded
<1> QED
  BY <1>1, <1>4, <1>5, <1>6 DEF Reserve

\* The calls that settle a job.
LEMMA FinishHanded ==
  ASSUME Settling, NEW w \in Slots, Finish(w)
  PROVE  late' = {} /\ Handed'
<1>1. /\ late = {} /\ Handed /\ TypeOK /\ None \notin Slots
  BY ConstantsAssumption DEF Settling, IndexInv, Steady, Handed, Inv
<1>2. ASSUME NEW j \in Jobs, hold[w] = j, lock[j] = w, Drop(w),
             lock' = [lock EXCEPT ![j] = None]
      PROVE  Handed'
  <2>1. \A i \in Jobs : lock'[i] # None => i # j /\ lock'[i] = lock[i]
    BY <1>1, <1>2 DEF TypeOK
  <2>2. \A i \in Jobs : lock[i] = w => i = j
    BY <1>1, <1>2 DEF Handed
  <2> QED
    BY <1>2, <2>1, <2>2, DropHanded
<1>3. \A u \in Slots : hold[u] # None => hold[u] \in Jobs
  BY <1>1 DEF TypeOK
<1>4. CASE CompleteJob(w) \/ DeadLetter(w)
  <2>1. PICK j \in Jobs : hold[w] = j
    BY <1>3, <1>4 DEF CompleteJob, DeadLetter, Running
  <2>2. /\ lock[j] = w /\ Drop(w) /\ Unlock(j)
    BY <1>4, <2>1 DEF CompleteJob, DeadLetter, Accepted, Owns
  <2> QED
    BY <1>1, <1>2, <2>1, <2>2 DEF Unlock
<1>5. CASE LockLost(w)
  <2>1. Drop(w) /\ lock' = lock /\ late' = late
    BY <1>5 DEF LockLost, queueVars, placeVars
  <2>2. \A i \in Jobs : lock[i] # w \/ lock[i] = None
    BY <1>1, <1>5 DEF LockLost, Owns, Handed
  <2>3. \A i \in Jobs : lock'[i] # None => lock'[i] = lock[i] /\ lock[i] # w
    BY <2>1, <2>2
  <2> QED
    BY <1>1, <2>1, <2>3, DropHanded
<1>6. CASE RecordFinalFailure(w)
  BY <1>1, <1>6 DEF RecordFinalFailure, placeVars, Handed
<1>7. ASSUME NEW b \in Backoffs, Retry(w, b)
      PROVE  late' = {} /\ Handed'
  <2>1. PICK j \in Jobs : hold[w] = j
    BY <1>3, <1>7 DEF Retry, Running
  <2>2. lock[j] = w /\ (UNCHANGED <<placeVars, hold>> \/ (Drop(w) /\ Unlock(j)))
    BY <1>7, <2>1 DEF Retry, Owns
  <2>3. CASE UNCHANGED <<placeVars, hold>>
    BY <1>1, <2>3 DEF placeVars, Handed
  <2> QED
    BY <1>1, <1>2, <2>1, <2>2, <2>3 DEF Unlock
<1>8. CASE CompleteAndReserveNext(w)
  <2>1. PICK j \in Jobs : hold[w] = j
    BY <1>3, <1>8 DEF CompleteAndReserveNext, Running
  <2> DEFINE next == Head1(gz[GroupOf[j]])
             free == [lock EXCEPT ![j] = None]
  <2>2. /\ lock[j] = w /\ late' = {}
        /\ \/ Drop(w) /\ lock' = free
           \/ /\ gz[GroupOf[j]] # {} /\ lock' = [free EXCEPT ![next] = w]
              /\ hold' = [hold EXCEPT ![w] = next]
    BY <1>1, <1>8, <2>1 DEF CompleteAndReserveNext, Accepted, Owns
  <2>3. CASE Drop(w) /\ lock' = free
    BY <1>2, <2>1, <2>2, <2>3
  <2>4. CASE /\ gz[GroupOf[j]] # {} /\ lock' = [free EXCEPT ![next] = w]
             /\ hold' = [hold EXCEPT ![w] = next]
    <3>1. gz[GroupOf[j]] \in SUBSET Jobs
      BY <1>1, ConstantsAssumption DEF TypeOK
    <3>2. next \in Jobs
      BY <2>4, <3>1, HasHead
    <3> HIDE DEF next
    <3>3. \A i \in Jobs : lock[i] = w => i = j
      BY <1>1, <2>1 DEF Handed
    <3>4. hold'[w] = next /\ \A u \in Slots \ {w} : hold'[u] = hold[u]
      BY <1>1, <2>4 DEF TypeOK
    <3>5. \A i \in Jobs : \/ i = next /\ lock'[i] = w
                          \/ lock'[i] = None
                          \/ i # next /\ i # j /\ lock'[i] = lock[i]
      BY <1>1, <2>4, <3>2 DEF TypeOK
    <3>6. \A i \in Jobs : lock[i] # None /\ i # j => lock[i] \in Slots \ {w}
      BY <1>1, <3>3 DEF TypeOK
    <3>7. Handed'
      BY <1>1, <3>4, <3>5, <3>6 DEF Handed
    <3> QED
      BY <2>2, <3>7
  <2> QED
    BY <2>2, <2>3, <2>4
<1> QED
  BY <1>4, <1>5, <1>6, <1>7, <1>8 DEF Finish

-----------------------------------------------------------------------------
(* The index is in order.                                                  *)

\* What is left of Next here: no deadline passes, so nobody crashes or recovers, and no
\* limit changes.
LEMMA SettledNext ==
  ASSUME Settled, Settling, Next
  PROVE  \/ \E j \in Jobs : Add(j) \/ AddDelayed(j) \/ Promote(j)
         \/ \E w \in Slots : Reserve(w) \/ Finish(w)
         \/ \E W \in SUBSET Slots : ReserveBatch(W)
         \/ \E w \in Slots, g \in Groups : ReserveAtomic(w, g)
         \/ Pause \/ Resume
<1>1. /\ late = {} /\ \A j \in Jobs : lock[j] # None => hold[lock[j]] = j
      /\ \A g \in Groups : limit[g] = StartLimit
  BY DEF Settling, IndexInv, Steady
<1>2. \A w \in Slots : ~Heartbeat(w) /\ ~Crash(w)
  BY <1>1 DEF Heartbeat, Crash, Settled
<1>3. \A j \in Jobs : ~DeadlinePasses(j) /\ ~CheckStalled(j) /\ ~Cleanup(j)
  BY <1>1 DEF DeadlinePasses, CheckStalled, Cleanup, Expired, Settled
<1>4. \A g \in Groups, n \in Limits : ~SetConcurrency(g, n)
  BY <1>1 DEF SetConcurrency, Settled
<1> QED
  BY <1>2, <1>3, <1>4 DEF Next

\* Every step keeps the index in order.
LEMMA IndexKept ==
  ASSUME Settled, Settling, Inv', Next
  PROVE  IndexInv'
<1>1. \A h \in Groups : Indexed(h)'
  <2>1. TypeOK'
    BY DEF Inv
  <2>2. ASSUME Pause \/ Resume
        PROVE  \A h \in Groups : Indexed(h)'
    <3>1. UNCHANGED <<ready, limited, gz, active, delayed, attempts>>
      BY <2>2 DEF Pause, Resume, placeVars, jobVars, groupVars
    <3> QED
      BY <2>1, <3>1, NoGroup DEF Settling, Inv, IndexInv
  <2>3. ASSUME NEW w \in Slots, RecordFinalFailure(w) \/ LockLost(w)
        PROVE  \A h \in Groups : Indexed(h)'
    <3>1. UNCHANGED <<ready, limited, gz, active, delayed, attempts>>
      BY <2>3 DEF RecordFinalFailure, LockLost, placeVars, jobVars, groupVars, queueVars
    <3> QED
      BY <2>1, <3>1, NoGroup DEF Settling, Inv, IndexInv
  <2>4. ASSUME NEW w \in Slots, Finish(w)
        PROVE  \A h \in Groups : Indexed(h)'
    BY <2>1, <2>3, <2>4, CompleteIndexed, ChainIndexed, RetryIndexed, DeadLetterIndexed
      DEF Finish
  <2> QED
    BY <2>1, <2>2, <2>4, SettledNext, ArrivalIndexed, DelayIndexed, ReserveNoneIndexed,
      ReserveJobIndexed, ReserveBatchIndexed, ReserveAtomicIndexed DEF Reserve
<1>2. late' = {} /\ Handed'
  <2>1. late = {} /\ Handed
    BY DEF Settling, IndexInv, Steady, Handed
  <2>2. ASSUME \/ \E j \in Jobs : Add(j) \/ AddDelayed(j) \/ Promote(j)
               \/ Pause \/ Resume
        PROVE  late' = {} /\ Handed'
    <3>1. UNCHANGED <<late, lock, hold>>
      BY <2>2 DEF Add, AddDelayed, Promote, Pause, Resume, placeVars, slotVars
    <3> QED
      BY <2>1, <3>1 DEF Handed
  <2> QED
    BY <2>2, SettledNext, ReserveHanded, FinishHanded
<1>3. limit' = limit
  BY SettledNext, ZenonT(60) DEF Add, AddDelayed, Promote, Reserve, ReserveNone, ReserveJob, Finish,
    CompleteJob, CompleteAndReserveNext, Retry, RecordFinalFailure, DeadLetter, LockLost,
    ReserveBatch, ReserveAtomic, Pause, Resume, confVars, queueVars
<1>4. Steady'
  BY <1>2, <1>3 DEF Settling, IndexInv, Steady, Handed
<1> QED
  BY <1>1, <1>4 DEF IndexInv

\* No group is listed at first.
LEMMA InitIndexed == Init => IndexInv
<1> SUFFICES ASSUME Init
             PROVE  IndexInv
  OBVIOUS
<1>1. Steady
  BY DEF Init, Steady
<1>2. ASSUME NEW g \in Groups
      PROVE  Indexed(g)
  <2>1. gz[g] = {} /\ ready[g] = 0 /\ g \notin limited /\ Len(active[g]) = 0
    BY DEF Init
  <2>2. StartLimit \in Nat
    BY ConstantsAssumption
  <2> QED
    BY <2>1, <2>2 DEF Indexed, Fresh, Found, OnlyOne
<1> QED
  BY <1>1, <1>2 DEF IndexInv

LEMMA IndexInvariance ==
  ASSUME Settled
  PROVE  Spec => [](Inv /\ IndexInv)
<1>1. Init => IndexInv
  BY InitIndexed
<1>2. /\ Inv /\ SlotsMatchLocks /\ Inv' /\ IndexInv /\ [Next]_vars
      => IndexInv'
  <2> SUFFICES ASSUME Settling, Inv', [Next]_vars
               PROVE  IndexInv'
    BY DEF Settling
  <2>1. CASE Next
    BY <2>1, IndexKept
  <2>2. CASE UNCHANGED vars
    <3>1. UNCHANGED <<ready, limited, gz, active, delayed, attempts, late, lock, hold, limit>>
      BY <2>2 DEF vars, jobVars, placeVars, groupVars, confVars, slotVars
    <3>2. \A h \in Groups : Indexed(h)'
      BY <3>1, NoGroup DEF Settling, Inv, IndexInv
    <3> QED
      BY <3>1, <3>2 DEF Settling, IndexInv, Steady
  <2> QED
    BY <2>1, <2>2
<1> QED
  BY <1>1, <1>2, SlotsInvariance, PTL DEF Spec

\* Where no deadline is missed and limits stay as they are, no group is in both sets.
THEOREM IndexDisjointHolds ==
  ASSUME Settled
  PROVE  Spec => []IndexDisjoint
<1>1. Inv /\ IndexInv => IndexDisjoint
  <2> SUFFICES ASSUME Inv, IndexInv, NEW g \in limited
               PROVE  ready[g] = 0
    BY DEF IndexDisjoint
  <2>1. g \in Groups /\ ready[g] \in Nat
    BY DEF Inv, TypeOK
  <2>2. Fresh(g)
    BY <2>1 DEF IndexInv, Indexed
  <2> QED
    BY <2>1, <2>2 DEF Fresh
<1> QED
  BY <1>1, IndexInvariance, PTL

\* There, a group that has waiting jobs and nothing in progress can be found.
THEOREM IdleGroupIsReadyHolds ==
  ASSUME Settled
  PROVE  Spec => []IdleGroupIsReady
<1>1. Inv /\ IndexInv => IdleGroupIsReady
  <2> SUFFICES ASSUME Inv, IndexInv, NEW g \in Groups,
                      gz[g] # {}, active[g] = <<>>, limit[g] > 0
               PROVE  ready[g] > 0 \/ \E j \in delayed : GroupOf[j] = g /\ attempts[j] > 0
    BY DEF IdleGroupIsReady
  <2>1. limit[g] = StartLimit /\ Found(g) /\ Len(active[g]) = 0
    BY DEF IndexInv, Steady, Indexed
  <2> QED
    BY <2>1 DEF Found, Backing
<1> QED
  BY <1>1, IndexInvariance, PTL

\* There, and at limit 1, the index agrees with the groups in every state.
THEOREM IndexAgreesHolds ==
  ASSUME Settled, StartLimit = 1
  PROVE  Spec => []IndexAgrees
<1>1. Inv /\ IndexInv => IndexAgrees
  <2> SUFFICES ASSUME Inv, IndexInv, NEW g \in Groups
               PROVE  /\ gz[g] # {} => ready[g] > 0 \/ g \in limited
                      /\ ready[g] > 0 => /\ gz[g] # {} /\ ready[g] = HeadScore(gz[g])
                                         /\ Len(active[g]) < limit[g]
                                         /\ g \notin limited
                      /\ g \in limited =>
                           \/ Len(active[g]) >= limit[g]
                           \/ \E j \in delayed : GroupOf[j] = g /\ attempts[j] > 0
    BY DEF IndexAgrees
  <2>1. limit[g] = 1 /\ Fresh(g) /\ OnlyOne(g) /\ Len(active[g]) \in Nat
    BY IndexTypes DEF IndexInv, Steady, Indexed, Inv
  <2>2. g \in limited => \/ Len(active[g]) >= limit[g]
                         \/ \E j \in delayed : GroupOf[j] = g /\ attempts[j] > 0
    BY <2>1 DEF OnlyOne, Backing
  <2> QED
    BY <2>1, <2>2 DEF Fresh, OnlyOne
<1> QED
  BY <1>1, IndexInvariance, PTL

=============================================================================
