-------------------------- MODULE JobIdProofs --------------------------
(***************************************************************************)
(* Jobs that bear one id one after another: for any ids, workers and jobs, *)
(* and any settings of what is kept, none is lost, none comes back, and no *)
(* key outlives its job.                                                   *)
(***************************************************************************)
EXTENDS JobId, FiniteSetTheorems, TLAPS

\* The statuses of a job that has not ended.
Live == {"waiting", "delayed", "staged", "processing"}

\* A hash tells by its status whether its job has ended; no job is in two
\* hashes, and one that has not ended is in one.
Numbered ==
  /\ \A i \in Ids : job[i] <= stored /\ (status[i] \in Live <=> job[i] # 0 /\ job[i] \notin ended)
  /\ \A i, k \in Ids : job[i] # 0 /\ job[i] = job[k] => i = k
  /\ \A n \in 1..stored \ ended : \E i \in Ids : job[i] = n

\* A job that has not ended is where its status says; a lock is that of a job in
\* processing, or of one whose failure is recorded and not yet buried.
Placed ==
  \A i \in Ids :
    /\ status[i] \in Live => i \in unique
    /\ i \in group <=> status[i] = "waiting"
    /\ i \in delayed <=> status[i] = "delayed"
    /\ status[i] = "staged" => i \in stage /\ keep["completed"]
    /\ status[i] = "processing" => lock[i] # None
    /\ lock[i] # None => status[i] = "processing" \/ Burying(i)

\* A slot that has the token has the job of the hash: in processing until its
\* failure is recorded, and ended when it is.
Held ==
  \A s \in Slots :
    /\ hold[s][2] <= stored
    /\ step[s] \in {"running", "recording"} /\ Mine(s)
         => status[hold[s][1]] = "processing" /\ job[hold[s][1]] = hold[s][2]
    /\ step[s] = "burying" /\ Mine(s)
         => status[hold[s][1]] \in {"none", "failed"} /\ hold[s][2] \in ended

\* A key has a job, which is in a set when it has ended; a completed job is in
\* the set only where it is kept, and is not replaced.
Keyed ==
  \A i \in Ids :
    /\ i \in unique => job[i] # 0
    /\ i \in unique /\ status[i] \in {"completed", "failed"} => i \in completed \cup failed
    /\ i \in completed => keep["completed"] /\ status[i] = "completed" /\ i \in unique

\* The count of the group covers the jobs that have not ended, and those whose
\* end only one of two calls has counted.
Counted == {i \in Ids : status[i] \in Live \/ Burying(i)}
Covered == count >= Cardinality(Counted)

Inv == TypeOK /\ Numbered /\ Placed /\ Held /\ Keyed /\ Covered

-----------------------------------------------------------------------------
(* Counting. *)

LEMMA SlotJob ==
  ASSUME TypeOK, NEW s \in Slots
  PROVE  /\ hold[s] = <<hold[s][1], hold[s][2]>>
         /\ hold[s][1] \in Ids /\ hold[s][2] \in 0..MaxJobs
BY DEF TypeOK

LEMMA NobodyType == Nobody \in Ids \X (0..MaxJobs) /\ Nobody[2] = 0
<1>1. 0 \in 0..MaxJobs
  BY JobIdAssumption
<1>2. (CHOOSE i \in Ids : TRUE) \in Ids
  BY JobIdAssumption
<1> QED
  BY <1>1, <1>2 DEF Nobody

LEMMA CountedFinite == IsFiniteSet(Counted) /\ Cardinality(Counted) \in Nat
<1>1. IsFiniteSet(Counted)
  BY JobIdAssumption, FS_Subset DEF Counted
<1> QED
  BY <1>1, FS_CardinalityType

\* What the jobs still counted number, after some of them are counted less.
LEMMA CountedLess ==
  ASSUME TypeOK, Covered, NEW S \in SUBSET Counted
  PROVE  /\ IsFiniteSet(S) /\ Cardinality(S) \in Nat /\ count \in Int
         /\ Cardinality(Counted \ S) \in Nat
         /\ Cardinality(Counted \ S) <= count - Cardinality(S)
         /\ \A T \in SUBSET (Counted \ S) : Cardinality(T) <= count - Cardinality(S)
<1>1. IsFiniteSet(Counted) /\ Cardinality(Counted) \in Nat
  BY CountedFinite
<1>2. IsFiniteSet(S) /\ IsFiniteSet(Counted \ S)
  BY <1>1, FS_Subset
<1>3. Cardinality(Counted \ S) = Cardinality(Counted) - Cardinality(Counted \cap S)
  BY <1>1, <1>2, FS_Difference
<1>4. Counted \cap S = S
  OBVIOUS
<1>5. Cardinality(S) \in Nat /\ Cardinality(Counted \ S) \in Nat
  BY <1>2, FS_CardinalityType
<1>6. count \in Int /\ count >= Cardinality(Counted)
  BY DEF TypeOK, Covered
<1>7. Cardinality(Counted \ S) <= count - Cardinality(S)
  BY <1>1, <1>3, <1>4, <1>5, <1>6
<1>8. ASSUME NEW T \in SUBSET (Counted \ S)
      PROVE  Cardinality(T) <= count - Cardinality(S)
  <2>1. Cardinality(T) \in Nat /\ Cardinality(T) <= Cardinality(Counted \ S)
    BY <1>2, FS_Subset, FS_CardinalityType
  <2> QED
    BY <2>1, <1>5, <1>6, <1>7
<1> QED
  BY <1>2, <1>5, <1>6, <1>7, <1>8

\* The clean-up of an empty group finds it empty: nothing of the group is lost.
LEMMA GroupStays ==
  ASSUME TypeOK, Placed, Covered, NEW S \in SUBSET Counted, NEW n, n = Cardinality(S),
         NEW X \in SUBSET (group \ S)
  PROVE  GroupLess(n, X) = X /\ CountLess(n) = count - n
<1>1. X \subseteq Counted \ S
  BY DEF Placed, Counted, Live, TypeOK
<1>2. /\ n \in Nat /\ count \in Int /\ IsFiniteSet(S)
      /\ Cardinality(X) <= count - n /\ Cardinality({}) <= count - n
  BY <1>1, CountedLess
<1>3. Cardinality({}) = 0
  BY FS_EmptySet
<1>4. CountLess(n) = count - n
  BY <1>2, <1>3 DEF CountLess
<1>5. ASSUME count - n <= 0 PROVE X = {}
  <2>1. IsFiniteSet(X)
    BY <1>1, CountedFinite, FS_Subset
  <2>2. Cardinality(X) \in Nat
    BY <2>1, FS_CardinalityType
  <2>3. Cardinality(X) = 0
    BY <1>2, <1>5, <2>2
  <2> QED
    BY <2>1, <2>3, FS_EmptySet
<1> QED
  BY <1>4, <1>5 DEF GroupLess

\* The count stays true when it goes down by the jobs that are not counted any
\* more, when it stays, and when it goes up for one more job.
LEMMA CoveredAfter ==
  ASSUME TypeOK, Covered, NEW S \in SUBSET Counted,
         Counted' \subseteq Counted \ S, count' = count - Cardinality(S)
  PROVE  Covered'
BY CountedLess DEF Covered

LEMMA CoveredWithout ==
  ASSUME TypeOK, Covered, NEW i \in Counted,
         Counted' \subseteq Counted \ {i}, count' = count - 1
  PROVE  Covered'
<1>1. Cardinality({i}) = 1
  BY FS_Singleton
<1> QED
  BY <1>1, CoveredAfter

LEMMA CoveredStill ==
  ASSUME TypeOK, Covered, Counted' \subseteq Counted, count' = count
  PROVE  Covered'
<1>1. Cardinality({}) = 0
  BY FS_EmptySet
<1>2. count - 0 = count
  BY DEF TypeOK
<1> QED
  BY <1>1, <1>2, CoveredAfter

LEMMA CoveredWith ==
  ASSUME TypeOK, Covered, NEW i, Counted' \subseteq Counted \cup {i}, count' = count + 1
  PROVE  Covered'
<1> DEFINE D == Counted \cup {i}
<1>1. IsFiniteSet(Counted) /\ Cardinality(Counted) \in Nat
  BY CountedFinite
<1>2. IsFiniteSet(D) /\ Cardinality(D) <= Cardinality(Counted) + 1
  BY <1>1, FS_AddElement
<1>3. /\ Cardinality(Counted') <= Cardinality(D)
      /\ Cardinality(Counted') \in Nat /\ Cardinality(D) \in Nat
  BY <1>2, FS_Subset, FS_CardinalityType
<1> QED
  BY <1>1, <1>2, <1>3 DEF Covered, TypeOK

-----------------------------------------------------------------------------
(* Adding. *)

LEMMA InitInv == Init => Inv
<1> SUFFICES ASSUME Init PROVE Inv
  OBVIOUS
<1>1. TypeOK
  BY NobodyType, JobIdAssumption DEF Init, TypeOK, Statuses, Steps
<1>2. Numbered /\ Placed /\ Keyed
  BY DEF Init, Numbered, Placed, Keyed, Live
<1>3. Held
  BY NobodyType DEF Init, Held
<1>4. Counted = {}
  BY DEF Init, Counted, Live, Burying
<1>5. Covered
  BY <1>4, FS_EmptySet DEF Init, Covered
<1> QED
  BY <1>1, <1>2, <1>3, <1>5 DEF Inv

\* An id whose add stores a job has none that has not ended, and no lock.
LEMMA AddFindsRoom ==
  ASSUME Inv, NEW i \in Ids, Settled(i), ~Taken(i) \/ i \notin unique
  PROVE  status[i] \notin Live /\ lock[i] = None /\ i \notin completed
<1>1. status[i] \notin Live
  BY DEF Inv, Placed, Keyed, Taken, Exists, InSome, Live
<1>2. lock[i] = None
  <2> SUFFICES ASSUME lock[i] # None PROVE FALSE
    OBVIOUS
  <2>1. Burying(i) /\ status[i] \in {"none", "failed"}
    BY <1>1 DEF Inv, Placed, Held, Burying, Mine, Live
  <2>2. i \in unique /\ Exists(i) /\ InSome(i)
    BY <2>1 DEF Settled, Inv, Keyed, Exists, InSome
  <2> QED
    BY <2>1, <2>2 DEF Taken
<1>3. i \notin completed
  BY DEF Inv, Keyed, Taken, Exists
<1> QED
  BY <1>1, <1>2, <1>3

LEMMA StoreKeepsInv ==
  ASSUME Inv, NEW i \in Ids, Store(i), status[i] \notin Live, lock[i] = None, i \notin completed,
         UNCHANGED <<keep, lock, finished, slots, ended>>
  PROVE  Inv'
<1>1. PICK st \in {"waiting", "delayed", "staged"} :
       /\ st = "staged" => keep["completed"]
       /\ status' = [status EXCEPT ![i] = st]
       /\ group' = IF st = "waiting" THEN group \cup {i} ELSE group
       /\ delayed' = IF st = "delayed" THEN delayed \cup {i} ELSE delayed
       /\ stage' = IF st = "staged" THEN stage \cup {i} ELSE stage
  BY DEF Store
<1>2. stored' = stored + 1 /\ stored \in Nat /\ stored' \in 1..MaxJobs
  BY JobIdAssumption DEF Store, Inv, TypeOK
<1>3. TypeOK'
  BY <1>1, <1>2 DEF Inv, TypeOK, Store, Statuses, finished, slots
<1>4. Numbered'
  BY <1>1, <1>2 DEF Inv, TypeOK, Numbered, Store, Live, finished, slots
<1>5. Placed'
  BY <1>1 DEF Inv, TypeOK, Placed, Store, Live, Burying, finished, slots
<1>6. Held'
  BY <1>1, <1>2, JobIdAssumption DEF Inv, TypeOK, Held, Store, Live, Mine, finished, slots
<1>7. Keyed'
  BY <1>1, <1>2 DEF Inv, TypeOK, Keyed, Store, Live, finished, slots
<1>8. Covered'
  <2>1. Counted' \subseteq Counted \cup {i}
    BY <1>1 DEF Inv, TypeOK, Counted, Burying, slots
  <2> QED
    BY <2>1, CoveredWith DEF Inv, Store
<1> QED
  BY <1>3, <1>4, <1>5, <1>6, <1>7, <1>8 DEF Inv

LEMMA IgnoreKeepsInv ==
  ASSUME Inv, Ignore, UNCHANGED <<keep, lock, finished, slots, ended>>
  PROVE  Inv'
BY DEF Inv, Ignore, TypeOK, Numbered, Placed, Held, Keyed, Covered, Counted, Burying, Mine,
       places, finished, slots

LEMMA AddKeepsInv ==
  ASSUME Inv, NEW i \in Ids, Add(i) \/ AddBatch(i)
  PROVE  Inv'
<1>1. Settled(i) /\ UNCHANGED <<keep, lock, finished, slots, ended>>
  BY DEF Add, AddBatch
<1>2. CASE Ignore
  BY <1>1, <1>2, IgnoreKeepsInv
<1>3. CASE Store(i) /\ (~Taken(i) \/ i \notin unique)
  BY <1>1, <1>3, AddFindsRoom, StoreKeepsInv
<1> QED
  BY <1>2, <1>3 DEF Add, AddBatch

-----------------------------------------------------------------------------
(* Moving. *)

\* A job that waits, in whatever set, is not locked.
LEMMA WaitingIsFree ==
  ASSUME Inv, NEW i \in Ids, status[i] \in Live \ {"processing"}
  PROVE  lock[i] = None
<1> SUFFICES ASSUME lock[i] # None PROVE FALSE
  OBVIOUS
<1>1. PICK s \in Slots : step[s] = "burying" /\ hold[s][1] = i /\ lock[i] = s
  BY DEF Inv, Placed, Burying, Live
<1>2. status[i] \in {"none", "failed"}
  BY <1>1 DEF Inv, Held, Mine
<1> QED
  BY <1>2 DEF Live

\* What a call does to the slots while it moves job i: a slot is given the job,
\* goes on with the one it has, or has it settled.
SlotsFollow(i) ==
  /\ hold' \in [Slots -> Ids \X (0..MaxJobs)] /\ step' \in [Slots -> Steps]
  /\ \A s \in Slots :
       \/ hold'[s] = hold[s] /\ step'[s] = step[s] /\ lock'[i] # s
       \/ hold'[s] = hold[s] /\ step'[s] = "retried" /\ step[s] = "running"
       \/ /\ hold'[s] = <<i, job[i]>> /\ step'[s] = "running"
          /\ step[s] = "idle" /\ lock'[i] = s

\* A job that has not ended goes from its set to another one.
LEMMA MoveKeepsInv ==
  ASSUME Inv, NEW i \in Ids, NEW st \in {"waiting", "delayed", "processing"},
         NEW l \in Slots \cup {None},
         status[i] \in Live, status' = [status EXCEPT ![i] = st],
         group' = IF st = "waiting" THEN group \cup {i} ELSE group \ {i},
         delayed' = IF st = "delayed" THEN delayed \cup {i} ELSE delayed \ {i},
         stage' \subseteq stage, stage \subseteq stage' \cup {i},
         lock' = [lock EXCEPT ![i] = l], st = "processing" <=> l # None,
         SlotsFollow(i),
         UNCHANGED <<keep, job, ghost, unique, count, finished, stored, ended>>
  PROVE  Inv'
<1> USE DEF finished
<1>1. \A k \in Ids : status'[k] = IF k = i THEN st ELSE status[k]
  BY DEF Inv, TypeOK
<1>2. \A k \in Ids : lock'[k] = IF k = i THEN l ELSE lock[k]
  BY DEF Inv, TypeOK
<1>3. job[i] # 0 /\ job[i] \notin ended /\ status[i] # "none" /\ i \in unique
  BY DEF Inv, Numbered, Placed, TypeOK
<1>4. TypeOK'
  <2>1. status' \in [Ids -> Statuses] /\ lock' \in [Ids -> Slots \cup {None}]
    BY DEF Inv, TypeOK, Statuses
  <2>2. \A s \in Slots : step'[s] # "idle" => hold'[s][2] # 0
    BY <1>3 DEF Inv, TypeOK, SlotsFollow
  <2> QED
    BY <2>1, <2>2, <1>1, <1>3 DEF Inv, TypeOK, SlotsFollow
<1>5. Numbered'
  BY <1>1 DEF Inv, Numbered, Live
<1>6. \A k \in Ids : Burying(k) /\ k # i => Burying(k)'
  BY <1>2 DEF Burying, SlotsFollow
<1>7. Placed'
  BY <1>1, <1>2, <1>3, <1>6 DEF Inv, Placed, Live
<1>8. Held'
  <2> SUFFICES ASSUME NEW s \in Slots
               PROVE  /\ hold'[s][2] <= stored'
                      /\ step'[s] \in {"running", "recording"} /\ Mine(s)'
                           => status'[hold'[s][1]] = "processing" /\ job'[hold'[s][1]] = hold'[s][2]
                      /\ step'[s] = "burying" /\ Mine(s)'
                           => status'[hold'[s][1]] \in {"none", "failed"} /\ hold'[s][2] \in ended'
    BY DEF Held
  <2>1. hold[s][1] \in Ids
    BY SlotJob DEF Inv
  <2>2. CASE hold'[s] = <<i, job[i]>> /\ step'[s] = "running" /\ lock'[i] = s
    BY <2>2, <1>1, <1>2, JobIdAssumption DEF Inv, Numbered
  <2>3. CASE hold'[s] = hold[s] /\ step'[s] = step[s] /\ lock'[i] # s
    <3>1. CASE hold[s][1] = i
      BY <2>3, <3>1 DEF Inv, Held, Mine
    <3>2. CASE hold[s][1] # i
      BY <2>1, <2>3, <3>2, <1>1, <1>2 DEF Inv, Held, Mine
    <3> QED
      BY <3>1, <3>2
  <2>4. CASE hold'[s] = hold[s] /\ step'[s] = "retried"
    BY <2>4 DEF Inv, Held
  <2> QED
    BY <2>2, <2>3, <2>4 DEF SlotsFollow
<1>9. Keyed'
  BY <1>1 DEF Inv, Keyed, Live
<1>10. Covered'
  <2>1. Counted' \subseteq Counted
    BY <1>1, <1>2 DEF Counted, Burying, SlotsFollow
  <2> QED
    BY <2>1, CoveredStill DEF Inv
<1> QED
  BY <1>4, <1>5, <1>7, <1>8, <1>9, <1>10 DEF Inv

LEMMA PromoteKeepsInv ==
  ASSUME Inv, NEW i \in Ids, PromoteDelayed(i) \/ PromoteStaged(i) \/ ChangeDelay(i)
  PROVE  Inv'
<1>1. /\ UNCHANGED <<keep, job, ghost, unique, count, finished, stored, ended>>
      /\ UNCHANGED <<lock, hold, step>>
  BY DEF PromoteDelayed, PromoteStaged, ChangeDelay, Unmoved, slots
<1>2. status[i] \in Live \ {"processing"}
  BY DEF PromoteDelayed, PromoteStaged, ChangeDelay, Inv, Placed, Live
<1>3. lock[i] = None /\ lock' = [lock EXCEPT ![i] = None]
  BY <1>1, <1>2, WaitingIsFree DEF Inv, TypeOK
<1>4. SlotsFollow(i)
  BY <1>1, <1>3, JobIdAssumption DEF SlotsFollow, Inv, TypeOK
<1>5. PICK st \in {"waiting", "delayed"} :
        /\ status' = [status EXCEPT ![i] = st]
        /\ group' = IF st = "waiting" THEN group \cup {i} ELSE group \ {i}
        /\ delayed' = IF st = "delayed" THEN delayed \cup {i} ELSE delayed \ {i}
        /\ stage' \subseteq stage /\ stage \subseteq stage' \cup {i}
  <2>1. CASE PromoteStaged(i)
    <3>1. i \notin delayed
      BY <2>1 DEF PromoteStaged, Inv, Placed
    <3> QED
      BY <2>1, <3>1 DEF PromoteStaged
  <2>2. CASE PromoteDelayed(i) \/ ChangeDelay(i)
    BY <2>2 DEF PromoteDelayed, ChangeDelay, Move
  <2> QED
    BY <2>1, <2>2
<1> QED
  BY <1>1, <1>2, <1>3, <1>4, <1>5, MoveKeepsInv

LEMMA ReserveKeepsInv ==
  ASSUME Inv, NEW s \in Slots, NEW i \in Ids, Reserve(s, i)
  PROVE  Inv'
<1>1. /\ UNCHANGED <<keep, job, ghost, unique, count, finished, stored, ended>>
      /\ status' = [status EXCEPT ![i] = "processing"] /\ group' = group \ {i}
      /\ lock' = [lock EXCEPT ![i] = s] /\ stage' = stage
  BY DEF Reserve, Unmoved
<1>2. status[i] = "waiting" /\ i \notin delayed /\ delayed' = delayed \ {i}
  BY DEF Reserve, Inv, Placed
<1>3. SlotsFollow(i)
  <2>1. job[i] \in 0..MaxJobs /\ lock'[i] = s
    BY <1>1 DEF Inv, TypeOK
  <2> QED
    BY <2>1 DEF SlotsFollow, Reserve, Inv, TypeOK, Steps
<1>4. s # None
  BY JobIdAssumption
<1> QED
  BY <1>1, <1>2, <1>3, <1>4, MoveKeepsInv DEF Live

LEMMA RetryKeepsInv ==
  ASSUME Inv, NEW s \in Slots, Retry(s)
  PROVE  Inv'
<1> DEFINE i == hold[s][1]
<1>1. /\ i \in Ids /\ lock[i] = s /\ step[s] = "running"
      /\ UNCHANGED <<keep, job, ghost, unique, count, finished, stored, ended>>
      /\ lock' = [lock EXCEPT ![i] = None] /\ stage' = stage
      /\ hold' = hold /\ step' = [step EXCEPT ![s] = "retried"]
  BY SlotJob DEF Retry, Unmoved, Then, Mine, Inv
<1>2. status[i] = "processing"
  BY <1>1 DEF Inv, Held, Mine
<1>3. SlotsFollow(i)
  <2>1. lock'[i] = None
    BY <1>1 DEF Inv, TypeOK
  <2> QED
    BY <1>1, <2>1, JobIdAssumption DEF SlotsFollow, Inv, TypeOK, Steps
<1>4. PICK st \in {"waiting", "delayed"} : Move(i, st)
  BY DEF Retry
<1> HIDE DEF i
<1> QED
  BY <1>1, <1>2, <1>3, <1>4, MoveKeepsInv DEF Move, Live

LEMMA CheckStalledKeepsInv ==
  ASSUME Inv, NEW i \in Ids, CheckStalled(i)
  PROVE  Inv'
<1>1. /\ UNCHANGED <<keep, job, ghost, unique, stage, count, completed, hold, step, stored>>
      /\ lock' = [lock EXCEPT ![i] = None] /\ status[i] = "processing"
  BY DEF CheckStalled, slots
<1>2. CASE Move(i, "waiting") /\ UNCHANGED <<failed, ended>>
  <2>1. SlotsFollow(i)
    <3>1. lock'[i] = None
      BY <1>1 DEF Inv, TypeOK
    <3> QED
      BY <1>1, <3>1, JobIdAssumption DEF SlotsFollow, Inv, TypeOK
  <2> QED
    BY <1>1, <1>2, <2>1, MoveKeepsInv DEF Move, Live, finished
<1>3. CASE /\ Move(i, "failed")
           /\ failed' = failed \cup {i} /\ ended' = ended \cup {job[i]}
  <2>1. TypeOK'
    <3>1. status' \in [Ids -> Statuses] /\ lock' \in [Ids -> Slots \cup {None}]
      BY <1>1, <1>3 DEF Inv, TypeOK, Move, Statuses
    <3>2. job[i] \in 1..stored
      BY <1>1 DEF Inv, TypeOK, Numbered, Live
    <3> QED
      BY <1>1, <1>3, <3>1, <3>2 DEF Inv, TypeOK, Move
  <2>2. Numbered'
    BY <1>1, <1>3 DEF Inv, TypeOK, Numbered, Move, Live
  <2>3. Placed'
    BY <1>1, <1>3, JobIdAssumption DEF Inv, TypeOK, Placed, Move, Live, Burying
  <2>4. Held'
    BY <1>1, <1>3, SlotJob, JobIdAssumption DEF Inv, TypeOK, Held, Move, Mine
  <2>5. Keyed'
    BY <1>1, <1>3 DEF Inv, TypeOK, Keyed, Move
  <2>6. Covered'
    <3>1. Counted' \subseteq Counted
      BY <1>1, <1>3 DEF Inv, TypeOK, Counted, Move, Live, Burying
    <3> QED
      BY <1>1, <3>1, CoveredStill DEF Inv
  <2> QED
    BY <2>1, <2>2, <2>3, <2>4, <2>5, <2>6 DEF Inv
<1> QED
  BY <1>2, <1>3 DEF CheckStalled

-----------------------------------------------------------------------------
(* Ending. *)

\* A slot leaves its job alone, or goes on to record its failure.
SlotLeaves(s) ==
  /\ step[s] \in {"running", "retried"} \/ (step[s] = "burying" /\ ~Mine(s))
  /\ \/ Then(s, "idle")
     \/ step[s] = "running" /\ Then(s, "recording")
  /\ ghost' \subseteq {i \in Ids : job[i] = 0}
  /\ UNCHANGED <<keep, job, status, unique, group, delayed, stage, lock, count,
                 completed, failed, stored, ended>>

LEMMA SlotLeavesKeepsInv ==
  ASSUME Inv, NEW s \in Slots, SlotLeaves(s)
  PROVE  Inv'
<1>1. /\ UNCHANGED <<keep, job, status, unique, group, delayed, stage, lock, count,
                     completed, failed, stored, ended>>
      /\ ghost' \subseteq {i \in Ids : job[i] = 0}
  BY DEF SlotLeaves
<1>2. PICK st \in {"idle", "recording"} :
        /\ Then(s, st)
        /\ st = "recording" => step[s] = "running"
  BY DEF SlotLeaves
<1>3. /\ hold' \in [Slots -> Ids \X (0..MaxJobs)] /\ step' \in [Slots -> Steps]
      /\ \A t \in Slots \ {s} : hold'[t] = hold[t] /\ step'[t] = step[t]
      /\ step'[s] = st
      /\ st = "recording" => hold'[s] = hold[s]
      /\ st = "idle" => hold'[s] = Nobody
  BY <1>2, NobodyType DEF Then, Inv, TypeOK, Steps
<1>4. TypeOK'
  BY <1>1, <1>2, <1>3 DEF Inv, TypeOK
<1>5. Numbered' /\ Keyed'
  BY <1>1 DEF Inv, Numbered, Keyed
<1>6. \A k \in Ids : Burying(k) <=> Burying(k)'
  BY <1>1, <1>2, <1>3 DEF Burying, SlotLeaves, Mine
<1>7. Placed'
  BY <1>1, <1>6 DEF Inv, Placed
<1>8. Held'
  <2>1. stored \in Nat
    BY JobIdAssumption DEF Inv, TypeOK
  <2> QED
    BY <1>1, <1>2, <1>3, <2>1, NobodyType DEF Inv, Held, Mine
<1>9. Covered'
  <2>1. Counted' \subseteq Counted
    BY <1>1, <1>6 DEF Counted
  <2> QED
    BY <1>1, <2>1, CoveredStill DEF Inv
<1> QED
  BY <1>4, <1>5, <1>7, <1>8, <1>9 DEF Inv

LEMMA LeaveKeepsInv ==
  ASSUME Inv, NEW s \in Slots,
         FailFinally(s) \/ LockLost(s) \/ RecordAttempt(s) \/ Crash(s)
  PROVE  Inv'
<1>1. ghost \subseteq {i \in Ids : job[i] = 0} /\ hold[s][1] \in Ids
  BY SlotJob DEF Inv, TypeOK
<1>2. SlotLeaves(s)
  BY <1>1 DEF SlotLeaves, FailFinally, LockLost, RecordAttempt, Crash, Unmoved, places, finished
<1> QED
  BY <1>2, SlotLeavesKeepsInv

\* The job a slot has the token of while its handler runs, and after.
LEMMA OwnJob ==
  ASSUME Inv, NEW s \in Slots, step[s] \in {"running", "recording"}, Mine(s)
  PROVE  /\ hold[s][1] \in Ids /\ status[hold[s][1]] = "processing"
         /\ hold[s][2] = job[hold[s][1]] /\ hold[s][2] \in 1..stored \ ended
         /\ lock[hold[s][1]] = s /\ hold[s][1] \notin group \cup delayed
<1>1. hold[s][1] \in Ids
  BY SlotJob DEF Inv
<1>2. status[hold[s][1]] = "processing" /\ hold[s][2] = job[hold[s][1]]
  BY DEF Inv, Held
<1> QED
  BY <1>1, <1>2 DEF Inv, Numbered, Placed, TypeOK, Mine, Live

LEMMA CompleteKeepsInv ==
  ASSUME Inv, NEW s \in Slots, Complete(s)
  PROVE  Inv'
<1>0. PICK i \in Ids : i = hold[s][1]
  BY SlotJob DEF Inv
<1>1. /\ i \in Ids /\ status[i] = "processing" /\ lock[i] = s
      /\ job[i] \in 1..stored \ ended /\ hold[s][2] = job[i]
      /\ i \notin group \cup delayed
  BY <1>0, OwnJob DEF Complete
<1>2. PICK trimmed \in SUBSET (completed \cup {i}) :
       /\ keep["completed"] => trimmed # completed \cup {i}
       /\ ~keep["completed"] => trimmed = {i}
       /\ completed' = (completed \cup {i}) \ trimmed
       /\ job' = [k \in Ids |-> IF k \in trimmed THEN 0 ELSE job[k]]
       /\ status' = [k \in Ids |-> IF k \in trimmed THEN "none"
                                   ELSE IF k = i THEN "completed" ELSE status[k]]
       /\ unique' = unique \ trimmed
  BY <1>0 DEF Complete
<1>3. /\ lock' = [lock EXCEPT ![i] = None] /\ ended' = ended \cup {job[i]}
      /\ step[s] = "running" /\ step' = [step EXCEPT ![s] = "idle"]
      /\ hold' = [hold EXCEPT ![s] = Nobody]
      /\ UNCHANGED <<keep, ghost, group, delayed, stage, failed, stored>>
  BY <1>0, <1>1 DEF Complete, Then, places
<1>4. \A k \in trimmed : k \in Ids /\ (k = i \/ (status[k] = "completed" /\ job[k] # 0))
  BY <1>1, <1>2 DEF Inv, TypeOK, Keyed, Statuses
<1>5. \A k \in Ids : lock'[k] = IF k = i THEN None ELSE lock[k]
  BY <1>3 DEF Inv, TypeOK
<1>6. TypeOK'
  <2>1. /\ lock' \in [Ids -> Slots \cup {None}] /\ status' \in [Ids -> Statuses]
        /\ job' \in [Ids -> 0..MaxJobs] /\ count' \in Int
    <3>1. count' \in Int
      BY DEF Complete, CountLess, Inv, TypeOK
    <3> QED
      BY <1>1, <1>2, <1>3, <3>1, JobIdAssumption DEF Inv, TypeOK, Statuses
  <2>2. hold' \in [Slots -> Ids \X (0..MaxJobs)] /\ step' \in [Slots -> Steps]
    BY <1>3, NobodyType DEF Inv, TypeOK, Steps
  <2>3. \A k \in Ids : job'[k] = 0 <=> status'[k] = "none"
    BY <1>1, <1>2 DEF Inv, TypeOK
  <2>4. ghost' \subseteq {k \in Ids : job'[k] = 0}
    BY <1>2, <1>3 DEF Inv, TypeOK
  <2>5. \A t \in Slots : step'[t] # "idle" => hold'[t][2] # 0
    BY <1>3 DEF Inv, TypeOK
  <2>6. /\ keep' \in [{"completed", "failed"} -> BOOLEAN] /\ unique' \subseteq Ids
        /\ group' \cup delayed' \cup stage' \cup completed' \cup failed' \subseteq Ids
    BY <1>2, <1>3 DEF Inv, TypeOK
  <2>7. stored' \in 0..MaxJobs /\ ended' \subseteq 1..stored'
    BY <1>1, <1>3 DEF Inv, TypeOK
  <2> QED
    BY <2>1, <2>2, <2>3, <2>4, <2>5, <2>6, <2>7 DEF TypeOK
<1>7. Numbered'
  <2>1. \A k \in Ids : job'[k] <= stored' /\ (status'[k] \in Live <=> job'[k] # 0 /\ job'[k] \notin ended')
    BY <1>1, <1>2, <1>3, <1>4, JobIdAssumption DEF Inv, TypeOK, Numbered, Live
  <2>2. \A k, m \in Ids : job'[k] # 0 /\ job'[k] = job'[m] => k = m
    BY <1>2 DEF Inv, Numbered
  <2>3. ASSUME NEW n \in 1..stored' \ ended' PROVE \E k \in Ids : job'[k] = n
    <3>1. PICK k \in Ids : job[k] = n
      BY <1>3, <2>3 DEF Inv, Numbered
    <3>2. k \notin trimmed
      BY <1>3, <1>4, <2>3, <3>1 DEF Inv, Numbered, Live
    <3> QED
      BY <1>2, <3>1, <3>2
  <2> QED
    BY <2>1, <2>2, <2>3 DEF Numbered
<1>8. \A k \in Ids : Burying(k)' <=> Burying(k) /\ k # i
  <2>1. ~Burying(i)
    BY <1>1, <1>3 DEF Burying
  <2>2. \A k \in Ids \ {i} : Burying(k)' <=> Burying(k)
    BY <1>3, <1>5 DEF Burying, Inv, TypeOK
  <2>3. ~Burying(i)'
    BY <1>1, <1>5, JobIdAssumption DEF Burying
  <2> QED
    BY <2>1, <2>2, <2>3
<1>9. Placed'
  BY <1>1, <1>2, <1>3, <1>4, <1>5, <1>8 DEF Inv, Placed, Live
<1>10. Held'
  <2> SUFFICES ASSUME NEW t \in Slots
               PROVE  /\ hold'[t][2] <= stored'
                      /\ step'[t] \in {"running", "recording"} /\ Mine(t)'
                           => status'[hold'[t][1]] = "processing" /\ job'[hold'[t][1]] = hold'[t][2]
                      /\ step'[t] = "burying" /\ Mine(t)'
                           => status'[hold'[t][1]] \in {"none", "failed"} /\ hold'[t][2] \in ended'
    BY DEF Held
  <2>1. CASE t = s
    <3>1. hold'[t] = Nobody /\ step'[t] = "idle" /\ stored' \in Nat
      BY <1>3, <2>1 DEF Inv, TypeOK
    <3> QED
      BY <3>1, NobodyType
  <2>2. CASE t # s
    <3>1. /\ hold'[t] = hold[t] /\ step'[t] = step[t] /\ hold[t][1] \in Ids
          /\ hold[t][1] # i => (Mine(t)' <=> Mine(t))
          /\ hold[t][1] = i => ~Mine(t)'
      BY <1>3, <1>5, <2>2, SlotJob, JobIdAssumption DEF Inv, TypeOK, Mine
    <3>2. CASE hold[t][1] = i
      BY <1>3, <3>1, <3>2 DEF Inv, Held
    <3>3. CASE hold[t][1] # i
      BY <1>2, <1>3, <1>4, <3>1, <3>3 DEF Inv, Held
    <3> QED
      BY <3>2, <3>3
  <2> QED
    BY <2>1, <2>2
<1>11. Keyed'
  BY <1>1, <1>2, <1>3, <1>4 DEF Inv, Keyed, Placed, Live
<1>12. Covered'
  <2>1. i \in Counted
    BY <1>1 DEF Counted, Live
  <2>2. Counted' \subseteq Counted \ {i}
    BY <1>1, <1>2, <1>8 DEF Counted, Live
  <2>3. count' = count - 1
    <3>1. Cardinality({i}) = 1
      BY FS_Singleton
    <3>2. CountLess(1) = count - 1
      BY <2>1, <3>1, GroupStays DEF Inv
    <3> QED
      BY <3>2 DEF Complete
  <2> QED
    BY <2>1, <2>2, <2>3, CoveredWithout DEF Inv
<1> QED
  BY <1>6, <1>7, <1>9, <1>10, <1>11, <1>12 DEF Inv

LEMMA RecordFinalKeepsInv ==
  ASSUME Inv, NEW s \in Slots, RecordFinal(s)
  PROVE  Inv'
<1>0. PICK i \in Ids : i = hold[s][1]
  BY SlotJob DEF Inv
<1>1. /\ step[s] = "recording" /\ step' = [step EXCEPT ![s] = "burying"] /\ hold' = hold
      /\ UNCHANGED <<keep, group, delayed, stage, lock, count, completed, stored>>
      /\ RecordJobResult(i, hold[s][2], s)
  BY <1>0 DEF RecordFinal, Then, places
<1>2. step' \in [Slots -> Steps] /\ \A t \in Slots : step'[t] = IF t = s THEN "burying" ELSE step[t]
  BY <1>1 DEF Inv, TypeOK, Steps
<1>3. CASE lock[i] # s
  <2>1. UNCHANGED <<job, status, ghost, unique, failed, ended>>
    BY <1>1, <1>3 DEF RecordJobResult
  <2>2. TypeOK' /\ Numbered' /\ Keyed'
    BY <1>1, <1>2, <2>1 DEF Inv, TypeOK, Numbered, Keyed
  <2>3. \A k \in Ids : Burying(k) <=> Burying(k)'
    BY <1>0, <1>1, <1>2, <1>3 DEF Burying
  <2>4. Placed'
    BY <1>1, <2>1, <2>3 DEF Inv, Placed
  <2>5. Held'
    BY <1>0, <1>1, <1>2, <1>3, <2>1 DEF Inv, Held, Mine
  <2>6. Counted' \subseteq Counted
    BY <2>1, <2>3 DEF Counted
  <2> QED
    BY <1>1, <2>2, <2>4, <2>5, <2>6, CoveredStill DEF Inv
<1>4. CASE lock[i] = s
  <2>1. /\ status[i] = "processing" /\ hold[s][2] = job[i] /\ job[i] \in 1..stored \ ended
        /\ i \notin group \cup delayed /\ i \notin completed
    BY <1>0, <1>1, <1>4, OwnJob DEF Mine, Inv, Keyed
  <2>2. /\ ended' = ended \cup {job[i]} /\ failed' \subseteq failed \cup {i} /\ failed \subseteq failed'
        /\ \/ /\ status' = [status EXCEPT ![i] = "failed"] /\ i \in failed'
              /\ UNCHANGED <<job, ghost, unique>>
           \/ /\ job' = [job EXCEPT ![i] = 0] /\ status' = [status EXCEPT ![i] = "none"]
              /\ ghost' = ghost \ {i} /\ unique' = unique \ {i}
    BY <1>1, <1>4, <2>1 DEF RecordJobResult, Forget
  <2>3. /\ \A k \in Ids \ {i} : job'[k] = job[k] /\ status'[k] = status[k]
                                /\ (k \in unique' <=> k \in unique)
        /\ \/ status'[i] = "failed" /\ job'[i] = job[i] /\ i \in failed'
           \/ status'[i] = "none" /\ job'[i] = 0 /\ i \notin unique'
    BY <2>2 DEF Inv, TypeOK
  <2>4. TypeOK'
    <3>1. status' \in [Ids -> Statuses] /\ job' \in [Ids -> 0..MaxJobs]
      BY <2>2, JobIdAssumption DEF Inv, TypeOK, Statuses
    <3>2. \A k \in Ids : job'[k] = 0 <=> status'[k] = "none"
      BY <2>1, <2>3 DEF Inv, TypeOK
    <3>3. ghost' \subseteq {k \in Ids : job'[k] = 0} /\ unique' \subseteq Ids
      BY <2>2, <2>3 DEF Inv, TypeOK
    <3>4. \A t \in Slots : step'[t] # "idle" => hold'[t][2] # 0
      BY <1>1, <1>2 DEF Inv, TypeOK
    <3>5. ended' \subseteq 1..stored' /\ failed' \subseteq Ids
      BY <1>1, <2>1, <2>2 DEF Inv, TypeOK
    <3> QED
      BY <1>1, <1>2, <3>1, <3>2, <3>3, <3>4, <3>5 DEF Inv, TypeOK
  <2>5. Numbered'
    <3>1. \A k \in Ids : job'[k] <= stored' /\ (status'[k] \in Live <=> job'[k] # 0 /\ job'[k] \notin ended')
      <4>1. job'[i] <= stored' /\ status'[i] \notin Live /\ (job'[i] = 0 \/ job'[i] \in ended')
        BY <1>1, <2>1, <2>2, <2>3, JobIdAssumption DEF Inv, TypeOK, Live
      <4>2. \A k \in Ids \ {i} : job[k] # job[i]
        BY <2>1 DEF Inv, Numbered
      <4> QED
        BY <1>1, <2>2, <2>3, <4>1, <4>2 DEF Inv, Numbered
    <3>2. \A k, m \in Ids : job'[k] # 0 /\ job'[k] = job'[m] => k = m
      BY <2>3 DEF Inv, Numbered
    <3>3. \A n \in 1..stored' \ ended' : \E k \in Ids : job'[k] = n
      BY <1>1, <2>2, <2>3 DEF Inv, Numbered
    <3> QED
      BY <3>1, <3>2, <3>3 DEF Numbered
  <2>6. Burying(i)' /\ \A k \in Ids \ {i} : Burying(k)' <=> Burying(k)
    BY <1>0, <1>1, <1>2, <1>4 DEF Burying
  <2>7. Placed'
    BY <1>1, <2>1, <2>3, <2>6 DEF Inv, Placed, Live
  <2>8. Held'
    <3> SUFFICES ASSUME NEW t \in Slots
                 PROVE  /\ hold[t][2] <= stored
                        /\ step'[t] \in {"running", "recording"} /\ lock[hold[t][1]] = t
                             => status'[hold[t][1]] = "processing" /\ job'[hold[t][1]] = hold[t][2]
                        /\ step'[t] = "burying" /\ lock[hold[t][1]] = t
                             => status'[hold[t][1]] \in {"none", "failed"} /\ hold[t][2] \in ended'
      BY <1>1 DEF Held, Mine
    <3>1. CASE t = s
      BY <1>0, <1>1, <1>2, <2>1, <2>2, <2>3, <3>1 DEF Inv, Held
    <3>2. CASE t # s
      <4>1. hold[t][1] \in Ids
        BY SlotJob DEF Inv
      <4> QED
        BY <1>2, <1>4, <2>2, <2>3, <3>2, <4>1 DEF Inv, Held, Mine
    <3> QED
      BY <3>1, <3>2
  <2>9. Keyed'
    BY <1>1, <2>1, <2>2, <2>3 DEF Inv, Keyed
  <2>10. Counted' \subseteq Counted
    BY <2>1, <2>3, <2>6 DEF Counted, Live
  <2> QED
    BY <1>1, <2>4, <2>5, <2>7, <2>8, <2>9, <2>10, CoveredStill DEF Inv
<1> QED
  BY <1>3, <1>4

LEMMA DeadLetterKeepsInv ==
  ASSUME Inv, NEW s \in Slots, DeadLetter(s)
  PROVE  Inv'
<1>0. PICK i \in Ids : i = hold[s][1]
  BY SlotJob DEF Inv
<1>1. /\ step[s] = "burying" /\ Then(s, "idle") /\ Bury(i, hold[s][2], s)
      /\ UNCHANGED <<keep, job, status, ghost, stage, completed, failed, stored>>
  BY <1>0 DEF DeadLetter, finished
<1>2. CASE lock[i] # s
  <2>1. SlotLeaves(s)
    BY <1>0, <1>1, <1>2 DEF SlotLeaves, Bury, Mine, Inv, TypeOK
  <2> QED
    BY <2>1, SlotLeavesKeepsInv
<1>3. CASE lock[i] = s
  <2>1. /\ status[i] \in {"none", "failed"} /\ hold[s][2] \in ended
        /\ i \notin group /\ i \notin delayed /\ i \notin completed
    BY <1>0, <1>1, <1>3 DEF Inv, Held, Placed, Keyed, Mine
  <2>2. i \in Counted
    BY <1>0, <1>1, <1>3 DEF Counted, Burying
  <2>3. GroupLess(1, group \ {i}) = group \ {i} /\ CountLess(1) = count - 1
    <3>1. Cardinality({i}) = 1
      BY FS_Singleton
    <3> QED
      BY <2>2, <3>1, GroupStays DEF Inv
  <2>4. /\ group' = group /\ delayed' = delayed /\ count' = count - 1
        /\ lock' = [lock EXCEPT ![i] = None] /\ unique' = unique \ {i} /\ ended' = ended
    BY <1>1, <1>3, <2>1, <2>3 DEF Bury
  <2>5. /\ \A t \in Slots \ {s} : step'[t] = step[t] /\ hold'[t] = hold[t]
        /\ step'[s] = "idle" /\ hold'[s] = Nobody
        /\ hold' \in [Slots -> Ids \X (0..MaxJobs)] /\ step' \in [Slots -> Steps]
    BY <1>1, NobodyType DEF Then, Inv, TypeOK, Steps
  <2>6. \A k \in Ids : lock'[k] = IF k = i THEN None ELSE lock[k]
    BY <2>4 DEF Inv, TypeOK
  <2>7. TypeOK'
    <3>1. lock' \in [Ids -> Slots \cup {None}] /\ count' \in Int /\ unique' \subseteq Ids
      BY <2>4 DEF Inv, TypeOK
    <3>2. \A t \in Slots : step'[t] # "idle" => hold'[t][2] # 0
      BY <2>5 DEF Inv, TypeOK
    <3> QED
      BY <1>1, <2>4, <2>5, <3>1, <3>2 DEF Inv, TypeOK
  <2>8. Numbered'
    BY <1>1, <2>4 DEF Inv, Numbered
  <2>9. Burying(i)' = FALSE /\ \A k \in Ids \ {i} : Burying(k)' <=> Burying(k)
    <3>1. ~Burying(i)'
      BY <2>6, JobIdAssumption DEF Burying
    <3>2. \A k \in Ids \ {i} : Burying(k)' <=> Burying(k)
      BY <1>0, <2>5, <2>6 DEF Burying
    <3> QED
      BY <3>1, <3>2
  <2>10. Placed'
    BY <1>1, <2>1, <2>4, <2>6, <2>9 DEF Inv, Placed, Live
  <2>11. Held'
    <3> SUFFICES ASSUME NEW t \in Slots
                 PROVE  /\ hold'[t][2] <= stored'
                        /\ step'[t] \in {"running", "recording"} /\ Mine(t)'
                             => status'[hold'[t][1]] = "processing" /\ job'[hold'[t][1]] = hold'[t][2]
                        /\ step'[t] = "burying" /\ Mine(t)'
                             => status'[hold'[t][1]] \in {"none", "failed"} /\ hold'[t][2] \in ended'
      BY DEF Held
    <3>1. CASE t = s
      <4>1. hold'[t][2] = 0 /\ step'[t] = "idle" /\ stored' \in Nat
        BY <1>1, <2>5, <3>1, NobodyType DEF Inv, TypeOK
      <4> QED
        BY <4>1
    <3>2. CASE t # s
      <4>1. Mine(t)' => Mine(t)
        BY <2>5, <2>6, <3>2, SlotJob, JobIdAssumption DEF Mine, Inv
      <4> QED
        BY <1>1, <2>4, <2>5, <3>2, <4>1 DEF Inv, Held
    <3> QED
      BY <3>1, <3>2
  <2>12. Keyed'
    BY <1>1, <2>1, <2>4 DEF Inv, Keyed
  <2>13. Covered'
    <3>1. Counted' \subseteq Counted \ {i}
      BY <1>1, <2>1, <2>9 DEF Counted, Live
    <3> QED
      BY <2>2, <2>4, <3>1, CoveredWithout DEF Inv
  <2> QED
    BY <2>7, <2>8, <2>10, <2>11, <2>12, <2>13 DEF Inv
<1> QED
  BY <1>2, <1>3

-----------------------------------------------------------------------------
(* Removing. *)

\* The hashes and keys of S are deleted, and S leaves every set but the staging
\* set and perhaps the failed one; an id whose lock stays is being buried.
LEMMA DeleteKeepsInv ==
  ASSUME Inv, NEW S \in SUBSET Ids,
         job' = [i \in Ids |-> IF i \in S THEN 0 ELSE job[i]],
         status' = [i \in Ids |-> IF i \in S THEN "none" ELSE status[i]],
         unique' = unique \ S, ghost' \subseteq ghost,
         group' = group \ S, delayed' = delayed \ S, completed' = completed \ S,
         failed' \subseteq failed, failed \ S \subseteq failed',
         lock' \in [Ids -> Slots \cup {None}],
         \A i \in Ids : \/ lock'[i] = lock[i] /\ (i \in S => status[i] # "processing")
                        \/ lock'[i] = None /\ i \in S,
         count' = count - Cardinality({i \in S : status[i] \in Live}),
         ended' = ended \cup {job[i] : i \in {k \in S : job[k] # 0}},
         UNCHANGED <<keep, stage, hold, step, stored>>
  PROVE  Inv'
<1> DEFINE T == {i \in S : status[i] \in Live}
<1>1. T \subseteq Counted
  BY DEF Counted
<1>2. TypeOK'
  <2>1. count' \in Int
    <3>1. count \in Int /\ Cardinality(T) \in Nat
      BY <1>1, CountedLess DEF Inv
    <3> QED
      BY <3>1
  <2>2. /\ job' \in [Ids -> 0..MaxJobs] /\ status' \in [Ids -> Statuses]
        /\ \A i \in Ids : job'[i] = 0 <=> status'[i] = "none"
    BY JobIdAssumption DEF Inv, TypeOK, Statuses
  <2>3. ghost' \subseteq {i \in Ids : job'[i] = 0} /\ unique' \subseteq Ids
    BY DEF Inv, TypeOK
  <2>4. group' \cup delayed' \cup stage' \cup completed' \cup failed' \subseteq Ids
    BY DEF Inv, TypeOK
  <2>5. ended' \subseteq 1..stored'
    <3>1. \A i \in Ids : job[i] # 0 => job[i] \in 1..stored
      BY DEF Inv, TypeOK, Numbered
    <3>2. ended \subseteq 1..stored /\ stored' = stored
      BY DEF Inv, TypeOK
    <3>3. {job[i] : i \in {k \in S : job[k] # 0}} \subseteq 1..stored
      BY <3>1
    <3> QED
      BY <3>2, <3>3
  <2> QED
    BY <2>1, <2>2, <2>3, <2>4, <2>5 DEF Inv, TypeOK
<1>3. Numbered'
  <2>1. \A i \in Ids \ S : job[i] # 0 => (job[i] \in ended' <=> job[i] \in ended)
    BY DEF Inv, Numbered
  <2>2. \A i \in Ids : job'[i] <= stored' /\ (status'[i] \in Live <=> job'[i] # 0 /\ job'[i] \notin ended')
    BY <2>1, JobIdAssumption DEF Inv, TypeOK, Numbered, Live
  <2>3. \A i, k \in Ids : job'[i] # 0 /\ job'[i] = job'[k] => i = k
    BY DEF Inv, Numbered
  <2>4. ASSUME NEW n \in 1..stored' \ ended' PROVE \E i \in Ids : job'[i] = n
    <3>1. PICK i \in Ids : job[i] = n
      BY <2>4 DEF Inv, Numbered
    <3>2. i \notin S
      BY <2>4, <3>1 DEF Inv, TypeOK
    <3> QED
      BY <3>1, <3>2
  <2> QED
    BY <2>2, <2>3, <2>4 DEF Numbered
<1>4. \A i \in Ids : lock'[i] # None => (Burying(i)' <=> Burying(i))
  BY DEF Burying
<1>5. \A i \in Ids : Burying(i)' => Burying(i)
  BY JobIdAssumption DEF Burying
<1>6. Placed'
  BY <1>4 DEF Inv, Placed, Live
<1>7. Held'
  <2> SUFFICES ASSUME NEW s \in Slots
               PROVE  /\ hold[s][2] <= stored
                      /\ step[s] \in {"running", "recording"} /\ lock'[hold[s][1]] = s
                           => status'[hold[s][1]] = "processing" /\ job'[hold[s][1]] = hold[s][2]
                      /\ step[s] = "burying" /\ lock'[hold[s][1]] = s
                           => status'[hold[s][1]] \in {"none", "failed"} /\ hold[s][2] \in ended'
    BY DEF Held, Mine
  <2>1. hold[s][1] \in Ids /\ (lock'[hold[s][1]] = s => Mine(s))
    BY SlotJob, JobIdAssumption DEF Inv, Mine
  <2> QED
    BY <2>1, JobIdAssumption DEF Inv, Held, Mine
<1>8. Keyed'
  BY DEF Inv, Keyed
<1>9. Covered'
  <2>1. Counted' \subseteq Counted \ T
    <3>1. ASSUME NEW i \in Ids, i \in T PROVE ~Burying(i)'
      <4>1. lock[i] = None \/ status[i] = "processing"
        BY <3>1, WaitingIsFree
      <4>2. lock'[i] = None
        BY <3>1, <4>1
      <4> QED
        BY <4>2, JobIdAssumption DEF Burying
    <3> QED
      BY <1>5, <3>1 DEF Counted, Live
  <2> QED
    BY <1>1, <2>1, CoveredAfter DEF Inv
<1> QED
  BY <1>2, <1>3, <1>6, <1>7, <1>8, <1>9 DEF Inv

LEMMA RemoveKeepsInv ==
  ASSUME Inv, NEW i \in Ids, Remove(i)
  PROVE  Inv'
<1> DEFINE n == IF status[i] \in {"completed", "failed"} THEN 0 ELSE 1
           T == {k \in {i} : status[k] \in Live}
<1>1. /\ job' = [k \in Ids |-> IF k \in {i} THEN 0 ELSE job[k]]
      /\ status' = [k \in Ids |-> IF k \in {i} THEN "none" ELSE status[k]]
      /\ unique' = unique \ {i} /\ ghost' \subseteq ghost
      /\ delayed' = delayed \ {i} /\ completed' = completed \ {i} /\ failed' = failed \ {i}
      /\ UNCHANGED <<keep, stage, hold, step, stored>>
  BY DEF Remove, Forget, Inv, TypeOK, slots
<1>2. /\ lock' \in [Ids -> Slots \cup {None}] /\ lock'[i] = None
      /\ \A k \in Ids \ {i} : lock'[k] = lock[k]
  BY DEF Remove, Inv, TypeOK
<1>3. Cardinality({i}) = 1 /\ Cardinality({}) = 0
  BY FS_Singleton, FS_EmptySet
<1>4. /\ group' = group \ {i} /\ count' = count - Cardinality(T)
      /\ ended' = ended \cup {job[k] : k \in {m \in {i} : job[m] # 0}}
  <2>1. CASE job[i] = 0
    <3>1. i \notin group /\ T = {} /\ count - 0 = count
      BY <2>1 DEF Inv, TypeOK, Placed, Live
    <3> QED
      BY <1>3, <2>1, <3>1 DEF Remove
  <2>2. CASE job[i] # 0
    <3>1. group' = GroupLess(n, group \ {i}) /\ count' = CountLess(n) /\ ended' = ended \cup {job[i]}
      BY <2>2 DEF Remove
    <3>2. T \subseteq Counted /\ n = Cardinality(T) /\ group \ {i} \subseteq group \ T
      <4>1. status[i] \in Live <=> status[i] \notin {"completed", "failed"}
        BY <2>2 DEF Inv, TypeOK, Statuses, Live
      <4> QED
        BY <1>3, <4>1 DEF Counted
    <3>3. GroupLess(n, group \ {i}) = group \ {i} /\ CountLess(n) = count - n
      BY <3>2, GroupStays DEF Inv
    <3> QED
      BY <2>2, <3>1, <3>2, <3>3
  <2> QED
    BY <2>1, <2>2
<1>5. PICK S \in SUBSET Ids : S = {i}
  OBVIOUS
<1>6. /\ failed' \subseteq failed /\ failed \ S \subseteq failed'
      /\ \A k \in Ids : \/ lock'[k] = lock[k] /\ (k \in S => status[k] # "processing")
                        \/ lock'[k] = None /\ k \in S
  BY <1>1, <1>2, <1>5
<1>7. T = {k \in S : status[k] \in Live}
  BY <1>5
<1>8. /\ group' = group \ S /\ count' = count - Cardinality({k \in S : status[k] \in Live})
      /\ ended' = ended \cup {job[k] : k \in {m \in S : job[m] # 0}}
  BY <1>4, <1>5, <1>7
<1>9. /\ job' = [k \in Ids |-> IF k \in S THEN 0 ELSE job[k]]
      /\ status' = [k \in Ids |-> IF k \in S THEN "none" ELSE status[k]]
      /\ unique' = unique \ S /\ ghost' \subseteq ghost
      /\ delayed' = delayed \ S /\ completed' = completed \ S
      /\ UNCHANGED <<keep, stage, hold, step, stored>>
  BY <1>1, <1>5
<1> HIDE DEF n, T
<1> QED
  BY <1>2, <1>6, <1>8, <1>9, DeleteKeepsInv

LEMMA CleanKeepsInv ==
  ASSUME Inv, NEW st \in {"completed", "failed", "delayed"}, Clean(st)
  PROVE  Inv'
<1> DEFINE from == CASE st = "completed" -> completed [] st = "failed" -> failed
                     [] st = "delayed" -> delayed
<1>1. PICK S \in SUBSET {i \in from : status[i] = st} :
        LET n == IF st = "delayed" THEN Cardinality(S) ELSE 0 IN
        /\ completed' = IF st = "completed" THEN completed \ S ELSE completed
        /\ failed' = IF st = "failed" THEN failed \ S ELSE failed
        /\ delayed' = IF st = "delayed" THEN delayed \ S ELSE delayed
        /\ group' = GroupLess(n, group \ S) /\ count' = CountLess(n)
        /\ job' = [i \in Ids |-> IF i \in S THEN 0 ELSE job[i]]
        /\ status' = [i \in Ids |-> IF i \in S THEN "none" ELSE status[i]]
        /\ unique' = unique \ S /\ ended' = ended \cup {job[i] : i \in S}
        /\ UNCHANGED <<keep, ghost, stage, lock, stored, slots>>
  BY DEF Clean
<1> DEFINE n == IF st = "delayed" THEN Cardinality(S) ELSE 0
           T == {i \in S : status[i] \in Live}
<1>2. S \subseteq Ids /\ \A i \in S : status[i] = st /\ job[i] # 0
  BY <1>1 DEF Inv, TypeOK
<1>3. T \subseteq Counted /\ n = Cardinality(T) /\ group \ S \subseteq group \ T
  <2>1. T = IF st = "delayed" THEN S ELSE {}
    BY <1>2 DEF Live
  <2> QED
    BY <1>2, <2>1, FS_EmptySet DEF Counted
<1>4. GroupLess(n, group \ S) = group \ S /\ CountLess(n) = count - n
  BY <1>3, GroupStays DEF Inv
<1>5. group' = group \ S /\ count' = count - Cardinality(T)
  BY <1>1, <1>3, <1>4
<1>6. /\ delayed' = delayed \ S /\ completed' = completed \ S
      /\ failed' \subseteq failed /\ failed \ S \subseteq failed'
  BY <1>1, <1>2 DEF Inv, Placed, Keyed
<1>7. ended' = ended \cup {job[i] : i \in {k \in S : job[k] # 0}}
  BY <1>1, <1>2
<1>8. \A i \in Ids : lock'[i] = lock[i] /\ (i \in S => status[i] # "processing")
  BY <1>1, <1>2
<1>9. /\ job' = [i \in Ids |-> IF i \in S THEN 0 ELSE job[i]]
      /\ status' = [i \in Ids |-> IF i \in S THEN "none" ELSE status[i]]
      /\ unique' = unique \ S /\ ghost' \subseteq ghost
      /\ lock' \in [Ids -> Slots \cup {None}]
      /\ UNCHANGED <<keep, stage, hold, step, stored>>
  BY <1>1 DEF Inv, TypeOK, slots
<1> HIDE DEF from, n
<1> QED
  BY <1>2, <1>5, <1>6, <1>7, <1>8, <1>9, DeleteKeepsInv

-----------------------------------------------------------------------------
(* The theorems. *)

LEMMA StutterKeepsInv == Inv /\ UNCHANGED vars => Inv'
BY DEF Inv, TypeOK, Numbered, Placed, Held, Keyed, Covered, Counted, Burying, Mine,
       vars, places, finished, slots

\* Every step of every actor keeps the invariant, so it holds in every state.
THEOREM Inductive == Spec => []Inv
<1>1. Init => Inv
  BY InitInv
<1>2. Inv /\ [Next]_vars => Inv'
  <2> SUFFICES ASSUME Inv, [Next]_vars PROVE Inv'
    OBVIOUS
  <2>1. ASSUME NEW i \in Ids, Add(i) \/ AddBatch(i) PROVE Inv'
    BY <2>1, AddKeepsInv
  <2>2. ASSUME NEW i \in Ids, PromoteDelayed(i) \/ PromoteStaged(i) \/ ChangeDelay(i) PROVE Inv'
    BY <2>2, PromoteKeepsInv
  <2>3. ASSUME NEW i \in Ids, CheckStalled(i) PROVE Inv'
    BY <2>3, CheckStalledKeepsInv
  <2>4. ASSUME NEW i \in Ids, Remove(i) PROVE Inv'
    BY <2>4, RemoveKeepsInv
  <2>5. ASSUME NEW s \in Slots, NEW i \in Ids, Reserve(s, i) PROVE Inv'
    BY <2>5, ReserveKeepsInv
  <2>6. ASSUME NEW s \in Slots, Complete(s) PROVE Inv'
    BY <2>6, CompleteKeepsInv
  <2>7. ASSUME NEW s \in Slots, Retry(s) PROVE Inv'
    BY <2>7, RetryKeepsInv
  <2>8. ASSUME NEW s \in Slots, FailFinally(s) \/ LockLost(s) \/ RecordAttempt(s) \/ Crash(s)
        PROVE Inv'
    BY <2>8, LeaveKeepsInv
  <2>9. ASSUME NEW s \in Slots, RecordFinal(s) PROVE Inv'
    BY <2>9, RecordFinalKeepsInv
  <2>10. ASSUME NEW s \in Slots, DeadLetter(s) PROVE Inv'
    BY <2>10, DeadLetterKeepsInv
  <2>11. ASSUME NEW st \in {"completed", "failed", "delayed"}, Clean(st) PROVE Inv'
    BY <2>11, CleanKeepsInv
  <2>12. CASE UNCHANGED vars
    BY <2>12, StutterKeepsInv
  <2> QED
    BY <2>1, <2>2, <2>3, <2>4, <2>5, <2>6, <2>7, <2>8, <2>9, <2>10, <2>11, <2>12 DEF Next
<1> QED
  BY <1>1, <1>2, PTL DEF Spec

\* Every variable of JobId holds what its key can hold.
THEOREM TypeCorrect == Spec => []TypeOK
<1>1. Inv => TypeOK
  BY DEF Inv
<1> QED
  BY <1>1, Inductive, PTL

\* No job that has not ended loses its hash, its key or its place to an add of
\* its id, to a late call for an earlier job of the id, or to a removal of one.
THEOREM NoJobIsLost == Spec => []NoneLost
<1>1. Inv => NoneLost
  <2> SUFFICES ASSUME Inv, NEW k \in 1..stored \ ended
               PROVE  \E i \in Ids :
                        /\ job[i] = k /\ i \in unique /\ i \in In(status[i])
                        /\ \A st \in Statuses \ {status[i], "staged"} : i \notin In(st)
    BY DEF NoneLost
  <2>1. PICK i \in Ids : job[i] = k
    BY DEF Inv, Numbered
  <2>2. status[i] \in Live
    BY <2>1 DEF Inv, Numbered, TypeOK
  <2>3. i \in unique /\ i \in In(status[i])
    BY <2>2 DEF Inv, Placed, In, Live
  <2>4. status[i] = "processing" <=> lock[i] # None
    BY <2>2, WaitingIsFree DEF Inv, Placed
  <2>5. \A st \in Statuses \ {status[i], "staged"} : i \notin In(st)
    BY <2>4 DEF Inv, Placed, In, Statuses
  <2> QED
    BY <2>1, <2>3, <2>5
<1> QED
  BY <1>1, Inductive, PTL

\* A job that has ended is never handed out again, whatever stale entries of the
\* staging set, retries and recoveries its id has.
THEOREM NoJobReturns == Spec => []NoneReturns
<1>1. Inv => NoneReturns
  BY DEF Inv, Numbered, Placed, NoneReturns, In, Live, TypeOK
<1> QED
  BY <1>1, Inductive, PTL

\* Every key that makes an add be ignored stands for a job that has not ended or
\* that is kept.
THEOREM NoKeyIsStale == Spec => []KeysHaveJobs
<1>1. Inv => KeysHaveJobs
  BY DEF Inv, TypeOK, Statuses, Numbered, Keyed, KeysHaveJobs, Live
<1> QED
  BY <1>1, Inductive, PTL
=============================================================================
