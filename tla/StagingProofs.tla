---------------------------- MODULE StagingProofs ----------------------------
(***************************************************************************)
(* That the ordering delay orders: the jobs of a group are taken by their  *)
(* orderMs for every number of jobs, promoters and calls, however locks    *)
(* run out and processes die, as long as no producer is later and no clock *)
(* further ahead than the delay leaves.                                    *)
(***************************************************************************)
EXTENDS Staging, TLAPS, FiniteSetTheorems

-----------------------------------------------------------------------------
(* Types.                                                                  *)

\* What the starts of a promoter are bounded by: one at first, and one for each time it
\* was brought down.
StartsCounted ==
  \A p \in Promoters :
    /\ epoch[p] \in 1..upsets + 1 /\ starting[p] <= epoch[p]
    /\ ~running[p] => epoch[p] <= upsets

\* TypeOK with the count of starts it needs.
TypeInv == TypeOK /\ StartsCounted

\* The constants that are numbers.
LEMMA Numbers ==
  /\ Delay \in Nat \ {0} /\ Latency \in Nat /\ Skew \in Nat /\ MaxTime \in Nat
  /\ MaxAdds \in Nat /\ MaxUpsets \in Nat
  /\ Ttl \in Nat \ {0} /\ Limit \in Nat \ {0} /\ SeqBase \in Nat \ {0}
  /\ Orders \subseteq Nat
BY StagingAssumption

\* orderMs and its sum with the delay are numbers.
LEMMA OrderTypes ==
  ASSUME TypeOK, NEW j \in Jobs
  PROVE  order[j] \in Nat /\ score[j] \in Nat /\ stage[j] \in Nat
<1>1. order[j] \in Orders \cup {0} /\ score[j] \in Nat /\ stage[j] \in Nat
  BY DEF TypeOK
<1>2. Orders \cup {0} \subseteq Nat
  BY Numbers
<1> QED
  BY <1>1, <1>2, Zenon

\* A score is a number, and a millisecond weighs more than all the sequence numbers
\* below SeqBase.
LEMMA Products ==
  /\ \A a, b \in Nat : a * b \in Nat
  /\ \A a, b, c \in Nat : a < b => a * c + c <= b * c
<1>1. \A a, b \in Nat : a * b \in Nat
  OBVIOUS
<1>2. ASSUME NEW a \in Nat, NEW b \in Nat, NEW c \in Nat, a < b
      PROVE  a * c + c <= b * c
  <2>1. PICK d \in Nat : b = a + 1 + d
    <3>1. b - a - 1 \in Nat /\ b = a + 1 + (b - a - 1)
      BY <1>2
    <3> QED
      BY <3>1
  <2>2. b * c = a * c + c + d * c
    BY <2>1
  <2>3. d * c \in Nat /\ a * c \in Nat
    BY <1>1
  <2> QED
    BY <2>2, <2>3
<1> QED
  BY <1>1, <1>2

\* enqueue.lua writes numbers.
LEMMA AddKeepsTypes ==
  ASSUME TypeInv, NEW j \in Jobs, NEW o \in Orders, Add(j, o)
  PROVE  TypeInv'
<1>1. /\ status[j] \in {"new", "staged", "removed"}
      /\ seq < MaxAdds /\ seq' = seq + 1
      /\ order' = [order EXCEPT ![j] = o]
      /\ score' = [score EXCEPT ![j] = o * SeqBase + seq']
      /\ status' = [status EXCEPT ![j] = "staged"]
      /\ stage' = [stage EXCEPT ![j] = o + Delay]
      /\ UNCHANGED <<clock, lock, promoter, call, served, upsets>>
  BY DEF Add
<1>2. seq' \in 0..MaxAdds /\ seq' \in Nat
  BY <1>1, Numbers DEF TypeInv, TypeOK
<1>3. o * SeqBase + seq' \in Nat
  <2>1. o * SeqBase \in Nat
    BY Numbers, Products
  <2> QED
    BY <1>2, <2>1
<1>4. o \in Nat /\ o + Delay \in Nat
  BY Numbers
<1>5. /\ order' \in [Jobs -> Orders \cup {0}] /\ score' \in [Jobs -> Nat]
      /\ stage' \in [Jobs -> Nat]
      /\ status' \in [Jobs -> {"new", "staged", "waiting", "taken", "removed"}]
  <2> HIDE DEF TypeInv
  <2>1. /\ order \in [Jobs -> Orders \cup {0}] /\ score \in [Jobs -> Nat]
        /\ stage \in [Jobs -> Nat]
        /\ status \in [Jobs -> {"new", "staged", "waiting", "taken", "removed"}]
    BY DEF TypeInv, TypeOK
  <2> QED
    BY <1>1, <1>3, <1>4, <2>1
<1>6. \A k \in Jobs : status'[k] = "staged" => stage'[k] = order'[k] + Delay
  BY <1>1 DEF TypeInv, TypeOK
<1>7. \A k \in Jobs : status'[k] \in {"waiting", "taken"} => stage'[k] = 0
  BY <1>1 DEF TypeInv, TypeOK
<1> QED
  BY <1>1, <1>2, <1>5, <1>6, <1>7 DEF TypeInv, TypeOK, StartsCounted, promoter

\* promote-staged.lua
LEMMA PromoteKeepsTypes ==
  ASSUME TypeInv, NEW c \in Calls, Promote(c)
  PROVE  TypeInv'
<1>1. PICK ahead \in 0..Skew : PromoteStaged(clock + ahead)
  BY DEF Promote
<1> DEFINE moved == {j \in Due(clock + ahead) : status[j] = "staged"}
<1>2. /\ status' = [j \in Jobs |-> IF j \in moved THEN "waiting" ELSE status[j]]
      /\ stage' = [j \in Jobs |-> IF j \in moved THEN 0 ELSE stage[j]]
      /\ UNCHANGED <<order, score, seq, served>>
  BY <1>1 DEF PromoteStaged
<1>3. call' = [call EXCEPT ![c] = "promoted"] /\ UNCHANGED <<clock, lock, promoter, upsets>>
  BY DEF Promote, Goto
<1> HIDE DEF moved
<1> QED
  BY <1>2, <1>3 DEF TypeInv, TypeOK, StartsCounted, promoter

\* A step of a promoter's life.
LEMMA PromoterKeepsTypes ==
  ASSUME TypeInv, NEW p \in Promoters,
         Start(p) \/ Started(p) \/ StartFails(p) \/ Stop(p) \/ Crash(p)
  PROVE  TypeInv'
<1>1. CASE Start(p)
  BY <1>1, Numbers DEF Start, TypeInv, TypeOK, StartsCounted, jobs
<1>2. CASE Started(p)
  BY <1>2, Numbers DEF Started, TypeInv, TypeOK, StartsCounted, jobs
<1>3. CASE StartFails(p)
  BY <1>3, Numbers DEF StartFails, Upset, TypeInv, TypeOK, StartsCounted, jobs
<1>4. CASE Stop(p)
  BY <1>4, Numbers DEF Stop, Upset, TypeInv, TypeOK, StartsCounted, jobs
<1>5. CASE Crash(p)
  BY <1>5, Numbers DEF Crash, Upset, TypeInv, TypeOK, StartsCounted, jobs
<1> QED
  BY <1>1, <1>2, <1>3, <1>4, <1>5

\* The steps of a call other than the script.
LEMMA CallKeepsTypes ==
  ASSUME TypeInv, NEW c \in Calls,
         RunPromotion(c) \/ ReadLock(c) \/ DeleteLock(c) \/ CallFails(c)
  PROVE  TypeInv'
<1>1. CASE RunPromotion(c)
  <2>1. CallerOf[c] \in Promoters
    BY StagingAssumption
  <2>2. epoch[CallerOf[c]] \in 1..MaxUpsets + 1
    BY <2>1, Numbers DEF TypeInv, TypeOK, StartsCounted
  <2>3. lock' = [by |-> <<CallerOf[c], epoch[CallerOf[c]]>>, ttl |-> Ttl]
    BY <1>1 DEF RunPromotion
  <2>4. lock' \in [by : Promoters \X (1..MaxUpsets + 1), ttl : 1..Ttl]
    BY <2>1, <2>2, <2>3, Numbers
  <2> QED
    BY <1>1, <2>4 DEF RunPromotion, Goto, TypeInv, TypeOK, StartsCounted, jobs, promoter
<1>2. CASE ReadLock(c) \/ DeleteLock(c)
  BY <1>2 DEF ReadLock, DeleteLock, Goto, TypeInv, TypeOK, StartsCounted, jobs, promoter
<1>3. CASE CallFails(c)
  BY <1>3, Numbers
    DEF CallFails, Upset, Goto, TypeInv, TypeOK, StartsCounted, jobs, promoter
<1> QED
  BY <1>1, <1>2, <1>3

\* Removal, reservation and the clock.
LEMMA RestKeepsTypes ==
  ASSUME TypeInv, Tick \/ \E j \in Jobs : Remove(j) \/ Take(j)
  PROVE  TypeInv'
<1>1. CASE Tick
  <2>1. clock' \in 0..MaxTime
    BY <1>1, Numbers DEF Tick, TypeInv, TypeOK
  <2>2. lock' \in [by : Promoters \X (1..MaxUpsets + 1), ttl : 1..Ttl] \cup {Unlocked}
    <3>1. lock' = IF lock.ttl <= 1 THEN Unlocked ELSE [lock EXCEPT !.ttl = @ - 1]
      BY <1>1 DEF Tick
    <3>2. CASE lock = Unlocked
      BY <3>1, <3>2 DEF Unlocked
    <3>3. CASE lock \in [by : Promoters \X (1..MaxUpsets + 1), ttl : 1..Ttl]
      BY <3>1, <3>3, Numbers
    <3> QED
      BY <3>2, <3>3 DEF TypeInv, TypeOK
  <2> QED
    BY <1>1, <2>1, <2>2 DEF Tick, TypeInv, TypeOK, StartsCounted, jobs, promoter
<1>2. ASSUME NEW j \in Jobs, Remove(j)
      PROVE  TypeInv'
  BY <1>2 DEF Remove, TypeInv, TypeOK, StartsCounted, promoter
<1>3. ASSUME NEW j \in Jobs, Take(j)
      PROVE  TypeInv'
  BY <1>3 DEF Take, TypeInv, TypeOK, StartsCounted, promoter
<1> QED
  BY <1>1, <1>2, <1>3

\* All variables keep their types.
LEMMA TypeInvariance == Spec => []TypeInv
<1>1. Init => TypeInv
  BY Numbers DEF Init, TypeInv, TypeOK, StartsCounted
<1>2. TypeInv /\ [Next]_vars => TypeInv'
  <2>1. CASE Next
    BY <2>1, AddKeepsTypes, PromoteKeepsTypes, PromoterKeepsTypes, CallKeepsTypes,
       RestKeepsTypes DEF Next, Work
  <2>2. CASE UNCHANGED vars
    BY <2>2 DEF TypeInv, TypeOK, StartsCounted, vars, jobs, promoter
  <2> QED
    BY <2>1, <2>2
<1> QED
  BY <1>1, <1>2, PTL DEF Spec

\* Every variable keeps its type; the starts of a promoter stay within what its upsets
\* allow, and an entry of the staging set is due when the script will look for it.
THEOREM TypeCorrect == Spec => []TypeOK
<1>1. TypeInv => TypeOK
  BY DEF TypeInv
<1> QED
  BY <1>1, TypeInvariance, PTL

-----------------------------------------------------------------------------
(* Order.                                                                  *)

\* The jobs that promote-staged.lua has moved.
Released(j) == status[j] \in {"waiting", "taken"}

\* A job is moved when nobody may add an earlier one any more.
Timely == \A j \in Jobs : Released(j) => order[j] + Latency <= clock

\* What is still staged comes later than what was moved.
Sieved ==
  \A i, j \in Jobs : Released(i) /\ status[j] = "staged" => order[i] <= order[j]

\* What still waits comes later than what was taken.
TakenFirst ==
  \A i, j \in Jobs : status[i] = "taken" /\ status[j] = "waiting" => order[i] <= order[j]

\* The score is made of orderMs and a sequence number.
Scored ==
  \A j \in Jobs : status[j] \in {"staged", "waiting"} =>
    \E n \in 1..MaxAdds : score[j] = order[j] * SeqBase + n

\* Only jobs that were taken are in served.
ServedTaken == \A m \in 1..Len(served) : status[served[m]] = "taken"

\* The inductive invariant of the order.
OrderInv == TypeInv /\ Timely /\ Sieved /\ TakenFirst /\ Scored /\ ServedTaken
              /\ ServedInOrder

\* With fewer adds than a millisecond weighs, scores order as orderMs does.
LEMMA ScoreOrders ==
  ASSUME MaxAdds <= SeqBase, TypeInv, Scored, NEW i \in Jobs, NEW j \in Jobs,
         status[i] \in {"staged", "waiting"}, status[j] \in {"staged", "waiting"},
         score[i] <= score[j]
  PROVE  order[i] <= order[j]
<1>1. PICK m \in 1..MaxAdds : score[i] = order[i] * SeqBase + m
  BY DEF Scored
<1>2. PICK n \in 1..MaxAdds : score[j] = order[j] * SeqBase + n
  BY DEF Scored
<1>3. /\ order[i] \in Nat /\ order[j] \in Nat /\ SeqBase \in Nat /\ MaxAdds \in Nat
      /\ order[i] * SeqBase \in Nat /\ order[j] * SeqBase \in Nat
  <2>1. order[i] \in Nat /\ order[j] \in Nat /\ SeqBase \in Nat /\ MaxAdds \in Nat
    BY Numbers, OrderTypes DEF TypeInv
  <2> QED
    BY <2>1, Products
<1>4. order[j] < order[i] => order[j] * SeqBase + SeqBase <= order[i] * SeqBase
  BY <1>3, Products
<1> QED
  BY <1>1, <1>2, <1>3, <1>4

\* A step that leaves the jobs alone, while the clock may go on.
LEMMA OrderFrame ==
  ASSUME OrderInv, TypeInv', clock <= clock', UNCHANGED <<status, order, score, served>>
  PROVE  OrderInv'
<1>1. Timely'
  <2> SUFFICES ASSUME NEW j \in Jobs, Released(j)
               PROVE  order[j] + Latency <= clock'
    BY DEF OrderInv, Timely, Released
  <2>1. order[j] + Latency <= clock
    BY DEF OrderInv, Timely
  <2>2. order[j] \in Nat /\ Latency \in Nat
    BY Numbers, OrderTypes DEF OrderInv, TypeInv
  <2>3. clock \in Int /\ clock' \in Int
    BY DEF OrderInv, TypeInv, TypeOK
  <2> QED
    BY <2>1, <2>2, <2>3
<1> QED
  BY <1>1 DEF OrderInv, Sieved, TakenFirst, Scored, ServedTaken, ServedInOrder, Released

\* An add comes no later than Latency after its orderMs, so after all that was moved.
LEMMA AddKeepsOrder ==
  ASSUME OrderInv, TypeInv', NEW j \in Jobs, NEW o \in Orders, Add(j, o)
  PROVE  OrderInv'
<1>1. /\ status[j] \in {"new", "staged", "removed"}
      /\ clock <= o + Latency /\ seq < MaxAdds /\ seq' = seq + 1
      /\ order' = [order EXCEPT ![j] = o]
      /\ score' = [score EXCEPT ![j] = o * SeqBase + seq']
      /\ status' = [status EXCEPT ![j] = "staged"]
      /\ UNCHANGED <<clock, served>>
  BY DEF Add
<1>2. /\ order \in [Jobs -> Orders \cup {0}] /\ score \in [Jobs -> Nat]
      /\ status \in [Jobs -> {"new", "staged", "waiting", "taken", "removed"}]
      /\ clock \in Nat /\ seq \in Nat /\ served \in Seq(Jobs)
  BY DEF OrderInv, TypeInv, TypeOK
<1>3. /\ status'[j] = "staged" /\ order'[j] = o /\ score'[j] = o * SeqBase + seq'
      /\ \A i \in Jobs \ {j} : /\ status'[i] = status[i] /\ order'[i] = order[i]
                             /\ score'[i] = score[i]
  BY <1>1, <1>2
<1>4. Timely'
  BY <1>1, <1>3 DEF OrderInv, Timely, Released
<1>5. Sieved'
  <2> SUFFICES ASSUME NEW i \in Jobs, NEW k \in Jobs, Released(i)', status'[k] = "staged"
               PROVE  order'[i] <= order'[k]
    BY DEF Sieved
  <2>1. i # j /\ Released(i) /\ order'[i] = order[i]
    BY <1>3 DEF Released
  <2>2. CASE k = j
    <3>1. order[i] + Latency <= clock
      BY <2>1 DEF OrderInv, Timely
    <3>2. order[i] \in Nat /\ Latency \in Nat /\ o \in Nat
      BY Numbers, OrderTypes DEF OrderInv, TypeInv
    <3> QED
      BY <1>1, <1>2, <1>3, <2>1, <2>2, <3>1, <3>2
  <2>3. CASE k # j
    BY <1>3, <2>1, <2>3 DEF OrderInv, Sieved
  <2> QED
    BY <2>2, <2>3
<1>6. TakenFirst'
  BY <1>3 DEF OrderInv, TakenFirst
<1>7. Scored'
  <2>1. seq' \in 1..MaxAdds
    BY <1>1, <1>2, Numbers
  <2> QED
    BY <1>3, <2>1 DEF OrderInv, Scored
<1>8. \A m \in 1..Len(served) : served[m] \in Jobs \ {j} /\ status[served[m]] = "taken"
  BY <1>1, <1>2 DEF OrderInv, ServedTaken
<1>9. ServedTaken' /\ ServedInOrder'
  BY <1>1, <1>3, <1>8 DEF OrderInv, ServedTaken, ServedInOrder
<1> QED
  BY <1>4, <1>5, <1>6, <1>7, <1>9 DEF OrderInv

\* remove.lua takes a job out of the account.
LEMMA RemoveKeepsOrder ==
  ASSUME OrderInv, TypeInv', NEW j \in Jobs, Remove(j)
  PROVE  OrderInv'
<1>1. /\ status[j] \in {"staged", "waiting"}
      /\ status' = [status EXCEPT ![j] = "removed"]
      /\ UNCHANGED <<clock, order, score, served>>
  BY DEF Remove
<1>2. \A i \in Jobs : status'[i] = (IF i = j THEN "removed" ELSE status[i])
  BY <1>1 DEF OrderInv, TypeInv, TypeOK
<1>3. \A m \in 1..Len(served) : served[m] \in Jobs
  BY DEF OrderInv, TypeInv, TypeOK
<1> QED
  BY <1>1, <1>2, <1>3
    DEF OrderInv, Timely, Sieved, TakenFirst, Scored, ServedTaken, ServedInOrder, Released

\* The first job of the group by score is the first by orderMs.
LEMMA TakeKeepsOrder ==
  ASSUME MaxAdds <= SeqBase, OrderInv, TypeInv', NEW j \in Jobs, Take(j)
  PROVE  OrderInv'
<1>1. /\ status[j] = "waiting"
      /\ \A k \in Jobs \ {j} : status[k] = "waiting" => Precedes(score, j, k)
      /\ status' = [status EXCEPT ![j] = "taken"]
      /\ served' = Append(served, j)
      /\ UNCHANGED <<clock, order, score>>
  BY DEF Take
<1>2. /\ order \in [Jobs -> Orders \cup {0}] /\ score \in [Jobs -> Nat]
      /\ served \in Seq(Jobs)
      /\ \A i \in Jobs : status'[i] = (IF i = j THEN "taken" ELSE status[i])
  BY <1>1 DEF OrderInv, TypeInv, TypeOK
<1>3. \A i \in Jobs : order[i] \in Nat /\ score[i] \in Nat
  BY OrderTypes DEF OrderInv, TypeInv
<1>4. \A k \in Jobs : status[k] = "waiting" => order[j] <= order[k]
  <2> SUFFICES ASSUME NEW k \in Jobs, status[k] = "waiting", k # j
               PROVE  order[j] <= order[k]
    BY <1>3
  <2>1. score[j] <= score[k]
    BY <1>1, <1>3 DEF Precedes
  <2> QED
    BY <1>1, <2>1, ScoreOrders DEF OrderInv
<1>5. Timely' /\ Sieved' /\ Scored'
  BY <1>1, <1>2 DEF OrderInv, Timely, Sieved, Scored, Released
<1>6. TakenFirst'
  BY <1>1, <1>2, <1>4 DEF OrderInv, TakenFirst
<1>7. /\ Len(served) \in Nat /\ Len(served') = Len(served) + 1
      /\ served'[Len(served) + 1] = j
      /\ \A m \in 1..Len(served) :
           served'[m] = served[m] /\ served[m] \in Jobs /\ status[served[m]] = "taken"
  BY <1>1, <1>2 DEF OrderInv, ServedTaken
<1>8. ServedTaken'
  BY <1>1, <1>2, <1>7 DEF ServedTaken
<1>9. ServedInOrder'
  <2> SUFFICES ASSUME NEW m \in 1..Len(served) + 1, NEW n \in 1..Len(served) + 1, m < n
               PROVE  order[served'[m]] <= order[served'[n]]
    BY <1>1, <1>7 DEF ServedInOrder
  <2>1. m \in 1..Len(served)
    BY <1>7
  <2>2. CASE n = Len(served) + 1
    <3>1. order[served[m]] <= order[j]
      BY <1>1, <1>7, <2>1 DEF OrderInv, TakenFirst
    <3> QED
      BY <1>7, <2>1, <2>2, <3>1
  <2>3. CASE n \in 1..Len(served)
    BY <1>7, <2>1, <2>3 DEF OrderInv, ServedInOrder
  <2> QED
    BY <1>7, <2>2, <2>3
<1> QED
  BY <1>5, <1>6, <1>8, <1>9 DEF OrderInv

\* The script looks at entries from the earliest on, so what it leaves comes later than
\* what it moves, and it moves nothing that an add may still overtake.
LEMMA PromoteKeepsOrder ==
  ASSUME OrderInv, TypeInv', NEW c \in Calls, Promote(c)
  PROVE  OrderInv'
<1>1. PICK ahead \in 0..Skew : PromoteStaged(clock + ahead)
  BY DEF Promote
<1> DEFINE now      == clock + ahead
           due      == {j \in Jobs : stage[j] # 0 /\ stage[j] <= now}
           before(j) == {k \in due : Precedes(stage, k, j)}
           moved    == {j \in Due(now) : status[j] = "staged"}
<1>2. /\ \A j \in Jobs : status'[j] = IF j \in moved THEN "waiting" ELSE status[j]
      /\ UNCHANGED <<clock, order, score, served>>
  BY <1>1 DEF PromoteStaged, Promote
<1>3. /\ order \in [Jobs -> Orders \cup {0}] /\ stage \in [Jobs -> Nat]
      /\ served \in Seq(Jobs) /\ clock \in Nat
      /\ \A j \in Jobs : status[j] = "staged" => stage[j] = order[j] + Delay
  BY DEF OrderInv, TypeInv, TypeOK
<1>4. \A j \in Jobs : order[j] \in Nat /\ stage[j] \in Nat
  BY OrderTypes DEF OrderInv, TypeInv
<1>5. now \in Nat /\ now <= clock + Skew
  BY <1>3, Numbers
<1>6. \A j \in moved : /\ j \in Jobs /\ status[j] = "staged" /\ j \in due
                       /\ Cardinality(before(j)) < Limit
  BY DEF Due
<1>7. Timely'
  <2>1. ASSUME NEW j \in moved
        PROVE  order[j] + Latency <= clock
    <3>1. /\ stage[j] = order[j] + Delay /\ stage[j] <= now
          /\ order[j] \in Nat /\ stage[j] \in Nat
      BY <1>3, <1>4, <1>6
    <3>2. /\ Latency + Skew <= Delay
          /\ Latency \in Nat /\ Skew \in Nat /\ Delay \in Nat
      BY Numbers, StagingAssumption
    <3> QED
      BY <1>3, <1>5, <3>1, <3>2
  <2> HIDE DEF moved
  <2> QED
    BY <1>2, <2>1 DEF OrderInv, Timely, Released
<1>8. ASSUME NEW i \in moved, NEW k \in Jobs, status[k] = "staged", k \notin moved
      PROVE  order[i] <= order[k]
  <2> SUFFICES ASSUME order[k] < order[i]
               PROVE  FALSE
    <3>1. order[i] \in Nat /\ order[k] \in Nat
      BY <1>4, <1>6, <1>8
    <3> QED
      BY <3>1
  <2>1. stage[k] < stage[i] /\ i \in due
    <3>1. /\ stage[i] = order[i] + Delay /\ stage[k] = order[k] + Delay
          /\ order[i] \in Nat /\ order[k] \in Nat /\ Delay \in Nat /\ i \in due
      BY <1>3, <1>4, <1>6, <1>8, Numbers
    <3> QED
      BY <3>1
  <2>2. Precedes(stage, k, i)
    BY <2>1 DEF Precedes
  <2>3. stage[k] # 0
    BY <1>3, <1>4, <1>8, Numbers
  <2>4. k \in due
    BY <1>4, <1>5, <2>1, <2>3
  <2>5. before(k) \subseteq before(i)
    BY <1>4, <1>6, <2>1 DEF Precedes
  <2>6. IsFiniteSet(before(i))
    <3>1. before(i) \in SUBSET Jobs
      OBVIOUS
    <3> QED
      BY <3>1, StagingAssumption, FS_Subset
  <2>7. Cardinality(before(k)) < Limit
    <3> HIDE DEF before
    <3>1. IsFiniteSet(before(k)) /\ Cardinality(before(k)) <= Cardinality(before(i))
      BY <2>5, <2>6, FS_Subset
    <3> QED
      BY <1>6, <2>6, <3>1, FS_CardinalityType, Numbers
  <2> QED
    BY <1>8, <2>4, <2>7 DEF Due
<1> HIDE DEF moved
<1>9. Sieved'
  BY <1>2, <1>6, <1>8 DEF OrderInv, Sieved, Released
<1>10. TakenFirst'
  BY <1>2, <1>6 DEF OrderInv, TakenFirst, Sieved, Released
<1>11. Scored'
  BY <1>2, <1>6 DEF OrderInv, Scored
<1>12. ServedTaken' /\ ServedInOrder'
  <2>1. \A m \in 1..Len(served) : served[m] \in Jobs
    BY <1>3
  <2> QED
    BY <1>2, <1>6, <2>1 DEF OrderInv, ServedTaken, ServedInOrder
<1> QED
  BY <1>7, <1>9, <1>10, <1>11, <1>12 DEF OrderInv

\* Every step keeps the order.
LEMMA NextKeepsOrder ==
  ASSUME MaxAdds <= SeqBase, OrderInv, TypeInv', [Next]_vars
  PROVE  OrderInv'
<1>1. ASSUME NEW j \in Jobs, (\E o \in Orders : Add(j, o)) \/ Remove(j) \/ Take(j)
      PROVE  OrderInv'
  BY <1>1, AddKeepsOrder, RemoveKeepsOrder, TakeKeepsOrder
<1>2. ASSUME NEW p \in Promoters,
             Start(p) \/ Started(p) \/ StartFails(p) \/ Stop(p) \/ Crash(p)
      PROVE  OrderInv'
  <2>1. UNCHANGED <<clock, status, order, score, served>>
    BY <1>2 DEF Start, Started, StartFails, Stop, Crash, jobs
  <2>2. clock <= clock'
    BY <2>1 DEF OrderInv, TypeInv, TypeOK
  <2> QED
    BY <2>1, <2>2, OrderFrame
<1>3. ASSUME NEW c \in Calls,
             RunPromotion(c) \/ ReadLock(c) \/ DeleteLock(c) \/ CallFails(c)
      PROVE  OrderInv'
  <2>1. UNCHANGED <<clock, status, order, score, served>>
    BY <1>3 DEF RunPromotion, ReadLock, DeleteLock, CallFails, jobs
  <2>2. clock <= clock'
    BY <2>1 DEF OrderInv, TypeInv, TypeOK
  <2> QED
    BY <2>1, <2>2, OrderFrame
<1>4. ASSUME NEW c \in Calls, Promote(c)
      PROVE  OrderInv'
  BY <1>4, PromoteKeepsOrder
<1>5. CASE Tick
  <2>1. UNCHANGED <<status, order, score, served>>
    BY <1>5 DEF Tick, jobs
  <2>2. clock <= clock'
    BY <1>5 DEF Tick, OrderInv, TypeInv, TypeOK
  <2> QED
    BY <2>1, <2>2, OrderFrame
<1>6. CASE UNCHANGED vars
  <2>1. UNCHANGED <<clock, status, order, score, served>>
    BY <1>6 DEF vars, jobs
  <2>2. clock <= clock'
    BY <2>1 DEF OrderInv, TypeInv, TypeOK
  <2> QED
    BY <2>1, <2>2, OrderFrame
<1> QED
  BY <1>1, <1>2, <1>3, <1>4, <1>5, <1>6 DEF Next, Work

\* The jobs of a group are taken in the order of their orderMs, however many promoters run,
\* lose their lock or delete another's. Needed of the constants: StagingAssumption, and no
\* more adds under one sequence counter than a millisecond weighs in a score.
THEOREM ServedInOrderHolds ==
  ASSUME MaxAdds <= SeqBase
  PROVE  Spec => []ServedInOrder
<1>1. Init => Timely /\ Sieved /\ TakenFirst /\ Scored /\ ServedTaken /\ ServedInOrder
  BY DEF Init, Timely, Sieved, TakenFirst, Scored, ServedTaken, ServedInOrder, Released
<1>2. OrderInv /\ TypeInv' /\ [Next]_vars => OrderInv'
  BY NextKeepsOrder
<1>3. OrderInv <=> TypeInv /\ Timely /\ Sieved /\ TakenFirst /\ Scored /\ ServedTaken
                     /\ ServedInOrder
  BY DEF OrderInv
<1> QED
  BY <1>1, <1>2, <1>3, TypeInvariance, PTL DEF Spec
==============================================================================
