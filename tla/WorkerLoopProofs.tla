-------------------------- MODULE WorkerLoopProofs --------------------------
(***************************************************************************)
(* That a worker keeps account of what it holds, for every number of jobs, *)
(* groups, promises and failed calls: no job is locked without a place, no *)
(* job has two, the places are bounded, and a close() that saw the loop    *)
(* end leaves nothing behind.                                              *)
(***************************************************************************)
EXTENDS WorkerLoop, TLAPS, FiniteSetTheorems, SequenceTheorems, WellFoundedInduction

-----------------------------------------------------------------------------
(* Sequences of jobs and Nulls.                                            *)

\* What a promise may resolve to.
Values == Jobs \cup {Null}

\* The jobs in a sequence of values, and that none is in it twice.
Entries(s) == {s[i] : i \in DOMAIN s} \ {Null}
Once(s) == \A i, k \in DOMAIN s : s[i] = s[k] /\ s[i] # Null => i = k

\* What the proofs use of the constants.
LEMMA Constants ==
  /\ IsFiniteSet(Jobs) /\ Null \notin Jobs /\ Torn \subseteq Jobs /\ Orphans \subseteq Jobs
  /\ Concurrency \in Nat \ {0} /\ MaxAttempts \in Nat \ {0}
  /\ MaxStalled \in Nat /\ MaxFaults \in Nat /\ Strategies \subseteq BOOLEAN
BY WorkerAssumption

\* A set of numbers that is not empty has a least member, and Min is it.
LEMMA MinOf ==
  ASSUME NEW S, S \subseteq Nat, S # {}
  PROVE  Min(S) \in S /\ \A n \in S : Min(S) <= n
<1>1. PICK m \in S : \A n \in S : <<n, m>> \notin OpToRel(<, Nat)
  BY WFMin, NatLessThanWellFounded, Zenon
<1>2. \A n \in S : ~(n < m)
  BY <1>1, Zenon DEF OpToRel
<1>3. \A n \in S : m <= n
  BY <1>2
<1> QED
  BY <1>3 DEF Min

\* A promise of the queue resolves with v.
LEMMA AppendEntries ==
  ASSUME NEW s \in Seq(Values), NEW v \in Values
  PROVE  /\ Append(s, v) \in Seq(Values) /\ Len(Append(s, v)) = Len(s) + 1
         /\ Entries(Append(s, v)) = Entries(s) \cup ({v} \ {Null})
         /\ Once(s) /\ v \notin Entries(s) => Once(Append(s, v))
<1> DEFINE t == Append(s, v)
<1>1. /\ t \in Seq(Values) /\ Len(t) = Len(s) + 1 /\ Len(s) \in Nat
      /\ DOMAIN s = 1..Len(s) /\ DOMAIN t = 1..Len(s) + 1
      /\ t[Len(s) + 1] = v /\ \A i \in 1..Len(s) : t[i] = s[i]
  OBVIOUS
<1> HIDE DEF t
<1>2. Entries(t) = Entries(s) \cup ({v} \ {Null})
  <2>1. \A i \in DOMAIN t : t[i] \in {s[k] : k \in DOMAIN s} \cup {v}
    BY <1>1
  <2>2. \A i \in DOMAIN s : s[i] \in {t[k] : k \in DOMAIN t}
    BY <1>1
  <2>3. v \in {t[k] : k \in DOMAIN t}
    BY <1>1
  <2> QED
    BY <2>1, <2>2, <2>3, Zenon DEF Entries
<1>3. ASSUME Once(s), v \notin Entries(s)
      PROVE  Once(t)
  <2> SUFFICES ASSUME NEW i \in DOMAIN t, NEW k \in DOMAIN t, t[i] = t[k], t[i] # Null
               PROVE  i = k
    BY DEF Once
  <2>1. \A m \in DOMAIN s : s[m] = v => v = Null
    BY <1>3, Zenon DEF Entries
  <2> QED
    BY <1>1, <1>3, <2>1 DEF Once
<1> QED
  BY <1>1, <1>2, <1>3 DEF t

\* fetch() passes over n - 1 Nulls and takes the value at n.
LEMMA SuffixEntries ==
  ASSUME NEW s \in Seq(Values), NEW n \in 1..Len(s), \A i \in 1..n - 1 : s[i] = Null,
         s[n] # Null, Once(s)
  PROVE  LET t == SubSeq(s, n + 1, Len(s))
         IN  /\ t \in Seq(Values) /\ Len(t) = Len(s) - n
             /\ Entries(t) = Entries(s) \ {s[n]} /\ s[n] \in Entries(s) /\ Once(t)
<1> DEFINE t == SubSeq(s, n + 1, Len(s))
<1>1. /\ Len(s) \in Nat /\ n \in 1..Len(s) /\ DOMAIN s = 1..Len(s)
      /\ \A i \in 1..Len(s) : s[i] \in Values
  OBVIOUS
<1>2. \A i \in n + 1..Len(s) : s[i] \in Values
  BY <1>1
<1>3. /\ t \in Seq(Values) /\ Len(t) = (IF n + 1 <= Len(s) THEN Len(s) - (n + 1) + 1 ELSE 0)
      /\ \A i \in 1..Len(s) - (n + 1) + 1 : t[i] = s[n + 1 + i - 1]
  <2>1. n + 1 \in Int /\ Len(s) \in Int
    BY <1>1
  <2> QED
    BY <1>2, <2>1, SubSeqProperties
<1> HIDE DEF t
<1>4. /\ Len(t) = Len(s) - n /\ DOMAIN t = 1..Len(s) - n
      /\ \A i \in 1..Len(s) - n : t[i] = s[n + i]
  <2>1. Len(t) = Len(s) - n
    <3>1. n \in Int /\ Len(s) \in Int /\ n <= Len(s)
      BY <1>1
    <3>2. Len(t) = IF n + 1 <= Len(s) THEN Len(s) - (n + 1) + 1 ELSE 0
      BY <1>3
    <3> QED
      BY <3>1, <3>2
  <2>2. DOMAIN t = 1..Len(t)
    BY <1>3
  <2>3. ASSUME NEW i \in 1..Len(s) - n
        PROVE  t[i] = s[n + i]
    <3>1. i \in 1..Len(s) - (n + 1) + 1 /\ n + 1 + i - 1 = n + i
      BY <1>1
    <3> QED
      BY <1>3, <3>1
  <2> QED
    BY <2>1, <2>2, <2>3
<1>5. Entries(t) \subseteq Entries(s) \ {s[n]}
  <2> SUFFICES ASSUME NEW i \in DOMAIN t, t[i] # Null
               PROVE  t[i] \in Entries(s) \ {s[n]}
    BY DEF Entries
  <2>1. n + i \in DOMAIN s /\ n \in DOMAIN s /\ n + i # n /\ t[i] = s[n + i]
    BY <1>1, <1>4
  <2> QED
    BY <2>1 DEF Once, Entries
<1>6. Entries(s) \ {s[n]} \subseteq Entries(t)
  <2> SUFFICES ASSUME NEW i \in DOMAIN s, s[i] # Null, s[i] # s[n]
               PROVE  s[i] \in Entries(t)
    BY DEF Entries
  <2>1. i > n
    BY <1>1
  <2>2. i - n \in DOMAIN t /\ t[i - n] = s[i]
    BY <1>1, <1>4, <2>1
  <2> QED
    BY <2>2 DEF Entries
<1>7. s[n] \in Entries(s)
  BY <1>1 DEF Entries
<1>8. Once(t)
  <2> SUFFICES ASSUME NEW i \in DOMAIN t, NEW k \in DOMAIN t, t[i] = t[k], t[i] # Null
               PROVE  i = k
    BY DEF Once
  <2>1. /\ n + i \in DOMAIN s /\ n + k \in DOMAIN s
        /\ t[i] = s[n + i] /\ t[k] = s[n + k] /\ i \in Int /\ k \in Int
    BY <1>1, <1>4
  <2>2. n + i = n + k
    BY <2>1 DEF Once
  <2> QED
    BY <1>1, <2>1, <2>2
<1> QED
  BY <1>3, <1>4, <1>5, <1>6, <1>7, <1>8 DEF t

\* reserveBatch() lists the jobs of its reply, each once.
LEMMA ListedEntries ==
  ASSUME NEW S, S \subseteq Jobs
  PROVE  /\ SetToSeq(S) \in Seq(Values) /\ Len(SetToSeq(S)) = Cardinality(S)
         /\ Entries(SetToSeq(S)) = S /\ Once(SetToSeq(S))
<1> DEFINE n == Cardinality(S)
           t == SetToSeq(S)
<1>1. IsFiniteSet(S) /\ n \in Nat /\ ExistsBijection(1..n, S)
  <2>1. S \in SUBSET Jobs
    OBVIOUS
  <2>2. IsFiniteSet(S)
    BY <2>1, Constants, FS_Subset
  <2> QED
    BY <2>2, FS_CardinalityType
<1>2. \E f \in [1..n -> S] : IsInjective(f)
  BY <1>1 DEF ExistsBijection, Bijection, Injection
<1>3. t \in [1..n -> S] /\ IsInjective(t)
  BY <1>2 DEF SetToSeq
<1> HIDE DEF t
<1>4. \A j \in S : \E i \in 1..n : t[i] = j
  <2>1. t \in Injection(1..n, S)
    BY <1>3 DEF Injection
  <2>2. IsFiniteSet(1..n) /\ Cardinality(1..n) = n
    BY <1>1, FS_Interval
  <2>3. t \in Surjection(1..n, S)
    BY <1>1, <2>1, <2>2, FS_Injection
  <2> QED
    BY <2>3 DEF Surjection
<1> HIDE DEF n
<1>5. t \in Seq(S) /\ Len(t) = n /\ DOMAIN t = 1..n
  BY <1>1, <1>3
<1>6. t \in Seq(Values)
  BY <1>3, <1>1 DEF Values
<1>7. Entries(t) = S
  <2>1. Null \notin S
    BY Constants
  <2>2. {t[i] : i \in DOMAIN t} = S
    BY <1>3, <1>4, <1>5
  <2> QED
    BY <2>1, <2>2 DEF Entries
<1>8. Once(t)
  BY <1>3 DEF IsInjective, Once
<1> QED
  BY <1>5, <1>6, <1>7, <1>8 DEF t, n

-----------------------------------------------------------------------------
(* Types.                                                                  *)

\* Where fetch() ends: behind the last Null, or at the first job.
LEMMA FirstJobFound ==
  ASSUME TypeOK
  PROVE  /\ Queued = {} => FirstJob = Len(fifo)
         /\ Queued # {} => /\ FirstJob \in 1..Len(fifo) /\ fifo[FirstJob] \in Jobs
                           /\ fifo[FirstJob] # Null
                           /\ \A i \in 1..FirstJob - 1 : fifo[i] = Null
<1> DEFINE found == {i \in DOMAIN fifo : fifo[i] # Null}
<1>1. /\ fifo \in Seq(Values) /\ DOMAIN fifo = 1..Len(fifo) /\ Len(fifo) \in Nat
      /\ \A i \in 1..Len(fifo) : fifo[i] \in Values
  BY DEF TypeOK, Values
<1>2. FirstJob = IF found = {} THEN Len(fifo) ELSE Min(found)
  BY DEF FirstJob
<1>3. Queued = {} <=> found = {}
  BY Zenon DEF Queued
<1>4. ASSUME found # {}
      PROVE  Min(found) \in found /\ \A i \in found : Min(found) <= i
  <2>1. found \subseteq Nat
    BY <1>1
  <2> HIDE DEF found
  <2> QED
    BY <1>4, <2>1, MinOf
<1>5. ASSUME found # {}
      PROVE  \A i \in 1..Min(found) - 1 : fifo[i] = Null
  <2> DEFINE m == Min(found)
  <2>1. m \in 1..Len(fifo) /\ \A i \in 1..Len(fifo) : fifo[i] # Null => m <= i
    BY <1>1, <1>4, <1>5
  <2> HIDE DEF m
  <2>2. \A i \in 1..m - 1 : fifo[i] = Null
    BY <1>1, <2>1
  <2> QED
    BY <2>2 DEF m
<1> QED
  BY <1>1, <1>2, <1>3, <1>4, <1>5 DEF Values

\* A promise resolves with a value.
LEMMA SettledTypes ==
  ASSUME TypeOK, NEW v \in Values, Settled(v)
  PROVE  fifo' \in Seq(Jobs \cup {Null})
BY AppendEntries DEF TypeOK, Settled, Values

\* check-stalled.lua counts no further than maxStalledCount.
LEMMA RecoverTypes ==
  ASSUME TypeOK, NEW S, S \subseteq lost, Recover(S)
  PROVE  /\ store' \in [Jobs -> {"waiting", "locked", "done"}]
         /\ stalls' \in [Jobs -> 0..MaxStalled] /\ lost' \subseteq Jobs
<1>1. /\ store \in [Jobs -> {"waiting", "locked", "done"}]
      /\ stalls \in [Jobs -> 0..MaxStalled] /\ lost \subseteq Jobs /\ MaxStalled \in Nat
  BY Constants DEF TypeOK
<1>2. \A j \in Jobs : stalls[j] < MaxStalled => stalls[j] + 1 \in 0..MaxStalled
  BY <1>1
<1> QED
  BY <1>1, <1>2 DEF Recover

\* The places a job is put are those of the server.
LEMMA PutTypes ==
  ASSUME TypeOK, NEW S, NEW place \in {"waiting", "locked", "done"}
  PROVE  Put(S, place) \in [Jobs -> {"waiting", "locked", "done"}]
BY DEF TypeOK, Put

\* The count of empty fetches ends at 2.
LEMMA EmptiesBounded ==
  ASSUME TypeOK
  PROVE  Min({empties + 1, 2}) \in 0..2
<1>1. {empties + 1, 2} \subseteq Nat /\ {empties + 1, 2} # {}
  BY DEF TypeOK
<1>2. Min({empties + 1, 2}) \in Nat /\ Min({empties + 1, 2}) <= 2
  BY <1>1, MinOf
<1> QED
  BY <1>2

\* The sweep and the start of the loop.
LEMMA SweepKeepsTypes ==
  ASSUME TypeOK, CheckStalled \/ Run \/ Started
  PROVE  TypeOK'
<1>1. CASE CheckStalled
  <2>1. PICK S \in SUBSET lost \ {{}} : Recover(S)
    BY <1>1 DEF CheckStalled
  <2> QED
    BY <1>1, <2>1, RecoverTypes DEF CheckStalled, TypeOK, processing, closing
<1>2. CASE Run
  BY <1>2 DEF Run, TypeOK, server, processing, closing, Loops, Timers
<1>3. CASE Started
  <2>1. PICK S \in IF stopping THEN {{}} ELSE SUBSET lost : Recover(S)
    BY <1>3 DEF Started
  <2>2. S \subseteq lost
    BY <2>1
  <2> QED
    BY <1>3, <2>1, <2>2, RecoverTypes
      DEF Started, TypeOK, processing, closing, Loops, Timers
<1> QED
  BY <1>1, <1>2, <1>3

\* The calls of Phase 1 and their answers.
LEMMA FetchKeepsTypes ==
  ASSUME TypeOK, \/ Iterate \/ BatchAnswers \/ FetchAnswers \/ FetchEmpty \/ Resume
                 \/ BlockingGoesOn \/ StrategyThrows \/ FetchFails
  PROVE  TypeOK'
<1>1. CASE Iterate \/ Resume
  BY <1>1 DEF Iterate, Resume, TypeOK, server, processing, closing, Loops, Fetches
<1>2. CASE BatchAnswers
  <2>1. PICK S \in SUBSET Heads :
          /\ store' = Put(S, "locked") /\ lost' = lost \cup (S \ Readable(S))
          /\ fifo' = fifo \o SetToSeq(Readable(S))
          /\ loop' \in {"inner", "blocking", "reserve"} /\ empties' \in {0, empties}
    BY <1>2 DEF BatchAnswers, Batches, kSubset
  <2>2. S \subseteq Jobs /\ Readable(S) \subseteq Jobs
    BY <2>1 DEF Heads, Readable
  <2>3. SetToSeq(Readable(S)) \in Seq(Values) /\ fifo \in Seq(Values)
    BY <2>2, ListedEntries DEF TypeOK, Values
  <2>4. fifo' \in Seq(Values)
    BY <2>1, <2>3
  <2> QED
    BY <1>2, <2>1, <2>2, <2>4, PutTypes
      DEF BatchAnswers, TypeOK, processing, closing, Loops, Fetches, Values
<1>3. CASE FetchAnswers
  <2>1. PICK j \in Heads \ Torn : store' = Put({j}, "locked") /\ Settled(j)
    BY <1>3 DEF FetchAnswers
  <2>2. j \in Values
    BY <2>1 DEF Heads, Values
  <2> QED
    BY <1>3, <2>1, <2>2, PutTypes, SettledTypes
      DEF FetchAnswers, TypeOK, processing, closing, Loops, Fetches
<1>4. CASE FetchEmpty
  <2>1. store' \in [Jobs -> {"waiting", "locked", "done"}] /\ lost' \subseteq Jobs
    BY <1>4, PutTypes DEF FetchEmpty, LockedUnseen, TypeOK, Heads
  <2>2. empties' \in 0..2
    BY <1>4, EmptiesBounded DEF FetchEmpty
  <2>3. fifo' \in Seq(Jobs \cup {Null})
    BY <1>4, SettledTypes DEF FetchEmpty, Values
  <2> QED
    BY <1>4, <2>1, <2>2, <2>3 DEF FetchEmpty, TypeOK, processing, closing, Loops, Fetches
<1>5. CASE BlockingGoesOn
  <2>1. store' \in [Jobs -> {"waiting", "locked", "done"}] /\ lost' \subseteq Jobs
    BY <1>5, PutTypes DEF BlockingGoesOn, LockedUnseen, TypeOK, Heads
  <2> QED
    BY <1>5, <2>1 DEF BlockingGoesOn, TypeOK, processing, closing, Loops, Fetches
<1>6. CASE StrategyThrows \/ FetchFails
  <2>1. PICK S \in SUBSET Heads : LockedUnseen(S)
    BY <1>6 DEF StrategyThrows, FetchFails, Batches, kSubset
  <2>2. store' \in [Jobs -> {"waiting", "locked", "done"}] /\ lost' \subseteq Jobs
    <3>1. S \subseteq Jobs
      BY <2>1 DEF Heads
    <3> QED
      BY <2>1, <3>1, PutTypes DEF LockedUnseen, TypeOK
  <2>3. faults' \in 0..MaxFaults
    BY <1>6, Constants DEF StrategyThrows, FetchFails, TypeOK
  <2>4. Rejects
    BY <1>6 DEF StrategyThrows, FetchFails
  <2>5. fifo' \in Seq(Jobs \cup {Null})
    BY <2>4, SettledTypes DEF Rejects, Values, TypeOK
  <2>6. strategy' \in BOOLEAN /\ stalls' = stalls
    BY <2>4 DEF Rejects, TypeOK
  <2> QED
    BY <2>2, <2>3, <2>4, <2>5, <2>6 DEF Rejects, TypeOK, processing, Loops
<1> QED
  BY <1>1, <1>2, <1>3, <1>4, <1>5, <1>6

\* fetch() and the start of processJob().
LEMMA TakeKeepsTypes ==
  ASSUME TypeOK, Take
  PROVE  TypeOK'
<1>1. /\ fifo' = SubSeq(fifo, FirstJob + 1, Len(fifo))
      /\ Queued = {} => UNCHANGED <<work, tracked>>
      /\ Queued # {} => /\ work' = [work EXCEPT ![fifo[FirstJob]] = "handle"]
                        /\ tracked' = tracked \cup {fifo[FirstJob]}
      /\ loop' = "top"
      /\ UNCHANGED <<server, strategy, throws, empties, timers, closing, faults>>
  BY DEF Take
<1>2. work' \in [Jobs -> Works] /\ tracked' \subseteq Jobs
  BY <1>1, FirstJobFound DEF TypeOK, Works
<1>3. fifo' \in Seq(Jobs \cup {Null})
  <2> DEFINE n == FirstJob
  <2>1. n \in Int /\ Len(fifo) \in Int /\ n + 1 \in Int /\ n >= 0
    BY FirstJobFound DEF TypeOK
  <2>2. fifo' = SubSeq(fifo, n + 1, Len(fifo)) /\ fifo \in Seq(Jobs \cup {Null})
    BY <1>1 DEF TypeOK
  <2> HIDE DEF n
  <2>3. \A i \in n + 1..Len(fifo) : fifo[i] \in Jobs \cup {Null}
    BY <2>1, <2>2
  <2> QED
    BY <2>1, <2>2, <2>3, SubSeqProperties
<1> QED
  BY <1>1, <1>2, <1>3 DEF TypeOK, server, closing, Loops

\* The promise of a job resolves.
LEMMA ResolveTypes ==
  ASSUME TypeOK, NEW j \in Jobs, NEW v \in Values, Resolve(j, v)
  PROVE  /\ work' \in [Jobs -> Works] /\ tracked' \subseteq Jobs
         /\ fifo' \in Seq(Jobs \cup {Null})
         /\ strategy' \in BOOLEAN /\ loop' \in Loops /\ timers' \subseteq Timers
         /\ throws' \in [Jobs -> 0..MaxAttempts]
         /\ closer' \in {"open", "delay", "grace", "race", "closed"}
         /\ stopping' \in BOOLEAN /\ aborted' \in BOOLEAN /\ expired' \in BOOLEAN
<1>1. fifo' \in Seq(Jobs \cup {Null})
  BY SettledTypes DEF Resolve
<1>2. work' \in [Jobs -> Works] /\ tracked' \subseteq Jobs
  BY DEF Resolve, TypeOK, Works, Values
<1> QED
  BY <1>1, <1>2 DEF Resolve, TypeOK, closing

\* The first waiting job of a group is a job.
LEMMA FirstWaiting ==
  ASSUME NEW j \in Jobs, WaitingWith(j) # {}
  PROVE  Min(WaitingWith(j)) \in WaitingWith(j)
<1>1. WaitingWith(j) \subseteq Nat
  BY WorkerAssumption DEF WaitingWith
<1> QED
  BY <1>1, MinOf

\* processJob(): the handler and the calls behind it.
LEMMA ProcessKeepsTypes ==
  ASSUME TypeOK, NEW j \in Jobs, Process(j) \/ CompleteFails(j) \/ FailureFails(j)
  PROVE  TypeOK'
<1>1. CASE HandlerEnds(j)
  <2>1. work' \in [Jobs -> Works]
    BY <1>1 DEF HandlerEnds, TypeOK, Works
  <2>2. throws' \in [Jobs -> 0..MaxAttempts]
    <3>1. throws \in [Jobs -> 0..MaxAttempts] /\ MaxAttempts \in Nat
      BY Constants DEF TypeOK
    <3>2. throws[j] < MaxAttempts => throws[j] + 1 \in 0..MaxAttempts
      BY <3>1
    <3> QED
      BY <1>1, <3>1, <3>2 DEF HandlerEnds
  <2> QED
    BY <1>1, <2>1, <2>2 DEF HandlerEnds, TypeOK, server, closing
<1>2. CASE CompleteAnswers(j)
  <2>1. PICK next \in Values :
          /\ store' = [k \in Jobs |-> IF k = j THEN "done"
                                    ELSE IF k = next THEN "locked" ELSE store[k]]
          /\ lost' = lost \cup ({next} \cap Torn)
          /\ Resolve(j, IF next \in Torn THEN Null ELSE next)
          /\ empties' = 0 /\ UNCHANGED <<stalls, faults>>
    <3> DEFINE rest == IF NumTotal <= Concurrency THEN WaitingWith(j) ELSE {}
               next == IF rest = {} THEN Null ELSE Min(rest)
    <3>1. next \in Values
      BY FirstWaiting DEF Values, WaitingWith
    <3> QED
      BY <1>2, <3>1 DEF CompleteAnswers
  <2>2. (IF next \in Torn THEN Null ELSE next) \in Values
    BY <2>1 DEF Values
  <2>3. store' \in [Jobs -> {"waiting", "locked", "done"}] /\ lost' \subseteq Jobs
    BY <2>1, Constants DEF TypeOK
  <2> QED
    BY <2>1, <2>2, <2>3, ResolveTypes DEF TypeOK
<1>3. CASE CompleteFails(j)
  <2>1. store' \in [Jobs -> {"waiting", "locked", "done"}] /\ lost' \subseteq Jobs
    <3>1. CASE store' = store /\ lost' = lost \cup {j}
      BY <3>1 DEF TypeOK
    <3>2. CASE store' = Put({j}, "done") /\ lost' = lost
      BY <3>2, PutTypes DEF TypeOK
    <3>3. CASE /\ WaitingWith(j) # {}
               /\ store' = [Put({j}, "done") EXCEPT ![Min(WaitingWith(j))] = "locked"]
               /\ lost' = lost \cup {Min(WaitingWith(j))}
      <4>1. Min(WaitingWith(j)) \in Jobs
        BY <3>3, FirstWaiting DEF WaitingWith
      <4>2. Put({j}, "done") \in [Jobs -> {"waiting", "locked", "done"}]
        BY PutTypes
      <4> QED
        BY <3>3, <4>1, <4>2 DEF TypeOK
    <3> QED
      BY <1>3, <3>1, <3>2, <3>3 DEF CompleteFails
  <2>2. faults' \in 0..MaxFaults
    BY <1>3, Constants DEF CompleteFails, TypeOK
  <2>3. Null \in Values /\ Resolve(j, Null) /\ empties' = 0 /\ UNCHANGED stalls
    BY <1>3 DEF CompleteFails, Values
  <2> QED
    BY <2>1, <2>2, <2>3, ResolveTypes DEF TypeOK
<1>4. CASE FailureAnswers(j)
  <2>1. store' \in [Jobs -> {"waiting", "locked", "done"}]
    BY <1>4, PutTypes DEF FailureAnswers
  <2>2. /\ Null \in Values /\ Resolve(j, Null) /\ empties' = 0
        /\ UNCHANGED <<stalls, lost, faults>>
    BY <1>4 DEF FailureAnswers, Values
  <2> QED
    BY <2>1, <2>2, ResolveTypes DEF TypeOK
<1>5. CASE FailureFails(j)
  <2>1. lost' \subseteq Jobs /\ faults' \in 0..MaxFaults
    BY <1>5, Constants DEF FailureFails, TypeOK
  <2>2. /\ Null \in Values /\ Resolve(j, Null) /\ empties' = 0
        /\ UNCHANGED <<store, stalls>>
    BY <1>5 DEF FailureFails, Values
  <2> QED
    BY <2>1, <2>2, ResolveTypes DEF TypeOK
<1> QED
  BY <1>1, <1>2, <1>3, <1>4, <1>5 DEF Process

\* close().
LEMMA ClosingKeepsTypes ==
  ASSUME TypeOK, Closing
  PROVE  TypeOK'
<1>1. CASE Close \/ ClearTimers \/ EndRace
  BY <1>1 DEF Close, ClearTimers, EndRace, TypeOK, server, processing, Timers
<1>2. CASE EndGrace
  <2>1. fifo' \in Seq(Jobs \cup {Null}) /\ loop' \in Loops
    BY <1>2, SettledTypes DEF EndGrace, TypeOK, Values, Loops
  <2> QED
    BY <1>2, <2>1 DEF EndGrace, TypeOK, server, processing
<1> QED
  BY <1>1, <1>2 DEF Closing

\* Every variable keeps its type: no job is recovered or tried oftener than its limits
\* say, and what is in the queue, tracked or lost is a job.
THEOREM TypeCorrect == Spec => []TypeOK
<1>1. Init => TypeOK
  <2> SUFFICES ASSUME Init
               PROVE  TypeOK
    OBVIOUS
  <2>1. fifo \in Seq(Jobs \cup {Null}) /\ strategy \in BOOLEAN /\ lost \subseteq Jobs
    BY Constants DEF Init
  <2>2. stalls \in [Jobs -> 0..MaxStalled] /\ throws \in [Jobs -> 0..MaxAttempts]
    BY Constants DEF Init
  <2>3. /\ store \in [Jobs -> {"waiting", "locked", "done"}] /\ work \in [Jobs -> Works]
        /\ loop \in Loops /\ tracked \subseteq Jobs /\ empties \in 0..2 /\ timers \subseteq Timers
    BY DEF Init, Loops, Works
  <2>4. /\ closer \in {"open", "delay", "grace", "race", "closed"}
        /\ stopping \in BOOLEAN /\ aborted \in BOOLEAN /\ expired \in BOOLEAN
    BY DEF Init
  <2>5. faults \in 0..MaxFaults
    BY Constants DEF Init
  <2> QED
    BY <2>1, <2>2, <2>3, <2>4, <2>5 DEF TypeOK
<1>2. TypeOK /\ [Next]_vars => TypeOK'
  <2>1. CASE Next
    BY <2>1, SweepKeepsTypes, FetchKeepsTypes, TakeKeepsTypes, ProcessKeepsTypes,
       ClosingKeepsTypes DEF Next, Loop, Fault
  <2>2. CASE UNCHANGED vars
    BY <2>2 DEF TypeOK, vars, server, processing, closing
  <2> QED
    BY <2>1, <2>2
<1> QED
  BY <1>1, <1>2, PTL DEF Spec

-----------------------------------------------------------------------------
(* The account of what the worker holds.                                   *)

\* A locked job has one place: a place of the queue, a promise, or lost.
OneHolder ==
  /\ Once(fifo) /\ Queued \cap Processed = {} /\ lost \cap InHand = {}
  /\ \A j \in Jobs : store[j] = "locked" <=> j \in InHand \cup lost

\* The worker asks for a batch, and blocks, only when it holds nothing.
EmptyHanded == loop \in {"off", "batch", "blocking"} => Processed = {} /\ fifo = <<>>

\* What the loop has left when it ends, and what close() may conclude from it.
CloserSeen ==
  /\ closer # "open" => stopping
  /\ aborted => loop = "ended"
  /\ loop = "ended" /\ ~aborted => InHand = {}
  /\ closer = "closed" /\ ~expired /\ ~aborted =>
       InHand = {} /\ loop \notin Fetches \cup {"batch"}

\* The inductive invariant.
LoopInv == TypeOK /\ HandsBounded /\ InProgressTracked /\ OneHolder /\ EmptyHanded /\ CloserSeen

\* Sets of jobs are finite.
LEMMA JobSets ==
  ASSUME NEW S, S \subseteq Jobs
  PROVE  /\ IsFiniteSet(S) /\ Cardinality(S) \in Nat
         /\ \A j \in S : Cardinality(S \ {j}) = Cardinality(S) - 1
         /\ \A j : Cardinality(S \cup {j}) <= Cardinality(S) + 1
         /\ Cardinality(S) = 0 => S = {}
<1>1. S \in SUBSET Jobs
  OBVIOUS
<1>2. IsFiniteSet(S)
  BY <1>1, Constants, FS_Subset
<1>3. Cardinality(S) \in Nat
  BY <1>2, FS_CardinalityType
<1>4. \A j \in S : Cardinality(S \ {j}) = Cardinality(S) - 1
  BY <1>2, FS_RemoveElement
<1>5. \A j : Cardinality(S \cup {j}) <= Cardinality(S) + 1
  BY <1>2, <1>3, FS_AddElement
<1>6. Cardinality(S) = 0 => S = {}
  BY <1>2, FS_EmptySet
<1> QED
  BY <1>2, <1>3, <1>4, <1>5, <1>6

\* A worker whose count is 0 holds nothing.
LEMMA CountZero ==
  ASSUME TypeOK, NumTotal = 0
  PROVE  Processed = {} /\ fifo = <<>> /\ loop \notin Fetches /\ InHand = {}
<1>1. Processed \subseteq Jobs /\ Len(fifo) \in Nat /\ fifo \in Seq(Values)
  BY DEF Processed, TypeOK, Values
<1>2. Cardinality(Processed) \in Nat /\ (Cardinality(Processed) = 0 => Processed = {})
  BY <1>1, JobSets
<1>3. Processed = {} /\ Len(fifo) = 0 /\ loop \notin Fetches
  BY <1>1, <1>2 DEF NumTotal
<1>4. fifo = <<>>
  BY <1>1, <1>3
<1>5. Queued = {}
  BY <1>4 DEF Queued
<1> QED
  BY <1>3, <1>4, <1>5 DEF InHand

\* A step that moves nothing into or out of the hands.
LEMMA HandsSame ==
  ASSUME LoopInv, TypeOK', Processed' = Processed, fifo' = fifo,
         tracked' = tracked \/ closer' = "closed", closer = "closed" => closer' = "closed",
         loop' \in Fetches => loop \in Fetches \/ NumTotal < Concurrency,
         lost' \cap InHand = {},
         \A j \in Jobs : store'[j] = "locked" <=> j \in InHand \cup lost'
  PROVE  HandsBounded' /\ InProgressTracked' /\ OneHolder' /\ InHand' = InHand
<1>1. Queued' = Queued /\ InHand' = InHand
  BY DEF Queued, InHand
<1>2. HandsBounded'
  <2>1. Processed \subseteq Jobs /\ Len(fifo) \in Nat
    BY DEF LoopInv, TypeOK, Processed
  <2>2. Cardinality(Processed) \in Nat /\ Concurrency \in Nat
    BY <2>1, JobSets, Constants
  <2> QED
    BY <2>1, <2>2 DEF LoopInv, HandsBounded, NumTotal
<1>3. InProgressTracked'
  BY <1>1 DEF LoopInv, InProgressTracked
<1>4. OneHolder'
  BY <1>1 DEF LoopInv, OneHolder
<1> QED
  BY <1>1, <1>2, <1>3, <1>4

\* A resolved promise is a place more in the queue.
LEMMA SettledHands ==
  ASSUME TypeOK, Once(fifo), NEW v \in Values, Settled(v), v \notin Queued
  PROVE  /\ Len(fifo) \in Nat /\ Len(fifo') = Len(fifo) + 1
         /\ Queued' = Queued \cup ({v} \ {Null}) /\ Once(fifo')
<1>1. fifo \in Seq(Values) /\ fifo' = Append(fifo, v) /\ Queued = Entries(fifo)
  BY DEF TypeOK, Values, Settled, Queued, Entries
<1>2. Queued' = Entries(fifo')
  BY DEF Queued, Entries
<1> QED
  BY <1>1, <1>2, AppendEntries

\* A fetch resolves: its promise gives its place to what it got.
LEMMA FetchSettles ==
  ASSUME LoopInv, TypeOK', loop \in Fetches, loop' \notin Fetches,
         NEW v \in Values, Settled(v), v \notin InHand,
         UNCHANGED <<work, tracked>>, closer' # closer => closer # "closed",
         lost' \cap (InHand \cup ({v} \ {Null})) = {},
         \A j \in Jobs : store'[j] = "locked" <=> j \in InHand \cup ({v} \ {Null}) \cup lost'
  PROVE  HandsBounded' /\ InProgressTracked' /\ OneHolder' /\ InHand' = InHand \cup ({v} \ {Null})
<1>1. Processed' = Processed
  BY DEF Processed
<1>2. /\ Len(fifo) \in Nat /\ Len(fifo') = Len(fifo) + 1
      /\ Queued' = Queued \cup ({v} \ {Null}) /\ Once(fifo')
  BY SettledHands DEF LoopInv, OneHolder, InHand
<1>3. InHand' = InHand \cup ({v} \ {Null})
  BY <1>1, <1>2 DEF InHand
<1>4. HandsBounded'
  <2>1. Processed \subseteq Jobs
    BY DEF Processed
  <2>2. Cardinality(Processed) \in Nat /\ Concurrency \in Nat
    BY <2>1, JobSets, Constants
  <2> QED
    BY <1>1, <1>2, <2>2 DEF LoopInv, HandsBounded, NumTotal
<1>5. InProgressTracked'
  BY <1>1, <1>3 DEF LoopInv, InProgressTracked
<1>6. OneHolder'
  BY <1>1, <1>2, <1>3 DEF LoopInv, OneHolder, InHand
<1> QED
  BY <1>3, <1>4, <1>5, <1>6

\* The promise of a job resolves: its place goes to the job that was chained, if any.
LEMMA ResolveKeeps ==
  ASSUME LoopInv, TypeOK', NEW j \in Processed, NEW v \in Values, Resolve(j, v),
         v \notin InHand,
         lost' \cap ((InHand \ {j}) \cup ({v} \ {Null})) = {},
         \A k \in Jobs : store'[k] = "locked" <=>
                           k \in (InHand \ {j}) \cup ({v} \ {Null}) \cup lost'
  PROVE  LoopInv'
<1>1. /\ work' = [work EXCEPT ![j] = "none"] /\ tracked' = (tracked \cup ({v} \ {Null})) \ {j}
      /\ Settled(v) /\ UNCHANGED <<loop, closer, stopping, aborted, expired>>
  BY DEF Resolve, closing
<1>2. Processed' = Processed \ {j} /\ Processed \subseteq Jobs
  BY <1>1 DEF Processed, LoopInv, TypeOK
<1>3. /\ Len(fifo) \in Nat /\ Len(fifo') = Len(fifo) + 1
      /\ Queued' = Queued \cup ({v} \ {Null}) /\ Once(fifo')
  BY <1>1, SettledHands DEF LoopInv, OneHolder, InHand
<1>4. j \notin Queued /\ j # v
  BY DEF LoopInv, OneHolder, InHand
<1>5. InHand' = (InHand \ {j}) \cup ({v} \ {Null})
  BY <1>2, <1>3, <1>4 DEF InHand
<1>6. HandsBounded'
  <2>1. Cardinality(Processed) \in Nat /\ Concurrency \in Nat
        /\ Cardinality(Processed') = Cardinality(Processed) - 1
    BY <1>2, JobSets, Constants
  <2> QED
    BY <1>1, <1>3, <2>1 DEF LoopInv, HandsBounded, NumTotal
<1>7. InProgressTracked'
  BY <1>1, <1>2, <1>5 DEF LoopInv, InProgressTracked
<1>8. OneHolder'
  BY <1>2, <1>3, <1>5 DEF LoopInv, OneHolder, InHand
<1>9. EmptyHanded'
  BY <1>1 DEF LoopInv, EmptyHanded
<1>10. CloserSeen'
  BY <1>1 DEF LoopInv, CloserSeen, InHand
<1> QED
  BY <1>6, <1>7, <1>8, <1>9, <1>10 DEF LoopInv

\* Nothing in the queue is nothing of it in hand.
LEMMA EmptyQueue ==
  ASSUME fifo = <<>>
  PROVE  Queued = {} /\ InHand = Processed
BY DEF Queued, InHand

\* The sweep unlocks jobs that nobody has.
LEMMA SweepKeepsAccount ==
  ASSUME LoopInv, TypeOK', CheckStalled \/ Started
  PROVE  LoopInv'
<1>1. PICK S \in SUBSET lost : Recover(S)
  BY DEF CheckStalled, Started
<1>2. /\ UNCHANGED <<fifo, work, tracked, closer, stopping, aborted, expired>>
      /\ loop' = loop \/ (loop = "check" /\ loop' = "top")
  BY DEF CheckStalled, Started, processing, closing
<1>3. Processed' = Processed
  BY <1>2 DEF Processed
<1>4. /\ lost' = lost \ S
      /\ \A j \in Jobs : /\ j \in S => store'[j] # "locked"
                         /\ j \notin S => store'[j] = store[j]
  BY <1>1 DEF Recover
<1>5. /\ lost' \cap InHand = {}
      /\ \A j \in Jobs : store'[j] = "locked" <=> j \in InHand \cup lost'
  BY <1>4 DEF LoopInv, OneHolder
<1>6. loop' \in Fetches => loop \in Fetches
  BY <1>2 DEF Fetches
<1>7. HandsBounded' /\ InProgressTracked' /\ OneHolder' /\ InHand' = InHand
  BY <1>2, <1>3, <1>5, <1>6, HandsSame
<1>8. EmptyHanded' /\ CloserSeen'
  BY <1>2, <1>3, <1>7 DEF LoopInv, EmptyHanded, CloserSeen, Fetches
<1> QED
  BY <1>7, <1>8 DEF LoopInv

\* The loop goes on, and asks for a job only when there is room for it.
LEMMA LoopKeepsAccount ==
  ASSUME LoopInv, TypeOK', Run \/ Iterate \/ Resume
  PROVE  LoopInv'
<1>1. /\ UNCHANGED <<fifo, work, tracked, store, lost, closer, stopping, aborted, expired>>
      /\ loop \notin {"ended", "batch", "blocking"} \cup Fetches
  BY DEF Run, Iterate, Resume, server, processing, closing, Fetches
<1>2. /\ loop' \in Fetches \cup {"batch"} => ~stopping /\ NumTotal < Concurrency
      /\ loop' \in {"batch", "ended"} => NumTotal = 0
      /\ loop' \notin {"off", "blocking"}
  BY DEF Run, Iterate, Resume, CanFetch, LoopOver, Fetches
<1>3. Processed' = Processed
  BY <1>1 DEF Processed
<1>4. /\ lost' \cap InHand = {}
      /\ \A j \in Jobs : store'[j] = "locked" <=> j \in InHand \cup lost'
  BY <1>1 DEF LoopInv, OneHolder
<1>5. HandsBounded' /\ InProgressTracked' /\ OneHolder' /\ InHand' = InHand
  BY <1>1, <1>2, <1>3, <1>4, HandsSame
<1>6. NumTotal = 0 => Processed = {} /\ fifo = <<>> /\ InHand = {}
  BY CountZero DEF LoopInv
<1>7. EmptyHanded'
  BY <1>1, <1>2, <1>3, <1>6 DEF EmptyHanded
<1>8. CloserSeen'
  BY <1>1, <1>2, <1>5, <1>6 DEF LoopInv, CloserSeen
<1> QED
  BY <1>5, <1>7, <1>8 DEF LoopInv

\* close() sees the flag of the loop, which ends only when nothing is in hand.
LEMMA ClosingKeepsAccount ==
  ASSUME LoopInv, TypeOK', Closing
  PROVE  LoopInv'
<1>1. CASE /\ UNCHANGED <<fifo, work, store, lost, aborted>>
           /\ tracked' = tracked \/ closer' = "closed"
           /\ loop' = loop /\ closer # "closed" /\ stopping'
           /\ closer' = "closed" => /\ expired' = (loop \notin {"off", "ended"})
  <2>1. Processed' = Processed
    BY <1>1 DEF Processed
  <2>2. /\ lost' \cap InHand = {}
        /\ \A j \in Jobs : store'[j] = "locked" <=> j \in InHand \cup lost'
    BY <1>1 DEF LoopInv, OneHolder
  <2>3. HandsBounded' /\ InProgressTracked' /\ OneHolder' /\ InHand' = InHand
    BY <1>1, <2>1, <2>2, HandsSame
  <2>4. EmptyHanded'
    BY <1>1, <2>1 DEF LoopInv, EmptyHanded
  <2>5. loop = "off" => InHand = {}
    BY EmptyQueue DEF LoopInv, EmptyHanded
  <2>6. CloserSeen'
    BY <1>1, <2>3, <2>5 DEF LoopInv, CloserSeen, Fetches
  <2> QED
    BY <2>3, <2>4, <2>6 DEF LoopInv
<1>2. CASE /\ EndGrace /\ loop = "blocking" /\ loop' = "ended" /\ Settled(Null)
  <2>1. /\ UNCHANGED <<work, tracked, store, lost, stopping, aborted, expired>>
        /\ closer = "grace" /\ closer' = "race"
    BY <1>2 DEF EndGrace, server, processing
  <2>2. InHand = {}
    BY <1>2, EmptyQueue DEF LoopInv, EmptyHanded
  <2>3. /\ loop \in Fetches /\ loop' \notin Fetches /\ Null \in Values
        /\ lost' \cap (InHand \cup ({Null} \ {Null})) = {}
        /\ \A j \in Jobs :
             store'[j] = "locked" <=> j \in InHand \cup ({Null} \ {Null}) \cup lost'
    BY <1>2, <2>1 DEF LoopInv, OneHolder, Fetches, Values
  <2>4. /\ HandsBounded' /\ InProgressTracked' /\ OneHolder'
        /\ InHand' = InHand \cup ({Null} \ {Null})
    BY <1>2, <2>1, <2>2, <2>3, FetchSettles
  <2>5. EmptyHanded' /\ CloserSeen'
    BY <1>2, <2>1, <2>2, <2>4 DEF LoopInv, EmptyHanded, CloserSeen
  <2> QED
    BY <2>4, <2>5 DEF LoopInv
<1>3. CASE Close \/ ClearTimers \/ EndRace
  BY <1>1, <1>3
    DEF Close, ClearTimers, EndRace, server, processing, LoopInv, CloserSeen
<1>4. CASE EndGrace
  BY <1>1, <1>2, <1>4 DEF EndGrace, server, processing, LoopInv, CloserSeen
<1> QED
  BY <1>3, <1>4 DEF Closing

\* fetch() hands a job over to processJob().
LEMMA TakeKeepsAccount ==
  ASSUME LoopInv, TypeOK', Take
  PROVE  LoopInv'
<1>1. /\ fifo' = SubSeq(fifo, FirstJob + 1, Len(fifo))
      /\ Queued = {} => UNCHANGED <<work, tracked>>
      /\ Queued # {} => /\ work' = [work EXCEPT ![fifo[FirstJob]] = "handle"]
                        /\ tracked' = tracked \cup {fifo[FirstJob]}
      /\ loop = "take" /\ loop' = "top"
      /\ UNCHANGED <<store, lost, closer, stopping, aborted, expired>>
  BY DEF Take, server, closing
<1>2. /\ fifo \in Seq(Values) /\ Len(fifo) \in Nat /\ Queued = Entries(fifo) /\ Once(fifo)
      /\ Queued' = Entries(fifo') /\ Processed \subseteq Jobs
  BY DEF LoopInv, OneHolder, TypeOK, Values, Queued, Entries, Processed
<1>3. /\ Cardinality(Processed) \in Nat /\ Concurrency \in Nat
      /\ \A j : Cardinality(Processed \cup {j}) <= Cardinality(Processed) + 1
  BY <1>2, JobSets, Constants
<1>4. CASE Queued = {}
  <2>1. FirstJob = Len(fifo)
    BY <1>4, FirstJobFound DEF LoopInv
  <2>2. fifo' = <<>>
    <3>1. Len(fifo) + 1 \in Int /\ Len(fifo) \in Int /\ Len(fifo) < Len(fifo) + 1
      BY <1>2
    <3>2. SubSeq(fifo, Len(fifo) + 1, Len(fifo)) = <<>>
      BY <3>1, SubSeqEmpty
    <3> QED
      BY <1>1, <2>1, <3>2
  <2>3. Processed' = Processed /\ Queued' = {} /\ InHand' = InHand
    <3>1. Processed' = Processed
      BY <1>1, <1>4 DEF Processed
    <3>2. Queued' = {}
      BY <2>2 DEF Queued
    <3> QED
      BY <1>4, <3>1, <3>2 DEF InHand
  <2>4. HandsBounded'
    <3>1. Len(fifo') = 0 /\ loop' \notin Fetches /\ loop \notin Fetches
      BY <1>1, <2>2 DEF Fetches
    <3> QED
      BY <1>2, <1>3, <2>3, <3>1 DEF LoopInv, HandsBounded, NumTotal
  <2>5. InProgressTracked' /\ OneHolder'
    <3>1. Once(fifo')
      BY <2>2 DEF Once
    <3> QED
      BY <1>1, <1>4, <2>3, <3>1 DEF LoopInv, InProgressTracked, OneHolder
  <2>6. EmptyHanded' /\ CloserSeen'
    BY <1>1, <2>3 DEF LoopInv, EmptyHanded, CloserSeen, Fetches
  <2> QED
    BY <2>4, <2>5, <2>6 DEF LoopInv
<1>5. CASE Queued # {}
  <2> DEFINE n == FirstJob
             j == fifo[FirstJob]
  <2>1. n \in 1..Len(fifo) /\ j \in Jobs /\ j # Null /\ \A i \in 1..n - 1 : fifo[i] = Null
    BY <1>5, FirstJobFound DEF LoopInv
  <2>2. /\ Len(fifo') = Len(fifo) - n /\ Queued' = Queued \ {j} /\ j \in Queued /\ Once(fifo')
    BY <1>1, <1>2, <2>1, SuffixEntries
  <2>3. Processed' = Processed \cup {j}
    BY <1>1, <1>5, <2>1 DEF LoopInv, TypeOK, Processed
  <2>4. InHand' = InHand
    BY <2>2, <2>3 DEF InHand
  <2>5. HandsBounded'
    <3>1. Cardinality(Processed') <= Cardinality(Processed) + 1 /\ Cardinality(Processed') \in Nat
      BY <1>2, <1>3, <2>1, <2>3, JobSets
    <3>2. Len(fifo') <= Len(fifo) - 1 /\ Len(fifo') \in Int
      BY <1>2, <2>1, <2>2
    <3>3. loop' \notin Fetches /\ loop \notin Fetches
      BY <1>1 DEF Fetches
    <3> QED
      BY <1>2, <1>3, <3>1, <3>2, <3>3 DEF LoopInv, HandsBounded, NumTotal
  <2>6. InProgressTracked'
    BY <1>1, <1>5, <2>2, <2>3, <2>4 DEF LoopInv, InProgressTracked, InHand
  <2>7. OneHolder'
    BY <1>1, <2>2, <2>3, <2>4 DEF LoopInv, OneHolder
  <2>8. EmptyHanded' /\ CloserSeen'
    BY <1>1, <2>4 DEF LoopInv, EmptyHanded, CloserSeen, Fetches
  <2> QED
    BY <2>5, <2>6, <2>7, <2>8 DEF LoopInv
<1> QED
  BY <1>4, <1>5

\* A job at the head of its group is waiting, so nobody has it.
LEMMA HeadsFree ==
  ASSUME LoopInv
  PROVE  /\ Heads \subseteq Jobs /\ Heads \cap (InHand \cup lost) = {}
         /\ \A j \in Jobs : WaitingWith(j) \cap (InHand \cup lost) = {}
<1>1. \A j \in Jobs : store[j] = "waiting" => j \notin InHand \cup lost
  BY DEF LoopInv, OneHolder
<1> QED
  BY <1>1 DEF Heads, WaitingWith

\* A reply to reserve, reserveBlocking or a strategy.
LEMMA FetchKeepsAccount ==
  ASSUME LoopInv, TypeOK',
         FetchAnswers \/ FetchEmpty \/ StrategyThrows \/ (FetchFails /\ loop # "batch")
  PROVE  LoopInv'
<1>1. /\ UNCHANGED <<work, tracked, closer, stopping, expired>>
      /\ loop \in Fetches /\ loop' \in {"inner", "take", "pause", "ended"}
      /\ loop' = "ended" => stopping /\ aborted'
      /\ aborted' => aborted \/ loop' = "ended"
      /\ aborted => aborted' \/ ~stopping
  BY DEF FetchAnswers, FetchEmpty, StrategyThrows, FetchFails, Rejects, Fetches, processing,
     closing
<1>2. \E v \in Values, S \in SUBSET Heads :
        /\ Settled(v) /\ v \in S \cup {Null}
        /\ store' = Put(S, "locked") /\ lost' = lost \cup (S \ {v})
  <2>1. CASE FetchAnswers
    <3>1. PICK j \in Heads \ Torn : store' = Put({j}, "locked") /\ Settled(j) /\ lost' = lost
      BY <2>1 DEF FetchAnswers
    <3>2. {j} \in SUBSET Heads /\ j \in Values /\ {j} \ {j} = {}
      BY <3>1, HeadsFree DEF Values
    <3> QED
      BY <3>1, <3>2
  <2>2. CASE FetchEmpty
    <3>1. Settled(Null) /\ Null \in Values /\ Null \notin Heads
      BY <2>2, HeadsFree, Constants DEF FetchEmpty, Values
    <3>2. CASE UNCHANGED <<store, lost>>
      <4>1. store' = Put({}, "locked")
        BY <3>2 DEF Put, LoopInv, TypeOK
      <4> QED
        BY <3>1, <3>2, <4>1
    <3>3. ASSUME NEW j \in Heads, store' = Put({j}, "locked"), lost' = lost \cup {j}
          PROVE  \E S \in SUBSET Heads :
                   store' = Put(S, "locked") /\ lost' = lost \cup (S \ {Null})
      <4>1. {j} \in SUBSET Heads /\ {j} \ {Null} = {j}
        BY <3>1
      <4> QED
        BY <3>3, <4>1
    <3> QED
      BY <2>2, <3>1, <3>2, <3>3 DEF FetchEmpty, LockedUnseen
  <2>3. CASE StrategyThrows \/ (FetchFails /\ loop # "batch")
    <3>1. Settled(Null) /\ Null \in Values /\ Null \notin Heads
      BY <2>3, HeadsFree, Constants DEF StrategyThrows, FetchFails, Rejects, Values
    <3>2. PICK S \in SUBSET Heads : store' = Put(S, "locked") /\ lost' = lost \cup S
      BY <2>3 DEF StrategyThrows, FetchFails, LockedUnseen
    <3>3. S \in SUBSET Heads /\ S \ {Null} = S
      BY <3>1, <3>2
    <3> QED
      BY <3>1, <3>2, <3>3
  <2> QED
    BY <2>1, <2>2, <2>3
<1>3. PICK v \in Values, S \in SUBSET Heads :
        /\ Settled(v) /\ v \in S \cup {Null}
        /\ store' = Put(S, "locked") /\ lost' = lost \cup (S \ {v})
  BY <1>2
<1>4. /\ S \subseteq Jobs /\ S \cap (InHand \cup lost) = {} /\ Null \notin Jobs
      /\ v \notin InHand
  BY <1>3, HeadsFree, Constants DEF LoopInv, TypeOK, InHand, Processed, Queued
<1>5. lost' \cap (InHand \cup ({v} \ {Null})) = {}
  BY <1>3, <1>4 DEF LoopInv, OneHolder
<1>6. \A j \in Jobs : store'[j] = "locked" <=> j \in InHand \cup ({v} \ {Null}) \cup lost'
  <2>1. \A j \in Jobs : store'[j] = IF j \in S THEN "locked" ELSE store[j]
    BY <1>3 DEF Put
  <2>2. S = ({v} \ {Null}) \cup (S \ {v})
    BY <1>3, <1>4
  <2> QED
    BY <1>3, <2>1, <2>2 DEF LoopInv, OneHolder
<1>7. loop' \notin Fetches /\ loop' \notin {"off", "batch", "blocking"}
  BY <1>1 DEF Fetches
<1>8. HandsBounded' /\ InProgressTracked' /\ OneHolder' /\ InHand' = InHand \cup ({v} \ {Null})
  BY <1>1, <1>3, <1>4, <1>5, <1>6, <1>7, FetchSettles
<1>9. EmptyHanded' /\ CloserSeen'
  BY <1>1, <1>7 DEF EmptyHanded, LoopInv, CloserSeen, Fetches
<1> QED
  BY <1>8, <1>9 DEF LoopInv

\* A reply to reserveBatch(): the worker holds nothing, and asked for no more than there
\* is room for.
LEMMA BatchKeepsAccount ==
  ASSUME LoopInv, TypeOK', BatchAnswers
  PROVE  LoopInv'
<1> DEFINE room == {Concurrency - NumTotal, 8, Cardinality(Heads)}
<1>0. Batches = kSubset(Min(room), Heads)
  BY DEF Batches
<1>1. PICK S \in kSubset(Min(room), Heads) :
        /\ store' = Put(S, "locked") /\ lost' = lost \cup (S \ Readable(S))
        /\ fifo' = fifo \o SetToSeq(Readable(S))
        /\ loop' \in {"inner", "blocking", "reserve"}
        /\ loop' # "inner" => Readable(S) = {}
  BY <1>0 DEF BatchAnswers
<1>2. /\ loop = "batch" /\ Processed = {} /\ fifo = <<>> /\ InHand = {}
      /\ UNCHANGED <<work, tracked, closer, stopping, aborted, expired>>
  BY EmptyQueue DEF BatchAnswers, processing, closing, LoopInv, EmptyHanded
<1>3. /\ S \subseteq Heads /\ Heads \subseteq Jobs /\ S \subseteq Jobs /\ S \cap lost = {}
      /\ Readable(S) \subseteq S /\ Cardinality(S) = Min(room)
  BY <1>1, HeadsFree DEF kSubset, Readable
<1>4. NumTotal = 0
  BY <1>2, FS_EmptySet DEF NumTotal, Fetches
<1>5. Cardinality(S) <= Concurrency
  <2>1. room \subseteq Nat /\ room # {} /\ Concurrency \in room
    BY <1>3, <1>4, JobSets, Constants
  <2> HIDE DEF room
  <2> QED
    BY <1>3, <2>1, MinOf
<1>6. /\ fifo' \in Seq(Values) /\ Len(fifo') = Cardinality(Readable(S))
      /\ Entries(fifo') = Readable(S) /\ Once(fifo')
  <2>1. Readable(S) \subseteq Jobs
    BY <1>3
  <2>2. SetToSeq(Readable(S)) \in Seq(Values)
    BY <2>1, ListedEntries
  <2>3. fifo' = SetToSeq(Readable(S))
    BY <1>1, <1>2, <2>2
  <2> QED
    BY <2>1, <2>3, ListedEntries
<1>7. /\ Processed' = {} /\ Queued' = Readable(S) /\ InHand' = Readable(S)
  <2>1. Processed' = Processed
    BY <1>2 DEF Processed
  <2>2. Queued' = Entries(fifo')
    BY DEF Queued, Entries
  <2> QED
    BY <1>2, <1>6, <2>1, <2>2 DEF InHand
<1>8. HandsBounded'
  <2>1. Cardinality(Processed') = 0
    BY <1>7, FS_EmptySet
  <2>2. Cardinality(Readable(S)) <= Cardinality(S) /\ Cardinality(Readable(S)) \in Nat
    <3>1. Readable(S) \in SUBSET S /\ IsFiniteSet(S)
      BY <1>3, JobSets
    <3> QED
      BY <3>1, FS_Subset, FS_CardinalityType
  <2>3. loop' \in Fetches => Cardinality(Readable(S)) = 0
    BY <1>1, FS_EmptySet DEF Fetches
  <2>4. Concurrency \in Nat \ {0} /\ Cardinality(S) \in Nat
    BY <1>3, JobSets, Constants
  <2> QED
    BY <1>5, <1>6, <2>1, <2>2, <2>3, <2>4 DEF HandsBounded, NumTotal
<1>9. InProgressTracked'
  BY <1>2, <1>7 DEF LoopInv, InProgressTracked
<1>10. OneHolder'
  <2>1. \A j \in Jobs : store'[j] = IF j \in S THEN "locked" ELSE store[j]
    BY <1>1 DEF Put
  <2> QED
    BY <1>1, <1>2, <1>3, <1>6, <1>7, <2>1 DEF LoopInv, OneHolder
<1>11. EmptyHanded'
  <2>1. ASSUME loop' = "blocking"
        PROVE  fifo' = <<>>
    <3>1. Len(fifo') = 0
      BY <1>1, <1>6, <2>1, FS_EmptySet
    <3> QED
      BY <1>6, <3>1
  <2> QED
    BY <1>1, <1>7, <2>1 DEF EmptyHanded
<1>12. CloserSeen'
  BY <1>1, <1>2 DEF LoopInv, CloserSeen, Fetches
<1> QED
  BY <1>8, <1>9, <1>10, <1>11, <1>12 DEF LoopInv

\* A torn reply inside reserveBlocking(): the worker holds nothing and asks again.
LEMMA BlockingKeepsAccount ==
  ASSUME LoopInv, TypeOK', BlockingGoesOn
  PROVE  LoopInv'
<1>1. /\ UNCHANGED <<fifo, work, tracked, closer, stopping, aborted, expired>>
      /\ loop = "blocking" /\ loop' \in {"blocking", "reserve"}
  BY DEF BlockingGoesOn, processing, closing
<1>2. PICK j \in Heads : store' = Put({j}, "locked") /\ lost' = lost \cup {j}
  BY DEF BlockingGoesOn, LockedUnseen
<1>3. j \in Jobs /\ j \notin InHand \cup lost
  BY <1>2, HeadsFree
<1>4. /\ lost' \cap InHand = {}
      /\ \A k \in Jobs : store'[k] = "locked" <=> k \in InHand \cup lost'
  BY <1>2, <1>3 DEF Put, LoopInv, OneHolder
<1>5. Processed' = Processed /\ loop \in Fetches /\ loop' \in Fetches
  BY <1>1 DEF Processed, Fetches
<1>6. HandsBounded' /\ InProgressTracked' /\ OneHolder' /\ InHand' = InHand
  BY <1>1, <1>4, <1>5, HandsSame
<1>7. EmptyHanded' /\ CloserSeen'
  BY <1>1, <1>5, <1>6 DEF EmptyHanded, LoopInv, CloserSeen, Fetches
<1> QED
  BY <1>6, <1>7 DEF LoopInv

\* A batch that fails leaves its jobs to the sweep.
LEMMA BatchFailureKeepsAccount ==
  ASSUME LoopInv, TypeOK', FetchFails, loop = "batch"
  PROVE  LoopInv'
<1>1. PICK S \in SUBSET Heads : store' = Put(S, "locked") /\ lost' = lost \cup S
  BY DEF FetchFails, Batches, kSubset, LockedUnseen
<1>2. /\ UNCHANGED <<fifo, work, tracked, closer, stopping, expired>>
      /\ loop' = (IF stopping THEN "ended" ELSE "pause") /\ aborted' = stopping
  BY DEF FetchFails, Rejects, processing
<1>3. S \subseteq Jobs /\ S \cap (InHand \cup lost) = {}
  BY <1>1, HeadsFree
<1>4. /\ lost' \cap InHand = {}
      /\ \A j \in Jobs : store'[j] = "locked" <=> j \in InHand \cup lost'
  BY <1>1, <1>3 DEF Put, LoopInv, OneHolder
<1>5. Processed' = Processed /\ (loop' \in Fetches => loop \in Fetches)
  BY <1>2 DEF Processed, Fetches
<1>6. HandsBounded' /\ InProgressTracked' /\ OneHolder' /\ InHand' = InHand
  BY <1>2, <1>4, <1>5, HandsSame
<1>7. EmptyHanded' /\ CloserSeen'
  BY <1>2 DEF EmptyHanded, LoopInv, CloserSeen, Fetches
<1> QED
  BY <1>6, <1>7 DEF LoopInv

\* The handler ends, and the calls behind it are answered or fail.
LEMMA ProcessKeepsAccount ==
  ASSUME LoopInv, TypeOK', NEW j \in Jobs, Process(j) \/ CompleteFails(j) \/ FailureFails(j)
  PROVE  LoopInv'
<1>1. CASE HandlerEnds(j)
  <2>1. /\ UNCHANGED <<store, lost, loop, fifo, tracked, closer, stopping, aborted, expired>>
        /\ \A k \in Jobs : work'[k] = "none" <=> work[k] = "none"
    BY <1>1 DEF HandlerEnds, server, closing, LoopInv, TypeOK
  <2>2. Processed' = Processed
    BY <2>1 DEF Processed
  <2>3. /\ lost' \cap InHand = {}
        /\ \A k \in Jobs : store'[k] = "locked" <=> k \in InHand \cup lost'
    BY <2>1 DEF LoopInv, OneHolder
  <2>4. HandsBounded' /\ InProgressTracked' /\ OneHolder' /\ InHand' = InHand
    BY <2>1, <2>2, <2>3, HandsSame
  <2>5. EmptyHanded' /\ CloserSeen'
    BY <2>1, <2>2, <2>4 DEF EmptyHanded, LoopInv, CloserSeen
  <2> QED
    BY <2>4, <2>5 DEF LoopInv
<1>2. ASSUME work[j] # "none", NEW next \in Values, NEW v \in Values,
             next = Null \/ next \in WaitingWith(j), v \in {next, Null},
             Resolve(j, v),
             \/ /\ \A k \in Jobs : store'[k] = IF k = j THEN "done"
                                               ELSE IF k = next THEN "locked" ELSE store[k]
                /\ lost' = lost \cup ({next} \ {v, Null})
             \/ next = Null /\ lost' = lost \cup {j} /\ store' = store
             \/ next = Null /\ lost' = lost /\ store'[j] # "locked"
                            /\ \A k \in Jobs \ {j} : store'[k] = store[k]
      PROVE  LoopInv'
  <2>1. j \in Processed /\ j \in InHand /\ j \notin lost
    BY <1>2 DEF Processed, InHand, LoopInv, OneHolder
  <2>2. /\ next \notin InHand \cup lost /\ next # j /\ Null \notin Jobs
        /\ InHand \subseteq Jobs /\ lost \subseteq Jobs
    BY <1>2, <2>1, HeadsFree, Constants DEF LoopInv, TypeOK, InHand, Processed, Queued
  <2>3. v \notin InHand
    BY <1>2, <2>2
  <2>4. lost' \cap ((InHand \ {j}) \cup ({v} \ {Null})) = {}
    BY <1>2, <2>1, <2>2 DEF LoopInv, OneHolder
  <2>5. \A k \in Jobs : store'[k] = "locked" <=>
                          k \in (InHand \ {j}) \cup ({v} \ {Null}) \cup lost'
    BY <1>2, <2>1, <2>2 DEF LoopInv, OneHolder
  <2> QED
    BY <1>2, <2>1, <2>3, <2>4, <2>5, ResolveKeeps
<1>3. CASE CompleteAnswers(j)
  <2> DEFINE rest == IF NumTotal <= Concurrency THEN WaitingWith(j) ELSE {}
             next == IF rest = {} THEN Null ELSE Min(rest)
             v    == IF next \in Torn THEN Null ELSE next
  <2>1. next = Null \/ next \in WaitingWith(j)
    BY FirstWaiting
  <2>2. next \in Values /\ v \in Values /\ Null \notin Torn
    BY <2>1, Constants DEF Values, WaitingWith
  <2>3. /\ store' = [k \in Jobs |-> IF k = j THEN "done"
                                  ELSE IF k = next THEN "locked" ELSE store[k]]
        /\ lost' = lost \cup ({next} \cap Torn) /\ Resolve(j, v) /\ work[j] # "none"
    BY <1>3 DEF CompleteAnswers
  <2> HIDE DEF next
  <2>4. {next} \cap Torn = {next} \ {v, Null} /\ v \in {next, Null}
    BY <2>2
  <2> QED
    BY <1>2, <2>1, <2>2, <2>3, <2>4
<1>4. CASE CompleteFails(j)
  <2>1. work[j] # "none" /\ Resolve(j, Null) /\ Null \in Values
    BY <1>4 DEF CompleteFails, Values
  <2>2. CASE store' = store /\ lost' = lost \cup {j}
    BY <1>2, <2>1, <2>2
  <2>3. CASE store' = Put({j}, "done") /\ lost' = lost
    BY <1>2, <2>1, <2>3 DEF Put
  <2>4. CASE /\ WaitingWith(j) # {}
             /\ store' = [Put({j}, "done") EXCEPT ![Min(WaitingWith(j))] = "locked"]
             /\ lost' = lost \cup {Min(WaitingWith(j))}
    <3> DEFINE next == Min(WaitingWith(j))
    <3>1. next \in WaitingWith(j)
      BY <2>4, FirstWaiting
    <3>2. store' = [Put({j}, "done") EXCEPT ![next] = "locked"] /\ lost' = lost \cup {next}
      BY <2>4
    <3> HIDE DEF next
    <3>3. next \in Jobs /\ next # j /\ next # Null
      BY <2>1, <3>1, HeadsFree, Constants DEF WaitingWith, InHand, Processed
    <3>4. \A k \in Jobs : store'[k] = IF k = j THEN "done"
                                      ELSE IF k = next THEN "locked" ELSE store[k]
      BY <3>2, <3>3 DEF Put
    <3>5. next \in Values /\ {next} \ {Null, Null} = {next}
      BY <3>3 DEF Values
    <3> QED
      BY <1>2, <2>1, <3>1, <3>2, <3>4, <3>5
  <2> QED
    BY <1>4, <2>2, <2>3, <2>4 DEF CompleteFails
<1>5. CASE FailureAnswers(j)
  <2>1. work[j] # "none" /\ Resolve(j, Null) /\ Null \in Values /\ lost' = lost
    BY <1>5 DEF FailureAnswers, Values
  <2>2. store'[j] # "locked" /\ \A k \in Jobs \ {j} : store'[k] = store[k]
    BY <1>5 DEF FailureAnswers, Put
  <2> QED
    BY <1>2, <2>1, <2>2
<1>6. CASE FailureFails(j)
  <2>1. /\ work[j] # "none" /\ Resolve(j, Null) /\ Null \in Values
        /\ store' = store /\ lost' = lost \cup {j}
    BY <1>6 DEF FailureFails, Values
  <2> QED
    BY <1>2, <2>1
<1> QED
  BY <1>1, <1>3, <1>4, <1>5, <1>6 DEF Process

\* Every step keeps the account.
LEMMA NextKeepsAccount ==
  ASSUME LoopInv, TypeOK', [Next]_vars
  PROVE  LoopInv'
<1>1. CASE Loop
  BY <1>1, SweepKeepsAccount, LoopKeepsAccount, BatchKeepsAccount, FetchKeepsAccount,
     BlockingKeepsAccount, TakeKeepsAccount DEF Loop
<1>2. CASE CheckStalled \/ Closing
  BY <1>2, SweepKeepsAccount, ClosingKeepsAccount
<1>3. CASE Fault
  BY <1>3, FetchKeepsAccount, BatchFailureKeepsAccount, ProcessKeepsAccount DEF Fault
<1>4. ASSUME NEW j \in Jobs, Process(j)
      PROVE  LoopInv'
  BY <1>4, ProcessKeepsAccount
<1>5. CASE UNCHANGED vars
  <2>1. UNCHANGED <<store, lost, loop, fifo, work, tracked, closer, stopping, aborted, expired>>
    BY <1>5 DEF vars, server, processing, closing
  <2>2. Processed' = Processed /\ lost' \cap InHand = {}
    BY <2>1 DEF Processed, LoopInv, OneHolder
  <2>3. \A j \in Jobs : store'[j] = "locked" <=> j \in InHand \cup lost'
    BY <2>1 DEF LoopInv, OneHolder
  <2>4. HandsBounded' /\ InProgressTracked' /\ OneHolder' /\ InHand' = InHand
    BY <2>1, <2>2, <2>3, HandsSame
  <2>5. EmptyHanded' /\ CloserSeen'
    BY <2>1, <2>2, <2>4 DEF EmptyHanded, LoopInv, CloserSeen
  <2> QED
    BY <2>4, <2>5 DEF LoopInv
<1> QED
  BY <1>1, <1>2, <1>3, <1>4, <1>5 DEF Next

\* A worker starts with nothing; what is locked then, a crashed worker has left.
LEMMA InitKeepsAccount ==
  ASSUME Init
  PROVE  HandsBounded /\ InProgressTracked /\ OneHolder /\ EmptyHanded /\ CloserSeen
<1>1. fifo = <<>> /\ Processed = {} /\ loop = "off"
  BY DEF Init, Processed
<1>2. Queued = {} /\ InHand = {}
  BY <1>1, EmptyQueue
<1>3. HandsBounded
  BY <1>1, FS_EmptySet, Constants DEF HandsBounded, NumTotal, Fetches
<1>4. OneHolder
  <2>1. Once(fifo)
    BY <1>1 DEF Once
  <2> QED
    BY <1>1, <1>2, <2>1 DEF Init, OneHolder
<1>5. InProgressTracked /\ EmptyHanded /\ CloserSeen
  BY <1>1, <1>2 DEF Init, InProgressTracked, EmptyHanded, CloserSeen, Fetches
<1> QED
  BY <1>3, <1>4, <1>5

\* The account holds at all times.
LEMMA AccountInvariance == Spec => []LoopInv
<1>1. Init => HandsBounded /\ InProgressTracked /\ OneHolder /\ EmptyHanded /\ CloserSeen
  BY InitKeepsAccount
<1>2. LoopInv /\ TypeOK' /\ [Next]_vars => LoopInv'
  BY NextKeepsAccount
<1>3. LoopInv <=> TypeOK /\ HandsBounded /\ InProgressTracked /\ OneHolder /\ EmptyHanded
                    /\ CloserSeen
  BY DEF LoopInv
<1> QED
  BY <1>1, <1>2, <1>3, TypeCorrect, PTL DEF Spec

\* The loop, the queue and jobsInProgress keep one account of what is in hand: at most
\* Concurrency promises, everything at work tracked until close() forgets it, and nothing
\* in hand after a close() that saw the loop end without an error.
THEOREM HandsAccountedHolds == Spec => []HandsAccounted
<1>1. LoopInv => HandsAccounted
  BY DEF LoopInv, HandsAccounted, CloserSeen, CleanClose
<1> QED
  BY <1>1, AccountInvariance, PTL

\* A job is in as many places of the queue as it has entries there.
LEMMA PlacesCounted ==
  ASSUME TypeOK, Once(fifo), NEW j \in Jobs
  PROVE  Cardinality({i \in DOMAIN fifo : fifo[i] = j}) = IF j \in Queued THEN 1 ELSE 0
<1> DEFINE places == {i \in DOMAIN fifo : fifo[i] = j}
<1>1. j # Null
  BY Constants
<1>2. CASE j \in Queued
  <2>1. PICK i \in DOMAIN fifo : fifo[i] = j
    BY <1>2 DEF Queued
  <2>2. places = {i}
    BY <1>1, <2>1 DEF Once
  <2>3. \A x : Cardinality({x}) = 1
    BY FS_Singleton
  <2>4. Cardinality(places) = 1
    BY <2>2, <2>3
  <2> QED
    BY <1>2, <2>4
<1>3. CASE j \notin Queued
  <2>1. places = {}
    BY <1>1, <1>3 DEF Queued
  <2>2. Cardinality(places) = 0
    BY <2>1, FS_EmptySet
  <2> QED
    BY <1>3, <2>2
<1> QED
  BY <1>2, <1>3

\* A job is locked exactly when one place of the queue or one promise has it, or a failed
\* call or an unreadable reply lost it: no job is worked on twice, and no healthy call
\* leaves a lock behind.
THEOREM EveryLockHeldHolds == Spec => []EveryLockHeld
<1>1. LoopInv => EveryLockHeld
  <2> SUFFICES ASSUME LoopInv, NEW j \in Jobs
               PROVE  Cardinality({i \in DOMAIN fifo : fifo[i] = j})
                        + (IF j \in Processed THEN 1 ELSE 0) + (IF j \in lost THEN 1 ELSE 0)
                      = (IF store[j] = "locked" THEN 1 ELSE 0)
    BY DEF EveryLockHeld
  <2>1. Cardinality({i \in DOMAIN fifo : fifo[i] = j}) = IF j \in Queued THEN 1 ELSE 0
    BY PlacesCounted DEF LoopInv, OneHolder
  <2>2. /\ store[j] = "locked" <=> j \in Queued \/ j \in Processed \/ j \in lost
        /\ ~(j \in Queued /\ j \in Processed) /\ ~(j \in Queued /\ j \in lost)
        /\ ~(j \in Processed /\ j \in lost)
    BY DEF LoopInv, OneHolder, InHand
  <2> QED
    BY <2>1, <2>2
<1> QED
  BY <1>1, AccountInvariance, PTL
==============================================================================
