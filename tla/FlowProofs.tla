----------------------------- MODULE FlowProofs -----------------------------
(***************************************************************************)
(* The safety of flows for any parents, children and slots, any attempt    *)
(* and stall limits. Types hold in every setting; the counter and the      *)
(* release of the parent where no counted child can come back or be        *)
(* counted again (CountedOnce).                                            *)
(***************************************************************************)
EXTENDS Flow, TLAPS, FiniteSetTheorems

\* The setting: failed jobs are not kept, counted children not removed.
CountedOnce == KeepFailed = FALSE /\ RemoveResolved = FALSE

Finished == {"none", "completed", "failed"}

\* A flow that was not added has left no trace.
Fresh ==
  /\ \A p \in Parents \ added : status[p] = "none" /\ owner[p] = None
  /\ \A c \in Children : ParentOf[c] \notin added =>
       status[c] = "none" /\ owner[c] = None /\ result[c] = "none"

\* Children have no children.
Shapes == \A c \in Children : status[c] # "waiting-children"

\* Only a job that is processed, or whose hash is gone, has a token, and a slot that
\* has not settled the job it owns finds its hash.
Locked ==
  /\ \A j \in Jobs : owner[j] # None => status[j] \in {"processing", "none"}
  /\ \A s \in Slots : stage[s] = "work" /\ owner[hold[s]] = s
       => status[hold[s]] = "processing"

\* The children of a waiting parent: off the list they are gone, with a result
\* they are finished.
Listed ==
  \A c \in Children : status[ParentOf[c]] = "waiting-children" =>
    /\ c \notin kids[ParentOf[c]] => status[c] = "none"
    /\ result[c] # "none" => status[c] \in Finished

\* The counter of a waiting parent.
Counts ==
  \A p \in Parents : status[p] = "waiting-children" =>
    /\ remaining[p] = Cardinality(Unresolved(p))
    /\ ChildrenOf(p) # {} => remaining[p] > 0

\* Once released, the children are finished and those on the list have results.
Released ==
  \A c \in Children : status[ParentOf[c]] \in Live \cup {"completed", "failed"} =>
    /\ status[c] \in Finished
    /\ c \in kids[ParentOf[c]] => result[c] # "none"

IInv == TypeOK /\ Fresh /\ Shapes /\ Locked /\ Listed /\ Counts /\ Released

-----------------------------------------------------------------------------
(* Lemmas on the counter. *)

\* One child less without a result: the set shrinks by one and is empty at zero.
LEMMA OneLess ==
  ASSUME TypeOK, NEW p \in Parents, NEW c \in Unresolved(p)
  PROVE  /\ Cardinality(Unresolved(p)) \in Nat
         /\ Cardinality(Unresolved(p) \ {c}) \in Nat
         /\ Cardinality(Unresolved(p) \ {c}) = Cardinality(Unresolved(p)) - 1
         /\ Cardinality(Unresolved(p) \ {c}) = 0 <=> Unresolved(p) \ {c} = {}
<1>1. IsFiniteSet(Unresolved(p))
  <2>1. Unresolved(p) \subseteq Children /\ IsFiniteSet(Children)
    BY FlowAssumption DEF TypeOK, Unresolved
  <2> QED
    BY <2>1, FS_Subset
<1>2. IsFiniteSet(Unresolved(p) \ {c})
  BY <1>1, FS_RemoveElement
<1>3. Cardinality(Unresolved(p) \ {c}) = Cardinality(Unresolved(p)) - 1
  BY <1>1, FS_RemoveElement
<1> QED
  BY <1>1, <1>2, <1>3, FS_CardinalityType, FS_EmptySet

\* Steps that leave the counters, lists and results alone and give no parent the
\* status "waiting-children" keep the counts.
LEMMA CountsStay ==
  ASSUME Counts, UNCHANGED flows,
         \A p \in Parents : status'[p] = "waiting-children" => status[p] =
            "waiting-children"
  PROVE  Counts'
<1>1. \A p \in Parents : Unresolved(p)' = Unresolved(p) /\ remaining'[p] = remaining[p]
  BY DEF Unresolved, flows
<1> QED
  BY <1>1 DEF Counts

\* The common step of the scripts that count a child c of p: c leaves the children
\* without a result, the counter goes down and the parent is released at zero.
LEMMA CountOne ==
  ASSUME IInv,
         NEW c \in Children, NEW p \in Parents, p = ParentOf[c],
         NEW st \in [Jobs -> Statuses], st[p] = status[p],
         \A j \in Jobs : j # c => st[j] = status[j],
         st[c] \in Finished,
         status[p] = "waiting-children" => c \in Unresolved(p),
         remaining' = [remaining EXCEPT ![p] = @ - 1],
         status' = Release(st, p, remaining[p] - 1),
         Unresolved(p)' = Unresolved(p) \ {c},
         \A q \in Parents : q # p => Unresolved(q)' = Unresolved(q),
         \A q \in Parents : kids'[q] \subseteq kids[q]
  PROVE  Counts' /\ Released'
<1>1. Parents \subseteq Jobs /\ Children \subseteq Jobs /\ Parents \cap Children = {}
  BY FlowAssumption DEF Jobs
<1>2. \A q \in Parents : q # p => status'[q] = status[q] /\ remaining'[q] = remaining[q]
  BY <1>1 DEF Release, ReleaseAtZero, IInv, TypeOK
<1>3. \A d \in Children : status'[d] = st[d]
  BY <1>1 DEF Release, ReleaseAtZero, IInv, TypeOK
<1>4. \A d \in Children : d \in Unresolved(ParentOf[d])' => d \in
   Unresolved(ParentOf[d])
  BY FlowAssumption
<1>5. \A d \in Children : d \in kids'[ParentOf[d]] =>
        \/ result'[d] # "none"
        \/ d \in kids[ParentOf[d]] /\ result[d] = "none"
  BY <1>4 DEF Unresolved
<1>6. CASE status[p] # "waiting-children"
  <2>1. status'[p] = status[p]
    BY <1>6, <1>1 DEF Release, ReleaseAtZero
  <2>2. Counts'
    BY <1>2, <2>1, <1>6 DEF Counts, IInv
  <2>3. Released'
    BY FlowAssumption, <1>1, <1>2, <1>3, <1>5, <2>1 DEF Released, IInv
  <2> QED
    BY <2>2, <2>3
<1>7. CASE status[p] = "waiting-children"
  <2> DEFINE n == Cardinality(Unresolved(p) \ {c})
  <2>1. n \in Nat /\ remaining[p] - 1 = n /\ (n = 0 <=> Unresolved(p) \ {c} = {})
    BY <1>7, OneLess DEF IInv, TypeOK, Counts
  <2>2. remaining'[p] = n
    BY <2>1 DEF IInv, TypeOK
  <2>3. CASE n = 0
    <3>1. status'[p] = "waiting" /\ Unresolved(p)' = {}
      BY <2>1, <2>3, <1>1, <1>7 DEF Release, ReleaseAtZero
    <3>2. Counts'
      BY <3>1, <1>2 DEF Counts, IInv
    <3>3. \A d \in Children : ParentOf[d] = p /\ d # c => status[d] \in Finished
      BY <1>7, <2>1, <2>3 DEF IInv, TypeOK, Listed, Unresolved, Finished
    <3>4. \A d \in Children : ParentOf[d] = p => status'[d] \in Finished
      BY <3>3, <1>1, <1>3
    <3>5. Released'
      <4>1. ASSUME NEW d \in Children, ParentOf[d] = p
            PROVE  d \in kids'[p] => result'[d] # "none"
        BY <4>1, <3>1 DEF Unresolved
      <4>2. ASSUME NEW d \in Children, ParentOf[d] # p,
                   status'[ParentOf[d]] \in Live \cup {"completed", "failed"}
            PROVE  status'[d] \in Finished /\ (d \in kids'[ParentOf[d]] => result'[d] #
               "none")
        BY <4>2, FlowAssumption, <1>1, <1>2, <1>3, <1>5 DEF Released, IInv
      <4> QED
        BY <4>1, <4>2, <3>4 DEF Released
    <3> QED
      BY <3>2, <3>5
  <2>4. CASE n > 0
    <3>1. status'[p] = "waiting-children"
      BY <2>1, <2>4, <1>7 DEF Release, ReleaseAtZero
    <3>2. Counts'
      BY <3>1, <1>2, <2>2, <2>4 DEF Counts, IInv
    <3>3. Released'
      BY FlowAssumption, <3>1, <1>1, <1>2, <1>3, <1>5 DEF Released, IInv, Live
    <3> QED
      BY <3>2, <3>3
  <2> QED
    BY <2>1, <2>3, <2>4
<1> QED
  BY <1>6, <1>7

\* A child in the hands of a slot is counted once when it ends.
LEMMA ResolveCounts ==
  ASSUME IInv, NEW c \in Children, NEW r \in {"completed", "failed"}, NEW st \in
     Finished,
         status[c] = "processing", ResolveChild(c, r, st)
  PROVE  Counts' /\ Released'
<1> DEFINE p == ParentOf[c]
           now == [status EXCEPT ![c] = st]
<1>1. p \in Parents /\ c \in Jobs /\ p \in Jobs /\ p # c
  BY FlowAssumption DEF Jobs
<1>2. /\ now \in [Jobs -> Statuses] /\ now[p] = status[p] /\ now[c] \in Finished
      /\ \A j \in Jobs : j # c => now[j] = status[j]
  BY <1>1 DEF IInv, TypeOK, Statuses, Finished
<1>3. status[p] = "waiting-children" => c \in Unresolved(p)
  BY <1>1 DEF IInv, TypeOK, Listed, Finished, Unresolved
<1>4. remaining' = [remaining EXCEPT ![p] = @ - 1] /\ status' = Release(now, p,
   remaining[p] - 1)
  BY DEF ResolveChild, CountDown
<1>5. /\ Unresolved(p)' = Unresolved(p) \ {c}
      /\ \A q \in Parents : q # p => Unresolved(q)' = Unresolved(q)
      /\ \A q \in Parents : kids'[q] \subseteq kids[q]
  BY <1>1 DEF IInv, TypeOK, ChildrenOf, Unresolved, ResolveChild
<1> HIDE DEF now, p
<1> QED
  BY <1>1, <1>2, <1>3, <1>4, <1>5, CountOne DEF p

\* A child that is deleted and not yet counted is counted if it is on the list.
LEMMA DeleteCounts ==
  ASSUME IInv, NEW c \in Children, c \notin Counted, status[c] # "none", DeleteChild(c)
  PROVE  Counts' /\ Released'
<1> DEFINE p == ParentOf[c]
           now == [status EXCEPT ![c] = "none"]
<1>1. p \in Parents /\ c \in Jobs /\ p \in Jobs /\ p # c
  BY FlowAssumption DEF Jobs
<1>2. /\ now \in [Jobs -> Statuses] /\ now[p] = status[p] /\ now[c] \in Finished
      /\ \A j \in Jobs : j # c => now[j] = status[j]
  BY <1>1 DEF IInv, TypeOK, Statuses, Finished
<1>3. CASE OnList(c)
  <2>1. status[p] = "waiting-children" => c \in Unresolved(p)
    BY <1>3 DEF OnList, Counted, Unresolved
  <2>2. remaining' = [remaining EXCEPT ![p] = @ - 1] /\ status' = Release(now, p,
     remaining[p] - 1)
    BY <1>3 DEF DeleteChild, CountDown
  <2>3. /\ Unresolved(p)' = Unresolved(p) \ {c}
        /\ \A q \in Parents : q # p => Unresolved(q)' = Unresolved(q)
        /\ \A q \in Parents : kids'[q] \subseteq kids[q]
    BY <1>1, <1>3 DEF IInv, TypeOK, ChildrenOf, Unresolved, DeleteChild, Delist
  <2> HIDE DEF now, p
  <2> QED
    BY <1>1, <1>2, <2>1, <2>2, <2>3, CountOne DEF p
<1>4. CASE ~OnList(c)
  <2>1. status' = now /\ UNCHANGED flows
    BY <1>4 DEF DeleteChild
  <2>2. Counts'
    BY <2>1, <1>1, <1>2, CountsStay, FlowAssumption DEF IInv, Jobs
  <2>3. Released'
    BY <2>1, <1>1, <1>2, FlowAssumption DEF IInv, Released, Jobs, flows
  <2> QED
    BY <2>2, <2>3
<1> QED
  BY <1>3, <1>4

\* A parent that ends or is deleted concerns its own flow only.
LEMMA ParentCounts ==
  ASSUME IInv, NEW p \in Parents, NEW st \in Finished,
         status' = [status EXCEPT ![p] = st],
         \A q \in Parents : q # p => remaining'[q] = remaining[q] /\ kids'[q] = kids[q],
         \A c \in Children : ParentOf[c] # p => result'[c] = result[c],
         st = "none" \/ (status[p] = "processing" /\ kids' = kids /\ result' = result)
  PROVE  Counts' /\ Released'
<1>1. Parents \subseteq Jobs /\ Children \subseteq Jobs /\ Parents \cap Children = {}
  BY FlowAssumption DEF Jobs
<1>2. /\ status'[p] = st
      /\ \A j \in Jobs : j # p => status'[j] = status[j]
  BY <1>1 DEF IInv, TypeOK
<1>3. \A q \in Parents : q # p => Unresolved(q)' = Unresolved(q)
  BY DEF IInv, TypeOK, ChildrenOf, Unresolved
<1>4. Counts'
  BY <1>1, <1>2, <1>3 DEF IInv, Counts, Finished
<1>5. Released'
  BY FlowAssumption, <1>1, <1>2 DEF IInv, Released, Live, Finished
<1> QED
  BY <1>4, <1>5

\* Types of the flow keys after a child or a parent ends or is deleted.
FlowTypes ==
  /\ status \in [Jobs -> Statuses] /\ remaining \in [Parents -> Int]
  /\ kids \in [Parents -> SUBSET Children] /\ \A p \in Parents : kids[p] \subseteq
     ChildrenOf(p)
  /\ result \in [Children -> {"none", "completed", "failed"}]

\* A release leaves statuses.
LEMMA ReleaseType ==
  ASSUME NEW st \in [Jobs -> Statuses], NEW p \in Parents, NEW n
  PROVE  Release(st, p, n) \in [Jobs -> Statuses]
BY DEF Release, ReleaseAtZero, Statuses, Live

\* A child that ends.
LEMMA ResolveTypes ==
  ASSUME FlowTypes, NEW c \in Children, NEW r \in {"completed", "failed"},
         NEW st \in Finished, ResolveChild(c, r, st)
  PROVE  FlowTypes'
<1>1. ParentOf[c] \in Parents /\ [status EXCEPT ![c] = st] \in [Jobs -> Statuses]
  BY FlowAssumption DEF FlowTypes, Finished, Statuses
<1>2. status' \in [Jobs -> Statuses]
  BY <1>1, ReleaseType DEF ResolveChild
<1>3. remaining' \in [Parents -> Int]
  BY <1>1 DEF FlowTypes, ResolveChild, CountDown
<1>4. kids' = kids /\ result' \in [Children -> {"none", "completed", "failed"}]
  BY DEF FlowTypes, ResolveChild
<1> QED
  BY <1>2, <1>3, <1>4 DEF FlowTypes

\* A child that is deleted.
LEMMA DeleteTypes ==
  ASSUME FlowTypes, NEW c \in Children, DeleteChild(c)
  PROVE  FlowTypes'
<1>1. ParentOf[c] \in Parents /\ [status EXCEPT ![c] = "none"] \in [Jobs -> Statuses]
  BY FlowAssumption DEF FlowTypes, Statuses
<1>2. status' \in [Jobs -> Statuses]
  <2>1. CASE OnList(c)
    <3> DEFINE now == [status EXCEPT ![c] = "none"]
               n == remaining[ParentOf[c]] - 1
    <3>1. status' = Release(now, ParentOf[c], n)
      BY <2>1 DEF DeleteChild
    <3> HIDE DEF now, n
    <3>2. Release(now, ParentOf[c], n) \in [Jobs -> Statuses]
      BY <1>1, ReleaseType DEF now
    <3> QED
      BY <3>1, <3>2
  <2>2. CASE ~OnList(c)
    BY <2>2, <1>1 DEF DeleteChild
  <2> QED
    BY <2>1, <2>2
<1> QED
  BY <1>1, <1>2 DEF FlowTypes, DeleteChild, CountDown, Delist, flows

\* A parent that ends or is deleted.
LEMMA ParentTypes ==
  ASSUME FlowTypes, NEW p \in Parents,
         DeleteParent(p) \/ \E st \in Finished : EndParent(p, st),
         result' \in {result, DropResults(p)}
  PROVE  FlowTypes'
<1>1. status' \in [Jobs -> Statuses]
  BY DEF FlowTypes, DeleteParent, EndParent, Finished, Statuses
<1>2. result' \in [Children -> {"none", "completed", "failed"}]
  BY DEF FlowTypes, DropResults
<1>3. remaining' \in [Parents -> Int]
  BY DEF FlowTypes, DeleteParent, EndParent
<1>4. kids' \in [Parents -> SUBSET Children] /\ \A q \in Parents : kids'[q] \subseteq
   ChildrenOf(q)
  BY DEF FlowTypes, DeleteParent, EndParent
<1> QED
  BY <1>1, <1>2, <1>3, <1>4 DEF FlowTypes

\* No step takes a variable out of its type, in any setting.
LEMMA StepTypes ==
  ASSUME TypeOK, [Next]_vars
  PROVE  TypeOK'
<1>1. ASSUME NEW p \in Parents, AddFlow(p)
      PROVE  TypeOK'
  <2>1. status' \in [Jobs -> Statuses]
    BY <1>1 DEF TypeOK, Statuses, Live, AddFlow
  <2>2. Cardinality(ChildrenOf(p)) \in Int
    <3>1. IsFiniteSet(ChildrenOf(p))
      BY <1>1, FlowAssumption, FS_Subset DEF ChildrenOf
    <3> QED
      BY <1>1, <3>1, FS_CardinalityType
  <2> QED
    BY <1>1, <2>1, <2>2 DEF TypeOK, ChildrenOf, slots, AddFlow
<1>2. ASSUME NEW j \in Jobs, Promote(j)
      PROVE  TypeOK'
  BY <1>2 DEF TypeOK, Live, Statuses, flows, slots, Promote
<1>3. ASSUME NEW s \in Slots, NEW j \in Jobs, Reserve(s, j)
      PROVE  TypeOK'
  BY <1>3, FlowAssumption DEF TypeOK, Live, Statuses, flows, Reserve
<1>4. ASSUME NEW s \in Slots, CompleteJob(s)
      PROVE  TypeOK'
  <2>1. hold[s] \in Jobs /\ FlowTypes
    BY <1>4 DEF TypeOK, Owns, CompleteJob, FlowTypes
  <2>2. ASSUME hold[s] \in Children
       PROVE  FlowTypes'
    BY <1>4, <2>1, <2>2, ResolveTypes DEF CompleteJob, Finished
  <2>3. ASSUME hold[s] \in Parents
       PROVE  FlowTypes'
    <3>1. hold[s] \notin Children
      BY <1>4, <2>3, FlowAssumption
    <3> QED
      BY <1>4, <2>1, <2>3, <3>1, ParentTypes DEF CompleteJob, Finished
  <2>4. FlowTypes'
    BY <1>4, <2>1, <2>2, <2>3 DEF Jobs
  <2> QED
    BY <1>4, <2>4 DEF TypeOK, FlowTypes, CompleteJob, Unlock, Idle
<1>5. ASSUME NEW s \in Slots, Retry(s)
      PROVE  TypeOK'
  BY <1>5 DEF TypeOK, Live, Statuses, flows, Retry, Unlock, Idle
<1>6. ASSUME NEW s \in Slots, RecordFinalFailure(s)
      PROVE  TypeOK'
  <2>1. hold[s] \in Jobs /\ FlowTypes
    BY <1>6 DEF TypeOK, Owns, RecordFinalFailure, FlowTypes
  <2>2. ASSUME hold[s] \in Children
       PROVE  FlowTypes'
    BY <1>6, <2>1, <2>2, ResolveTypes DEF RecordFinalFailure, Finished
  <2>3. ASSUME hold[s] \in Parents
       PROVE  FlowTypes'
    <3>1. hold[s] \notin Children
      BY <1>6, <2>3, FlowAssumption
    <3> QED
      BY <1>6, <2>1, <2>3, <3>1, ParentTypes DEF RecordFinalFailure, Finished
  <2>4. FlowTypes'
    BY <1>6, <2>1, <2>2, <2>3 DEF Jobs
  <2> QED
    BY <1>6, <2>4 DEF TypeOK, FlowTypes, Owns, RecordFinalFailure
<1>7. ASSUME NEW s \in Slots, RecordLost(s)
      PROVE  TypeOK'
  BY <1>7 DEF TypeOK, hashes, flows, RecordLost
<1>8. ASSUME NEW s \in Slots, DeadLetter(s)
      PROVE  TypeOK'
  BY <1>8 DEF TypeOK, hashes, flows, DeadLetter, Unlock, Idle
<1>9. ASSUME NEW s \in Slots, LockLost(s)
      PROVE  TypeOK'
  BY <1>9 DEF TypeOK, hashes, flows, LockLost, Idle
<1>10. ASSUME NEW s \in Slots, Crash(s)
      PROVE  TypeOK'
  BY <1>10 DEF TypeOK, hashes, flows, Crash, Idle
<1>11. ASSUME NEW j \in Jobs, CheckStalled(j)
      PROVE  TypeOK'
  BY <1>11 DEF TypeOK, Live, Statuses, flows, slots, CheckStalled, Unlock
<1>12. ASSUME NEW j \in Jobs, Sweep(j)
      PROVE  TypeOK'
  BY <1>12 DEF TypeOK, Live, Statuses, flows, slots, Sweep, Unlock
<1>13. ASSUME NEW j \in Jobs, Remove(j)
      PROVE  TypeOK'
  <2>1. FlowTypes
    BY <1>13 DEF TypeOK, FlowTypes
  <2>2. ASSUME j \in Children
       PROVE  FlowTypes'
    BY <1>13, <2>1, <2>2, DeleteTypes DEF Remove, Delete
  <2>3. ASSUME j \in Parents
       PROVE  FlowTypes'
    <3>1. j \notin Children /\ DeleteParent(j)
      BY <1>13, <2>3, FlowAssumption DEF Remove, Delete
    <3> QED
      BY <1>13, <2>1, <2>3, <3>1, ParentTypes DEF DeleteParent
  <2>4. FlowTypes'
    BY <1>13, <2>2, <2>3 DEF Jobs
  <2> QED
    BY <1>13, <2>4 DEF TypeOK, FlowTypes, slots, Remove, Delete, Unlock
<1>14. ASSUME NEW j \in Jobs, Clean(j)
      PROVE  TypeOK'
  <2>1. FlowTypes
    BY <1>14 DEF TypeOK, FlowTypes
  <2>2. ASSUME j \in Children
       PROVE  FlowTypes'
    BY <1>14, <2>1, <2>2, DeleteTypes DEF Clean, Delete
  <2>3. ASSUME j \in Parents
       PROVE  FlowTypes'
    <3>1. j \notin Children /\ DeleteParent(j)
      BY <1>14, <2>3, FlowAssumption DEF Clean, Delete
    <3> QED
      BY <1>14, <2>1, <2>3, <3>1, ParentTypes DEF DeleteParent
  <2>4. FlowTypes'
    BY <1>14, <2>2, <2>3 DEF Jobs
  <2> QED
    BY <1>14, <2>4 DEF TypeOK, FlowTypes, slots, Clean, Delete
<1>15. CASE UNCHANGED vars
  BY <1>15 DEF TypeOK, ChildrenOf, vars, hashes, flows, slots
<1> QED
  BY <1>1, <1>2, <1>3, <1>4, <1>5, <1>6, <1>7, <1>8, <1>9, <1>10, <1>11, <1>12, <1>13,
     <1>14, <1>15 DEF Next

-----------------------------------------------------------------------------
(* enqueue-flow.lua, promotion and reservation. *)

\* A flow is added with all its children unresolved and its counter at their number.
LEMMA AddFlowKeeps ==
  ASSUME CountedOnce, IInv, NEW p \in Parents, AddFlow(p)
  PROVE  IInv'
<1>1. Fresh'
  BY FlowAssumption DEF IInv, Fresh, ChildrenOf, Jobs, AddFlow
<1>2. Shapes'
  BY FlowAssumption DEF IInv, Shapes, ChildrenOf, Jobs, AddFlow
<1>3. Locked'
  <2>1. \A j \in Jobs : status[j] # "none" \/ owner[j] # None => status'[j] = status[j]
    BY FlowAssumption DEF IInv, Fresh, Shapes, Jobs, ChildrenOf, AddFlow
  <2>2. UNCHANGED <<owner, hold, stage>>
    BY DEF slots, AddFlow
  <2>3. \A s \in Slots : stage[s] = "work" => hold[s] \in Jobs
    BY DEF IInv, TypeOK
  <2> QED
    BY <2>1, <2>2, <2>3 DEF IInv, Locked
<1>4. Listed'
  BY FlowAssumption DEF IInv, TypeOK, Fresh, Listed, ChildrenOf, Jobs, AddFlow
<1>5. Counts'
  <2>1. \A q \in Parents : q # p => Unresolved(q)' = Unresolved(q) /\ status'[q] =
     status[q]
    BY FlowAssumption DEF IInv, TypeOK, Unresolved, ChildrenOf, Jobs, AddFlow
  <2>2. Unresolved(p)' = ChildrenOf(p)
    BY DEF IInv, TypeOK, Fresh, Unresolved, ChildrenOf, AddFlow
  <2>3. remaining'[p] = Cardinality(ChildrenOf(p))
    BY DEF IInv, TypeOK, AddFlow
  <2>4. ChildrenOf(p) # {} => Cardinality(ChildrenOf(p)) > 0
    <3>1. IsFiniteSet(ChildrenOf(p))
      BY FlowAssumption, FS_Subset DEF ChildrenOf
    <3> QED
      BY <3>1, FS_CardinalityType, FS_EmptySet
  <2>5. \A q \in Parents : q # p => remaining'[q] = remaining[q]
    BY DEF IInv, TypeOK, AddFlow
  <2> QED
    BY <2>1, <2>2, <2>3, <2>4, <2>5 DEF IInv, Counts
<1>6. Released'
  BY FlowAssumption DEF IInv, Released, ChildrenOf, Jobs, Live, AddFlow
<1>7. TypeOK'
  BY StepTypes DEF IInv, Next
<1> QED
  BY <1>1, <1>2, <1>3, <1>4, <1>5, <1>6, <1>7 DEF IInv

\* A promotion concerns neither counter nor results.
LEMMA PromoteKeeps ==
  ASSUME CountedOnce, IInv, NEW j \in Jobs, Promote(j)
  PROVE  IInv'
<1>1. Fresh'
  BY DEF IInv, Fresh, flows, Promote
<1>2. Shapes'
  BY DEF IInv, Shapes, Promote
<1>3. Locked'
  BY DEF IInv, Locked, slots, Promote
<1>4. Listed'
  BY DEF IInv, Listed, Finished, flows, Promote
<1>5. Counts'
  BY CountsStay DEF IInv, TypeOK, Promote
<1>6. Released'
  BY DEF IInv, Released, Finished, Live, flows, Promote
<1>7. TypeOK'
  BY StepTypes DEF IInv, Next
<1> QED
  BY <1>1, <1>2, <1>3, <1>4, <1>5, <1>6, <1>7 DEF IInv

\* A released parent that is reserved stays released.
LEMMA ReserveKeeps ==
  ASSUME CountedOnce, IInv, NEW s \in Slots, NEW j \in Jobs, Reserve(s, j)
  PROVE  IInv'
<1>1. Fresh'
  BY DEF IInv, Fresh, flows, Reserve
<1>2. Shapes'
  BY DEF IInv, Shapes, Reserve
<1>3. Locked'
  BY DEF IInv, TypeOK, Locked, Reserve
<1>4. Listed'
  BY DEF IInv, Listed, Finished, flows, Reserve
<1>5. Counts'
  BY CountsStay DEF IInv, TypeOK, Reserve
<1>6. Released'
  BY DEF IInv, Released, Finished, Live, flows, Reserve
<1>7. TypeOK'
  BY StepTypes DEF IInv, Next
<1> QED
  BY <1>1, <1>2, <1>3, <1>4, <1>5, <1>6, <1>7 DEF IInv

-----------------------------------------------------------------------------
(* The calls of a slot. *)

\* A completed child is counted; a completed parent ends its own flow.
LEMMA CompleteJobKeeps ==
  ASSUME CountedOnce, IInv, NEW s \in Slots, CompleteJob(s)
  PROVE  IInv'
<1>1. Fresh'
  BY DEF IInv, TypeOK, Fresh, Jobs, CompleteJob, ResolveChild, Release, ReleaseAtZero,
     EndParent, DropResults, Unlock
<1>2. Shapes'
  BY DEF IInv, TypeOK, Shapes, Jobs, CompleteJob, ResolveChild, Release, ReleaseAtZero,
     EndParent, DropResults
<1>3. Locked'
  BY FlowAssumption DEF IInv, TypeOK, Locked, CompleteJob, ResolveChild, Release,
     ReleaseAtZero, EndParent, DropResults, Unlock, Idle
<1>4. Listed'
  BY FlowAssumption DEF IInv, TypeOK, Listed, Finished, Jobs, CompleteJob, ResolveChild,
     Release, ReleaseAtZero, EndParent, DropResults
<1>5. Counts' /\ Released'
  <2>1. hold[s] \in Jobs
    BY DEF IInv, TypeOK, Owns, CompleteJob
  <2>2. CASE hold[s] \in Children
    BY <2>2, ResolveCounts DEF CompleteJob, Finished
  <2>3. CASE hold[s] \in Parents
    <3> DEFINE st == IF KeepCompleted THEN "completed" ELSE "none"
    <3>1. /\ EndParent(hold[s], st) /\ status[hold[s]] = "processing"
          /\ result' = IF KeepCompleted THEN result ELSE DropResults(hold[s])
      BY <2>3, FlowAssumption DEF CompleteJob
    <3>2. /\ \A q \in Parents : q # hold[s] => remaining'[q] = remaining[q]
          /\ kids' = kids
      BY <3>1 DEF IInv, TypeOK, EndParent
    <3>3. \A c \in Children : ParentOf[c] # hold[s] => result'[c] = result[c]
      BY <3>1 DEF DropResults
    <3>4. status' = [status EXCEPT ![hold[s]] = st] /\ st \in Finished
      BY <3>1 DEF EndParent, Finished
    <3>5. st = "none" \/ (status[hold[s]] = "processing" /\ kids' = kids /\ result' =
       result)
      <4>1. CASE KeepCompleted
        BY <4>1, <3>1, <3>2
      <4>2. CASE ~KeepCompleted
        <5>1. st = "none"
          BY <4>2, FlowAssumption
        <5> HIDE DEF st
        <5> QED
          BY <5>1
      <4> QED
        BY <4>1, <4>2
    <3> HIDE DEF st
    <3> QED
      BY <2>3, <3>2, <3>3, <3>4, <3>5, ParentCounts
  <2> QED
    BY <2>1, <2>2, <2>3 DEF Jobs
<1>6. TypeOK'
  BY StepTypes DEF IInv, Next
<1> QED
  BY <1>1, <1>2, <1>3, <1>4, <1>5, <1>6 DEF IInv

\* A retried job was processing, so its parent or its children are not affected.
LEMMA RetryKeeps ==
  ASSUME CountedOnce, IInv, NEW s \in Slots, Retry(s)
  PROVE  IInv'
<1>1. Fresh'
  BY FlowAssumption DEF IInv, Fresh, flows, Retry, Owns, Unlock
<1>2. Shapes'
  BY DEF IInv, Shapes, Locked, Retry, Owns
<1>3. Locked'
  BY FlowAssumption DEF IInv, TypeOK, Locked, Retry, Unlock, Idle
<1>4. Listed'
  BY DEF IInv, Locked, Listed, Finished, flows, Retry, Owns
<1>5. Counts'
  BY CountsStay DEF IInv, TypeOK, Retry
<1>6. Released'
  BY DEF IInv, Locked, Released, Finished, Live, flows, Retry, Owns
<1>7. TypeOK'
  BY StepTypes DEF IInv, Next
<1> QED
  BY <1>1, <1>2, <1>3, <1>4, <1>5, <1>6, <1>7 DEF IInv

\* A failed child is counted when its hash goes; the token outlives it.
LEMMA RecordFinalFailureKeeps ==
  ASSUME CountedOnce, IInv, NEW s \in Slots, RecordFinalFailure(s)
  PROVE  IInv'
<1>1. Fresh'
  BY DEF IInv, TypeOK, Fresh, Jobs, RecordFinalFailure, ResolveChild, Release,
     ReleaseAtZero, EndParent
<1>2. Shapes'
  <2>1. hold[s] \in Jobs /\ status[hold[s]] = "processing"
    BY FlowAssumption DEF IInv, TypeOK, Locked, Owns, RecordFinalFailure
  <2>2. CASE hold[s] \in Children
    BY <2>1, <2>2, FlowAssumption DEF IInv, TypeOK, Shapes, Jobs, RecordFinalFailure,
       ResolveChild, Release, ReleaseAtZero
  <2>3. CASE hold[s] \notin Children
    BY <2>1, <2>3, FlowAssumption DEF IInv, TypeOK, Shapes, Jobs, RecordFinalFailure,
       EndParent
  <2> QED
    BY <2>2, <2>3
<1>3. Locked'
  <2>1. hold[s] \in Jobs /\ owner[hold[s]] = s /\ status[hold[s]] = "processing"
    BY FlowAssumption DEF IInv, TypeOK, Locked, Owns, RecordFinalFailure
  <2>2. status'[hold[s]] = "none"
    BY <2>1, FlowAssumption DEF CountedOnce, IInv, TypeOK, Jobs, RecordFinalFailure,
       ResolveChild, Release, ReleaseAtZero, EndParent
  <2>3. \A j \in Jobs : j # hold[s] => status'[j] = status[j] \/ status[j] =
     "waiting-children"
    BY <2>1, FlowAssumption DEF IInv, TypeOK, Jobs, RecordFinalFailure,
       ResolveChild, Release, ReleaseAtZero, EndParent
  <2>4. UNCHANGED <<owner, hold>> /\ stage' = [stage EXCEPT ![s] = "bury"]
    BY DEF RecordFinalFailure
  <2>5. \A t \in Slots : stage[t] = "work" => hold[t] \in Jobs
    BY DEF IInv, TypeOK
  <2> QED
    BY <2>1, <2>2, <2>3, <2>4, <2>5 DEF IInv, TypeOK, Locked
<1>4. Listed'
  BY FlowAssumption DEF IInv, TypeOK, Listed, Finished, Jobs, RecordFinalFailure,
     ResolveChild, Release, ReleaseAtZero, EndParent
<1>5. Counts' /\ Released'
  <2>1. hold[s] \in Jobs /\ status[hold[s]] = "processing"
    BY FlowAssumption DEF IInv, TypeOK, Locked, Owns, RecordFinalFailure
  <2>2. CASE hold[s] \in Children
    BY <2>1, <2>2, ResolveCounts DEF RecordFinalFailure, Finished
  <2>3. CASE hold[s] \in Parents
    <3>1. hold[s] \notin Children
      BY <2>3, FlowAssumption
    <3> QED
      BY <2>1, <2>3, <3>1, ParentCounts
         DEF CountedOnce, IInv, TypeOK, RecordFinalFailure, EndParent, Finished
  <2> QED
    BY <2>1, <2>2, <2>3 DEF Jobs
<1>6. TypeOK'
  BY StepTypes DEF IInv, Next
<1> QED
  BY <1>1, <1>2, <1>3, <1>4, <1>5, <1>6 DEF IInv

\* Only the stage of the slot changes.
LEMMA RecordLostKeeps ==
  ASSUME CountedOnce, IInv, NEW s \in Slots, RecordLost(s)
  PROVE  IInv'
<1>1. Fresh'
  BY DEF IInv, Fresh, hashes, flows, RecordLost
<1>2. Shapes'
  BY DEF IInv, Shapes, hashes, RecordLost
<1>3. Locked'
  BY FlowAssumption DEF IInv, Locked, hashes, RecordLost
<1>4. Listed'
  BY DEF IInv, Listed, hashes, flows, RecordLost
<1>5. Counts'
  BY CountsStay DEF IInv, hashes, RecordLost
<1>6. Released'
  BY DEF IInv, Released, hashes, flows, RecordLost
<1>7. TypeOK'
  BY StepTypes DEF IInv, Next
<1> QED
  BY <1>1, <1>2, <1>3, <1>4, <1>5, <1>6, <1>7 DEF IInv

\* The hash is gone, or the call before was lost.
LEMMA DeadLetterKeeps ==
  ASSUME CountedOnce, IInv, NEW s \in Slots, DeadLetter(s)
  PROVE  IInv'
<1>1. Fresh'
  BY DEF IInv, Fresh, hashes, flows, DeadLetter, Unlock
<1>2. Shapes'
  BY DEF IInv, Shapes, hashes, DeadLetter
<1>3. Locked'
  BY FlowAssumption DEF IInv, Locked, hashes, DeadLetter, Unlock, Idle
<1>4. Listed'
  BY DEF IInv, Listed, hashes, flows, DeadLetter
<1>5. Counts'
  BY CountsStay DEF IInv, hashes, DeadLetter
<1>6. Released'
  BY DEF IInv, Released, hashes, flows, DeadLetter
<1>7. TypeOK'
  BY StepTypes DEF IInv, Next
<1> QED
  BY <1>1, <1>2, <1>3, <1>4, <1>5, <1>6, <1>7 DEF IInv

\* A slot without its token changes nothing else.
LEMMA LockLostKeeps ==
  ASSUME CountedOnce, IInv, NEW s \in Slots, LockLost(s)
  PROVE  IInv'
<1>1. Fresh'
  BY DEF IInv, Fresh, hashes, flows, LockLost
<1>2. Shapes'
  BY DEF IInv, Shapes, hashes, LockLost
<1>3. Locked'
  BY DEF IInv, TypeOK, Locked, hashes, LockLost, Idle
<1>4. Listed'
  BY DEF IInv, Listed, hashes, flows, LockLost
<1>5. Counts'
  BY CountsStay DEF IInv, hashes, LockLost
<1>6. Released'
  BY DEF IInv, Released, hashes, flows, LockLost
<1>7. TypeOK'
  BY StepTypes DEF IInv, Next
<1> QED
  BY <1>1, <1>2, <1>3, <1>4, <1>5, <1>6, <1>7 DEF IInv

\* The token of a dead slot stays.
LEMMA CrashKeeps ==
  ASSUME CountedOnce, IInv, NEW s \in Slots, Crash(s)
  PROVE  IInv'
<1>1. Fresh'
  BY DEF IInv, Fresh, hashes, flows, Crash
<1>2. Shapes'
  BY DEF IInv, Shapes, hashes, Crash
<1>3. Locked'
  BY DEF IInv, TypeOK, Locked, hashes, Crash, Idle
<1>4. Listed'
  BY DEF IInv, Listed, hashes, flows, Crash
<1>5. Counts'
  BY CountsStay DEF IInv, hashes, Crash
<1>6. Released'
  BY DEF IInv, Released, hashes, flows, Crash
<1>7. TypeOK'
  BY StepTypes DEF IInv, Next
<1> QED
  BY <1>1, <1>2, <1>3, <1>4, <1>5, <1>6, <1>7 DEF IInv

-----------------------------------------------------------------------------
(* The recoveries. *)

\* Only a job that is processing is recovered or failed.
LEMMA CheckStalledKeeps ==
  ASSUME CountedOnce, IInv, NEW j \in Jobs, CheckStalled(j)
  PROVE  IInv'
<1>1. Fresh'
  BY DEF IInv, Fresh, flows, CheckStalled, Unlock
<1>2. Shapes'
  BY DEF IInv, Shapes, CheckStalled
<1>3. Locked'
  BY FlowAssumption DEF IInv, TypeOK, Locked, slots, CheckStalled, Unlock
<1>4. Listed'
  BY DEF IInv, Listed, Finished, flows, CheckStalled
<1>5. Counts'
  BY CountsStay DEF IInv, TypeOK, CheckStalled
<1>6. Released'
  BY DEF IInv, Released, Finished, Live, flows, CheckStalled
<1>7. TypeOK'
  BY StepTypes DEF IInv, Next
<1> QED
  BY <1>1, <1>2, <1>3, <1>4, <1>5, <1>6, <1>7 DEF IInv

\* A job with a token is processing or has no hash.
LEMMA SweepKeeps ==
  ASSUME CountedOnce, IInv, NEW j \in Jobs, Sweep(j)
  PROVE  IInv'
<1>1. Fresh'
  BY DEF IInv, Fresh, flows, Sweep, Unlock
<1>2. Shapes'
  BY DEF IInv, Shapes, Sweep
<1>3. Locked'
  BY FlowAssumption DEF IInv, TypeOK, Locked, slots, Sweep, Unlock
<1>4. Listed'
  BY DEF IInv, Locked, Listed, Finished, flows, Sweep
<1>5. Counts'
  BY CountsStay DEF IInv, TypeOK, Sweep
<1>6. Released'
  BY DEF IInv, Locked, Released, Finished, Live, flows, Sweep
<1>7. TypeOK'
  BY StepTypes DEF IInv, Next
<1> QED
  BY <1>1, <1>2, <1>3, <1>4, <1>5, <1>6, <1>7 DEF IInv

-----------------------------------------------------------------------------
(* Removal and cleaning. *)

\* A child that is not counted yet is counted as it is removed.
LEMMA RemoveKeeps ==
  ASSUME CountedOnce, IInv, NEW j \in Jobs, Remove(j)
  PROVE  IInv'
<1>1. Fresh'
  BY DEF IInv, TypeOK, Fresh, Jobs, flows, Remove, Delete, DeleteChild, OnList, Delist,
     Release, ReleaseAtZero, DeleteParent, DropResults, Counted, Unlock
<1>2. Shapes'
  BY DEF IInv, TypeOK, Shapes, Jobs, Remove, Delete, DeleteChild, OnList, Delist,
     Release, ReleaseAtZero, DeleteParent, DropResults, Counted
<1>3. Locked'
  BY FlowAssumption DEF IInv, TypeOK, Locked, slots, Remove, Delete, DeleteChild,
     OnList, Delist, Release, ReleaseAtZero, DeleteParent, DropResults, Counted, Unlock
<1>4. Listed'
  BY FlowAssumption DEF IInv, TypeOK, Listed, Finished, Jobs, flows, Remove, Delete,
     DeleteChild, OnList, Delist, Release, ReleaseAtZero, DeleteParent, DropResults,
     Counted
<1>5. Counts' /\ Released'
  <2>1. CASE j \in Children
    BY <2>1, DeleteCounts DEF CountedOnce, Remove, Delete
  <2>2. CASE j \in Parents
    <3>1. DeleteParent(j)
      BY <2>2, FlowAssumption DEF Remove, Delete
    <3>2. \A q \in Parents : q # j => remaining'[q] = remaining[q] /\ kids'[q] = kids[q]
      BY <3>1 DEF IInv, TypeOK, DeleteParent
    <3>3. \A c \in Children : ParentOf[c] # j => result'[c] = result[c]
      BY <3>1 DEF DeleteParent, DropResults
    <3> DEFINE st == "none"
    <3>4. status' = [status EXCEPT ![j] = st] /\ st \in Finished /\ st = "none"
      BY <3>1 DEF DeleteParent, Finished
    <3> HIDE DEF st
    <3>5. st = "none" \/ (status[j] = "processing" /\ kids' = kids /\ result' = result)
      BY <3>4
    <3> QED
      BY <2>2, <3>2, <3>3, <3>4, <3>5, ParentCounts
  <2> QED
    BY <2>1, <2>2 DEF Jobs
<1>6. TypeOK'
  BY StepTypes DEF IInv, Next
<1> QED
  BY <1>1, <1>2, <1>3, <1>4, <1>5, <1>6 DEF IInv

\* The same without the token.
LEMMA CleanKeeps ==
  ASSUME CountedOnce, IInv, NEW j \in Jobs, Clean(j)
  PROVE  IInv'
<1>1. Fresh'
  BY DEF IInv, TypeOK, Fresh, Jobs, flows, Clean, Delete, DeleteChild, OnList, Delist,
     Release, ReleaseAtZero, DeleteParent, DropResults, Counted
<1>2. Shapes'
  BY DEF IInv, TypeOK, Shapes, Jobs, Clean, Delete, DeleteChild, OnList, Delist,
     Release, ReleaseAtZero, DeleteParent, DropResults, Counted
<1>3. Locked'
  BY DEF IInv, TypeOK, Locked, slots, Clean, Delete, DeleteChild, OnList, Delist,
     Release, ReleaseAtZero, DeleteParent, DropResults, Counted
<1>4. Listed'
  BY FlowAssumption DEF IInv, TypeOK, Listed, Jobs, flows, Clean, Delete, DeleteChild,
     OnList, Delist, Release, ReleaseAtZero, DeleteParent, DropResults, Counted
<1>5. Counts' /\ Released'
  <2>1. CASE j \in Children
    BY <2>1, DeleteCounts DEF CountedOnce, Clean, Delete
  <2>2. CASE j \in Parents
    <3>1. DeleteParent(j)
      BY <2>2, FlowAssumption DEF Clean, Delete
    <3>2. \A q \in Parents : q # j => remaining'[q] = remaining[q] /\ kids'[q] = kids[q]
      BY <3>1 DEF IInv, TypeOK, DeleteParent
    <3>3. \A c \in Children : ParentOf[c] # j => result'[c] = result[c]
      BY <3>1 DEF DeleteParent, DropResults
    <3> DEFINE st == "none"
    <3>4. status' = [status EXCEPT ![j] = st] /\ st \in Finished /\ st = "none"
      BY <3>1 DEF DeleteParent, Finished
    <3> HIDE DEF st
    <3>5. st = "none" \/ (status[j] = "processing" /\ kids' = kids /\ result' = result)
      BY <3>4
    <3> QED
      BY <2>2, <3>2, <3>3, <3>4, <3>5, ParentCounts
  <2> QED
    BY <2>1, <2>2 DEF Jobs
<1>6. TypeOK'
  BY StepTypes DEF IInv, Next
<1> QED
  BY <1>1, <1>2, <1>3, <1>4, <1>5, <1>6 DEF IInv

-----------------------------------------------------------------------------
(* The theorems. *)

\* Nothing is added.
LEMMA InitHolds ==
  ASSUME Init
  PROVE  IInv
<1>1. TypeOK
  BY FlowAssumption DEF Init, TypeOK, ChildrenOf, Statuses, Live, Jobs
<1>2. Fresh /\ Shapes /\ Locked
  BY FlowAssumption DEF Init, Fresh, Shapes, Locked, Jobs
<1>3. Listed /\ Counts /\ Released
  BY FlowAssumption DEF Init, Listed, Counts, Released, Live, Jobs
<1> QED
  BY <1>1, <1>2, <1>3 DEF IInv

\* A stuttering step.
LEMMA StutterKeeps ==
  ASSUME IInv, UNCHANGED vars
  PROVE  IInv'
<1>1. \A p \in Parents : Unresolved(p)' = Unresolved(p)
  BY DEF Unresolved, vars, flows
<1>2. TypeOK' /\ Fresh' /\ Shapes' /\ Locked'
  BY DEF IInv, TypeOK, Fresh, Shapes, Locked, ChildrenOf, vars, hashes, flows, slots
<1>3. Listed' /\ Released'
  BY DEF IInv, Listed, Released, vars, hashes, flows
<1>4. Counts'
  BY <1>1 DEF IInv, Counts, vars, hashes, flows
<1> QED
  BY <1>2, <1>3, <1>4 DEF IInv

\* Every step keeps the strengthened invariant.
LEMMA StepKeeps ==
  ASSUME CountedOnce, IInv, [Next]_vars
  PROVE  IInv'
<1>1. CASE UNCHANGED vars
  BY <1>1, StutterKeeps
<1>2. ASSUME NEW p \in Parents, AddFlow(p)
      PROVE  IInv'
  BY <1>2, AddFlowKeeps
<1>3. ASSUME NEW s \in Slots, NEW j \in Jobs, Reserve(s, j)
      PROVE  IInv'
  BY <1>3, ReserveKeeps
<1>4. ASSUME NEW s \in Slots, CompleteJob(s) \/ Retry(s) \/ RecordFinalFailure(s)
      PROVE  IInv'
  BY <1>4, CompleteJobKeeps, RetryKeeps, RecordFinalFailureKeeps
<1>5. ASSUME NEW s \in Slots, RecordLost(s) \/ DeadLetter(s) \/ LockLost(s) \/ Crash(s)
      PROVE  IInv'
  BY <1>5, RecordLostKeeps, DeadLetterKeeps, LockLostKeeps, CrashKeeps
<1>6. ASSUME NEW j \in Jobs, Promote(j) \/ CheckStalled(j) \/ Sweep(j)
      PROVE  IInv'
  BY <1>6, PromoteKeeps, CheckStalledKeeps, SweepKeeps
<1>7. ASSUME NEW j \in Jobs, Remove(j) \/ Clean(j)
      PROVE  IInv'
  BY <1>7, RemoveKeeps, CleanKeeps
<1> QED
  BY <1>1, <1>2, <1>3, <1>4, <1>5, <1>6, <1>7 DEF Next

\* Whatever is kept and whichever jobs are removed, the keys of flows hold what
\* they can hold.
THEOREM TypeCorrect == Spec => []TypeOK
<1>1. Init => TypeOK
  BY InitHolds DEF IInv
<1>2. TypeOK /\ [Next]_vars => TypeOK'
  BY StepTypes
<1> QED
  BY <1>1, <1>2, PTL DEF Spec

\* In the setting of CountedOnce the strengthened invariant holds.
THEOREM Inductive == CountedOnce => (Spec => []IInv)
<1>1. Init => IInv
  BY InitHolds
<1> SUFFICES ASSUME CountedOnce
             PROVE  Spec => []IInv
  OBVIOUS
<1>2. IInv /\ [Next]_vars => IInv'
  BY StepKeeps
<1> QED
  BY <1>1, <1>2, PTL DEF Spec

\* The scripts that complete, fail, remove and clean a child each decrement the
\* counter of a waiting parent: together they count every child once, and the one
\* that counts the last releases the parent.
THEOREM CounterIsExact == CountedOnce => (Spec => []CounterExact)
<1>1. IInv => CounterExact
  BY DEF IInv, Counts, CounterExact
<1> QED
  BY <1>1, Inductive, PTL

\* A released parent has no child that waits, runs or runs again.
THEOREM ParentRunsLast == CountedOnce => (Spec => []ParentAfterChildren)
<1>1. IInv => ParentAfterChildren
  BY DEF IInv, Released, ParentAfterChildren, Live, Finished
<1> QED
  BY <1>1, Inductive, PTL

\* The result of a child is stored before the call that releases the parent ends.
THEOREM ParentFindsResults == CountedOnce => (Spec => []ResultsComplete)
<1>1. IInv => ResultsComplete
  BY DEF IInv, TypeOK, Released, ResultsComplete, Unresolved, ChildrenOf, Live
<1> QED
  BY <1>1, Inductive, PTL

=============================================================================
