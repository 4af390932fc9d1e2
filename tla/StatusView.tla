----------------------------- MODULE StatusView -----------------------------
(***************************************************************************)
(* What a dashboard sees.  A job is in a Redis set for its status, and in  *)
(* its hash; getJob(), getJobsByStatus(), getJobCounts(), getCompleted(),  *)
(* getCompletedJobs() and getFlowChildren() read the sets and the hash one *)
(* command after the other, while scripts move the jobs between the sets.  *)
(*                                                                         *)
(* The scripts are those of GroupQueue, reduced to the sets and the status *)
(* they leave a job in.  A job's number is its place in every set; failed  *)
(* jobs are kept.  The key "group" is the sets g:{gid} together: a list of *)
(* waiting jobs reads a share of each group, which is in their numbers'    *)
(* order here and in the order of the groups, which may be any, there.     *)
(***************************************************************************)
EXTENDS Integers, Sequences, FiniteSets, SequencesExt

CONSTANTS
  Jobs,           \* job ids: numbers
  Groups,         \* group ids
  GroupOf,        \* [Jobs -> Groups]
  KeepCompleted,  \* keepCompleted of the queue
  Asks,           \* sets of keys whose jobs getJobsByStatus() is asked for
  Pages,          \* and the pairs start, end
  Kids,           \* the ids in flow:children of a parent
  Unbounded,      \* how many jobs it assumes for an open end: 100 in the code
  Cap,            \* how many entries of a set it reads at most: 500 in the code
  Scan,           \* how many groups it looks into: 100 in the code
  Limits,         \* the limits getCompleted() and the like are called with
  Movers,         \* bound: of other jobs, scripts run between the calls only, and
                  \* none that delays, stages or fails them
  MaxMoves,       \* bound: scripts that run during a call
  MaxSkips        \* bound: reads of a list that fail and are passed over

\* The sets for the statuses.
Keys == {"processing", "delayed", "completed", "failed", "group"}

ASSUME StatusViewAssumption ==
  /\ Jobs \subseteq Nat /\ IsFiniteSet(Jobs) /\ Kids \subseteq Jobs
  /\ IsFiniteSet(Groups) /\ GroupOf \in [Jobs -> Groups] /\ Movers \subseteq Jobs
  /\ {KeepCompleted, Unbounded, Cap, Scan, MaxMoves, MaxSkips} \cup Limits \subseteq Nat
  /\ Pages \subseteq Nat \X Int /\ Asks \subseteq SUBSET Keys

VARIABLES
  in,      \* [key -> jobs]: zsets processing, delayed, completed, failed, g:{gid}
  groups,  \* set groups
  raw,     \* hash job:{id}, field status; "none" without a hash
  call,    \* the call under way: what it is and the reads it has still to make
  got,     \* what it has read so far
  seen,    \* history: the statuses each job had since the call began
  moves    \* history: how many scripts ran since the call began

vars == <<in, groups, raw, call, got, seen, moves>>

\* The status that a set stands for.
StatusOf(key) ==
  CASE key = "processing" -> "active"
    [] key = "group"      -> "waiting"
    [] OTHER              -> key

Valid == {StatusOf(k) : k \in Keys} \cup {"waiting-children"}

\* Mutant: what is not known must be waiting.
CoerceWaiting(s) == IF s \in Valid THEN s ELSE "waiting"

\* coerceStatus(): the code writes "processing" and "staged" into a hash too.
Coerce(s) == IF s \in Valid THEN s ELSE "unknown"

\* The statuses a job has: while a failure is recorded it is in two sets.
Statuses(j) ==
  LET member == {StatusOf(k) : k \in {key \in Keys : j \in in[key]}}
  IN  IF member # {} THEN member
      ELSE IF raw[j] = "staged" THEN {"unknown"} ELSE {raw[j]}

\* A job that is not at its end, in the count of its group.
Live(j) == raw[j] \notin {"none", "completed", "failed"} \/ j \in in["processing"]

NoCall == [op |-> "none", todo |-> <<>>, job |-> 0, asked |-> {}, skipped |-> {},
           page |-> <<0, -1>>, limit |-> 0]
Unread == [k \in Keys |-> {}]

-----------------------------------------------------------------------------
(* Lists. *)

\* The n-th of a set of numbers, and the set in order.
Nth(S, n) == CHOOSE x \in S : Cardinality({y \in S : y < x}) = n - 1
Ascending(S)  == [n \in 1..Cardinality(S) |-> Nth(S, n)]
Descending(S) == [n \in 1..Cardinality(S) |-> Nth(S, Cardinality(S) + 1 - n)]

\* Of a list what stands at the places P, and the first n.
Only(list, P)  == [n \in 1..Cardinality(P) |-> list[Nth(P, n)]]
First(list, n) == SubSeq(list, 1, IF n < Len(list) THEN n ELSE Len(list))

-----------------------------------------------------------------------------
\* The type of every variable; a job is in one set, or is a failure being
\* recorded, and its hash goes with the sets; the group of a job that is not at
\* its end is listed.
TypeOK ==
  /\ in \in [Keys -> SUBSET Jobs] /\ moves \in 0..MaxMoves
  /\ raw \in [Jobs -> {"none", "staged", "waiting-children", "waiting",
                       "delayed", "processing", "completed", "failed"}]
  /\ \A j \in Jobs : \/ Cardinality(Statuses(j)) = 1
                     \/ Statuses(j) = {"active", "failed"}
  /\ \A k \in Keys : \A j \in in[k] : raw[j] # "none"
  /\ Cardinality(in["completed"]) <= KeepCompleted
  /\ groups \subseteq Groups /\ got.groups \subseteq Groups
  /\ \A j \in Jobs : Live(j) => GroupOf[j] \in groups
  /\ call.op \in {"none", "job", "jobs", "ended", "counts", "rows", "children"}
  /\ seen \in [Jobs -> SUBSET (Valid \cup {"unknown", "none"})]

Init ==
  /\ in = Unread /\ groups = {} /\ raw = [j \in Jobs |-> "none"]
  /\ call = NoCall /\ got = [sets |-> Unread, groups |-> {}, raw |-> raw]
  /\ seen = [j \in Jobs |-> {}] /\ moves = 0

-----------------------------------------------------------------------------
(* The scripts. *)

\* A script that leaves job j live has its group listed.  A group without live
\* jobs is dropped, or stays because its count is too high.
ListGroup(j) ==
  \/ Live(j)' /\ groups' = groups \cup {GroupOf[j]}
  \/ ~Live(j)' /\ groups' = groups
  \/ /\ \A i \in Jobs : GroupOf[i] = GroupOf[j] => ~Live(i)'
     /\ groups' = groups \ {GroupOf[j]}

\* Job j is now in the sets "to" and its hash says s.  The jobs "out" are gone.
Move(j, to, s, out) ==
  /\ \/ j \in Movers
     \/ call.op = "none" /\ s \in {"waiting", "processing", "completed", "none"}
  /\ moves < MaxMoves /\ moves' = (IF call.op = "none" THEN 0 ELSE moves + 1)
  /\ in' = [k \in Keys |->
              ((in[k] \ {j}) \cup (IF k \in to THEN {j} ELSE {})) \ out]
  /\ raw' = [i \in Jobs |-> IF i \in out THEN "none"
                            ELSE IF i = j THEN s ELSE raw[i]]
  /\ ListGroup(j)
  /\ seen' = [i \in Jobs |-> IF call.op = "none" THEN {}
                             ELSE seen[i] \cup Statuses(i)']
  /\ UNCHANGED <<call, got>>

\* enqueue.lua, enqueue-batch.lua and, for a parent, enqueue-flow.lua.
Enqueue(j) ==
  /\ raw[j] = "none"
  /\ \/ Move(j, {"group"}, "waiting", {})
     \/ Move(j, {"delayed"}, "delayed", {})
     \/ Move(j, {}, "staged", {})
     \/ Move(j, {}, "waiting-children", {})

\* promote-staged.lua, promote-delayed-jobs.lua, change-delay.lua, the release
\* of a parent.
Ready(j) ==
  /\ raw[j] \in {"staged", "delayed", "waiting-children"}
  /\ Move(j, {"group"}, "waiting", {})

Reserve(j) == j \in in["group"] /\ Move(j, {"processing"}, "processing", {})

\* complete-with-metadata.lua: the oldest completed jobs are dropped.  Here any
\* of them may be the oldest.
Complete(j) ==
  /\ j \in in["processing"] /\ raw[j] = "processing"
  /\ IF KeepCompleted = 0 THEN Move(j, {}, "none", {})
     ELSE \E old \in SUBSET in["completed"] :
            /\ Cardinality(in["completed"] \ old) + 1 <= KeepCompleted
            /\ old # {} => Cardinality(in["completed"] \ old) + 1 = KeepCompleted
            /\ Move(j, {"completed"}, "completed", old)

\* retry.lua, with and without a backoff, and change-delay.lua.
Retry(j) ==
  /\ j \in in["processing"] /\ raw[j] = "processing"
  /\ \/ Move(j, {"group"}, "waiting", {})
     \/ Move(j, {"delayed"}, "delayed", {})

Postpone(j) == j \in in["group"] /\ Move(j, {"delayed"}, "delayed", {})

\* recordFinalFailure(), and deadLetter(), which comes after it.
RecordFailure(j) ==
  /\ j \in in["processing"] /\ raw[j] = "processing"
  /\ Move(j, {"processing", "failed"}, "failed", {})

DeadLetter(j) ==
  /\ j \in in["processing"] /\ raw[j] = "failed"
  /\ Move(j, {"failed"}, "failed", {})

\* Mutant: the job stays in the set failed.
RemoveKeepsFailed(j) ==
  raw[j] # "none" /\ Move(j, {"failed"} \cap {k \in Keys : j \in in[k]}, "none", {})

\* remove.lua and clean-status.lua.
RemoveJob(j) == raw[j] # "none" /\ Move(j, {}, "none", {})

-----------------------------------------------------------------------------
(* The calls.  A read takes one set, or the hashes of all jobs in a MULTI. *)

\* The reads of a call, in their order.
ListOrder   == <<"processing", "delayed", "completed", "failed", "groups", "group">>
CountOrder  == <<"processing", "group", "delayed", "completed", "failed">>
StoreOrder  == <<"hash", "processing", "delayed", "group">>

Begin(c) ==
  /\ call.op = "none"
  /\ call' = c /\ got' = [sets |-> Unread, groups |-> {}, raw |-> raw]
  /\ seen' = [j \in Jobs |-> Statuses(j)] /\ moves' = 0
  /\ UNCHANGED <<in, groups, raw>>

GetJob(j) == Begin([NoCall EXCEPT !.op = "job", !.todo = StoreOrder, !.job = j])

GetJobCounts ==
  Begin([NoCall EXCEPT !.op = "counts", !.todo = CountOrder, !.asked = Keys])

\* Of each set it reads twice as many entries as the page has, whatever its start.
GetJobsByStatus(asked, page) ==
  LET start == page[1]
      end   == page[2]
      limit == 2 * (IF end >= 0 THEN end - start + 1 ELSE Unbounded)
      keys  == asked \cup (IF "group" \in asked THEN {"groups"} ELSE {})
  IN  Begin([NoCall EXCEPT !.op = "jobs", !.asked = asked, !.page = page,
               !.limit = IF limit < Cap THEN limit ELSE Cap,
               !.todo = Only(ListOrder, {n \in DOMAIN ListOrder : ListOrder[n] \in keys})
                        \o <<"hash">>])

\* getCompletedJobs() and getFailedJobs(): a limit of 0 is one of 1.
AtLeastOne(n) == IF n = 0 THEN 1 ELSE n

GetEndedJobs(key, n) ==
  Begin([NoCall EXCEPT !.op = "ended", !.asked = {key}, !.limit = AtLeastOne(n),
                       !.todo = <<key, "hash">>])

\* getFlowChildren(): the ids, which here are given, and the hashes.
GetFlowChildren == Begin([NoCall EXCEPT !.op = "children", !.todo = <<"hash">>])

\* getCompleted() and getFailed(): a row for each id, with or without a hash.
GetRows(key, n) ==
  Begin([NoCall EXCEPT !.op = "rows", !.asked = {key}, !.limit = AtLeastOne(n),
                       !.todo = <<key, "hash">>])

\* The waiting jobs that a read of them meets: in the groups listed before, or
\* when the script get-waiting-count.lua runs, or in the job's own group.
Met ==
  LET looked == CASE call.op = "jobs"   -> got.groups
                  [] call.op = "counts" -> groups
                  [] OTHER              -> Groups
  IN  {j \in in["group"] : GroupOf[j] \in looked}

\* The next command of the call is answered.  SMEMBERS lists in any order, and
\* no more than the first groups are looked into.
Read ==
  /\ call.todo # <<>>
  /\ LET key == Head(call.todo) IN
     \/ key = "hash" /\ got' = [got EXCEPT !.raw = raw]
     \/ key = "group" /\ got' = [got EXCEPT !.sets[key] = Met]
     \/ key \in Keys \ {"group"} /\ got' = [got EXCEPT !.sets[key] = in[key]]
     \/ /\ key = "groups"
        /\ \E some \in SUBSET groups :
             /\ Cardinality(some) <= Scan
             /\ some = groups \/ Cardinality(some) = Scan
             /\ got' = [got EXCEPT !.groups = some]
  /\ call' = [call EXCEPT !.todo = Tail(@)]
  /\ UNCHANGED <<in, groups, raw, seen, moves>>

\* A read of getJobsByStatus() fails: it goes on without the set, and without
\* the waiting jobs when it does not know the groups.
Skip ==
  /\ call.op = "jobs" /\ call.todo # <<>> /\ Head(call.todo) # "hash"
  /\ Cardinality(call.skipped) < MaxSkips
  /\ LET key == IF Head(call.todo) = "groups" THEN "group" ELSE Head(call.todo)
     IN  call' = [call EXCEPT !.todo = Tail(@), !.skipped = @ \cup {key}]
  /\ UNCHANGED <<in, groups, raw, got, seen, moves>>

\* The sets that a call reads, without those that it passed over.
Asked == call.asked \ call.skipped

\* fromStore(): the sets are asked before the hash is believed.
StoredStatus(j) ==
  IF got.raw[j] = "none" THEN "none"
  ELSE IF j \in got.sets["processing"] THEN "active"
  ELSE IF j \in got.sets["delayed"] THEN "delayed"
  ELSE IF j \in got.sets["group"] THEN "waiting"
  ELSE Coerce(got.raw[j])

\* fromRawHash() without a known status.
HashStatus(j) == Coerce(got.raw[j])

\* Mutant: the ids are not made unique.
UniqueNot(ids) == ids

\* Each id once, where it is first.
Unique(ids) == Only(ids, {n \in DOMAIN ids : \A m \in 1..n - 1 : ids[m] # ids[n]})

\* Of each of the n groups the first ceil(limit / n) waiting jobs are read, and one
\* at least.  So it is read that has a others of its group before it.
InShare(a) == a = 0 \/ a * Cardinality(got.groups) < call.limit
Ahead(S, j) == {i \in S : GroupOf[i] = GroupOf[j] /\ i < j}
Heads(S) == {j \in S : InShare(Cardinality(Ahead(S, j)))}

\* What ZRANGE and ZREVRANGE read of a set.
Entries(key) ==
  IF key \notin Asked THEN <<>>
  ELSE CASE key = "group"                   -> Ascending(Heads(got.sets[key]))
         [] key \in {"completed", "failed"} -> First(Descending(got.sets[key]), call.limit)
         [] OTHER                           -> First(Ascending(got.sets[key]), call.limit)

\* idToStatus: the set that was read last decides.
KnownStatus(j) ==
  LET In(n) == j \in ToSet(Entries(ListOrder[n]))
      last  == CHOOSE n \in 1..Len(ListOrder) :
                 In(n) /\ \A m \in n + 1..Len(ListOrder) : ~In(m)
  IN  StatusOf(ListOrder[last])

\* The ids of a call: those of the sets one after the other, each once, and of
\* these the page.
PageIds ==
  LET start == call.page[1]
      end   == call.page[2]
      ids   == Unique(Entries("processing") \o Entries("delayed")
                      \o Entries("completed") \o Entries("failed") \o Entries("group"))
      page  == IF end >= 0 THEN First(ids, end + 1) ELSE ids
  IN  SubSeq(page, start + 1, Len(page))

\* What the call answers: pairs of a job and its status.  A job whose hash is
\* gone is left out of a list of jobs, and is a row without data in
\* getCompleted().
Answer ==
  LET Rows(ids) == [n \in DOMAIN ids |-> <<ids[n], KnownStatus(ids[n])>>] IN
  CASE call.op = "job"  -> <<<<call.job, StoredStatus(call.job)>>>>
    [] call.op \in {"jobs", "ended"} ->
         Rows(Only(PageIds, {n \in DOMAIN PageIds : got.raw[PageIds[n]] # "none"}))
    [] call.op = "rows" -> Rows(PageIds)
    [] call.op = "children" ->
         LET there == SetToSeq({j \in Kids : got.raw[j] # "none"})
         IN  [n \in DOMAIN there |-> <<there[n], HashStatus(there[n])>>]
    [] OTHER            -> <<>>

Count(key) == Cardinality(got.sets[key])

Finished == call.op # "none" /\ call.todo = <<>>

Ends ==
  /\ call' = NoCall
  /\ got' = [sets |-> Unread, groups |-> {}, raw |-> [j \in Jobs |-> "none"]]
  /\ seen' = [j \in Jobs |-> {}] /\ moves' = 0
  /\ UNCHANGED <<in, groups, raw>>

Finish == Finished /\ Ends

\* A read fails that the call does not pass over, and it rejects.
Reject ==
  /\ call.todo # <<>> /\ (call.op = "jobs" => Head(call.todo) = "hash")
  /\ Ends

-----------------------------------------------------------------------------
Script(j) ==
  \/ Enqueue(j) \/ Ready(j) \/ Reserve(j) \/ Complete(j) \/ Retry(j)
  \/ Postpone(j) \/ RecordFailure(j) \/ DeadLetter(j) \/ RemoveJob(j)

Request ==
  \/ \E j \in Jobs : GetJob(j)
  \/ GetJobCounts
  \/ \E asked \in Asks, page \in Pages : GetJobsByStatus(asked, page)
  \/ \E key \in {"completed", "failed"}, n \in Limits :
       GetEndedJobs(key, n) \/ GetRows(key, n)
  \/ GetFlowChildren

Next == (\E j \in Jobs : Script(j)) \/ Request
        \/ Read \/ Skip \/ Finish \/ Reject

Spec == Init /\ [][Next]_vars

-----------------------------------------------------------------------------
\* What a call answers was so at some moment while it ran, although its reads
\* are of different moments: a job had the status it is listed with, unless the
\* answer is that it is not known, and a count is no less than the jobs that had
\* the status all along and no more than those that had it at all.
AnswerWasTrue ==
  Finished =>
    /\ \A row \in ToSet(Answer) : row[2] \in seen[row[1]] \cup {"unknown"}
    /\ call.op = "counts" => \A key \in Keys :
         /\ Cardinality({j \in Jobs : seen[j] = {StatusOf(key)}}) <= Count(key)
         /\ Count(key) <= Cardinality({j \in Jobs : StatusOf(key) \in seen[j]})

\* A job that no script touched during a call is shown as it is: by getJob(), and
\* by a list without an end of the sets that it could read, when it has read them to
\* their ends and no more groups are listed than it looks into; and no list has a job
\* twice.  The first two pages of a queue at rest, whatever their length, are as full
\* as they can be, unless waiting jobs are asked for and a group has more of them than
\* its share, which is less than what comes up to the end of the page.  (Further pages
\* are not: of each set twice as many entries as a page has are read, wherever it
\* starts.)
RestingJobsShown ==
  Finished =>
    LET asked == {StatusOf(key) : key \in Asked}
        shown == [j \in Jobs |->
                    Cardinality({n \in DOMAIN Answer : Answer[n][1] = j})]
        start == call.page[1]
        end   == call.page[2]
        there == Cardinality({j \in Jobs : seen[j] \cap asked # {}})
        last  == IF there < end + 1 THEN there ELSE end + 1
        whole == Heads(got.sets["group"]) = got.sets["group"]
    IN
    /\ call.op = "job" /\ Cardinality(seen[call.job]) = 1
         => Answer[1][2] \in seen[call.job]
    /\ \A j \in Jobs : shown[j] <= 1
    /\ call.op \in {"jobs", "ended", "rows"} /\ start = 0 /\ end < 0
       /\ (\A key \in Asked \ {"group"} : Count(key) <= call.limit) /\ whole
         => \A j \in Jobs : \A s \in asked :
              seen[j] = {s} /\ (s = "waiting" => \/ GroupOf[j] \in got.groups
                                               \/ Cardinality(got.groups) < Scan)
                => <<j, s>> \in ToSet(Answer)
    /\ call.op = "jobs" /\ start <= end - start + 1 /\ end \in 0..Cap - 1 /\ moves = 0
       /\ ("group" \in Asked => Cardinality(groups) <= Scan /\ (whole \/ InShare(end)))
         => Len(Answer) = (IF last < start THEN 0 ELSE last - start)
=============================================================================
