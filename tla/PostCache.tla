------------------------------ MODULE PostCache ------------------------------
(***************************************************************************)
(* The detail cache of one post: logic/post.go (GetPostById, UpdatePost)   *)
(* with dao/redis/post_cache.go and dao/mysql/post.go.  Readers fill a     *)
(* cache that is empty; a writer updates MySQL, deletes the cache, and     *)
(* leaves a timer behind that deletes it once more.                        *)
(*                                                                         *)
(* An instance serves one read and one update at a time and keeps any      *)
(* number of timers.  A read that finds a copy, or whose GET fails, leaves *)
(* everything as it is.                                                    *)
(***************************************************************************)
EXTENDS Naturals

CONSTANTS
    Instances,
    Contents,       \* what the author may submit
    NoCopy,         \* no cache:post:<p>; also: no copy in a reader's hands
    MaxUpdates,     \* bound: calls of UpdatePost
    MaxFaults       \* bound: failures, crashes and slow readers

ASSUME ContentsAssumption == Contents # {} /\ NoCopy \notin Contents
ASSUME BoundsAssumption == MaxUpdates \in Nat /\ MaxFaults \in Nat

VARIABLES
    stored,         \* the post in MySQL
    cache,          \* cache:post:<p>
    reader,         \* per instance: where GetPostById is, and what it has read
    writer,         \* per instance: where UpdatePost is
    timers,         \* delayed deletions to come: whose, and which reads they outlast
    updates,        \* calls of UpdatePost so far
    faults

vars == <<stored, cache, reader, writer, timers, updates, faults>>

NotReading == [phase |-> "idle", copy |-> NoCopy]
Missed == [phase |-> "missed", copy |-> NoCopy]
Loaded(c) == [phase |-> "loaded", copy |-> c]

TypeOK ==
    /\ stored \in Contents /\ cache \in Contents \cup {NoCopy}
    /\ reader \in [Instances -> {NotReading, Missed} \cup {Loaded(c) : c \in Contents}]
    /\ writer \in [Instances -> {"idle", "updated", "deleted"}]
    /\ timers \subseteq [by : Instances, nr : 0..MaxUpdates, slow : SUBSET Instances]
    /\ updates \in 0..MaxUpdates /\ faults \in 0..MaxFaults

Init ==
    /\ stored \in Contents /\ cache = NoCopy
    /\ reader = [i \in Instances |-> NotReading]
    /\ writer = [i \in Instances |-> "idle"]
    /\ timers = {} /\ updates = 0 /\ faults = 0

Fault == faults < MaxFaults /\ faults' = faults + 1

-----------------------------------------------------------------------------
(* GetPostById                                                              *)

\* GetPostDetailCache finds nothing.
Miss(i) ==
    /\ reader[i] = NotReading /\ cache = NoCopy
    /\ reader' = [reader EXCEPT ![i] = Missed]
    /\ UNCHANGED <<stored, cache, writer, timers, updates, faults>>

\* GetPostDetailByID.
Load(i) ==
    /\ reader[i] = Missed
    /\ reader' = [reader EXCEPT ![i] = Loaded(stored)]
    /\ UNCHANGED <<stored, cache, writer, timers, updates, faults>>

\* The read of i is over, and no timer need wait for it any more.
Return(i) ==
    /\ reader' = [reader EXCEPT ![i] = NotReading]
    /\ timers' = {[t EXCEPT !.slow = @ \ {i}] : t \in timers}

\* SetPostDetailCache.
Fill(i) ==
    /\ reader[i].phase = "loaded" /\ Return(i)
    /\ cache' = reader[i].copy
    /\ UNCHANGED <<stored, writer, updates, faults>>

\* Reading or filling fails; the caller gets an error or the post.
FillFails(i) ==
    /\ reader[i] # NotReading /\ Fault /\ Return(i)
    /\ UNCHANGED <<stored, cache, writer, updates>>

-----------------------------------------------------------------------------
(* UpdatePost                                                               *)

Update(i, c) ==
    /\ writer[i] = "idle" /\ updates < MaxUpdates
    /\ updates' = updates + 1 /\ stored' = c

\* A content that differs affects a row; the same content affects none, and the
\* caller is told of success at once.
UpdateCommits(i, c) ==
    /\ Update(i, c)
    /\ writer' = [writer EXCEPT ![i] = IF c = stored THEN "idle" ELSE "updated"]
    /\ UNCHANGED <<cache, reader, timers, faults>>

\* The update takes effect but the caller gets an error: there is no invalidation.
UpdateReplyLost(i, c) ==
    /\ Update(i, c) /\ Fault
    /\ UNCHANGED <<cache, reader, writer, timers>>

Deletion == cache' = NoCopy

DeleteNow(i) ==
    /\ writer[i] = "updated" /\ Deletion
    /\ writer' = [writer EXCEPT ![i] = "deleted"]
    /\ UNCHANGED <<stored, reader, timers, updates, faults>>

\* The error is logged.
DeleteNowFails(i) ==
    /\ writer[i] = "updated" /\ Fault
    /\ writer' = [writer EXCEPT ![i] = "deleted"]
    /\ UNCHANGED <<stored, cache, reader, timers, updates>>

\* No second deletion.
SingleDelete(i) == UNCHANGED timers

\* time.AfterFunc.  The delay is chosen longer than a read and its fill take
\* (docs/PROJECT_REFACTOR_DESIGN.md, 7.4), so it outlasts the reads that have loaded.
AfterFunc(i) ==
    timers' = timers \cup
        {[by |-> i, nr |-> updates, slow |-> {r \in Instances : reader[r].phase = "loaded"}]}

ArmTimer(i) ==
    /\ writer[i] = "deleted" /\ AfterFunc(i)
    /\ writer' = [writer EXCEPT ![i] = "idle"]
    /\ UNCHANGED <<stored, cache, reader, updates, faults>>

\* A timer that does not wait for anybody.
Immediately(t) == TRUE
OutlastsReads(t) == t.slow = {}

DelayedDelete(t) ==
    /\ OutlastsReads(t) /\ Deletion /\ timers' = timers \ {t}
    /\ UNCHANGED <<stored, reader, writer, updates, faults>>

DelayedDeleteFails(t) ==
    /\ OutlastsReads(t) /\ Fault /\ timers' = timers \ {t}
    /\ UNCHANGED <<stored, cache, reader, writer, updates>>

\* A read takes longer than the delay.
SlowReader(t) ==
    /\ ~OutlastsReads(t) /\ Fault /\ Deletion /\ timers' = timers \ {t}
    /\ UNCHANGED <<stored, reader, writer, updates>>

-----------------------------------------------------------------------------

\* A copy without a time to live.
KeepsCopy == FALSE
\* The time to live that SetPostDetailCache gave the copy has passed.
HasCopy == cache # NoCopy

Expire ==
    /\ HasCopy /\ cache' = NoCopy
    /\ UNCHANGED <<stored, reader, writer, timers, updates, faults>>

\* The process ends, with its requests and its timers.
Crash(i) ==
    /\ Fault
    /\ reader' = [reader EXCEPT ![i] = NotReading]
    /\ writer' = [writer EXCEPT ![i] = "idle"]
    /\ timers' = {[t EXCEPT !.slow = @ \ {i}] : t \in {u \in timers : u.by # i}}
    /\ UNCHANGED <<stored, cache, updates>>

Read(i) == Miss(i) \/ Load(i) \/ Fill(i) \/ FillFails(i)
Write(i) ==
    \/ \E c \in Contents : UpdateCommits(i, c) \/ UpdateReplyLost(i, c)
    \/ DeleteNow(i) \/ DeleteNowFails(i) \/ ArmTimer(i)
Timer == \E t \in timers : DelayedDelete(t) \/ DelayedDeleteFails(t) \/ SlowReader(t)

Next == \/ \E i \in Instances : Read(i) \/ Write(i) \/ Crash(i)
        \/ Timer \/ Expire

Spec == Init /\ [][Next]_vars

\* A request that has begun goes on, a timer fires, a time to live passes.
Fairness ==
    /\ \A i \in Instances : WF_vars(Load(i)) /\ WF_vars(Fill(i))
    /\ \A i \in Instances : WF_vars(DeleteNow(i)) /\ WF_vars(ArmTimer(i))
    /\ WF_vars(\E t \in timers : DelayedDelete(t))
    /\ WF_vars(Expire)

FairSpec == Spec /\ Fairness

-----------------------------------------------------------------------------

Fresh(c) == c \in {NoCopy, stored}

\* An update that has not yet seen to its second deletion.
Updating == \E i \in Instances : writer[i] # "idle"

\* Deleting twice clears what a slow reader puts back (docs/PROJECT_REFACTOR_DESIGN.md,
\* 7.4): without failures, a copy other than MySQL's is about to be deleted, by an
\* update under way or by a timer.
StaleIsTransient == faults = 0 /\ ~Fresh(cache) => Updating \/ timers # {}

\* A reader that still holds an old post will have put it into the cache when
\* some timer deletes it.
SlowReadIsOutlasted ==
    faults = 0 => \A r \in Instances :
        ~Fresh(reader[r].copy) => Updating \/ \E t \in timers : r \in t.slow

\* The inductive strengthening of StaleIsTransient.
IInv == TypeOK /\ StaleIsTransient /\ SlowReadIsOutlasted

\* The cache shows the present post in the end (docs/PROJECT_REFACTOR_DESIGN.md,
\* 14.3), whichever deletions failed or were lost.
FreshInTheEnd == <>[]Fresh(cache)
=============================================================================
