--------------------------- MODULE PostIndexProofs ---------------------------
(***************************************************************************)
(* Proofs about PostIndex, for all values of the constants.                *)
(***************************************************************************)
EXTENDS PostIndex, FiniteSetTheorems, TLAPS

USE DEF outboxVars, queueVars

-----------------------------------------------------------------------------
(* Types, by the part of the state                                          *)

IndexTypes == marker \in {"missing", "ready", "rebuilding"} /\ index \subseteq Posts
ScoreTypes == score \in [Posts -> Int]
VoteTypes == vote \in [Keys -> VoteType] /\ row \in [Keys -> VoteType]
EventTypes == unsent \subseteq EventType /\ broker \subseteq EventType
LeftTypes == unacked \in BOOLEAN /\ copies \in BOOLEAN
PhaseTypes == phase \in [Apis -> {"stopped", "counted", "timed", "compared", "marking", "running"}]
SeenTypes == seen \in [Apis -> [posts : SUBSET Posts, index : SUBSET Posts]]
TaskTypes == task \in [Apis -> TaskType] /\ posts \subseteq Posts
RebuildTypes == rebuild \in {"none", "clear", "restore", "mark"} /\ restored \subseteq Posts
FaultTypes == faults \in 0..MaxFaults /\ losses \in 0..MaxLosses

LEMMA TypeParts ==
    TypeOK <=> /\ IndexTypes /\ ScoreTypes /\ VoteTypes /\ EventTypes /\ LeftTypes
               /\ PhaseTypes /\ SeenTypes /\ TaskTypes /\ RebuildTypes /\ FaultTypes
  BY DEF TypeOK, IndexTypes, ScoreTypes, VoteTypes, EventTypes, LeftTypes, PhaseTypes,
     SeenTypes, TaskTypes, RebuildTypes, FaultTypes

LEMMA CountsOfUsers == \A S \in SUBSET Users : IsFiniteSet(S) /\ Cardinality(S) \in Nat
  BY UsersAssumption, FS_Subset, FS_CardinalityType

LEMMA NetVoteInt == \A p \in Posts : NetVote(p) \in Int
<1> TAKE p \in Posts
<1> DEFINE Up == {u \in Users : row[<<u, p>>].dir = 1}
           Down == {u \in Users : row[<<u, p>>].dir = -1}
<1>1. Cardinality(Up) \in Nat /\ Cardinality(Down) \in Nat
  BY CountsOfUsers
<1> QED
  BY <1>1 DEF NetVote

LEMMA NoRowIsVote == NoRow \in VoteType
  BY BoundsAssumption DEF NoRow, VoteType, Directions

LEMMA UpsertIsVote == \A r \in VoteType, e \in EventType : Upsert(r, e) \in VoteType
  BY BoundsAssumption DEF Upsert, VoteType, EventType

LEMMA PathUpsert == \A r, e : Path!Upsert(r, e) = Upsert(r, e)
  BY DEF Path!Upsert, Upsert

LEMMA EventIsVote == \A e \in EventType : e.key \in Keys
  BY DEF EventType

LEMMA NoTaskIsTask == NoTask \in TaskType
  BY BoundsAssumption DEF NoTask, TaskType

LEMMA CheckedIsTask == [kind |-> "checked", post |-> NoPost, tries |-> 0] \in TaskType
  BY BoundsAssumption DEF TaskType

LEMMA IndexIsTask ==
    ASSUME NEW p \in Posts, NEW n \in 1..MaxAttempts
    PROVE  [kind |-> "index", post |-> p, tries |-> n] \in TaskType
  BY BoundsAssumption DEF TaskType

LEMMA AddKeepsTypes ==
    ASSUME NEW p, AddToIndex(p)
    PROVE  ScoreTypes => ScoreTypes'
<1>1. CASE p \in Posts
  BY <1>1 DEF AddToIndex, ScoreTypes
<1>2. CASE p \notin Posts
  BY <1>2 DEF AddToIndex, ScoreTypes
<1> QED
  BY <1>1, <1>2

LEMMA IndexTypesStep ==
    IndexTypes /\ TaskTypes /\ [Next]_vars => IndexTypes'
<1> SUFFICES ASSUME IndexTypes /\ TaskTypes, [Next]_vars PROVE IndexTypes'
  OBVIOUS
<1>1. ASSUME NEW a \in Apis, MarkReady(a) PROVE IndexTypes'
  BY <1>1 DEF MarkReady, Enter, Decide, IndexTypes, TaskTypes
<1>2. ASSUME NEW a \in Apis, IndexPost(a) PROVE IndexTypes'
  BY <1>2 DEF IndexPost, AddToIndex, Reply, TaskType, IndexTypes, TaskTypes
<1>3. ASSUME NEW a \in Apis, IndexPostFails(a) PROVE IndexTypes'
  BY <1>3 DEF IndexPostFails, Fault, AddToIndex, Continue, Reply, MoreAttempts, TaskType,
        IndexTypes, TaskTypes
<1>4. CASE LoseRedis
  BY <1>4 DEF LoseRedis, IndexTypes, TaskTypes
<1>5. CASE PrepareRebuild
  BY <1>5 DEF PrepareRebuild, IndexTypes, TaskTypes
<1>6. CASE ClearIndex
  BY <1>6 DEF ClearIndex, IndexTypes, TaskTypes
<1>7. CASE RestoreBatch
  BY <1>7 DEF RestoreBatch, RestoredVote, IndexTypes, TaskTypes
<1>8. CASE MarkRebuilt
  BY <1>8 DEF MarkRebuilt, IndexTypes, TaskTypes
<1>9. ASSUME NEW a \in Apis, CountPosts(a) \/ CountTimes(a) \/ CountScores(a) \/
      ReadMarker(a) \/ Stop(a) \/
      EnsureVoteStateReadable(a) \/ StorePost(a) \/ StorePostFails(a) \/ VoteRefused(a) \/
      \E k \in Keys, d \in Directions : VoteForPost(a, k, d)
      PROVE  IndexTypes'
  <2>1. UNCHANGED <<marker, index>>
    BY <1>9 DEF CountPosts, CountTimes, CountScores, ReadMarker, Stop,
       EnsureVoteStateReadable, StorePost, StorePostFails, VoteRefused, VoteForPost,
       Enter, Decide, Fault, Continue, Reply, Indexed, vars, redisVars, mysqlVars,
       apiVars, rebuildVars
  <2> QED
    BY <2>1 DEF IndexTypes, TaskTypes
<1>10. CASE Relay \/ Acknowledge \/ Persist \/ CopiesComeAndGo \/ VerifyIndex \/
      RebuildAborted
  <2>1. UNCHANGED <<marker, index>>
    BY <1>10 DEF Relay, Acknowledge, Persist, CopiesComeAndGo, VerifyIndex,
       RebuildAborted, Fault, vars, redisVars, mysqlVars, apiVars, rebuildVars
  <2> QED
    BY <2>1 DEF IndexTypes, TaskTypes
<1>11. CASE UNCHANGED vars
  BY <1>11 DEF vars, redisVars, mysqlVars, apiVars, rebuildVars, IndexTypes, TaskTypes
<1> QED
  BY <1>1, <1>2, <1>3, <1>4, <1>5, <1>6, <1>7, <1>8, <1>9, <1>10, <1>11 DEF Next, StartStep,
        Request, RebuildStep


LEMMA ScoreTypesStep ==
    ScoreTypes /\ VoteTypes /\ [Next]_vars => ScoreTypes'
<1> SUFFICES ASSUME ScoreTypes /\ VoteTypes, [Next]_vars PROVE ScoreTypes'
  OBVIOUS
<1>1. ASSUME NEW a \in Apis, IndexPost(a) PROVE ScoreTypes'
  BY <1>1, AddKeepsTypes DEF IndexPost, Reply, ScoreTypes
<1>2. ASSUME NEW a \in Apis, IndexPostFails(a) PROVE ScoreTypes'
  BY <1>2 DEF IndexPostFails, Fault, AddToIndex, Continue, Reply, MoreAttempts, ScoreTypes
<1>3. ASSUME NEW a \in Apis, NEW k \in Keys, NEW d \in Directions, VoteForPost(a, k, d)
      PROVE ScoreTypes'
  BY <1>3 DEF VoteForPost, Reply, Indexed, VoteTypes, VoteType, Directions, Keys, ScoreTypes
<1>4. CASE LoseRedis
  BY <1>4 DEF LoseRedis, ScoreTypes
<1>5. CASE ClearIndex
  BY <1>5 DEF ClearIndex, ScoreTypes
<1>6. CASE RestoreBatch
  <2>1. PICK p \in posts : score' = [score EXCEPT ![p] = NetVote(p)]
    BY <1>6 DEF RestoreBatch
  <2>2. CASE p \in Posts
    BY <2>1, <2>2, NetVoteInt DEF ScoreTypes
  <2>3. CASE p \notin Posts
    BY <2>1, <2>3 DEF ScoreTypes
  <2> QED
    BY <2>2, <2>3
<1>7. ASSUME NEW a \in Apis, CountPosts(a) \/ CountTimes(a) \/ CountScores(a) \/
      ReadMarker(a) \/ MarkReady(a)
      \/ Stop(a) \/ EnsureVoteStateReadable(a) \/ StorePost(a) \/ StorePostFails(a) \/
      VoteRefused(a)
      PROVE  ScoreTypes'
  <2>1. UNCHANGED <<score>>
    BY <1>7 DEF CountPosts, CountTimes, CountScores, ReadMarker, MarkReady, Stop,
          EnsureVoteStateReadable, StorePost, StorePostFails, VoteRefused, Enter, Decide,
          Fault, Continue, Reply, vars, redisVars, mysqlVars, apiVars, rebuildVars
  <2> QED
    BY <2>1 DEF ScoreTypes
<1>8. CASE Relay \/ Acknowledge \/ Persist \/ CopiesComeAndGo \/ PrepareRebuild \/
      VerifyIndex \/ MarkRebuilt \/
      RebuildAborted
  <2>1. UNCHANGED <<score>>
    BY <1>8 DEF Relay, Acknowledge, Persist, CopiesComeAndGo, PrepareRebuild, VerifyIndex,
       MarkRebuilt, RebuildAborted, Fault, vars, redisVars, mysqlVars, apiVars,
       rebuildVars
  <2> QED
    BY <2>1 DEF ScoreTypes
<1>9. CASE UNCHANGED vars
  BY <1>9 DEF vars, redisVars, mysqlVars, apiVars, rebuildVars, ScoreTypes
<1> QED
  BY <1>1, <1>2, <1>3, <1>4, <1>5, <1>6, <1>7, <1>8, <1>9 DEF Next, StartStep, Request,
        RebuildStep


LEMMA VoteTypesStep ==
    VoteTypes /\ EventTypes /\ [Next]_vars => VoteTypes'
<1> SUFFICES ASSUME VoteTypes /\ EventTypes, [Next]_vars PROVE VoteTypes'
  OBVIOUS
<1>1. ASSUME NEW a \in Apis, NEW k \in Keys, NEW d \in Directions, VoteForPost(a, k, d)
      PROVE VoteTypes'
  BY <1>1, BoundsAssumption DEF VoteForPost, Path!Cast, Reply, Indexed, VoteType,
     VoteTypes, redisVars, mysqlVars
<1>2. CASE Persist
  BY <1>2, UpsertIsVote, EventIsVote, PathUpsert DEF Persist, Path!Persist, EventTypes,
     VoteTypes, redisVars, mysqlVars
<1>3. CASE LoseRedis
  BY <1>3, NoRowIsVote DEF LoseRedis, VoteTypes, redisVars, mysqlVars
<1>4. CASE ClearIndex
  BY <1>4, NoRowIsVote DEF ClearIndex, VoteTypes, redisVars, mysqlVars
<1>5. CASE RestoreBatch
  <2>1. PICK p \in posts :
            vote' = [k \in Keys |-> IF k[2] = p THEN row[k] ELSE vote[k]]
    BY <1>5 DEF RestoreBatch, RestoredVote
  <2>2. row' = row
    BY <1>5 DEF RestoreBatch, mysqlVars
  <2> QED
    BY <2>1, <2>2 DEF VoteTypes
<1>6. ASSUME NEW a \in Apis, CountPosts(a) \/ CountTimes(a) \/ CountScores(a) \/
      ReadMarker(a) \/ MarkReady(a)
      \/ Stop(a) \/ EnsureVoteStateReadable(a) \/ StorePost(a) \/ StorePostFails(a) \/
      IndexPost(a) \/ IndexPostFails(a) \/ VoteRefused(a)
      PROVE  VoteTypes'
  <2>1. UNCHANGED <<vote, row>>
    BY <1>6 DEF CountPosts, CountTimes, CountScores, ReadMarker, MarkReady, Stop,
          EnsureVoteStateReadable, StorePost, StorePostFails, IndexPost, IndexPostFails,
          VoteRefused, Enter, Decide, Fault, Continue, Reply, AddToIndex, MoreAttempts,
          vars, redisVars, mysqlVars, apiVars, rebuildVars
  <2> QED
    BY <2>1 DEF VoteTypes, redisVars, mysqlVars
<1>7. CASE Relay \/ Acknowledge \/ CopiesComeAndGo \/ PrepareRebuild \/
      VerifyIndex \/ MarkRebuilt \/ RebuildAborted
  <2>1. UNCHANGED <<vote, row>>
    BY <1>7 DEF Relay, Path!Relay, Acknowledge, Path!Acknowledge, CopiesComeAndGo,
       Path!CopiesComeAndGo, PrepareRebuild, VerifyIndex, MarkRebuilt, RebuildAborted,
       Fault, vars, redisVars, mysqlVars, apiVars, rebuildVars
  <2> QED
    BY <2>1 DEF VoteTypes, redisVars, mysqlVars
<1>8. CASE UNCHANGED vars
  BY <1>8 DEF vars, redisVars, mysqlVars, apiVars, rebuildVars, VoteTypes, redisVars,
        mysqlVars
<1> QED
  BY <1>1, <1>2, <1>3, <1>4, <1>5, <1>6, <1>7, <1>8 DEF Next, StartStep, Request,
        RebuildStep


LEMMA EventTypesStep ==
    EventTypes /\ VoteTypes /\ [Next]_vars => EventTypes'
<1> SUFFICES ASSUME EventTypes /\ VoteTypes, [Next]_vars PROVE EventTypes'
  OBVIOUS
<1>1. ASSUME NEW a \in Apis, NEW k \in Keys, NEW d \in Directions, VoteForPost(a, k, d)
      PROVE EventTypes'
  BY <1>1, BoundsAssumption DEF VoteForPost, Path!Cast, Reply, Indexed, VoteTypes,
     VoteType, EventType, EventTypes
<1>2. CASE Relay
  BY <1>2 DEF Relay, Path!Relay, EventTypes
<1>3. CASE Persist
  <2>1. broker' \subseteq broker /\ unsent' = unsent
    BY <1>3 DEF Persist, Path!Persist, redisVars
  <2> QED
    BY <2>1 DEF EventTypes
<1>4. CASE LoseRedis
  BY <1>4 DEF LoseRedis, EventTypes
<1>5. ASSUME NEW a \in Apis, CountPosts(a) \/ CountTimes(a) \/ CountScores(a) \/
      ReadMarker(a) \/ MarkReady(a)
      \/ Stop(a) \/ EnsureVoteStateReadable(a) \/ StorePost(a) \/ StorePostFails(a) \/
      IndexPost(a) \/ IndexPostFails(a) \/ VoteRefused(a)
      PROVE  EventTypes'
  <2>1. UNCHANGED <<unsent, broker>>
    BY <1>5 DEF CountPosts, CountTimes, CountScores, ReadMarker, MarkReady, Stop,
          EnsureVoteStateReadable, StorePost, StorePostFails, IndexPost, IndexPostFails,
          VoteRefused, Enter, Decide, Fault, Continue, Reply, AddToIndex, MoreAttempts,
          vars, redisVars, mysqlVars, apiVars, rebuildVars
  <2> QED
    BY <2>1 DEF EventTypes
<1>6. CASE PrepareRebuild \/ ClearIndex \/ RestoreBatch \/ VerifyIndex \/ MarkRebuilt \/
      RebuildAborted
  <2>1. UNCHANGED <<unsent, broker>>
    BY <1>6 DEF PrepareRebuild, ClearIndex, RestoreBatch, VerifyIndex, MarkRebuilt,
          RebuildAborted, RestoredVote, Fault, vars, redisVars, mysqlVars, apiVars,
          rebuildVars
  <2> QED
    BY <2>1 DEF EventTypes
<1>7. CASE UNCHANGED vars
  BY <1>7 DEF vars, redisVars, mysqlVars, apiVars, rebuildVars, EventTypes
<1>8. CASE Acknowledge \/ CopiesComeAndGo
  <2>1. UNCHANGED <<unsent, broker>>
    BY <1>8 DEF Acknowledge, Path!Acknowledge, CopiesComeAndGo, Path!CopiesComeAndGo
  <2> QED
    BY <2>1 DEF EventTypes
<1> QED
  BY <1>1, <1>2, <1>3, <1>4, <1>5, <1>6, <1>7, <1>8 DEF Next, StartStep, Request,
        RebuildStep


LEMMA LeftTypesStep == LeftTypes /\ [Next]_vars => LeftTypes'
<1> SUFFICES ASSUME LeftTypes, [Next]_vars PROVE LeftTypes'
  OBVIOUS
<1>1. CASE Relay \/ Acknowledge \/ Persist \/ CopiesComeAndGo
  BY <1>1 DEF Relay, Acknowledge, Persist, CopiesComeAndGo, Path!Relay, Path!Acknowledge,
         Path!Persist, Path!CopiesComeAndGo, LeftTypes
<1>2. CASE LoseRedis
  BY <1>2 DEF LoseRedis, LeftTypes
<1>3. ASSUME NEW a \in Apis, StartStep(a) \/ Stop(a) \/ Request(a) PROVE LeftTypes'
  <2>1. UNCHANGED <<unacked, copies>>
    BY <1>3 DEF StartStep, Request, CountPosts, CountTimes, CountScores, ReadMarker,
           MarkReady, Stop, EnsureVoteStateReadable, StorePost, StorePostFails, IndexPost,
           IndexPostFails, VoteRefused, VoteForPost, Path!Cast, redisVars
  <2> QED
    BY <2>1 DEF LeftTypes
<1>4. CASE PrepareRebuild \/ RebuildStep \/ RebuildAborted \/ UNCHANGED vars
  BY <1>4 DEF PrepareRebuild, RebuildStep, ClearIndex, RestoreBatch, VerifyIndex,
         MarkRebuilt, RebuildAborted, vars, redisVars, LeftTypes
<1> QED
  BY <1>1, <1>2, <1>3, <1>4 DEF Next

LEMMA PhaseTypesStep ==
    PhaseTypes /\ [Next]_vars => PhaseTypes'
<1> SUFFICES ASSUME PhaseTypes, [Next]_vars PROVE PhaseTypes'
  OBVIOUS
<1>1. ASSUME NEW a \in Apis, CountPosts(a) PROVE PhaseTypes'
  BY <1>1 DEF CountPosts, Enter, PhaseTypes
<1>2. ASSUME NEW a \in Apis, CountTimes(a) \/ CountScores(a) PROVE PhaseTypes'
  BY <1>2 DEF CountTimes, CountScores, Enter, Decide, PhaseTypes
<1>3. ASSUME NEW a \in Apis, ReadMarker(a) PROVE PhaseTypes'
  BY <1>3 DEF ReadMarker, Enter, Decide, Verdict, PhaseTypes
<1>4. ASSUME NEW a \in Apis, MarkReady(a) PROVE PhaseTypes'
  BY <1>4 DEF MarkReady, Enter, Decide, PhaseTypes
<1>5. ASSUME NEW a \in Apis, Stop(a) PROVE PhaseTypes'
  BY <1>5 DEF Stop, Enter, Decide, Fault, PhaseTypes
<1>6. CASE PrepareRebuild
  BY <1>6 DEF PrepareRebuild, PhaseTypes
<1>7. ASSUME NEW a \in Apis, EnsureVoteStateReadable(a) \/ StorePost(a) \/ StorePostFails(a)
      \/ IndexPost(a) \/ IndexPostFails(a) \/ VoteRefused(a) \/ \E k \in Keys, d \in
      Directions : VoteForPost(a, k, d)
      PROVE  PhaseTypes'
  <2>1. UNCHANGED <<phase>>
    BY <1>7 DEF EnsureVoteStateReadable, StorePost, StorePostFails, IndexPost,
          IndexPostFails, VoteRefused, VoteForPost, Continue, Fault, Reply, AddToIndex,
          MoreAttempts, Indexed, vars, redisVars, mysqlVars, apiVars, rebuildVars
  <2> QED
    BY <2>1 DEF PhaseTypes
<1>8. CASE Relay \/ Acknowledge \/ Persist \/ CopiesComeAndGo \/ LoseRedis \/
      ClearIndex \/ RestoreBatch \/ VerifyIndex \/
      MarkRebuilt \/ RebuildAborted
  <2>1. UNCHANGED <<phase>>
    BY <1>8 DEF Relay, Acknowledge, Persist, CopiesComeAndGo, LoseRedis, ClearIndex,
       RestoreBatch, VerifyIndex, MarkRebuilt, RebuildAborted, RestoredVote, Fault, vars,
       redisVars, mysqlVars, apiVars, rebuildVars
  <2> QED
    BY <2>1 DEF PhaseTypes
<1>9. CASE UNCHANGED vars
  BY <1>9 DEF vars, redisVars, mysqlVars, apiVars, rebuildVars, PhaseTypes
<1> QED
  BY <1>1, <1>2, <1>3, <1>4, <1>5, <1>6, <1>7, <1>8, <1>9 DEF Next, StartStep, Request,
        RebuildStep


LEMMA SeenTypesStep ==
    SeenTypes /\ TaskTypes /\ IndexTypes /\ [Next]_vars => SeenTypes'
<1> SUFFICES ASSUME SeenTypes /\ TaskTypes /\ IndexTypes, [Next]_vars PROVE SeenTypes'
  OBVIOUS
<1>1. ASSUME NEW a \in Apis, CountPosts(a) PROVE SeenTypes'
  BY <1>1 DEF CountPosts, Enter, TaskTypes, SeenTypes
<1>2. ASSUME NEW a \in Apis, CountTimes(a) \/ CountScores(a) PROVE SeenTypes'
  BY <1>2 DEF CountTimes, CountScores, Enter, Decide, Unseen, IndexTypes, SeenTypes
<1>3. ASSUME NEW a \in Apis, ReadMarker(a) PROVE SeenTypes'
  BY <1>3 DEF ReadMarker, Enter, Decide, Unseen, SeenTypes
<1>4. ASSUME NEW a \in Apis, MarkReady(a) PROVE SeenTypes'
  BY <1>4 DEF MarkReady, Enter, Decide, Unseen, SeenTypes
<1>5. ASSUME NEW a \in Apis, Stop(a) PROVE SeenTypes'
  BY <1>5 DEF Stop, Enter, Decide, Fault, Unseen, SeenTypes
<1>6. CASE PrepareRebuild
  BY <1>6 DEF PrepareRebuild, Unseen, SeenTypes
<1>7. ASSUME NEW a \in Apis, EnsureVoteStateReadable(a) \/ StorePost(a) \/ StorePostFails(a)
      \/ IndexPost(a) \/ IndexPostFails(a) \/ VoteRefused(a) \/ \E k \in Keys, d \in
      Directions : VoteForPost(a, k, d)
      PROVE  SeenTypes'
  <2>1. UNCHANGED <<seen>>
    BY <1>7 DEF EnsureVoteStateReadable, StorePost, StorePostFails, IndexPost,
          IndexPostFails, VoteRefused, VoteForPost, Continue, Fault, Reply, AddToIndex,
          MoreAttempts, Indexed, vars, redisVars, mysqlVars, apiVars, rebuildVars
  <2> QED
    BY <2>1 DEF SeenTypes
<1>8. CASE Relay \/ Acknowledge \/ Persist \/ CopiesComeAndGo \/ LoseRedis \/
      ClearIndex \/ RestoreBatch \/ VerifyIndex \/
      MarkRebuilt \/ RebuildAborted
  <2>1. UNCHANGED <<seen>>
    BY <1>8 DEF Relay, Acknowledge, Persist, CopiesComeAndGo, LoseRedis, ClearIndex,
       RestoreBatch, VerifyIndex, MarkRebuilt, RebuildAborted, RestoredVote, Fault, vars,
       redisVars, mysqlVars, apiVars, rebuildVars
  <2> QED
    BY <2>1 DEF SeenTypes
<1>9. CASE UNCHANGED vars
  BY <1>9 DEF vars, redisVars, mysqlVars, apiVars, rebuildVars, SeenTypes
<1> QED
  BY <1>1, <1>2, <1>3, <1>4, <1>5, <1>6, <1>7, <1>8, <1>9 DEF Next, StartStep, Request,
        RebuildStep


LEMMA TaskTypesStep ==
    TaskTypes /\ [Next]_vars => TaskTypes'
<1> SUFFICES ASSUME TaskTypes, [Next]_vars PROVE TaskTypes'
  OBVIOUS
<1>1. ASSUME NEW a \in Apis, Stop(a) PROVE TaskTypes'
  BY <1>1, NoTaskIsTask DEF Stop, Enter, Decide, Fault, TaskTypes, mysqlVars
<1>2. ASSUME NEW a \in Apis, EnsureVoteStateReadable(a) PROVE TaskTypes'
  BY <1>2, CheckedIsTask DEF EnsureVoteStateReadable, Continue, TaskTypes, mysqlVars
<1>3. ASSUME NEW a \in Apis, StorePost(a) PROVE TaskTypes'
  BY <1>3, IndexIsTask, BoundsAssumption DEF StorePost, Continue, TaskTypes, mysqlVars
<1>4. ASSUME NEW a \in Apis, StorePostFails(a) PROVE TaskTypes'
  BY <1>4, NoTaskIsTask DEF StorePostFails, Fault, Reply, TaskTypes, mysqlVars
<1>5. ASSUME NEW a \in Apis, IndexPost(a) PROVE TaskTypes'
  BY <1>5, NoTaskIsTask DEF IndexPost, AddToIndex, Reply, TaskTypes, mysqlVars
<1>6. ASSUME NEW a \in Apis, IndexPostFails(a) PROVE TaskTypes'
  <2>1. posts' = posts
    BY <1>6 DEF IndexPostFails, mysqlVars
  <2>2. CASE MoreAttempts(task[a].tries)
    <3>1. task[a] \in TaskType /\ task[a].kind = "index"
      BY <1>6 DEF IndexPostFails, TaskTypes
    <3>2. task[a].post \in Posts /\ task[a].tries + 1 \in 1..MaxAttempts
      BY <2>2, <3>1, BoundsAssumption DEF TaskType, MoreAttempts
    <3>3. task' = [task EXCEPT ![a] = [kind |-> "index", post |-> task[a].post,
                                       tries |-> task[a].tries + 1]]
      BY <1>6, <2>2 DEF IndexPostFails, Continue
    <3> QED
      BY <2>1, <3>2, <3>3, IndexIsTask DEF TaskTypes
  <2>3. CASE ~MoreAttempts(task[a].tries)
    BY <1>6, <2>1, <2>3, NoTaskIsTask DEF IndexPostFails, Reply, TaskTypes
  <2> QED
    BY <2>2, <2>3
<1>7. ASSUME NEW a \in Apis, VoteRefused(a) PROVE TaskTypes'
  BY <1>7, NoTaskIsTask DEF VoteRefused, Reply, TaskTypes, mysqlVars
<1>8. ASSUME NEW a \in Apis, NEW k \in Keys, NEW d \in Directions, VoteForPost(a, k, d)
      PROVE TaskTypes'
  BY <1>8, NoTaskIsTask DEF VoteForPost, Reply, Indexed, TaskTypes, mysqlVars
<1>9. CASE PrepareRebuild
  BY <1>9, NoTaskIsTask DEF PrepareRebuild, TaskTypes, mysqlVars
<1>10. ASSUME NEW a \in Apis, CountPosts(a) \/ CountTimes(a) \/ CountScores(a) \/
      ReadMarker(a) \/
      MarkReady(a)
      PROVE  TaskTypes'
  <2>1. UNCHANGED <<task, posts>>
    BY <1>10 DEF CountPosts, CountTimes, CountScores, ReadMarker, MarkReady, Enter,
       Decide, vars, redisVars, mysqlVars, apiVars, rebuildVars
  <2> QED
    BY <2>1 DEF TaskTypes, mysqlVars
<1>11. CASE Relay \/ Acknowledge \/ Persist \/ CopiesComeAndGo \/ LoseRedis \/
      ClearIndex \/ RestoreBatch \/ VerifyIndex \/
      MarkRebuilt \/ RebuildAborted
  <2>1. UNCHANGED <<task, posts>>
    BY <1>11 DEF Relay, Acknowledge, Persist, CopiesComeAndGo, LoseRedis, ClearIndex,
       RestoreBatch, VerifyIndex, MarkRebuilt, RebuildAborted, RestoredVote, Fault, vars,
       redisVars, mysqlVars, apiVars, rebuildVars
  <2> QED
    BY <2>1 DEF TaskTypes, mysqlVars
<1>12. CASE UNCHANGED vars
  BY <1>12 DEF vars, redisVars, mysqlVars, apiVars, rebuildVars, TaskTypes, mysqlVars
<1> QED
  BY <1>1, <1>2, <1>3, <1>4, <1>5, <1>6, <1>7, <1>8, <1>9, <1>10, <1>11, <1>12 DEF Next,
        StartStep, Request, RebuildStep


LEMMA RebuildTypesStep ==
    RebuildTypes /\ TaskTypes /\ [Next]_vars => RebuildTypes'
<1> SUFFICES ASSUME RebuildTypes /\ TaskTypes, [Next]_vars PROVE RebuildTypes'
  OBVIOUS
<1>1. CASE PrepareRebuild
  BY <1>1 DEF PrepareRebuild, RebuildTypes, TaskTypes
<1>2. CASE ClearIndex
  BY <1>2 DEF ClearIndex, RebuildTypes, TaskTypes
<1>3. CASE RestoreBatch
  BY <1>3 DEF RestoreBatch, RestoredVote, RebuildTypes, TaskTypes
<1>4. CASE VerifyIndex
  BY <1>4 DEF VerifyIndex, RebuildTypes, TaskTypes
<1>5. CASE MarkRebuilt
  BY <1>5 DEF MarkRebuilt, RebuildTypes, TaskTypes
<1>6. CASE RebuildAborted
  BY <1>6 DEF RebuildAborted, Fault, RebuildTypes, TaskTypes
<1>7. ASSUME NEW a \in Apis, CountPosts(a) \/ CountTimes(a) \/ CountScores(a) \/
      ReadMarker(a) \/ MarkReady(a)
      \/ Stop(a) \/ EnsureVoteStateReadable(a) \/ StorePost(a) \/ StorePostFails(a) \/
      IndexPost(a) \/ IndexPostFails(a) \/ VoteRefused(a) \/ \E k \in Keys, d \in Directions
      : VoteForPost(a, k, d)
      PROVE  RebuildTypes'
  <2>1. UNCHANGED <<rebuild, restored>>
    BY <1>7 DEF CountPosts, CountTimes, CountScores, ReadMarker, MarkReady, Stop,
          EnsureVoteStateReadable, StorePost, StorePostFails, IndexPost, IndexPostFails,
          VoteRefused, VoteForPost, Enter, Decide, Fault, Continue, Reply, AddToIndex,
          MoreAttempts, Indexed, vars, redisVars, mysqlVars, apiVars, rebuildVars
  <2> QED
    BY <2>1 DEF RebuildTypes, TaskTypes
<1>8. CASE Relay \/ Acknowledge \/ Persist \/ CopiesComeAndGo \/ LoseRedis
  <2>1. UNCHANGED <<rebuild, restored>>
    BY <1>8 DEF Relay, Acknowledge, Persist, CopiesComeAndGo, LoseRedis, vars,
          redisVars, mysqlVars, apiVars, rebuildVars
  <2> QED
    BY <2>1 DEF RebuildTypes, TaskTypes
<1>9. CASE UNCHANGED vars
  BY <1>9 DEF vars, redisVars, mysqlVars, apiVars, rebuildVars, RebuildTypes, TaskTypes
<1> QED
  BY <1>1, <1>2, <1>3, <1>4, <1>5, <1>6, <1>7, <1>8, <1>9 DEF Next, StartStep, Request,
        RebuildStep


LEMMA FaultTypesStep ==
    FaultTypes /\ [Next]_vars => FaultTypes'
<1> SUFFICES ASSUME FaultTypes, [Next]_vars PROVE FaultTypes'
  OBVIOUS
<1>1. ASSUME NEW a \in Apis, Stop(a) PROVE FaultTypes'
  BY <1>1, BoundsAssumption DEF Stop, Enter, Decide, Fault, FaultTypes
<1>2. ASSUME NEW a \in Apis, StorePostFails(a) PROVE FaultTypes'
  BY <1>2, BoundsAssumption DEF StorePostFails, Fault, Reply, FaultTypes
<1>3. ASSUME NEW a \in Apis, IndexPostFails(a) PROVE FaultTypes'
  BY <1>3, BoundsAssumption DEF IndexPostFails, Fault, AddToIndex, Continue, Reply,
        MoreAttempts, FaultTypes
<1>4. CASE LoseRedis
  BY <1>4, BoundsAssumption DEF LoseRedis, FaultTypes
<1>5. CASE RebuildAborted
  BY <1>5, BoundsAssumption DEF RebuildAborted, Fault, FaultTypes
<1>6. ASSUME NEW a \in Apis, CountPosts(a) \/ CountTimes(a) \/ CountScores(a) \/
      ReadMarker(a) \/ MarkReady(a)
      \/ EnsureVoteStateReadable(a) \/ StorePost(a) \/ IndexPost(a) \/ VoteRefused(a) \/ \E
      k \in Keys, d \in Directions : VoteForPost(a, k, d)
      PROVE  FaultTypes'
  <2>1. UNCHANGED <<faults, losses>>
    BY <1>6 DEF CountPosts, CountTimes, CountScores, ReadMarker, MarkReady,
       EnsureVoteStateReadable, StorePost, IndexPost, VoteRefused, VoteForPost, Enter,
       Decide, Continue, AddToIndex, Reply, Indexed, vars, redisVars, mysqlVars, apiVars,
       rebuildVars
  <2> QED
    BY <2>1 DEF FaultTypes
<1>7. CASE Relay \/ Acknowledge \/ Persist \/ CopiesComeAndGo \/ PrepareRebuild \/
      ClearIndex \/ RestoreBatch \/ VerifyIndex
      \/ MarkRebuilt
  <2>1. UNCHANGED <<faults, losses>>
    BY <1>7 DEF Relay, Acknowledge, Persist, CopiesComeAndGo, PrepareRebuild, ClearIndex,
       RestoreBatch, VerifyIndex, MarkRebuilt, RestoredVote, vars, redisVars, mysqlVars,
       apiVars, rebuildVars
  <2> QED
    BY <2>1 DEF FaultTypes
<1>8. CASE UNCHANGED vars
  BY <1>8 DEF vars, redisVars, mysqlVars, apiVars, rebuildVars, FaultTypes
<1> QED
  BY <1>1, <1>2, <1>3, <1>4, <1>5, <1>6, <1>7, <1>8 DEF Next, StartStep, Request,
        RebuildStep


LEMMA TypeStep == TypeOK /\ [Next]_vars => TypeOK'
<1> SUFFICES ASSUME TypeOK, [Next]_vars PROVE TypeOK'
  OBVIOUS
<1>1. /\ IndexTypes /\ ScoreTypes /\ VoteTypes /\ EventTypes /\ LeftTypes /\ PhaseTypes
      /\ SeenTypes /\ TaskTypes /\ RebuildTypes /\ FaultTypes
  BY TypeParts
<1>2. IndexTypes' /\ ScoreTypes' /\ VoteTypes' /\ EventTypes' /\ LeftTypes'
  BY <1>1, IndexTypesStep, ScoreTypesStep, VoteTypesStep, EventTypesStep, LeftTypesStep
<1>3. PhaseTypes' /\ SeenTypes' /\ TaskTypes' /\ RebuildTypes' /\ FaultTypes'
  BY <1>1, PhaseTypesStep, SeenTypesStep, TaskTypesStep, RebuildTypesStep, FaultTypesStep
<1> QED
  BY <1>2, <1>3 DEF TypeOK, IndexTypes, ScoreTypes, VoteTypes, EventTypes, LeftTypes,
     PhaseTypes, SeenTypes, TaskTypes, RebuildTypes, FaultTypes

-----------------------------------------------------------------------------
(* Control: who runs, who serves and what the marker says                   *)

LEMMA AloneStep ==
    RebuildIsAlone /\ RunningServes /\ [Next]_vars => RebuildIsAlone'
<1> SUFFICES ASSUME RebuildIsAlone /\ RunningServes, [Next]_vars PROVE RebuildIsAlone'
  OBVIOUS
<1>1. ASSUME NEW a \in Apis, CountPosts(a) PROVE RebuildIsAlone'
  BY <1>1 DEF CountPosts, Enter, RebuildIsAlone, AllStopped, Pending, redisVars, apiVars,
        rebuildVars, OutboxEmpty
<1>2. ASSUME NEW a \in Apis, CountTimes(a) \/ CountScores(a) PROVE RebuildIsAlone'
  BY <1>2 DEF CountTimes, CountScores, Enter, Decide, RebuildIsAlone, AllStopped, Pending,
     redisVars, apiVars, rebuildVars, OutboxEmpty
<1>3. ASSUME NEW a \in Apis, ReadMarker(a) PROVE RebuildIsAlone'
  BY <1>3 DEF ReadMarker, Enter, Decide, RebuildIsAlone, AllStopped, Pending, redisVars,
        apiVars, rebuildVars, OutboxEmpty
<1>4. ASSUME NEW a \in Apis, MarkReady(a) PROVE RebuildIsAlone'
  BY <1>4 DEF MarkReady, Enter, Decide, RebuildIsAlone, AllStopped, Pending, redisVars,
        apiVars, rebuildVars, OutboxEmpty
<1>5. ASSUME NEW a \in Apis, Stop(a) PROVE RebuildIsAlone'
  BY <1>5 DEF Stop, Enter, Decide, Fault, RebuildIsAlone, AllStopped, Pending, redisVars,
        apiVars, rebuildVars, OutboxEmpty
<1>6. ASSUME NEW a \in Apis, NEW k \in Keys, NEW d \in Directions, VoteForPost(a, k, d)
      PROVE RebuildIsAlone'
  BY <1>6 DEF VoteForPost, Reply, Indexed, RunningServes, RebuildIsAlone, AllStopped,
        Pending, redisVars, apiVars, rebuildVars, OutboxEmpty
<1>7. CASE Relay \/ Acknowledge \/ CopiesComeAndGo
  BY <1>7 DEF Relay, Acknowledge, CopiesComeAndGo, Serving, RebuildIsAlone, AllStopped,
     Pending, redisVars, apiVars, rebuildVars, OutboxEmpty
<1>8. CASE Persist
  BY <1>8 DEF Persist, Serving, RebuildIsAlone, AllStopped, Pending, redisVars, apiVars,
        rebuildVars, OutboxEmpty
<1>9. CASE LoseRedis
  BY <1>9 DEF LoseRedis, RebuildIsAlone, AllStopped, Pending, redisVars, apiVars,
        rebuildVars, OutboxEmpty
<1>10. CASE PrepareRebuild
  BY <1>10 DEF PrepareRebuild, RebuildIsAlone, AllStopped, Pending, redisVars, apiVars,
        rebuildVars, OutboxEmpty, BrokerDrained
<1>11. CASE ClearIndex
  BY <1>11 DEF ClearIndex, RebuildIsAlone, AllStopped, Pending, redisVars, apiVars,
        rebuildVars, OutboxEmpty
<1>12. CASE VerifyIndex
  BY <1>12 DEF VerifyIndex, RebuildIsAlone, AllStopped, Pending, redisVars, apiVars,
        rebuildVars, OutboxEmpty
<1>13. CASE MarkRebuilt
  BY <1>13 DEF MarkRebuilt, RebuildIsAlone, AllStopped, Pending, redisVars, apiVars,
        rebuildVars, OutboxEmpty
<1>14. CASE RebuildAborted
  BY <1>14 DEF RebuildAborted, Fault, RebuildIsAlone, AllStopped, Pending, redisVars,
        apiVars, rebuildVars, OutboxEmpty
<1>15. ASSUME NEW a \in Apis, EnsureVoteStateReadable(a) \/ StorePost(a) \/
      StorePostFails(a) \/ IndexPost(a) \/ IndexPostFails(a) \/ VoteRefused(a)
      PROVE  RebuildIsAlone'
  <2>1. UNCHANGED <<rebuild, phase, unsent, broker>>
    BY <1>15 DEF EnsureVoteStateReadable, StorePost, StorePostFails, IndexPost,
          IndexPostFails, VoteRefused, Continue, Fault, Reply, AddToIndex, MoreAttempts,
          vars, redisVars, mysqlVars, apiVars, rebuildVars
  <2> QED
    BY <2>1 DEF RebuildIsAlone, AllStopped, Pending, redisVars, apiVars, rebuildVars,
          OutboxEmpty
<1>16. CASE RestoreBatch
  <2>1. UNCHANGED <<rebuild, phase, unsent, broker>>
    BY <1>16 DEF RestoreBatch, RestoredVote, vars, redisVars, mysqlVars, apiVars,
          rebuildVars
  <2> QED
    BY <2>1 DEF RebuildIsAlone, AllStopped, Pending, redisVars, apiVars, rebuildVars,
          OutboxEmpty
<1>17. CASE UNCHANGED vars
  BY <1>17 DEF vars, redisVars, mysqlVars, apiVars, rebuildVars, RebuildIsAlone, AllStopped,
        Pending, redisVars, apiVars, rebuildVars, OutboxEmpty
<1> QED
  BY <1>1, <1>2, <1>3, <1>4, <1>5, <1>6, <1>7, <1>8, <1>9, <1>10, <1>11, <1>12, <1>13,
        <1>14, <1>15, <1>16, <1>17 DEF Next, StartStep, Request, RebuildStep


LEMMA ServesStep ==
    RunningServes /\ TaskTypes /\ PhaseTypes /\ [Next]_vars => RunningServes'
<1> SUFFICES ASSUME RunningServes /\ TaskTypes /\ PhaseTypes, [Next]_vars PROVE
      RunningServes'
  OBVIOUS
<1>1. ASSUME NEW a \in Apis, CountPosts(a) PROVE RunningServes'
  BY <1>1 DEF CountPosts, Enter, RunningServes, TaskTypes, PhaseTypes, NoTask
<1>2. ASSUME NEW a \in Apis, CountTimes(a) \/ CountScores(a) PROVE RunningServes'
  BY <1>2 DEF CountTimes, CountScores, Enter, Decide, RunningServes, TaskTypes,
        PhaseTypes, NoTask
<1>3. ASSUME NEW a \in Apis, ReadMarker(a) PROVE RunningServes'
  BY <1>3 DEF ReadMarker, Enter, Decide, RunningServes, TaskTypes, PhaseTypes, NoTask
<1>4. ASSUME NEW a \in Apis, MarkReady(a) PROVE RunningServes'
  BY <1>4 DEF MarkReady, Enter, Decide, RunningServes, TaskTypes, PhaseTypes, NoTask
<1>5. ASSUME NEW a \in Apis, Stop(a) PROVE RunningServes'
  BY <1>5 DEF Stop, Enter, Decide, Fault, RunningServes, TaskTypes, PhaseTypes, NoTask
<1>6. ASSUME NEW a \in Apis, EnsureVoteStateReadable(a) PROVE RunningServes'
  BY <1>6 DEF EnsureVoteStateReadable, Continue, RunningServes, TaskTypes, PhaseTypes,
        NoTask
<1>7. ASSUME NEW a \in Apis, StorePost(a) PROVE RunningServes'
  BY <1>7 DEF StorePost, Continue, RunningServes, TaskTypes, PhaseTypes, NoTask
<1>8. ASSUME NEW a \in Apis, StorePostFails(a) PROVE RunningServes'
  BY <1>8 DEF StorePostFails, Fault, Reply, RunningServes, TaskTypes, PhaseTypes, NoTask
<1>9. ASSUME NEW a \in Apis, IndexPost(a) PROVE RunningServes'
  BY <1>9 DEF IndexPost, AddToIndex, Reply, RunningServes, TaskTypes, PhaseTypes, NoTask
<1>10. ASSUME NEW a \in Apis, IndexPostFails(a) PROVE RunningServes'
  BY <1>10 DEF IndexPostFails, Fault, AddToIndex, Continue, Reply, MoreAttempts,
        RunningServes, TaskTypes, PhaseTypes, NoTask
<1>11. ASSUME NEW a \in Apis, NEW k \in Keys, NEW d \in Directions, VoteForPost(a, k, d)
      PROVE RunningServes'
  BY <1>11 DEF VoteForPost, Reply, Indexed, RunningServes, TaskTypes, PhaseTypes, NoTask
<1>12. ASSUME NEW a \in Apis, VoteRefused(a) PROVE RunningServes'
  BY <1>12 DEF VoteRefused, Reply, RunningServes, TaskTypes, PhaseTypes, NoTask
<1>13. CASE PrepareRebuild
  BY <1>13 DEF PrepareRebuild, RunningServes, TaskTypes, PhaseTypes, NoTask
<1>14. CASE Relay \/ Acknowledge \/ Persist \/ CopiesComeAndGo \/ LoseRedis \/
      ClearIndex \/ RestoreBatch \/ VerifyIndex \/
      MarkRebuilt \/ RebuildAborted
  <2>1. UNCHANGED <<task, phase>>
    BY <1>14 DEF Relay, Acknowledge, Persist, CopiesComeAndGo, LoseRedis, ClearIndex,
       RestoreBatch, VerifyIndex, MarkRebuilt, RebuildAborted, RestoredVote, Fault, vars,
       redisVars, mysqlVars, apiVars, rebuildVars
  <2> QED
    BY <2>1 DEF RunningServes, TaskTypes, PhaseTypes, NoTask
<1>15. CASE UNCHANGED vars
  BY <1>15 DEF vars, redisVars, mysqlVars, apiVars, rebuildVars, RunningServes, TaskTypes,
        PhaseTypes, NoTask
<1> QED
  BY <1>1, <1>2, <1>3, <1>4, <1>5, <1>6, <1>7, <1>8, <1>9, <1>10, <1>11, <1>12, <1>13,
        <1>14, <1>15 DEF Next, StartStep, Request, RebuildStep


LEMMA TrustStep ==
    NobodyTrustsARebuild /\ PhaseTypes /\ [Next]_vars => NobodyTrustsARebuild'
<1> SUFFICES ASSUME NobodyTrustsARebuild /\ PhaseTypes, [Next]_vars PROVE
      NobodyTrustsARebuild'
  OBVIOUS
<1>1. ASSUME NEW a \in Apis, CountPosts(a) PROVE NobodyTrustsARebuild'
  BY <1>1 DEF CountPosts, Enter, NobodyTrustsARebuild, PhaseTypes, redisVars, apiVars
<1>2. ASSUME NEW a \in Apis, CountTimes(a) \/ CountScores(a) PROVE NobodyTrustsARebuild'
  BY <1>2 DEF CountTimes, CountScores, Enter, Decide, NobodyTrustsARebuild, PhaseTypes,
        redisVars, apiVars
<1>3. ASSUME NEW a \in Apis, ReadMarker(a) PROVE NobodyTrustsARebuild'
  BY <1>3 DEF ReadMarker, Enter, Decide, Verdict, NobodyTrustsARebuild, PhaseTypes,
        redisVars, apiVars
<1>4. ASSUME NEW a \in Apis, MarkReady(a) PROVE NobodyTrustsARebuild'
  BY <1>4 DEF MarkReady, Enter, Decide, NobodyTrustsARebuild, PhaseTypes, redisVars, apiVars
<1>5. ASSUME NEW a \in Apis, Stop(a) PROVE NobodyTrustsARebuild'
  BY <1>5 DEF Stop, Enter, Decide, Fault, NobodyTrustsARebuild, PhaseTypes, redisVars,
        apiVars
<1>6. CASE LoseRedis
  BY <1>6 DEF LoseRedis, NobodyTrustsARebuild, PhaseTypes, redisVars, apiVars
<1>7. CASE PrepareRebuild
  BY <1>7 DEF PrepareRebuild, NobodyTrustsARebuild, PhaseTypes, redisVars, apiVars
<1>8. CASE MarkRebuilt
  BY <1>8 DEF MarkRebuilt, NobodyTrustsARebuild, PhaseTypes, redisVars, apiVars
<1>9. ASSUME NEW a \in Apis, EnsureVoteStateReadable(a) \/ StorePost(a) \/ StorePostFails(a)
      \/ IndexPost(a) \/ IndexPostFails(a) \/ VoteRefused(a) \/ \E k \in Keys, d \in
      Directions : VoteForPost(a, k, d)
      PROVE  NobodyTrustsARebuild'
  <2>1. UNCHANGED <<marker, phase>>
    BY <1>9 DEF EnsureVoteStateReadable, StorePost, StorePostFails, IndexPost,
          IndexPostFails, VoteRefused, VoteForPost, Continue, Fault, Reply, AddToIndex,
          MoreAttempts, Indexed, vars, redisVars, mysqlVars, apiVars, rebuildVars
  <2> QED
    BY <2>1 DEF NobodyTrustsARebuild, PhaseTypes, redisVars, apiVars
<1>10. CASE Relay \/ Acknowledge \/ Persist \/ CopiesComeAndGo \/ ClearIndex \/
      RestoreBatch \/ VerifyIndex \/ RebuildAborted
  <2>1. UNCHANGED <<marker, phase>>
    BY <1>10 DEF Relay, Acknowledge, Persist, CopiesComeAndGo, ClearIndex, RestoreBatch,
       VerifyIndex, RebuildAborted, RestoredVote, Fault, vars, redisVars, mysqlVars,
       apiVars, rebuildVars
  <2> QED
    BY <2>1 DEF NobodyTrustsARebuild, PhaseTypes, redisVars, apiVars
<1>11. CASE UNCHANGED vars
  BY <1>11 DEF vars, redisVars, mysqlVars, apiVars, rebuildVars, NobodyTrustsARebuild,
        PhaseTypes, redisVars, apiVars
<1> QED
  BY <1>1, <1>2, <1>3, <1>4, <1>5, <1>6, <1>7, <1>8, <1>9, <1>10, <1>11 DEF Next, StartStep,
        Request, RebuildStep


\* No step but the insert of a new post makes one wait for its index.
LEMMA BeingIndexedStep ==
    ASSUME TaskTypes, [Next]_vars, \A a \in Apis : ~StorePost(a)
    PROVE  /\ \A b \in Apis : task'[b].kind = "index" =>
                  task[b].kind = "index" /\ task'[b].post = task[b].post
           /\ BeingIndexed' \subseteq BeingIndexed
<1> SUFFICES ASSUME NEW b \in Apis, task'[b].kind = "index"
             PROVE  task[b].kind = "index" /\ task'[b].post = task[b].post
  BY DEF BeingIndexed
<1>1. ASSUME NEW a \in Apis,
             \/ Stop(a) \/ EnsureVoteStateReadable(a) \/ StorePostFails(a) \/ IndexPost(a)
             \/ VoteRefused(a) \/ \E k \in Keys, d \in Directions : VoteForPost(a, k, d)
      PROVE  task[b].kind = "index" /\ task'[b].post = task[b].post
  <2>1. \E t : t.kind # "index" /\ task' = [task EXCEPT ![a] = t]
    <3>1. NoTask.kind # "index" /\ [kind |-> "checked", post |-> NoPost, tries |-> 0].kind # "index"
      BY DEF NoTask
    <3> QED
      BY <1>1, <3>1 DEF Stop, EnsureVoteStateReadable, StorePostFails, IndexPost,
         VoteRefused, VoteForPost, Continue, Reply
  <2> QED
    BY <2>1 DEF TaskTypes
<1>2. ASSUME NEW a \in Apis, IndexPostFails(a)
      PROVE  task[b].kind = "index" /\ task'[b].post = task[b].post
  <2>1. task[a].kind = "index" /\ \E t : /\ task' = [task EXCEPT ![a] = t]
                                         /\ t.kind = "index" => t.post = task[a].post
    BY <1>2 DEF IndexPostFails, Continue, Reply, NoTask
  <2> QED
    BY <2>1 DEF TaskTypes
<1>3. PrepareRebuild => FALSE
  BY DEF PrepareRebuild, NoTask
<1>4. ASSUME NEW a \in Apis, StartStep(a) PROVE task' = task
  BY <1>4 DEF StartStep, CountPosts, CountTimes, CountScores, ReadMarker, MarkReady
<1>5. Relay \/ Acknowledge \/ Persist \/ CopiesComeAndGo \/ LoseRedis \/
      RebuildStep \/ RebuildAborted \/ UNCHANGED vars => task' = task
  BY DEF Relay, Acknowledge, Persist, CopiesComeAndGo, LoseRedis, RebuildStep, ClearIndex,
     RestoreBatch, VerifyIndex, MarkRebuilt, RebuildAborted, vars, apiVars
<1> QED
  BY <1>1, <1>2, <1>3, <1>4, <1>5 DEF Next, Request

LEMMA StoredStep ==
    StoredFirst /\ TaskTypes /\ [Next]_vars => StoredFirst'
<1> SUFFICES ASSUME StoredFirst /\ TaskTypes, [Next]_vars PROVE StoredFirst'
  OBVIOUS
<1>1. ASSUME NEW a \in Apis, StorePost(a) PROVE StoredFirst'
  <2>1. PICK p \in Posts \ posts : /\ posts' = posts \cup {p}
                                  /\ task' = [task EXCEPT ![a] = [kind |-> "index", post |->
                                        p, tries |-> 1]]
    BY <1>1 DEF StorePost, Continue
  <2>2. index' = index /\ restored' = restored
    BY <1>1 DEF StorePost, redisVars, rebuildVars
  <2>3. \A b \in Apis : /\ b = a => task'[b].kind = "index" /\ task'[b].post = p
                        /\ b # a => task'[b] = task[b]
    BY <2>1 DEF TaskTypes
  <2>4. \A b \in Apis : task[b].kind = "index" => task[b].post \in posts
    BY DEF StoredFirst, BeingIndexed
  <2>5. BeingIndexed' \subseteq posts'
    BY <2>1, <2>3, <2>4 DEF BeingIndexed
  <2> QED
    BY <2>1, <2>2, <2>3, <2>4, <2>5 DEF StoredFirst
<1>2. CASE \A a \in Apis : ~StorePost(a)
  <2>1. /\ \A b \in Apis : task'[b].kind = "index" =>
              task[b].kind = "index" /\ task'[b].post = task[b].post
        /\ BeingIndexed' \subseteq BeingIndexed
    BY <1>2, BeingIndexedStep
  <2>2. ASSUME NEW a \in Apis, IndexPost(a) \/ IndexPostFails(a) PROVE StoredFirst'
    <3>1. /\ index' \subseteq index \cup {task[a].post} /\ task[a].kind = "index"
          /\ posts' = posts /\ restored' = restored
      BY <2>2 DEF IndexPost, IndexPostFails, AddToIndex, mysqlVars, rebuildVars
    <3>2. task[a].post \in posts
      BY <3>1 DEF StoredFirst, BeingIndexed
    <3> QED
      BY <2>1, <3>1, <3>2 DEF StoredFirst
  <2>3. CASE RestoreBatch
    <3>1. PICK p \in posts : restored' = restored \cup {p} /\ index' = index \cup {p}
      BY <2>3 DEF RestoreBatch
    <3>2. posts' = posts
      BY <2>3 DEF RestoreBatch, mysqlVars
    <3> QED
      BY <2>1, <3>1, <3>2 DEF StoredFirst
  <2>4. ASSUME NEW a \in Apis,
               \/ StartStep(a) \/ Stop(a) \/ EnsureVoteStateReadable(a) \/ StorePostFails(a)
               \/ VoteRefused(a) \/ \E k \in Keys, d \in Directions : VoteForPost(a, k, d)
        PROVE  StoredFirst'
    <3>1. index' = index /\ posts \subseteq posts' /\ restored' = restored
      BY <2>4 DEF StartStep, CountPosts, CountTimes, CountScores, ReadMarker, MarkReady,
         Stop, EnsureVoteStateReadable, StorePostFails, VoteRefused, VoteForPost,
         redisVars, mysqlVars, rebuildVars
    <3> QED
      BY <2>1, <3>1 DEF StoredFirst
  <2>5. CASE Relay \/ Acknowledge \/ Persist \/ CopiesComeAndGo \/ LoseRedis \/
        PrepareRebuild \/ ClearIndex \/ VerifyIndex
             \/ MarkRebuilt \/ RebuildAborted \/ UNCHANGED vars
    <3>1. index' \subseteq index /\ posts' = posts /\ restored' \subseteq restored
      BY <2>5 DEF Relay, Acknowledge, Persist, CopiesComeAndGo, LoseRedis, PrepareRebuild,
         ClearIndex, VerifyIndex, MarkRebuilt, RebuildAborted, vars, redisVars, mysqlVars,
         rebuildVars
    <3> QED
      BY <2>1, <3>1 DEF StoredFirst
  <2> QED
    BY <1>2, <2>2, <2>3, <2>4, <2>5 DEF Next, Request, RebuildStep
<1> QED
  BY <1>1, <1>2

-----------------------------------------------------------------------------
(* The rebuild and the start check: equal numbers mean equal sets           *)

\* A subset of the posts that has as many as the whole set is the whole set.
LEMMA EqualCounts ==
    ASSUME NEW S, NEW T, S \subseteq T, T \subseteq Posts, Cardinality(S) = Cardinality(T)
    PROVE  S = T
<1>1. IsFiniteSet(T)
  BY PostsAssumption, FS_Subset
<1> QED
  BY <1>1, FS_Subset

\* While the command rebuilds nothing else happens, but that Redis may lose its data.
LEMMA RebuildActsAlone ==
    ASSUME RebuildIsAlone, RunningServes, rebuild # "none", [Next]_vars
    PROVE  LoseRedis \/ ClearIndex \/ RestoreBatch \/ VerifyIndex \/ MarkRebuilt
           \/ RebuildAborted \/ UNCHANGED vars
<1>1. \A a \in Apis : phase[a] = "stopped" /\ task[a].kind = "none"
  BY DEF RebuildIsAlone, AllStopped, RunningServes
<1>2. ~Relay /\ ~Acknowledge /\ ~Persist /\ ~CopiesComeAndGo /\ ~PrepareRebuild
  BY <1>1 DEF Relay, Acknowledge, Persist, CopiesComeAndGo, PrepareRebuild, Serving
<1>3. ASSUME NEW a \in Apis PROVE ~StartStep(a) /\ ~Stop(a)
  BY <1>1 DEF StartStep, CountPosts, CountTimes, CountScores, ReadMarker, MarkReady, Stop
<1>4. ASSUME NEW a \in Apis PROVE ~Request(a)
  BY <1>1 DEF Request, EnsureVoteStateReadable, StorePost, StorePostFails, IndexPost,
     IndexPostFails, VoteRefused, VoteForPost
<1> QED
  BY <1>2, <1>3, <1>4 DEF Next, RebuildStep

\* Without a rebuild none starts but with its first step.
LEMMA RebuildBegins ==
    ASSUME rebuild = "none", [Next]_vars
    PROVE  rebuild' \in {"none", "clear"}
<1>1. ASSUME NEW a \in Apis, StartStep(a) \/ Stop(a) PROVE rebuild' = rebuild
  BY <1>1 DEF StartStep, CountPosts, CountTimes, CountScores, ReadMarker, MarkReady,
        Stop, rebuildVars
<1>2. ASSUME NEW a \in Apis, Request(a) PROVE rebuild' = rebuild
  BY <1>2 DEF Request, EnsureVoteStateReadable, StorePost, StorePostFails, IndexPost,
     IndexPostFails, VoteRefused, VoteForPost, rebuildVars
<1>3. CASE Relay \/ Acknowledge \/ Persist \/ CopiesComeAndGo \/ LoseRedis \/ PrepareRebuild
  BY <1>3 DEF Relay, Acknowledge, Persist, CopiesComeAndGo, LoseRedis, PrepareRebuild,
        rebuildVars
<1>4. CASE RebuildStep \/ RebuildAborted
  BY <1>4 DEF RebuildStep, ClearIndex, RestoreBatch, VerifyIndex, MarkRebuilt,
        RebuildAborted
<1>5. CASE UNCHANGED vars
  BY <1>5 DEF vars, rebuildVars
<1> QED
  BY <1>1, <1>2, <1>3, <1>4, <1>5 DEF Next

LEMMA RestoreStep ==
    /\ RestoredIsExact /\ RebuildIsExact /\ TypeOK /\ RebuildIsAlone /\ RunningServes
    /\ StoredFirst /\ [Next]_vars
    => RestoredIsExact' /\ RebuildIsExact'
<1> SUFFICES ASSUME RestoredIsExact, RebuildIsExact, TypeOK, RebuildIsAlone, RunningServes,
                    StoredFirst, [Next]_vars
             PROVE  RestoredIsExact' /\ RebuildIsExact'
  OBVIOUS
<1>0. TaskTypes /\ IndexTypes /\ ScoreTypes
  BY TypeParts
<1>1. CASE rebuild = "none"
  <2>1. rebuild' \in {"none", "clear"}
    BY <1>1, RebuildBegins
  <2> QED
    BY <2>1 DEF RestoredIsExact, RebuildIsExact
<1>2. CASE rebuild # "none" /\ LoseRedis
  <2>1. index' = {} /\ marker' = "missing"
    BY <1>2 DEF LoseRedis
  <2> QED
    BY <2>1 DEF RestoredIsExact, RebuildIsExact
<1>3. CASE ClearIndex
  <2>1. index' = {} /\ rebuild' = "restore"
    BY <1>3 DEF ClearIndex
  <2> QED
    BY <2>1 DEF RestoredIsExact, RebuildIsExact
<1>4. CASE RestoreBatch
  <2>1. PICK q \in posts :
          /\ restored' = restored \cup {q} /\ index' = index \cup {q}
          /\ score' = [score EXCEPT ![q] = NetVote(q)]
          /\ vote' = [k \in Keys |-> IF k[2] = q THEN row[k] ELSE vote[k]]
    BY <1>4 DEF RestoreBatch, RestoredVote
  <2>2. rebuild = "restore" /\ rebuild' = "restore" /\ row' = row
    BY <1>4 DEF RestoreBatch, mysqlVars
  <2>3. index' \subseteq restored'
    BY <2>1, <2>2 DEF RestoredIsExact
  <2>4. ASSUME NEW p \in index' PROVE LikeMySQL(p)'
    <3>1. q \in Posts /\ p \in Posts
      BY <1>0, <2>1 DEF TaskTypes, IndexTypes
    <3>2. \A u \in Users : <<u, p>> \in Keys /\ <<u, p>>[2] = p
      BY <3>1 DEF Keys
    <3>3. NetVote(p)' = NetVote(p)
      BY <2>2 DEF NetVote
    <3>4. CASE p = q
      <4>1. score'[p] = NetVote(p) /\ \A u \in Users : vote'[<<u, p>>] = row[<<u, p>>]
        BY <1>0, <2>1, <3>1, <3>2, <3>4 DEF ScoreTypes
      <4> QED
        BY <2>2, <3>3, <4>1 DEF LikeMySQL
    <3>5. CASE p # q
      <4>1. LikeMySQL(p)
        BY <2>1, <2>2, <3>5 DEF RestoredIsExact
      <4>2. score'[p] = score[p] /\ \A u \in Users : vote'[<<u, p>>] = vote[<<u, p>>]
        BY <1>0, <2>1, <3>1, <3>2, <3>5 DEF ScoreTypes
      <4> QED
        BY <2>2, <3>3, <4>1, <4>2 DEF LikeMySQL
    <3> QED
      BY <3>4, <3>5
  <2> QED
    BY <2>2, <2>3, <2>4 DEF RestoredIsExact, RebuildIsExact
<1>5. CASE VerifyIndex
  <2>1. /\ rebuild = "restore" /\ posts \subseteq restored
        /\ rebuild' = IF Cardinality(index) = Cardinality(restored) THEN "mark" ELSE "none"
        /\ UNCHANGED <<index, score, vote, posts, row>>
    BY <1>5 DEF VerifyIndex, AllIndexed, redisVars, mysqlVars
  <2>2. CASE Cardinality(index) = Cardinality(restored)
    <3>1. restored = posts /\ posts \subseteq Posts /\ index \subseteq restored
      BY <1>0, <2>1 DEF StoredFirst, RestoredIsExact, TaskTypes
    <3>2. index = posts
      BY <2>2, <3>1, EqualCounts
    <3>3. \A p \in index : LikeMySQL(p) /\ LikeMySQL(p)'
      BY <2>1 DEF RestoredIsExact, LikeMySQL, NetVote
    <3> QED
      BY <2>1, <2>2, <3>2, <3>3 DEF RestoredIsExact, RebuildIsExact
  <2>3. CASE Cardinality(index) # Cardinality(restored)
    BY <2>1, <2>3 DEF RestoredIsExact, RebuildIsExact
  <2> QED
    BY <2>2, <2>3
<1>6. CASE MarkRebuilt \/ RebuildAborted
  <2>1. rebuild' = "none"
    BY <1>6 DEF MarkRebuilt, RebuildAborted
  <2> QED
    BY <2>1 DEF RestoredIsExact, RebuildIsExact
<1>7. CASE UNCHANGED vars
  BY <1>7 DEF RestoredIsExact, RebuildIsExact, LikeMySQL, NetVote, vars, redisVars,
     mysqlVars, rebuildVars
<1> QED
  BY <1>1, <1>2, <1>3, <1>4, <1>5, <1>6, <1>7, RebuildActsAlone

\* What an instance has seen stays as good when it and the losses are left alone and
\* the index only grows.
LEMMA CheckSame ==
    ASSUME CheckIsSound, phase' = phase, seen' = seen, losses' = losses,
          index \subseteq index'
    PROVE  CheckIsSound'
  BY DEF CheckIsSound, SameCount

LEMMA CheckStep ==
    CheckIsSound /\ TypeOK /\ RebuildIsAlone /\ [Next]_vars => CheckIsSound'
<1> SUFFICES ASSUME CheckIsSound, TypeOK, RebuildIsAlone, [Next]_vars PROVE CheckIsSound'
  OBVIOUS
<1>0. PhaseTypes /\ SeenTypes /\ FaultTypes
  BY TypeParts
<1>1. ASSUME NEW b \in Apis, CountPosts(b) PROVE CheckIsSound'
  BY <1>0, <1>1 DEF CountPosts, Enter, CheckIsSound, SameCount, PhaseTypes, SeenTypes,
         redisVars
<1>2. ASSUME NEW b \in Apis, CountTimes(b) \/ CountScores(b) PROVE CheckIsSound'
  BY <1>0, <1>2 DEF CountTimes, CountScores, Enter, Decide, CheckIsSound, SameCount,
     PhaseTypes, SeenTypes, redisVars
<1>3. ASSUME NEW b \in Apis, ReadMarker(b) PROVE CheckIsSound'
  <2>0. index' = index /\ losses' = losses
    BY <1>3 DEF ReadMarker, redisVars
  <2>1. CASE Verdict(seen[b]) = "marking"
    <3>1. SameCount(seen[b]) /\ phase[b] = "compared"
      BY <1>3, <2>1 DEF ReadMarker, Verdict
    <3>2. phase' = [phase EXCEPT ![b] = "marking"] /\ seen' = seen
      BY <1>3, <2>1 DEF ReadMarker, Enter
    <3> QED
      BY <1>0, <2>0, <3>1, <3>2 DEF CheckIsSound, SameCount, PhaseTypes
  <2>2. CASE Verdict(seen[b]) # "marking"
    <3>1. /\ Verdict(seen[b]) \notin {"timed", "compared", "marking"}
          /\ phase' = [phase EXCEPT ![b] = Verdict(seen[b])]
          /\ seen' = [seen EXCEPT ![b] = Unseen]
      BY <1>3, <2>2 DEF ReadMarker, Decide, Enter, Verdict
    <3> QED
      BY <1>0, <2>0, <3>1 DEF CheckIsSound, SameCount, PhaseTypes, SeenTypes
  <2> QED
    BY <2>1, <2>2
<1>4. ASSUME NEW b \in Apis, MarkReady(b) PROVE CheckIsSound'
  BY <1>0, <1>4 DEF MarkReady, Decide, Enter, CheckIsSound, SameCount, PhaseTypes, SeenTypes
<1>5. ASSUME NEW b \in Apis, Stop(b) PROVE CheckIsSound'
  BY <1>0, <1>5 DEF Stop, Decide, Enter, CheckIsSound, SameCount, PhaseTypes, SeenTypes,
         redisVars
<1>6. CASE PrepareRebuild
  BY <1>6 DEF PrepareRebuild, CheckIsSound
<1>7. CASE LoseRedis
  <2>1. losses' # 0 /\ phase' = phase /\ seen' = seen
    BY <1>0, <1>7 DEF LoseRedis, FaultTypes, apiVars
  <2> QED
    BY <2>1 DEF CheckIsSound, SameCount
<1>8. CASE ClearIndex
  BY <1>8 DEF ClearIndex, RebuildIsAlone, AllStopped, CheckIsSound, apiVars
<1>9. ASSUME NEW b \in Apis, Request(b) PROVE CheckIsSound'
  <2>1. phase' = phase /\ seen' = seen /\ losses' = losses /\ index \subseteq index'
    BY <1>9 DEF Request, EnsureVoteStateReadable, StorePost, StorePostFails, IndexPost,
       IndexPostFails, VoteRefused, VoteForPost, AddToIndex, redisVars
  <2> QED
    BY <2>1, CheckSame
<1>10. CASE Relay \/ Acknowledge \/ Persist \/ CopiesComeAndGo \/ RestoreBatch \/
      VerifyIndex \/ MarkRebuilt \/ RebuildAborted
  <2>1. phase' = phase /\ seen' = seen /\ losses' = losses /\ index \subseteq index'
    BY <1>10 DEF Relay, Acknowledge, Persist, CopiesComeAndGo, RestoreBatch, VerifyIndex,
       MarkRebuilt, RebuildAborted, redisVars, apiVars
  <2> QED
    BY <2>1, CheckSame
<1>11. CASE UNCHANGED vars
  BY <1>11, CheckSame DEF vars, redisVars, apiVars
<1> QED
  BY <1>1, <1>2, <1>3, <1>4, <1>5, <1>6, <1>7, <1>8, <1>9, <1>10, <1>11
     DEF Next, StartStep, RebuildStep

LEMMA ControlInit == Init => ControlInv
<1> SUFFICES ASSUME Init PROVE ControlInv
  OBVIOUS
<1>1. TypeOK
  <2>1. IndexTypes /\ EventTypes
    BY DEF Init, IndexTypes, EventTypes
  <2>2. ScoreTypes /\ VoteTypes
    BY NoRowIsVote DEF Init, ScoreTypes, VoteTypes
  <2>3. PhaseTypes /\ SeenTypes /\ RebuildTypes
    BY DEF Init, PhaseTypes, SeenTypes, RebuildTypes, Unseen
  <2>4. TaskTypes
    BY NoTaskIsTask DEF Init, TaskTypes
  <2>5. FaultTypes
    BY BoundsAssumption DEF Init, FaultTypes
  <2>6. LeftTypes
    BY DEF Init, LeftTypes
  <2> QED
    BY <2>1, <2>2, <2>3, <2>4, <2>5, <2>6, TypeParts
<1>2. RebuildIsAlone
  BY DEF Init, RebuildIsAlone
<1>3. RunningServes
  BY DEF Init, RunningServes, NoTask
<1>4. NobodyTrustsARebuild
  BY DEF Init, NobodyTrustsARebuild
<1>5. StoredFirst
  BY DEF Init, StoredFirst, BeingIndexed, NoTask
<1>6. RestoredIsExact /\ RebuildIsExact /\ CheckIsSound
  BY DEF Init, RestoredIsExact, RebuildIsExact, CheckIsSound
<1> QED
  BY <1>1, <1>2, <1>3, <1>4, <1>5, <1>6 DEF ControlInv

LEMMA ControlStep == ControlInv /\ [Next]_vars => ControlInv'
<1> SUFFICES ASSUME ControlInv, [Next]_vars PROVE ControlInv'
  OBVIOUS
<1>1. /\ TypeOK /\ RebuildIsAlone /\ RunningServes /\ NobodyTrustsARebuild /\ StoredFirst
      /\ RestoredIsExact /\ RebuildIsExact /\ CheckIsSound
  BY DEF ControlInv
<1>2. TaskTypes /\ PhaseTypes
  BY <1>1, TypeParts
<1>3. TypeOK'
  BY <1>1, TypeStep
<1>4. RebuildIsAlone' /\ RunningServes' /\ NobodyTrustsARebuild' /\ StoredFirst'
  BY <1>1, <1>2, AloneStep, ServesStep, TrustStep, StoredStep
<1>5. RestoredIsExact' /\ RebuildIsExact' /\ CheckIsSound'
  BY <1>1, RestoreStep, CheckStep
<1> QED
  BY <1>3, <1>4, <1>5 DEF ControlInv

\* The control part of the invariant holds whatever becomes of lost replies.
THEOREM ControlCorrect == Spec => []ControlInv
  BY ControlInit, ControlStep, PTL DEF Spec

\* The type invariant.
THEOREM TypeCorrect == Spec => []TypeOK
<1>1. ControlInv => TypeOK
  BY DEF ControlInv
<1> QED
  BY <1>1, ControlCorrect, PTL

\* While Redis is cleared and refilled nobody serves it (logic/recovery.go:59-98).
THEOREM ServiceCorrect == Spec => []NobodyServesARebuild
<1>1. ControlInv => NobodyServesARebuild
  BY DEF ControlInv, NobodyTrustsARebuild, NobodyServesARebuild, Serving
<1> QED
  BY <1>1, ControlCorrect, PTL

\* Every indexed post is in MySQL, as the lists assume (logic/post.go:215-229).
THEOREM IndexCorrect == Spec => []IndexedPostsAreStored
<1>1. ControlInv => IndexedPostsAreStored
  BY DEF ControlInv, StoredFirst, IndexedPostsAreStored
<1> QED
  BY <1>1, ControlCorrect, PTL

\* Two numbers are enough to see any damage: a start check during which nothing
\* changes refuses if and only if a post is missing in the index or a rebuild is
\* unfinished (logic/recovery.go:18-49), so that the rebuild has something to repair.
THEOREM RefusalMeansDamage ==
    Spec => [](Verdict([posts |-> posts, index |-> index]) = "stopped" <=> Damaged)
<1>1. ControlInv => (Verdict([posts |-> posts, index |-> index]) = "stopped" <=> Damaged)
  <2> SUFFICES ASSUME ControlInv
               PROVE  Verdict([posts |-> posts, index |-> index]) = "stopped" <=> Damaged
    OBVIOUS
  <2>1. index \subseteq posts /\ posts \subseteq Posts
        /\ marker \in {"missing", "ready", "rebuilding"}
    BY DEF ControlInv, StoredFirst, TypeOK
  <2>2. Cardinality(posts) = Cardinality(index) <=> posts = index
    BY <2>1, EqualCounts
  <2> QED
    BY <2>1, <2>2 DEF Verdict, SameCount, Damaged
<1> QED
  BY <1>1, ControlCorrect, PTL

\* A rebuild that passes its verification has restored every post with the votes and
\* the score of MySQL (logic/recovery.go:88-94), or has lost all of it since.
THEOREM RebuildCorrect == Spec => []RebuildIsExact
<1>1. ControlInv => RebuildIsExact
  BY DEF ControlInv
<1> QED
  BY <1>1, ControlCorrect, PTL

\* The two counts of the start check are enough while no new post is indexed between
\* them and Redis keeps its data (logic/recovery.go:22-49).
THEOREM StartCorrect == Spec => StartIsExact
<1> DEFINE Exact ==
      \A a \in Apis :
          /\ phase[a] # "running" /\ phase'[a] = "running"
          /\ seen[a].index \subseteq seen[a].posts /\ losses = 0
          => seen[a].posts \subseteq index
<1>1. ControlInv /\ [Next]_vars => [Exact]_vars
  <2> SUFFICES ASSUME ControlInv, Next, NEW a \in Apis,
                      phase[a] # "running", phase'[a] = "running",
                      seen[a].index \subseteq seen[a].posts, losses = 0
               PROVE  seen[a].posts \subseteq index
    OBVIOUS
  <2>0. PhaseTypes /\ SeenTypes /\ CheckIsSound
    BY TypeParts DEF ControlInv
  <2>1. \/ phase[a] = "compared" /\ Verdict(seen[a]) = "running"
        \/ phase[a] = "marking"
    <3>1. ASSUME NEW b \in Apis, StartStep(b)
          PROVE  \/ phase[a] = "compared" /\ Verdict(seen[a]) = "running"
                 \/ phase[a] = "marking"
      BY <2>0, <3>1 DEF StartStep, CountPosts, CountTimes, CountScores, ReadMarker,
         MarkReady, Decide, Enter, Verdict, PhaseTypes
    <3>2. ASSUME NEW b \in Apis, Stop(b) PROVE FALSE
      BY <2>0, <3>2 DEF Stop, Decide, Enter, PhaseTypes
    <3>3. ASSUME NEW b \in Apis, Request(b) PROVE phase' = phase
      BY <3>3 DEF Request, EnsureVoteStateReadable, StorePost, StorePostFails, IndexPost,
         IndexPostFails, VoteRefused, VoteForPost
    <3>4. Relay \/ Acknowledge \/ Persist \/ CopiesComeAndGo \/ LoseRedis
          \/ RebuildStep \/ RebuildAborted => phase' = phase
      BY DEF Relay, Acknowledge, Persist, CopiesComeAndGo, LoseRedis, RebuildStep,
         ClearIndex, RestoreBatch, VerifyIndex, MarkRebuilt, RebuildAborted, apiVars
    <3>5. PrepareRebuild => FALSE
      BY DEF PrepareRebuild
    <3> QED
      BY <3>1, <3>2, <3>3, <3>4, <3>5 DEF Next
  <2>2. SameCount(seen[a])
    BY <2>0, <2>1 DEF Verdict, CheckIsSound
  <2>3. seen[a].index \subseteq index
    BY <2>0, <2>1 DEF CheckIsSound
  <2>4. seen[a].posts \subseteq Posts
    BY <2>0 DEF SeenTypes
  <2>5. seen[a].index = seen[a].posts
    BY <2>2, <2>4, EqualCounts DEF SameCount
  <2> QED
    BY <2>3, <2>5
<1>2. Spec => [][Next]_vars
  BY DEF Spec
<1> HIDE DEF Exact
<1>3. Spec => [][Exact]_vars
  BY <1>1, <1>2, ControlCorrect, PTL
<1> QED
  BY <1>3 DEF Exact, StartIsExact

-----------------------------------------------------------------------------
(* Votes: a new post is nobody's                                            *)

\* The request that enters a post into the index is the only one that does.
LEMMA IndexedIsDone ==
    ASSUME TaskTypes, StoredFirst, NEW a \in Apis, IndexPost(a)
    PROVE  /\ task[a].post \in posts /\ task[a].post \in BeingIndexed
           /\ task[a].post \notin BeingIndexed'
<1> DEFINE q == task[a].post
<1>1. task[a].kind = "index"
  BY DEF IndexPost
<1>2. \A b \in Apis : /\ b = a => task'[b].kind # "index"
                      /\ b # a => task'[b] = task[b]
  BY DEF IndexPost, Reply, NoTask, TaskTypes
<1>3. q \in posts /\ \A b \in Apis : b # a /\ task[b].kind = "index" => task[b].post # q
  BY <1>1 DEF StoredFirst, BeingIndexed
<1> QED
  BY <1>1, <1>2, <1>3 DEF BeingIndexed

\* It is enough that no post becomes new again, or that it stays as fresh.
LEMMA FreshSame ==
    ASSUME NewPostsAreFresh, posts \subseteq posts',
           BeingIndexed' \subseteq BeingIndexed \cup (Posts \ posts),
           BeingIndexed' \cap index \subseteq index',
           unsent' \subseteq unsent, broker' \subseteq broker \cup unsent,
           vote' = vote \/ vote' = [k \in Keys |-> NoRow], row' = row
    PROVE  NewPostsAreFresh'
<1> SUFFICES ASSUME NEW p \in Posts, p \notin posts' \/ p \in (BeingIndexed' \ index')
             PROVE  NeverVotedFor(p)'
  BY DEF NewPostsAreFresh
<1>1. NeverVotedFor(p)
  BY DEF NewPostsAreFresh
<1>2. \A u \in Users : <<u, p>> \in Keys
  BY DEF Keys
<1>3. \A u \in Users : vote'[<<u, p>>] = NoRow /\ row'[<<u, p>>] = NoRow
  BY <1>1, <1>2 DEF NeverVotedFor
<1>4. \A e \in Pending' : e.key[2] # p
  BY <1>1 DEF NeverVotedFor, Pending
<1> QED
  BY <1>3, <1>4 DEF NeverVotedFor

LEMMA FreshStep ==
    /\ NewPostsAreFresh /\ ControlInv /\ (~LostReplies => IndexedOnce)
    /\ Calm' /\ [Next]_vars
    => NewPostsAreFresh'
<1> SUFFICES ASSUME NewPostsAreFresh, ControlInv, ~LostReplies => IndexedOnce, Calm', [Next]_vars
             PROVE  NewPostsAreFresh'
  OBVIOUS
<1>0. /\ TaskTypes /\ VoteTypes /\ FaultTypes /\ IndexTypes
      /\ RebuildIsAlone /\ RunningServes /\ StoredFirst
  BY TypeParts DEF ControlInv
<1>b. ASSUME \A a \in Apis : ~StorePost(a) PROVE BeingIndexed' \subseteq BeingIndexed
  BY <1>0, <1>b, BeingIndexedStep
<1>r. rebuild # "none" => BeingIndexed = {}
  BY <1>0 DEF RebuildIsAlone, AllStopped, RunningServes, BeingIndexed
<1>1. ASSUME NEW a \in Apis, StorePost(a) PROVE NewPostsAreFresh'
  <2>1. PICK p \in Posts \ posts : /\ posts' = posts \cup {p}
                                  /\ task' = [task EXCEPT ![a] = [kind |-> "index", post |->
                                        p, tries |-> 1]]
    BY <1>1 DEF StorePost, Continue
  <2>2. \A b \in Apis : /\ b = a => task'[b].kind = "index" /\ task'[b].post = p
                        /\ b # a => task'[b] = task[b]
    BY <1>0, <2>1 DEF TaskTypes
  <2>3. BeingIndexed' \subseteq BeingIndexed \cup {p}
    BY <2>2 DEF BeingIndexed
  <2>4. index' = index /\ unsent' = unsent /\ broker' = broker /\ vote' = vote /\ row' = row
    BY <1>1 DEF StorePost, redisVars
  <2> QED
    BY <2>1, <2>3, <2>4, FreshSame
<1>2. ASSUME NEW a \in Apis, NEW k \in Keys, NEW d \in Directions, VoteForPost(a, k, d)
      PROVE NewPostsAreFresh'
  <2> DEFINE e == [key |-> k, dir |-> d, ver |-> vote[k].ver + 1]
  <2>1. /\ index' = index /\ posts' = posts /\ row' = row /\ broker' = broker
        /\ k[2] \in index /\ unsent' = unsent \cup {e}
        /\ vote' = [vote EXCEPT ![k] = [dir |-> d, ver |-> e.ver]]
    BY <1>2 DEF VoteForPost, Path!Cast, Indexed, mysqlVars
  <2>2. \A b \in Apis : task'[b].kind = "index" =>
            task[b].kind = "index" /\ task'[b].post = task[b].post
    BY <1>2, <1>0 DEF VoteForPost, Reply, NoTask, TaskTypes
  <2>3. BeingIndexed' \subseteq BeingIndexed
    BY <2>2 DEF BeingIndexed
  <2> SUFFICES ASSUME NEW p \in Posts, p \notin posts' \/ p \in (BeingIndexed' \ index')
               PROVE  NeverVotedFor(p)'
    BY DEF NewPostsAreFresh
  <2>4. p \notin index /\ NeverVotedFor(p) /\ p # k[2]
    BY <1>0, <2>1, <2>3 DEF NewPostsAreFresh, StoredFirst
  <2>5. \A u \in Users : <<u, p>> \in Keys /\ <<u, p>> # k
    BY <2>4 DEF Keys
  <2>6. \A u \in Users : vote'[<<u, p>>] = NoRow /\ row'[<<u, p>>] = NoRow
    BY <1>0, <2>1, <2>4, <2>5 DEF NeverVotedFor, VoteTypes
  <2>7. Pending' = Pending \cup {e}
    BY <2>1 DEF Pending
  <2> HIDE DEF e
  <2>8. e.key = k
    BY DEF e
  <2>9. \A x \in Pending' : x.key[2] # p
    BY <2>4, <2>7, <2>8 DEF NeverVotedFor
  <2> QED
    BY <2>6, <2>9 DEF NeverVotedFor
<1>3. CASE Persist
  <2>1. PICK e \in broker : broker' = broker \ {e} /\ row' = [row EXCEPT ![e.key] =
        Upsert(@, e)]
    BY <1>3, PathUpsert DEF Persist, Path!Persist
  <2>2. index' = index /\ posts' = posts /\ vote' = vote /\ unsent' = unsent /\ task' = task
    BY <1>3 DEF Persist, Path!Persist, redisVars, apiVars
  <2> SUFFICES ASSUME NEW p \in Posts, p \notin posts' \/ p \in (BeingIndexed' \ index')
               PROVE  NeverVotedFor(p)'
    BY DEF NewPostsAreFresh
  <2>3. NeverVotedFor(p)
    BY <2>2 DEF NewPostsAreFresh, BeingIndexed
  <2>4. \A u \in Users : <<u, p>> \in Keys /\ <<u, p>> # e.key
    BY <2>1, <2>3 DEF Keys, NeverVotedFor, Pending
  <2>5. \A u \in Users : row'[<<u, p>>] = row[<<u, p>>]
    BY <1>0, <2>1, <2>4 DEF VoteTypes
  <2> QED
    BY <2>1, <2>2, <2>3, <2>5 DEF NeverVotedFor, Pending
<1>4. CASE LoseRedis
  \* With a lost reply the system is no longer calm; without one nothing that waits
  \* for its index is in it.
  <2>1. LostReplies \in BOOLEAN /\ losses' # 0
    BY <1>0, <1>4, BoundsAssumption DEF LoseRedis, FaultTypes
  <2>2. BeingIndexed \cap index = {}
    BY <2>1 DEF Calm, IndexedOnce
  <2>3. /\ posts' = posts /\ task' = task /\ unsent' = {} /\ broker' = broker /\ row' = row
        /\ vote' = [k \in Keys |-> NoRow]
    BY <1>4 DEF LoseRedis, mysqlVars, apiVars
  <2>4. BeingIndexed' = BeingIndexed
    BY <2>3 DEF BeingIndexed
  <2> QED
    BY <2>2, <2>3, <2>4, FreshSame
<1>5. CASE ClearIndex
  <2>1. /\ rebuild # "none" /\ posts' = posts /\ task' = task /\ unsent' = unsent
        /\ broker' = broker /\ row' = row /\ vote' = [k \in Keys |-> NoRow]
    BY <1>5 DEF ClearIndex, mysqlVars, apiVars
  <2>2. BeingIndexed' = {}
    BY <1>r, <2>1 DEF BeingIndexed
  <2> QED
    BY <2>1, <2>2, FreshSame
<1>6. CASE RestoreBatch
  <2>1. PICK q \in posts \ restored :
            vote' = [k \in Keys |-> IF k[2] = q THEN row[k] ELSE vote[k]]
    BY <1>6 DEF RestoreBatch, RestoredVote
  <2>2. /\ rebuild # "none" /\ posts' = posts /\ row' = row /\ unsent' = unsent
        /\ broker' = broker /\ task' = task
    BY <1>6 DEF RestoreBatch, mysqlVars, apiVars
  <2>3. BeingIndexed' = {}
    BY <1>r, <2>2 DEF BeingIndexed
  <2> SUFFICES ASSUME NEW p \in Posts, p \notin posts
               PROVE  NeverVotedFor(p)'
    BY <2>2, <2>3 DEF NewPostsAreFresh
  <2>4. p # q /\ NeverVotedFor(p)
    BY <2>1 DEF NewPostsAreFresh
  <2>5. \A u \in Users : <<u, p>> \in Keys /\ <<u, p>>[2] = p
    BY DEF Keys
  <2>6. \A u \in Users : vote'[<<u, p>>] = vote[<<u, p>>]
    BY <2>1, <2>4, <2>5
  <2> QED
    BY <2>2, <2>4, <2>6 DEF NeverVotedFor, Pending
<1>7. ASSUME NEW a \in Apis,
             \/ StartStep(a) \/ Stop(a) \/ EnsureVoteStateReadable(a) \/ StorePostFails(a)
             \/ IndexPost(a) \/ IndexPostFails(a) \/ VoteRefused(a)
      PROVE  NewPostsAreFresh'
  <2>1. CASE \A b \in Apis : ~StorePost(b)
    <3>1. /\ posts \subseteq posts' /\ index \subseteq index' /\ unsent' = unsent
          /\ broker' = broker /\ row' = row /\ vote' = vote
      BY <1>7 DEF StartStep, CountPosts, CountTimes, CountScores, ReadMarker, MarkReady,
         Stop, EnsureVoteStateReadable, StorePostFails, IndexPost, IndexPostFails,
         VoteRefused, AddToIndex, redisVars, mysqlVars
    <3> QED
      BY <1>b, <2>1, <3>1, FreshSame
  <2> QED
    BY <1>1, <2>1
<1>8. CASE Relay \/ Acknowledge \/ CopiesComeAndGo \/ PrepareRebuild \/
      VerifyIndex \/ MarkRebuilt \/ RebuildAborted \/ UNCHANGED vars
  <2>1. CASE \A b \in Apis : ~StorePost(b)
    <3>1. /\ posts' = posts /\ index' = index /\ unsent' \subseteq unsent
          /\ broker' \subseteq broker \cup unsent /\ row' = row /\ vote' = vote
      BY <1>8 DEF Relay, Path!Relay, Acknowledge, Path!Acknowledge, CopiesComeAndGo,
         Path!CopiesComeAndGo, PrepareRebuild, VerifyIndex, MarkRebuilt, RebuildAborted,
         vars, redisVars, mysqlVars
    <3> QED
      BY <1>b, <2>1, <3>1, FreshSame
  <2> QED
    BY <1>1, <2>1
<1> QED
  BY <1>1, <1>2, <1>3, <1>4, <1>5, <1>6, <1>7, <1>8 DEF Next, Request, RebuildStep

\* Without lost replies nothing that waits for its index is in it.
LEMMA OnceStep ==
    IndexedOnce /\ ControlInv /\ ~LostReplies /\ [Next]_vars => IndexedOnce'
<1> SUFFICES ASSUME IndexedOnce, ControlInv, ~LostReplies, [Next]_vars PROVE IndexedOnce'
  OBVIOUS
<1>0. TaskTypes /\ RebuildIsAlone /\ RunningServes /\ StoredFirst
  BY TypeParts DEF ControlInv
<1>1. ASSUME NEW a \in Apis, StorePost(a) PROVE IndexedOnce'
  <2>1. PICK p \in Posts \ posts :
          task' = [task EXCEPT ![a] = [kind |-> "index", post |-> p, tries |-> 1]]
    BY <1>1 DEF StorePost, Continue
  <2>2. \A b \in Apis : /\ b = a => task'[b].kind = "index" /\ task'[b].post = p
                        /\ b # a => task'[b] = task[b]
    BY <1>0, <2>1 DEF TaskTypes
  <2>3. BeingIndexed' \subseteq BeingIndexed \cup {p} /\ p \notin index
    BY <1>0, <2>2 DEF BeingIndexed, StoredFirst
  <2>4. index' = index
    BY <1>1 DEF StorePost, redisVars
  <2> QED
    BY <2>3, <2>4 DEF IndexedOnce
<1>2. CASE \A a \in Apis : ~StorePost(a)
  <2>0. BeingIndexed' \subseteq BeingIndexed
    BY <1>0, <1>2, BeingIndexedStep
  <2>1. ASSUME NEW a \in Apis, IndexPost(a) PROVE IndexedOnce'
    <3>1. index' = index \cup {task[a].post}
      BY <2>1 DEF IndexPost, AddToIndex
    <3>2. task[a].post \notin BeingIndexed'
      BY <1>0, <2>1, IndexedIsDone
    <3> QED
      BY <2>0, <3>1, <3>2 DEF IndexedOnce
  <2>2. CASE RestoreBatch
    <3>1. BeingIndexed = {}
      BY <1>0, <2>2 DEF RestoreBatch, RebuildIsAlone, AllStopped, RunningServes,
            BeingIndexed
    <3> QED
      BY <2>0, <3>1 DEF IndexedOnce
  <2>3. ASSUME NEW a \in Apis,
               \/ StartStep(a) \/ Stop(a) \/ EnsureVoteStateReadable(a) \/ StorePostFails(a)
               \/ IndexPostFails(a) \/ VoteRefused(a)
               \/ \E k \in Keys, d \in Directions : VoteForPost(a, k, d)
        PROVE  IndexedOnce'
    <3>1. index' = index
      BY <2>3 DEF StartStep, CountPosts, CountTimes, CountScores, ReadMarker, MarkReady,
         Stop, EnsureVoteStateReadable, StorePostFails, IndexPostFails, VoteRefused,
         VoteForPost, redisVars
    <3> QED
      BY <2>0, <3>1 DEF IndexedOnce
  <2>4. CASE Relay \/ Acknowledge \/ Persist \/ CopiesComeAndGo \/ LoseRedis \/
        PrepareRebuild \/ ClearIndex \/ VerifyIndex
             \/ MarkRebuilt \/ RebuildAborted \/ UNCHANGED vars
    <3>1. index' \subseteq index
      BY <2>4 DEF Relay, Acknowledge, Persist, CopiesComeAndGo, LoseRedis, PrepareRebuild,
         ClearIndex, VerifyIndex, MarkRebuilt, RebuildAborted, vars, redisVars
    <3> QED
      BY <2>0, <3>1 DEF IndexedOnce
  <2> QED
    BY <1>2, <2>1, <2>2, <2>3, <2>4 DEF Next, Request, RebuildStep
<1> QED
  BY <1>1, <1>2

-----------------------------------------------------------------------------
(* Votes: versions, and what is missing in MySQL is on its way              *)

KeyInv(k) ==
    /\ row[k].ver <= vote[k].ver
    /\ row[k].ver = vote[k].ver => row[k] = vote[k]
    /\ \A e \in Pending : e.key = k =>
          e.ver <= vote[k].ver /\ (e.ver = vote[k].ver => e.dir = vote[k].dir)
    /\ row[k] # vote[k] => \E e \in Pending : e.key = k /\ e.ver = vote[k].ver

KeysInv == \A k \in Keys : k[2] \in index => KeyInv(k)

LEMMA KeysParts ==
    KeysInv <=> VersionsNeverReused /\ SameVersionSameVote /\ MissingIsPending
  BY DEF KeysInv, KeyInv, VersionsNeverReused, SameVersionSameVote, MissingIsPending,
        Pending

\* A vote, its row and its events stay what they are.
LEMMA KeySame ==
    ASSUME NEW k \in Keys, KeyInv(k), vote'[k] = vote[k], row'[k] = row[k],
           \A e : e.key = k => (e \in Pending' <=> e \in Pending)
    PROVE  KeyInv(k)'
  BY DEF KeyInv

\* A vote that agrees with MySQL while nothing of it is on its way.
LEMMA KeyDrained ==
    ASSUME NEW k \in Keys, vote'[k] = row'[k], row'[k] \in VoteType,
           \A e \in Pending' : e.key # k
    PROVE  KeyInv(k)'
  BY BoundsAssumption DEF KeyInv, VoteType

\* A change with the next version.
LEMMA KeyVoted ==
    ASSUME NEW k \in Keys, KeyInv(k), vote[k] \in VoteType, row[k] \in VoteType,
           Pending \subseteq EventType, NEW e,
           e.key = k, e.ver = vote[k].ver + 1,
           vote'[k] = [dir |-> e.dir, ver |-> e.ver], row'[k] = row[k],
           Pending' = Pending \cup {e}
    PROVE  KeyInv(k)'
<1>1. vote[k].ver \in Int /\ row[k].ver \in Int /\ \A x \in Pending : x.ver \in Int
  BY BoundsAssumption DEF VoteType, EventType
<1>2. vote'[k].ver = vote[k].ver + 1 /\ vote'[k].dir = e.dir
  OBVIOUS
<1>3. row'[k].ver < vote'[k].ver
  BY <1>1, <1>2 DEF KeyInv
<1>4. \A x \in Pending : x.key = k => x.ver < vote'[k].ver
  BY <1>1, <1>2 DEF KeyInv
<1>5. \A x \in Pending' : x.key = k =>
        x.ver <= vote'[k].ver /\ (x.ver = vote'[k].ver => x.dir = vote'[k].dir)
  BY <1>1, <1>2, <1>4
<1> QED
  BY <1>1, <1>2, <1>3, <1>5 DEF KeyInv

\* An event reaches its row.
LEMMA KeyPersisted ==
    ASSUME NEW k \in Keys, KeyInv(k), vote[k] \in VoteType, row[k] \in VoteType,
           Pending \subseteq EventType, NEW e \in Pending, e.key = k,
           vote'[k] = vote[k], row'[k] = Upsert(row[k], e),
           Pending' \subseteq Pending, Pending \ {e} \subseteq Pending'
    PROVE  KeyInv(k)'
<1>1. /\ vote[k].ver \in Int /\ row[k].ver \in Int /\ \A x \in Pending : x.ver \in Int
      /\ vote[k] = [dir |-> vote[k].dir, ver |-> vote[k].ver]
  BY BoundsAssumption DEF VoteType, EventType
<1>2. e.ver \in Int /\ e.ver <= vote[k].ver /\ (e.ver = vote[k].ver => e.dir = vote[k].dir)
  BY <1>1 DEF KeyInv
<1>3. \A x \in Pending' : x.key = k =>
          x.ver <= vote[k].ver /\ (x.ver = vote[k].ver => x.dir = vote[k].dir)
  BY DEF KeyInv
<1>4. CASE e.ver > row[k].ver /\ e.ver = vote[k].ver
  <2>1. row'[k] = vote[k]
    BY <1>1, <1>2, <1>4 DEF Upsert
  <2> QED
    BY <1>1, <1>3, <2>1 DEF KeyInv
<1>5. CASE e.ver > row[k].ver /\ e.ver # vote[k].ver
  <2>1. row'[k] = [dir |-> e.dir, ver |-> e.ver]
    BY <1>5 DEF Upsert
  <2>2. row[k] # vote[k]
    BY <1>1, <1>2, <1>5
  <2>3. PICK x \in Pending : x.key = k /\ x.ver = vote[k].ver
    BY <2>2 DEF KeyInv
  <2>4. x \in Pending'
    BY <1>5, <2>3
  <2>5. row'[k].ver = e.ver
    BY <2>1
  <2> QED
    BY <1>1, <1>2, <1>3, <1>5, <2>3, <2>4, <2>5 DEF KeyInv
<1>6. CASE ~(e.ver > row[k].ver)
  <2>1. row'[k] = row[k]
    BY <1>6 DEF Upsert
  <2>2. ASSUME row[k] # vote[k] PROVE \E x \in Pending' : x.key = k /\ x.ver = vote[k].ver
    <3>1. PICK x \in Pending : x.key = k /\ x.ver = vote[k].ver
      BY <2>2 DEF KeyInv
    <3>2. row[k].ver # vote[k].ver /\ row[k].ver <= vote[k].ver
      BY <2>2 DEF KeyInv
    <3>3. x # e
      BY <1>1, <1>2, <1>6, <3>1, <3>2
    <3> QED
      BY <3>1, <3>3
  <2> QED
    BY <1>1, <1>3, <2>1, <2>2 DEF KeyInv
<1> QED
  BY <1>4, <1>5, <1>6

LEMMA KeysStep ==
    KeysInv /\ NewPostsAreFresh /\ ControlInv /\ [Next]_vars => KeysInv'
<1> SUFFICES ASSUME KeysInv, NewPostsAreFresh, ControlInv, [Next]_vars PROVE KeysInv'
  OBVIOUS
<1>0. TaskTypes /\ VoteTypes /\ EventTypes /\ ScoreTypes /\ RebuildIsAlone /\ StoredFirst
  BY TypeParts DEF ControlInv
<1>1. ASSUME NEW a \in Apis, IndexPost(a) \/ IndexPostFails(a) PROVE KeysInv'
  <2> DEFINE q == task[a].post
  <2> SUFFICES ASSUME NEW j \in Keys, j[2] \in index' PROVE KeyInv(j)'
    BY DEF KeysInv
  <2>1. task[a].kind = "index" /\ index' \subseteq index \cup {q}
    BY <1>1 DEF IndexPost, IndexPostFails, AddToIndex
  <2>2. vote' = vote /\ row' = row /\ Pending' = Pending
    BY <1>1 DEF IndexPost, IndexPostFails, mysqlVars, Pending
  <2>3. CASE j[2] \in index
    BY <2>2, <2>3, KeySame DEF KeysInv
  <2>4. CASE j[2] = q /\ q \notin index
    <3>1. q \in BeingIndexed
      BY <2>1 DEF BeingIndexed
    <3>2. j[2] \in Posts /\ j[1] \in Users /\ j = <<j[1], j[2]>>
      BY DEF Keys
    <3>3. NeverVotedFor(q)
      BY <2>4, <3>1, <3>2 DEF NewPostsAreFresh
    <3>4. vote[j] = NoRow /\ row[j] = NoRow /\ \A e \in Pending : e.key # j
      BY <2>4, <3>2, <3>3 DEF NeverVotedFor
    <3> QED
      BY <2>2, <3>4, KeyDrained, NoRowIsVote
  <2> QED
    BY <2>1, <2>3, <2>4
<1>3. ASSUME NEW a \in Apis, NEW k \in Keys, NEW d \in Directions, VoteForPost(a, k, d)
      PROVE KeysInv'
  <2> SUFFICES ASSUME NEW j \in Keys, j[2] \in index' PROVE KeyInv(j)'
    BY DEF KeysInv
  <2> DEFINE e == [key |-> k, dir |-> d, ver |-> vote[k].ver + 1]
  <2>1. /\ index' = index /\ row' = row /\ Pending' = Pending \cup {e}
        /\ vote' = [vote EXCEPT ![k] = [dir |-> d, ver |-> e.ver]]
    BY <1>3 DEF VoteForPost, Path!Cast, mysqlVars, Pending
  <2>2. e.key = k /\ e.ver = vote[k].ver + 1 /\ e.dir = d
    OBVIOUS
  <2>3. vote' = [vote EXCEPT ![k] = [dir |-> e.dir, ver |-> e.ver]]
    BY <2>1, <2>2
  <2> HIDE DEF e
  <2>4. KeyInv(j)
    BY <2>1 DEF KeysInv
  <2>5. CASE j = k
    <3>1. vote'[k] = [dir |-> e.dir, ver |-> e.ver]
      BY <1>0, <2>3 DEF VoteTypes
    <3>2. vote[k] \in VoteType /\ row[k] \in VoteType /\ Pending \subseteq EventType
      BY <1>0 DEF VoteTypes, EventTypes, Pending
    <3> QED
      BY <2>1, <2>2, <2>4, <2>5, <3>1, <3>2, KeyVoted
  <2>6. CASE j # k
    <3>1. vote'[j] = vote[j]
      BY <1>0, <2>3, <2>6 DEF VoteTypes
    <3>2. \A x : x.key = j => (x \in Pending' <=> x \in Pending)
      BY <2>1, <2>2, <2>6
    <3> QED
      BY <2>1, <2>4, <3>1, <3>2, KeySame
  <2> QED
    BY <2>5, <2>6
<1>4. CASE Relay
  <2> SUFFICES ASSUME NEW j \in Keys, j[2] \in index' PROVE KeyInv(j)'
    BY DEF KeysInv
  <2>1. index' = index /\ vote' = vote /\ row' = row /\ Pending' = Pending
    BY <1>4 DEF Relay, Path!Relay, redisVars, mysqlVars, Pending
  <2> QED
    BY <2>1, KeySame DEF KeysInv
<1>5. CASE Persist
  <2> SUFFICES ASSUME NEW j \in Keys, j[2] \in index' PROVE KeyInv(j)'
    BY DEF KeysInv
  <2>1. PICK e \in broker : broker' = broker \ {e} /\ row' = [row EXCEPT ![e.key] =
        Upsert(@, e)]
    BY <1>5, PathUpsert DEF Persist, Path!Persist
  <2>2. index' = index /\ vote' = vote /\ unsent' = unsent
    BY <1>5 DEF Persist, Path!Persist, redisVars
  <2>3. KeyInv(j)
    BY <2>2 DEF KeysInv
  <2>4. Pending' \subseteq Pending /\ Pending \ {e} \subseteq Pending' /\ e \in Pending
    BY <2>1, <2>2 DEF Pending
  <2>5. vote[j] \in VoteType /\ row[j] \in VoteType /\ Pending \subseteq EventType
    BY <1>0 DEF VoteTypes, EventTypes, Pending
  <2>6. CASE e.key = j
    <3>1. row'[j] = Upsert(row[j], e)
      BY <1>0, <2>1, <2>6 DEF VoteTypes
    <3> QED
      BY <2>2, <2>3, <2>4, <2>5, <2>6, <3>1, KeyPersisted
  <2>7. CASE e.key # j
    <3>1. row'[j] = row[j]
      BY <1>0, <2>1, <2>7 DEF VoteTypes
    <3>2. \A x : x.key = j => (x \in Pending' <=> x \in Pending)
      BY <2>4, <2>7
    <3> QED
      BY <2>2, <2>3, <3>1, <3>2, KeySame
  <2> QED
    BY <2>6, <2>7
<1>6. CASE LoseRedis
  <2>1. index' = {}
    BY <1>6 DEF LoseRedis
  <2> QED
    BY <2>1 DEF KeysInv
<1>7. CASE ClearIndex
  <2>1. index' = {}
    BY <1>7 DEF ClearIndex
  <2> QED
    BY <2>1 DEF KeysInv
<1>8. CASE RestoreBatch
  <2> SUFFICES ASSUME NEW j \in Keys, j[2] \in index' PROVE KeyInv(j)'
    BY DEF KeysInv
  <2>1. PICK q \in posts \ restored :
            /\ index' = index \cup {q}
            /\ vote' = [k \in Keys |-> IF k[2] = q THEN row[k] ELSE vote[k]]
    BY <1>8 DEF RestoreBatch, RestoredVote
  <2>2. rebuild # "none" /\ row' = row /\ Pending' = Pending
    BY <1>8 DEF RestoreBatch, mysqlVars, Pending
  <2>3. Pending = {}
    BY <1>0, <2>2 DEF RebuildIsAlone
  <2>4. CASE j[2] = q
    <3>1. vote'[j] = row'[j] /\ row'[j] \in VoteType
      BY <1>0, <2>1, <2>2, <2>4 DEF VoteTypes
    <3> QED
      BY <2>2, <2>3, <3>1, KeyDrained
  <2>5. CASE j[2] # q
    <3>1. vote'[j] = vote[j] /\ KeyInv(j)
      BY <2>1, <2>5 DEF KeysInv
    <3> QED
      BY <2>2, <3>1, KeySame
  <2> QED
    BY <2>4, <2>5
<1>9. ASSUME NEW a \in Apis, CountPosts(a) \/ CountTimes(a) \/ CountScores(a) \/
      ReadMarker(a) \/ MarkReady(a)
      \/ Stop(a) \/ EnsureVoteStateReadable(a) \/ StorePost(a) \/ StorePostFails(a) \/
      VoteRefused(a)
      PROVE  KeysInv'
  <2>1. UNCHANGED <<index, vote, row, unsent, broker>>
    BY <1>9 DEF CountPosts, CountTimes, CountScores, ReadMarker, MarkReady, Stop,
          EnsureVoteStateReadable, StorePost, StorePostFails, VoteRefused, Enter, Decide,
          Fault, Continue, Reply, vars, redisVars, mysqlVars, apiVars, rebuildVars
  <2> QED
    BY <2>1 DEF KeysInv, KeyInv, Pending, redisVars, mysqlVars
<1>10. CASE Acknowledge \/ CopiesComeAndGo \/ PrepareRebuild \/ VerifyIndex \/ MarkRebuilt
             \/ RebuildAborted
  <2>1. UNCHANGED <<index, vote, row, unsent, broker>>
    BY <1>10 DEF Acknowledge, Path!Acknowledge, CopiesComeAndGo, Path!CopiesComeAndGo,
          PrepareRebuild, VerifyIndex, MarkRebuilt, RebuildAborted, Fault, vars,
          redisVars, mysqlVars, apiVars, rebuildVars
  <2> QED
    BY <2>1 DEF KeysInv, KeyInv, Pending, redisVars, mysqlVars
<1>11. CASE UNCHANGED vars
  BY <1>11 DEF vars, redisVars, mysqlVars, apiVars, rebuildVars, KeysInv, KeyInv, Pending,
        redisVars, mysqlVars
<1> QED
  BY <1>1, <1>3, <1>4, <1>5, <1>6, <1>7, <1>8, <1>9, <1>10, <1>11 DEF Next, StartStep,
        Request, RebuildStep


-----------------------------------------------------------------------------
(* Votes: the score is the sum of the votes                                 *)

Voters(p, c) == {u \in Users : vote[<<u, p>>].dir = c}

LEMMA VotesForByVoters ==
    \A p \in Posts : VotesFor(p) = Cardinality(Voters(p, 1)) - Cardinality(Voters(p, -1))
  BY DEF VotesFor, Voters

LEMMA VotersFinite ==
    \A p, c : IsFiniteSet(Voters(p, c)) /\ Cardinality(Voters(p, c)) \in Nat
  BY CountsOfUsers DEF Voters

\* One user's change of mind moves that user alone.
LEMMA VotersChange ==
    ASSUME VoteTypes, NEW u \in Users, NEW p \in Posts, NEW d \in Directions, NEW n,
           vote' = [vote EXCEPT ![<<u, p>>] = [dir |-> d, ver |-> n]],
           d # vote[<<u, p>>].dir, NEW c \in Directions
    PROVE  Cardinality(Voters(p, c))' =
               IF d = c THEN Cardinality(Voters(p, c)) + 1
               ELSE IF vote[<<u, p>>].dir = c THEN Cardinality(Voters(p, c)) - 1
               ELSE Cardinality(Voters(p, c))
<1>1. <<u, p>> \in Keys /\ \A w \in Users : <<w, p>> \in Keys /\ (w # u => <<w, p>> # <<u, p>>)
  BY DEF Keys
<1>2. vote'[<<u, p>>].dir = d
  BY <1>1 DEF VoteTypes
<1>3. \A w \in Users : w # u => vote'[<<w, p>>] = vote[<<w, p>>]
  BY <1>1 DEF VoteTypes
<1>4. CASE d = c
  <2>1. u \notin Voters(p, c) /\ Voters(p, c)' = Voters(p, c) \cup {u}
    BY <1>2, <1>3, <1>4 DEF Voters
  <2> QED
    BY <1>4, <2>1, VotersFinite, FS_AddElement
<1>5. CASE d # c /\ vote[<<u, p>>].dir = c
  <2>1. u \in Voters(p, c) /\ Voters(p, c)' = Voters(p, c) \ {u}
    BY <1>2, <1>3, <1>5 DEF Voters
  <2>2. Cardinality(Voters(p, c) \ {u}) = Cardinality(Voters(p, c)) - 1
    BY <2>1, VotersFinite, FS_RemoveElement
  <2> QED
    BY <1>5, <2>1, <2>2
<1>6. CASE d # c /\ vote[<<u, p>>].dir # c
  <2>1. Voters(p, c)' = Voters(p, c)
    BY <1>2, <1>3, <1>6 DEF Voters
  <2> QED
    BY <1>6, <2>1
<1> QED
  BY <1>4, <1>5, <1>6

\* The sum moves by what the script adds to the score (vote.lua).
LEMMA VotesForChange ==
    ASSUME VoteTypes, NEW u \in Users, NEW p \in Posts, NEW d \in Directions, NEW n,
           vote' = [vote EXCEPT ![<<u, p>>] = [dir |-> d, ver |-> n]],
           d # vote[<<u, p>>].dir
    PROVE  VotesFor(p)' = VotesFor(p) + d - vote[<<u, p>>].dir
<1> DEFINE old == vote[<<u, p>>].dir
           plus == Cardinality(Voters(p, 1))
           minus == Cardinality(Voters(p, -1))
<1>1. old \in Directions
  BY DEF VoteTypes, VoteType, Keys
<1>2. plus \in Nat /\ minus \in Nat
  BY VotersFinite
<1>3. plus' = IF d = 1 THEN plus + 1 ELSE IF old = 1 THEN plus - 1 ELSE plus
  BY VotersChange DEF Directions
<1>4. minus' = IF d = -1 THEN minus + 1 ELSE IF old = -1 THEN minus - 1 ELSE minus
  BY VotersChange DEF Directions
<1>5. VotesFor(p) = plus - minus
  BY VotesForByVoters
<1>6. VotesFor(p)' = plus' - minus'
  BY DEF VotesFor, Voters
<1>7. d \in {-1, 0, 1} /\ old \in {-1, 0, 1} /\ d # old
  BY <1>1 DEF Directions
<1> HIDE DEF plus, minus, old
<1>8. plus' - minus' = plus - minus + d - old
  BY <1>2, <1>3, <1>4, <1>7
<1> QED
  BY <1>5, <1>6, <1>8 DEF old

LEMMA VotesForSame ==
    ASSUME NEW p \in Posts, \A u \in Users : vote'[<<u, p>>] = vote[<<u, p>>]
    PROVE  VotesFor(p)' = VotesFor(p)
  BY DEF VotesFor

LEMMA FreshVotes ==
    ASSUME NEW p \in Posts, NeverVotedFor(p)
    PROVE  VotesFor(p) = 0
<1>1. Voters(p, 1) = {} /\ Voters(p, -1) = {}
  BY DEF Voters, NeverVotedFor, NoRow
<1> QED
  BY <1>1, VotesForByVoters, FS_EmptySet

LEMMA ScoreStep ==
    /\ ScoreIsSumOfVotes /\ IndexedOnce /\ NewPostsAreFresh /\ ControlInv /\ ~LostReplies
    /\ [Next]_vars
    => ScoreIsSumOfVotes'
<1> SUFFICES ASSUME ScoreIsSumOfVotes, IndexedOnce, NewPostsAreFresh, ControlInv, ~LostReplies,
                    [Next]_vars
             PROVE  ScoreIsSumOfVotes'
  OBVIOUS
<1>0. IndexTypes /\ TaskTypes /\ VoteTypes /\ EventTypes /\ ScoreTypes /\ RebuildIsAlone /\ StoredFirst
  BY TypeParts DEF ControlInv
<1>1. ASSUME NEW a \in Apis, IndexPost(a) PROVE ScoreIsSumOfVotes'
  <2> DEFINE q == task[a].post
  <2> SUFFICES ASSUME NEW j \in index' PROVE score'[j] = VotesFor(j)'
    BY DEF ScoreIsSumOfVotes
  <2>1. /\ task[a].kind = "index" /\ index' = index \cup {q} /\ vote' = vote
        /\ score' = [score EXCEPT ![q] = 0]
    BY <1>1 DEF IndexPost, AddToIndex
  <2>2. q \in BeingIndexed /\ q \in Posts
    BY <1>0, <2>1 DEF BeingIndexed, TaskTypes, TaskType
  <2>3. j \in Posts /\ VotesFor(j)' = VotesFor(j)
    BY <1>0, <2>1, <2>2, VotesForSame DEF IndexTypes
  <2>4. CASE j = q
    <3>1. NeverVotedFor(q)
      BY <2>2 DEF NewPostsAreFresh, IndexedOnce
    <3>2. VotesFor(q) = 0
      BY <2>2, <3>1, FreshVotes
    <3>3. score'[q] = 0
      BY <1>0, <2>1, <2>2 DEF ScoreTypes
    <3> QED
      BY <2>3, <2>4, <3>2, <3>3
  <2>5. CASE j # q
    <3>1. score'[j] = score[j] /\ j \in index
      BY <1>0, <2>1, <2>3, <2>5 DEF ScoreTypes
    <3> QED
      BY <2>3, <3>1 DEF ScoreIsSumOfVotes
  <2> QED
    BY <2>4, <2>5
<1>2. ASSUME NEW a \in Apis, IndexPostFails(a) PROVE ScoreIsSumOfVotes'
  BY <1>2 DEF IndexPostFails, Fault, AddToIndex, Continue, Reply, MoreAttempts,
        ScoreIsSumOfVotes, VotesFor, redisVars
<1>3. ASSUME NEW a \in Apis, NEW k \in Keys, NEW d \in Directions, VoteForPost(a, k, d)
      PROVE ScoreIsSumOfVotes'
  <2> SUFFICES ASSUME NEW j \in index' PROVE score'[j] = VotesFor(j)'
    BY DEF ScoreIsSumOfVotes
  <2> DEFINE u == k[1]
             p == k[2]
  <2>1. k = <<u, p>> /\ u \in Users /\ p \in Posts
    BY DEF Keys
  <2>2. /\ index' = index /\ p \in index /\ d # vote[k].dir
        /\ score' = [score EXCEPT ![p] = @ + d - vote[k].dir]
    BY <1>3 DEF VoteForPost, Path!Cast, Indexed
  <2>3. vote' = [vote EXCEPT ![k] = [dir |-> d, ver |-> vote[k].ver + 1]]
    BY <1>3 DEF VoteForPost, Path!Cast
  <2>4. CASE j = p
    <3>1. VotesFor(p)' = VotesFor(p) + d - vote[k].dir
      BY <1>0, <2>1, <2>2, <2>3, VotesForChange
    <3>2. score'[p] = score[p] + d - vote[k].dir
      BY <1>0, <2>1, <2>2 DEF ScoreTypes
    <3> QED
      BY <2>2, <2>4, <3>1, <3>2 DEF ScoreIsSumOfVotes
  <2>5. CASE j # p
    <3>1. j \in Posts
      BY <1>0, <2>2 DEF IndexTypes
    <3>2. \A w \in Users : <<w, j>> \in Keys /\ <<w, j>> # k
      BY <2>1, <2>5, <3>1 DEF Keys
    <3>3. \A w \in Users : vote'[<<w, j>>] = vote[<<w, j>>]
      BY <1>0, <2>3, <3>2 DEF VoteTypes
    <3>4. VotesFor(j)' = VotesFor(j)
      BY <3>1, <3>3, VotesForSame
    <3>5. score'[j] = score[j]
      BY <1>0, <2>1, <2>2, <2>5, <3>1 DEF ScoreTypes
    <3> QED
      BY <2>2, <3>4, <3>5 DEF ScoreIsSumOfVotes
  <2> QED
    BY <2>4, <2>5
<1>4. CASE LoseRedis
  <2>1. index' = {}
    BY <1>4 DEF LoseRedis
  <2> QED
    BY <2>1 DEF ScoreIsSumOfVotes
<1>5. CASE ClearIndex
  <2>1. index' = {}
    BY <1>5 DEF ClearIndex
  <2> QED
    BY <2>1 DEF ScoreIsSumOfVotes
<1>6. CASE RestoreBatch
  <2> SUFFICES ASSUME NEW j \in index' PROVE score'[j] = VotesFor(j)'
    BY DEF ScoreIsSumOfVotes
  <2>1. PICK q \in posts \ restored :
            /\ index' = index \cup {q} /\ score' = [score EXCEPT ![q] = NetVote(q)]
            /\ vote' = [k \in Keys |-> IF k[2] = q THEN row[k] ELSE vote[k]]
    BY <1>6 DEF RestoreBatch, RestoredVote
  <2>2. q \in Posts /\ j \in Posts
    BY <1>0, <2>1 DEF TaskTypes, IndexTypes
  <2>3. \A u \in Users : <<u, j>> \in Keys /\ <<u, j>>[2] = j
    BY <2>2 DEF Keys
  <2>4. CASE j = q
    <3>1. \A u \in Users : vote'[<<u, q>>] = row[<<u, q>>]
      BY <2>1, <2>3, <2>4
    <3>2. VotesFor(q)' = NetVote(q)
      BY <3>1 DEF VotesFor, NetVote
    <3>3. score'[q] = NetVote(q)
      BY <1>0, <2>1, <2>2 DEF ScoreTypes
    <3> QED
      BY <2>4, <3>2, <3>3
  <2>5. CASE j # q
    <3>1. \A u \in Users : vote'[<<u, j>>] = vote[<<u, j>>]
      BY <2>1, <2>3, <2>5
    <3>2. VotesFor(j)' = VotesFor(j)
      BY <2>2, <3>1, VotesForSame
    <3>3. score'[j] = score[j] /\ j \in index
      BY <1>0, <2>1, <2>2, <2>5 DEF ScoreTypes
    <3> QED
      BY <3>2, <3>3 DEF ScoreIsSumOfVotes
  <2> QED
    BY <2>4, <2>5
<1>7. ASSUME NEW a \in Apis, CountPosts(a) \/ CountTimes(a) \/ CountScores(a) \/
      ReadMarker(a) \/ MarkReady(a)
      \/ Stop(a) \/ EnsureVoteStateReadable(a) \/ StorePost(a) \/ StorePostFails(a) \/
      VoteRefused(a)
      PROVE  ScoreIsSumOfVotes'
  <2>1. UNCHANGED <<index, vote, score>>
    BY <1>7 DEF CountPosts, CountTimes, CountScores, ReadMarker, MarkReady, Stop,
          EnsureVoteStateReadable, StorePost, StorePostFails, VoteRefused, Enter, Decide,
          Fault, Continue, Reply, vars, redisVars, mysqlVars, apiVars, rebuildVars
  <2> QED
    BY <2>1 DEF ScoreIsSumOfVotes, VotesFor, redisVars
<1>8. CASE Relay \/ Acknowledge \/ Persist \/ CopiesComeAndGo \/ PrepareRebuild \/
      VerifyIndex \/ MarkRebuilt \/
      RebuildAborted
  <2>1. UNCHANGED <<index, vote, score>>
    BY <1>8 DEF Relay, Path!Relay, Acknowledge, Path!Acknowledge, Persist, Path!Persist,
       CopiesComeAndGo, Path!CopiesComeAndGo, PrepareRebuild, VerifyIndex, MarkRebuilt,
       RebuildAborted, Fault, vars, redisVars, mysqlVars, apiVars, rebuildVars
  <2> QED
    BY <2>1 DEF ScoreIsSumOfVotes, VotesFor, redisVars
<1>9. CASE UNCHANGED vars
  BY <1>9 DEF vars, redisVars, mysqlVars, apiVars, rebuildVars, ScoreIsSumOfVotes, VotesFor,
        redisVars
<1> QED
  BY <1>1, <1>2, <1>3, <1>4, <1>5, <1>6, <1>7, <1>8, <1>9 DEF Next, StartStep, Request,
        RebuildStep


-----------------------------------------------------------------------------
(* The invariant and what follows from it                                   *)

LEMMA VotesInit == Init => VotesInv /\ ScoreInv
<1> SUFFICES ASSUME Init PROVE VotesInv /\ ScoreInv
  OBVIOUS
<1>1. index = {} /\ posts = {} /\ unsent = {} /\ broker = {}
  BY DEF Init
<1>2. KeysInv /\ ScoreIsSumOfVotes /\ IndexedOnce
  BY <1>1 DEF KeysInv, ScoreIsSumOfVotes, IndexedOnce
<1>3. NewPostsAreFresh
  BY DEF Init, NewPostsAreFresh, NeverVotedFor, Pending, Keys
<1> QED
  BY <1>2, <1>3, KeysParts DEF VotesInv, ScoreInv

\* What is calm was calm before: losses are only counted up.
LEMMA CalmBefore == TypeOK /\ [Next]_vars /\ Calm' => Calm
<1> SUFFICES ASSUME TypeOK, [Next]_vars, Calm', LostReplies PROVE losses = 0
  BY DEF Calm
<1>0. FaultTypes /\ losses' = 0
  BY TypeParts DEF Calm
<1>1. CASE LoseRedis
  BY <1>0, <1>1, BoundsAssumption DEF LoseRedis, FaultTypes
<1>2. ASSUME NEW a \in Apis, StartStep(a) \/ Stop(a) \/ Request(a) PROVE losses' = losses
  BY <1>2 DEF StartStep, CountPosts, CountTimes, CountScores, ReadMarker, MarkReady, Stop,
     Request, EnsureVoteStateReadable, StorePost, StorePostFails, IndexPost,
     IndexPostFails, VoteRefused, VoteForPost
<1>3. CASE Relay \/ Acknowledge \/ Persist \/ CopiesComeAndGo \/ PrepareRebuild \/
      RebuildStep \/ RebuildAborted \/ UNCHANGED vars
  BY <1>0, <1>3 DEF Relay, Acknowledge, Persist, CopiesComeAndGo, PrepareRebuild,
     RebuildStep, ClearIndex, RestoreBatch, VerifyIndex, MarkRebuilt, RebuildAborted, vars
<1> QED
  BY <1>0, <1>1, <1>2, <1>3 DEF Next

LEMMA VotesStep ==
    VotesInv /\ ControlInv /\ (~LostReplies => ScoreInv) /\ Calm' /\ [Next]_vars => VotesInv'
<1> SUFFICES ASSUME VotesInv, ControlInv, ~LostReplies => ScoreInv, Calm', [Next]_vars
             PROVE  VotesInv'
  OBVIOUS
<1>1. NewPostsAreFresh /\ KeysInv /\ (~LostReplies => IndexedOnce)
  BY KeysParts DEF VotesInv, ScoreInv
<1>2. NewPostsAreFresh' /\ KeysInv'
  BY <1>1, FreshStep, KeysStep
<1>3. VersionsNeverReused' /\ SameVersionSameVote' /\ MissingIsPending'
  BY <1>2 DEF KeysInv, KeyInv, VersionsNeverReused, SameVersionSameVote, MissingIsPending,
     Pending
<1> QED
  BY <1>2, <1>3 DEF VotesInv

\* The inductive invariant.
THEOREM Invariance == Spec => []IInv
<1>1. Init => IInv
  BY ControlInit, VotesInit DEF IInv
<1>2. IInv /\ [Next]_vars => IInv'
  <2> SUFFICES ASSUME IInv, [Next]_vars PROVE IInv'
    OBVIOUS
  <2>1. ControlInv /\ ControlInv'
    BY ControlStep DEF IInv
  <2>2. Calm' => VotesInv'
    BY <2>1, CalmBefore, VotesStep DEF IInv, ControlInv
  <2>3. ASSUME ~LostReplies PROVE ScoreInv'
    <3>1. ScoreInv /\ VotesInv
      BY <2>3 DEF IInv, Calm
    <3> QED
      BY <2>1, <2>3, <3>1, OnceStep, ScoreStep DEF ScoreInv, VotesInv
  <2> QED
    BY <2>1, <2>2, <2>3 DEF IInv
<1> QED
  BY <1>1, <1>2, PTL DEF Spec

\* The score of an indexed post is the sum of its votes, whatever was created, voted
\* for, lost and restored, as long as no failed write of an index has reached Redis.
THEOREM ScoreCorrect == ASSUME ~LostReplies PROVE Spec => []ScoreIsSumOfVotes
<1>1. IInv => ScoreIsSumOfVotes
  BY DEF IInv, ScoreInv
<1> QED
  BY <1>1, Invariance, PTL

\* No version is given twice (README.md, the version tombstones), unless a reply is
\* lost and Redis loses its data as well.
THEOREM VersionsCorrect == Spec => [](Calm => VersionsNeverReused)
<1>1. IInv => (Calm => VersionsNeverReused)
  BY DEF IInv, VotesInv
<1> QED
  BY <1>1, Invariance, PTL

\* With nothing on its way MySQL has the very votes that Redis shows, under the same
\* condition.
THEOREM DrainedCorrect == Spec => [](Calm => DrainedMeansEqual)
<1>1. IInv => (Calm => DrainedMeansEqual)
  BY DEF IInv, VotesInv, MissingIsPending, DrainedMeansEqual, Pending
<1> QED
  BY <1>1, Invariance, PTL
=============================================================================
