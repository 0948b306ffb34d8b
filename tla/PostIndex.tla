------------------------------ MODULE PostIndex ------------------------------
(***************************************************************************)
(* The indexes of posts and votes in Redis over their whole life: posts    *)
(* are created in MySQL first and then in Redis, votes change Redis first  *)
(* and reach MySQL later, Redis may lose everything, an instance checks    *)
(* the state before it serves, and an operator rebuilds Redis from MySQL.  *)
(*                                                                         *)
(* The way of an event from the outbox to MySQL is the subject of          *)
(* VotePipeline; here it is VotePath, which that module implements: the    *)
(* events that only the outbox has, those in RabbitMQ, and what is left in *)
(* either of events that are further.  Nothing of that moves without a     *)
(* running instance, whose workers are started after the check             *)
(* (main.go:74-106).                                                       *)
(***************************************************************************)
EXTENDS VoteMySQL, FiniteSets

CONSTANTS
    Users, Posts,
    Apis,            \* the instances; each serves one request at a time
    NoPost,          \* a request that has no post yet
    MaxAttempts,     \* attempts to write the indexes of a new post (3)
    LostReplies,     \* whether a failed write may have reached Redis
    MaxVersion,      \* bound: changes of one vote
    MaxFaults,       \* bound: failed writes and aborted rebuilds
    MaxLosses        \* bound: how often Redis loses its data

ASSUME PostsAssumption == NoPost \notin Posts /\ IsFiniteSet(Posts)

ASSUME UsersAssumption == IsFiniteSet(Users)

ASSUME BoundsAssumption ==
    /\ MaxAttempts \in Nat \ {0} /\ LostReplies \in BOOLEAN
    /\ MaxVersion \in Nat /\ MaxFaults \in Nat /\ MaxLosses \in Nat

VARIABLES
    marker,          \* Redis: state:post-vote-index
    index,           \* Redis: the posts in post:time and post:score
    score,           \* Redis: post:score less the creation time, in votes
    vote,            \* Redis: direction and version of each vote
    unsent,          \* Redis: the events that only the outbox has
    unacked,         \* Redis: whether the outbox has entries of other events
    broker,          \* RabbitMQ: the events that MySQL has not applied
    copies,          \* RabbitMQ: whether there are copies of those it has
    posts, row,      \* MySQL: post and post_vote
    phase, seen,     \* per instance: how far its start is, the posts it counted
    task,            \* per instance: the request it serves
    rebuild,         \* how far convo_rebuild_redis is
    restored,        \* the posts it has restored
    faults, losses

outboxVars == <<unsent, unacked>>
redisVars == <<marker, index, score, vote, outboxVars>>
queueVars == <<broker, copies>>
mysqlVars == <<posts, row>>
apiVars == <<phase, seen, task>>
rebuildVars == <<rebuild, restored>>
vars == <<redisVars, queueVars, mysqlVars, apiVars, rebuildVars, faults, losses>>

Path == INSTANCE VotePath

Keys == Users \X Posts
VoteType == [dir : Directions, ver : 0..MaxVersion]
EventType == [key : Keys, dir : Directions, ver : 1..MaxVersion]
Unseen == [posts |-> {}, index |-> {}]
NoTask == [kind |-> "none", post |-> NoPost, tries |-> 0]
TaskType ==
    {t \in [kind : {"none", "checked", "index"}, post : Posts \cup {NoPost},
            tries : 0..MaxAttempts] : t.kind = "index" => t.post \in Posts}

TypeOK ==
    /\ marker \in {"missing", "ready", "rebuilding"}
    /\ index \subseteq Posts /\ score \in [Posts -> Int]
    /\ vote \in [Keys -> VoteType]
    /\ unsent \subseteq EventType /\ unacked \in BOOLEAN
    /\ broker \subseteq EventType /\ copies \in BOOLEAN
    /\ posts \subseteq Posts /\ row \in [Keys -> VoteType]
    /\ phase \in [Apis -> {"stopped", "counted", "timed", "compared", "marking", "running"}]
    /\ seen \in [Apis -> [posts : SUBSET Posts, index : SUBSET Posts]]
    /\ task \in [Apis -> TaskType]
    /\ rebuild \in {"none", "clear", "restore", "mark"} /\ restored \subseteq Posts
    /\ faults \in 0..MaxFaults /\ losses \in 0..MaxLosses

Fault == faults < MaxFaults /\ faults' = faults + 1

Init ==
    /\ marker = "missing" /\ index = {} /\ score = [p \in Posts |-> 0]
    /\ vote = [k \in Keys |-> NoRow] /\ unsent = {} /\ unacked = FALSE
    /\ broker = {} /\ copies = FALSE
    /\ posts = {} /\ row = [k \in Keys |-> NoRow]
    /\ phase = [a \in Apis |-> "stopped"]
    /\ seen = [a \in Apis |-> Unseen]
    /\ task = [a \in Apis |-> NoTask]
    /\ rebuild = "none" /\ restored = {}
    /\ faults = 0 /\ losses = 0

-----------------------------------------------------------------------------
(* main.go, logic/recovery.go: an instance starts                           *)

Enter(a, p) == phase' = [phase EXCEPT ![a] = p]

\* The check is over and its numbers are forgotten.
Decide(a, p) == Enter(a, p) /\ seen' = [seen EXCEPT ![a] = Unseen]

SameCount(n) == Cardinality(n.posts) = Cardinality(n.index)

\* mysql.CountActivePosts; the operator starts no instance during a rebuild.
CountPosts(a) ==
    /\ phase[a] = "stopped" /\ rebuild = "none" /\ Enter(a, "counted")
    /\ seen' = [seen EXCEPT ![a].posts = posts]
    /\ UNCHANGED <<redisVars, queueVars, mysqlVars, task, rebuildVars, faults, losses>>

\* redis.CountIndexedPosts, ZCARD of post:time.
CountTimes(a) ==
    /\ phase[a] = "counted" /\ Enter(a, "timed")
    /\ seen' = [seen EXCEPT ![a].index = index]
    /\ UNCHANGED <<redisVars, queueVars, mysqlVars, task, rebuildVars, faults, losses>>

\* ZCARD of post:score; two numbers that differ are an error, which refuses the start.
CountScores(a) ==
    /\ phase[a] = "timed"
    /\ IF Cardinality(index) = Cardinality(seen[a].index)
       THEN Enter(a, "compared") /\ UNCHANGED seen
       ELSE Decide(a, "stopped")
    /\ UNCHANGED <<redisVars, queueVars, mysqlVars, task, rebuildVars, faults, losses>>

\* A check that never sets a marker of its own.
StrictVerdict(n) == IF SameCount(n) /\ marker = "ready" THEN "running" ELSE "stopped"
\* A check that compares the numbers on a first start only.
MarkerFirst(n) ==
    CASE SameCount(n) /\ marker = "missing" -> "marking"
      [] marker = "ready"                   -> "running"
      [] OTHER                              -> "stopped"
\* A check that trusts the numbers once a marker is set, whatever it says.
AnyMarker(n) ==
    CASE SameCount(n) /\ marker = "missing" -> "marking"
      [] SameCount(n) /\ marker # "missing" -> "running"
      [] OTHER                              -> "stopped"
\* What EnsureRedisStateReady makes of the marker and the numbers.
Verdict(n) ==
    CASE SameCount(n) /\ marker = "missing" -> "marking"
      [] SameCount(n) /\ marker = "ready"   -> "running"
      [] OTHER                              -> "stopped"

\* redis.GetVoteStateStatus; a refused instance exits and may be started again.
ReadMarker(a) ==
    /\ phase[a] = "compared"
    /\ IF Verdict(seen[a]) = "marking"
       THEN Enter(a, "marking") /\ UNCHANGED seen
       ELSE Decide(a, Verdict(seen[a]))
    /\ UNCHANGED <<redisVars, queueVars, mysqlVars, task, rebuildVars, faults, losses>>

\* redis.MarkVoteStateReady
MarkReady(a) ==
    /\ phase[a] = "marking" /\ Decide(a, "running")
    /\ marker' = "ready"
    /\ UNCHANGED <<index, score, vote, outboxVars, queueVars, mysqlVars, task, rebuildVars, faults, losses>>

\* A running instance is shut down or crashes, a starting one crashes; the request
\* in progress is cut off.
Stop(a) ==
    /\ phase[a] # "stopped" /\ Decide(a, "stopped")
    /\ IF phase[a] = "running" THEN UNCHANGED faults ELSE Fault
    /\ task' = [task EXCEPT ![a] = NoTask]
    /\ UNCHANGED <<redisVars, queueVars, mysqlVars, rebuildVars, losses>>

-----------------------------------------------------------------------------
(* logic/post.go, logic/vote.go: requests                                   *)

Continue(a, kind, p, n) == task' = [task EXCEPT ![a] = [kind |-> kind, post |-> p, tries |-> n]]
Reply(a) == task' = [task EXCEPT ![a] = NoTask]

\* redis.EnsureVoteStateReadable, with which CreatePost and VoteForPost begin;
\* a refused request changes nothing.
EnsureVoteStateReadable(a) ==
    /\ phase[a] = "running" /\ task[a] = NoTask /\ marker = "ready"
    /\ Continue(a, "checked", NoPost, 0)
    /\ UNCHANGED <<redisVars, queueVars, mysqlVars, phase, seen, rebuildVars, faults, losses>>

\* mysql.CreatePost under a new id.
StorePost(a) ==
    /\ task[a].kind = "checked"
    /\ \E p \in Posts \ posts : posts' = posts \cup {p} /\ Continue(a, "index", p, 1)
    /\ UNCHANGED <<redisVars, queueVars, row, phase, seen, rebuildVars, faults, losses>>

\* Going on although MySQL has reported an error.
StorePostErrorIgnored(a) ==
    /\ task[a].kind = "checked" /\ Fault
    /\ \E p \in Posts \ posts : Continue(a, "index", p, 1)
    /\ UNCHANGED <<redisVars, queueVars, posts, row, phase, seen, rebuildVars, losses>>

\* An error of MySQL, before or after the insert; the request fails.
StorePostFails(a) ==
    /\ task[a].kind = "checked" /\ Fault
    /\ \/ UNCHANGED posts
       \/ \E p \in Posts \ posts : posts' = posts \cup {p}
    /\ Reply(a)
    /\ UNCHANGED <<redisVars, queueVars, row, phase, seen, rebuildVars, losses>>

\* redis.CreatePost: MULTI, two ZADDs and a SADD, whatever was there before.
AddToIndex(p) ==
    /\ index' = index \cup {p}
    /\ score' = [score EXCEPT ![p] = 0]

IndexPost(a) ==
    /\ task[a].kind = "index"
    /\ AddToIndex(task[a].post)
    /\ Reply(a)
    /\ UNCHANGED <<marker, vote, outboxVars, queueVars, mysqlVars, phase, seen, rebuildVars, faults, losses>>

MoreAttempts(n) == n < MaxAttempts

\* The attempt fails; when the reply was lost Redis has executed it.  After the
\* last attempt the post stays in MySQL alone.
IndexPostFails(a) ==
    /\ task[a].kind = "index" /\ Fault
    /\ \/ UNCHANGED <<index, score>>
       \/ LostReplies /\ AddToIndex(task[a].post)
    /\ IF MoreAttempts(task[a].tries)
       THEN Continue(a, "index", task[a].post, task[a].tries + 1)
       ELSE Reply(a)
    /\ UNCHANGED <<marker, vote, outboxVars, queueVars, mysqlVars, phase, seen, rebuildVars, losses>>

\* The script answers 3 when either index lacks the post.
Indexed(p) == p \in index

\* vote.lua, an accepted change; other replies leave Redis as it is.
VoteForPost(a, k, d) ==
    /\ task[a].kind = "checked"
    /\ Indexed(k[2]) /\ vote[k].ver < MaxVersion
    /\ score' = [score EXCEPT ![k[2]] = @ + d - vote[k].dir]
    /\ Path!Cast(k, d)
    /\ Reply(a)
    /\ UNCHANGED <<marker, index, posts, phase, seen, rebuildVars, faults, losses>>

\* The request ends without a change.
VoteRefused(a) ==
    /\ task[a].kind = "checked" /\ Reply(a)
    /\ UNCHANGED <<redisVars, queueVars, mysqlVars, phase, seen, rebuildVars, faults, losses>>

-----------------------------------------------------------------------------
(* The workers of the running instances (VotePipeline)                      *)

Serving == \E a \in Apis : phase[a] = "running"

\* An instance that stops between these two leaves the entry of an event that
\* RabbitMQ has.
Relay ==
    /\ Serving /\ Path!Relay
    /\ UNCHANGED <<marker, index, score, posts, apiVars, rebuildVars, faults, losses>>

Acknowledge ==
    /\ Serving /\ Path!Acknowledge
    /\ UNCHANGED <<marker, index, score, posts, apiVars, rebuildVars, faults, losses>>

Persist ==
    /\ Serving /\ Path!Persist
    /\ UNCHANGED <<marker, index, score, posts, apiVars, rebuildVars, faults, losses>>

\* Entries that were not acknowledged are published again; deliveries that were not
\* acknowledged come again, and are.
CopiesComeAndGo ==
    /\ Serving /\ Path!CopiesComeAndGo
    /\ UNCHANGED <<marker, index, score, posts, apiVars, rebuildVars, faults, losses>>

\* Redis comes back empty (FLUSHDB, a lost volume).
LoseRedis ==
    /\ losses < MaxLosses /\ losses' = losses + 1
    /\ marker' = "missing" /\ index' = {} /\ unsent' = {} /\ unacked' = FALSE
    /\ score' = [p \in Posts |-> 0] /\ vote' = [k \in Keys |-> NoRow]
    /\ UNCHANGED <<queueVars, mysqlVars, apiVars, rebuildVars, faults>>

-----------------------------------------------------------------------------
(* cmd/rebuild-redis, logic/recovery.go, dao/redis/recovery.go              *)

\* What the start check refuses until somebody has rebuilt.
Damaged == posts # index \/ marker = "rebuilding"

\* A rebuild that does not look at the outbox.
OutboxIgnored == TRUE
\* XLEN of the outbox is zero, or the command refuses to start.  An entry counts until
\* it is acknowledged, even if its event has long been published and applied.
OutboxEmpty == unsent = {} /\ ~unacked
\* Nothing ready, waiting or unacknowledged in any queue, whatever it is a copy of.
BrokerDrained == broker = {} /\ ~copies

\* Told so by the check, the operator stops every instance, finds RabbitMQ drained
\* and confirms; PrepareVoteStateRebuild sets the marker.
PrepareRebuild ==
    /\ rebuild = "none" /\ Damaged /\ BrokerDrained /\ OutboxEmpty
    /\ phase' = [a \in Apis |-> "stopped"] /\ seen' = [a \in Apis |-> Unseen]
    /\ task' = [a \in Apis |-> NoTask]
    /\ marker' = "rebuilding" /\ rebuild' = "clear"
    /\ UNCHANGED <<index, score, vote, outboxVars, queueVars, mysqlVars, restored, faults, losses>>

\* The rest of PrepareVoteStateRebuild: the indexes, the votes and their versions.
ClearIndex ==
    /\ rebuild = "clear" /\ rebuild' = "restore"
    /\ index' = {} /\ score' = [p \in Posts |-> 0] /\ vote' = [k \in Keys |-> NoRow]
    /\ UNCHANGED <<marker, outboxVars, queueVars, mysqlVars, apiVars, restored, faults, losses>>

\* Restoring a withdrawn vote like one that was never cast.
WithoutTombstones(r) == IF r.dir = 0 THEN NoRow ELSE r
\* The version of a withdrawn vote is restored too.
RestoredVote(r) == r

\* A sum of the votes in favour only.
UpVotes(p) == Cardinality({u \in Users : row[<<u, p>>].dir = 1})
\* SUM(direction) over the rows of a post.
NetVote(p) ==
    Cardinality({u \in Users : row[<<u, p>>].dir = 1})
    - Cardinality({u \in Users : row[<<u, p>>].dir = -1})

\* RestoreVoteStateBatch, for a batch of one post.
RestoreBatch ==
    /\ rebuild = "restore"
    /\ \E p \in posts \ restored :
          /\ restored' = restored \cup {p} /\ index' = index \cup {p}
          /\ score' = [score EXCEPT ![p] = NetVote(p)]
          /\ vote' = [k \in Keys |-> IF k[2] = p THEN RestoredVote(row[k]) ELSE vote[k]]
    /\ UNCHANGED <<marker, outboxVars, queueVars, mysqlVars, apiVars, rebuild, faults, losses>>

\* A rebuild that does not look at what it has done.
NothingCounted == TRUE
\* The two numbers the rebuild compares at its end.
AllIndexed == Cardinality(index) = Cardinality(restored)

\* No post is left: the index must have as many as were restored.
VerifyIndex ==
    /\ rebuild = "restore" /\ posts \subseteq restored
    /\ rebuild' = IF AllIndexed THEN "mark" ELSE "none"
    /\ restored' = {}
    /\ UNCHANGED <<redisVars, queueVars, mysqlVars, apiVars, faults, losses>>

MarkRebuilt ==
    /\ rebuild = "mark" /\ rebuild' = "none"
    /\ marker' = "ready"
    /\ UNCHANGED <<index, score, vote, outboxVars, queueVars, mysqlVars, apiVars, restored, faults, losses>>

\* An error, or the command is killed; the marker stays as it is.
RebuildAborted ==
    /\ rebuild # "none" /\ Fault /\ rebuild' = "none" /\ restored' = {}
    /\ UNCHANGED <<redisVars, queueVars, mysqlVars, apiVars, losses>>

-----------------------------------------------------------------------------

StartStep(a) ==
    CountPosts(a) \/ CountTimes(a) \/ CountScores(a) \/ ReadMarker(a) \/ MarkReady(a)

Request(a) ==
    \/ EnsureVoteStateReadable(a) \/ StorePost(a) \/ StorePostFails(a)
    \/ IndexPost(a) \/ IndexPostFails(a) \/ VoteRefused(a)
    \/ \E k \in Keys, d \in Directions : VoteForPost(a, k, d)

RebuildStep == ClearIndex \/ RestoreBatch \/ VerifyIndex \/ MarkRebuilt

Next ==
    \/ \E a \in Apis : StartStep(a) \/ Stop(a) \/ Request(a)
    \/ Relay \/ Acknowledge \/ Persist \/ CopiesComeAndGo \/ LoseRedis
    \/ PrepareRebuild \/ RebuildStep \/ RebuildAborted

Spec == Init /\ [][Next]_vars

\* Instances are started again, the workers of a running one work, and the
\* operator rebuilds as long as the check refuses to start, if he can.
Fairness ==
    /\ \A a \in Apis : WF_vars(StartStep(a))
    /\ WF_vars(Relay) /\ WF_vars(Acknowledge) /\ WF_vars(Persist)
    /\ SF_vars(PrepareRebuild) /\ WF_vars(RebuildStep)

FairSpec == Spec /\ Fairness

-----------------------------------------------------------------------------
(* Safety                                                                   *)

\* post:score less the creation time is 432 times the sum of the directions
\* (docs/PROJECT_REFACTOR_DESIGN.md, 14.3), for posts that were created, voted
\* for, lost and restored in any order.
VotesFor(p) ==
    Cardinality({u \in Users : vote[<<u, p>>].dir = 1})
    - Cardinality({u \in Users : vote[<<u, p>>].dir = -1})
ScoreIsSumOfVotes == \A p \in index : score[p] = VotesFor(p)

\* A new vote is never taken for an old one (README.md, the version tombstones):
\* the version of a vote in a served index is at least that of MySQL and of every
\* event on its way there, in spite of losses and rebuilds.
VersionsNeverReused ==
    \A k \in Keys : k[2] \in index =>
        /\ row[k].ver <= vote[k].ver
        /\ \A e \in unsent \cup broker : e.key = k => e.ver <= vote[k].ver

\* A started service with nothing on its way has in MySQL the very votes that it
\* shows, also when it started from a rebuilt Redis.
DrainedMeansEqual ==
    unsent = {} /\ broker = {} => \A k \in Keys : k[2] \in index => row[k] = vote[k]

\* While Redis is cleared and refilled (logic/recovery.go:59-98) nobody serves it,
\* and after an aborted rebuild nobody does until one is completed.
NobodyServesARebuild == marker = "rebuilding" => ~Serving

\* Every indexed post is in MySQL, whatever fails while it is created or restored.
\* The lists rely on it: they pair the posts that MySQL finds with the vote counts
\* of the ids that Redis has by position (logic/post.go:215-229), so that one id
\* without a post would give every later post the votes of its neighbour.
IndexedPostsAreStored == index \subseteq posts

\* EnsureRedisStateReady keeps the API from serving a partial post index
\* (logic/recovery.go:18): whoever starts finds in it every post that MySQL had when
\* its check began, but for those that another instance is about to enter.
BeingIndexed == {task[a].post : a \in {b \in Apis : task[b].kind = "index"}}
StartedMeansIndexed ==
    [][ \A a \in Apis : phase[a] # "running" /\ phase'[a] = "running" =>
            seen[a].posts \subseteq index \cup BeingIndexed ]_vars

\* The check compares two numbers that it reads one after the other
\* (logic/recovery.go:22-26).  That is enough when no new post was indexed between
\* them and Redis has lost nothing: equal numbers then mean equal sets, and the
\* index still has every counted post when the service starts, whatever other
\* instances have done since.
StartIsExact ==
    [][ \A a \in Apis :
            /\ phase[a] # "running" /\ phase'[a] = "running"
            /\ seen[a].index \subseteq seen[a].posts /\ losses = 0
            => seen[a].posts \subseteq index ]_vars

\* A rebuild that has passed its verification, which compares two numbers as well
\* (logic/recovery.go:88-94), is exact: Redis has every post with the votes and the
\* score of MySQL, whatever it lost and wherever an earlier rebuild was cut off.
\* Only a loss after the verification is not noticed, and leaves nothing at all.
LikeMySQL(p) == score[p] = NetVote(p) /\ \A u \in Users : vote[<<u, p>>] = row[<<u, p>>]
RebuildIsExact ==
    rebuild = "mark" =>
        /\ index = posts \/ (index = {} /\ marker = "missing")
        /\ \A p \in index : LikeMySQL(p)

-----------------------------------------------------------------------------
(* The inductive invariant of the proofs                                    *)

AllStopped == \A a \in Apis : phase[a] = "stopped"
Pending == unsent \cup broker

\* While the command rebuilds, nothing runs and nothing is on its way.
RebuildIsAlone == rebuild # "none" => AllStopped /\ Pending = {}

\* Only a running instance serves, and none is about to run, or to set the marker,
\* while it says that Redis is being rebuilt.
RunningServes == \A a \in Apis : task[a].kind # "none" => phase[a] = "running"
NobodyTrustsARebuild ==
    marker = "rebuilding" => \A a \in Apis : phase[a] \notin {"marking", "running"}

\* What is restored, or about to be indexed, is in MySQL; a new post is indexed by
\* the request that stored it alone.
StoredFirst ==
    /\ index \subseteq posts /\ restored \subseteq posts /\ BeingIndexed \subseteq posts
    /\ \A a, b \in Apis :
          task[a].kind = "index" /\ task[b].kind = "index" /\ task[a].post = task[b].post => a = b

\* While the posts are restored the index has none but those, each like in MySQL.
RestoredIsExact ==
    /\ rebuild = "restore" => index \subseteq restored
    /\ rebuild = "restore" => \A p \in index : LikeMySQL(p)

\* What a check has seen of the index is still there unless Redis has lost it, and
\* an instance that is about to set the marker has seen equal numbers.
CheckIsSound ==
    \A a \in Apis :
        /\ phase[a] \in {"timed", "compared", "marking"} /\ losses = 0 =>
              seen[a].index \subseteq index
        /\ phase[a] = "marking" => SameCount(seen[a])

\* A failed index write that has reached Redis lets a post be voted for while it is
\* being indexed.  That is harmless for its votes unless Redis then loses its data
\* before the next attempt.
Calm == LostReplies => losses = 0

\* Until a new post is in the index nobody can have voted for it.
NeverVotedFor(p) ==
    /\ \A u \in Users : vote[<<u, p>>] = NoRow /\ row[<<u, p>>] = NoRow
    /\ \A e \in Pending : e.key[2] # p
NewPostsAreFresh ==
    \A p \in Posts : p \notin posts \/ p \in BeingIndexed \ index => NeverVotedFor(p)

\* Without a lost reply nobody enters a post into the index twice.
IndexedOnce == BeingIndexed \cap index = {}

\* A vote in the index, its row and its events on their way agree on a version, and
\* whatever MySQL does not have of it is on its way.
SameVersionSameVote ==
    \A k \in Keys : k[2] \in index =>
        /\ row[k].ver = vote[k].ver => row[k] = vote[k]
        /\ \A e \in Pending : e.key = k /\ e.ver = vote[k].ver => e.dir = vote[k].dir
MissingIsPending ==
    \A k \in Keys : k[2] \in index /\ row[k] # vote[k] =>
        \E e \in Pending : e.key = k /\ e.ver = vote[k].ver

ControlInv ==
    /\ TypeOK /\ RebuildIsAlone /\ RunningServes /\ NobodyTrustsARebuild /\ StoredFirst
    /\ RestoredIsExact /\ RebuildIsExact /\ CheckIsSound
VotesInv ==
    /\ NewPostsAreFresh /\ VersionsNeverReused /\ SameVersionSameVote /\ MissingIsPending
ScoreInv == IndexedOnce /\ ScoreIsSumOfVotes
IInv == ControlInv /\ (Calm => VotesInv) /\ (~LostReplies => ScoreInv)

-----------------------------------------------------------------------------
(* Liveness                                                                 *)

\* Whatever has happened to the index, a rebuild brings the service back, provided
\* that the last instance to stop has left nothing in the outbox, not even an entry
\* that it had published and not acknowledged (worker/vote_relay.go:82), and nothing
\* in RabbitMQ, not even a copy of an event that MySQL has.
DrainedRecovers == (AllStopped /\ OutboxEmpty /\ BrokerDrained) ~> Serving

\* Without the proviso: "startup validation and the offline rebuild command provide
\* a deterministic repair path" (logic/post.go:53).
ServiceReturns == AllStopped ~> Serving
=============================================================================
