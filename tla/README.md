# A TLA+ verification of convo

convo is a forum written in Go. MySQL is its system of record, Redis holds the
indexes, votes and caches that requests read, and RabbitMQ carries votes from
Redis to MySQL. Most of what can go wrong lies between these three stores, so
that is what this project models: how a vote gets from the one to the other,
how posts get into the indexes, and how the state is checked and rebuilt after
a loss.

Paths below are relative to the repository.

## 1. Inventory

### Parts, state, operations

| Part | State | Operations | Code |
|---|---|---|---|
| Vote script | `post:voted:<p>`, `post:vote_version:<p>`, `post:score`, the outbox stream | one Lua script: check the post, compare directions, add the difference to the score, count the version, XADD | `dao/redis/vote.lua`, `dao/redis/vote.go`, `logic/vote.go` |
| Outbox relay | the consumer group's last id and pending list; the batch in memory | claim stale entries, read own pending ones, read new ones, publish, acknowledge-and-delete | `worker/vote_relay.go`, `dao/redis/outbox.go` |
| RabbitMQ client | channel, confirmations, returns; main, retry and dead-letter queues | declare the topology, publish with confirmation, consume | `mq/rabbitmq.go` |
| Vote consumer | the delivery being handled | persist, retry with a counted header, dead-letter, ack, nack | `worker/vote_consumer.go` |
| Vote persistence | `post_vote`, `mq_consumed_message` | one transaction | `dao/mysql/vote.go` |
| Post creation | `post` (MySQL), `post:time`, `post:score`, `community:<c>` (Redis) | insert, then up to three attempts to write the indexes | `logic/post.go`, `dao/mysql/post.go`, `dao/redis/vote.go` |
| Start check | `state:post-vote-index` | count both sides, read the marker, set it on a first start | `logic/recovery.go`, `main.go` |
| Rebuild | the same | refuse while the outbox holds an entry that is not acknowledged, mark, clear, restore in batches, verify, mark | `cmd/rebuild-redis`, `logic/recovery.go`, `dao/redis/recovery.go`, `dao/mysql/recovery.go` |
| Post detail cache | `cache:post:<p>` | cache-aside read; delete now and once more after a delay | `dao/redis/post_cache.go`, `logic/post.go` |
| Post lists | a copy of `post:time` or `post:score` per community | build with ZINTERSTORE, give it an expiry, page through it; singleflight | `dao/redis/post.go`, `logic/post.go` |
| Vote rate limit | a sorted set of request times per user | one Lua script | `dao/redis/ratelimit.lua`, `middlewares/ratelimit.go` |
| Sessions | one token per user in Redis | log in, authenticate, log out | `dao/redis/session.go`, `logic/user.go`, `middlewares/auth.go` |
| Web front end | tabs, tokens and pages in the browser | requests to all of the above | `static/js` (minified) |
| The rest | none of their own | ids (a library), communities, HTTP, settings, logging, bcrypt, generated docs, verification scripts | |

### How they interact

```
 request --> vote.lua --XADD--> outbox --relay--> main queue --> consumer --> MySQL
                |                                   ^   |
                v                                   |   +--> retry queue (TTL) --+
          votes, score                              +----------------------------+
                                                        +--> dead-letter queue

 request --> MySQL post --> post:time, post:score
 start   --> count both, read the marker --> workers and HTTP server
 rebuild --> (outbox empty, everything stopped) --> Redis from MySQL
```

Stores are shared; there is no communication between instances otherwise. Every
arrow is a network call that may fail, or take effect and be reported as
failed, or be cut off by the end of the process.

### What is hard

* **Between publish and acknowledge.** The relay publishes and then removes the
  entry; the consumer stores in MySQL, or publishes to another queue, and then
  acknowledges. A crash in between repeats the first half.
* **Order.** Two consumers, redelivery and the retry delay leave no order
  between two versions of the same vote.
* **Taking over.** A relay that is slow, but alive, loses its entries to another
  one and still publishes and acknowledges them. A consumer whose channel closes
  goes on handling a delivery that somebody else has by now.
* **Two stores, no transaction.** A post is in MySQL and not yet in Redis, and
  an index write that timed out may have taken effect.
* **Check, then act.** The start check makes four round trips while other
  instances create posts; a request reads the marker before its script runs.
* **Answers without a name.** Confirmations and returns come on Go channels that
  the code reads without looking at delivery tags.
* **Late readers, lost timers.** A reader holds an old post while the cache is
  deleted; the second deletion is in the memory of one process.
* **Old times, old tokens.** The rate limit counts by times taken before its
  script runs, on several clocks; a logout may run after the next login.
* **Two commands, one pipeline.** The copy behind a community list is built by
  one command and given its lifetime by the next; builders overwrite one
  another, and a connection may break in between.
* **One query for many.** Readers that join a query in progress get what it has
  read, or its error.
* **Rebuilding.** It may be interrupted after any batch, and a withdrawn vote,
  which is no vote any more, still has a version that must survive.

`PROJECT.json` lists these at their lines, with the properties that cover them.

### What makes each part correct

* Script: score = sum of directions; versions of a vote are 1, 2, 3, ...
* Relay: an accepted event is never removed before the broker has it; the outbox
  drains; without a failure no event is sent twice.
* Consumer and persistence: at-least-once, applied at most once, rows only move
  to newer versions, never mix two events; a dead letter has had all its retries.
* Together: MySQL is a lagging replica of Redis, and equal once everything has
  drained.
* Indexes: score and versions stay right through creation, loss and rebuild;
  every indexed post is in MySQL, which the lists rely on to pair posts with
  their vote counts; nobody serves a half of a rebuild, and a finished one is
  exact; a started instance has all posts; from a drained state there is a way
  back to service.
* `Client.Publish`: success means that a queue holds the message.
* Cache: without failures a stale copy is about to be deleted; with them it is
  fresh in the end.
* Rate limit: no span of time sees more votes pass than the limit, and whoever
  waits as long as a refusal says passes, being told a second too much at most.
* Sessions: the newest login holds until it ends; an ended session never returns;
  one token at most is good.
* Lists: a change shows in a community within the lifetime of a copy, unless an
  EXPIRE was cut off; a shared page is late by one query at most; everybody
  is answered.

## 2. Modules

| Module | What it is |
|---|---|
| `VoteMySQL` | the transaction of `PersistVoteEvent` as operators on a row and the table of consumed ids |
| `VotePipeline` | the path of a vote, from the script to MySQL, with every failure on the way |
| `VoteReplica` | abstract specification: a replica that lags, and never goes back or invents a vote |
| `VotePath` | abstract specification: the steps of an event, from the outbox to RabbitMQ and from there to MySQL, and what it leaves behind in either |
| `VotePipelineProofs` | proofs about `VotePipeline`: its invariant, and that it implements `VoteReplica` |
| `VotePathProofs` | proof that it implements `VotePath` |
| `VoteCountingProofs` | proofs about what `VotePipeline` counts: scores, failures, copies |
| `PostIndex` | posts, votes, loss, start check and rebuild, for several instances; votes take the steps of `VotePath` |
| `PostIndexProofs` | proofs about it |
| `ConfirmedPublish` | one call of `Client.Publish`, its channel, the client library, the broker |
| `PublishOutcome` | abstract specification: what the caller of `Client.Publish` may rely on |
| `ConfirmedPublishProofs` | proofs about it |
| `PostCache` | readers, writers, timers and expiry around the cached copy of a post |
| `PostCacheProofs` | proofs about it |
| `PostLists` | readers of a community's list and of the list of all posts, around the copy and the shared query |
| `PostListsProofs` | proofs about it |
| `Sessions` | logins, requests and logouts of one user |
| `SingleDevice` | abstract specification: one good token at most, and none comes back |
| `RateLimit` | the limit on one user's votes |
| `UserRequests` | the two composed as `router/router.go` wires them |
| `UserRequestsProofs` | proofs about the three |
| `MCVotePipeline`, `MCPostIndex`, `MCConfirmedPublish`, `MCPostCache`, `MCPostLists`, `MCUserRequests` | what TLC needs beside them, mostly symmetry sets |

`VotePipeline` and `PostIndex` both extend `VoteMySQL`. `VotePipeline`
instantiates `VoteReplica` and `VotePath` with refinement mappings. `PostIndex`
does not repeat the pipeline: its votes, its relay and its consumer take the
actions of `VotePath`. These move events between two sets, `unsent` (those that
only the outbox has) and `broker` (those that RabbitMQ has and MySQL has not
applied), and keep two facts about what events leave behind: whether the outbox
has entries of events that are further (`unacked`), and whether RabbitMQ has copies
of events that are applied (`copies`). Publishing and acknowledging are two
steps, as in the code, since the rebuild counts entries (XLEN) and not events. That
the pipeline does behave so is checked (`core`) and proved (`PathRefinement`): an
event is unsent until a copy of it is safe in RabbitMQ, and in `broker` until it is
consumed. `DrainedPath` ties the two together at the rebuild: the outbox and the
queues that the command and the operator look at are empty if and only if
both sets are and both facts are false. `PostIndex` adds two things to
these actions: they need a running instance, and a loss of Redis empties the
outbox. The refinement is about a pipeline whose Redis keeps its data; that a loss
takes from the path only what RabbitMQ does not have is an assumption of
`PostIndex`. (A relay that has read an event before the loss may publish it after;
in the model it has published it before, which MySQL cannot tell apart.)

`VotePipeline` in turn takes a call
of `Client.Publish` as its outcome: success with the message stored, failure with
it stored, failure without. `PublishOutcome` states these outcomes, and
`ConfirmedPublish` instantiates it with a refinement mapping. There a message may
also be stored some time *after* its call has failed; in `VotePipeline` that copy
lies in the queue at once, where it may be consumed at any later time.

### VotePipeline

*Variables.* `dir`, `ver`, `score` are the Redis keys of the votes and
`events` every XADD so far. The outbox is `stream`, `lastDelivered` and `owner`
(the pending list). A relay is `stage` (where its loop is), `batch` and
`confirmed`; a consumer is its `job`. RabbitMQ is `main`, `retry`, `dead`; MySQL
is `row`, `consumed`.

*Choices.*

* An event is its position in `events`. The snowflake id of an event and the
  id of its stream entry are unique, and the code never compares them for order
  (the group does, for stream ids, and that order is kept).
* A queue counts its copies of `<<event, x-retry-count>>`: a bag, so any message
  may be next. RabbitMQ keeps a queue in order as long as nothing is redelivered
  and one consumer handles it; the code relies on none of that.
* A batch is a set handled from the lowest entry up, as Redis returns it.
* Replies of the script that change nothing, among them a missing post, a closed
  voting window and the same direction, are stuttering steps.
* `ClaimStale` may find any of the oldest pending entries idle for 30 seconds.
  That one is although a relay works on it means that the relay has stalled, and
  counts as a failure.
* What a consumer has prefetched and not begun is still in `main`.
* `LoseDelivery` is a channel that closes during the handler. The broker
  redelivers; the handler does not know, and its own Ack or Nack has no effect.
  A failed Ack is that step before `AckDelivery`.
* Relay and consumer of one instance crash independently here, which includes
  their crashing together.
* Each failure, crash or stall consumes one of `MaxFaults`.

*External.* RabbitMQ keeps a persistent message once it has confirmed it; Redis
does not lose data (`PostIndex` is about that); ids are unique.

### PostIndex

*Variables.* Redis is `marker`, `index`, `score`, `vote`, and the outbox as `unsent`
and `unacked`; RabbitMQ is `broker` and `copies`; MySQL is `posts`, `row`. Each
instance has a `phase` (how far its start is), what it has `seen` of the counts,
and a `task`, the request it serves. The rebuild command has `rebuild` and `restored`.

*Choices.*

* The marker is the value of its key, or `missing` when there is none.
* `post:time` and `post:score` are one set: they are written in one MULTI, and
  scripts find them apart only while the marker says `rebuilding`.
* `seen` keeps the posts that were counted, so that properties can speak of them;
  the code, and `Verdict`, compare the numbers only.
* The start check reads MySQL, `post:time`, `post:score` and the marker one after
  the other (`CountPosts`, `CountTimes`, `CountScores`, `ReadMarker`), and a creation
  between the two of Redis refuses the start. The rebuild's own count is one step,
  `VerifyIndex`: nobody writes the index then.
* An instance serves one request at a time. More requests at a time are more
  instances, since requests of one instance share no memory.
* Events move on only while an instance runs: the relay and the consumer are
  started after the check (`main.go`). An instance may stop after publishing an
  event and before acknowledging its entry; the entry is then still in the
  outbox, whatever becomes of the event, and `OutboxEmpty` is false.
* The operator is external and follows the README: he rebuilds when the start
  check refuses (`Damaged`), stops all instances first, sees RabbitMQ drained, of
  copies too (`BrokerDrained`),
  and starts no instance before the command has ended. One rebuild at a time.
* Redis loses everything or nothing.
* Restoring goes post by post; a batch of one post is the finest grain at which
  the command can be interrupted. Clearing is one step, since it happens under
  the marker `rebuilding` and any part of it is cleared again by the next run.

### ConfirmedPublish

*Variables.* `holder` is the mutex; a caller's `call` says where it is in
`Publish`, with the number of the call as its message. `channel`, `returns`,
`confirms` are the fields of `Client`; `wire` and `frames` are what travels to the
broker and back on the channel; `adrift` is what was sent on former channels.
`stored` and `succeeded` are for the properties.

*Choices.* The select is a choice between `TakeReturn`, `TakeAck`, `TakeNack` and
`TimeOut`, each enabled when its case is ready; Go picks any. The inner select is
`Confirmed`. A closed Go channel can be read, so both cases are ready after
`CloseChannel`. The broker sends the return of a message before its
confirmation, and the library's reader hands answers on in order, one at a time,
each into a Go channel with room for one (external, from the AMQP extension and
amqp091).

### PostCache

*Variables.* `stored`, `cache`; per instance a `reader` and a `writer`; `timers`,
each with the reads that had loaded when it was armed.

*Choices.* The delay is configured longer than a read and its fill take
(`docs/PROJECT_REFACTOR_DESIGN.md`, 7.4), so a timer waits for those reads; that
one is slower is `SlowReader`, a failure. A `SET` whose reply is lost is `Fill`. A
`GET` that fails, and an update by another user or of a missing post, change
nothing. An update with the stored content affects no row, and the code then
deletes nothing.

### PostLists

*Variables.* `changes` are the moments at which the index changed; its version is
how many there are, and version 0 has no post of the community. In Redis `list`
is the version of the copy, 0 if there is no such key, and `ttl` what is left of
its lifetime, 0 if it has no expiry. An instance has the query of its
singleflight, `flight`, with the `page` it has read. A reader is `at` some point
of its request, at the instance that is its `home`. `cut`, `settled` and `floor`
are history: whether the EXPIRE of the present copy was cut off, the version when
an instance's last query ended, and that version when a reader joined.

*Choices.*

* One sort order, one community, one page. Other keys share nothing with these.
* ZINTERSTORE and EXPIRE are two steps of a pipeline, with other readers between
  them but no time: a pipeline reaches Redis as a whole or is cut off.
* An error of EXISTS is read as zero, as the code does by not looking at it.
* After `ExpireLost` a copy has no expiry. No later reader sees that, since EXISTS
  says only that the key is there; it is repaired when another builder was
  already past its EXISTS, or when a rebuild clears the keys. `CopyIsFresh` makes
  an exception of it, and `PROJECT.json` has the hazard.
* When the copy expires between EXISTS and ZREVRANGE the page is empty. The step
  is there; nothing in the repository promises otherwise.
* Singleflight is external: the call leaves its map before the next one can ask,
  and everybody who waits has the answer, or the error.
* What posts and votes are read for a page and put together changes no state.
  That ids and posts match is `PostIndex!IndexedPostsAreStored`.

### Sessions, RateLimit, UserRequests

*Variables.* `session` is the key; `login` how far each login is; `serving` the
token with which a request was let in. `log` is the sorted set as the set of its
members, `stamp` their scores, `dies` the expiry of the key; `phase` and `ranAt`
belong to the requests.

*Choices.* One user: all keys are per user. A session id is drawn once (32 random
bytes). The key and the token expire independently of one another, as by two
clocks. The script runs within `MaxDelay` of the moment its time was taken, and
clocks differ by at most `Skew`: assumptions, without which no limit holds. A
failed script may have been executed; the request is refused either way. The wait
of a refused request is that of the script, from the oldest entry that is left,
and the user is told it in whole seconds, the fraction dropped and one added
(`Told`, the Retry-After of `middlewares/ratelimit.go`). So it is always longer than
the wait of the script, by a second at most. In
`UserRequests` a vote enters the rate limit when it leaves the session check, as
the middleware of the route does. `Sessions` instantiates `SingleDevice`: *good*
are the tokens with which a request would be let in now, *spent* those that were
given out and are good no more.

## 3. Runs

| Run | Module | Shows | Instance |
|---|---|---|---|
| `core` | MCVotePipeline | genuine rows, nothing lost, consumed means applied, drained means equal, the score, no false conflict, no duplicate without a failure, dead letters only after all retries, rows only advance, refinement of `VoteReplica` and of `VotePath`; the inductive invariant, types included | two users, two votes, two relays, two consumers, two failures |
| `liveness` | MCVotePipeline | the outbox drains, and MySQL converges unless an event is dead-lettered, even when a relay never comes back | two relays, one of them steady, one vote, three failures |
| `dead_letter` | MCVotePipeline | violated: MySQL converges | one vote, two failures |
| `recovery` | MCPostIndex | score, versions, drained means equal, nobody serves a rebuild, indexed posts are stored, a verified rebuild is exact, an undisturbed start check is exact; the inductive invariant, types included | two posts, two instances, one failure, one loss of Redis |
| `recovery_live` | MCPostIndex | from every state with an empty outbox and empty queues the service returns | one instance, lost replies, two failures, one loss |
| `score_retry` | MCPostIndex | violated: score is the sum of votes | one post, two instances, one lost reply |
| `startup` | MCPostIndex | violated: a started instance has all posts | two posts, two instances, one failed write |
| `repair` | MCPostIndex | violated: the service always returns | two posts, one instance, no failure but a crash |
| `publisher` | MCConfirmedPublish | a successful call has stored its message; nothing is left on a channel between calls; refinement of `PublishOutcome`; the inductive invariant | two callers, four calls |
| `cache` | MCPostCache | a stale copy is transient; the inductive invariant; fresh in the end | two instances, three updates, two failures |
| `lists` | MCPostLists | a copy is fresh, a shared page is late by one query at most; the inductive invariant; every reader is answered | one instance, three readers, two changes, lifetime two, one failure |
| `gate` | MCUserRequests | the newest login holds, an ended session stays ended, refinement of `SingleDevice`, no span exceeds the limit, the Retry-After of a refusal suffices and is a second too long at most; both inductive invariants | two logins, four votes, window 3, limit 2, delay 1, a second of 2 |

### Bounds, and why they are enough

* Two votes and two users in `core`: one user votes and turns or withdraws the
  vote, so that an old version can come after a new one; or two users vote, whose
  changes add up in one score.
* `Batch = 2` with two votes makes batches that are full, partial and empty, and a
  claim that takes part of what is pending.
* Two relays and two consumers: one takes over from another, and two versions of
  a vote are handled at a time.
* `MaxRetries = 1`: each message can succeed at first, succeed from the retry
  queue, and be given up. `MaxFaults = 2` is what it takes to give up, and also what
  it takes to send an event twice and then lose one of its handlers. `liveness` and
  `dead_letter` have one vote and as many failures or more.
* `MaxAttempts = 2` for the three attempts of `CreatePost`: a first attempt, a
  back-off, a last attempt. The third adds another back-off.
* Two posts: the start check can confuse two posts, not more. Two instances: one
  starts while the other serves. `MaxVersion = 2` is a vote and its withdrawal,
  which a rebuild must restore as a version without a direction.
* One failure and one loss in `recovery`: the loss makes a rebuild necessary, the
  failure cuts it off, and a second rebuild follows; or a request fails between
  MySQL and Redis, and Redis is lost besides. A post whose last attempt fails takes
  two failures, which `recovery_live` has, and the proofs any number.
* `LostReplies = FALSE` in `recovery`: with lost replies `ScoreIsSumOfVotes` fails
  as `score_retry` shows. `VersionsNeverReused` fails with them only if Redis loses
  its data as well, in one history: an index write takes effect but its reply is
  lost, somebody votes during the back-off, Redis loses everything, and the second
  attempt brings the post back with versions from one. With one of the two alone
  it holds, which is proved (`Calm`). `recovery_live` has lost replies.
* `lists`: with three readers one builds a copy while another is past its EXISTS
  and a third reads, and one asks while two wait. A lifetime of two within a time
  of three lets a copy grow old, expire and be built again. Instances share
  nothing but the copy, and readers of it are told apart by nothing else, so one
  is enough.
* `publisher` stops when its calls are used up, `cache` when its updates are and
  nothing is read, `gate` at `MaxTime`, so these runs do not check deadlock. Four
  calls: each of two callers meets a channel that the other, or it itself, left.
* Two contents and three updates in `cache`: a content can return, and an update
  can repeat the stored one. Two failures: a first deletion fails and the timer is
  lost. `StaleIsTransient` is about behaviours without any.
* In `gate` a limit of two and four votes fill the window and overrun it; a delay
  of one lets a script overtake another. Clock skew is zero there, and any number
  in the proof. Two logins: an old and a new token. A second of two units has
  waits that are whole seconds and waits that are not.

### Fairness

`VotePipeline!Fairness`: the loops of a running relay and of a consumer keep
going (they are endless `for` loops that wait a bounded time at each turn, and
the consumer is fed by the broker), and the TTL of the retry queue passes. A
*steady* relay, one that is run under a restart policy, comes back after a crash
and, claiming again and again, at some time finds the entry of a crashed relay
older than 30 seconds; this is strong fairness because the relay is not always
at that point of its loop. Of other relays nothing is assumed once they are
down. Neither votes nor failures need happen.

`PostIndex!Fairness`: a stopped instance is started again, the workers of a
running one work, and the operator rebuilds if, again and again, the start check
refuses and the rebuild is possible.

`PostCache!Fairness`: a request that has begun goes on, a timer that is not lost
fires, and a copy that stays gets to the end of its time to live. Reads need not
happen.

`PostLists!Fairness`: a request that has begun goes on, since every call it makes
returns, with an answer or with an error.

## 4. Findings

Four runs have expected violations: the code and what its documents or comments
say of it differ.

* `dead_letter`: an event whose retries are used up is in a queue that nobody
  consumes; MySQL does not converge when it is back.
* `score_retry`: the index write of a new post is not idempotent with regard to
  votes: its repetition sets the score back.
* `startup`: the two counts of the start check are taken at different moments,
  so a post that is created meanwhile makes up for a missing one.
* `repair`: an instance crashes between the two writes of `CreatePost` while the
  outbox has an entry. The check refuses to start because of the post, so no
  relay runs, and the rebuild refuses because of the entry. It need not be of an
  event that is still to be sent: one that was published, and even applied, counts
  until it is acknowledged, so a crash between the two (`worker/vote_relay.go`, 75
  to 82) does the same; and a message left in RabbitMQ keeps the operator from
  confirming. `recovery_live` shows that nothing else blocks the way: from every
  state in which no instance runs, the outbox has no entry and RabbitMQ no
  message, the service returns.

## 5. Proofs

`VotePipelineProofs` proves, for all values of the constants, with the
assumptions `RelaysAssumption` (steady relays are relays, `NoRelay` is none) and
`BoundsAssumption` (the bounds are natural numbers, `Batch` is positive):

| Theorem | Property |
|---|---|
| `Invariance` | `IInv`, `TypeOK` among its parts |
| `AtLeastOnce` | `NothingLost` |
| `GenuineRows` | `RowsAreGenuine` |
| `AppliedOnce` | `ConsumedMeansApplied` |
| `DrainedIsEqual` | `DrainedMeansEqual` |
| `ConflictFree` | `NoGenuineConflict` |
| `RowsAdvanceOnly` | `RowsOnlyAdvance` |
| `Refinement` | `ImplementsReplica` |
| `RestIsConvergence` | when no relay and no consumer finds anything to do, the outbox is empty, and MySQL equals Redis unless an event was dead-lettered |

The sets of posts, relays and consumers are arbitrary, infinite ones included;
`MaxVotes` and `MaxFaults` are arbitrary numbers, so no behaviour is cut off. Users
are finitely many (`UsersAssumption`), which only a sum over them needs.

*The invariant.* `NothingLost` is not inductive: the relay removes an entry
because it remembers that the broker has confirmed it, and the consumer
acknowledges because it remembers what it has done. `Answered` states that these
memories are right. Once `AckDelivery` or `AckVoteOutbox` is taken, a copy must
be somewhere else; `Safe` says where, and `SafeStable` that once an event is safe
it stays so. `RowsAreGenuine` and `ConsumedMeansApplied` need that two events
never share a version (`EventsNumbered`), and both need that no message speaks of
an event that never was (`Known`). `Attended` says that no entry of the outbox
is forgotten: it is still ahead of the group's last id, or pending with a relay.
`IInv` is the conjunction, checked by the run `core`.

*The argument.* Operators first (the lowest of a batch is in it, a queue after
Put and Take), then types, then each conjunct of `IInv` action by action, then
the theorems. `DrainedMeansEqual` follows from `IInv` alone: the newest event of a
vote is what Redis holds; when everything has drained it can only have been
consumed; so the row is at least as new; and no row is newer. `NoGenuineConflict`
follows from genuine rows and distinct versions. Refinement: a vote is `Accept`, a
commit that changes a row is `CatchUp`, the rest stutters. `RestIsConvergence` is
the safety half of `OutboxDrains` and `ConvergesOrDeadLetters`: the pipeline does not
come to rest with work undone; that it does come to rest is for TLC to check. It
needs that a read of new entries moves the group no further than to the highest
entry it delivers, with none left out below (`OldestReachesDown`).

`VotePathProofs` proves, from the same invariant and assumptions:

| Theorem | Statement |
|---|---|
| `PathRefinement` | `ImplementsPath` |
| `DrainedPath` | the outbox is empty if and only if that of `VotePath` is (`unsent` and `unacked`), and so are the queues (`broker` and `copies`) |
| `HandledIsSafe` | what a consumer works on is safe without it, also when the broker has taken the delivery back |

A step of the path must be one event's alone. Only a relay's publication makes
an event safe that was not, and only that one (`RelayPutsOne`, `PutAddsOne`), and its
entry is then unacknowledged; removing entries is `Acknowledge`, since what is
removed is safe. A consumer makes
none safe (`ConsumerAddsNothing`): whatever it puts anywhere is the message it works
on, which was safe before (`HandledSafe`). Only a commit consumes, one event that is
safe by then, and what it does to the row is what `Persist` does: the id table turns
the commit of an event that was consumed before into nothing, and `IInv` excludes
a conflict. So republishing, retries, redelivery, crashes, and handlers of
deliveries that were lost are no steps of the event (`PathQuiet`): they change at most
what is left behind, as `Acknowledge` or `CopiesComeAndGo`.

`VoteCountingProofs` adds what is counted:

| Theorem | Property | Strengthening |
|---|---|---|
| `ScoreCorrect` | `ScoreIsSumOfVotes` | none; a change of one vote moves one user between the sets whose sizes make the sum |
| `GivenUpLate` | `DeadOnlyAfterAllRetries` | `AttemptsCounted`: no header counts more failures than there have been, and a handler about to give up has seen more than `MaxRetries` |
| `NothingSentTwice` | `NoFaultNoDuplicate` | `Quiet`: as long as nothing has failed, each event is at one place: not yet read, in one relay's hands, once in the queue, or with one consumer |

`PostIndexProofs`, for any finite sets of users and posts, any instances and any
bounds:

| Theorem | Property | Holds |
|---|---|---|
| `Invariance` | `IInv` | |
| `ServiceCorrect` | `NobodyServesARebuild` | |
| `IndexCorrect` | `IndexedPostsAreStored` | |
| `RebuildCorrect` | `RebuildIsExact` | |
| `StartCorrect` | `StartIsExact` | |
| `RefusalMeansDamage` | a check during which nothing changes refuses exactly what is `Damaged` | |
| `VersionsCorrect` | `VersionsNeverReused` | while `Calm` |
| `DrainedCorrect` | `DrainedMeansEqual` | while `Calm` |
| `ScoreCorrect` | `ScoreIsSumOfVotes` | if `~LostReplies` |

The last three are false without their conditions (section 3). `Calm` says that
failed writes have not reached Redis, or that Redis has lost nothing so far. The
invariant has three parts accordingly.

* `ControlInv` needs no condition: `RebuildIsAlone` (nothing runs and nothing is on
  its way during a rebuild), `NobodyTrustsARebuild` (no instance is about to run, or
  to set the marker, while it says `rebuilding`), `StoredFirst` (what is indexed,
  restored or about to be indexed is in MySQL, and by one request alone),
  `RestoredIsExact` (while it restores, the index has only restored posts, each as in
  MySQL) and `CheckIsSound` (what a check has seen of the index is still there
  unless Redis lost it, and only equal numbers lead to setting the marker). Both
  the rebuild and the start check compare two numbers and conclude that two sets
  are equal. `EqualCounts` is why they may: finite sets of equal cardinality, one
  within the other, are equal, and `StoredFirst` or `RestoredIsExact` say that one is
  within the other. For the start check that is true only of what was in the index
  when it was counted, which is the premise of `StartIsExact` and what the run
  `startup` violates.
* `VotesInv`, while `Calm`: a post that is not indexed yet has never been voted for
  (`NewPostsAreFresh`); a row and a vote of the same version are the same vote
  (`SameVersionSameVote`); what MySQL lacks of an indexed vote is on its way
  (`MissingIsPending`), so that with nothing on the way a rebuild restores all there
  was.
* `ScoreInv`, without lost replies: no post is indexed twice (`IndexedOnce`), so that
  writing its score as zero is right.

`ConfirmedPublishProofs`, for any set of callers and any number of calls:
`Invariance` (`IInv`), `PublishedIsStored` (`ConfirmedIsStored`), `ChannelIsQuiet`
(`QuietBetweenCalls`), `Refinement` (`ImplementsOutcome`). The code compares no tags; the proof shows why it need not.
`Own`: whatever is on the channel is about the message of the one call in
progress, since the mutex admits one and every unclear outcome gives up the
channel. `OneAnswer`: a message is answered once. `ReturnedFirst`: when the
confirmation of an unrouted message is next, its return is already in `returns`,
so the inner select finds it. For the refinement a message is the number of
the newest call while it is underway (`Numbered`); a call that ends is `Fail` or
`Succeed`, the broker's part is `Store`, the rest stutters.

`PostCacheProofs`, for any set of instances, any contents and bounds: `Invariance`
(`IInv`) and `StaleCopiesAreTransient` (`StaleIsTransient`). The strengthening is
`SlowReadIsOutlasted`: a reader with an old post in its hands is outlasted by some
timer, or an update is still under way.

`PostListsProofs`, for any sets of instances and readers and any bounds:
`Invariance` (`IInv`), `FreshCopies` (`CopyIsFresh`) and `FreshPages`
(`NoPageFromBefore`). A copy misses only what was changed since its lifetime
began, or at the present moment while its builder has yet to set the expiry
(`CopyInv`): then EXPIRE, also that of another builder, cannot prolong what is
older. A query that has been read began after what was settled (`FlightInv`).

`UserRequestsProofs`, for any numbers: `SessionInvariance` and `LimitInvariance`
(`SessionInv`, `LimitInv`; together `Invariance`, `UserInv`),
`NewestLogin` (`NewestLoginHolds`), `LogoutHolds` (`LogoutIsFinal`),
`DeviceRefinement` (`ImplementsSingleDevice`: an answered login is `SignIn`, a step after
which its token is refused is `End`, and by `NothingGained` no other step makes a
token good), `LimitHolds` (`SpanHoldsLimit`) and `AdviceHolds`
(`AdviceSuffices`: a full log has an oldest entry, dropping it makes room, and one
unit of time earlier nothing is dropped (`ScriptIsExact`); the seconds that are told
lie above that wait by one at most (`WholeSeconds`), and who passes at one moment
passes later (`PassesLater`)). Each is proved of `Sessions` or `RateLimit` alone and
carried over, since a step of one is a step or a stutter of the other. The
invariant of the rate limit is that the log is no longer than the limit and still
has every vote that passed within `Span`, which is the window less the largest
delay and twice the skew; so the votes of a span are a subset of the log. The
whole window would be too much to claim: a script with a later time that
overtakes drops entries that the earlier one should count.

*Only model-checked.* Liveness: `OutboxDrains`, `ConvergesOrDeadLetters`, `DrainedRecovers`,
`FreshInTheEnd` and `EveryReaderIsAnswered` are about fairness, which is
out of the prover's reach.

## 6. Not modelled

* The voting window and the arithmetic of time in scores: they decide which votes
  happen, and the models let any happen.
* Entries of the outbox and messages that the script did not write. The code
  rejects them; nothing in the repository produces them.
* A partial loss of Redis: an append-only file that lacks its last second.
  `docs/PROJECT_REFACTOR_DESIGN.md` accepts it (`appendfsync everysec`), and no code
  detects or repairs it.
* The contents of posts in the lists, and the list that is one query of MySQL.
* Signing up, a query and an insert under a unique index.
* The web front end in `static/js`: the output of a build whose source is not here,
  minified, one statement of thousands of characters to a line, most of it
  libraries (Vue, Vuex, vue-router, axios). No definition could be held against
  its lines. The program proper is Go and Lua; to it the front end is a client that
  may send any request at any time, and so are the models' users. What can go
  wrong in the browser alone is listed in `PROJECT.json` without a property.
* Everything without state of its own.

## 7. Plan

Done, in this order: `VoteMySQL`, `VotePipeline` with its runs, `VoteReplica`,
`VotePipelineProofs`, `PostIndex` with its runs, `ConfirmedPublish`, `PostCache`,
`Sessions`, `RateLimit` and `UserRequests`, each with its proofs; `PostIndexProofs`;
`PostLists` with its proofs; the wait that a refused vote is told;
`VoteCountingProofs`; `PublishOutcome` and its refinement; `VotePath`, which took the
place of an informal reduction of the pipeline in `PostIndex`, with its refinement;
the exactness of rebuild and start check; `SingleDevice` and its refinement.

Left:

1. A loss of Redis in `VotePipeline`, so that the refinement of `VotePath` covers it.
2. A partial loss of Redis in `PostIndex`, should the code ever handle one.
3. The client, should its source ever join the repository.
