----------------------------- MODULE VotePipeline -----------------------------
(***************************************************************************)
(* The path of a vote: the Lua script that changes Redis and appends to    *)
(* the outbox stream, the relays that publish the stream to RabbitMQ, the  *)
(* main, retry and dead-letter queues, the consumers, and the MySQL        *)
(* transaction.  Every step that can fail, be lost, be repeated or be      *)
(* interrupted by a crash is an action of its own.                         *)
(*                                                                         *)
(* An event is its position in `events`: the snowflake id of a vote and    *)
(* the id Redis gives its stream entry are both unique and the code never  *)
(* compares them for order, so one number stands for both.                 *)
(***************************************************************************)
EXTENDS VoteMySQL, Sequences, FiniteSets

CONSTANTS
    Users, Posts,    \* who votes and on what
    Relays,          \* the consumer names vote-relay-<machine id>
    Steady,          \* the relays that are restarted after a crash
    Consumers,       \* the vote consumers, one per running instance
    NoRelay,         \* an entry that no relay has pending
    Batch,           \* COUNT of one read or claim (32 in the code)
    MaxRetries,      \* rabbitmq.max_retries
    MaxVotes,        \* bound: votes that change something
    MaxFaults        \* bound: failures, crashes and stalls

ASSUME RelaysAssumption == Steady \subseteq Relays /\ NoRelay \notin Relays

ASSUME UsersAssumption == IsFiniteSet(Users)

ASSUME BoundsAssumption ==
    Batch \in Nat \ {0} /\ MaxRetries \in Nat /\ MaxVotes \in Nat /\ MaxFaults \in Nat

VARIABLES
    dir, ver,        \* Redis: direction (post:voted:) and version (post:vote_version:)
    score,           \* Redis: post:score less the creation time, in votes of 432
    events,          \* the event of every XADD so far, in stream order
    stream,          \* the entries still in the outbox stream
    lastDelivered,   \* the consumer group's last-delivered id
    owner,           \* the consumer group's pending list: entry -> relay
    stage,           \* per relay: where its loop is ("down" after a crash)
    batch,           \* per relay: what it has read and not yet dealt with
    confirmed,       \* per relay: its first message is published, not yet acked
    main, retry,     \* RabbitMQ: how many copies each queue holds of a message
    dead,            \* RabbitMQ: the events in the dead-letter queue
    job,             \* per consumer: the delivery being handled
    row, consumed,   \* MySQL: post_vote and mq_consumed_message
    faults           \* failures so far

redisVars == <<dir, ver, score, events>>
outboxVars == <<stream, lastDelivered, owner>>
relayVars == <<stage, batch, confirmed>>
brokerVars == <<main, retry, dead>>
mysqlVars == <<row, consumed>>
vars == <<redisVars, outboxVars, relayVars, brokerVars, job, mysqlVars, faults>>

Keys == Users \X Posts
Ids == 1..MaxVotes
\* What a queue holds: an event and its x-retry-count header.
Copies == Ids \X (0..MaxRetries)
EventType == [key : Keys, dir : Directions, ver : Nat \ {0}]
Idle == [phase |-> "idle", copy |-> <<0, 0>>, owned |-> FALSE]
JobType == {Idle} \cup
    [phase : {"persist", "retry", "dead", "ack"}, copy : Copies, owned : BOOLEAN]

RedisTypes ==
    /\ dir \in [Keys -> Directions] /\ ver \in [Keys -> Nat]
    /\ score \in [Posts -> Int]
    /\ events \in Seq(EventType) /\ Len(events) <= MaxVotes
OutboxTypes ==
    /\ stream \subseteq Ids /\ lastDelivered \in 0..MaxVotes
    /\ owner \in [Ids -> Relays \cup {NoRelay}]
RelayTypes ==
    /\ stage \in [Relays -> {"claim", "own", "new", "down"}]
    /\ batch \in [Relays -> SUBSET Ids] /\ confirmed \in [Relays -> BOOLEAN]
BrokerTypes ==
    main \in [Copies -> Nat] /\ retry \in [Copies -> Nat] /\ dead \subseteq Ids
JobTypes == job \in [Consumers -> JobType]
MySQLTypes ==
    row \in [Keys -> [dir : Directions, ver : Nat]] /\ consumed \subseteq Ids
TypeOK ==
    /\ RedisTypes /\ OutboxTypes /\ RelayTypes /\ BrokerTypes /\ JobTypes /\ MySQLTypes
    /\ faults \in 0..MaxFaults

Put(queue, c) == [queue EXCEPT ![c] = @ + 1]
Take(queue, c) == [queue EXCEPT ![c] = @ - 1]

Lowest(S) == CHOOSE i \in S : \A j \in S : i <= j
Highest(S) == CHOOSE i \in S : \A j \in S : j <= i
\* The entries of S that a command with COUNT Batch returns: the oldest ones.
Oldest(S) == {i \in S : Cardinality({j \in S : j < i}) < Batch}

Fault == faults < MaxFaults /\ faults' = faults + 1

-----------------------------------------------------------------------------
(* dao/redis/vote.lua                                                       *)

\* The score change of a script that forgets what the user had voted before.
DeltaFromZero(old, new) == new
Delta(old, new) == new - old

\* A script that counts a new version only when a vote is cast.
VersionOfVotesOnly(v, new) == IF new = 0 THEN v ELSE v + 1
\* The version as it was before HINCRBY.
VersionBefore(v, new) == v
NextVersion(v, new) == v + 1

Init ==
    /\ dir = [k \in Keys |-> 0] /\ ver = [k \in Keys |-> 0]
    /\ score = [p \in Posts |-> 0] /\ events = <<>>
    /\ stream = {} /\ lastDelivered = 0 /\ owner = [i \in Ids |-> NoRelay]
    /\ stage = [r \in Relays |-> "claim"]
    /\ batch = [r \in Relays |-> {}] /\ confirmed = [r \in Relays |-> FALSE]
    /\ main = [c \in Copies |-> 0] /\ retry = [c \in Copies |-> 0] /\ dead = {}
    /\ job = [c \in Consumers |-> Idle]
    /\ row = [k \in Keys |-> NoRow] /\ consumed = {}
    /\ faults = 0

\* One run of the script on a post whose voting window is open.  The replies
\* that change nothing (codes 1 to 5, the same direction among them) are
\* stuttering steps.
Vote(u, p, d) ==
    LET k == <<u, p>>
        e == [key |-> k, dir |-> d, ver |-> NextVersion(ver[k], d)]
    IN /\ Len(events) < MaxVotes
       /\ d # dir[k]
       /\ score' = [score EXCEPT ![p] = @ + Delta(dir[k], d)]
       /\ dir' = [dir EXCEPT ![k] = d]
       /\ ver' = [ver EXCEPT ![k] = e.ver]
       /\ events' = Append(events, e)
       /\ stream' = stream \cup {Len(events) + 1}
       /\ UNCHANGED <<lastDelivered, owner, relayVars, brokerVars, job, mysqlVars, faults>>

-----------------------------------------------------------------------------
(* worker/vote_relay.go, dao/redis/outbox.go                                *)

\* Where the loop of RunVoteRelay goes when a batch is done or given up: own
\* pending entries are read again until there are none.
AfterBatch(s) == IF s = "new" THEN "claim" ELSE "own"

Reading(r, s) == stage[r] = s /\ batch[r] = {}

\* The relay r holds the entries in S, published or not, and works on them.
Received(r, S, s) ==
    /\ batch' = [batch EXCEPT ![r] = S]
    /\ stage' = [stage EXCEPT ![r] = IF S = {} THEN s ELSE @]

\* A relay that never looks for what others have left pending.
NothingPending == {}
\* The entries XPENDING lists.
Pending == {i \in stream : owner[i] # NoRelay}
Undelivered == {i \in stream : i > lastDelivered}

\* Reading ">" without moving the group's last-delivered id.
DeliveredUnmoved(S) == lastDelivered
DeliveredUpTo(S) == IF S = {} THEN lastDelivered ELSE Highest(S)

\* ClaimStaleVoteOutbox: which of the oldest pending entries have been idle for
\* 30 seconds is not known; that one is although a relay is at work on it is a
\* fault (a stall).  The reply may be lost after XCLAIM has taken effect.
ClaimStale(r) ==
    /\ Reading(r, "claim")
    /\ \E S \in SUBSET Oldest(Pending) :
          LET stalled == \E q \in Relays : S \cap batch[q] # {}
          IN /\ owner' = [i \in Ids |-> IF i \in S THEN r ELSE owner[i]]
             /\ IF stalled THEN Fault ELSE UNCHANGED faults
             /\ Received(r, S, "own")
    /\ UNCHANGED <<redisVars, stream, lastDelivered, confirmed, brokerVars, job, mysqlVars>>

\* XCLAIM takes effect but its reply is lost: the loop starts over.
ClaimReplyLost(r) ==
    /\ Reading(r, "claim") /\ Fault
    /\ \E S \in SUBSET Oldest(Pending) :
          owner' = [i \in Ids |-> IF i \in S THEN r ELSE owner[i]]
    /\ UNCHANGED <<redisVars, stream, lastDelivered, relayVars, brokerVars, job, mysqlVars>>

\* ReadVoteOutbox with start "0": the relay's own pending entries.
ReadOwn(r) ==
    /\ Reading(r, "own")
    /\ Received(r, Oldest({i \in stream : owner[i] = r}), "new")
    /\ UNCHANGED <<redisVars, outboxVars, confirmed, brokerVars, job, mysqlVars, faults>>

\* XREADGROUP ">" hands undelivered entries to r and makes them pending.
Deliver(r, S) ==
    /\ lastDelivered' = DeliveredUpTo(S)
    /\ owner' = [i \in Ids |-> IF i \in S THEN r ELSE owner[i]]

\* ReadVoteOutbox with start ">"; nothing for five seconds ends the round.
ReadNew(r) ==
    /\ Reading(r, "new")
    /\ Deliver(r, Oldest(Undelivered))
    /\ Received(r, Oldest(Undelivered), "claim")
    /\ UNCHANGED <<redisVars, stream, confirmed, brokerVars, job, mysqlVars, faults>>

\* A read fails and the loop moves on; a failed ">" may have taken effect.
ReadFails(r) ==
    /\ \/ Reading(r, "own") /\ UNCHANGED <<lastDelivered, owner>>
       \/ Reading(r, "new") /\ UNCHANGED <<lastDelivered, owner>>
       \/ Reading(r, "new") /\ Undelivered # {} /\ Deliver(r, Oldest(Undelivered))
    /\ Fault
    /\ stage' = [stage EXCEPT ![r] = IF @ = "own" THEN "new" ELSE "claim"]
    /\ UNCHANGED <<redisVars, stream, batch, confirmed, brokerVars, job, mysqlVars>>

\* client.Publish succeeds: the broker holds the message and has confirmed it.
Publish(r) ==
    /\ batch[r] # {} /\ ~confirmed[r]
    /\ main' = Put(main, <<Lowest(batch[r]), 0>>)
    /\ confirmed' = [confirmed EXCEPT ![r] = TRUE]
    /\ UNCHANGED <<redisVars, outboxVars, stage, batch, retry, dead, job, mysqlVars, faults>>

\* What is left of a batch is forgotten; its entries stay pending.
GiveUpBatch(r) ==
    /\ batch' = [batch EXCEPT ![r] = {}]
    /\ confirmed' = [confirmed EXCEPT ![r] = FALSE]
    /\ stage' = [stage EXCEPT ![r] = AfterBatch(stage[r])]

\* client.Publish fails or times out; the broker may hold the message anyway.
PublishFails(r) ==
    /\ batch[r] # {} /\ ~confirmed[r] /\ Fault
    /\ \/ UNCHANGED main
       \/ main' = Put(main, <<Lowest(batch[r]), 0>>)
    /\ GiveUpBatch(r)
    /\ UNCHANGED <<redisVars, outboxVars, retry, dead, job, mysqlVars>>

\* An AckVoteOutbox that is sent before the broker has confirmed.
AckBeforeConfirm(r) == batch[r] # {}
MayAck(r) == batch[r] # {} /\ confirmed[r]

\* The script of AckVoteOutbox: XACK and XDEL as one.
Remove(i) ==
    /\ stream' = stream \ {i}
    /\ owner' = [owner EXCEPT ![i] = NoRelay]

\* The entry is gone; on to the next message of the batch, if there is one.
AckVoteOutbox(r) ==
    LET rest == batch[r] \ {Lowest(batch[r])}
    IN /\ MayAck(r)
       /\ Remove(Lowest(batch[r]))
       /\ batch' = [batch EXCEPT ![r] = rest]
       /\ confirmed' = [confirmed EXCEPT ![r] = FALSE]
       /\ stage' = [stage EXCEPT ![r] = IF rest = {} THEN AfterBatch(stage[r]) ELSE @]
       /\ UNCHANGED <<redisVars, lastDelivered, brokerVars, job, mysqlVars, faults>>

\* AckVoteOutbox reports an error, before or after the script has run.
AckFails(r) ==
    /\ MayAck(r) /\ Fault
    /\ \/ UNCHANGED <<stream, owner>>
       \/ Remove(Lowest(batch[r]))
    /\ GiveUpBatch(r)
    /\ UNCHANGED <<redisVars, lastDelivered, brokerVars, job, mysqlVars>>

\* The process ends, by a crash or by the cancelled context of a shutdown.
Crash(r) ==
    /\ stage[r] # "down" /\ Fault
    /\ stage' = [stage EXCEPT ![r] = "down"]
    /\ batch' = [batch EXCEPT ![r] = {}]
    /\ confirmed' = [confirmed EXCEPT ![r] = FALSE]
    /\ UNCHANGED <<redisVars, outboxVars, brokerVars, job, mysqlVars>>

\* It comes back under the same consumer name.
Restart(r) ==
    /\ stage[r] = "down"
    /\ stage' = [stage EXCEPT ![r] = "claim"]
    /\ UNCHANGED <<redisVars, outboxVars, batch, confirmed, brokerVars, job, mysqlVars, faults>>

-----------------------------------------------------------------------------
(* mq/rabbitmq.go (the topology), worker/vote_consumer.go                   *)

\* The retry queue's TTL passes and its dead-letter exchange routes the message
\* back to the main queue, headers and all.
RetryExpires ==
    \E c \in Copies :
        /\ retry[c] > 0
        /\ retry' = Take(retry, c) /\ main' = Put(main, c)
        /\ UNCHANGED <<redisVars, outboxVars, relayVars, dead, job, mysqlVars, faults>>

\* A consumer takes a message.  Redelivery, the retry delay and several
\* consumers leave no order between messages, so any of them may be next.
Consume(c) ==
    /\ job[c] = Idle
    /\ \E m \in Copies :
          /\ main[m] > 0 /\ main' = Take(main, m)
          /\ job' = [job EXCEPT ![c] = [phase |-> "persist", copy |-> m, owned |-> TRUE]]
    /\ UNCHANGED <<redisVars, outboxVars, relayVars, retry, dead, mysqlVars, faults>>

EventOf(c) == events[job[c].copy[1]]
StatusOf(c) == PersistStatus(row[EventOf(c).key], consumed, job[c].copy[1], EventOf(c))

\* A transaction whose two writes are not one: the id is recorded, the row not.
CommitIdOnly(c) == UNCHANGED row /\ consumed' = consumed \cup {job[c].copy[1]}

\* PersistVoteEvent commits.
CommitEvent(c) ==
    LET k == EventOf(c).key
        new == Applied(row[k], consumed, job[c].copy[1], EventOf(c))
    IN row' = [row EXCEPT ![k] = new.row] /\ consumed' = new.consumed

GoTo(c, phase) == job' = [job EXCEPT ![c].phase = phase]

PersistVoteEvent(c) ==
    /\ job[c].phase = "persist"
    /\ \/ StatusOf(c) = "conflict" /\ GoTo(c, "dead") /\ UNCHANGED mysqlVars
       \/ StatusOf(c) # "conflict" /\ GoTo(c, "ack") /\ CommitEvent(c)
    /\ UNCHANGED <<redisVars, outboxVars, relayVars, brokerVars, faults>>

\* One failure too many, or one too few, before a message is given up.
GivesUpEarly(n) == n + 1 >= MaxRetries
GivesUp(n) == n + 1 > MaxRetries

\* MySQL reports another error, whether or not the transaction has committed.
PersistFails(c) ==
    /\ job[c].phase = "persist" /\ Fault
    /\ \/ UNCHANGED mysqlVars
       \/ StatusOf(c) # "conflict" /\ CommitEvent(c)
    /\ GoTo(c, IF GivesUp(job[c].copy[2]) THEN "dead" ELSE "retry")
    /\ UNCHANGED <<redisVars, outboxVars, relayVars, brokerVars>>

\* retryVoteDelivery and moveToDeadLetter: the confirmed publication.
Republish(c) ==
    LET i == job[c].copy[1]
        n == job[c].copy[2]
    IN \/ job[c].phase = "retry" /\ retry' = Put(retry, <<i, n + 1>>) /\ UNCHANGED dead
       \/ job[c].phase = "dead" /\ dead' = dead \cup {i} /\ UNCHANGED retry

Republished(c) ==
    /\ job[c].phase \in {"retry", "dead"}
    /\ Republish(c)
    /\ GoTo(c, "ack")
    /\ UNCHANGED <<redisVars, outboxVars, relayVars, main, mysqlVars, faults>>

Finish(c) == job' = [job EXCEPT ![c] = Idle]

\* A Nack that discards the delivery instead of requeueing it.
Discard(c) == main
\* The delivery goes back to the main queue, unless the broker took it back.
Requeue(c) == IF job[c].owned THEN Put(main, job[c].copy) ELSE main

\* The publication fails, stored by the broker or not: Nack with requeue, which
\* returns the delivery with the retry count it came with.
RepublishFails(c) ==
    /\ job[c].phase \in {"retry", "dead"} /\ Fault
    /\ Republish(c) \/ UNCHANGED <<retry, dead>>
    /\ main' = Requeue(c) /\ Finish(c)
    /\ UNCHANGED <<redisVars, outboxVars, relayVars, mysqlVars>>

\* delivery.Ack: the broker forgets the delivery, and the handler returns.  The
\* Ack of a delivery that the broker took back fails, with no other effect.
AckDelivery(c) ==
    /\ job[c].phase = "ack"
    /\ Finish(c)
    /\ UNCHANGED <<redisVars, outboxVars, relayVars, brokerVars, mysqlVars, faults>>

\* The channel closes while the handler runs: the broker redelivers, the handler
\* knows nothing of it.
LoseDelivery(c) ==
    /\ job[c].owned /\ Fault
    /\ main' = Requeue(c)
    /\ job' = [job EXCEPT ![c].owned = FALSE]
    /\ UNCHANGED <<redisVars, outboxVars, relayVars, retry, dead, mysqlVars>>

\* The consumer's process ends: what it had not acknowledged is redelivered.
ConsumerCrash(c) ==
    /\ job[c] # Idle /\ Fault
    /\ main' = Requeue(c) /\ Finish(c)
    /\ UNCHANGED <<redisVars, outboxVars, relayVars, retry, dead, mysqlVars>>

-----------------------------------------------------------------------------

RelayStep(r) ==
    \/ ClaimStale(r) \/ ReadOwn(r) \/ ReadNew(r) \/ Publish(r) \/ AckVoteOutbox(r)

RelayFault(r) ==
    \/ ClaimReplyLost(r) \/ ReadFails(r) \/ PublishFails(r) \/ AckFails(r) \/ Crash(r)

ConsumerStep(c) ==
    Consume(c) \/ PersistVoteEvent(c) \/ Republished(c) \/ AckDelivery(c)

ConsumerFault(c) ==
    PersistFails(c) \/ RepublishFails(c) \/ LoseDelivery(c) \/ ConsumerCrash(c)

Next ==
    \/ \E u \in Users, p \in Posts, d \in Directions : Vote(u, p, d)
    \/ \E r \in Relays : RelayStep(r) \/ RelayFault(r) \/ Restart(r)
    \/ \E c \in Consumers : ConsumerStep(c) \/ ConsumerFault(c)
    \/ RetryExpires

Spec == Init /\ [][Next]_vars

\* Every running relay and consumer keeps going, the retry queue's TTL passes,
\* and a steady relay is restarted and in the end finds what a crashed one left
\* pending to have been idle for 30 seconds.  No vote and no fault need happen.
Claims(r, i) == owner[i] # r /\ ClaimStale(r) /\ owner'[i] = r

Fairness ==
    /\ \A r \in Relays : WF_vars(RelayStep(r))
    /\ \A r \in Steady : WF_vars(Restart(r)) /\ \A i \in Ids : SF_vars(Claims(r, i))
    /\ \A c \in Consumers : WF_vars(ConsumerStep(c))
    /\ WF_vars(RetryExpires)

FairSpec == Spec /\ Fairness

-----------------------------------------------------------------------------
(* Safety                                                                   *)

\* What Redis holds for a vote, as a row of post_vote.
InRedis(k) == [dir |-> dir[k], ver |-> ver[k]]

\* The rows of MySQL are votes that were really cast: dao/mysql/vote.go:47
\* never pairs the version of one event with the direction of another, nor runs
\* ahead of Redis, whatever was repeated or reordered on the way.
RowsAreGenuine ==
    \A k \in Keys :
        row[k] # NoRow =>
            /\ row[k].ver <= ver[k]
            /\ \E i \in 1..Len(events) :
                  events[i] = [key |-> k, dir |-> row[k].dir, ver |-> row[k].ver]

\* A copy of event i that the broker still owes to somebody.
InQueue(queue, i) == \E n \in 0..MaxRetries : queue[<<i, n>>] > 0
Held(i) ==
    \E c \in Consumers : job[c].owned /\ job[c].copy[1] = i /\ job[c].phase # "ack"

Safe(i) ==
    InQueue(main, i) \/ InQueue(retry, i) \/ Held(i) \/ i \in dead \/ i \in consumed

\* At-least-once delivery (docs/PROJECT_REFACTOR_DESIGN.md, 4.1): an event that
\* Redis accepted is in the outbox, in RabbitMQ, or applied.  It holds between any
\* two steps of the relay (publish, then ack) and of the consumer (republish, then
\* ack).
NothingLost == \A i \in 1..Len(events) : i \in stream \/ Safe(i)

\* The id table and the votes move together: an event that a redelivery would
\* find consumed (dao/mysql/vote.go:31) has had its effect on the row.
ConsumedMeansApplied ==
    \A i \in consumed : i \in 1..Len(events) /\ row[events[i].key].ver >= events[i].ver

\* What an operator can see before a rebuild: an empty stream and empty queues,
\* no unacknowledged delivery.  Handlers whose delivery was taken back may
\* still be running.
Drained ==
    /\ stream = {} /\ dead = {}
    /\ \A m \in Copies : main[m] = 0 /\ retry[m] = 0
    /\ \A c \in Consumers : ~job[c].owned

\* The precondition of RebuildRedisFromMySQL (README.md, the maintenance window):
\* once everything has drained, MySQL holds exactly the votes of Redis.
DrainedMeansEqual == Drained => \A k \in Keys : row[k] = InRedis(k)

\* post:score less the creation time is 432 times the sum of the directions
\* (docs/PROJECT_REFACTOR_DESIGN.md, 14.3): vote.lua adds differences, and a vote
\* may be cast, turned and withdrawn in any order.
VotesFor(p) ==
    Cardinality({u \in Users : dir[<<u, p>>] = 1}) - Cardinality({u \in Users : dir[<<u, p>>] = -1})
ScoreIsSumOfVotes == \A p \in Posts : score[p] = VotesFor(p)

\* ErrVoteEventConflict never strikes an event of the script: two different
\* events of a vote never share a version, so no duplicate, stale copy or race of
\* two consumers sends a genuine vote to the dead-letter queue that way.
NoGenuineConflict ==
    \A c \in Consumers : job[c].phase = "persist" => StatusOf(c) # "conflict"

\* A message reaches the dead-letter queue only after MaxRetries + 1 failures:
\* the header counts through the retry queue, and neither redelivery nor a
\* duplicate lets a message arrive with fewer attempts left than it is due.
DeadOnlyAfterAllRetries == dead # {} => faults > MaxRetries

\* Without a failure nothing is sent twice: of each event there is at most one
\* copy, in one place, and none once it has left the outbox and been consumed,
\* although several relays read the same stream.
CopiesOf(i) ==
    Cardinality({n \in 0..MaxRetries : main[<<i, n>>] > 0})
    + Cardinality({r \in Relays : i \in batch[r] /\ ~(confirmed[r] /\ i = Lowest(batch[r]))})
    + Cardinality({c \in Consumers : job[c].owned /\ job[c].copy[1] = i})
NoFaultNoDuplicate ==
    faults = 0 => \A i \in 1..Len(events) :
        /\ CopiesOf(i) <= 1
        /\ \A n \in 0..MaxRetries : main[<<i, n>>] <= 1
        /\ i \in Undelivered => CopiesOf(i) = 0

-----------------------------------------------------------------------------
(* The inductive invariant of the proofs                                    *)

\* Nothing but events of the script is anywhere, and a message on its way to the
\* retry queue has attempts left.
Known ==
    /\ stream \subseteq 1..Len(events) /\ dead \subseteq 1..Len(events)
    /\ \A r \in Relays : batch[r] \subseteq 1..Len(events)
    /\ \A m \in Copies : main[m] > 0 \/ retry[m] > 0 => m[1] \in 1..Len(events)
    /\ \A c \in Consumers :
          /\ job[c].phase # "idle" => job[c].copy[1] \in 1..Len(events)
          /\ job[c].phase = "retry" => job[c].copy[2] < MaxRetries

\* Redis numbers the events of a vote without gaps to its present version: the
\* newest event is what Redis holds, and no two share a version.
EventsNumbered ==
    /\ \A i \in 1..Len(events) : events[i].ver <= ver[events[i].key]
    /\ \A k \in Keys : InRedis(k) # NoRow =>
          \E i \in 1..Len(events) :
              events[i] = [key |-> k, dir |-> dir[k], ver |-> ver[k]]
    /\ \A i, j \in 1..Len(events) :
          events[i].key = events[j].key /\ events[i].ver = events[j].ver => i = j

\* What a relay is about to remove from the outbox, and what a consumer is about
\* to acknowledge, is safe without it.
Answered ==
    /\ \A r \in Relays : confirmed[r] => batch[r] # {} /\ Safe(Lowest(batch[r]))
    /\ \A c \in Consumers : job[c].phase = "ack" => Safe(job[c].copy[1])

\* An entry of the outbox is yet to be delivered to a relay or pending with one: a
\* position of the group that overtakes an entry would leave it to nobody.
Attended ==
    /\ lastDelivered <= Len(events)
    /\ \A i \in stream : i > lastDelivered \/ owner[i] # NoRelay

\* The inductive strengthening of NothingLost, RowsAreGenuine and
\* ConsumedMeansApplied, of which DrainedMeansEqual is a consequence.
IInv ==
    /\ TypeOK /\ Known /\ EventsNumbered /\ Answered /\ Attended
    /\ RowsAreGenuine /\ ConsumedMeansApplied /\ NothingLost

-----------------------------------------------------------------------------
(* Steps and liveness                                                       *)

\* A row of MySQL changes only to a newer version, and an id once consumed stays
\* so: an old event that arrives late cannot bring an old vote back.
RowsOnlyAdvance ==
    [][ /\ \A k \in Keys : row'[k] # row[k] => row'[k].ver > row[k].ver
        /\ consumed \subseteq consumed' ]_vars

\* What a user has voted reaches MySQL, and stays there: this is the eventual
\* consistency of docs/PROJECT_REFACTOR_DESIGN.md, 4.2, without exception.
Converges == <>[](\A k \in Keys : row[k] = InRedis(k))

\* The same, unless some event was dead-lettered: nothing else is in the way, not
\* even a relay that crashes and never returns.
ConvergesOrDeadLetters == <>(dead # {}) \/ Converges

\* Every entry leaves the outbox, so the stream does not grow without bound while
\* one steady relay runs.
OutboxDrains == \A i \in Ids : i \in stream ~> i \notin stream

\* What the pipeline promises: MySQL lags behind Redis, takes over only votes that
\* were cast, and only forwards.
Replica == INSTANCE VoteReplica WITH
    accepted <- [k \in Keys |-> InRedis(k)],
    log <- {events[i] : i \in 1..Len(events)},
    persisted <- row
ImplementsReplica == Replica!Spec

\* What PostIndex takes for the path of a vote: an event counts as in RabbitMQ once
\* a copy of it is safe there, wherever its entry still is, and as in MySQL once it
\* is consumed.  Whatever is repeated, retried, requeued, dead-lettered or crashes in
\* between, an event takes these two steps, each once, and none is skipped; its entry
\* is not removed before the first, and may outlive the second.
HasCopy(i) ==
    \/ InQueue(main, i) \/ InQueue(retry, i) \/ i \in dead
    \/ \E c \in Consumers : job[c].owned /\ job[c].copy[1] = i
Path == INSTANCE VotePath WITH
    vote <- [k \in Keys |-> InRedis(k)],
    unsent <- {events[i] : i \in {j \in 1..Len(events) : ~Safe(j)}},
    unacked <- \E i \in stream : Safe(i),
    broker <- {events[i] : i \in {j \in 1..Len(events) : Safe(j) /\ j \notin consumed}},
    copies <- \E i \in consumed : HasCopy(i),
    row <- row
ImplementsPath == Path!Spec
=============================================================================
