---------------------------- MODULE VotePathProofs ----------------------------
(***************************************************************************)
(* Proof that VotePipeline implements VotePath, the path of a vote from    *)
(* which PostIndex is built: relays, copies, retries, redeliveries and     *)
(* crashes come to an event being relayed once and persisted once.         *)
(***************************************************************************)
EXTENDS VotePipelineProofs

\* The events that only the outbox has, and those that RabbitMQ still owes MySQL;
\* whether the outbox has others, and RabbitMQ copies of what MySQL has.
Unrelayed == {i \in 1..Len(events) : ~Safe(i)}
Unpersisted == {i \in 1..Len(events) : Safe(i) /\ i \notin consumed}
Unacknowledged == \E i \in stream : Safe(i)
Repeated == \E i \in consumed : HasCopy(i)

\* What a consumer works on is safe without it, even when the broker has taken the
\* delivery back: the copy it took from the main queue has only gone to safe places.
HandledSafe == \A c \in Consumers : job[c].phase # "idle" => Safe(job[c].copy[1])

PInv == IInv /\ HandledSafe

-----------------------------------------------------------------------------
(* Where a copy can come from                                               *)

\* A queue into which one message has been put holds that one besides.
LEMMA InQueueAfterPut ==
    ASSUME NEW q \in [Copies -> Nat], NEW i \in Ids, NEW j, NEW n,
           InQueue(Put(q, <<j, n>>), i)
    PROVE  InQueue(q, i) \/ i = j
<1>1. PICK m \in 0..MaxRetries : Put(q, <<j, n>>)[<<i, m>>] > 0
  BY DEF InQueue
<1>2. <<i, m>> # <<j, n>> => Put(q, <<j, n>>)[<<i, m>>] = q[<<i, m>>]
  BY CopyParts DEF Put
<1> QED
  BY <1>1, <1>2 DEF InQueue

\* A queue from which one message has been taken holds nothing else.
LEMMA InQueueAfterTake ==
    ASSUME NEW q \in [Copies -> Nat], NEW i \in Ids, NEW m \in Copies,
           InQueue(Take(q, m), i)
    PROVE  InQueue(q, i)
<1>1. PICK n \in 0..MaxRetries : Take(q, m)[<<i, n>>] > 0
  BY DEF InQueue
<1>2. q[<<i, n>>] \in Nat /\ (Take(q, m)[<<i, n>>] = q[<<i, n>>]
                              \/ Take(q, m)[<<i, n>>] = q[<<i, n>>] - 1)
  BY CopyParts DEF Take
<1> QED
  BY <1>1, <1>2 DEF InQueue

\* A message in a queue is a copy of its event.
LEMMA InQueueOf ==
    ASSUME NEW q \in [Copies -> Nat], NEW m \in Copies, q[m] > 0
    PROVE  InQueue(q, m[1]) /\ m[1] \in Ids /\ m = <<m[1], m[2]>>
<1>1. m[1] \in Ids /\ m[2] \in 0..MaxRetries /\ m = <<m[1], m[2]>>
  BY DEF Copies
<1> QED
  BY <1>1 DEF InQueue

\* A step of a consumer makes no event safe that was not: whatever it puts anywhere
\* is the message it works on.
LEMMA ConsumerAddsNothing ==
    ASSUME TypeOK, HandledSafe, NEW c \in Consumers, ConsumerStep(c) \/ ConsumerFault(c),
           NEW i \in Ids, Safe(i)'
    PROVE  Safe(i)
<1>0. /\ main \in [Copies -> Nat] /\ retry \in [Copies -> Nat]
      /\ JobTypes /\ job \in [Consumers -> JobType]
  BY DEF TypeOK, BrokerTypes, JobTypes
<1>h. job[c].phase # "idle" /\ i = job[c].copy[1] => Safe(i)
  BY DEF HandledSafe
<1>o. ASSUME NEW b \in Consumers, b # c, job'[b].owned, job'[b].copy[1] = i,
             job'[b].phase # "ack"
      PROVE  Safe(i)
  <2>1. job'[b] = job[b]
    BY <1>0, <1>o, OtherJobs
  <2> QED
    BY <1>o, <2>1 DEF Safe, Held
<1>g. ASSUME NEW s \in {"persist", "retry", "dead", "ack"}, GoTo(c, s)
      PROVE  job'[c].copy = job[c].copy
  BY <1>0, <1>g DEF GoTo, JobType, Idle
\* The handler goes on with its delivery, or has none any more.
<1>j. ASSUME job[c].phase # "idle", job'[c].copy = job[c].copy \/ job'[c] = Idle, Held(i)'
      PROVE  Safe(i)
  <2>1. PICK b \in Consumers : job'[b].owned /\ job'[b].copy[1] = i /\ job'[b].phase # "ack"
    BY <1>j DEF Held
  <2> QED
    BY <1>h, <1>o, <1>j, <2>1 DEF Idle
<1>n. \/ consumed' = consumed
      \/ job[c].phase = "persist" /\ consumed' = consumed \cup {job[c].copy[1]}
  BY ConsumerCommits, CommitConsumes DEF mysqlVars
<1>c. i \in consumed' => Safe(i)
  BY <1>n, <1>h DEF Safe
<1>1. CASE Consume(c)
  <2>1. PICK m \in Copies :
          /\ main[m] > 0 /\ main' = Take(main, m)
          /\ job' = [job EXCEPT ![c] = [phase |-> "persist", copy |-> m, owned |-> TRUE]]
    BY <1>1 DEF Consume
  <2>2. retry' = retry /\ dead' = dead
    BY <1>1 DEF Consume
  <2>3. InQueue(main, i)' => Safe(i)
    BY <1>0, <2>1, InQueueAfterTake DEF InQueue, Safe
  <2>4. InQueue(main, m[1])
    BY <1>0, <2>1, InQueueOf
  <2>5. job'[c].copy = m
    BY <1>0, <2>1
  <2>6. Held(i)' => Safe(i)
    BY <1>o, <2>4, <2>5 DEF Held, Safe
  <2> QED
    BY <1>c, <2>2, <2>3, <2>6 DEF Safe, InQueue
<1>2. CASE PersistVoteEvent(c) \/ PersistFails(c)
  <2>1. UNCHANGED <<main, retry, dead>> /\ job[c].phase = "persist"
    BY <1>2 DEF PersistVoteEvent, PersistFails, brokerVars
  <2>2. GoTo(c, "ack") \/ GoTo(c, "dead") \/ GoTo(c, "retry")
    BY <1>2 DEF PersistVoteEvent, PersistFails
  <2>3. Held(i)' => Safe(i)
    BY <1>g, <1>j, <2>1, <2>2
  <2> QED
    BY <1>c, <2>1, <2>3 DEF Safe, InQueue
<1>3. CASE Republished(c) \/ RepublishFails(c)
  <2>1. job[c].phase \in {"retry", "dead"} /\ (Republish(c) \/ UNCHANGED <<retry, dead>>)
    BY <1>3 DEF Republished, RepublishFails
  <2>2. job[c].phase # "idle" /\ job[c].copy = <<job[c].copy[1], job[c].copy[2]>>
    BY <1>0, <2>1, JobCopy
  <2>3. InQueue(retry, i)' => Safe(i)
    <3>1. InQueue(retry, i)' => InQueue(retry, i) \/ i = job[c].copy[1]
      BY <1>0, <2>1, InQueueAfterPut DEF Republish, InQueue
    <3> QED
      BY <1>h, <2>2, <3>1 DEF Safe
  <2>4. i \in dead' => Safe(i)
    BY <1>h, <2>1, <2>2 DEF Republish, Safe
  <2>5. main' = main \/ main' = Put(main, <<job[c].copy[1], job[c].copy[2]>>)
    BY <1>3, <2>2 DEF Republished, RepublishFails, Requeue
  <2>6. InQueue(main, i)' => Safe(i)
    <3>1. InQueue(main, i)' => InQueue(main, i) \/ i = job[c].copy[1]
      BY <1>0, <2>5, InQueueAfterPut DEF InQueue
    <3> QED
      BY <1>h, <2>2, <3>1 DEF Safe
  <2>7. job'[c].copy = job[c].copy \/ job'[c] = Idle
    BY <1>0, <1>3, <1>g DEF Republished, RepublishFails, Finish
  <2>8. Held(i)' => Safe(i)
    BY <1>j, <2>2, <2>7
  <2> QED
    BY <1>c, <2>3, <2>4, <2>6, <2>8 DEF Safe
<1>4. CASE AckDelivery(c)
  <2>1. UNCHANGED <<main, retry, dead>> /\ job[c].phase = "ack" /\ job'[c] = Idle
    BY <1>0, <1>4 DEF AckDelivery, Finish, brokerVars
  <2>2. Held(i)' => Safe(i)
    BY <1>j, <2>1
  <2> QED
    BY <1>c, <2>1, <2>2 DEF Safe, InQueue
<1>5. CASE LoseDelivery(c) \/ ConsumerCrash(c)
  <2>1. job[c].phase # "idle" /\ UNCHANGED <<retry, dead>> /\ main' = Requeue(c)
    BY <1>0, <1>5 DEF LoseDelivery, ConsumerCrash, JobType, Idle
  <2>2. job[c].copy = <<job[c].copy[1], job[c].copy[2]>>
    BY <1>0, <2>1, JobCopy
  <2>3. InQueue(main, i)' => Safe(i)
    <3>1. InQueue(main, i)' => InQueue(main, i) \/ i = job[c].copy[1]
      BY <1>0, <2>1, <2>2, InQueueAfterPut DEF InQueue, Requeue
    <3> QED
      BY <1>h, <2>1, <3>1 DEF Safe
  <2>4. job'[c].copy = job[c].copy \/ job'[c] = Idle
    BY <1>0, <1>5 DEF LoseDelivery, ConsumerCrash, Finish, JobType, Idle
  <2>5. Held(i)' => Safe(i)
    BY <1>j, <2>1, <2>4
  <2> QED
    BY <1>c, <2>1, <2>3, <2>5 DEF Safe, InQueue
<1> QED
  BY <1>1, <1>2, <1>3, <1>4, <1>5 DEF ConsumerStep, ConsumerFault

\* The retry queue hands back what it held.
LEMMA ExpiryAddsNothing ==
    ASSUME TypeOK, RetryExpires, NEW i \in Ids, Safe(i)'
    PROVE  Safe(i)
<1>0. main \in [Copies -> Nat] /\ retry \in [Copies -> Nat]
  BY DEF TypeOK, BrokerTypes
<1>1. PICK m \in Copies : retry[m] > 0 /\ retry' = Take(retry, m) /\ main' = Put(main, m)
  BY DEF RetryExpires
<1>2. UNCHANGED <<dead, job, consumed>>
  BY DEF RetryExpires, mysqlVars
<1>3. InQueue(retry, m[1]) /\ m = <<m[1], m[2]>>
  BY <1>0, <1>1, InQueueOf
<1>4. InQueue(main, i)' => InQueue(main, i) \/ i = m[1]
  BY <1>0, <1>1, <1>3, InQueueAfterPut DEF InQueue
<1>5. InQueue(retry, i)' => InQueue(retry, i)
  BY <1>0, <1>1, InQueueAfterTake DEF InQueue
<1>6. Held(i)' => Held(i)
  BY <1>2 DEF Held
<1> QED
  BY <1>2, <1>3, <1>4, <1>5, <1>6 DEF Safe

\* A relay puts at most one message into the main queue, and no step of its changes
\* both the queue and the outbox.
LEMMA RelayPutsOne ==
    ASSUME TypeOK, Known, NEW r \in Relays, RelayStep(r) \/ RelayFault(r) \/ Restart(r)
    PROVE  \/ UNCHANGED main /\ stream' \subseteq stream
           \/ \E j \in 1..Len(events) : UNCHANGED stream /\ main' = Put(main, <<j, 0>>)
<1>1. \/ UNCHANGED main /\ stream' \subseteq stream
      \/ UNCHANGED stream /\ batch[r] # {} /\ main' = Put(main, <<Lowest(batch[r]), 0>>)
  BY DEF RelayStep, RelayFault, ClaimStale, ReadOwn, ReadNew, Publish, AckVoteOutbox,
         ClaimReplyLost, ReadFails, PublishFails, AckFails, Crash, Restart, brokerVars,
         outboxVars, Remove
<1>2. batch[r] # {} => Lowest(batch[r]) \in 1..Len(events)
  <2>1. batch[r] \in SUBSET Ids
    BY DEF TypeOK, RelayTypes
  <2> QED
    BY <2>1, LowestIn DEF Known
<1> QED
  BY <1>1, <1>2

\* The message put into the main queue makes its own event safe and no other, and is
\* a copy of no other.
LEMMA PutAddsOne ==
    ASSUME TypeOK, NEW j, UNCHANGED <<job, retry, dead, mysqlVars>>,
           main' = Put(main, <<j, 0>>), NEW i \in Ids, i # j
    PROVE  (Safe(i)' <=> Safe(i)) /\ (HasCopy(i)' <=> HasCopy(i))
<1>1. ASSUME NEW n \in 0..MaxRetries PROVE main'[<<i, n>>] = main[<<i, n>>]
  <2>1. main \in [Copies -> Nat] /\ <<i, n>> \in Copies /\ <<i, n>> # <<j, 0>>
    BY CopyParts DEF TypeOK, BrokerTypes
  <2> QED
    BY <2>1 DEF Put
<1>2. /\ InQueue(main, i)' <=> InQueue(main, i)
      /\ InQueue(retry, i)' <=> InQueue(retry, i)
  BY <1>1 DEF InQueue
<1> QED
  BY <1>2 DEF Safe, HasCopy, Held, mysqlVars

-----------------------------------------------------------------------------
(* The invariant                                                            *)

\* A handler keeps its message, which stays safe; a new one comes from a queue.
LEMMA HandledSafeStep ==
    ASSUME TypeOK, Known, HandledSafe, [Next]_vars
    PROVE  HandledSafe'
<1>0. JobTypes /\ job \in [Consumers -> JobType] /\ main \in [Copies -> Nat]
  BY DEF TypeOK, JobTypes, BrokerTypes
<1>i. ASSUME NEW c \in Consumers, NEW i \in Ids, Safe(i), job'[c].copy[1] = i
      PROVE  Safe(job[c].copy[1])'
  <2>1. Safe(i)'
    BY <1>i, SafeStable
  <2> QED
    BY <1>i, <2>1 DEF Safe, InQueue, Held
<1>k. ASSUME NEW c \in Consumers, job[c].phase # "idle", job'[c].copy = job[c].copy
      PROVE  Safe(job[c].copy[1])'
  <2>1. job[c].copy[1] \in Ids /\ Safe(job[c].copy[1])
    BY <1>0, <1>k, JobCopy DEF HandledSafe
  <2>2. PICK i \in Ids : i = job[c].copy[1] /\ Safe(i)
    BY <2>1
  <2> QED
    BY <1>i, <1>k, <2>2
<1>1. ASSUME UNCHANGED job PROVE HandledSafe'
  BY <1>1, <1>k DEF HandledSafe
<1>2. ASSUME NEW c \in Consumers, ConsumerStep(c) \/ ConsumerFault(c)
      PROVE  HandledSafe'
  <2>1. ASSUME NEW b \in Consumers, b # c, job'[b].phase # "idle"
        PROVE  Safe(job[b].copy[1])'
    BY <1>0, <1>2, <1>k, <2>1, OtherJobs
  <2>g. ASSUME NEW s, GoTo(c, s) PROVE job'[c].copy = job[c].copy
    BY <1>0, <2>g DEF GoTo, JobType, Idle
  <2>2. CASE Consume(c)
    <3>1. PICK m \in Copies : main[m] > 0
              /\ job' = [job EXCEPT ![c] = [phase |-> "persist", copy |-> m, owned |-> TRUE]]
      BY <2>2 DEF Consume
    <3>2. Safe(m[1]) /\ m[1] \in Ids
      BY <1>0, <3>1, InQueueOf DEF Safe
    <3>3. job'[c].copy[1] = m[1]
      BY <1>0, <3>1
    <3>4. Safe(job[c].copy[1])'
      BY <1>i, <3>2, <3>3
    <3> QED
      BY <2>1, <3>4 DEF HandledSafe
  <2>3. CASE job[c].phase # "idle" /\ job'[c].copy = job[c].copy
    BY <1>k, <2>1, <2>3 DEF HandledSafe
  <2>4. CASE job'[c] = Idle
    BY <2>1, <2>4 DEF HandledSafe, Idle
  <2>5. CASE PersistVoteEvent(c) \/ PersistFails(c) \/ Republished(c)
    BY <2>3, <2>5, <2>g DEF PersistVoteEvent, PersistFails, Republished
  <2>6. CASE LoseDelivery(c)
    BY <1>0, <2>3, <2>6 DEF LoseDelivery, JobType, Idle
  <2>7. CASE AckDelivery(c) \/ RepublishFails(c) \/ ConsumerCrash(c)
    BY <1>0, <2>4, <2>7 DEF AckDelivery, RepublishFails, ConsumerCrash, Finish
  <2> QED
    BY <1>2, <2>2, <2>5, <2>6, <2>7 DEF ConsumerStep, ConsumerFault
<1> QED
  BY <1>1, <1>2, NextCases, RelayFrame DEF Vote, RetryExpires, vars

LEMMA PathInvariance == Spec => []PInv
<1>1. Init => HandledSafe
  BY DEF Init, HandledSafe, Idle
<1>2. PInv /\ [Next]_vars => PInv'
  BY NextIInv, HandledSafeStep DEF PInv, IInv
<1> QED
  BY <1>1, <1>2, InitIInv, PTL DEF PInv, Spec

-----------------------------------------------------------------------------
(* Every step is one of the path's, or none                                 *)

\* Two events are never the same: a set of events less one is what its positions
\* less one stand for.
LEMMA WithoutOne ==
    ASSUME TypeOK, EventsNumbered, NEW S \in SUBSET (1..Len(events)), NEW i \in S
    PROVE  {events[j] : j \in S \ {i}} = {events[j] : j \in S} \ {events[i]}
BY DEF EventsNumbered

\* Where nothing has been applied there is no copy of it; where something has, a row
\* shows it.
LEMMA AppliedShows ==
    ASSUME TypeOK, ConsumedMeansApplied, NEW i \in consumed
    PROVE  \E k \in Keys : row[k] # NoRow
<1>1. i \in 1..Len(events) /\ row[events[i].key].ver >= events[i].ver
  BY DEF ConsumedMeansApplied
<1>2. events[i].key \in Keys /\ events[i].ver \in Nat \ {0}
  BY <1>1, EventsAreEvents
<1>3. row[events[i].key] # NoRow
  BY <1>1, <1>2 DEF NoRow
<1> QED
  BY <1>2, <1>3

\* A step that changes neither Redis's votes, nor what is safe, nor MySQL: of the
\* outbox it removes entries of safe events or nothing, of RabbitMQ it changes only
\* copies of what was applied.
LEMMA PathQuiet ==
    ASSUME IInv, UNCHANGED redisVars, UNCHANGED mysqlVars,
           \A i \in 1..Len(events) : Safe(i)' <=> Safe(i),
           \/ UNCHANGED stream
           \/ stream' \subseteq stream /\ UNCHANGED <<brokerVars, job>>
    PROVE  Path!Next \/ UNCHANGED Path!vars
<1>0. TypeOK /\ Known /\ ConsumedMeansApplied /\ stream \subseteq 1..Len(events)
  BY DEF IInv, Known
<1>1. Unrelayed' = Unrelayed /\ Unpersisted' = Unpersisted
  BY DEF Unrelayed, Unpersisted, redisVars, mysqlVars
<1>2. /\ UNCHANGED events /\ UNCHANGED row
      /\ [k \in Keys |-> InRedis(k)]' = [k \in Keys |-> InRedis(k)]
  BY DEF redisVars, mysqlVars, InRedis
<1>3. /\ {events[i] : i \in Unrelayed}' = {events[i] : i \in Unrelayed}
      /\ {events[i] : i \in Unpersisted}' = {events[i] : i \in Unpersisted}
  BY <1>1, <1>2
<1>4. CASE UNCHANGED stream
  <2>1. Unacknowledged' = Unacknowledged
    BY <1>0, <1>4 DEF Unacknowledged
  <2>2. CASE Repeated' = Repeated
    BY <1>2, <1>3, <2>1, <2>2 DEF Unrelayed, Unpersisted, Unacknowledged, Repeated, Path!vars
  <2>3. CASE Repeated' # Repeated
    <3>1. Repeated \in BOOLEAN /\ Repeated' \in BOOLEAN
      BY DEF Repeated
    <3>2. PICK i \in consumed : TRUE
      BY <2>3, <3>1 DEF Repeated, mysqlVars
    <3>3. \E k \in Path!Keys : row[k] # Path!NoRow
      BY <1>0, <3>2, AppliedShows DEF Keys, Path!Keys, NoRow, Path!NoRow
    <3>4. Path!CopiesComeAndGo
      BY <1>2, <1>3, <2>1, <3>1, <3>3
      DEF Unrelayed, Unpersisted, Unacknowledged, Repeated, Path!CopiesComeAndGo
    <3> QED
      BY <3>4 DEF Path!Next
  <2> QED
    BY <2>2, <2>3
<1>5. CASE stream' \subseteq stream /\ UNCHANGED <<brokerVars, job>>
  <2>1. Repeated' = Repeated
    BY <1>5 DEF Repeated, HasCopy, InQueue, brokerVars, mysqlVars
  <2>2. Unacknowledged' => Unacknowledged
    BY <1>0, <1>5 DEF Unacknowledged
  <2>3. Unacknowledged \in BOOLEAN /\ Unacknowledged' \in BOOLEAN
    BY DEF Unacknowledged
  <2>4. CASE Unacknowledged' = Unacknowledged
    BY <1>2, <1>3, <2>1, <2>4 DEF Unrelayed, Unpersisted, Unacknowledged, Repeated, Path!vars
  <2>5. CASE Unacknowledged
    <3>1. Path!Acknowledge
      BY <1>2, <1>3, <2>1, <2>3, <2>5
      DEF Unrelayed, Unpersisted, Unacknowledged, Repeated, Path!Acknowledge
    <3> QED
      BY <3>1 DEF Path!Next
  <2> QED
    BY <2>2, <2>3, <2>4, <2>5
<1> QED
  BY <1>4, <1>5

\* An event becomes safe for the first time, and its entry stays.
LEMMA PathRelay ==
    ASSUME IInv, UNCHANGED redisVars, UNCHANGED mysqlVars, UNCHANGED <<stream, job, retry, dead>>,
           NEW j \in 1..Len(events), main' = Put(main, <<j, 0>>), ~Safe(j), Safe(j)'
    PROVE  Path!Relay
<1>0. /\ TypeOK /\ EventsNumbered /\ 1..Len(events) \subseteq Ids
      /\ consumed \subseteq 1..Len(events) /\ j \notin consumed /\ j \in stream
  BY EventsAreEvents DEF IInv, ConsumedMeansApplied, NothingLost, Safe
<1>e. \A i \in 1..Len(events) :
        i # j => (Safe(i)' <=> Safe(i)) /\ (HasCopy(i)' <=> HasCopy(i))
  BY <1>0, PutAddsOne
<1>1. Unrelayed' = Unrelayed \ {j} /\ Unpersisted' = Unpersisted \cup {j} /\ j \in Unrelayed
  BY <1>e DEF Unrelayed, Unpersisted, redisVars, mysqlVars, Safe
<1>2. /\ UNCHANGED events /\ UNCHANGED row
      /\ [k \in Keys |-> InRedis(k)]' = [k \in Keys |-> InRedis(k)]
  BY DEF redisVars, mysqlVars, InRedis
<1>3. {events[i] : i \in Unrelayed \ {j}} = {events[i] : i \in Unrelayed} \ {events[j]}
  BY <1>0, <1>1, WithoutOne DEF Unrelayed
<1>4. {events[i] : i \in Unpersisted \cup {j}}
        = {events[i] : i \in Unpersisted} \cup {events[j]}
  OBVIOUS
<1>5. /\ events[j] \in {events[i] : i \in Unrelayed}
      /\ {events[i] : i \in Unrelayed}' = {events[i] : i \in Unrelayed} \ {events[j]}
      /\ {events[i] : i \in Unpersisted}' = {events[i] : i \in Unpersisted} \cup {events[j]}
  BY <1>1, <1>2, <1>3, <1>4
<1>6. Unacknowledged' = TRUE
  BY <1>0 DEF Unacknowledged
<1>7. Repeated' = Repeated
  BY <1>0, <1>e DEF Repeated, mysqlVars
<1> QED
  BY <1>2, <1>5, <1>6, <1>7 DEF Path!Relay, Unrelayed, Unpersisted, Unacknowledged, Repeated

\* An event is consumed: its effect on the row is the upsert's, whoever commits it
\* and whatever has overtaken it.
LEMMA PathPersist ==
    ASSUME IInv, HandledSafe, NEW c \in Consumers, job[c].phase = "persist", CommitEvent(c),
           job[c].copy[1] \notin consumed, UNCHANGED redisVars, UNCHANGED stream,
           \A i \in 1..Len(events) : Safe(i)' <=> Safe(i)
    PROVE  Path!Persist
<1> DEFINE j == job[c].copy[1]
<1>0. TypeOK /\ EventsNumbered /\ Known
  BY DEF IInv
<1>1. j \in 1..Len(events) /\ EventOf(c) = events[j] /\ Safe(j)
  BY <1>0 DEF Known, EventOf, HandledSafe
<1>2. consumed' = consumed \cup {j}
  BY CommitConsumes
<1>3. Unrelayed' = Unrelayed /\ Unpersisted' = Unpersisted \ {j} /\ j \in Unpersisted
  BY <1>1, <1>2 DEF Unrelayed, Unpersisted, redisVars
<1>4. row' = [row EXCEPT ![events[j].key] = Upsert(row[events[j].key], events[j])]
  BY <1>1 DEF CommitEvent, Applied
<1>5. UNCHANGED events /\ [k \in Keys |-> InRedis(k)]' = [k \in Keys |-> InRedis(k)]
  BY DEF redisVars, InRedis
<1>6. {events[i] : i \in Unpersisted \ {j}} = {events[i] : i \in Unpersisted} \ {events[j]}
  BY <1>0, <1>3, WithoutOne DEF Unpersisted
<1> HIDE DEF j
<1>7. /\ events[j] \in {events[i] : i \in Unpersisted}
      /\ {events[i] : i \in Unpersisted}' = {events[i] : i \in Unpersisted} \ {events[j]}
      /\ {events[i] : i \in Unrelayed}' = {events[i] : i \in Unrelayed}
  BY <1>3, <1>5, <1>6
<1>8. Path!Upsert(row[events[j].key], events[j]) = Upsert(row[events[j].key], events[j])
  BY DEF Path!Upsert, Upsert
<1>9. Unacknowledged' = Unacknowledged /\ Repeated' \in BOOLEAN
  BY <1>0 DEF Unacknowledged, Repeated, Known
<1> QED
  BY <1>4, <1>5, <1>7, <1>8, <1>9
  DEF Path!Persist, Unrelayed, Unpersisted, Unacknowledged, Repeated

\* The transaction of an event that was consumed before leaves MySQL as it was.
LEMMA CommitTwice ==
    ASSUME TypeOK, Known, NEW c \in Consumers, job[c].phase = "persist", CommitEvent(c),
           job[c].copy[1] \in consumed
    PROVE  UNCHANGED mysqlVars
<1>1. EventOf(c) \in EventType /\ EventOf(c).key \in Keys
  BY EventsAreEvents DEF Known, EventOf
<1>2. row' = [row EXCEPT ![EventOf(c).key] = row[EventOf(c).key]] /\ consumed' = consumed
  BY DEF CommitEvent, Applied
<1> QED
  BY <1>1, <1>2 DEF TypeOK, MySQLTypes, mysqlVars

\* A vote: its event is in the outbox and nowhere else.
LEMMA PathCast ==
    ASSUME IInv, NEW u \in Users, NEW p \in Posts, NEW d \in Directions, Vote(u, p, d)
    PROVE  Path!Cast(<<u, p>>, d)
<1> DEFINE k == <<u, p>>
<1> DEFINE e == [key |-> k, dir |-> d, ver |-> ver[k] + 1]
<1> DEFINE n == Len(events)
<1>0. TypeOK /\ Known /\ ConsumedMeansApplied
  BY DEF IInv
<1>1. /\ k \in Keys /\ ver[k] \in Nat /\ events \in Seq(EventType)
      /\ dir \in [Keys -> Directions] /\ ver \in [Keys -> Nat]
  BY <1>0 DEF TypeOK, RedisTypes, Keys
<1>2. /\ d # dir[k] /\ dir' = [dir EXCEPT ![k] = d] /\ ver' = [ver EXCEPT ![k] = ver[k] + 1]
      /\ events' = Append(events, e) /\ UNCHANGED <<brokerVars, job, mysqlVars>>
      /\ Len(events) < MaxVotes /\ stream' = stream \cup {n + 1}
  BY DEF Vote, NextVersion
<1>3. e \in EventType
  BY <1>1 DEF EventType
<1> HIDE DEF e, k
<1>4. /\ Len(events') = n + 1 /\ n \in Nat
      /\ \A i \in 1..n : events'[i] = events[i]
      /\ events'[n + 1] = e
  BY <1>1, <1>2, <1>3
<1>5. \A i : Safe(i)' <=> Safe(i)
  BY <1>2 DEF brokerVars, mysqlVars, Safe, InQueue, Held
<1>6. ~Safe(n + 1)
  <2>1. n + 1 \notin 1..n
    BY <1>4
  <2>2. n + 1 \notin consumed /\ n + 1 \notin dead
    BY <1>0, <2>1 DEF Known, ConsumedMeansApplied
  <2>3. ASSUME NEW m \in 0..MaxRetries
        PROVE  ~(main[<<n + 1, m>>] > 0) /\ ~(retry[<<n + 1, m>>] > 0)
    <3>1. n + 1 \in Ids
      BY <1>2, <1>4, BoundsAssumption DEF Ids
    <3> QED
      BY <1>0, <2>1, <3>1, CopyParts DEF Known
  <2>4. ~Held(n + 1)
    BY <1>0, <2>1 DEF Known, Held, TypeOK, JobTypes, JobType, Idle
  <2> QED
    BY <2>2, <2>3, <2>4 DEF Safe, InQueue
<1>7. Unrelayed' = Unrelayed \cup {n + 1} /\ Unpersisted' = Unpersisted
  <2>1. /\ \A i \in 1..Len(events') : i \in 1..n \/ i = n + 1
        /\ \A i \in 1..n : i \in 1..Len(events')
        /\ n + 1 \in 1..Len(events')
    BY <1>4
  <2>2. consumed' = consumed
    BY <1>2 DEF mysqlVars
  <2> QED
    BY <1>5, <1>6, <2>1, <2>2 DEF Unrelayed, Unpersisted
<1>8. Unrelayed \subseteq 1..n /\ Unpersisted \subseteq 1..n
  BY DEF Unrelayed, Unpersisted
<1>9. /\ {events'[i] : i \in Unrelayed'} = {events[i] : i \in Unrelayed} \cup {e}
      /\ {events'[i] : i \in Unpersisted'} = {events[i] : i \in Unpersisted}
  BY <1>4, <1>7, <1>8
<1>10. [j \in Keys |-> InRedis(j)]' =
         [[j \in Keys |-> InRedis(j)] EXCEPT ![k] = [dir |-> d, ver |-> @.ver + 1]]
  BY <1>1, <1>2 DEF InRedis
<1>11. [j \in Keys |-> InRedis(j)][k] = [dir |-> dir[k], ver |-> ver[k]]
  BY <1>1 DEF InRedis
<1>12. e = [key |-> k, dir |-> d, ver |-> [j \in Keys |-> InRedis(j)][k].ver + 1]
       /\ d # [j \in Keys |-> InRedis(j)][k].dir
  BY <1>2, <1>11 DEF e
<1>13. row' = row
  BY <1>2 DEF mysqlVars
<1>14. Unacknowledged' = Unacknowledged
  BY <1>2, <1>5, <1>6 DEF Unacknowledged
<1>15. Repeated' = Repeated
  BY <1>2 DEF Repeated, HasCopy, InQueue, brokerVars, mysqlVars
<1>16. Path!Cast(k, d)
  BY <1>9, <1>10, <1>12, <1>13, <1>14, <1>15
  DEF Path!Cast, Unrelayed, Unpersisted, Unacknowledged, Repeated
<1> QED
  BY <1>16 DEF k

\* A step of a relay: what it publishes for the first time is relayed.
LEMMA RelaySteps ==
    ASSUME IInv, [Next]_vars, NEW r \in Relays, RelayStep(r) \/ RelayFault(r) \/ Restart(r)
    PROVE  Path!Next \/ UNCHANGED Path!vars
<1>0. TypeOK /\ Known /\ 1..Len(events) \subseteq Ids
  BY EventsAreEvents DEF IInv
<1>1. UNCHANGED redisVars /\ UNCHANGED mysqlVars /\ UNCHANGED <<job, retry, dead>>
  BY RelayFrame
<1>2. CASE UNCHANGED main /\ stream' \subseteq stream
  <2>1. \A i \in 1..Len(events) : Safe(i)' <=> Safe(i)
    BY <1>1, <1>2 DEF Safe, InQueue, Held, mysqlVars
  <2>2. UNCHANGED <<brokerVars, job>>
    BY <1>1, <1>2 DEF brokerVars
  <2> QED
    BY <1>1, <1>2, <2>1, <2>2, PathQuiet
<1>3. CASE \E j \in 1..Len(events) : UNCHANGED stream /\ main' = Put(main, <<j, 0>>)
  <2>1. PICK j \in 1..Len(events) : UNCHANGED stream /\ main' = Put(main, <<j, 0>>)
    BY <1>3
  <2>2. \A i \in 1..Len(events) : i # j => (Safe(i)' <=> Safe(i))
    BY <1>0, <1>1, <2>1, PutAddsOne
  <2>3. Safe(j) => Safe(j)'
    BY <1>0, SafeStable
  <2>4. CASE Safe(j)' /\ ~Safe(j)
    <3>1. Path!Relay
      BY <1>1, <2>1, <2>4, PathRelay
    <3> QED
      BY <3>1 DEF Path!Next
  <2>5. CASE ~(Safe(j)' /\ ~Safe(j))
    <3>1. \A i \in 1..Len(events) : Safe(i)' <=> Safe(i)
      BY <2>2, <2>3, <2>5
    <3> QED
      BY <1>1, <2>1, <3>1, PathQuiet
  <2> QED
    BY <2>4, <2>5
<1> QED
  BY <1>0, <1>2, <1>3, RelayPutsOne

\* A step of a consumer: the first commit of an event persists it.
LEMMA ConsumerSteps ==
    ASSUME PInv, [Next]_vars, NEW c \in Consumers, ConsumerStep(c) \/ ConsumerFault(c)
    PROVE  Path!Next \/ UNCHANGED Path!vars
<1>0. IInv /\ HandledSafe /\ TypeOK /\ Known /\ 1..Len(events) \subseteq Ids
  BY EventsAreEvents DEF PInv, IInv
<1>1. UNCHANGED redisVars /\ UNCHANGED stream
  BY ConsumerFrame DEF outboxVars
<1>2. \A i \in 1..Len(events) : Safe(i)' <=> Safe(i)
  BY <1>0, SafeStable, ConsumerAddsNothing
<1>3. CASE UNCHANGED mysqlVars
  BY <1>0, <1>1, <1>2, <1>3, PathQuiet
<1>4. CASE job[c].phase = "persist" /\ CommitEvent(c) /\ job[c].copy[1] \notin consumed
  BY <1>0, <1>1, <1>2, <1>4, PathPersist DEF Path!Next
<1>5. CASE job[c].phase = "persist" /\ CommitEvent(c) /\ job[c].copy[1] \in consumed
  BY <1>0, <1>3, <1>5, CommitTwice
<1> QED
  BY <1>3, <1>4, <1>5, ConsumerCommits

LEMMA PathNext == PInv /\ [Next]_vars => [Path!Next]_Path!vars
<1> SUFFICES ASSUME PInv, [Next]_vars PROVE Path!Next \/ UNCHANGED Path!vars
  OBVIOUS
<1>0. IInv /\ TypeOK /\ Known /\ 1..Len(events) \subseteq Ids
  BY EventsAreEvents DEF PInv, IInv
<1>1. ASSUME NEW u \in Users, NEW p \in Posts, NEW d \in Directions, Vote(u, p, d)
      PROVE  Path!Next
  <2>1. Path!Cast(<<u, p>>, d) /\ <<u, p>> \in Path!Keys /\ d \in Path!Directions
    BY <1>0, <1>1, PathCast DEF Path!Keys, Path!Directions, Directions
  <2> QED
    BY <2>1 DEF Path!Next
<1>2. CASE \E r \in Relays : RelayStep(r) \/ RelayFault(r) \/ Restart(r)
  BY <1>0, <1>2, RelaySteps
<1>3. CASE \E c \in Consumers : ConsumerStep(c) \/ ConsumerFault(c)
  BY <1>3, ConsumerSteps
<1>4. CASE RetryExpires
  <2>1. UNCHANGED redisVars /\ UNCHANGED mysqlVars /\ UNCHANGED stream
    BY <1>4 DEF RetryExpires, outboxVars
  <2>2. \A i \in 1..Len(events) : Safe(i)' <=> Safe(i)
    BY <1>0, <1>4, SafeStable, ExpiryAddsNothing
  <2> QED
    BY <1>0, <2>1, <2>2, PathQuiet
<1>5. CASE UNCHANGED vars
  <2>1. /\ UNCHANGED redisVars /\ UNCHANGED mysqlVars /\ UNCHANGED stream
        /\ \A i \in 1..Len(events) : Safe(i)' <=> Safe(i)
    BY <1>5 DEF vars, mysqlVars, brokerVars, outboxVars, Safe, InQueue, Held
  <2> QED
    BY <1>0, <2>1, PathQuiet
<1> QED
  BY <1>1, <1>2, <1>3, <1>4, <1>5, NextCases

LEMMA PathInit == Init => Path!Init
<1> SUFFICES ASSUME Init PROVE Path!Init
  OBVIOUS
<1>1. Unrelayed = {} /\ Unpersisted = {} /\ Unacknowledged = FALSE /\ Repeated = FALSE
  BY DEF Init, Unrelayed, Unpersisted, Unacknowledged, Repeated
<1>2. /\ [k \in Keys |-> InRedis(k)] = [k \in Path!Keys |-> Path!NoRow]
      /\ row = [k \in Path!Keys |-> Path!NoRow]
  BY DEF Init, InRedis, Keys, Path!Keys, NoRow, Path!NoRow
<1> QED
  BY <1>1, <1>2 DEF Path!Init, Unrelayed, Unpersisted, Unacknowledged, Repeated

\* Whatever relays, queues, consumers and their failures do, an event is relayed once
\* and persisted once, from a state in which it was still owed: the pipeline does what
\* PostIndex takes for the path of a vote.
THEOREM PathRefinement == Spec => ImplementsPath
<1>1. Spec => Path!Init /\ [][Path!Next]_Path!vars
  BY PathInit, PathNext, PathInvariance, PTL DEF Spec
<1> QED
  BY <1>1 DEF ImplementsPath, Path!Spec

\* Nothing ready, waiting for its retry, dead-lettered or unacknowledged.
QueuesEmpty ==
    /\ dead = {} /\ \A m \in Copies : main[m] = 0 /\ retry[m] = 0
    /\ \A c \in Consumers : ~job[c].owned

\* What is in a queue is a copy of an event that is safe there.
LEMMA QueuesHoldCopies ==
    ASSUME IInv
    PROVE  QueuesEmpty <=> \A i \in 1..Len(events) : ~HasCopy(i)
<1>0. /\ TypeOK /\ Known /\ main \in [Copies -> Nat] /\ retry \in [Copies -> Nat]
      /\ 1..Len(events) \subseteq Ids
  BY EventsAreEvents DEF IInv, TypeOK, BrokerTypes
<1>1. ASSUME QueuesEmpty, NEW i \in 1..Len(events) PROVE ~HasCopy(i)
  <2>1. ASSUME NEW n \in 0..MaxRetries
        PROVE  ~(main[<<i, n>>] > 0) /\ ~(retry[<<i, n>>] > 0)
    <3>1. <<i, n>> \in Copies
      BY <1>0, CopyParts
    <3>2. main[<<i, n>>] = 0 /\ retry[<<i, n>>] = 0
      BY <1>1, <3>1 DEF QueuesEmpty
    <3> QED
      BY <3>2
  <2>2. ~InQueue(main, i) /\ ~InQueue(retry, i)
    BY <2>1 DEF InQueue
  <2> QED
    BY <1>1, <2>2 DEF QueuesEmpty, HasCopy
<1>2. ASSUME \A i \in 1..Len(events) : ~HasCopy(i) PROVE QueuesEmpty
  <2>1. dead = {}
    BY <1>0, <1>2 DEF Known, HasCopy
  <2>2. ASSUME NEW m \in Copies PROVE main[m] = 0 /\ retry[m] = 0
    <3>1. main[m] \in Nat /\ retry[m] \in Nat
      BY <1>0
    <3>2. main[m] > 0 \/ retry[m] > 0 => m[1] \in 1..Len(events)
      BY <1>0 DEF Known
    <3>3. main[m] > 0 \/ retry[m] > 0 => HasCopy(m[1])
      BY <1>0, InQueueOf DEF HasCopy
    <3> QED
      BY <1>2, <3>1, <3>2, <3>3
  <2>3. ASSUME NEW c \in Consumers PROVE ~job[c].owned
    <3>1. job[c].owned => job[c].phase # "idle"
      BY <1>0 DEF TypeOK, JobTypes, JobType, Idle
    <3> QED
      BY <1>0, <1>2, <3>1 DEF Known, HasCopy
  <2> QED
    BY <2>1, <2>2, <2>3 DEF QueuesEmpty
<1> QED
  BY <1>1, <1>2

\* What an operator and XLEN see before a rebuild is what PostIndex asks for, no more
\* and no less: the stream is empty if and only if no event is in the outbox alone
\* and no other one has an entry left, and the queues are empty, with nothing
\* unacknowledged, if and only if RabbitMQ owes MySQL nothing and has no copy of
\* what MySQL has.
THEOREM DrainedPath ==
    Spec => []( /\ stream = {} <=> Unrelayed = {} /\ ~Unacknowledged
                /\ QueuesEmpty <=> Unpersisted = {} /\ ~Repeated )
<1>1. ASSUME IInv PROVE stream = {} <=> Unrelayed = {} /\ ~Unacknowledged
  BY <1>1 DEF IInv, NothingLost, Known, Unrelayed, Unacknowledged
<1>2. ASSUME IInv PROVE QueuesEmpty <=> Unpersisted = {} /\ ~Repeated
  <2>1. Answered /\ consumed \subseteq 1..Len(events)
    BY <1>2 DEF IInv, ConsumedMeansApplied
  <2>2. \A i \in 1..Len(events) : Safe(i) /\ i \notin consumed => HasCopy(i)
    BY DEF Safe, Held, HasCopy
  <2>3. \A i \in 1..Len(events) : HasCopy(i) => Safe(i)
    BY <2>1 DEF Answered, Safe, Held, HasCopy
  <2>4. (\A i \in 1..Len(events) : ~HasCopy(i)) <=> Unpersisted = {} /\ ~Repeated
    BY <2>1, <2>2, <2>3 DEF Unpersisted, Repeated
  <2> QED
    BY <1>2, <2>4, QueuesHoldCopies
<1> QED
  BY <1>1, <1>2, Invariance, PTL

\* A handler whose delivery was taken back is no danger to its event.
THEOREM HandledIsSafe == Spec => []HandledSafe
<1>1. PInv => HandledSafe
  BY DEF PInv
<1> QED
  BY <1>1, PathInvariance, PTL
=============================================================================
