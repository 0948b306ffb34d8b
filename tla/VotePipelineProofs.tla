-------------------------- MODULE VotePipelineProofs --------------------------
(***************************************************************************)
(* Proofs about VotePipeline, for every number of users, posts, relays,    *)
(* consumers, votes, retries and failures.                                 *)
(***************************************************************************)
EXTENDS VotePipeline, FiniteSetTheorems, WellFoundedInduction, TLAPS

-----------------------------------------------------------------------------
(* The operators the actions are built from                                 *)

\* Every non-empty set of natural numbers has a least element.
LEMMA LeastNatural ==
    ASSUME NEW S, S \subseteq Nat, S # {}
    PROVE  \E n \in S : \A m \in S : n <= m
<1> DEFINE R == OpToRel(<, Nat)
<1>1. \A x, y \in Nat : y < x => <<y, x>> \in R
  BY DEF OpToRel
<1>2. IsWellFoundedOn(R, Nat)
  BY NatLessThanWellFounded
<1> HIDE DEF R
<1>3. PICK x \in S : \A y \in S : ~ (<<y, x>> \in R)
  BY <1>2, WFMin
<1>4. \A y \in S : ~ (y < x)
  BY <1>1, <1>3
<1>5. \A y \in S : x <= y
  BY <1>4
<1> QED
  BY <1>5

\* The lowest of some entries is one of them.
LEMMA LowestIn == ASSUME NEW S \in SUBSET Ids, S # {} PROVE Lowest(S) \in S
<1>1. PICK n \in S : TRUE
  OBVIOUS
<1>2. S \in SUBSET Nat
  BY BoundsAssumption DEF Ids
<1>3. \E n0 \in S : \A m \in S : n0 <= m
  BY <1>1, <1>2, LeastNatural
<1> QED
  BY <1>3 DEF Lowest

\* The highest of some entries is one of them, and none is higher: the least upper
\* bound is reached.
LEMMA HighestIn ==
    ASSUME NEW S \in SUBSET Ids, S # {}
    PROVE  Highest(S) \in S /\ \A j \in S : j <= Highest(S)
<1> DEFINE T == {n \in Nat : \A i \in S : i <= n}
<1>1. T \in SUBSET Nat /\ MaxVotes \in T
  BY BoundsAssumption DEF Ids
<1>2. \E n \in T : \A m \in T : n <= m
  BY <1>1, LeastNatural
<1>3. PICK n \in T : \A m \in T : n <= m
  BY <1>2
<1>4. n \in S
  <2> SUFFICES ASSUME n \notin S PROVE FALSE
    OBVIOUS
  <2>1. n \in Nat /\ \A i \in S : i \in Nat /\ i <= n /\ i # n /\ i >= 1
    BY <1>3, BoundsAssumption DEF Ids
  <2>2. n - 1 \in Nat /\ \A i \in S : i <= n - 1
    BY <2>1
  <2>3. n - 1 \in T
    BY <2>2
  <2> QED
    BY <1>3, <2>1, <2>3
<1>5. \E i \in S : \A j \in S : j <= i
  BY <1>3, <1>4
<1> QED
  BY <1>5 DEF Highest

\* COUNT only leaves entries out.
LEMMA OldestSubset == ASSUME NEW S PROVE Oldest(S) \subseteq S
BY DEF Oldest

\* PersistVoteEvent leaves a row of post_vote whatever the event.
LEMMA AppliedType ==
    ASSUME NEW w \in [dir : Directions, ver : Nat], NEW e \in EventType,
           NEW done \in SUBSET Ids, NEW i \in Ids
    PROVE  /\ Applied(w, done, i, e).row \in [dir : Directions, ver : Nat]
           /\ Applied(w, done, i, e).consumed \in SUBSET Ids
BY DEF Applied, Upsert, EventType

-----------------------------------------------------------------------------
(* Types                                                                    *)

LEMMA InitTypeOK == Init => TypeOK
<1> SUFFICES ASSUME Init PROVE TypeOK
  OBVIOUS
<1> USE DEF Init
<1>1. RedisTypes
  BY BoundsAssumption DEF RedisTypes, Directions
<1>2. OutboxTypes /\ faults \in 0..MaxFaults
  BY BoundsAssumption DEF OutboxTypes
<1>3. RelayTypes /\ BrokerTypes
  BY DEF RelayTypes, BrokerTypes
<1>4. JobTypes
  BY DEF JobTypes, JobType
<1>5. MySQLTypes
  BY DEF MySQLTypes, NoRow, Directions
<1> QED
  BY <1>1, <1>2, <1>3, <1>4, <1>5 DEF TypeOK

\* A queue stays a table of counts when a message is put into it, and when one
\* that it holds is taken.
LEMMA QueueType ==
    ASSUME NEW q \in [Copies -> Nat], NEW m
    PROVE  Put(q, m) \in [Copies -> Nat] /\ (q[m] > 0 => Take(q, m) \in [Copies -> Nat])
<1>1. CASE m \in Copies
  BY <1>1 DEF Put, Take
<1>2. CASE m \notin Copies
  BY <1>2 DEF Put, Take
<1> QED
  BY <1>1, <1>2

\* A group of variables that a step leaves alone keeps its types.
LEMMA UnchangedTypes ==
    /\ RedisTypes /\ UNCHANGED redisVars => RedisTypes'
    /\ OutboxTypes /\ UNCHANGED outboxVars => OutboxTypes'
    /\ RelayTypes /\ UNCHANGED relayVars => RelayTypes'
    /\ BrokerTypes /\ UNCHANGED brokerVars => BrokerTypes'
    /\ JobTypes /\ UNCHANGED job => JobTypes'
    /\ MySQLTypes /\ UNCHANGED mysqlVars => MySQLTypes'
BY DEF RedisTypes, OutboxTypes, RelayTypes, BrokerTypes, JobTypes, MySQLTypes,
       redisVars, outboxVars, relayVars, brokerVars, mysqlVars

\* A step of a relay, a failure included, keeps the types.
LEMMA RelayTypeOK ==
    ASSUME TypeOK, NEW r \in Relays, RelayStep(r) \/ RelayFault(r) \/ Restart(r)
    PROVE  TypeOK'
<1>0. RedisTypes /\ OutboxTypes /\ RelayTypes /\ BrokerTypes /\ JobTypes /\ MySQLTypes
      /\ faults \in 0..MaxFaults
  BY DEF TypeOK
<1>f. Fault => faults' \in 0..MaxFaults
  BY <1>0, BoundsAssumption DEF Fault
<1>o. ASSUME NEW S \in SUBSET Ids, owner' = [i \in Ids |-> IF i \in S THEN r ELSE owner[i]]
      PROVE  owner' \in [Ids -> Relays \cup {NoRelay}]
  BY <1>0, <1>o DEF OutboxTypes
<1>d. ASSUME NEW S \in SUBSET Ids PROVE DeliveredUpTo(S) \in 0..MaxVotes
  <2>1. S # {} => Highest(S) \in Ids
    BY HighestIn
  <2> QED
    BY <1>0, <2>1, BoundsAssumption DEF DeliveredUpTo, OutboxTypes, Ids
<1>s. /\ Oldest(Pending) \subseteq Ids /\ Oldest(Undelivered) \subseteq Ids
      /\ Oldest({i \in stream : owner[i] = r}) \subseteq Ids
  BY <1>0, OldestSubset DEF Pending, Undelivered, OutboxTypes
<1>r. ASSUME NEW S \in SUBSET Ids, NEW s \in {"claim", "own", "new"}, Received(r, S, s),
             UNCHANGED confirmed
      PROVE  RelayTypes'
  BY <1>0, <1>r DEF RelayTypes, Received
<1>g. GiveUpBatch(r) => RelayTypes'
  BY <1>0 DEF GiveUpBatch, AfterBatch, RelayTypes
<1>1. CASE ClaimStale(r)
  <2>1. PICK S \in SUBSET Oldest(Pending) :
          /\ owner' = [i \in Ids |-> IF i \in S THEN r ELSE owner[i]]
          /\ Fault \/ UNCHANGED faults
          /\ Received(r, S, "own")
    BY <1>1 DEF ClaimStale
  <2>2. S \in SUBSET Ids
    BY <1>s
  <2>3. OutboxTypes'
    BY <1>0, <1>1, <1>o, <2>1, <2>2 DEF ClaimStale, OutboxTypes
  <2>4. RelayTypes'
    BY <1>1, <1>r, <2>1, <2>2 DEF ClaimStale
  <2> QED
    BY <1>0, <1>1, <1>f, <2>1, <2>3, <2>4, UnchangedTypes DEF ClaimStale, TypeOK
<1>2. CASE ReadOwn(r)
  <2>1. RelayTypes'
    BY <1>2, <1>r, <1>s DEF ReadOwn
  <2> QED
    BY <1>0, <1>2, <2>1, UnchangedTypes DEF ReadOwn, TypeOK
<1>3. CASE ReadNew(r)
  <2>1. OutboxTypes'
    BY <1>0, <1>3, <1>o, <1>d, <1>s DEF ReadNew, Deliver, OutboxTypes
  <2>2. RelayTypes'
    BY <1>3, <1>r, <1>s DEF ReadNew
  <2> QED
    BY <1>0, <1>3, <2>1, <2>2, UnchangedTypes DEF ReadNew, TypeOK
<1>4. CASE Publish(r)
  <2>1. BrokerTypes'
    BY <1>0, <1>4, QueueType DEF Publish, BrokerTypes
  <2>2. RelayTypes'
    BY <1>0, <1>4 DEF Publish, RelayTypes
  <2> QED
    BY <1>0, <1>4, <2>1, <2>2, UnchangedTypes DEF Publish, TypeOK
<1>5. CASE AckVoteOutbox(r)
  <2>1. OutboxTypes'
    BY <1>0, <1>5 DEF AckVoteOutbox, Remove, OutboxTypes
  <2>2. RelayTypes'
    BY <1>0, <1>5 DEF AckVoteOutbox, AfterBatch, RelayTypes
  <2> QED
    BY <1>0, <1>5, <2>1, <2>2, UnchangedTypes DEF AckVoteOutbox, TypeOK
<1>6. CASE ClaimReplyLost(r)
  <2>1. PICK S \in SUBSET Oldest(Pending) :
          owner' = [i \in Ids |-> IF i \in S THEN r ELSE owner[i]]
    BY <1>6 DEF ClaimReplyLost
  <2>2. OutboxTypes'
    BY <1>0, <1>6, <1>o, <1>s, <2>1 DEF ClaimReplyLost, OutboxTypes
  <2> QED
    BY <1>0, <1>6, <1>f, <2>2, UnchangedTypes DEF ClaimReplyLost, TypeOK
<1>7. CASE ReadFails(r)
  <2>1. OutboxTypes'
    BY <1>0, <1>7, <1>o, <1>d, <1>s DEF ReadFails, Deliver, OutboxTypes
  <2>2. RelayTypes'
    BY <1>0, <1>7 DEF ReadFails, RelayTypes
  <2> QED
    BY <1>0, <1>7, <1>f, <2>1, <2>2, UnchangedTypes DEF ReadFails, TypeOK
<1>8. CASE PublishFails(r)
  <2>1. BrokerTypes'
    BY <1>0, <1>8 DEF PublishFails, Put, BrokerTypes
  <2> QED
    BY <1>0, <1>8, <1>f, <1>g, <2>1, UnchangedTypes DEF PublishFails, TypeOK
<1>9. CASE AckFails(r)
  <2>1. OutboxTypes'
    BY <1>0, <1>9 DEF AckFails, Remove, OutboxTypes
  <2> QED
    BY <1>0, <1>9, <1>f, <1>g, <2>1, UnchangedTypes DEF AckFails, TypeOK
<1>10. CASE Crash(r)
  <2>1. RelayTypes'
    BY <1>0, <1>10 DEF Crash, RelayTypes
  <2> QED
    BY <1>0, <1>10, <1>f, <2>1, UnchangedTypes DEF Crash, TypeOK
<1>11. CASE Restart(r)
  <2>1. RelayTypes'
    BY <1>0, <1>11 DEF Restart, RelayTypes
  <2> QED
    BY <1>0, <1>11, <2>1, UnchangedTypes DEF Restart, TypeOK
<1> QED
  BY <1>1, <1>2, <1>3, <1>4, <1>5, <1>6, <1>7, <1>8, <1>9, <1>10, <1>11
     DEF RelayStep, RelayFault

\* A handler that goes on with its delivery still has one.
LEMMA GoToType ==
    ASSUME JobTypes, NEW c \in Consumers, job[c].phase # "idle",
           NEW s \in {"persist", "retry", "dead", "ack"}, GoTo(c, s)
    PROVE  JobTypes'
<1>1. job[c] \in [phase : {"persist", "retry", "dead", "ack"}, copy : Copies, owned : BOOLEAN]
  BY DEF JobTypes, JobType, Idle
<1>2. [job[c] EXCEPT !.phase = s] \in JobType
  BY <1>1 DEF JobType
<1> QED
  BY <1>2 DEF JobTypes, GoTo

\* What a handler that is not idle works on is a copy of an event.
LEMMA JobCopy ==
    ASSUME JobTypes, NEW c \in Consumers, job[c].phase # "idle"
    PROVE  /\ job[c].copy \in Copies /\ job[c].copy[1] \in Ids
           /\ job[c].copy[2] \in 0..MaxRetries
           /\ job[c].copy = <<job[c].copy[1], job[c].copy[2]>>
<1>1. job[c].copy \in Ids \X (0..MaxRetries)
  BY DEF JobTypes, JobType, Idle, Copies
<1> QED
  BY <1>1 DEF Copies

\* A step of a consumer, a failure included, keeps the types.  That the event it
\* handles exists is an assumption here and part of the invariant below.
LEMMA ConsumerTypeOK ==
    ASSUME TypeOK, NEW c \in Consumers, ConsumerStep(c) \/ ConsumerFault(c),
           job[c].phase = "persist" => job[c].copy[1] \in 1..Len(events)
    PROVE  TypeOK'
<1>0. RedisTypes /\ OutboxTypes /\ RelayTypes /\ BrokerTypes /\ JobTypes /\ MySQLTypes
      /\ faults \in 0..MaxFaults
  BY DEF TypeOK
<1>f. Fault => faults' \in 0..MaxFaults
  BY <1>0, BoundsAssumption DEF Fault
<1>e. job[c].phase = "persist" => EventOf(c) \in EventType /\ EventOf(c).key \in Keys
  <2>1. events \in Seq(EventType)
    BY <1>0 DEF RedisTypes
  <2>2. job[c].phase = "persist" => EventOf(c) \in EventType
    BY <2>1 DEF EventOf
  <2> QED
    BY <2>2 DEF EventType
<1>m. job[c].phase = "persist" /\ CommitEvent(c) => MySQLTypes'
  <2> SUFFICES ASSUME job[c].phase = "persist", CommitEvent(c) PROVE MySQLTypes'
    OBVIOUS
  <2> DEFINE new == Applied(row[EventOf(c).key], consumed, job[c].copy[1], EventOf(c))
  <2>1. row[EventOf(c).key] \in [dir : Directions, ver : Nat] /\ consumed \in SUBSET Ids
    BY <1>0, <1>e DEF MySQLTypes
  <2>2. new.row \in [dir : Directions, ver : Nat] /\ new.consumed \in SUBSET Ids
    BY <1>0, <1>e, <2>1, JobCopy, AppliedType
  <2>3. row' = [row EXCEPT ![EventOf(c).key] = new.row] /\ consumed' = new.consumed
    BY DEF CommitEvent
  <2> HIDE DEF new
  <2> QED
    BY <1>0, <1>e, <2>2, <2>3 DEF MySQLTypes
<1>q. Finish(c) => JobTypes'
  BY <1>0 DEF Finish, JobTypes, JobType
<1>b. main' = Requeue(c) /\ UNCHANGED <<retry, dead>> => BrokerTypes'
  BY <1>0, QueueType DEF Requeue, BrokerTypes
<1>p. ASSUME job[c].phase \in {"retry", "dead"}, Republish(c)
      PROVE  retry' \in [Copies -> Nat] /\ dead' \subseteq Ids
  BY <1>0, <1>p, JobCopy, QueueType DEF Republish, BrokerTypes
<1>1. CASE Consume(c)
  <2>1. PICK m \in Copies :
          /\ main[m] > 0 /\ main' = Take(main, m)
          /\ job' = [job EXCEPT ![c] = [phase |-> "persist", copy |-> m, owned |-> TRUE]]
    BY <1>1 DEF Consume
  <2>2. BrokerTypes'
    BY <1>0, <1>1, <2>1, QueueType DEF Consume, BrokerTypes
  <2>3. JobTypes'
    BY <1>0, <2>1 DEF JobTypes, JobType
  <2> QED
    BY <1>0, <1>1, <2>2, <2>3, UnchangedTypes DEF Consume, TypeOK
<1>2. CASE PersistVoteEvent(c)
  <2>1. JobTypes'
    BY <1>0, <1>2, GoToType DEF PersistVoteEvent
  <2>2. MySQLTypes'
    BY <1>0, <1>2, <1>m, UnchangedTypes DEF PersistVoteEvent
  <2> QED
    BY <1>0, <1>2, <2>1, <2>2, UnchangedTypes DEF PersistVoteEvent, TypeOK
<1>3. CASE Republished(c)
  <2>1. JobTypes'
    BY <1>0, <1>3, GoToType DEF Republished
  <2>2. BrokerTypes'
    BY <1>0, <1>3, <1>p DEF Republished, BrokerTypes
  <2> QED
    BY <1>0, <1>3, <2>1, <2>2, UnchangedTypes DEF Republished, TypeOK
<1>4. CASE AckDelivery(c)
  BY <1>0, <1>4, <1>q, UnchangedTypes DEF AckDelivery, TypeOK
<1>5. CASE PersistFails(c)
  <2>1. JobTypes'
    BY <1>0, <1>5, GoToType DEF PersistFails
  <2>2. MySQLTypes'
    BY <1>0, <1>5, <1>m, UnchangedTypes DEF PersistFails
  <2> QED
    BY <1>0, <1>5, <1>f, <2>1, <2>2, UnchangedTypes DEF PersistFails, TypeOK
<1>6. CASE RepublishFails(c)
  <2>1. BrokerTypes'
    BY <1>0, <1>6, <1>p, QueueType DEF RepublishFails, Requeue, BrokerTypes
  <2> QED
    BY <1>0, <1>6, <1>f, <1>q, <2>1, UnchangedTypes DEF RepublishFails, TypeOK
<1>7. CASE LoseDelivery(c)
  <2>1. JobTypes'
    <3>1. job[c] \in [phase : {"persist", "retry", "dead", "ack"}, copy : Copies, owned : BOOLEAN]
      BY <1>0, <1>7 DEF LoseDelivery, JobTypes, JobType, Idle
    <3>2. [job[c] EXCEPT !.owned = FALSE] \in JobType
      BY <3>1 DEF JobType
    <3> QED
      BY <1>0, <1>7, <3>2 DEF LoseDelivery, JobTypes
  <2> QED
    BY <1>0, <1>7, <1>f, <1>b, <2>1, UnchangedTypes DEF LoseDelivery, TypeOK
<1>8. CASE ConsumerCrash(c)
  BY <1>0, <1>8, <1>f, <1>b, <1>q, UnchangedTypes DEF ConsumerCrash, TypeOK
<1> QED
  BY <1>1, <1>2, <1>3, <1>4, <1>5, <1>6, <1>7, <1>8 DEF ConsumerStep, ConsumerFault

\* A vote keeps the types: its event is numbered within the bound.
LEMMA VoteTypeOK ==
    ASSUME TypeOK, NEW u \in Users, NEW p \in Posts, NEW d \in Directions, Vote(u, p, d)
    PROVE  TypeOK'
<1> DEFINE k == <<u, p>>
<1> DEFINE e == [key |-> k, dir |-> d, ver |-> NextVersion(ver[k], d)]
<1>0. RedisTypes /\ OutboxTypes /\ RelayTypes /\ BrokerTypes /\ JobTypes /\ MySQLTypes
      /\ faults \in 0..MaxFaults
  BY DEF TypeOK
<1>1. k \in Keys /\ ver[k] \in Nat /\ dir[k] \in Int /\ d \in Int
  BY <1>0 DEF Keys, Directions, RedisTypes
<1>2. e \in EventType /\ e.ver \in Nat
  BY <1>1 DEF EventType, NextVersion
<1>3. /\ ver' = [ver EXCEPT ![k] = e.ver] /\ dir' = [dir EXCEPT ![k] = d]
      /\ events' = Append(events, e) /\ stream' = stream \cup {Len(events) + 1}
      /\ Len(events) < MaxVotes
      /\ score' = [score EXCEPT ![p] = @ + Delta(dir[k], d)]
      /\ UNCHANGED lastDelivered /\ UNCHANGED owner
  BY DEF Vote
<1> HIDE DEF e
<1>4. events' \in Seq(EventType) /\ Len(events') = Len(events) + 1 /\ Len(events) \in Nat
  BY <1>0, <1>2, <1>3 DEF RedisTypes
<1>5. RedisTypes'
  <2>1. score' \in [Posts -> Int]
    BY <1>0, <1>1, <1>3 DEF RedisTypes, Delta
  <2>2. dir' \in [Keys -> Directions] /\ ver' \in [Keys -> Nat]
    BY <1>0, <1>1, <1>2, <1>3 DEF RedisTypes
  <2> QED
    BY <1>3, <1>4, <2>1, <2>2, BoundsAssumption DEF RedisTypes
<1>6. OutboxTypes'
  <2>1. Len(events) + 1 \in Ids
    BY <1>3, <1>4, BoundsAssumption DEF Ids
  <2> QED
    BY <1>0, <1>3, <2>1 DEF OutboxTypes
<1> QED
  BY <1>0, <1>5, <1>6, UnchangedTypes DEF Vote, TypeOK

-----------------------------------------------------------------------------
(* What each kind of step leaves alone                                      *)

LEMMA RelayFrame ==
    ASSUME NEW r \in Relays, RelayStep(r) \/ RelayFault(r) \/ Restart(r)
    PROVE  UNCHANGED <<redisVars, mysqlVars, job, retry, dead>>
BY DEF RelayStep, RelayFault, ClaimStale, ReadOwn, ReadNew, Publish, AckVoteOutbox,
       ClaimReplyLost, ReadFails, PublishFails, AckFails, Crash, Restart,
       redisVars, mysqlVars, brokerVars

LEMMA ConsumerFrame ==
    ASSUME NEW c \in Consumers, ConsumerStep(c) \/ ConsumerFault(c)
    PROVE  UNCHANGED <<redisVars, outboxVars, relayVars>>
BY DEF ConsumerStep, ConsumerFault, Consume, PersistVoteEvent, Republished, AckDelivery,
       PersistFails, RepublishFails, LoseDelivery, ConsumerCrash

\* Of all steps only a consumer's can change MySQL, by committing its event.
LEMMA ConsumerCommits ==
    ASSUME NEW c \in Consumers, ConsumerStep(c) \/ ConsumerFault(c)
    PROVE  UNCHANGED mysqlVars \/ (job[c].phase = "persist" /\ CommitEvent(c))
BY DEF ConsumerStep, ConsumerFault, Consume, PersistVoteEvent, Republished, AckDelivery,
       PersistFails, RepublishFails, LoseDelivery, ConsumerCrash, mysqlVars

\* A step that is neither a vote nor of a relay or a consumer moves a message from
\* the retry queue to the main queue, or does nothing.
LEMMA NextCases ==
    ASSUME [Next]_vars
    PROVE  \/ \E u \in Users, p \in Posts, d \in Directions : Vote(u, p, d)
           \/ \E r \in Relays : RelayStep(r) \/ RelayFault(r) \/ Restart(r)
           \/ \E c \in Consumers : ConsumerStep(c) \/ ConsumerFault(c)
           \/ RetryExpires
           \/ UNCHANGED vars
BY DEF Next

\* A vote appends one event, newer than all others of its key, and leaves alone
\* what lies behind the outbox.
LEMMA VoteEffect ==
    ASSUME TypeOK, NEW u \in Users, NEW p \in Posts, NEW d \in Directions, Vote(u, p, d)
    PROVE  \E e \in EventType :
             /\ e.key \in Keys /\ e.ver = ver[e.key] + 1
             /\ events' = Append(events, e)
             /\ Len(events') = Len(events) + 1 /\ Len(events) \in Nat
             /\ \A i \in 1..Len(events) : events'[i] = events[i]
             /\ events'[Len(events) + 1] = e
             /\ ver' = [ver EXCEPT ![e.key] = e.ver] /\ dir' = [dir EXCEPT ![e.key] = e.dir]
             /\ stream' = stream \cup {Len(events) + 1}
             /\ UNCHANGED <<relayVars, brokerVars, job, mysqlVars>>
<1> DEFINE k == <<u, p>>
<1> DEFINE e == [key |-> k, dir |-> d, ver |-> NextVersion(ver[k], d)]
<1>1. k \in Keys /\ ver[k] \in Nat /\ events \in Seq(EventType)
  BY DEF TypeOK, RedisTypes, Keys
<1>2. e \in EventType /\ e.key = k /\ e.dir = d /\ e.ver = ver[k] + 1
  BY <1>1 DEF EventType, NextVersion
<1>3. /\ ver' = [ver EXCEPT ![k] = e.ver] /\ dir' = [dir EXCEPT ![k] = d]
      /\ events' = Append(events, e) /\ stream' = stream \cup {Len(events) + 1}
      /\ UNCHANGED <<relayVars, brokerVars, job, mysqlVars>>
  BY DEF Vote
<1> HIDE DEF e
<1>4. /\ Len(events') = Len(events) + 1 /\ Len(events) \in Nat
      /\ \A i \in 1..Len(events) : events'[i] = events[i]
      /\ events'[Len(events) + 1] = e
  BY <1>1, <1>2, <1>3
<1> HIDE DEF k
<1> QED
  BY <1>1, <1>2, <1>3, <1>4

-----------------------------------------------------------------------------
(* No copy of an event is lost                                              *)

LEMMA PutKeeps ==
    ASSUME NEW q \in [Copies -> Nat], NEW m
    PROVE  /\ \A x \in Copies : q[x] > 0 => Put(q, m)[x] > 0
           /\ m \in Copies => Put(q, m)[m] > 0
<1>1. CASE m \in Copies
  BY <1>1 DEF Put
<1>2. CASE m \notin Copies
  BY <1>2 DEF Put
<1> QED
  BY <1>1, <1>2

LEMMA TakeKeeps ==
    ASSUME NEW q \in [Copies -> Nat], NEW m \in Copies
    PROVE  \A x \in Copies : x # m => Take(q, m)[x] = q[x]
BY DEF Take

LEMMA CopyParts == \A i \in Ids, n \in 0..MaxRetries :
    <<i, n>> \in Copies /\ <<i, n>>[1] = i
BY DEF Copies

\* An event in a queue stays there when some message is put into it.
LEMMA InQueuePut ==
    ASSUME NEW q \in [Copies -> Nat], NEW m, NEW i \in Ids, InQueue(q, i)
    PROVE  InQueue(Put(q, m), i)
BY PutKeeps, CopyParts DEF InQueue

\* A message put into a queue is in it.
LEMMA PutInQueue ==
    ASSUME NEW q \in [Copies -> Nat], NEW i \in Ids, NEW n \in 0..MaxRetries
    PROVE  InQueue(Put(q, <<i, n>>), i)
BY PutKeeps, CopyParts DEF InQueue

\* The commit of an event consumes it and nothing less.
LEMMA CommitConsumes ==
    ASSUME NEW c \in Consumers, CommitEvent(c)
    PROVE  consumed' = consumed \cup {job[c].copy[1]}
BY DEF CommitEvent, Applied

\* A step of a consumer leaves the handlers of the others alone.
LEMMA OtherJobs ==
    ASSUME JobTypes, NEW c \in Consumers, ConsumerStep(c) \/ ConsumerFault(c)
    PROVE  \A d \in Consumers : d # c => job'[d] = job[d]
<1>1. job \in [Consumers -> JobType]
  BY DEF JobTypes
<1>2. CASE Consume(c)
  BY <1>1, <1>2 DEF Consume
<1>3. CASE PersistVoteEvent(c) \/ Republished(c) \/ PersistFails(c)
  <2>1. PICK s : GoTo(c, s)
    BY <1>3 DEF PersistVoteEvent, Republished, PersistFails
  <2> QED
    BY <1>1, <2>1 DEF GoTo
<1>4. CASE AckDelivery(c) \/ RepublishFails(c) \/ ConsumerCrash(c)
  BY <1>1, <1>4 DEF AckDelivery, RepublishFails, ConsumerCrash, Finish
<1>5. CASE LoseDelivery(c)
  BY <1>1, <1>5 DEF LoseDelivery
<1> QED
  BY <1>2, <1>3, <1>4, <1>5 DEF ConsumerStep, ConsumerFault

\* The main queue of a consumer's Nack or lost channel: all it held, and the
\* delivery if that was the consumer's to return.
LEMMA RequeueKeeps ==
    ASSUME BrokerTypes, JobTypes, NEW c \in Consumers, job[c].phase # "idle",
           main' = Requeue(c), NEW i \in Ids
    PROVE  /\ InQueue(main, i) => InQueue(main, i)'
           /\ job[c].owned /\ job[c].copy[1] = i => InQueue(main, i)'
<1>1. main \in [Copies -> Nat]
  BY DEF BrokerTypes
<1>2. InQueue(main, i) => InQueue(main', i)
  BY <1>1, InQueuePut DEF Requeue
<1>3. job[c].owned /\ job[c].copy[1] = i => InQueue(main', i)
  BY <1>1, JobCopy, PutInQueue DEF Requeue
<1> QED
  BY <1>2, <1>3 DEF InQueue

\* A step of a consumer never makes an event unsafe: the delivery it takes over is
\* given up only after the event is consumed, stored in the retry or the dead-letter
\* queue, or back in the main queue.
LEMMA ConsumerKeepsSafe ==
    ASSUME TypeOK, Known, NEW c \in Consumers, ConsumerStep(c) \/ ConsumerFault(c),
           NEW i \in Ids, Safe(i)
    PROVE  Safe(i)'
<1>0. /\ main \in [Copies -> Nat] /\ retry \in [Copies -> Nat]
      /\ BrokerTypes /\ JobTypes /\ job \in [Consumers -> JobType]
  BY DEF TypeOK, BrokerTypes, JobTypes
<1>d. ASSUME dead \subseteq dead' PROVE i \in dead => i \in dead'
  BY <1>d
<1>c. consumed \subseteq consumed'
  BY ConsumerCommits, CommitConsumes DEF mysqlVars
<1>o. ASSUME NEW b \in Consumers, b # c, job[b].owned, job[b].copy[1] = i, job[b].phase # "ack"
      PROVE  Held(i)'
  BY <1>o, <1>0, OtherJobs DEF Held
<1>g. ASSUME NEW s \in {"persist", "retry", "dead", "ack"}, GoTo(c, s)
      PROVE  job'[c].owned = job[c].owned /\ job'[c].copy = job[c].copy /\ job'[c].phase = s
  BY <1>0, <1>g DEF GoTo, JobType, Idle
<1>1. CASE Consume(c)
  <2>1. PICK m \in Copies :
          /\ main[m] > 0 /\ main' = Take(main, m)
          /\ job' = [job EXCEPT ![c] = [phase |-> "persist", copy |-> m, owned |-> TRUE]]
    BY <1>1 DEF Consume
  <2>2. job[c] = Idle /\ retry' = retry /\ dead' = dead
    BY <1>1 DEF Consume
  <2>3. CASE InQueue(main, i)
    <3>1. PICK n \in 0..MaxRetries : main[<<i, n>>] > 0
      BY <2>3 DEF InQueue
    <3>2. CASE <<i, n>> = m
      <4>1. job'[c] = [phase |-> "persist", copy |-> m, owned |-> TRUE] /\ m[1] = i
        BY <1>0, <2>1, <3>2, CopyParts
      <4>2. Held(i)'
        BY <4>1 DEF Held
      <4> QED
        BY <4>2 DEF Safe
    <3>3. CASE <<i, n>> # m
      <4>1. main'[<<i, n>>] > 0
        BY <1>0, <2>1, <3>1, <3>3, CopyParts, TakeKeeps
      <4> QED
        BY <4>1 DEF Safe, InQueue
    <3> QED
      BY <3>2, <3>3
  <2>4. CASE Held(i)
    BY <1>o, <2>2, <2>4 DEF Held, Idle, Safe
  <2> QED
    BY <1>c, <2>2, <2>3, <2>4 DEF Safe, InQueue
<1>2. CASE PersistVoteEvent(c) \/ PersistFails(c)
  <2>1. UNCHANGED <<main, retry, dead>> /\ job[c].phase = "persist"
    BY <1>2 DEF PersistVoteEvent, PersistFails, brokerVars
  <2>2. \/ GoTo(c, "ack") /\ CommitEvent(c)
        \/ GoTo(c, "dead") \/ GoTo(c, "retry")
    BY <1>2 DEF PersistVoteEvent, PersistFails
  <2>3. CASE Held(i)
    <3>1. PICK b \in Consumers : job[b].owned /\ job[b].copy[1] = i /\ job[b].phase # "ack"
      BY <2>3 DEF Held
    <3>2. CASE b = c /\ GoTo(c, "ack") /\ CommitEvent(c)
      BY <3>1, <3>2, CommitConsumes DEF Safe
    <3>3. CASE b = c /\ (GoTo(c, "dead") \/ GoTo(c, "retry"))
      BY <1>g, <3>1, <3>3 DEF Held, Safe
    <3> QED
      BY <1>o, <2>2, <3>1, <3>2, <3>3 DEF Safe
  <2> QED
    BY <1>c, <2>1, <2>3 DEF Safe, InQueue
<1>3. CASE Republished(c)
  <2>1. Republish(c) /\ GoTo(c, "ack") /\ main' = main
    BY <1>3 DEF Republished
  <2>2. dead \subseteq dead' /\ (InQueue(retry, i) => InQueue(retry, i)')
    BY <1>0, <2>1, InQueuePut DEF Republish, InQueue
  <2>3. CASE Held(i)
    <3>1. PICK b \in Consumers : job[b].owned /\ job[b].copy[1] = i /\ job[b].phase # "ack"
      BY <2>3 DEF Held
    <3>2. CASE b = c /\ job[c].phase = "retry"
      <4>1. job[c].copy[2] + 1 \in 0..MaxRetries
        BY <1>0, <3>2, JobCopy, BoundsAssumption DEF Known
      <4>2. InQueue(retry, i)'
        BY <1>0, <2>1, <3>1, <3>2, <4>1, PutInQueue DEF Republish, InQueue
      <4> QED
        BY <4>2 DEF Safe
    <3>3. CASE b = c /\ job[c].phase = "dead"
      BY <2>1, <3>1, <3>3 DEF Republish, Safe
    <3> QED
      BY <1>3, <1>o, <3>1, <3>2, <3>3 DEF Republished, Safe
  <2> QED
    BY <1>c, <2>1, <2>2, <2>3 DEF Safe, InQueue
<1>4. CASE AckDelivery(c)
  <2>1. UNCHANGED <<main, retry, dead>> /\ job[c].phase = "ack"
    BY <1>4 DEF AckDelivery, brokerVars
  <2>2. Held(i) => Held(i)'
    BY <1>o, <2>1 DEF Held
  <2> QED
    BY <1>c, <2>1, <2>2 DEF Safe, InQueue
<1>5. CASE RepublishFails(c) \/ LoseDelivery(c) \/ ConsumerCrash(c)
  <2>1. main' = Requeue(c) /\ job[c].phase # "idle"
    BY <1>0, <1>5 DEF RepublishFails, LoseDelivery, ConsumerCrash, JobType, Idle
  <2>2. dead \subseteq dead' /\ (InQueue(retry, i) => InQueue(retry, i)')
    BY <1>0, <1>5, InQueuePut DEF RepublishFails, LoseDelivery, ConsumerCrash, Republish, InQueue
  <2>3. Held(i) => Held(i)' \/ InQueue(main, i)'
    BY <1>0, <1>o, <2>1, RequeueKeeps DEF Held
  <2> QED
    BY <1>0, <1>c, <2>1, <2>2, <2>3, RequeueKeeps DEF Safe
<1> QED
  BY <1>1, <1>2, <1>3, <1>4, <1>5 DEF ConsumerStep, ConsumerFault

\* No step at all makes an event unsafe.
LEMMA SafeStable ==
    ASSUME TypeOK, Known, [Next]_vars, NEW i \in Ids, Safe(i)
    PROVE  Safe(i)'
<1>0. main \in [Copies -> Nat] /\ retry \in [Copies -> Nat]
  BY DEF TypeOK, BrokerTypes
<1>u. ASSUME UNCHANGED <<job, retry, dead, consumed>>, InQueue(main, i) => InQueue(main, i)'
      PROVE  Safe(i)'
  BY <1>u DEF Safe, InQueue, Held
<1>1. CASE \E u \in Users, p \in Posts, d \in Directions : Vote(u, p, d)
  BY <1>1, <1>u DEF Vote, brokerVars, mysqlVars, InQueue
<1>2. CASE \E r \in Relays : RelayStep(r) \/ RelayFault(r) \/ Restart(r)
  <2>1. PICK r \in Relays : RelayStep(r) \/ RelayFault(r) \/ Restart(r)
    BY <1>2
  <2>2. main' = main \/ \E m : main' = Put(main, m)
    BY <2>1 DEF RelayStep, RelayFault, ClaimStale, ReadOwn, ReadNew, Publish, AckVoteOutbox,
       ClaimReplyLost, ReadFails, PublishFails, AckFails, Crash, Restart, brokerVars
  <2>3. InQueue(main, i) => InQueue(main, i)'
    BY <1>0, <2>2, InQueuePut DEF InQueue
  <2> QED
    BY <1>u, <2>1, <2>3, RelayFrame DEF mysqlVars
<1>3. CASE \E c \in Consumers : ConsumerStep(c) \/ ConsumerFault(c)
  BY <1>3, ConsumerKeepsSafe
<1>4. CASE RetryExpires
  <2>1. PICK m \in Copies :
          retry[m] > 0 /\ retry' = Take(retry, m) /\ main' = Put(main, m)
    BY <1>4 DEF RetryExpires
  <2>2. UNCHANGED <<dead, job, consumed>>
    BY <1>4 DEF RetryExpires, mysqlVars
  <2>3. InQueue(main, i) => InQueue(main, i)'
    BY <1>0, <2>1, InQueuePut DEF InQueue
  <2>4. ASSUME NEW n \in 0..MaxRetries, retry[<<i, n>>] > 0
        PROVE  InQueue(main, i)' \/ InQueue(retry, i)'
    <3>1. CASE <<i, n>> = m
      BY <1>0, <2>1, <3>1, PutInQueue DEF InQueue
    <3>2. CASE <<i, n>> # m
      <4>1. retry'[<<i, n>>] > 0
        BY <1>0, <2>1, <2>4, <3>2, CopyParts, TakeKeeps
      <4> QED
        BY <4>1 DEF InQueue
    <3> QED
      BY <3>1, <3>2
  <2>5. InQueue(retry, i) => InQueue(main, i)' \/ InQueue(retry, i)'
    BY <2>4 DEF InQueue
  <2>6. Held(i) => Held(i)'
    BY <2>2 DEF Held
  <2> QED
    BY <2>2, <2>3, <2>5, <2>6 DEF Safe
<1>5. CASE UNCHANGED vars
  BY <1>5, <1>u DEF vars, brokerVars, mysqlVars, InQueue
<1> QED
  BY <1>1, <1>2, <1>3, <1>4, <1>5, NextCases

-----------------------------------------------------------------------------
(* The parts of the invariant, one by one                                   *)

LEMMA EventsAreEvents ==
    ASSUME TypeOK, NEW i \in 1..Len(events)
    PROVE  /\ events[i] \in EventType /\ events[i].key \in Keys
           /\ events[i].dir \in Directions /\ events[i].ver \in Nat \ {0}
           /\ i \in Ids
<1>1. events \in Seq(EventType) /\ Len(events) <= MaxVotes /\ Len(events) \in Nat
  BY DEF TypeOK, RedisTypes
<1>2. events[i] \in EventType
  BY <1>1
<1> QED
  BY <1>1, <1>2, BoundsAssumption DEF EventType, Ids

\* HINCRBY numbers the events of a vote upwards: only a vote matters here.
LEMMA EventsNumberedStep ==
    ASSUME TypeOK, EventsNumbered, [Next]_vars
    PROVE  EventsNumbered'
<1>1. CASE UNCHANGED redisVars
  BY <1>1 DEF EventsNumbered, InRedis, redisVars
<1>2. CASE \E u \in Users, p \in Posts, d \in Directions : Vote(u, p, d)
  <2>1. PICK e \in EventType :
          /\ e.key \in Keys /\ e.ver = ver[e.key] + 1
          /\ Len(events') = Len(events) + 1 /\ Len(events) \in Nat
          /\ \A i \in 1..Len(events) : events'[i] = events[i]
          /\ events'[Len(events) + 1] = e
          /\ ver' = [ver EXCEPT ![e.key] = e.ver] /\ dir' = [dir EXCEPT ![e.key] = e.dir]
    BY <1>2, VoteEffect
  <2> DEFINE n == Len(events)
  <2>2. /\ \A k \in Keys : ver[k] \in Nat /\ ver'[k] = IF k = e.key THEN ver[k] + 1 ELSE ver[k]
        /\ \A k \in Keys : dir'[k] = IF k = e.key THEN e.dir ELSE dir[k]
    BY <2>1 DEF TypeOK, RedisTypes
  <2>3. \A i \in 1..Len(events') : i \in 1..n \/ i = n + 1
    BY <2>1
  <2>4. \A i \in 1..n : i \in 1..Len(events') /\ events'[i] = events[i]
    BY <2>1
  <2>5. \A i \in 1..n : events[i].key \in Keys /\ events[i].ver \in Nat
                        /\ events[i].ver <= ver[events[i].key]
    BY EventsAreEvents DEF EventsNumbered
  <2>6. ASSUME NEW i \in 1..Len(events') PROVE events'[i].ver <= ver'[events'[i].key]
    BY <2>1, <2>2, <2>3, <2>5
  <2>7. ASSUME NEW k \in Keys, [dir |-> dir'[k], ver |-> ver'[k]] # NoRow
        PROVE  \E i \in 1..Len(events') :
                  events'[i] = [key |-> k, dir |-> dir'[k], ver |-> ver'[k]]
    <3>1. CASE k = e.key
      <4>1. e = [key |-> k, dir |-> dir'[k], ver |-> ver'[k]]
        BY <2>1, <2>2, <3>1 DEF EventType
      <4>2. n + 1 \in 1..Len(events')
        BY <2>1
      <4> QED
        BY <2>1, <4>1, <4>2
    <3>2. CASE k # e.key
      <4>1. dir'[k] = dir[k] /\ ver'[k] = ver[k]
        BY <2>2, <3>2
      <4>2. PICK i \in 1..n : events[i] = [key |-> k, dir |-> dir[k], ver |-> ver[k]]
        BY <2>7, <4>1 DEF EventsNumbered, InRedis
      <4> QED
        BY <2>4, <4>1, <4>2
    <3> QED
      BY <3>1, <3>2
  <2>8. ASSUME NEW i \in 1..Len(events'), NEW j \in 1..Len(events'),
               events'[i].key = events'[j].key, events'[i].ver = events'[j].ver
        PROVE  i = j
    <3>1. CASE i \in 1..n /\ j \in 1..n
      BY <2>4, <2>8, <3>1 DEF EventsNumbered
    <3>2. CASE i = n + 1 /\ j \in 1..n
      BY <2>1, <2>2, <2>5, <2>8, <3>2
    <3>3. CASE j = n + 1 /\ i \in 1..n
      BY <2>1, <2>2, <2>5, <2>8, <3>3
    <3> QED
      BY <2>3, <3>1, <3>2, <3>3
  <2> QED
    BY <2>6, <2>7, <2>8 DEF EventsNumbered, InRedis
<1>3. CASE RetryExpires \/ UNCHANGED vars
  BY <1>1, <1>3 DEF RetryExpires, vars, redisVars
<1> QED
  BY <1>1, <1>2, <1>3, NextCases, RelayFrame, ConsumerFrame DEF redisVars

\* What an event is, once it is there, and what it says, never changes.
LEMMA EventsGrow ==
    ASSUME TypeOK, [Next]_vars
    PROVE  /\ Len(events) \in Nat /\ Len(events') \in Nat /\ Len(events) <= Len(events')
           /\ \A i \in 1..Len(events) : i \in 1..Len(events') /\ events'[i] = events[i]
           /\ \A k \in Keys : ver[k] \in Nat /\ ver'[k] \in Nat /\ ver[k] <= ver'[k]
<1>0. Len(events) \in Nat /\ \A k \in Keys : ver[k] \in Nat
  BY DEF TypeOK, RedisTypes
<1>1. CASE UNCHANGED redisVars
  BY <1>0, <1>1 DEF redisVars
<1>2. CASE \E u \in Users, p \in Posts, d \in Directions : Vote(u, p, d)
  <2>1. PICK e \in EventType :
          /\ e.key \in Keys /\ e.ver = ver[e.key] + 1
          /\ Len(events') = Len(events) + 1 /\ Len(events) \in Nat
          /\ \A i \in 1..Len(events) : events'[i] = events[i]
          /\ ver' = [ver EXCEPT ![e.key] = e.ver]
    BY <1>2, VoteEffect
  <2>2. \A k \in Keys : ver'[k] = IF k = e.key THEN ver[k] + 1 ELSE ver[k]
    BY <2>1 DEF TypeOK, RedisTypes
  <2> QED
    BY <1>0, <2>1, <2>2
<1>3. CASE RetryExpires \/ UNCHANGED vars
  BY <1>1, <1>3 DEF RetryExpires, vars, redisVars
<1> QED
  BY <1>1, <1>2, <1>3, NextCases, RelayFrame, ConsumerFrame DEF redisVars

\* The effect of a commit on the rows: the event's row takes the event over if that
\* is newer, and stays as it is otherwise.
LEMMA CommitRows ==
    ASSUME TypeOK, Known, NEW c \in Consumers, job[c].phase = "persist", CommitEvent(c)
    PROVE  /\ EventOf(c).key \in Keys /\ EventOf(c).ver \in Nat \ {0}
           /\ \A k \in Keys : k # EventOf(c).key => row'[k] = row[k]
           /\ \/ /\ row'[EventOf(c).key] = row[EventOf(c).key]
                 /\ \/ job[c].copy[1] \in consumed
                    \/ EventOf(c).ver <= row[EventOf(c).key].ver
              \/ /\ EventOf(c).ver > row[EventOf(c).key].ver
                 /\ row'[EventOf(c).key] = [dir |-> EventOf(c).dir, ver |-> EventOf(c).ver]
<1> DEFINE k == EventOf(c).key
<1> DEFINE new == Applied(row[k], consumed, job[c].copy[1], EventOf(c))
<1>1. k \in Keys /\ EventOf(c).ver \in Nat \ {0}
  BY EventsAreEvents DEF Known, EventOf
<1>2. row \in [Keys -> [dir : Directions, ver : Nat]]
  BY DEF TypeOK, MySQLTypes
<1>3. row' = [row EXCEPT ![k] = new.row]
  BY DEF CommitEvent
<1>4. \/ new.row = row[k] /\ (job[c].copy[1] \in consumed \/ EventOf(c).ver <= row[k].ver)
      \/ EventOf(c).ver > row[k].ver /\ new.row = [dir |-> EventOf(c).dir, ver |-> EventOf(c).ver]
  BY <1>1, <1>2 DEF Applied, Upsert
<1> HIDE DEF new
<1>5. row'[k] = new.row /\ \A j \in Keys : j # k => row'[j] = row[j]
  BY <1>1, <1>2, <1>3
<1> QED
  BY <1>1, <1>4, <1>5

\* What a step may do to MySQL.
LEMMA MySQLSteps ==
    ASSUME [Next]_vars
    PROVE  UNCHANGED mysqlVars
           \/ \E c \in Consumers : job[c].phase = "persist" /\ CommitEvent(c) /\ UNCHANGED redisVars
<1>1. CASE \E u \in Users, p \in Posts, d \in Directions : Vote(u, p, d)
  BY <1>1 DEF Vote
<1>2. CASE \E r \in Relays : RelayStep(r) \/ RelayFault(r) \/ Restart(r)
  BY <1>2, RelayFrame
<1>3. CASE \E c \in Consumers : ConsumerStep(c) \/ ConsumerFault(c)
  BY <1>3, ConsumerFrame, ConsumerCommits
<1>4. CASE RetryExpires \/ UNCHANGED vars
  BY <1>4 DEF RetryExpires, vars
<1> QED
  BY <1>1, <1>2, <1>3, <1>4, NextCases

LEMMA RowsAreGenuineStep ==
    ASSUME TypeOK, Known, EventsNumbered, RowsAreGenuine, [Next]_vars
    PROVE  RowsAreGenuine'
<1> SUFFICES ASSUME NEW k \in Keys, row'[k] # NoRow
             PROVE  /\ row'[k].ver <= ver'[k]
                    /\ \E i \in 1..Len(events') :
                          events'[i] = [key |-> k, dir |-> row'[k].dir, ver |-> row'[k].ver]
  BY DEF RowsAreGenuine
<1>0. row[k].ver \in Nat
  BY DEF TypeOK, MySQLTypes
<1>1. CASE row'[k] = row[k]
  BY <1>0, <1>1, EventsGrow DEF RowsAreGenuine
<1>2. CASE row'[k] # row[k]
  <2>1. PICK c \in Consumers : job[c].phase = "persist" /\ CommitEvent(c) /\ UNCHANGED redisVars
    BY <1>2, MySQLSteps DEF mysqlVars
  <2>2. /\ EventOf(c).key = k
        /\ row'[k] = [dir |-> EventOf(c).dir, ver |-> EventOf(c).ver]
    BY <1>2, <2>1, CommitRows
  <2>3. job[c].copy[1] \in 1..Len(events)
    BY <2>1 DEF Known
  <2>4. EventOf(c) = [key |-> k, dir |-> row'[k].dir, ver |-> row'[k].ver]
    BY <2>2, <2>3, EventsAreEvents DEF EventOf, EventType
  <2>5. events' = events /\ ver' = ver
    BY <2>1 DEF redisVars
  <2>6. row'[k].ver <= ver[k]
    <3>1. events[job[c].copy[1]].ver <= ver[events[job[c].copy[1]].key]
      BY <2>3 DEF EventsNumbered
    <3> QED
      BY <2>2, <3>1 DEF EventOf
  <2> QED
    BY <2>3, <2>4, <2>5, <2>6 DEF EventOf
<1> QED
  BY <1>1, <1>2

\* The version guard of PersistVoteEvent, for one step.
LEMMA RowsAdvance ==
    ASSUME TypeOK, Known, [Next]_vars
    PROVE  /\ \A k \in Keys : /\ row[k].ver \in Nat
                              /\ row'[k] # row[k] => row'[k].ver > row[k].ver
                              /\ row'[k].ver >= row[k].ver
           /\ consumed \subseteq consumed'
<1>1. \A k \in Keys : row[k].ver \in Nat
  BY DEF TypeOK, MySQLTypes
<1>2. CASE UNCHANGED mysqlVars
  BY <1>1, <1>2 DEF mysqlVars
<1>3. CASE \E c \in Consumers : job[c].phase = "persist" /\ CommitEvent(c)
  <2>1. PICK c \in Consumers : job[c].phase = "persist" /\ CommitEvent(c)
    BY <1>3
  <2> DEFINE e == EventOf(c)
  <2>2. /\ e.key \in Keys /\ e.ver \in Nat \ {0}
        /\ \A k \in Keys : k # e.key => row'[k] = row[k]
        /\ \/ row'[e.key] = row[e.key]
           \/ e.ver > row[e.key].ver /\ row'[e.key] = [dir |-> e.dir, ver |-> e.ver]
    BY <2>1, CommitRows
  <2> HIDE DEF e
  <2>3. ASSUME NEW k \in Keys
        PROVE  row'[k] = row[k] \/ (row'[k].ver \in Nat /\ row'[k].ver > row[k].ver)
    <3>1. CASE k # e.key
      BY <2>2, <3>1
    <3>2. CASE k = e.key /\ row'[e.key] # row[e.key]
      <4>1. row'[k].ver = e.ver
        BY <2>2, <3>2
      <4> QED
        BY <2>2, <3>2, <4>1
    <3> QED
      BY <3>1, <3>2
  <2>4. consumed \subseteq consumed'
    BY <2>1, CommitConsumes
  <2> QED
    BY <1>1, <2>3, <2>4
<1> QED
  BY <1>2, <1>3, MySQLSteps

LEMMA ConsumedMeansAppliedStep ==
    ASSUME TypeOK, Known, ConsumedMeansApplied, [Next]_vars
    PROVE  ConsumedMeansApplied'
<1> SUFFICES ASSUME NEW i \in consumed'
             PROVE  i \in 1..Len(events') /\ row'[events'[i].key].ver >= events'[i].ver
  BY DEF ConsumedMeansApplied
<1>1. CASE i \in consumed
  <2>1. i \in 1..Len(events) /\ row[events[i].key].ver >= events[i].ver
    BY <1>1 DEF ConsumedMeansApplied
  <2>2. events[i].key \in Keys /\ events[i].ver \in Nat
    BY <2>1, EventsAreEvents
  <2>3. row'[events[i].key] = row[events[i].key] \/ row'[events[i].key].ver > row[events[i].key].ver
    BY <2>2, RowsAdvance
  <2>4. row[events[i].key].ver \in Nat /\ row'[events[i].key].ver \in Nat
    <3>1. \A k \in Keys : row[k] \in [dir : Directions, ver : Nat]
      BY DEF TypeOK, MySQLTypes
    <3>2. CASE row' = row
      BY <2>2, <3>1, <3>2
    <3>3. CASE \E c \in Consumers : job[c].phase = "persist" /\ CommitEvent(c)
      <4>1. PICK c \in Consumers : job[c].phase = "persist" /\ CommitEvent(c)
        BY <3>3
      <4> DEFINE e == EventOf(c)
      <4>2. /\ e.ver \in Nat \ {0}
            /\ \A k \in Keys : k # e.key => row'[k] = row[k]
            /\ \/ row'[e.key] = row[e.key]
               \/ row'[e.key] = [dir |-> e.dir, ver |-> e.ver]
        BY <4>1, CommitRows
      <4> HIDE DEF e
      <4> QED
        BY <2>2, <3>1, <4>2
    <3> QED
      BY <3>2, <3>3, MySQLSteps DEF mysqlVars
  <2> QED
    BY <2>1, <2>2, <2>3, <2>4, EventsGrow
<1>2. CASE i \notin consumed
  <2>1. PICK c \in Consumers : job[c].phase = "persist" /\ CommitEvent(c) /\ UNCHANGED redisVars
    BY <1>2, MySQLSteps DEF mysqlVars
  <2>2. i = job[c].copy[1] /\ events' = events
    BY <1>2, <2>1, CommitConsumes DEF redisVars
  <2>3. i \in 1..Len(events)
    BY <2>1, <2>2 DEF Known
  <2>4. row'[events[i].key].ver >= events[i].ver
    <3>1. EventOf(c) = events[i] /\ events[i].ver \in Nat /\ events[i].key \in Keys
      BY <2>2, <2>3, EventsAreEvents DEF EventOf
    <3>2. row[events[i].key].ver \in Nat
      BY <3>1 DEF TypeOK, MySQLTypes
    <3>3. \/ /\ row'[EventOf(c).key] = row[EventOf(c).key]
             /\ \/ job[c].copy[1] \in consumed
                \/ EventOf(c).ver <= row[EventOf(c).key].ver
          \/ row'[EventOf(c).key] = [dir |-> EventOf(c).dir, ver |-> EventOf(c).ver]
      BY <2>1, CommitRows
    <3> QED
      BY <1>2, <2>2, <3>1, <3>2, <3>3
  <2> QED
    BY <2>2, <2>3, <2>4
<1> QED
  BY <1>1, <1>2

\* What the queues and the handlers of the next state hold was known before.
LEMMA KnownStep ==
    ASSUME TypeOK, Known, [Next]_vars
    PROVE  Known'
<1>0. /\ Len(events) \in Nat /\ Len(events') \in Nat
      /\ \A i \in 1..Len(events) : i \in 1..Len(events')
  BY EventsGrow
<1>t. /\ main \in [Copies -> Nat] /\ retry \in [Copies -> Nat]
      /\ batch \in [Relays -> SUBSET Ids] /\ JobTypes /\ job \in [Consumers -> JobType]
  BY DEF TypeOK, BrokerTypes, RelayTypes, JobTypes
<1>p. ASSUME NEW q \in [Copies -> Nat], NEW m, NEW x \in Copies, Put(q, m)[x] > 0
      PROVE  q[x] > 0 \/ x = m
  BY <1>p DEF Put
<1>k. ASSUME NEW q \in [Copies -> Nat], NEW m, NEW x \in Copies, Take(q, m)[x] > 0, q[m] > 0
      PROVE  q[x] > 0
  BY <1>k DEF Take
<1>1. (stream \subseteq 1..Len(events))'
  <2>1. CASE \E u \in Users, p \in Posts, d \in Directions : Vote(u, p, d)
    <3>1. stream' = stream \cup {Len(events) + 1} /\ Len(events') = Len(events) + 1
      BY <2>1, VoteEffect
    <3>2. stream \subseteq 1..Len(events) /\ Len(events) + 1 \in 1..Len(events')
      BY <1>0, <3>1 DEF Known
    <3> QED
      BY <1>0, <3>1, <3>2
  <2>2. CASE \E r \in Relays : RelayStep(r) \/ RelayFault(r) \/ Restart(r)
    <3>1. stream' \subseteq stream
      BY <2>2 DEF RelayStep, RelayFault, ClaimStale, ReadOwn, ReadNew, Publish, AckVoteOutbox,
         ClaimReplyLost, ReadFails, PublishFails, AckFails, Crash, Restart, Remove, outboxVars
    <3> QED
      BY <1>0, <3>1 DEF Known
  <2>3. CASE \E c \in Consumers : ConsumerStep(c) \/ ConsumerFault(c)
    BY <1>0, <2>3, ConsumerFrame DEF Known, outboxVars
  <2>4. CASE RetryExpires \/ UNCHANGED vars
    BY <1>0, <2>4 DEF Known, RetryExpires, vars, outboxVars
  <2> QED
    BY <2>1, <2>2, <2>3, <2>4, NextCases
<1>2. ASSUME NEW r \in Relays PROVE (batch[r] \subseteq 1..Len(events))'
  <2>1. CASE UNCHANGED relayVars
    BY <1>0, <2>1 DEF Known, relayVars
  <2>2. CASE \E q \in Relays : RelayStep(q) \/ RelayFault(q) \/ Restart(q)
    <3>1. PICK q \in Relays : RelayStep(q) \/ RelayFault(q) \/ Restart(q)
      BY <2>2
    <3>2. \/ batch' = batch
          \/ \E S : /\ batch' = [batch EXCEPT ![q] = S]
                   /\ \/ S \subseteq stream
                      \/ S \subseteq batch[q]
      <4>1. CASE ClaimStale(q) \/ ReadOwn(q) \/ ReadNew(q)
        BY <4>1, OldestSubset DEF ClaimStale, ReadOwn, ReadNew, Received, Pending, Undelivered
      <4>2. CASE AckVoteOutbox(q) \/ PublishFails(q) \/ AckFails(q) \/ Crash(q)
        BY <4>2 DEF AckVoteOutbox, PublishFails, AckFails, GiveUpBatch, Crash
      <4>3. CASE Publish(q) \/ ClaimReplyLost(q) \/ ReadFails(q) \/ Restart(q)
        BY <4>3 DEF Publish, ClaimReplyLost, ReadFails, Restart, relayVars
      <4> QED
        BY <3>1, <4>1, <4>2, <4>3 DEF RelayStep, RelayFault
    <3>3. CASE batch' = batch
      BY <1>0, <3>3 DEF Known
    <3>4. CASE batch' # batch
      <4>1. PICK S : /\ batch' = [batch EXCEPT ![q] = S]
                     /\ \/ S \subseteq stream
                        \/ S \subseteq batch[q]
        BY <3>2, <3>4
      <4>2. batch'[r] = batch[r] \/ batch'[r] \subseteq stream \/ batch'[r] \subseteq batch[r]
        BY <1>t, <4>1
      <4>3. stream \subseteq 1..Len(events) /\ batch[r] \subseteq 1..Len(events)
        BY DEF Known
      <4> QED
        BY <1>0, <4>2, <4>3
    <3> QED
      BY <3>3, <3>4
  <2> QED
    BY <2>1, <2>2, NextCases, ConsumerFrame DEF Vote, RetryExpires, vars
<1>3. /\ (dead \subseteq 1..Len(events))'
      /\ \A m \in Copies : main'[m] > 0 \/ retry'[m] > 0 => m[1] \in 1..Len(events')
  <2>1. CASE UNCHANGED brokerVars
    BY <1>0, <2>1 DEF Known, brokerVars
  <2>2. CASE \E r \in Relays : RelayStep(r) \/ RelayFault(r) \/ Restart(r)
    <3>1. PICK r \in Relays : RelayStep(r) \/ RelayFault(r) \/ Restart(r)
      BY <2>2
    <3>2. UNCHANGED <<retry, dead>>
      BY <3>1, RelayFrame
    <3>3. \/ main' = main
          \/ batch[r] # {} /\ main' = Put(main, <<Lowest(batch[r]), 0>>)
      BY <3>1 DEF RelayStep, RelayFault, ClaimStale, ReadOwn, ReadNew, Publish, AckVoteOutbox,
         ClaimReplyLost, ReadFails, PublishFails, AckFails, Crash, Restart, brokerVars
    <3>4. batch[r] # {} => Lowest(batch[r]) \in 1..Len(events)
      BY <1>t, LowestIn DEF Known
    <3>5. \A m \in Copies : main'[m] > 0 => main[m] > 0 \/ (batch[r] # {} /\ m[1] = Lowest(batch[r]))
      BY <1>t, <1>p, <3>3
    <3> QED
      BY <1>0, <3>2, <3>4, <3>5 DEF Known
  <2>3. CASE \E c \in Consumers : ConsumerStep(c) \/ ConsumerFault(c)
    <3>1. PICK c \in Consumers : ConsumerStep(c) \/ ConsumerFault(c)
      BY <2>3
    <3>2. job[c].phase # "idle" => job[c].copy[1] \in 1..Len(events)
      BY <3>1 DEF Known
    <3>3. \A m \in Copies : main'[m] > 0 =>
              main[m] > 0 \/ (job[c].phase # "idle" /\ m[1] = job[c].copy[1])
      <4>1. CASE Consume(c)
        BY <1>t, <1>k, <4>1 DEF Consume
      <4>2. CASE RepublishFails(c) \/ LoseDelivery(c) \/ ConsumerCrash(c)
        <5>1. main' = Requeue(c) /\ job[c].phase # "idle"
          BY <1>t, <4>2 DEF RepublishFails, LoseDelivery, ConsumerCrash, JobType, Idle
        <5> QED
          BY <1>t, <1>p, <5>1 DEF Requeue
      <4>3. CASE PersistVoteEvent(c) \/ Republished(c) \/ AckDelivery(c) \/ PersistFails(c)
        BY <4>3 DEF PersistVoteEvent, Republished, AckDelivery, PersistFails, brokerVars
      <4> QED
        BY <3>1, <4>1, <4>2, <4>3 DEF ConsumerStep, ConsumerFault
    <3>4. /\ dead' \subseteq dead \cup {job[c].copy[1]} /\ (dead' # dead => job[c].phase # "idle")
          /\ \A m \in Copies : retry'[m] > 0 =>
              retry[m] > 0 \/ (job[c].phase # "idle" /\ m[1] = job[c].copy[1])
      <4>1. CASE Republished(c) \/ RepublishFails(c)
        <5>1. /\ job[c].phase # "idle"
              /\ \/ UNCHANGED <<retry, dead>>
                 \/ retry' = Put(retry, <<job[c].copy[1], job[c].copy[2] + 1>>) /\ dead' = dead
                 \/ retry' = retry /\ dead' = dead \cup {job[c].copy[1]}
          BY <4>1 DEF Republished, RepublishFails, Republish
        <5> QED
          BY <1>t, <1>p, <5>1
      <4>2. CASE ~(Republished(c) \/ RepublishFails(c))
        BY <3>1, <4>2 DEF ConsumerStep, ConsumerFault, Consume, PersistVoteEvent, AckDelivery,
           PersistFails, LoseDelivery, ConsumerCrash, brokerVars
      <4> QED
        BY <4>1, <4>2
    <3> QED
      BY <1>0, <3>2, <3>3, <3>4 DEF Known
  <2>4. CASE RetryExpires
    <3>1. PICK m \in Copies :
            retry[m] > 0 /\ retry' = Take(retry, m) /\ main' = Put(main, m) /\ dead' = dead
      BY <2>4 DEF RetryExpires
    <3>2. \A x \in Copies : retry'[x] > 0 => retry[x] > 0
      BY <1>t, <1>k, <3>1
    <3>3. \A x \in Copies : main'[x] > 0 => main[x] > 0 \/ x = m
      BY <1>t, <1>p, <3>1
    <3> QED
      BY <1>0, <3>1, <3>2, <3>3 DEF Known
  <2> QED
    BY <2>1, <2>2, <2>3, <2>4, NextCases DEF Vote, vars
<1>4. ASSUME NEW c \in Consumers
      PROVE  /\ job'[c].phase # "idle" => job'[c].copy[1] \in 1..Len(events')
             /\ job'[c].phase = "retry" => job'[c].copy[2] < MaxRetries
  <2>1. CASE job'[c] = job[c]
    BY <1>0, <2>1 DEF Known
  <2>2. CASE ConsumerStep(c) \/ ConsumerFault(c)
    <3>1. CASE Consume(c)
      BY <1>0, <1>t, <3>1 DEF Consume, Known
    <3>2. CASE PersistVoteEvent(c) \/ Republished(c)
      <4>1. /\ job[c].phase # "idle"
            /\ GoTo(c, "ack") \/ GoTo(c, "dead")
        BY <3>2 DEF PersistVoteEvent, Republished
      <4>2. job'[c].copy = job[c].copy /\ job'[c].phase # "retry"
        BY <1>t, <4>1 DEF GoTo, JobType, Idle
      <4> QED
        BY <1>0, <4>1, <4>2 DEF Known
    <3>3. CASE PersistFails(c)
      <4>1. /\ job[c].phase # "idle"
            /\ GoTo(c, IF GivesUp(job[c].copy[2]) THEN "dead" ELSE "retry")
        BY <3>3 DEF PersistFails
      <4>2. /\ job'[c].copy = job[c].copy
            /\ job'[c].phase = IF GivesUp(job[c].copy[2]) THEN "dead" ELSE "retry"
        BY <1>t, <4>1 DEF GoTo, JobType, Idle
      <4>3. job[c].copy[2] \in 0..MaxRetries
        BY <1>t, <4>1, JobCopy
      <4> QED
        BY <1>0, <4>1, <4>2, <4>3, BoundsAssumption DEF Known, GivesUp
    <3>4. CASE AckDelivery(c) \/ RepublishFails(c) \/ ConsumerCrash(c)
      BY <1>t, <3>4 DEF AckDelivery, RepublishFails, ConsumerCrash, Finish, Idle
    <3>5. CASE LoseDelivery(c)
      <4>1. /\ job'[c].copy = job[c].copy /\ job'[c].phase = job[c].phase
        BY <1>t, <3>5 DEF LoseDelivery, JobType, Idle
      <4> QED
        BY <1>0, <4>1 DEF Known
    <3> QED
      BY <2>2, <3>1, <3>2, <3>3, <3>4, <3>5 DEF ConsumerStep, ConsumerFault
  <2>3. CASE \E b \in Consumers : b # c /\ (ConsumerStep(b) \/ ConsumerFault(b))
    BY <1>t, <2>1, <2>3, OtherJobs
  <2> QED
    BY <2>1, <2>2, <2>3, NextCases, RelayFrame DEF Vote, RetryExpires, vars
<1> QED
  BY <1>1, <1>2, <1>3, <1>4 DEF Known

\* A relay has nothing confirmed that is not safe: publishing makes it so.
LEMMA RelaysAnswered ==
    ASSUME TypeOK, Known, Answered, [Next]_vars, NEW r \in Relays, confirmed'[r]
    PROVE  batch'[r] # {} /\ Safe(Lowest(batch[r]))'
<1>t. /\ main \in [Copies -> Nat] /\ confirmed \in [Relays -> BOOLEAN]
      /\ batch \in [Relays -> SUBSET Ids]
  BY DEF TypeOK, BrokerTypes, RelayTypes
<1>1. CASE confirmed[r] /\ batch'[r] = batch[r]
  <2>1. batch[r] # {} /\ Safe(Lowest(batch[r])) /\ Lowest(batch[r]) \in Ids
    BY <1>t, <1>1, LowestIn DEF Answered
  <2>2. Safe(Lowest(batch[r]))'
    <3>1. PICK i \in Ids : Safe(i) /\ i = Lowest(batch[r]) /\ i = Lowest(batch'[r])
      BY <1>1, <2>1
    <3>2. Safe(i)'
      BY <3>1, SafeStable
    <3> QED
      BY <3>1, <3>2 DEF Safe, InQueue, Held
  <2> QED
    BY <1>1, <2>1, <2>2
<1>2. CASE Publish(r)
  <2>1. /\ batch[r] # {} /\ batch' = batch
        /\ main' = Put(main, <<Lowest(batch[r]), 0>>)
    BY <1>2 DEF Publish
  <2>2. Lowest(batch[r]) \in Ids /\ 0 \in 0..MaxRetries
    BY <1>t, <2>1, LowestIn, BoundsAssumption
  <2>3. InQueue(Put(main, <<Lowest(batch[r]), 0>>), Lowest(batch[r]))
    BY <1>t, <2>2, PutInQueue
  <2> QED
    BY <2>1, <2>3 DEF Safe, InQueue
<1>3. CASE confirmed'[r] = confirmed[r] /\ batch'[r] = batch[r]
  BY <1>1, <1>3
<1>4. CASE RelayStep(r) \/ RelayFault(r) \/ Restart(r)
  <2>1. batch[r] = {} => ~confirmed[r]
    BY DEF Answered
  <2>2. CASE ClaimStale(r) \/ ReadOwn(r) \/ ReadNew(r)
    BY <2>1, <2>2 DEF ClaimStale, ReadOwn, ReadNew, Reading
  <2>3. CASE AckVoteOutbox(r) \/ PublishFails(r) \/ AckFails(r) \/ Crash(r)
    BY <1>t, <2>3 DEF AckVoteOutbox, PublishFails, AckFails, Crash, GiveUpBatch
  <2>4. CASE ClaimReplyLost(r) \/ ReadFails(r) \/ Restart(r)
    BY <1>3, <2>4 DEF ClaimReplyLost, ReadFails, Restart, relayVars
  <2> QED
    BY <1>2, <1>4, <2>2, <2>3, <2>4 DEF RelayStep, RelayFault
<1>5. CASE \E q \in Relays : q # r /\ (RelayStep(q) \/ RelayFault(q) \/ Restart(q))
  <2>1. PICK q \in Relays : q # r /\ (RelayStep(q) \/ RelayFault(q) \/ Restart(q))
    BY <1>5
  <2>2. confirmed'[r] = confirmed[r]
    BY <1>t, <2>1 DEF RelayStep, RelayFault, ClaimStale, ReadOwn, ReadNew, Publish, AckVoteOutbox,
       ClaimReplyLost, ReadFails, PublishFails, AckFails, GiveUpBatch, Crash, Restart, relayVars
  <2>3. batch'[r] = batch[r]
    <3>1. CASE ClaimStale(q) \/ ReadOwn(q) \/ ReadNew(q)
      BY <1>t, <2>1, <3>1 DEF ClaimStale, ReadOwn, ReadNew, Received
    <3>2. CASE ~(ClaimStale(q) \/ ReadOwn(q) \/ ReadNew(q))
      BY <1>t, <2>1, <3>2 DEF RelayStep, RelayFault, Publish, AckVoteOutbox,
         ClaimReplyLost, ReadFails, PublishFails, AckFails, GiveUpBatch, Crash, Restart, relayVars
    <3> QED
      BY <3>1, <3>2
  <2> QED
    BY <1>3, <2>2, <2>3
<1>6. CASE UNCHANGED relayVars
  BY <1>3, <1>6 DEF relayVars
<1> QED
  BY <1>4, <1>5, <1>6, NextCases, ConsumerFrame DEF Vote, RetryExpires, vars

\* A consumer acknowledges nothing that is not safe: the commit or the confirmed
\* publication comes first.
LEMMA ConsumersAnswered ==
    ASSUME TypeOK, Known, Answered, [Next]_vars, NEW c \in Consumers, job'[c].phase = "ack"
    PROVE  Safe(job[c].copy[1])'
<1>t. /\ retry \in [Copies -> Nat] /\ JobTypes /\ job \in [Consumers -> JobType]
  BY DEF TypeOK, BrokerTypes, JobTypes
<1> DEFINE i == job[c].copy[1]
<1>1. CASE job[c].phase = "ack" /\ job'[c].copy = job[c].copy
  <2>1. PICK e \in Ids : Safe(e) /\ e = job[c].copy[1] /\ e = job'[c].copy[1]
    BY <1>t, <1>1, JobCopy DEF Answered
  <2>2. Safe(e)'
    BY <2>1, SafeStable
  <2> QED
    BY <2>1, <2>2 DEF Safe, InQueue, Held
<1>2. CASE ConsumerStep(c) \/ ConsumerFault(c)
  <2>g. ASSUME NEW s \in {"ack", "retry", "dead"}, GoTo(c, s), job[c].phase # "idle"
        PROVE  job'[c].phase = s /\ job'[c].copy[1] = i
    BY <1>t, <2>g DEF GoTo, JobType, Idle
  <2>1. CASE PersistVoteEvent(c)
    <3>1. job[c].phase # "idle" /\ (GoTo(c, "dead") \/ (GoTo(c, "ack") /\ CommitEvent(c)))
      BY <2>1 DEF PersistVoteEvent
    <3>2. job'[c].copy[1] \in consumed'
      BY <2>g, <3>1, CommitConsumes
    <3> QED
      BY <3>2 DEF Safe
  <2>2. CASE Republished(c)
    <3>1. job[c].phase \in {"retry", "dead"} /\ Republish(c) /\ GoTo(c, "ack")
      BY <2>2 DEF Republished
    <3>2. job'[c].copy[1] = i /\ i \in Ids
      BY <1>t, <2>g, <3>1, JobCopy
    <3>3. CASE job[c].phase = "dead"
      BY <3>1, <3>2, <3>3 DEF Republish, Safe
    <3>4. CASE job[c].phase = "retry"
      <4>1. job[c].copy[2] + 1 \in 0..MaxRetries
        BY <1>t, <3>4, JobCopy, BoundsAssumption DEF Known
      <4>2. InQueue(retry', i)
        BY <1>t, <3>1, <3>2, <3>4, <4>1, PutInQueue DEF Republish
      <4> QED
        BY <3>2, <4>2 DEF Safe, InQueue
    <3> QED
      BY <3>1, <3>3, <3>4
  <2>3. CASE Consume(c) \/ AckDelivery(c) \/ RepublishFails(c) \/ ConsumerCrash(c)
    BY <1>t, <2>3 DEF Consume, AckDelivery, RepublishFails, ConsumerCrash, Finish, Idle
  <2>4. CASE PersistFails(c)
    <3>1. job[c].phase # "idle" /\ (GoTo(c, "dead") \/ GoTo(c, "retry"))
      BY <2>4 DEF PersistFails
    <3> QED
      BY <2>g, <3>1
  <2>5. CASE LoseDelivery(c)
    <3>1. job'[c].phase = job[c].phase /\ job'[c].copy = job[c].copy
      BY <1>t, <2>5 DEF LoseDelivery, JobType, Idle
    <3> QED
      BY <1>1, <3>1
  <2> QED
    BY <1>2, <2>1, <2>2, <2>3, <2>4, <2>5 DEF ConsumerStep, ConsumerFault
<1>3. CASE job'[c] = job[c]
  BY <1>1, <1>3
<1>4. CASE \E b \in Consumers : b # c /\ (ConsumerStep(b) \/ ConsumerFault(b))
  BY <1>t, <1>3, <1>4, OtherJobs
<1> QED
  BY <1>2, <1>3, <1>4, NextCases, RelayFrame DEF Vote, RetryExpires, vars

LEMMA AnsweredStep ==
    ASSUME TypeOK, Known, Answered, [Next]_vars
    PROVE  Answered'
BY RelaysAnswered, ConsumersAnswered DEF Answered

\* An entry leaves the outbox only when its event is safe.
LEMMA NothingLostStep ==
    ASSUME TypeOK, Known, Answered, NothingLost, [Next]_vars
    PROVE  NothingLost'
<1> SUFFICES ASSUME NEW i \in 1..Len(events'), i \notin stream' PROVE Safe(i)'
  BY DEF NothingLost
<1>0. Len(events) \in Nat /\ Len(events') \in Nat /\ Len(events) <= MaxVotes
  BY EventsGrow DEF TypeOK, RedisTypes
<1>1. CASE i \in 1..Len(events) /\ i \notin stream
  <2>1. i \in Ids /\ Safe(i)
    BY <1>0, <1>1, BoundsAssumption DEF NothingLost, Ids
  <2> QED
    BY <2>1, SafeStable
<1>2. CASE \E u \in Users, p \in Posts, d \in Directions : Vote(u, p, d)
  <2>1. stream' = stream \cup {Len(events) + 1} /\ Len(events') = Len(events) + 1
    BY <1>2, VoteEffect
  <2>2. i \in 1..Len(events) /\ i \notin stream
    BY <1>0, <2>1
  <2> QED
    BY <1>1, <2>2
<1>3. CASE \E r \in Relays : RelayStep(r) \/ RelayFault(r) \/ Restart(r)
  <2>1. PICK r \in Relays : RelayStep(r) \/ RelayFault(r) \/ Restart(r)
    BY <1>3
  <2>2. events' = events
    BY <2>1, RelayFrame DEF redisVars
  <2>3. stream' = stream \/ (confirmed[r] /\ stream' = stream \ {Lowest(batch[r])})
    BY <2>1 DEF RelayStep, RelayFault, ClaimStale, ReadOwn, ReadNew, Publish, AckVoteOutbox,
       ClaimReplyLost, ReadFails, PublishFails, AckFails, MayAck, Remove, Crash, Restart, outboxVars
  <2>4. CASE i \in stream
    <3>1. confirmed[r] /\ i = Lowest(batch[r])
      BY <2>3, <2>4
    <3>2. Safe(i) /\ i \in Ids
      BY <1>0, <2>2, <3>1, BoundsAssumption DEF Answered, Ids
    <3> QED
      BY <3>2, SafeStable
  <2> QED
    BY <1>1, <2>2, <2>4
<1>4. CASE UNCHANGED stream /\ UNCHANGED events
  BY <1>1, <1>4
<1> QED
  BY <1>2, <1>3, <1>4, NextCases, ConsumerFrame DEF RetryExpires, vars, redisVars, outboxVars

-----------------------------------------------------------------------------
(* No entry is forgotten                                                    *)

\* A read of new entries that reaches up to an entry has delivered it as well: only
\* higher ones are left out.
LEMMA OldestReachesDown ==
    ASSUME NEW S \in SUBSET Ids, NEW h \in Oldest(S), NEW i \in S, i <= h
    PROVE  i \in Oldest(S)
<1> DEFINE below(n) == {j \in S : j < n}
<1>1. S \in SUBSET Nat /\ h \in S
  BY BoundsAssumption DEF Ids, Oldest
<1>2. IsFiniteSet(Ids)
  BY FS_Interval, BoundsAssumption DEF Ids
<1>3. IsFiniteSet(below(h))
  BY <1>2, FS_Subset
<1>4. below(i) \subseteq below(h)
  <2> SUFFICES ASSUME NEW j \in S, j < i PROVE j < h
    OBVIOUS
  <2>1. i \in Nat /\ h \in Nat /\ j \in Nat
    BY <1>1
  <2> QED
    BY <2>1
<1>5. Cardinality(below(i)) <= Cardinality(below(h))
  BY <1>3, <1>4, FS_Subset
<1>6. Cardinality(below(i)) \in Nat /\ Cardinality(below(h)) \in Nat
  BY <1>3, <1>4, FS_Subset, FS_CardinalityType
<1>7. Cardinality(below(h)) < Batch
  BY DEF Oldest
<1>8. Cardinality(below(i)) < Batch
  BY <1>5, <1>6, <1>7, BoundsAssumption
<1> QED
  BY <1>8 DEF Oldest

\* Delivering new entries moves the group past these alone.
LEMMA DeliverAttends ==
    ASSUME TypeOK, Known, Attended, NEW r \in Relays, Deliver(r, Oldest(Undelivered)),
           UNCHANGED <<stream, events>>
    PROVE  Attended'
<1> DEFINE S == Oldest(Undelivered)
<1>1. /\ stream \subseteq Ids /\ lastDelivered \in Nat /\ owner \in [Ids -> Relays \cup {NoRelay}]
      /\ stream \subseteq 1..Len(events)
  BY BoundsAssumption DEF TypeOK, OutboxTypes, Known
<1>2. Undelivered \in SUBSET Ids /\ S \in SUBSET Ids /\ S \subseteq Undelivered
  BY <1>1, OldestSubset DEF Undelivered
<1>3. /\ lastDelivered' = DeliveredUpTo(S)
      /\ owner' = [i \in Ids |-> IF i \in S THEN r ELSE owner[i]] /\ r # NoRelay
  BY RelaysAssumption DEF Deliver
<1> HIDE DEF S
<1>4. CASE S = {}
  <2>1. lastDelivered' = lastDelivered /\ \A i \in Ids : owner'[i] = owner[i]
    BY <1>3, <1>4 DEF DeliveredUpTo
  <2> QED
    BY <1>1, <2>1 DEF Attended
<1>5. CASE S # {}
  <2>1. Highest(S) \in S /\ lastDelivered' = Highest(S)
    BY <1>2, <1>3, <1>5, HighestIn DEF DeliveredUpTo
  <2>2. Highest(S) \in 1..Len(events) /\ Highest(S) \in Ids
    BY <1>1, <1>2, <2>1 DEF Undelivered
  <2>3. lastDelivered' <= Len(events')
    BY <2>1, <2>2
  <2>4. ASSUME NEW i \in stream', ~(i > lastDelivered') PROVE owner'[i] # NoRelay
    <3>1. i \in Ids /\ i \in Nat /\ i \in stream
      BY <1>1, BoundsAssumption DEF Ids
    <3>2. CASE i \in Undelivered
      <4>1. i <= Highest(S)
        BY <2>1, <2>2, <2>4, <3>1
      <4>2. i \in S
        BY <1>2, <2>1, <3>2, <4>1, OldestReachesDown DEF S
      <4> QED
        BY <1>3, <3>1, <4>2
    <3>3. CASE i \notin Undelivered
      <4>1. owner[i] # NoRelay
        BY <3>1, <3>3 DEF Attended, Undelivered
      <4> QED
        BY <1>3, <3>1, <4>1
    <3> QED
      BY <3>2, <3>3
  <2> QED
    BY <2>3, <2>4 DEF Attended
<1> QED
  BY <1>4, <1>5

LEMMA AttendedStep ==
    ASSUME TypeOK, Known, Attended, [Next]_vars
    PROVE  Attended'
<1>0. /\ stream \subseteq Ids /\ owner \in [Ids -> Relays \cup {NoRelay}]
      /\ lastDelivered \in Nat /\ Len(events) \in Nat /\ Ids \subseteq Nat
  BY BoundsAssumption DEF TypeOK, OutboxTypes, RedisTypes, Ids
<1>1. CASE \E u \in Users, p \in Posts, d \in Directions : Vote(u, p, d)
  <2>1. stream' = stream \cup {Len(events) + 1} /\ Len(events') = Len(events) + 1
    BY <1>1, VoteEffect
  <2>2. UNCHANGED <<lastDelivered, owner>>
    BY <1>1 DEF Vote
  <2> QED
    BY <1>0, <2>1, <2>2 DEF Attended
<1>2. CASE \E r \in Relays : RelayStep(r) \/ RelayFault(r) \/ Restart(r)
  <2>1. PICK r \in Relays : RelayStep(r) \/ RelayFault(r) \/ Restart(r)
    BY <1>2
  <2>2. events' = events
    BY <2>1, RelayFrame DEF redisVars
  <2>3. CASE ClaimStale(r) \/ ClaimReplyLost(r)
    <3>1. PICK S : owner' = [i \in Ids |-> IF i \in S THEN r ELSE owner[i]]
      BY <2>3 DEF ClaimStale, ClaimReplyLost
    <3>2. UNCHANGED <<stream, lastDelivered>> /\ r # NoRelay
      BY <2>3, RelaysAssumption DEF ClaimStale, ClaimReplyLost
    <3> QED
      BY <1>0, <2>2, <3>1, <3>2 DEF Attended
  <2>4. CASE Deliver(r, Oldest(Undelivered)) /\ UNCHANGED stream
    BY <2>2, <2>4, DeliverAttends
  <2>5. CASE \E i : Remove(i) /\ UNCHANGED lastDelivered
    <3>1. PICK i : /\ stream' = stream \ {i} /\ owner' = [owner EXCEPT ![i] = NoRelay]
                   /\ UNCHANGED lastDelivered
      BY <2>5 DEF Remove
    <3>2. \A j \in stream' : j \in stream /\ owner'[j] = owner[j]
      BY <1>0, <3>1
    <3> QED
      BY <2>2, <3>1, <3>2 DEF Attended
  <2>6. CASE UNCHANGED outboxVars
    BY <2>2, <2>6 DEF Attended, outboxVars
  <2> QED
    BY <2>1, <2>3, <2>4, <2>5, <2>6
    DEF RelayStep, RelayFault, ReadOwn, ReadNew, Publish, AckVoteOutbox, ReadFails,
        PublishFails, AckFails, Crash, Restart, outboxVars
<1>3. CASE UNCHANGED <<outboxVars, events>>
  BY <1>3 DEF Attended, outboxVars
<1> QED
  BY <1>1, <1>2, <1>3, NextCases, ConsumerFrame DEF RetryExpires, vars, redisVars

-----------------------------------------------------------------------------
(* The theorems                                                             *)

LEMMA InitIInv == Init => IInv
<1> SUFFICES ASSUME Init PROVE IInv
  OBVIOUS
<1>1. TypeOK
  BY InitTypeOK
<1>2. Len(events) = 0
  BY DEF Init
<1>3. Known
  BY <1>2 DEF Known, Init, Idle
<1>4. EventsNumbered
  BY <1>2 DEF EventsNumbered, Init, InRedis, NoRow
<1>5. Answered
  BY DEF Answered, Init, Idle
<1>6. RowsAreGenuine /\ ConsumedMeansApplied /\ NothingLost
  BY <1>2 DEF RowsAreGenuine, ConsumedMeansApplied, NothingLost, Init
<1>7. Attended
  BY <1>2 DEF Attended, Init
<1> QED
  BY <1>1, <1>3, <1>4, <1>5, <1>6, <1>7 DEF IInv

LEMMA NextIInv == IInv /\ [Next]_vars => IInv'
<1> SUFFICES ASSUME IInv, [Next]_vars PROVE IInv'
  OBVIOUS
<1>0. /\ TypeOK /\ Known /\ EventsNumbered /\ Answered /\ Attended
      /\ RowsAreGenuine /\ ConsumedMeansApplied /\ NothingLost
  BY DEF IInv
<1>1. TypeOK'
  <2>1. \A c \in Consumers : job[c].phase = "persist" => job[c].copy[1] \in 1..Len(events)
    BY <1>0 DEF Known
  <2>2. CASE RetryExpires
    <3>1. BrokerTypes'
      BY <1>0, <2>2, QueueType DEF RetryExpires, TypeOK, BrokerTypes
    <3> QED
      BY <1>0, <2>2, <3>1, UnchangedTypes DEF RetryExpires, TypeOK
  <2>3. CASE UNCHANGED vars
    BY <1>0, <2>3, UnchangedTypes DEF vars, TypeOK, brokerVars
  <2> QED
    BY <1>0, <2>1, <2>2, <2>3, NextCases, VoteTypeOK, RelayTypeOK, ConsumerTypeOK
<1> QED
  BY <1>0, <1>1, KnownStep, EventsNumberedStep, AnsweredStep, AttendedStep, RowsAreGenuineStep,
     ConsumedMeansAppliedStep, NothingLostStep DEF IInv

\* The invariant is inductive: it holds in every state of every behaviour.
THEOREM Invariance == Spec => []IInv
BY InitIInv, NextIInv, PTL DEF Spec

\* Every variable keeps its type.
THEOREM TypeCorrect == Spec => []TypeOK
<1>1. IInv => TypeOK
  BY DEF IInv
<1> QED
  BY <1>1, Invariance, PTL

\* At-least-once: no event that Redis accepted is ever lost, however relays,
\* consumers and the broker fail between any two steps.
THEOREM AtLeastOnce == Spec => []NothingLost
<1>1. IInv => NothingLost
  BY DEF IInv
<1> QED
  BY <1>1, Invariance, PTL

\* No row of MySQL mixes two events or runs ahead of Redis.
THEOREM GenuineRows == Spec => []RowsAreGenuine
<1>1. IInv => RowsAreGenuine
  BY DEF IInv
<1> QED
  BY <1>1, Invariance, PTL

\* An event recorded as consumed has had its effect.
THEOREM AppliedOnce == Spec => []ConsumedMeansApplied
<1>1. IInv => ConsumedMeansApplied
  BY DEF IInv
<1> QED
  BY <1>1, Invariance, PTL

\* Once stream, queues and dead-letter queue are empty and no delivery is
\* unacknowledged, every event has been consumed.
LEMMA DrainedConsumed ==
    ASSUME TypeOK, NothingLost, Drained, NEW i \in 1..Len(events)
    PROVE  i \in consumed
<1>1. Safe(i) /\ i \notin dead /\ ~Held(i)
  BY DEF NothingLost, Drained, Held
<1>2. \A n \in 0..MaxRetries : main[<<i, n>>] = 0 /\ retry[<<i, n>>] = 0
  BY EventsAreEvents, CopyParts DEF Drained
<1>3. ASSUME NEW n \in 0..MaxRetries PROVE ~(main[<<i, n>>] > 0) /\ ~(retry[<<i, n>>] > 0)
  BY <1>2
<1>4. ~InQueue(main, i) /\ ~InQueue(retry, i)
  BY <1>3 DEF InQueue
<1> QED
  BY <1>1, <1>4 DEF Safe

\* So the newest event of every vote has been consumed: the row is that vote.
LEMMA DrainedFromIInv == IInv => DrainedMeansEqual
<1> SUFFICES ASSUME IInv, Drained, NEW k \in Keys PROVE row[k] = InRedis(k)
  BY DEF DrainedMeansEqual
<1>0. /\ TypeOK /\ EventsNumbered /\ RowsAreGenuine /\ ConsumedMeansApplied /\ NothingLost
  BY DEF IInv
<1>1. row[k] \in [dir : Directions, ver : Nat] /\ ver[k] \in Nat /\ dir[k] \in Directions
  BY <1>0 DEF TypeOK, MySQLTypes, RedisTypes
<1>2. \A i \in 1..Len(events) : i \in consumed
  BY <1>0, DrainedConsumed
<1>3. CASE InRedis(k) = NoRow
  <2>1. ver[k] = 0
    BY <1>3 DEF InRedis, NoRow
  <2>2. ASSUME row[k] # NoRow PROVE FALSE
    <3>1. PICK i \in 1..Len(events) :
            events[i] = [key |-> k, dir |-> row[k].dir, ver |-> row[k].ver]
      BY <1>0, <2>2 DEF RowsAreGenuine
    <3>2. events[i].ver \in Nat \ {0} /\ row[k].ver <= ver[k]
      BY <1>0, <2>2, EventsAreEvents DEF RowsAreGenuine
    <3> QED
      BY <1>1, <2>1, <3>1, <3>2
  <2> QED
    BY <1>3, <2>2
<1>4. CASE InRedis(k) # NoRow
  <2>1. PICK i \in 1..Len(events) : events[i] = [key |-> k, dir |-> dir[k], ver |-> ver[k]]
    BY <1>0, <1>4 DEF EventsNumbered
  <2>2. row[k].ver >= ver[k] /\ ver[k] \in Nat \ {0}
    <3>1. events[i].key = k /\ events[i].ver = ver[k] /\ events[i].ver \in Nat \ {0}
      BY <1>0, <2>1, EventsAreEvents
    <3>2. row[events[i].key].ver >= events[i].ver
      BY <1>0, <1>2 DEF ConsumedMeansApplied
    <3> QED
      BY <3>1, <3>2
  <2>3. row[k] # NoRow
    BY <1>1, <2>2 DEF NoRow
  <2>4. PICK j \in 1..Len(events) :
          events[j] = [key |-> k, dir |-> row[k].dir, ver |-> row[k].ver]
    BY <1>0, <2>3 DEF RowsAreGenuine
  <2>5. row[k].ver = ver[k]
    <3>1. row[k].ver <= ver[k] /\ row[k].ver \in Nat
      BY <1>0, <1>1, <2>3 DEF RowsAreGenuine
    <3> QED
      BY <1>1, <2>2, <3>1
  <2>6. i = j
    BY <1>0, <2>1, <2>4, <2>5 DEF EventsNumbered
  <2> QED
    BY <1>1, <2>1, <2>4, <2>5, <2>6 DEF InRedis
<1> QED
  BY <1>3, <1>4

\* The precondition an operator checks before a rebuild is sufficient.
THEOREM DrainedIsEqual == Spec => []DrainedMeansEqual
BY DrainedFromIInv, Invariance, PTL

\* Nobody has anything to do: XPENDING lists no entry, a read of new entries finds
\* none, and the queues are empty with every delivery acknowledged.
AtRest ==
    /\ Pending = {} /\ Undelivered = {}
    /\ \A m \in Copies : main[m] = 0 /\ retry[m] = 0
    /\ \A c \in Consumers : ~job[c].owned

\* The pipeline does not come to rest before its work is done: when the reads of all
\* relays and consumers (worker/vote_relay.go:29, worker/vote_consumer.go:30) find
\* nothing, the outbox is empty, and MySQL holds the votes of Redis unless some event
\* has been dead-lettered.
THEOREM RestIsConvergence ==
    Spec => [](AtRest => stream = {} /\ (dead = {} => \A k \in Keys : row[k] = InRedis(k)))
<1>1. IInv /\ AtRest => stream = {}
  BY DEF IInv, Attended, AtRest, Pending, Undelivered
<1>2. IInv /\ AtRest /\ dead = {} => \A k \in Keys : row[k] = InRedis(k)
  BY <1>1, DrainedFromIInv DEF AtRest, Drained, DrainedMeansEqual
<1> QED
  BY <1>1, <1>2, Invariance, PTL

\* Two events of a vote never share a version, so no genuine event conflicts.
LEMMA NoConflictFromIInv == IInv => NoGenuineConflict
<1> SUFFICES ASSUME IInv, NEW c \in Consumers, job[c].phase = "persist",
                    StatusOf(c) = "conflict"
             PROVE  FALSE
  BY DEF NoGenuineConflict
<1> DEFINE i == job[c].copy[1]
<1> DEFINE k == EventOf(c).key
<1>0. TypeOK /\ Known /\ EventsNumbered /\ RowsAreGenuine
  BY DEF IInv
<1>1. i \in 1..Len(events) /\ EventOf(c) = events[i]
  BY <1>0 DEF Known, EventOf
<1>2. events[i] \in EventType /\ k \in Keys /\ EventOf(c).ver \in Nat \ {0}
  BY <1>0, <1>1, EventsAreEvents
<1>3. row[k].ver = EventOf(c).ver /\ row[k].dir # EventOf(c).dir
  BY DEF StatusOf, PersistStatus
<1>4. row[k] # NoRow
  BY <1>2, <1>3 DEF NoRow
<1>5. PICK j \in 1..Len(events) :
        events[j] = [key |-> k, dir |-> row[k].dir, ver |-> row[k].ver]
  BY <1>0, <1>2, <1>4 DEF RowsAreGenuine
<1>6. i = j
  BY <1>0, <1>1, <1>3, <1>5 DEF EventsNumbered
<1> QED
  BY <1>1, <1>3, <1>5, <1>6

\* ErrVoteEventConflict is never raised for an event of the script.
THEOREM ConflictFree == Spec => []NoGenuineConflict
BY NoConflictFromIInv, Invariance, PTL

\* A late, repeated or reordered event never brings an older vote back.
THEOREM RowsAdvanceOnly == Spec => RowsOnlyAdvance
<1> DEFINE Advance ==
      /\ \A k \in Keys : row'[k] # row[k] => row'[k].ver > row[k].ver
      /\ consumed \subseteq consumed'
<1>1. IInv /\ [Next]_vars => [Advance]_vars
  BY RowsAdvance DEF IInv
<1>2. Spec => [][Next]_vars
  BY DEF Spec
<1> HIDE DEF Advance
<1>3. Spec => [][Advance]_vars
  BY <1>1, <1>2, Invariance, PTL
<1> QED
  BY <1>3 DEF Advance, RowsOnlyAdvance

-----------------------------------------------------------------------------
(* Refinement: the pipeline is a replica that lags behind                    *)

LEMMA ReplicaInit == Init => Replica!Init
BY DEF Init, Replica!Init, InRedis, Keys, Replica!Keys, NoRow, Replica!NoVote

\* A step that changes neither the votes in Redis nor the rows is a stutter.
LEMMA ReplicaStutter ==
    ASSUME UNCHANGED redisVars, UNCHANGED row
    PROVE  UNCHANGED Replica!vars
BY DEF redisVars, Replica!vars, InRedis

\* A vote is one that the store accepts.
LEMMA ReplicaAccept ==
    ASSUME TypeOK, NEW u \in Users, NEW p \in Posts, NEW d \in Directions, Vote(u, p, d)
    PROVE  Replica!Next
<1> DEFINE k == <<u, p>>
<1> DEFINE e == [key |-> k, dir |-> d, ver |-> ver[k] + 1]
<1>1. k \in Keys /\ ver[k] \in Nat /\ events \in Seq(EventType)
      /\ dir \in [Keys -> Directions] /\ ver \in [Keys -> Nat]
  BY DEF TypeOK, RedisTypes, Keys
<1>2. /\ d # dir[k] /\ dir' = [dir EXCEPT ![k] = d] /\ ver' = [ver EXCEPT ![k] = ver[k] + 1]
      /\ events' = Append(events, e) /\ row' = row
  BY DEF Vote, NextVersion, mysqlVars
<1>3. e \in EventType
  BY <1>1 DEF EventType
<1> HIDE DEF e, k
<1>4. /\ Len(events') = Len(events) + 1 /\ Len(events) \in Nat
      /\ \A i \in 1..Len(events) : events'[i] = events[i]
      /\ events'[Len(events) + 1] = e
  BY <1>1, <1>2, <1>3
<1>5. {events'[i] : i \in 1..Len(events')} = {events[i] : i \in 1..Len(events)} \cup {e}
  <2>1. \A i \in 1..Len(events') : i \in 1..Len(events) \/ i = Len(events) + 1
    BY <1>4
  <2>2. \A i \in 1..Len(events) : i \in 1..Len(events')
    BY <1>4
  <2>3. Len(events) + 1 \in 1..Len(events')
    BY <1>4
  <2> QED
    BY <1>4, <2>1, <2>2, <2>3
<1>6. [j \in Keys |-> InRedis(j)]' =
        [[j \in Keys |-> InRedis(j)] EXCEPT ![k] = [dir |-> d, ver |-> @.ver + 1]]
  BY <1>1, <1>2 DEF InRedis
<1>7. [j \in Keys |-> InRedis(j)][k] = [dir |-> dir[k], ver |-> ver[k]]
  BY <1>1 DEF InRedis
<1>8. e = [key |-> k, dir |-> d, ver |-> [j \in Keys |-> InRedis(j)][k].ver + 1]
  BY <1>7 DEF e
<1>9. d \in {-1, 0, 1} \ {[j \in Keys |-> InRedis(j)][k].dir}
  BY <1>2, <1>7 DEF Directions
<1>10. Replica!Accept(k)
  BY <1>2, <1>5, <1>6, <1>8, <1>9 DEF Replica!Accept
<1> QED
  BY <1>1, <1>10 DEF Replica!Next, Replica!Keys, Keys

\* A commit that changes a row lets the replica catch up.
LEMMA ReplicaCatchUp ==
    ASSUME TypeOK, Known, NEW c \in Consumers, job[c].phase = "persist", CommitEvent(c),
           UNCHANGED redisVars, row' # row
    PROVE  Replica!Next
<1> DEFINE e == EventOf(c)
<1> DEFINE k == EventOf(c).key
<1>1. row \in [Keys -> [dir : Directions, ver : Nat]] /\ k \in Keys
  BY CommitRows DEF TypeOK, MySQLTypes
<1>2. \E w : row' = [row EXCEPT ![k] = w]
  BY DEF CommitEvent
<1>3. row'[k] # row[k]
  BY <1>1, <1>2
<1>4. e.ver > row[k].ver /\ row'[k] = [dir |-> e.dir, ver |-> e.ver]
  BY <1>3, CommitRows
<1>5. row' = [row EXCEPT ![k] = [dir |-> e.dir, ver |-> e.ver]]
  BY <1>1, <1>2, <1>4
<1>6. e \in {events[i] : i \in 1..Len(events)}
  BY DEF Known, EventOf
<1>7. /\ [j \in Keys |-> InRedis(j)]' = [j \in Keys |-> InRedis(j)]
      /\ {events'[i] : i \in 1..Len(events')} = {events[i] : i \in 1..Len(events)}
  BY DEF InRedis, redisVars
<1> HIDE DEF e
<1>8. e.key = k
  BY DEF e
<1>9. Replica!CatchUp(k)
  BY <1>4, <1>5, <1>6, <1>7, <1>8 DEF Replica!CatchUp
<1> QED
  BY <1>1, <1>9 DEF Replica!Next, Replica!Keys, Keys

LEMMA ReplicaNext == IInv /\ [Next]_vars => [Replica!Next]_Replica!vars
<1> SUFFICES ASSUME IInv, [Next]_vars PROVE Replica!Next \/ UNCHANGED Replica!vars
  OBVIOUS
<1>0. TypeOK /\ Known
  BY DEF IInv
<1>1. CASE \E u \in Users, p \in Posts, d \in Directions : Vote(u, p, d)
  BY <1>0, <1>1, ReplicaAccept
<1>2. CASE \E c \in Consumers : job[c].phase = "persist" /\ CommitEvent(c) /\ UNCHANGED redisVars
  BY <1>0, <1>2, ReplicaCatchUp, ReplicaStutter
<1>3. CASE UNCHANGED redisVars /\ UNCHANGED mysqlVars
  BY <1>3, ReplicaStutter DEF mysqlVars
<1> QED
  BY <1>1, <1>2, <1>3, NextCases, MySQLSteps, RelayFrame, ConsumerFrame DEF RetryExpires, vars

\* Whatever relays, queues and consumers do between them, MySQL only ever moves
\* forward along the history of votes that Redis has accepted.
THEOREM Refinement == Spec => ImplementsReplica
<1>1. Spec => Replica!Init /\ [][Replica!Next]_Replica!vars
  BY ReplicaInit, ReplicaNext, Invariance, PTL DEF Spec
<1> QED
  BY <1>1 DEF ImplementsReplica, Replica!Spec
=============================================================================
