-------------------------- MODULE VoteCountingProofs --------------------------
(***************************************************************************)
(* What VotePipeline counts: the votes in a score, the failures of a       *)
(* message, and the copies of an event; for all values of the constants.   *)
(***************************************************************************)
EXTENDS VotePipelineProofs, FiniteSetTheorems

-----------------------------------------------------------------------------
(* The score is the sum of the votes                                        *)

Voters(p, d) == {u \in Users : dir[<<u, p>>] = d}

LEMMA VotersFinite ==
    \A p, d : IsFiniteSet(Voters(p, d)) /\ Cardinality(Voters(p, d)) \in Nat
  BY UsersAssumption, FS_Subset, FS_CardinalityType DEF Voters

\* One user's change of mind moves that user alone.
LEMMA VotersChange ==
    ASSUME dir \in [Keys -> Directions],
           NEW u \in Users, NEW p \in Posts, NEW d \in Directions,
           dir' = [dir EXCEPT ![<<u, p>>] = d], d # dir[<<u, p>>], NEW c \in Directions
    PROVE  Cardinality(Voters(p, c))' =
               IF d = c THEN Cardinality(Voters(p, c)) + 1
               ELSE IF dir[<<u, p>>] = c THEN Cardinality(Voters(p, c)) - 1
               ELSE Cardinality(Voters(p, c))
<1>1. /\ dir'[<<u, p>>] = d
      /\ \A w \in Users : w # u => dir'[<<w, p>>] = dir[<<w, p>>]
  BY DEF Keys
<1>2. CASE d = c
  <2>1. u \notin Voters(p, c) /\ Voters(p, c)' = Voters(p, c) \cup {u}
    BY <1>1, <1>2 DEF Voters
  <2> QED
    BY <1>2, <2>1, VotersFinite, FS_AddElement
<1>3. CASE d # c /\ dir[<<u, p>>] = c
  <2>1. u \in Voters(p, c) /\ Voters(p, c)' = Voters(p, c) \ {u}
    BY <1>1, <1>3 DEF Voters
  <2>2. Cardinality(Voters(p, c) \ {u}) = Cardinality(Voters(p, c)) - 1
    BY <2>1, VotersFinite, FS_RemoveElement
  <2> QED
    BY <1>3, <2>1, <2>2
<1>4. CASE d # c /\ dir[<<u, p>>] # c
  <2>1. Voters(p, c)' = Voters(p, c)
    BY <1>1, <1>4 DEF Voters
  <2> QED
    BY <1>4, <2>1
<1> QED
  BY <1>2, <1>3, <1>4

\* The sum of a post moves by what the script adds to its score.
LEMMA VotesForChange ==
    ASSUME dir \in [Keys -> Directions],
           NEW u \in Users, NEW p \in Posts, NEW d \in Directions,
           dir' = [dir EXCEPT ![<<u, p>>] = d], d # dir[<<u, p>>]
    PROVE  VotesFor(p)' = VotesFor(p) + d - dir[<<u, p>>] /\ VotesFor(p) \in Int
<1> DEFINE old == dir[<<u, p>>]
           plus == Cardinality(Voters(p, 1))
           minus == Cardinality(Voters(p, -1))
<1>1. plus \in Nat /\ minus \in Nat
  BY VotersFinite
<1>2. plus' = IF d = 1 THEN plus + 1 ELSE IF old = 1 THEN plus - 1 ELSE plus
  BY VotersChange DEF Directions
<1>3. minus' = IF d = -1 THEN minus + 1 ELSE IF old = -1 THEN minus - 1 ELSE minus
  BY VotersChange DEF Directions
<1>4. VotesFor(p) = plus - minus
  BY DEF VotesFor, Voters
<1>5. VotesFor(p)' = plus' - minus'
  BY DEF VotesFor, Voters
<1>6. d \in {-1, 0, 1} /\ old \in {-1, 0, 1} /\ d # old
  BY DEF Directions, Keys
<1> HIDE DEF plus, minus, old
<1>7. plus' - minus' = plus - minus + d - old /\ plus - minus \in Int
  BY <1>1, <1>2, <1>3, <1>6
<1> QED
  BY <1>4, <1>5, <1>7 DEF old

LEMMA ScoreInit == Init => ScoreIsSumOfVotes
<1> SUFFICES ASSUME Init, NEW p \in Posts PROVE score[p] = VotesFor(p)
  BY DEF ScoreIsSumOfVotes
<1>1. Voters(p, 1) = {} /\ Voters(p, -1) = {}
  BY DEF Init, Voters, Keys
<1>2. VotesFor(p) = Cardinality(Voters(p, 1)) - Cardinality(Voters(p, -1))
  BY DEF VotesFor, Voters
<1>3. VotesFor(p) = 0
  BY <1>1, <1>2, FS_EmptySet
<1> QED
  BY <1>3 DEF Init

LEMMA ScoreStep == ScoreIsSumOfVotes /\ TypeOK /\ [Next]_vars => ScoreIsSumOfVotes'
<1> SUFFICES ASSUME ScoreIsSumOfVotes, TypeOK, [Next]_vars PROVE ScoreIsSumOfVotes'
  OBVIOUS
<1>1. ASSUME NEW u \in Users, NEW p \in Posts, NEW d \in Directions, Vote(u, p, d)
      PROVE  ScoreIsSumOfVotes'
  <2>1. dir \in [Keys -> Directions] /\ score \in [Posts -> Int]
    BY DEF TypeOK, RedisTypes
  <2>2. /\ d # dir[<<u, p>>] /\ dir' = [dir EXCEPT ![<<u, p>>] = d]
        /\ score' = [score EXCEPT ![p] = @ + (d - dir[<<u, p>>])]
    BY <1>1 DEF Vote, Delta
  <2> SUFFICES ASSUME NEW q \in Posts PROVE score'[q] = VotesFor(q)'
    BY DEF ScoreIsSumOfVotes
  <2>3. CASE q = p
    <3>1. VotesFor(p)' = VotesFor(p) + d - dir[<<u, p>>] /\ VotesFor(p) \in Int
      BY <2>1, <2>2, VotesForChange
    <3>2. score'[p] = score[p] + (d - dir[<<u, p>>]) /\ score[p] = VotesFor(p)
      BY <2>1, <2>2 DEF ScoreIsSumOfVotes
    <3>3. d \in Int /\ dir[<<u, p>>] \in Int
      BY <2>1 DEF Directions, Keys
    <3> QED
      BY <2>3, <3>1, <3>2, <3>3
  <2>4. CASE q # p
    <3>1. \A w \in Users : dir'[<<w, q>>] = dir[<<w, q>>]
      BY <2>1, <2>2, <2>4 DEF Keys
    <3>2. VotesFor(q)' = VotesFor(q)
      BY <3>1 DEF VotesFor
    <3> QED
      BY <2>1, <2>2, <2>4, <3>2 DEF ScoreIsSumOfVotes
  <2> QED
    BY <2>3, <2>4
<1>2. CASE UNCHANGED redisVars
  BY <1>2 DEF redisVars, ScoreIsSumOfVotes, VotesFor
<1>3. CASE RetryExpires \/ UNCHANGED vars
  BY <1>2, <1>3 DEF RetryExpires, vars
<1> QED
  BY <1>1, <1>2, <1>3, NextCases, RelayFrame, ConsumerFrame

\* The score of a post is the sum of its votes (dao/redis/vote.lua:43-47), in whatever
\* order they are cast, turned and withdrawn.
THEOREM ScoreCorrect == Spec => []ScoreIsSumOfVotes
  BY ScoreInit, ScoreStep, TypeCorrect, PTL DEF Spec

-----------------------------------------------------------------------------
(* A message is given up only after all retries                             *)

\* The header of a message is no more than the failures there have been, each retry
\* has had one of its own, and giving up takes more than MaxRetries of them.
AttemptsCounted ==
    /\ \A m \in Copies : main[m] > 0 \/ retry[m] > 0 => m[2] <= faults
    /\ \A c \in Consumers :
          /\ job[c].phase # "idle" => job[c].copy[2] <= faults
          /\ job[c].phase = "retry" => job[c].copy[2] < faults
          /\ job[c].phase = "dead" => MaxRetries < faults
    /\ DeadOnlyAfterAllRetries

LEMMA AttemptsInit == Init => AttemptsCounted
  BY DEF Init, AttemptsCounted, DeadOnlyAfterAllRetries, Idle

LEMMA PutOne ==
    ASSUME NEW q \in [Copies -> Nat], NEW m, NEW x \in Copies, Put(q, m)[x] > 0
    PROVE  q[x] > 0 \/ x = m
<1>1. CASE m \in Copies
  BY <1>1 DEF Put
<1>2. CASE m \notin Copies
  BY <1>2 DEF Put
<1> QED
  BY <1>1, <1>2

LEMMA TakeOne ==
    ASSUME NEW q \in [Copies -> Nat], NEW m \in Copies, NEW x \in Copies, Take(q, m)[x] > 0
    PROVE  q[x] > 0
  BY DEF Take

LEMMA AttemptsOfRelays ==
    ASSUME AttemptsCounted, TypeOK,
           NEW r \in Relays, RelayStep(r) \/ RelayFault(r) \/ Restart(r)
    PROVE  AttemptsCounted'
<1>1. main \in [Copies -> Nat] /\ faults \in Nat
  BY BoundsAssumption DEF TypeOK, BrokerTypes
<1>2. UNCHANGED <<job, retry, dead>>
  BY RelayFrame
<1>3. faults' \in Nat /\ faults <= faults'
  BY <1>1 DEF RelayStep, RelayFault, Restart, ClaimStale, ReadOwn, ReadNew, Publish,
     AckVoteOutbox, ClaimReplyLost, ReadFails, PublishFails, AckFails, Crash, Fault
<1>4. main' = main \/ main' = Put(main, <<Lowest(batch[r]), 0>>)
  BY DEF RelayStep, RelayFault, Restart, ClaimStale, ReadOwn, ReadNew, Publish, brokerVars,
     AckVoteOutbox, ClaimReplyLost, ReadFails, PublishFails, AckFails, Crash
<1>5. ASSUME NEW x \in Copies, main'[x] > 0 PROVE x[2] <= faults'
  <2>1. main[x] > 0 \/ x[2] = 0
    BY <1>1, <1>4, <1>5, PutOne
  <2>2. x[2] \in Nat
    BY BoundsAssumption DEF Copies
  <2> QED
    BY <1>1, <1>3, <2>1, <2>2 DEF AttemptsCounted
<1>6. \A x \in Copies : x[2] \in Nat
  BY BoundsAssumption DEF Copies
<1>7. \A c \in Consumers : job[c].phase # "idle" => job[c].copy[2] \in Nat
  BY JobCopy, BoundsAssumption DEF TypeOK
<1> QED
  BY <1>1, <1>2, <1>3, <1>5, <1>6, <1>7, BoundsAssumption DEF AttemptsCounted, DeadOnlyAfterAllRetries

\* A delivery that goes back, or is lost, keeps the header it came with.
LEMMA RequeueCounts ==
    ASSUME AttemptsCounted, TypeOK, NEW c \in Consumers, job[c].phase # "idle",
           NEW x \in Copies, Requeue(c)[x] > 0
    PROVE  x[2] <= faults
<1>1. main \in [Copies -> Nat]
  BY DEF TypeOK, BrokerTypes
<1>2. main[x] > 0 \/ (x = job[c].copy)
  BY <1>1, PutOne DEF Requeue
<1> QED
  BY <1>2 DEF AttemptsCounted

\* A handler that goes on keeps its delivery.
LEMMA GoToKeeps ==
    ASSUME JobTypes, NEW c \in Consumers, job[c].phase # "idle", NEW s
    PROVE  /\ GoTo(c, s) => job'[c].phase = s /\ job'[c].copy = job[c].copy
           /\ job' = [job EXCEPT ![c].owned = FALSE] =>
                 job'[c].phase = job[c].phase /\ job'[c].copy = job[c].copy
<1>1. /\ job \in [Consumers -> JobType]
      /\ job[c] \in [phase : {"persist", "retry", "dead", "ack"}, copy : Copies, owned : BOOLEAN]
  BY DEF JobTypes, JobType, Idle
<1> QED
  BY <1>1 DEF GoTo

LEMMA AttemptsOfConsumers ==
    ASSUME AttemptsCounted, IInv,
           NEW c \in Consumers, ConsumerStep(c) \/ ConsumerFault(c)
    PROVE  AttemptsCounted'
<1>0. /\ TypeOK /\ JobTypes /\ Known
      /\ main \in [Copies -> Nat] /\ retry \in [Copies -> Nat] /\ faults \in Nat
      /\ job \in [Consumers -> JobType] /\ MaxRetries \in Nat
  BY BoundsAssumption DEF IInv, TypeOK, BrokerTypes, JobTypes
<1>1. faults' \in Nat /\ faults <= faults' /\ (Fault => faults' = faults + 1)
  BY <1>0 DEF ConsumerStep, ConsumerFault, Consume, PersistVoteEvent, Republished,
     AckDelivery, PersistFails, RepublishFails, LoseDelivery, ConsumerCrash, Fault
<1>2. /\ \A x \in Copies : x[2] \in Nat
      /\ \A d \in Consumers : job[d].phase # "idle" =>
            job[d].copy[2] \in Nat /\ job[d].copy \in Copies
  BY <1>0, JobCopy, BoundsAssumption DEF Copies
<1>3. /\ \A x \in Copies : main[x] > 0 \/ retry[x] > 0 => x[2] <= faults
      /\ \A d \in Consumers :
            /\ job[d].phase # "idle" => job[d].copy[2] <= faults
            /\ job[d].phase = "retry" => job[d].copy[2] < faults
            /\ job[d].phase = "dead" => MaxRetries < faults
      /\ dead # {} => faults > MaxRetries
  BY DEF AttemptsCounted, DeadOnlyAfterAllRetries
\* What it sends to the retry queue or gives up has been counted.
<1>4. ASSUME job[c].phase \in {"retry", "dead"}, Republish(c)
      PROVE  /\ \A x \in Copies : retry'[x] > 0 => x[2] <= faults
             /\ dead' # {} => faults > MaxRetries
  <2>1. CASE job[c].phase = "retry" /\ retry' = Put(retry, <<job[c].copy[1], job[c].copy[2] + 1>>)
             /\ UNCHANGED dead
    <3>1. ASSUME NEW x \in Copies, retry'[x] > 0 PROVE x[2] <= faults
      <4>1. retry[x] > 0 \/ x = <<job[c].copy[1], job[c].copy[2] + 1>>
        BY <1>0, <2>1, <3>1, PutOne
      <4>2. job[c].copy[2] \in Nat /\ job[c].copy[2] < faults
        BY <1>2, <1>3, <2>1
      <4>3. job[c].copy[2] + 1 <= faults
        BY <1>0, <4>2
      <4>4. CASE x = <<job[c].copy[1], job[c].copy[2] + 1>>
        BY <4>3, <4>4
      <4> QED
        BY <1>3, <4>1, <4>4
    <3> QED
      BY <1>3, <2>1, <3>1
  <2>2. CASE job[c].phase = "dead" /\ UNCHANGED retry
    BY <1>0, <1>3, <2>2
  <2> QED
    BY <1>4, <2>1, <2>2 DEF Republish
\* It is enough to follow the queues and the handler that takes the step.
<1>5. SUFFICES
        /\ \A x \in Copies : main'[x] > 0 \/ retry'[x] > 0 => x[2] <= faults'
        /\ job'[c].phase # "idle" => job'[c].copy[2] <= faults'
        /\ job'[c].phase = "retry" => job'[c].copy[2] < faults'
        /\ job'[c].phase = "dead" => MaxRetries < faults'
        /\ dead' # {} => faults' > MaxRetries
  <2>1. ASSUME NEW d \in Consumers, d # c
        PROVE  /\ job'[d].phase # "idle" => job'[d].copy[2] <= faults'
               /\ job'[d].phase = "retry" => job'[d].copy[2] < faults'
               /\ job'[d].phase = "dead" => MaxRetries < faults'
    <3>1. job'[d] = job[d]
      BY <1>0, <2>1, OtherJobs
    <3> QED
      BY <1>0, <1>1, <1>2, <1>3, <3>1
  <2> QED
    BY <1>5, <2>1 DEF AttemptsCounted, DeadOnlyAfterAllRetries
<1>6. CASE Consume(c)
  <2>1. PICK m \in Copies :
          /\ main[m] > 0 /\ main' = Take(main, m)
          /\ job' = [job EXCEPT ![c] = [phase |-> "persist", copy |-> m, owned |-> TRUE]]
    BY <1>6 DEF Consume
  <2>2. job'[c].phase = "persist" /\ job'[c].copy = m /\ UNCHANGED <<retry, dead, faults>>
    BY <1>0, <1>6, <2>1 DEF Consume
  <2>3. \A x \in Copies : main'[x] > 0 => main[x] > 0
    BY <1>0, <2>1, TakeOne
  <2> QED
    BY <1>3, <2>1, <2>2, <2>3
<1>7. CASE PersistVoteEvent(c)
  <2>1. StatusOf(c) # "conflict"
    BY <1>7, NoConflictFromIInv DEF NoGenuineConflict, PersistVoteEvent
  <2>2. job'[c].phase = "ack" /\ job'[c].copy = job[c].copy /\ job[c].phase # "idle"
    BY <1>0, <1>7, <2>1, GoToKeeps DEF PersistVoteEvent
  <2>3. UNCHANGED <<main, retry, dead, faults>>
    BY <1>7 DEF PersistVoteEvent, brokerVars
  <2> QED
    BY <1>3, <2>2, <2>3
<1>8. CASE Republished(c)
  <2>1. /\ job'[c].phase = "ack" /\ job'[c].copy = job[c].copy /\ job[c].phase # "idle"
        /\ UNCHANGED <<main, faults>>
    BY <1>0, <1>8, GoToKeeps DEF Republished
  <2>2. \A x \in Copies : retry'[x] > 0 => x[2] <= faults
    BY <1>4, <1>8 DEF Republished
  <2>3. dead' # {} => faults > MaxRetries
    BY <1>4, <1>8 DEF Republished
  <2> QED
    BY <1>3, <2>1, <2>2, <2>3
<1>9. CASE AckDelivery(c)
  <2>1. job'[c].phase = "idle" /\ UNCHANGED <<main, retry, dead, faults>>
    BY <1>0, <1>9 DEF AckDelivery, Finish, Idle, brokerVars
  <2> QED
    BY <1>3, <2>1
<1>10. CASE PersistFails(c)
  <2>1. /\ job[c].phase = "persist" /\ faults' = faults + 1
        /\ UNCHANGED <<main, retry, dead>> /\ job'[c].copy = job[c].copy
        /\ job'[c].phase = IF GivesUp(job[c].copy[2]) THEN "dead" ELSE "retry"
    BY <1>0, <1>10, GoToKeeps DEF PersistFails, Fault, brokerVars
  <2>2. job[c].copy[2] \in Nat /\ job[c].copy[2] <= faults
    BY <1>2, <1>3, <2>1
  <2>3. job[c].copy[2] < faults' /\ (GivesUp(job[c].copy[2]) => MaxRetries < faults')
    BY <1>0, <2>1, <2>2 DEF GivesUp
  <2>4. \A x \in Copies : main'[x] > 0 \/ retry'[x] > 0 => x[2] <= faults'
    BY <1>0, <1>1, <1>2, <1>3, <2>1
  <2>5. dead' # {} => faults' > MaxRetries
    BY <1>0, <1>1, <1>3, <2>1
  <2>6. job'[c].copy[2] <= faults'
    BY <1>1, <2>1, <2>2, <2>3
  <2>7. job'[c].phase = "dead" => MaxRetries < faults'
    BY <2>1, <2>3
  <2> QED
    BY <2>1, <2>3, <2>4, <2>5, <2>6, <2>7
<1>11. CASE RepublishFails(c) \/ ConsumerCrash(c) \/ LoseDelivery(c)
  <2>1. job[c].phase # "idle" /\ main' = Requeue(c)
    <3>1. job[c] # Idle
      BY <1>11 DEF RepublishFails, ConsumerCrash, LoseDelivery, Idle
    <3>2. job[c].phase # "idle"
      BY <1>0, <3>1 DEF JobType
    <3> QED
      BY <1>11, <3>2 DEF RepublishFails, ConsumerCrash, LoseDelivery
  <2>2. \A x \in Copies : main'[x] > 0 => x[2] <= faults
    BY <1>0, <2>1, RequeueCounts
  <2>3. \/ UNCHANGED <<retry, dead>>
        \/ job[c].phase \in {"retry", "dead"} /\ Republish(c)
    BY <1>11 DEF RepublishFails, ConsumerCrash, LoseDelivery
  <2>4. /\ \A x \in Copies : retry'[x] > 0 => x[2] <= faults
        /\ dead' # {} => faults > MaxRetries
    BY <1>3, <1>4, <2>3
  <2>5. job'[c].phase = "idle" \/ (job'[c].phase = job[c].phase /\ job'[c].copy = job[c].copy)
    <3>1. CASE Finish(c)
      BY <1>0, <3>1 DEF Finish, Idle
    <3>2. CASE LoseDelivery(c)
      BY <1>0, <2>1, <3>2, GoToKeeps DEF LoseDelivery
    <3> QED
      BY <1>11, <3>1, <3>2 DEF RepublishFails, ConsumerCrash
  <2>6. \A x \in Copies : main'[x] > 0 \/ retry'[x] > 0 => x[2] <= faults'
    BY <1>0, <1>1, <1>2, <2>2, <2>4
  <2>7. dead' # {} => faults' > MaxRetries
    BY <1>0, <1>1, <2>4
  <2>8. /\ job'[c].phase # "idle" => job'[c].copy[2] <= faults'
        /\ job'[c].phase = "retry" => job'[c].copy[2] < faults'
        /\ job'[c].phase = "dead" => MaxRetries < faults'
    BY <1>0, <1>1, <1>2, <1>3, <2>1, <2>5
  <2> QED
    BY <2>6, <2>7, <2>8
<1> QED
  BY <1>6, <1>7, <1>8, <1>9, <1>10, <1>11 DEF ConsumerStep, ConsumerFault

LEMMA AttemptsStep == IInv /\ AttemptsCounted /\ [Next]_vars => AttemptsCounted'
<1> SUFFICES ASSUME IInv, AttemptsCounted, [Next]_vars PROVE AttemptsCounted'
  OBVIOUS
<1>0. TypeOK /\ main \in [Copies -> Nat] /\ retry \in [Copies -> Nat]
  BY DEF IInv, TypeOK, BrokerTypes
<1>1. CASE UNCHANGED <<main, retry, dead, job, faults>>
  BY <1>1 DEF AttemptsCounted, DeadOnlyAfterAllRetries
<1>2. ASSUME NEW u \in Users, NEW p \in Posts, NEW d \in Directions, Vote(u, p, d)
      PROVE  UNCHANGED <<main, retry, dead, job, faults>>
  BY <1>2 DEF Vote, brokerVars
<1>3. CASE RetryExpires
  <2>1. PICK m \in Copies :
          retry[m] > 0 /\ retry' = Take(retry, m) /\ main' = Put(main, m)
    BY <1>3 DEF RetryExpires
  <2>2. UNCHANGED <<dead, job, faults>>
    BY <1>3 DEF RetryExpires
  <2>3. \A x \in Copies : main'[x] > 0 \/ retry'[x] > 0 => main[x] > 0 \/ retry[x] > 0
    BY <1>0, <2>1, PutOne, TakeOne
  <2> QED
    BY <2>2, <2>3 DEF AttemptsCounted, DeadOnlyAfterAllRetries
<1>4. UNCHANGED vars => UNCHANGED <<main, retry, dead, job, faults>>
  BY DEF vars, brokerVars
<1> QED
  BY <1>0, <1>1, <1>2, <1>3, <1>4, NextCases, AttemptsOfRelays, AttemptsOfConsumers

\* No message reaches the dead-letter queue on fewer than MaxRetries + 1 failures
\* (worker/vote_consumer.go:84): the count travels in the header, through every
\* retry, requeue and crash, and a genuine event never gets there by a conflict.
THEOREM GivenUpLate == Spec => []DeadOnlyAfterAllRetries
<1>1. AttemptsCounted => DeadOnlyAfterAllRetries
  BY DEF AttemptsCounted
<1> QED
  BY <1>1, AttemptsInit, AttemptsStep, Invariance, PTL DEF Spec
-----------------------------------------------------------------------------
(* Without a failure nothing is sent twice                                  *)

\* Whether some relay has yet to publish i, and whether i has been published.
Unsent(i) == \E r \in Relays : i \in batch[r] /\ ~(confirmed[r] /\ i = Lowest(batch[r]))
Sent(i) ==
    \/ main[<<i, 0>>] > 0
    \/ \E c \in Consumers : job[c].phase # "idle" /\ job[c].copy[1] = i

\* At most one copy of a message in the main queue, none in the retry queue, and
\* each handler at work on a delivery that nobody else has.
QueuesQuiet ==
    \A m \in Copies : retry[m] = 0 /\ main[m] <= 1 /\ (m[2] # 0 => main[m] = 0)
JobsQuiet ==
    /\ \A c \in Consumers :
          /\ job[c].phase \in {"idle", "persist", "ack"}
          /\ job[c].phase # "idle" => job[c].copy[2] = 0 /\ main[job[c].copy] = 0
    /\ \A c, d \in Consumers :
          job[c].phase # "idle" /\ job[d].phase # "idle" /\ job[c].copy[1] = job[d].copy[1]
             => c = d

\* Every pending entry is in the hands of its owner, and nothing is published
\* before it is delivered to a relay or while that relay has yet to publish it.
OutboxQuiet ==
    /\ lastDelivered <= Len(events)
    /\ \A r \in Relays : \A i \in batch[r] : i \in stream /\ owner[i] = r
    /\ \A i \in stream : owner[i] # NoRelay => i \in batch[owner[i]]
    /\ \A i \in Ids : i > lastDelivered => owner[i] = NoRelay /\ ~Sent(i)
    /\ \A i \in Ids : Sent(i) => ~Unsent(i)

Quiet == QueuesQuiet /\ JobsQuiet /\ OutboxQuiet

LEMMA QuietInit == Init => Quiet
<1> SUFFICES ASSUME Init PROVE Quiet
  OBVIOUS
<1>1. /\ \A m \in Copies : main[m] = 0 /\ retry[m] = 0
      /\ \A c \in Consumers : job[c].phase = "idle"
  BY DEF Init, Idle
<1>2. \A i \in Ids : ~Sent(i)
  <2>1. \A i \in Ids : <<i, 0>> \in Copies
    BY BoundsAssumption DEF Copies
  <2>2. \A i \in Ids : main[<<i, 0>>] = 0
    BY <1>1, <2>1
  <2>3. \A x : x = 0 => ~(x > 0)
    OBVIOUS
  <2> QED
    BY <1>1, <2>2, <2>3, Zenon DEF Sent
<1>3. Len(events) = 0
  BY DEF Init
<1>4. QueuesQuiet /\ JobsQuiet
  <2>1. QueuesQuiet
    BY <1>1 DEF QueuesQuiet
  <2>2. JobsQuiet
    BY <1>1 DEF JobsQuiet
  <2> QED
    BY <2>1, <2>2
<1>5. OutboxQuiet
  BY <1>2, <1>3 DEF Init, OutboxQuiet
<1> QED
  BY <1>4, <1>5 DEF Quiet

\* A relay that takes no entry, and every step elsewhere, leaves the rest as it is.
LEMMA QuietUnchanged ==
    ASSUME Quiet, UNCHANGED <<stream, lastDelivered, owner, batch, confirmed, main, retry, job>>,
           UNCHANGED events
    PROVE  Quiet'
  BY DEF Quiet, QueuesQuiet, JobsQuiet, OutboxQuiet, Sent, Unsent

\* No relay finds anything to claim or to take up again: what is pending is at work.
LEMMA QuietReading ==
    ASSUME Quiet, TypeOK, NEW r \in Relays, faults' = 0, faults = 0,
           ClaimStale(r) \/ ReadOwn(r)
    PROVE  Quiet'
<1>1. /\ owner \in [Ids -> Relays \cup {NoRelay}] /\ stream \subseteq Ids
      /\ batch \in [Relays -> SUBSET Ids]
  BY DEF TypeOK, OutboxTypes, RelayTypes
<1>2. \A i \in stream : owner[i] # NoRelay => i \in batch[owner[i]] /\ owner[i] \in Relays
  BY <1>1 DEF Quiet, OutboxQuiet
<1>3. CASE ClaimStale(r)
  <2>1. PICK S \in SUBSET Oldest(Pending) :
          LET stalled == \E q \in Relays : S \cap batch[q] # {}
          IN /\ owner' = [i \in Ids |-> IF i \in S THEN r ELSE owner[i]]
             /\ IF stalled THEN Fault ELSE UNCHANGED faults
             /\ Received(r, S, "own")
    BY <1>3 DEF ClaimStale
  <2>2. ~Fault
    BY DEF Fault
  <2>3. S \subseteq Pending
    BY OldestSubset
  <2>4. S = {}
    BY <1>2, <2>1, <2>2, <2>3 DEF Pending
  <2>5. owner' = owner
    BY <1>1, <2>1, <2>4
  <2>6. batch' = batch
    BY <1>1, <1>3, <2>1, <2>4 DEF ClaimStale, Reading, Received
  <2> QED
    BY <1>3, <2>5, <2>6, QuietUnchanged DEF ClaimStale, redisVars, brokerVars
<1>4. CASE ReadOwn(r)
  <2>1. {i \in stream : owner[i] = r} = {}
    BY <1>2, <1>4, RelaysAssumption DEF ReadOwn, Reading
  <2>2. Oldest({i \in stream : owner[i] = r}) = {}
    BY <2>1, OldestSubset
  <2>3. batch' = batch
    BY <1>1, <1>4, <2>2 DEF ReadOwn, Reading, Received
  <2> QED
    BY <1>4, <2>3, QuietUnchanged DEF ReadOwn, redisVars, outboxVars, brokerVars
<1> QED
  BY <1>3, <1>4

\* Undelivered entries go to one relay, which has nothing else.
LEMMA QuietReadNew ==
    ASSUME Quiet, TypeOK, Known, Answered, NEW r \in Relays, ReadNew(r)
    PROVE  Quiet'
<1> DEFINE S == Oldest(Undelivered)
<1>1. /\ owner \in [Ids -> Relays \cup {NoRelay}] /\ stream \subseteq Ids
      /\ batch \in [Relays -> SUBSET Ids] /\ lastDelivered \in Nat
      /\ Len(events) \in Nat /\ \A i \in Ids : i \in Nat
      /\ stream \subseteq 1..Len(events)
  BY BoundsAssumption DEF TypeOK, OutboxTypes, RelayTypes, RedisTypes, Known, Ids
<1>2. /\ S \in SUBSET Ids /\ S \subseteq stream
      /\ \A i \in S : i > lastDelivered
  BY <1>1, OldestSubset DEF Undelivered
<1>3. /\ lastDelivered' = DeliveredUpTo(S)
      /\ owner' = [i \in Ids |-> IF i \in S THEN r ELSE owner[i]]
      /\ batch[r] = {} /\ batch' = [batch EXCEPT ![r] = S]
      /\ UNCHANGED <<stream, confirmed, main, retry, job, events>>
  BY DEF ReadNew, Deliver, Received, Reading, redisVars, brokerVars
<1> HIDE DEF S
<1>4. /\ lastDelivered' \in Nat /\ lastDelivered' <= Len(events)
      /\ lastDelivered <= lastDelivered'
      /\ \A i \in S : i <= lastDelivered'
  <2>1. CASE S = {}
    BY <1>1, <1>3, <2>1 DEF DeliveredUpTo, Quiet, OutboxQuiet
  <2>2. CASE S # {}
    <3>1. Highest(S) \in S /\ \A j \in S : j <= Highest(S)
      BY <1>2, <2>2, HighestIn
    <3>2. lastDelivered' = Highest(S)
      BY <1>3, <2>2 DEF DeliveredUpTo
    <3>3. \A h \in S : h \in Nat /\ h <= Len(events) /\ lastDelivered < h
      BY <1>1, <1>2
    <3> QED
      BY <1>1, <3>1, <3>2, <3>3
  <2> QED
    BY <2>1, <2>2
<1>5. \A i \in Ids : Sent(i)' = Sent(i)
  BY <1>3 DEF Sent
<1>6. QueuesQuiet' /\ JobsQuiet'
  BY <1>3 DEF Quiet, QueuesQuiet, JobsQuiet
<1>7. ~confirmed[r]
  BY <1>3 DEF Answered
<1>8. \A q \in Relays : q # r => batch'[q] = batch[q]
  BY <1>1, <1>3
<1>9. batch'[r] = S
  BY <1>1, <1>3
<1>10. \A q \in Relays : \A i \in batch'[q] : i \in stream' /\ owner'[i] = q
  <2> SUFFICES ASSUME NEW q \in Relays, NEW i \in batch'[q] PROVE i \in stream' /\ owner'[i] = q
    OBVIOUS
  <2>1. CASE q = r
    BY <1>2, <1>3, <1>9, <2>1
  <2>2. CASE q # r
    <3>1. i \in stream /\ owner[i] = q /\ i \in Ids
      BY <1>1, <1>8, <2>2 DEF Quiet, OutboxQuiet
    <3>2. i \notin S
      BY <1>1, <1>2, <3>1, RelaysAssumption DEF Quiet, OutboxQuiet
    <3> QED
      BY <1>3, <3>1, <3>2
  <2> QED
    BY <2>1, <2>2
<1>11. \A i \in stream' : owner'[i] # NoRelay => i \in batch'[owner'[i]]
  <2> SUFFICES ASSUME NEW i \in stream, owner'[i] # NoRelay PROVE i \in batch'[owner'[i]]
    BY <1>3
  <2>1. CASE i \in S
    BY <1>1, <1>3, <1>9, <2>1
  <2>2. CASE i \notin S
    <3>1. owner'[i] = owner[i] /\ i \in batch[owner[i]] /\ owner[i] \in Relays
      BY <1>1, <1>3, <2>2 DEF Quiet, OutboxQuiet
    <3>2. owner[i] # r
      BY <1>3, <3>1
    <3> QED
      BY <1>8, <3>1, <3>2
  <2> QED
    BY <2>1, <2>2
<1>12. \A i \in Ids : i > lastDelivered' => owner'[i] = NoRelay /\ ~Sent(i)'
  <2> SUFFICES ASSUME NEW i \in Ids, i > lastDelivered' PROVE owner'[i] = NoRelay /\ ~Sent(i)'
    OBVIOUS
  <2>1. i > lastDelivered /\ i \notin S
    BY <1>1, <1>4
  <2> QED
    BY <1>3, <1>5, <2>1 DEF Quiet, OutboxQuiet
<1>13. \A i \in Ids : Sent(i)' => ~Unsent(i)'
  <2> SUFFICES ASSUME NEW i \in Ids, Sent(i), NEW q \in Relays, i \in batch'[q],
                      ~(confirmed'[q] /\ i = Lowest(batch'[q]))
               PROVE  FALSE
    BY <1>5 DEF Unsent
  <2>1. i \notin S
    BY <1>1, <1>2 DEF Quiet, OutboxQuiet
  <2>2. q # r
    BY <1>9, <2>1
  <2> QED
    BY <1>3, <1>8, <2>2 DEF Quiet, OutboxQuiet, Unsent
<1> QED
  BY <1>3, <1>4, <1>6, <1>10, <1>11, <1>12, <1>13 DEF Quiet, OutboxQuiet

\* What is published leaves the hands of the one relay that had it.
LEMMA QuietPublish ==
    ASSUME Quiet, TypeOK, NEW r \in Relays, Publish(r)
    PROVE  Quiet'
<1> DEFINE i0 == Lowest(batch[r])
<1>1. /\ batch \in [Relays -> SUBSET Ids] /\ confirmed \in [Relays -> BOOLEAN]
      /\ main \in [Copies -> Nat] /\ JobTypes
  BY DEF TypeOK, RelayTypes, BrokerTypes
<1>2. i0 \in batch[r] /\ i0 \in Ids
  BY <1>1, LowestIn DEF Publish
<1>3. /\ ~confirmed[r] /\ main' = Put(main, <<i0, 0>>)
      /\ confirmed' = [confirmed EXCEPT ![r] = TRUE]
      /\ UNCHANGED <<stream, lastDelivered, owner, batch, retry, job, events>>
  BY DEF Publish, redisVars, outboxVars
<1>4. owner[i0] = r /\ r # NoRelay
  BY <1>2, RelaysAssumption DEF Quiet, OutboxQuiet
<1>5. ~Sent(i0)
  BY <1>2, <1>3 DEF Quiet, OutboxQuiet, Unsent
<1>6. \A q \in Relays : i0 \in batch[q] => q = r
  BY <1>4 DEF Quiet, OutboxQuiet
<1>i. i0 = Lowest(batch[r])
  OBVIOUS
<1> HIDE DEF i0
<1>7. <<i0, 0>> \in Copies /\ main[<<i0, 0>>] = 0
  <2>1. <<i0, 0>> \in Copies
    BY <1>2, BoundsAssumption DEF Copies
  <2>2. main[<<i0, 0>>] \in Nat /\ ~(main[<<i0, 0>>] > 0)
    BY <1>1, <1>5, <2>1 DEF Sent
  <2> QED
    BY <2>1, <2>2
<1>8. /\ main'[<<i0, 0>>] = 1
      /\ \A m \in Copies : m # <<i0, 0>> => main'[m] = main[m]
  BY <1>1, <1>3, <1>7 DEF Put
<1>9. QueuesQuiet'
  <2> SUFFICES ASSUME NEW m \in Copies
               PROVE  retry'[m] = 0 /\ main'[m] <= 1 /\ (m[2] # 0 => main'[m] = 0)
    BY DEF QueuesQuiet
  <2>1. retry[m] = 0 /\ main[m] <= 1 /\ (m[2] # 0 => main[m] = 0)
    BY DEF Quiet, QueuesQuiet
  <2>2. CASE m = <<i0, 0>>
    BY <1>3, <1>8, <2>1, <2>2
  <2>3. CASE m # <<i0, 0>>
    BY <1>3, <1>8, <2>1, <2>3
  <2> QED
    BY <2>2, <2>3
<1>10. JobsQuiet'
  <2>1. ASSUME NEW c \in Consumers, job[c].phase # "idle"
        PROVE  job[c].copy[2] = 0 /\ main'[job[c].copy] = 0
    <3>1. job[c].copy \in Copies /\ job[c].copy[1] # i0
      BY <1>1, <1>5, <2>1, JobCopy DEF Sent
    <3>2. job[c].copy # <<i0, 0>>
      BY <3>1
    <3> QED
      BY <1>8, <2>1, <3>1, <3>2 DEF Quiet, JobsQuiet
  <2> QED
    BY <1>3, <2>1 DEF Quiet, JobsQuiet
<1>11. \A i \in Ids : i # i0 => Sent(i)' = Sent(i)
  <2> SUFFICES ASSUME NEW i \in Ids, i # i0 PROVE Sent(i)' = Sent(i)
    OBVIOUS
  <2>1. <<i, 0>> \in Copies /\ <<i, 0>> # <<i0, 0>>
    BY BoundsAssumption DEF Copies
  <2> QED
    BY <1>3, <1>8, <2>1 DEF Sent
<1>12. \A i \in Ids : i > lastDelivered => owner[i] = NoRelay /\ ~Sent(i)'
  BY <1>4, <1>11 DEF Quiet, OutboxQuiet
<1>13. \A i \in Ids : Sent(i)' => ~Unsent(i)'
  <2> SUFFICES ASSUME NEW i \in Ids, Sent(i)', NEW q \in Relays, i \in batch[q],
                      ~(confirmed'[q] /\ i = Lowest(batch[q]))
               PROVE  FALSE
    BY <1>3 DEF Unsent
  <2>1. CASE i = i0
    BY <1>1, <1>3, <1>6, <1>i, <2>1
  <2>2. CASE i # i0
    <3>1. ~(confirmed[q] /\ i = Lowest(batch[q]))
      BY <1>1, <1>3
    <3> QED
      BY <1>11, <2>2, <3>1 DEF Quiet, OutboxQuiet, Unsent
  <2> QED
    BY <2>1, <2>2
<1> QED
  BY <1>3, <1>9, <1>10, <1>12, <1>13 DEF Quiet, OutboxQuiet

\* What is acknowledged leaves the outbox and the pending list together.
LEMMA QuietAck ==
    ASSUME Quiet, TypeOK, NEW r \in Relays, AckVoteOutbox(r)
    PROVE  Quiet'
<1> DEFINE i0 == Lowest(batch[r])
<1>1. /\ batch \in [Relays -> SUBSET Ids] /\ confirmed \in [Relays -> BOOLEAN]
      /\ owner \in [Ids -> Relays \cup {NoRelay}] /\ stream \subseteq Ids
  BY DEF TypeOK, RelayTypes, OutboxTypes
<1>2. i0 \in batch[r] /\ i0 \in Ids
  BY <1>1, LowestIn DEF AckVoteOutbox, MayAck
<1>3. /\ stream' = stream \ {i0} /\ owner' = [owner EXCEPT ![i0] = NoRelay]
      /\ batch' = [batch EXCEPT ![r] = batch[r] \ {i0}]
      /\ confirmed' = [confirmed EXCEPT ![r] = FALSE]
      /\ UNCHANGED <<lastDelivered, main, retry, job, events>>
  BY DEF AckVoteOutbox, Remove, redisVars, brokerVars
<1>4. owner[i0] = r
  BY <1>2 DEF Quiet, OutboxQuiet
<1>i. i0 = Lowest(batch[r])
  OBVIOUS
<1> HIDE DEF i0
<1>5. /\ batch'[r] = batch[r] \ {i0} /\ owner'[i0] = NoRelay
      /\ \A q \in Relays : q # r => batch'[q] = batch[q] /\ confirmed'[q] = confirmed[q]
      /\ \A i \in Ids : i # i0 => owner'[i] = owner[i]
  BY <1>1, <1>2, <1>3
\* Whatever a relay still has, it had, and it is another entry.
<1>6. ASSUME NEW q \in Relays, NEW i \in batch'[q]
      PROVE  i \in batch[q] /\ i \in Ids /\ i # i0
  <2>1. CASE q = r
    BY <1>1, <1>5, <2>1
  <2>2. CASE q # r
    <3>1. i \in batch[q] /\ i \in Ids
      BY <1>1, <1>5, <2>2
    <3> QED
      BY <1>4, <2>2, <3>1 DEF Quiet, OutboxQuiet
  <2> QED
    BY <2>1, <2>2
<1>7. \A q \in Relays : \A i \in batch'[q] : i \in stream' /\ owner'[i] = q
  BY <1>3, <1>5, <1>6 DEF Quiet, OutboxQuiet
<1>8. \A i \in stream' : owner'[i] # NoRelay => i \in batch'[owner'[i]]
  <2> SUFFICES ASSUME NEW i \in stream', owner'[i] # NoRelay PROVE i \in batch'[owner'[i]]
    OBVIOUS
  <2>1. i \in stream /\ i \in Ids /\ i # i0
    BY <1>1, <1>3
  <2>2. owner'[i] = owner[i] /\ owner[i] \in Relays /\ i \in batch[owner[i]]
    BY <1>1, <1>5, <2>1 DEF Quiet, OutboxQuiet
  <2>3. CASE owner[i] = r
    BY <1>5, <2>1, <2>2, <2>3
  <2>4. CASE owner[i] # r
    BY <1>5, <2>2, <2>4
  <2> QED
    BY <2>3, <2>4
<1>9. \A i \in Ids : Sent(i)' = Sent(i)
  BY <1>3 DEF Sent
<1>10. \A i \in Ids : i > lastDelivered' => owner'[i] = NoRelay /\ ~Sent(i)'
  BY <1>3, <1>5, <1>9 DEF Quiet, OutboxQuiet
<1>11. \A i \in Ids : Sent(i)' => ~Unsent(i)'
  <2> SUFFICES ASSUME NEW i \in Ids, Sent(i), NEW q \in Relays, i \in batch'[q],
                      ~(confirmed'[q] /\ i = Lowest(batch'[q]))
               PROVE  FALSE
    BY <1>9 DEF Unsent
  <2>1. i \in batch[q] /\ i # i0
    BY <1>6
  <2>2. ~(confirmed[q] /\ i = Lowest(batch[q]))
    <3>1. CASE q = r
      BY <1>i, <2>1, <3>1
    <3>2. CASE q # r
      BY <1>5, <3>2
    <3> QED
      BY <3>1, <3>2
  <2> QED
    BY <2>1, <2>2 DEF Quiet, OutboxQuiet, Unsent
<1>12. QueuesQuiet' /\ JobsQuiet'
  BY <1>3 DEF Quiet, QueuesQuiet, JobsQuiet
<1> QED
  BY <1>3, <1>7, <1>8, <1>10, <1>11, <1>12 DEF Quiet, OutboxQuiet

\* A consumer takes the one copy there is, and lets go of it when it is done.
LEMMA QuietConsumer ==
    ASSUME Quiet, IInv, NEW c \in Consumers, ConsumerStep(c)
    PROVE  Quiet'
<1>1. /\ TypeOK /\ JobTypes /\ job \in [Consumers -> JobType]
      /\ main \in [Copies -> Nat]
  BY DEF IInv, TypeOK, JobTypes, BrokerTypes
<1>2. UNCHANGED <<events, stream, lastDelivered, owner, batch, confirmed>>
  BY ConsumerFrame DEF redisVars, outboxVars, relayVars
<1>3. \A d \in Consumers : d # c => job'[d] = job[d]
  BY <1>1, OtherJobs
\* The outbox is not concerned.
<1>4. SUFFICES QueuesQuiet' /\ JobsQuiet' /\ \A i \in Ids : Sent(i)' => Sent(i)
  BY <1>2, <1>4 DEF Quiet, OutboxQuiet, Unsent
<1>5. /\ \A d \in Consumers :
            /\ job[d].phase \in {"idle", "persist", "ack"}
            /\ job[d].phase # "idle" => job[d].copy[2] = 0 /\ main[job[d].copy] = 0
      /\ \A d, e \in Consumers :
            job[d].phase # "idle" /\ job[e].phase # "idle" /\ job[d].copy[1] = job[e].copy[1]
               => d = e
      /\ \A m \in Copies : retry[m] = 0 /\ main[m] <= 1 /\ (m[2] # 0 => main[m] = 0)
  BY DEF Quiet, JobsQuiet, QueuesQuiet
<1>6. CASE Consume(c)
  <2>1. PICK m \in Copies :
          /\ main[m] > 0 /\ main' = Take(main, m)
          /\ job' = [job EXCEPT ![c] = [phase |-> "persist", copy |-> m, owned |-> TRUE]]
    BY <1>6 DEF Consume
  <2>2. /\ job'[c].phase = "persist" /\ job'[c].copy = m /\ retry' = retry
        /\ job[c].phase = "idle"
    BY <1>1, <1>6, <2>1 DEF Consume, Idle
  <2>3. m[2] = 0 /\ main[m] = 1 /\ m = <<m[1], 0>>
    <3>1. main[m] \in Nat /\ main[m] <= 1 /\ m[2] = 0
      BY <1>1, <1>5, <2>1
    <3>2. m = <<m[1], m[2]>>
      BY DEF Copies
    <3> QED
      BY <2>1, <3>1, <3>2
  <2>4. main'[m] = 0 /\ \A x \in Copies : x # m => main'[x] = main[x]
    BY <1>1, <2>1, <2>3 DEF Take
  <2>5. ASSUME NEW d \in Consumers, d # c, job[d].phase # "idle"
        PROVE  job[d].copy[1] # m[1] /\ main'[job[d].copy] = 0
    <3>1. job[d].copy \in Copies /\ job[d].copy = <<job[d].copy[1], job[d].copy[2]>>
      BY <1>1, <2>5, JobCopy
    <3>2. job[d].copy[2] = 0 /\ main[job[d].copy] = 0
      BY <1>5, <2>5
    <3>3. job[d].copy # m
      BY <2>3, <3>2
    <3>4. job[d].copy[1] # m[1]
      BY <2>3, <3>1, <3>2, <3>3
    <3> QED
      BY <2>4, <3>1, <3>2, <3>3, <3>4
  <2>6. QueuesQuiet'
    <3> SUFFICES ASSUME NEW x \in Copies
                 PROVE  retry'[x] = 0 /\ main'[x] <= 1 /\ (x[2] # 0 => main'[x] = 0)
      BY DEF QueuesQuiet
    <3>1. retry[x] = 0 /\ main[x] <= 1 /\ (x[2] # 0 => main[x] = 0)
      BY <1>5
    <3>2. CASE x = m
      BY <2>2, <2>4, <3>1, <3>2
    <3>3. CASE x # m
      BY <2>2, <2>4, <3>1, <3>3
    <3> QED
      BY <3>2, <3>3
  <2>7. JobsQuiet'
    <3>1. ASSUME NEW d \in Consumers
          PROVE  /\ job'[d].phase \in {"idle", "persist", "ack"}
                 /\ job'[d].phase # "idle" => job'[d].copy[2] = 0 /\ main'[job'[d].copy] = 0
      <4>1. CASE d = c
        BY <2>2, <2>3, <2>4, <4>1
      <4>2. CASE d # c
        BY <1>3, <1>5, <2>5, <4>2
      <4> QED
        BY <4>1, <4>2
    <3>2. ASSUME NEW d \in Consumers, NEW e \in Consumers, d # e,
                 job'[d].phase # "idle", job'[e].phase # "idle"
          PROVE  job'[d].copy[1] # job'[e].copy[1]
      <4>1. CASE d = c
        BY <1>3, <2>2, <2>5, <3>2, <4>1
      <4>2. CASE e = c
        BY <1>3, <2>2, <2>5, <3>2, <4>2
      <4>3. CASE d # c /\ e # c
        BY <1>3, <1>5, <3>2, <4>3
      <4> QED
        BY <4>1, <4>2, <4>3
    <3> QED
      BY <3>1, <3>2 DEF JobsQuiet
  <2>8. ASSUME NEW i \in Ids, Sent(i)' PROVE Sent(i)
    <3>1. CASE main'[<<i, 0>>] > 0
      <4>1. <<i, 0>> \in Copies
        BY BoundsAssumption DEF Copies
      <4>2. <<i, 0>> # m
        BY <2>4, <3>1
      <4> QED
        BY <2>4, <3>1, <4>1, <4>2 DEF Sent
    <3>2. ASSUME NEW d \in Consumers, job'[d].phase # "idle", job'[d].copy[1] = i PROVE Sent(i)
      <4>1. CASE d = c
        <5>1. m = <<i, 0>>
          BY <2>2, <2>3, <3>2, <4>1
        <5> QED
          BY <2>1, <5>1 DEF Sent
      <4>2. CASE d # c
        BY <1>3, <3>2, <4>2 DEF Sent
      <4> QED
        BY <4>1, <4>2
    <3> QED
      BY <2>8, <3>1, <3>2 DEF Sent
  <2> QED
    BY <2>6, <2>7, <2>8
\* In every other step the queues stay, and the handler keeps its delivery or drops it.
<1>7. CASE ~Consume(c)
  <2>1. \/ job'[c].phase = "idle"
        \/ job'[c].phase = "ack" /\ job'[c].copy = job[c].copy /\ job[c].phase # "idle"
    <3>1. CASE PersistVoteEvent(c)
      <4>1. StatusOf(c) # "conflict"
        BY <3>1, NoConflictFromIInv DEF NoGenuineConflict, PersistVoteEvent
      <4> QED
        BY <1>1, <3>1, <4>1, GoToKeeps DEF PersistVoteEvent
    <3>2. CASE Republished(c)
      BY <1>5, <3>2 DEF Republished
    <3>3. CASE AckDelivery(c)
      BY <1>1, <3>3 DEF AckDelivery, Finish, Idle
    <3> QED
      BY <1>7, <3>1, <3>2, <3>3 DEF ConsumerStep
  <2>2. UNCHANGED <<main, retry>>
    <3>1. ~Republished(c)
      BY <1>5 DEF Republished
    <3> QED
      BY <1>7, <3>1 DEF ConsumerStep, PersistVoteEvent, AckDelivery, brokerVars
  <2>3. \A d \in Consumers : job'[d].phase # "idle" =>
          /\ job[d].phase # "idle" /\ job'[d].copy = job[d].copy
          /\ job'[d].phase \in {"idle", "persist", "ack"}
    BY <1>3, <1>5, <2>1
  <2>4. QueuesQuiet'
    BY <1>5, <2>2 DEF QueuesQuiet
  <2>5. JobsQuiet'
    <3>1. ASSUME NEW d \in Consumers
          PROVE  /\ job'[d].phase \in {"idle", "persist", "ack"}
                 /\ job'[d].phase # "idle" => job'[d].copy[2] = 0 /\ main'[job'[d].copy] = 0
      BY <1>5, <2>2, <2>3
    <3>2. \A d, e \in Consumers :
            job'[d].phase # "idle" /\ job'[e].phase # "idle"
            /\ job'[d].copy[1] = job'[e].copy[1] => d = e
      BY <1>5, <2>3
    <3> QED
      BY <3>1, <3>2 DEF JobsQuiet
  <2>6. \A i \in Ids : Sent(i)' => Sent(i)
    BY <2>2, <2>3 DEF Sent
  <2> QED
    BY <2>4, <2>5, <2>6
<1> QED
  BY <1>6, <1>7

\* A new entry has been delivered to nobody.
LEMMA QuietVote ==
    ASSUME Quiet, TypeOK, NEW u \in Users, NEW p \in Posts, NEW d \in Directions, Vote(u, p, d)
    PROVE  Quiet'
<1>1. /\ stream' = stream \cup {Len(events) + 1} /\ Len(events') = Len(events) + 1
      /\ Len(events) \in Nat /\ UNCHANGED <<batch, confirmed, main, retry, job>>
  BY VoteEffect DEF relayVars, brokerVars
<1>2. UNCHANGED <<lastDelivered, owner>> /\ Len(events) < MaxVotes
  BY DEF Vote
<1>3. lastDelivered \in Nat /\ lastDelivered <= Len(events)
  BY BoundsAssumption DEF TypeOK, OutboxTypes, Quiet, OutboxQuiet
<1>4. Len(events) + 1 \in Ids /\ Len(events) + 1 > lastDelivered
  BY <1>1, <1>2, <1>3, BoundsAssumption DEF Ids
<1>5. owner[Len(events) + 1] = NoRelay
  BY <1>4 DEF Quiet, OutboxQuiet
<1>6. lastDelivered' <= Len(events')
  BY <1>1, <1>2, <1>3
<1>7. \A i \in stream' : owner'[i] # NoRelay => i \in batch'[owner'[i]]
  BY <1>1, <1>2, <1>5 DEF Quiet, OutboxQuiet
<1>8. \A r \in Relays : \A i \in batch'[r] : i \in stream' /\ owner'[i] = r
  BY <1>1, <1>2 DEF Quiet, OutboxQuiet
<1>9. /\ \A i \in Ids : i > lastDelivered' => owner'[i] = NoRelay /\ ~Sent(i)'
      /\ \A i \in Ids : Sent(i)' => ~Unsent(i)'
  BY <1>1, <1>2 DEF Quiet, OutboxQuiet, Sent, Unsent
<1>10. QueuesQuiet' /\ JobsQuiet'
  BY <1>1 DEF Quiet, QueuesQuiet, JobsQuiet
<1> QED
  BY <1>6, <1>7, <1>8, <1>9, <1>10 DEF Quiet, OutboxQuiet

QuietWithoutFault == faults = 0 => Quiet

LEMMA QuietStep == IInv /\ QuietWithoutFault /\ [Next]_vars => QuietWithoutFault'
<1> SUFFICES ASSUME IInv, QuietWithoutFault, [Next]_vars, faults' = 0 PROVE Quiet'
  BY DEF QuietWithoutFault
<1>0. TypeOK /\ Known /\ Answered /\ faults \in Nat
  BY BoundsAssumption DEF IInv, TypeOK
<1>1. ~Fault
  BY <1>0 DEF Fault
<1>2. faults = 0 /\ Quiet
  <2>1. faults' = faults
    <3>1. ASSUME NEW r \in Relays, RelayStep(r) \/ RelayFault(r) \/ Restart(r)
          PROVE  faults' = faults
      BY <1>1, <3>1 DEF RelayStep, RelayFault, Restart, ClaimStale, ReadOwn, ReadNew, Publish,
         AckVoteOutbox, ClaimReplyLost, ReadFails, PublishFails, AckFails, Crash
    <3>2. ASSUME NEW c \in Consumers, ConsumerStep(c) \/ ConsumerFault(c)
          PROVE  faults' = faults
      BY <1>1, <3>2 DEF ConsumerStep, ConsumerFault, Consume, PersistVoteEvent, Republished,
         AckDelivery, PersistFails, RepublishFails, LoseDelivery, ConsumerCrash
    <3> QED
      BY <3>1, <3>2, NextCases DEF Vote, RetryExpires, vars
  <2> QED
    BY <2>1 DEF QuietWithoutFault
<1>3. ASSUME NEW r \in Relays, RelayStep(r) \/ RelayFault(r) \/ Restart(r) PROVE Quiet'
  <2>1. ~RelayFault(r)
    BY <1>1 DEF RelayFault, ClaimReplyLost, ReadFails, PublishFails, AckFails, Crash
  <2>2. CASE Restart(r)
    BY <1>2, <2>2, QuietUnchanged DEF Restart, redisVars, outboxVars, brokerVars
  <2> QED
    BY <1>0, <1>2, <1>3, <2>1, <2>2, QuietReading, QuietReadNew, QuietPublish, QuietAck
       DEF RelayStep
<1>4. ASSUME NEW c \in Consumers, ConsumerStep(c) \/ ConsumerFault(c) PROVE Quiet'
  <2>1. ~ConsumerFault(c)
    BY <1>1 DEF ConsumerFault, PersistFails, RepublishFails, LoseDelivery, ConsumerCrash
  <2> QED
    BY <1>2, <1>4, <2>1, QuietConsumer
<1>5. ~RetryExpires
  <2>1. \A m \in Copies : ~(retry[m] > 0)
    BY <1>2 DEF Quiet, QueuesQuiet
  <2> QED
    BY <2>1 DEF RetryExpires
<1>6. CASE UNCHANGED vars
  BY <1>2, <1>6, QuietUnchanged DEF vars, redisVars, outboxVars, relayVars, brokerVars
<1> QED
  BY <1>0, <1>2, <1>3, <1>4, <1>5, <1>6, NextCases, QuietVote

\* A set without two members counts at most one.
LEMMA AtMostOne ==
    ASSUME NEW S, \A x, y \in S : x = y
    PROVE  /\ S = {} => Cardinality(S) = 0
           /\ S # {} => Cardinality(S) = 1
<1>1. CASE S = {}
  BY <1>1, FS_EmptySet
<1>2. CASE S # {}
  <2>1. PICK x \in S : TRUE
    BY <1>2
  <2>2. S = {x}
    BY <2>1
  <2> QED
    BY <1>2, <2>2, FS_Singleton
<1> QED
  BY <1>1, <1>2

LEMMA NothingTwice == TypeOK /\ QuietWithoutFault => NoFaultNoDuplicate
<1> SUFFICES ASSUME TypeOK, Quiet, NEW i \in 1..Len(events)
             PROVE  /\ CopiesOf(i) <= 1
                    /\ \A n \in 0..MaxRetries : main[<<i, n>>] <= 1
                    /\ i \in Undelivered => CopiesOf(i) = 0
  BY DEF NoFaultNoDuplicate, QuietWithoutFault
<1> DEFINE A == {n \in 0..MaxRetries : main[<<i, n>>] > 0}
           B == {r \in Relays : i \in batch[r] /\ ~(confirmed[r] /\ i = Lowest(batch[r]))}
           C == {c \in Consumers : job[c].owned /\ job[c].copy[1] = i}
<1>1. i \in Ids /\ JobTypes /\ job \in [Consumers -> JobType] /\ main \in [Copies -> Nat]
  BY EventsAreEvents DEF TypeOK, JobTypes, BrokerTypes
<1>2. CopiesOf(i) = Cardinality(A) + Cardinality(B) + Cardinality(C)
  BY DEF CopiesOf
<1>3. \A n \in 0..MaxRetries : <<i, n>> \in Copies /\ main[<<i, n>>] <= 1
  BY <1>1, CopyParts DEF Quiet, QueuesQuiet
<1>4. \A n \in A : n = 0 /\ main[<<i, 0>>] > 0
  <2> SUFFICES ASSUME NEW n \in A PROVE n = 0
    OBVIOUS
  <2>1. <<i, n>> \in Copies /\ <<i, n>>[2] = n /\ main[<<i, n>>] > 0
    BY <1>3
  <2>2. n # 0 => main[<<i, n>>] = 0
    BY <2>1 DEF Quiet, QueuesQuiet
  <2> QED
    BY <2>1, <2>2
<1>5. \A r \in B : owner[i] = r /\ r \in Relays
  BY DEF Quiet, OutboxQuiet
<1>6. \A c \in C : job[c].phase # "idle"
  BY <1>1 DEF JobType, Idle
<1>7. \A c \in C : /\ Sent(i)
                   /\ job[c].copy = <<i, 0>> /\ main[<<i, 0>>] = 0
  <2> SUFFICES ASSUME NEW c \in C
               PROVE  Sent(i) /\ job[c].copy = <<i, 0>> /\ main[<<i, 0>>] = 0
    OBVIOUS
  <2>1. job[c].copy = <<job[c].copy[1], job[c].copy[2]>> /\ job[c].copy[1] = i
    BY <1>1, <1>6, JobCopy
  <2>2. job[c].copy[2] = 0 /\ main[job[c].copy] = 0
    BY <1>6 DEF Quiet, JobsQuiet
  <2> QED
    BY <1>6, <2>1, <2>2 DEF Sent
<1>8. A # {} => Sent(i)
  BY <1>4 DEF Sent
<1>9. Sent(i) => B = {}
  BY <1>1 DEF Quiet, OutboxQuiet, Unsent
<1>10. C # {} => A = {}
  BY <1>4, <1>7
<1>11. \A c, d \in C : c = d
  BY <1>6 DEF Quiet, JobsQuiet
<1>12. i \in Undelivered => A = {} /\ B = {} /\ C = {}
  <2> SUFFICES ASSUME i \in Undelivered PROVE A = {} /\ B = {} /\ C = {}
    OBVIOUS
  <2>1. owner[i] = NoRelay /\ ~Sent(i)
    BY <1>1 DEF Undelivered, Quiet, OutboxQuiet
  <2> QED
    BY <1>5, <1>7, <1>8, <2>1, RelaysAssumption
<1> HIDE DEF A, B, C
<1>13. /\ A = {} => Cardinality(A) = 0
       /\ A # {} => Cardinality(A) = 1
  BY <1>4, AtMostOne
<1>14. /\ B = {} => Cardinality(B) = 0
       /\ B # {} => Cardinality(B) = 1
  BY <1>5, AtMostOne
<1>15. /\ C = {} => Cardinality(C) = 0
       /\ C # {} => Cardinality(C) = 1
  BY <1>11, AtMostOne
<1>16. CopiesOf(i) <= 1
  <2>1. CASE C # {}
    BY <1>2, <1>7, <1>9, <1>10, <1>13, <1>14, <1>15, <2>1
  <2>2. CASE C = {} /\ A # {}
    BY <1>2, <1>8, <1>9, <1>13, <1>14, <1>15, <2>2
  <2>3. CASE C = {} /\ A = {}
    BY <1>2, <1>13, <1>14, <1>15, <2>3
  <2> QED
    BY <2>1, <2>2, <2>3
<1>17. i \in Undelivered => CopiesOf(i) = 0
  BY <1>2, <1>12, <1>13, <1>14, <1>15
<1> QED
  BY <1>3, <1>16, <1>17

\* As long as nothing fails, an event is in one place at a time: in the outbox, with
\* one relay, in the main queue or with one consumer, although several relays and
\* consumers compete (dao/redis/outbox.go, worker/vote_relay.go).
THEOREM NothingSentTwice == Spec => []NoFaultNoDuplicate
<1>1. Init => QuietWithoutFault
  BY QuietInit DEF QuietWithoutFault
<1> QED
  BY <1>1, QuietStep, NothingTwice, Invariance, TypeCorrect, PTL DEF Spec
=============================================================================
