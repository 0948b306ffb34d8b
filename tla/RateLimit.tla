------------------------------ MODULE RateLimit ------------------------------
(***************************************************************************)
(* The limit on one user's votes: dao/redis/ratelimit.lua and ratelimit.go.*)
(* A request takes the time of its instance and later runs a script that   *)
(* drops the entries one window old, counts the rest, and adds the request *)
(* if there is room.  The script goes by the times it is handed, so it may *)
(* see them out of order.                                                  *)
(***************************************************************************)
EXTENDS Integers, FiniteSets

CONSTANTS
    Window,         \* milliseconds, in some unit
    Second,         \* a second, in that unit
    Limit,          \* requests per window
    MaxDelay,       \* assumption: the script runs so soon after the time is taken
    Skew,           \* assumption: so much the clocks of instances are off
    MaxRequests,    \* bound
    MaxTime         \* bound

ASSUME LimitAssumption == Limit \in Nat /\ Limit > 0
ASSUME TimeAssumption ==
    /\ Window \in Nat /\ MaxDelay \in Nat /\ Skew \in Nat
    /\ Second \in Nat /\ Second > 0
    /\ MaxRequests \in Nat /\ MaxTime \in Nat

VARIABLES
    now,            \* the time
    sent,           \* requests so far
    phase,          \* per request: none, waiting for the script, accepted, refused
    stamp,          \* per request: the time it was given by its instance
    ranAt,          \* per request: when it was sent, and later when its script ran
    log,            \* the sorted set: requests, with their stamps as scores
    dies            \* when the key expires

limitVars == <<now, sent, phase, stamp, ranAt, log, dies>>

Numbers == 1..MaxRequests

LimitTypeOK ==
    /\ now \in Nat /\ sent \in 0..MaxRequests
    /\ phase \in [Numbers -> {"none", "waiting", "accepted", "refused"}]
    /\ stamp \in [Numbers -> Int] /\ ranAt \in [Numbers -> Nat]
    /\ log \subseteq Numbers /\ dies \in Nat

LimitInit ==
    /\ now = 0 /\ sent = 0
    /\ phase = [n \in Numbers |-> "none"]
    /\ stamp = [n \in Numbers |-> 0] /\ ranAt = [n \in Numbers |-> 0]
    /\ log = {} /\ dies = 0

\* time.Now in AllowVoteRequest.
TakeTime ==
    /\ sent < MaxRequests /\ sent' = sent + 1
    /\ phase' = [phase EXCEPT ![sent + 1] = "waiting"]
    /\ \E t \in (now - Skew)..(now + Skew) : stamp' = [stamp EXCEPT ![sent + 1] = t]
    /\ ranAt' = [ranAt EXCEPT ![sent + 1] = now]
    /\ UNCHANGED <<now, log, dies>>

\* ZREMRANGEBYSCORE 0 now-window.
Recent(n) == {m \in log : stamp[m] > stamp[n] - Window}

\* A member that is the time alone, so that it stands for every request of that time.
TimeOnly(n) == CHOOSE m \in 1..sent : stamp[m] = stamp[n]
\* The member of the sorted set: the time and a nonce.
Member(n) == n

\* One more than the limit.
HasRoomForOneMore(n) == Cardinality(Recent(n)) <= Limit
HasRoom(n) == Cardinality(Recent(n)) < Limit

\* The wait of a refused request, as the script has it: until the oldest entry is one
\* window old.
Oldest(n) == CHOOSE m \in Recent(n) : \A k \in Recent(n) : stamp[m] <= stamp[k]
RetryAfter(n) ==
    LET left == stamp[Oldest(n)] + Window - stamp[n] IN IF left < 0 THEN 0 ELSE left

\* The Retry-After that the user is told is in seconds: what is left of the last one
\* dropped, one added.
Truncated(n) == Second * (RetryAfter(n) \div Second)
Told(n) == Second * (RetryAfter(n) \div Second) + Second

\* The script for request n, when it lets n pass and when it does not.
Record(n) == log' = Recent(n) \cup {Member(n)} /\ dies' = now + Window
TurnDown(n) == log' = Recent(n) /\ UNCHANGED dies

AllowVote(n) ==
    /\ phase[n] = "waiting" /\ HasRoom(n) /\ Record(n)
    /\ phase' = [phase EXCEPT ![n] = "accepted"]
    /\ ranAt' = [ranAt EXCEPT ![n] = now]
    /\ UNCHANGED <<now, sent, stamp>>

\* The user is told to wait for Told(n).
RefuseVote(n) ==
    /\ phase[n] = "waiting" /\ ~HasRoom(n) /\ TurnDown(n)
    /\ phase' = [phase EXCEPT ![n] = "refused"]
    /\ UNCHANGED <<now, sent, stamp, ranAt>>

\* An error of Redis, before or after the script: the request is refused.
LimiterFails(n) ==
    /\ phase[n] = "waiting"
    /\ phase' = [phase EXCEPT ![n] = "refused"]
    /\ \/ UNCHANGED <<log, dies>>
       \/ HasRoom(n) /\ Record(n)
       \/ ~HasRoom(n) /\ TurnDown(n)
    /\ UNCHANGED <<now, sent, stamp, ranAt>>

\* Time passes; no script is later than MaxDelay; the key may expire.
Tick ==
    /\ now < MaxTime /\ now' = now + 1
    /\ \A n \in Numbers : phase[n] = "waiting" => now < ranAt[n] + MaxDelay
    /\ log' = IF now + 1 >= dies THEN {} ELSE log
    /\ UNCHANGED <<sent, phase, stamp, ranAt, dies>>

LimitStep == Tick \/ \E n \in Numbers : AllowVote(n) \/ RefuseVote(n) \/ LimiterFails(n)
LimitNext == LimitStep \/ TakeTime
LimitSpec == LimitInit /\ [][LimitNext]_limitVars

-----------------------------------------------------------------------------

Accepted == {n \in Numbers : phase[n] = "accepted"}

\* What the delays and the clocks leave of the window.
Span == Window - MaxDelay - 2 * Skew

\* No span of time, wherever it begins, sees more than Limit votes pass
\* (dao/redis/ratelimit.go:28-30, a fixed window lets through twice as many at its
\* border), however the scripts overtake one another.
SpanHoldsLimit ==
    \A t \in 0..MaxTime :
        Cardinality({n \in Accepted : t <= ranAt[n] /\ ranAt[n] < t + Span}) <= Limit

\* Who is refused and waits for as long as the Retry-After says passes, by the same
\* clock, if nobody else votes; and the wait is not more than a second too long
\* (ratelimit.lua:21-31 and the whole seconds of middlewares/ratelimit.go:47), also
\* when entries of later times were written before the request.
WouldPass(t) == Cardinality({m \in log : stamp[m] > t - Window}) < Limit
ComesBack(n) == stamp[n] + Told(n)
AdviceSuffices ==
    \A n \in Numbers : phase[n] = "waiting" /\ ~HasRoom(n) =>
        WouldPass(ComesBack(n)) /\ ~WouldPass(ComesBack(n) - Second - 1)

\* The inductive strengthening: the log is never too long, and it holds every
\* request that has passed within the span.
LimitInv ==
    /\ LimitTypeOK
    /\ now <= MaxTime
    /\ Cardinality(log) <= Limit
    /\ \A n \in Numbers : phase[n] = "none" <=> n > sent
    /\ \A n \in Numbers : phase[n] \in {"waiting", "accepted"} => ranAt[n] <= now
    /\ \A n \in Numbers : phase[n] = "waiting" =>
          /\ now <= ranAt[n] + MaxDelay
          /\ ranAt[n] - Skew <= stamp[n] /\ stamp[n] <= ranAt[n] + Skew
    /\ \A n \in Accepted :
          /\ ranAt[n] + Window <= dies
          /\ ranAt[n] <= stamp[n] + MaxDelay + Skew
          /\ now < ranAt[n] + Span => n \in log
    /\ SpanHoldsLimit
=============================================================================
