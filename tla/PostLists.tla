------------------------------ MODULE PostLists ------------------------------
(***************************************************************************)
(* Listing posts (logic/post.go:346-393, dao/redis/post.go).  A page of    *)
(* all posts is read from the index by one request at a time of every      *)
(* instance, and those that come meanwhile wait for its answer             *)
(* (singleflight).  A page of a community is read from a copy of the index *)
(* that one command builds and a second one gives its lifetime.            *)
(*                                                                         *)
(* The index is represented by its version, the number of changes it has   *)
(* had: a new post, or a vote that moves one.  Version 0 is an index that  *)
(* has no post of the community, and a copy of it is a key that does not   *)
(* exist.  One sort order and one page are modelled; keys of others share  *)
(* nothing with them.                                                      *)
(***************************************************************************)
EXTENDS Integers, Sequences

CONSTANTS
    Instances, Readers,
    Lifetime,        \* of a copy (60 s), in units of time
    MaxChanges,      \* bound: changes of the index
    MaxTime,         \* bound: units of time
    MaxFaults        \* bound: errors and crashes

ASSUME BoundsAssumption ==
    /\ Lifetime \in Nat \ {0}
    /\ MaxChanges \in Nat /\ MaxTime \in Nat /\ MaxFaults \in Nat

VARIABLES
    now,
    changes,         \* Redis: when the index changed, oldest first
    list, ttl,       \* Redis: the copy's version; the time it has left, 0 for no expiry
    cut,             \* whether the EXPIRE of this copy was cut off
    flight, page,    \* per instance: the query under way and what it has read
    settled,         \* per instance: the version when its last query ended (history)
    at, home,        \* per reader: where it is, and at which instance
    floor,           \* per reader: what was settled when it came (history)
    faults

indexVars == <<now, changes>>
copyVars == <<list, ttl, cut>>
flightVars == <<flight, page, settled>>
readerVars == <<at, home, floor>>
vars == <<indexVars, copyVars, flightVars, readerVars, faults>>

Version == Len(changes)

TypeOK ==
    /\ now \in 0..MaxTime /\ changes \in Seq(0..MaxTime)
    /\ list \in 0..MaxChanges /\ ttl \in 0..Lifetime /\ cut \in BOOLEAN
    /\ flight \in [Instances -> {"none", "asked", "read"}]
    /\ page \in [Instances -> 0..MaxChanges] /\ settled \in [Instances -> 0..MaxChanges]
    /\ at \in [Readers -> {"idle", "exists", "store", "expire", "read", "waiting"}]
    /\ home \in [Readers -> Instances] /\ floor \in [Readers -> 0..MaxChanges]
    /\ faults \in 0..MaxFaults

Fault == faults < MaxFaults /\ faults' = faults + 1

Init ==
    /\ now = 0 /\ changes = <<>>
    /\ list = 0 /\ ttl = 0 /\ cut = FALSE
    /\ flight = [i \in Instances |-> "none"]
    /\ page = [i \in Instances |-> 0] /\ settled = [i \in Instances |-> 0]
    /\ at = [r \in Readers |-> "idle"] /\ home \in [Readers -> Instances]
    /\ floor = [r \in Readers |-> 0]
    /\ faults = 0

-----------------------------------------------------------------------------
(* The index and time                                                       *)

\* redis.CreatePost, vote.lua
Change ==
    /\ Version < MaxChanges /\ changes' = Append(changes, now)
    /\ UNCHANGED <<now, copyVars, flightVars, readerVars, faults>>

\* A pipeline reaches Redis as a whole: no time passes between its two commands.
Tick ==
    /\ now < MaxTime /\ now' = now + 1
    /\ \A r \in Readers : at[r] # "expire"
    /\ ttl' = IF ttl > 0 THEN ttl - 1 ELSE 0
    /\ list' = IF ttl = 1 THEN 0 ELSE list
    /\ UNCHANGED <<changes, cut, flightVars, readerVars, faults>>

-----------------------------------------------------------------------------
(* A page of a community: redis.GetCommunityPostIDsInOrder                  *)

Go(r, place) == at' = [at EXCEPT ![r] = place]

AskCommunity(r) ==
    /\ at[r] = "idle" /\ Go(r, "exists")
    /\ UNCHANGED <<indexVars, copyVars, flightVars, home, floor, faults>>

\* EXISTS; an error is read as zero, like a missing key.
Exists(r) ==
    /\ at[r] = "exists"
    /\ \/ Go(r, IF list = 0 THEN "store" ELSE "read") /\ UNCHANGED faults
       \/ Go(r, "store") /\ Fault
    /\ UNCHANGED <<indexVars, copyVars, flightVars, home, floor>>

\* ZINTERSTORE overwrites the copy and drops its expiry; what is empty is not stored.
Store(r) ==
    /\ at[r] = "store" /\ Go(r, "expire")
    /\ list' = Version /\ ttl' = 0 /\ cut' = FALSE
    /\ UNCHANGED <<indexVars, flightVars, home, floor, faults>>

\* Building the copy without giving it an expiry.
NoLifetime == ttl' = ttl
\* EXPIRE, which does nothing to a key that does not exist.
SetLifetime == ttl' = IF list = 0 THEN 0 ELSE Lifetime

Expire(r) ==
    /\ at[r] = "expire" /\ Go(r, "read")
    /\ SetLifetime /\ cut' = FALSE
    /\ UNCHANGED <<indexVars, list, flightVars, home, floor, faults>>

\* The second command does not reach Redis: the connection breaks, or the program ends.
ExpireLost(r) ==
    /\ at[r] = "expire" /\ Fault /\ Go(r, "idle")
    /\ cut' = (list # 0 /\ ttl = 0)
    /\ UNCHANGED <<indexVars, list, ttl, flightVars, home, floor>>

\* ZREVRANGE, and the reply.
ReadCopy(r) ==
    /\ at[r] = "read" /\ Go(r, "idle")
    /\ UNCHANGED <<indexVars, copyVars, flightVars, home, floor, faults>>

\* An error of the marker check, of the pipeline as a whole or of the query.
CommunityFails(r) ==
    /\ at[r] \in {"exists", "store", "read"} /\ Fault /\ Go(r, "idle")
    /\ UNCHANGED <<indexVars, copyVars, flightVars, home, floor>>

-----------------------------------------------------------------------------
(* A page of all posts: logic.GetPostListWithSingleFlight                   *)

\* sgPostList.Do: the first asks, the others wait with it.
AskAll(r, i) ==
    /\ at[r] = "idle" /\ Go(r, "waiting")
    /\ home' = [home EXCEPT ![r] = i] /\ floor' = [floor EXCEPT ![r] = settled[i]]
    /\ flight' = [flight EXCEPT ![i] = IF @ = "none" THEN "asked" ELSE @]
    /\ UNCHANGED <<indexVars, copyVars, page, settled, faults>>

\* redis.GetPostIDsInOrder
ReadIndex(i) ==
    /\ flight[i] = "asked" /\ flight' = [flight EXCEPT ![i] = "read"]
    /\ page' = [page EXCEPT ![i] = Version]
    /\ UNCHANGED <<indexVars, copyVars, settled, readerVars, faults>>

\* A query that stays in the map of singleflight once it is answered.
StaysInMap == "read"
\* The call is removed before the next one can ask (singleflight).
LeavesMap == "none"

\* An answer for the one who asked first alone.
FirstOnly(i) == {CHOOSE r \in Readers : at[r] = "waiting" /\ home[r] = i}
\* Whoever waits has the answer.
Waiting(i) == {r \in Readers : at[r] = "waiting" /\ home[r] = i}

EndFlight(i) ==
    /\ flight' = [flight EXCEPT ![i] = LeavesMap]
    /\ settled' = [settled EXCEPT ![i] = Version]
    /\ at' = [r \in Readers |-> IF r \in Waiting(i) THEN "idle" ELSE at[r]]
    /\ floor' = [r \in Readers |-> IF r \in Waiting(i) THEN 0 ELSE floor[r]]

\* The posts and their votes are read, and the page is handed out.
Answer(i) ==
    /\ flight[i] = "read" /\ EndFlight(i)
    /\ UNCHANGED <<indexVars, copyVars, page, home, faults>>

\* Any of the reads fails, or the program ends: everybody has the error.
FlightFails(i) ==
    /\ flight[i] # "none" /\ Fault /\ EndFlight(i)
    /\ UNCHANGED <<indexVars, copyVars, page, home>>

-----------------------------------------------------------------------------

CommunityStep(r) == Exists(r) \/ Store(r) \/ Expire(r) \/ ReadCopy(r)
QueryStep(i) == ReadIndex(i) \/ Answer(i)

Next ==
    \/ Change \/ Tick
    \/ \E r \in Readers :
          \/ AskCommunity(r) \/ CommunityStep(r) \/ ExpireLost(r) \/ CommunityFails(r)
          \/ \E i \in Instances : AskAll(r, i)
    \/ \E i \in Instances : QueryStep(i) \/ FlightFails(i)

Spec == Init /\ [][Next]_vars

\* A request that has begun is carried on.
Fairness ==
    /\ \A r \in Readers : WF_vars(CommunityStep(r))
    /\ \A i \in Instances : WF_vars(QueryStep(i))

FairSpec == Spec /\ Fairness

-----------------------------------------------------------------------------
(* Safety                                                                   *)

\* A change of the index shows in a community within the lifetime of a copy
\* (dao/redis/post.go:76-84), however builders overwrite one another and whatever
\* fails, unless the EXPIRE of the present copy was cut off.
CopyIsFresh ==
    list # 0 /\ ~cut => \A c \in list + 1 .. Version : now < changes[c] + Lifetime

\* Waiting for somebody else's query never answers with a page from before the
\* instance's last query ended: it is late by one query at most
\* (logic/post.go:371-375).
NoPageFromBefore ==
    \A r \in Readers :
        at[r] = "waiting" /\ flight[home[r]] = "read" => floor[r] <= page[home[r]]

-----------------------------------------------------------------------------
(* The inductive invariant of the proofs                                    *)

\* A copy misses what was changed after it was built: now, if its builder has yet to
\* set the expiry, and else since its lifetime began.
Missed == list + 1 .. Version
CopyInv ==
    /\ list <= Version /\ (list = 0 => ttl = 0)
    /\ \A c \in 1..Version : changes[c] <= now
    /\ list # 0 /\ ~cut /\ ttl = 0 => \E r \in Readers : at[r] = "expire"
    /\ list # 0 /\ (\E r \in Readers : at[r] = "expire") => \A c \in Missed : changes[c] = now
    /\ ttl > 0 => \A c \in Missed : now + ttl <= changes[c] + Lifetime

\* Whoever waits has a query to wait for, which began after what was settled.
FlightInv ==
    /\ \A i \in Instances :
          settled[i] <= Version /\ (flight[i] = "read" => settled[i] <= page[i])
    /\ \A r \in Readers :
          at[r] = "waiting" => flight[home[r]] # "none" /\ floor[r] <= settled[home[r]]

IInv == TypeOK /\ Version <= MaxChanges /\ CopyInv /\ FlightInv

-----------------------------------------------------------------------------
(* Liveness                                                                 *)

\* Nobody waits for ever, whether the query waited for succeeds or fails.
EveryReaderIsAnswered == \A r \in Readers : at[r] # "idle" ~> at[r] = "idle"
=============================================================================
