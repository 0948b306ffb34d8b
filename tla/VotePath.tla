------------------------------- MODULE VotePath -------------------------------
(***************************************************************************)
(* The path of a vote as the rest of the system sees it: an event is in    *)
(* the outbox, then in RabbitMQ, and then it has had its effect on MySQL.  *)
(* Its entry stays in the outbox until the relay has acknowledged it, and  *)
(* copies of it may stay in RabbitMQ after it has had its effect.          *)
(* PostIndex is built from these actions; VotePipeline, with its relays,   *)
(* copies, retries, crashes and redeliveries, implements them.             *)
(***************************************************************************)
EXTENDS VoteMySQL

CONSTANTS Users, Posts

VARIABLES
    vote,        \* Redis: direction and version of each vote
    unsent,      \* the events that only the outbox has
    unacked,     \* whether the outbox has entries of other events too
    broker,      \* the events that RabbitMQ has and MySQL has not applied
    copies,      \* whether RabbitMQ has a copy of an event that MySQL has applied
    row          \* MySQL: post_vote

vars == <<vote, unsent, unacked, broker, copies, row>>

Keys == Users \X Posts

Init ==
    /\ vote = [k \in Keys |-> NoRow] /\ row = [k \in Keys |-> NoRow]
    /\ unsent = {} /\ unacked = FALSE /\ broker = {} /\ copies = FALSE

\* vote.lua: another direction, and its event in the outbox, as one.
Cast(k, d) ==
    /\ d # vote[k].dir
    /\ vote' = [vote EXCEPT ![k] = [dir |-> d, ver |-> @.ver + 1]]
    /\ unsent' = unsent \cup {[key |-> k, dir |-> d, ver |-> vote[k].ver + 1]}
    /\ UNCHANGED <<unacked, broker, copies, row>>

\* RabbitMQ has the event: from here on it is not lost.  Its entry is still there.
Relay ==
    /\ \E e \in unsent : unsent' = unsent \ {e} /\ broker' = broker \cup {e}
    /\ unacked' = TRUE
    /\ UNCHANGED <<vote, copies, row>>

\* XACK and XDEL of one such entry, the last one or not, before or after its event
\* has had its effect.
Acknowledge ==
    /\ unacked /\ unacked' \in BOOLEAN
    /\ UNCHANGED <<vote, unsent, broker, copies, row>>

\* The transaction for some event in RabbitMQ commits; there is no order.  What else
\* RabbitMQ has of the event, its delivery among it, are copies from now on.
Persist ==
    /\ \E e \in broker :
          broker' = broker \ {e} /\ row' = [row EXCEPT ![e.key] = Upsert(@, e)]
    /\ copies' \in BOOLEAN
    /\ UNCHANGED <<vote, unsent, unacked>>

\* An event that was applied is published once more, or its copies are acknowledged.
CopiesComeAndGo ==
    /\ \E k \in Keys : row[k] # NoRow
    /\ copies' \in BOOLEAN
    /\ UNCHANGED <<vote, unsent, unacked, broker, row>>

Next ==
    \/ \E k \in Keys, d \in Directions : Cast(k, d)
    \/ Relay \/ Acknowledge \/ Persist \/ CopiesComeAndGo

Spec == Init /\ [][Next]_vars
=============================================================================
