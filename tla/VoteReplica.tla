----------------------------- MODULE VoteReplica -----------------------------
(***************************************************************************)
(* What the pipeline from Redis to MySQL promises, whatever lies between:  *)
(* a store accepts numbered changes of votes, a replica of it follows, may *)
(* skip versions, and never goes back nor invents one.                     *)
(***************************************************************************)
EXTENDS Integers

CONSTANTS Users, Posts

VARIABLES
    accepted,    \* the vote of each key, as the store has accepted it
    log,         \* every change the store has accepted
    persisted    \* the vote of each key, as the replica has it

vars == <<accepted, log, persisted>>

Keys == Users \X Posts
NoVote == [dir |-> 0, ver |-> 0]

Init ==
    /\ accepted = [k \in Keys |-> NoVote]
    /\ log = {}
    /\ persisted = [k \in Keys |-> NoVote]

\* The store accepts another direction for k and numbers the change.
Accept(k) ==
    \E d \in {-1, 0, 1} \ {accepted[k].dir} :
        /\ accepted' = [accepted EXCEPT ![k] = [dir |-> d, ver |-> @.ver + 1]]
        /\ log' = log \cup {[key |-> k, dir |-> d, ver |-> accepted[k].ver + 1]}
        /\ UNCHANGED persisted

\* The replica catches up with some later change of k.
CatchUp(k) ==
    \E e \in log :
        /\ e.key = k /\ e.ver > persisted[k].ver
        /\ persisted' = [persisted EXCEPT ![k] = [dir |-> e.dir, ver |-> e.ver]]
        /\ UNCHANGED <<accepted, log>>

Next == \E k \in Keys : Accept(k) \/ CatchUp(k)

Spec == Init /\ [][Next]_vars
=============================================================================
