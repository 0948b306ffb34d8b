---------------------------- MODULE PublishOutcome ----------------------------
(***************************************************************************)
(* What a caller of Client.Publish may rely on: one message is published   *)
(* at a time, a call that succeeds has its message in a queue, and one     *)
(* that fails says nothing: its message is stored already, later, or       *)
(* never.  These are the outcomes VotePipeline takes from a call.          *)
(***************************************************************************)
EXTENDS Naturals

CONSTANT Messages

VARIABLES
    outcome,     \* of the call with each message
    stored       \* the messages in a queue

vars == <<outcome, stored>>

Init ==
    /\ outcome = [m \in Messages |-> "none"]
    /\ stored = {}

Become(m, o) == outcome' = [outcome EXCEPT ![m] = o]

Begin(m) ==
    /\ outcome[m] = "none" /\ \A n \in Messages : outcome[n] # "underway"
    /\ Become(m, "underway") /\ UNCHANGED stored

\* Also long after the call has failed.
Store(m) ==
    /\ outcome[m] \in {"underway", "failed"}
    /\ stored' = stored \cup {m} /\ UNCHANGED outcome

Succeed(m) ==
    /\ outcome[m] = "underway" /\ m \in stored
    /\ Become(m, "succeeded") /\ UNCHANGED stored

Fail(m) ==
    /\ outcome[m] = "underway"
    /\ Become(m, "failed") /\ UNCHANGED stored

Next == \E m \in Messages : Begin(m) \/ Store(m) \/ Succeed(m) \/ Fail(m)

Spec == Init /\ [][Next]_vars
=============================================================================
