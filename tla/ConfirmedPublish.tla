--------------------------- MODULE ConfirmedPublish ---------------------------
(***************************************************************************)
(* mq/rabbitmq.go, Client.Publish: one channel in confirm mode, shared by  *)
(* the relay and the consumers of an instance under a mutex.  The code     *)
(* never looks at the delivery tag of a confirmation or at the message of  *)
(* a return: that they belong to the call in progress follows, if at all,  *)
(* from one call at a time and from giving up the channel after every      *)
(* unclear outcome.                                                        *)
(*                                                                         *)
(* A message is the number of the call that publishes it.  VotePipeline    *)
(* reduces a whole call to its outcome.                                    *)
(***************************************************************************)
EXTENDS Naturals, Sequences

CONSTANTS
    Callers,        \* goroutines that publish: the relay and the consumer
    NoCaller,       \* the mutex is free
    MaxCalls        \* bound: calls of Publish

ASSUME CallersAssumption == NoCaller \notin Callers /\ MaxCalls \in Nat

VARIABLES
    holder,         \* c.mu
    call,           \* per caller: where its call is, and the message
    calls,          \* calls so far
    channel,        \* c.publisher: absent, open, or closed by somebody else
    wire,           \* publications on this channel that the broker has not handled
    frames,         \* what the broker has answered on it, in order
    returns,        \* c.returns and c.confirms, Go channels of capacity one
    confirms,
    adrift,         \* publications on former channels that the broker may yet get
    stored,         \* messages in a queue of the broker
    succeeded       \* calls that returned nil

channelVars == <<channel, wire, frames, returns, confirms>>
vars == <<holder, call, calls, channelVars, adrift, stored, succeeded>>

Messages == 1..MaxCalls
FrameType == [kind : {"return", "ack", "nack"}, msg : Messages]
Idle == [phase |-> "idle", msg |-> 0]
Publishing == [phase : {"open", "send", "wait", "confirmed"}, msg : Messages]

TypeOK ==
    /\ holder \in Callers \cup {NoCaller}
    /\ call \in [Callers -> {Idle} \cup Publishing]
    /\ calls \in 0..MaxCalls
    /\ channel \in {"none", "open", "closed"}
    /\ wire \subseteq Messages /\ frames \in Seq(FrameType)
    /\ returns \in Seq(FrameType) /\ Len(returns) <= 1
    /\ confirms \in Seq(FrameType) /\ Len(confirms) <= 1
    /\ adrift \subseteq Messages /\ stored \subseteq Messages /\ succeeded \subseteq Messages

Init ==
    /\ holder = NoCaller /\ call = [a \in Callers |-> Idle] /\ calls = 0
    /\ channel = "none" /\ wire = {} /\ frames = <<>> /\ returns = <<>> /\ confirms = <<>>
    /\ adrift = {} /\ stored = {} /\ succeeded = {}

-----------------------------------------------------------------------------
(* Client.Publish                                                           *)

In(a, phase) == call[a].phase = phase
GoTo(a, phase) == call' = [call EXCEPT ![a].phase = phase]

\* A client without the mutex.
NoMutex == TRUE
MutexFree == holder = NoCaller

Publish(a) ==
    /\ In(a, "idle") /\ MutexFree /\ calls < MaxCalls
    /\ holder' = a /\ calls' = calls + 1
    /\ call' = [call EXCEPT ![a] = [phase |-> "open", msg |-> calls + 1]]
    /\ UNCHANGED <<channelVars, adrift, stored, succeeded>>

\* The call ends; the deferred Unlock runs.
End(a) == holder' = NoCaller /\ call' = [call EXCEPT ![a] = Idle]
Fail(a) == End(a) /\ UNCHANGED succeeded

NewChannel == channel' = "open" /\ wire' = {} /\ frames' = <<>> /\ returns' = <<>> /\ confirms' = <<>>

\* connectLocked and publisherLocked: an open channel is used again.
OpenChannel(a) ==
    /\ In(a, "open") /\ GoTo(a, "send")
    /\ \/ channel = "open" /\ UNCHANGED channelVars
       \/ channel # "open" /\ NewChannel
    /\ UNCHANGED <<holder, calls, adrift, stored, succeeded>>

OpenFails(a) ==
    /\ In(a, "open") /\ channel # "open" /\ Fail(a)
    /\ UNCHANGED <<calls, channelVars, adrift, stored>>

Drop == channel' = "none" /\ wire' = {} /\ frames' = <<>> /\ returns' = <<>> /\ confirms' = <<>>

\* invalidatePublisherLocked: what is under way on the channel is lost to the
\* client, but the broker may still get it.
Invalidate == Drop /\ adrift' = adrift \cup wire

\* An unclear outcome after which the channel stays in use.
KeepChannel == UNCHANGED <<channelVars, adrift>>
\* What a deadline or a cancelled context does to the channel.
GiveUp == Invalidate

Send(a) ==
    /\ In(a, "send") /\ channel = "open"
    /\ wire' = wire \cup {call[a].msg}
    /\ GoTo(a, "wait")
    /\ UNCHANGED <<holder, calls, channel, frames, returns, confirms, adrift, stored, succeeded>>

\* PublishWithContext fails, with the message sent or not.
SendFails(a) ==
    /\ In(a, "send") /\ Fail(a) /\ Drop
    /\ adrift' = adrift \cup wire \/ adrift' = adrift \cup wire \cup {call[a].msg}
    /\ UNCHANGED <<calls, stored>>

\* The case <-c.returns of the select; a closed Go channel yields a value too.
TakeReturn(a) ==
    /\ In(a, "wait") /\ (returns # <<>> \/ channel = "closed")
    /\ Fail(a) /\ Invalidate
    /\ UNCHANGED <<calls, stored>>

\* The case <-c.confirms with a positive confirmation.
TakeAck(a) ==
    /\ In(a, "wait") /\ confirms # <<>> /\ Head(confirms).kind = "ack"
    /\ confirms' = <<>>
    /\ GoTo(a, "confirmed")
    /\ UNCHANGED <<holder, calls, channel, wire, frames, returns, adrift, stored, succeeded>>

\* The same case with a negative one, or closed.
TakeNack(a) ==
    /\ In(a, "wait")
    /\ \/ confirms # <<>> /\ Head(confirms).kind = "nack"
       \/ confirms = <<>> /\ channel = "closed"
    /\ Fail(a) /\ Invalidate
    /\ UNCHANGED <<calls, stored>>

\* publishCtx is done.
TimeOut(a) ==
    /\ In(a, "wait") /\ Fail(a) /\ GiveUp
    /\ UNCHANGED <<calls, stored>>

\* A client that does not look for a return once it has the confirmation.
NotLooking == FALSE
\* The inner select: a return that came before the confirmation.
Returned == returns # <<>> \/ channel = "closed"

Confirmed(a) ==
    /\ In(a, "confirmed")
    /\ \/ Returned /\ Fail(a) /\ Invalidate
       \/ /\ ~Returned /\ End(a)
          /\ succeeded' = succeeded \cup {call[a].msg}
          /\ UNCHANGED <<channelVars, adrift>>
    /\ UNCHANGED <<calls, stored>>

-----------------------------------------------------------------------------
(* The broker and the client library                                        *)

Answer(kind, m) == [kind |-> kind, msg |-> m]

\* A mandatory message that no queue takes is returned, then confirmed.
Handle ==
    /\ channel = "open"
    /\ \E m \in wire :
          /\ wire' = wire \ {m}
          /\ \/ stored' = stored \cup {m} /\ frames' = Append(frames, Answer("ack", m))
             \/ /\ frames' = frames \o <<Answer("return", m), Answer("ack", m)>>
                /\ UNCHANGED stored
             \/ frames' = Append(frames, Answer("nack", m)) /\ UNCHANGED stored
    /\ UNCHANGED <<holder, call, calls, channel, returns, confirms, adrift, succeeded>>

\* What was sent on a former channel arrives, or is lost.
HandleAdrift ==
    /\ \E m \in adrift :
          adrift' = adrift \ {m} /\ (stored' = stored \cup {m} \/ UNCHANGED stored)
    /\ UNCHANGED <<holder, call, calls, channelVars, succeeded>>

\* The reader goroutine hands one answer on, and blocks when there is no room.
ReadReturn ==
    /\ channel = "open" /\ frames # <<>> /\ Head(frames).kind = "return"
    /\ returns = <<>> /\ returns' = <<Head(frames)>> /\ frames' = Tail(frames)
    /\ UNCHANGED <<holder, call, calls, channel, wire, confirms, adrift, stored, succeeded>>

ReadConfirm ==
    /\ channel = "open" /\ frames # <<>> /\ Head(frames).kind # "return"
    /\ confirms = <<>> /\ confirms' = <<Head(frames)>> /\ frames' = Tail(frames)
    /\ UNCHANGED <<holder, call, calls, channel, wire, returns, adrift, stored, succeeded>>

\* The channel or the connection closes; what the Go channels hold can be read.
CloseChannel ==
    /\ channel = "open" /\ channel' = "closed"
    /\ wire' = {} /\ frames' = <<>> /\ adrift' = adrift \cup wire
    /\ UNCHANGED <<holder, call, calls, returns, confirms, stored, succeeded>>

-----------------------------------------------------------------------------

CallStep(a) ==
    \/ OpenChannel(a) \/ OpenFails(a) \/ Send(a) \/ SendFails(a)
    \/ TakeReturn(a) \/ TakeAck(a) \/ TakeNack(a) \/ TimeOut(a) \/ Confirmed(a)

Next ==
    \/ \E a \in Callers : Publish(a) \/ CallStep(a)
    \/ Handle \/ HandleAdrift \/ ReadReturn \/ ReadConfirm \/ CloseChannel

Spec == Init /\ [][Next]_vars

-----------------------------------------------------------------------------

\* Publish returns nil only when a queue holds the message
\* (mq/rabbitmq.go:139): neither a confirmation of an unroutable message nor one
\* that belongs to an earlier or to another caller's message passes for it.
ConfirmedIsStored == succeeded \subseteq stored

\* A call leaves nothing behind on a channel that the next call will use.
QuietBetweenCalls ==
    holder = NoCaller /\ channel = "open" =>
        wire = {} /\ frames = <<>> /\ returns = <<>> /\ confirms = <<>>

\* The mutex is held by the one caller that is in a call.
OneCall == \A a \in Callers : ~In(a, "idle") <=> holder = a

\* Whatever is on the channel is about the message of the call in progress.
OnChannel ==
    wire \cup {frames[i].msg : i \in DOMAIN frames}
    \cup {returns[i].msg : i \in DOMAIN returns} \cup {confirms[i].msg : i \in DOMAIN confirms}
Own ==
    \A m \in OnChannel : \E a \in Callers :
        call[a].phase \in {"wait", "confirmed"} /\ call[a].msg = m

\* The broker answers a publication once, and the answer is in one place.
OneAnswer ==
    /\ frames = <<>> \/ \E m \in Messages :
          \/ frames = <<Answer("ack", m)>> \/ frames = <<Answer("nack", m)>>
          \/ frames = <<Answer("return", m), Answer("ack", m)>>
    /\ wire # {} => frames = <<>> /\ confirms = <<>>
    /\ frames # <<>> => confirms = <<>>
    /\ \A a \in Callers :
          In(a, "confirmed") => wire = {} /\ frames = <<>> /\ confirms = <<>>

\* The return of an unrouted message has been handed on when its confirmation is
\* the next or has been read.
ReturnedFirst ==
    /\ \A m \in Messages :
          frames = <<Answer("ack", m)>> \/ confirms = <<Answer("ack", m)>> =>
              m \in stored \/ returns # <<>>
    /\ \A a \in Callers : In(a, "confirmed") => call[a].msg \in stored \/ returns # <<>>

\* The inductive strengthening of ConfirmedIsStored and QuietBetweenCalls.
IInv == TypeOK /\ OneCall /\ Own /\ OneAnswer /\ ReturnedFirst /\ ConfirmedIsStored

-----------------------------------------------------------------------------
(* Refinement                                                               *)

\* What has become of the call with m.
Underway(m) == \E a \in Callers : ~In(a, "idle") /\ call[a].msg = m
OutcomeOf(m) ==
    IF Underway(m) THEN "underway"
    ELSE IF m \in succeeded THEN "succeeded"
    ELSE IF m > calls THEN "none" ELSE "failed"

\* A call of Publish is what VotePipeline makes of it: a message is stored during its
\* own call or after that has failed, a call that succeeds has its message stored,
\* and each call has one outcome (mq/rabbitmq.go:139-200).
Outcome == INSTANCE PublishOutcome WITH
    outcome <- [m \in Messages |-> OutcomeOf(m)]
ImplementsOutcome == Outcome!Spec
=============================================================================
