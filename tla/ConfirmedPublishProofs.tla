------------------------ MODULE ConfirmedPublishProofs ------------------------
(***************************************************************************)
(* Proofs about ConfirmedPublish, for every number of callers and calls.   *)
(***************************************************************************)
EXTENDS ConfirmedPublish, SequenceTheorems, TLAPS

-----------------------------------------------------------------------------
(* Types                                                                    *)

LEMMA InitTypeOK == Init => TypeOK
<1> SUFFICES ASSUME Init PROVE TypeOK
  OBVIOUS
<1>1. calls \in 0..MaxCalls
  BY CallersAssumption DEF Init
<1> QED
  BY <1>1 DEF Init, TypeOK, Idle, Messages

\* Where a call may go, the new value of `call` has its type.
LEMMA CallType ==
    ASSUME TypeOK, NEW a \in Callers
    PROVE  /\ call[a] \in {Idle} \cup Publishing
           /\ call[a].phase # "idle" => call[a] \in Publishing /\ call[a].msg \in Messages
           /\ End(a) => /\ holder' \in Callers \cup {NoCaller}
                        /\ call' \in [Callers -> {Idle} \cup Publishing]
           /\ \A p \in {"open", "send", "wait", "confirmed"} :
                 call[a].phase # "idle" /\ GoTo(a, p) => call' \in [Callers -> {Idle} \cup Publishing]
<1>1. call[a] \in {Idle} \cup Publishing
  BY DEF TypeOK
<1>2. call[a].phase # "idle" => call[a] \in Publishing /\ call[a].msg \in Messages
  BY <1>1 DEF Idle, Publishing
<1>3. End(a) => /\ holder' \in Callers \cup {NoCaller}
                /\ call' \in [Callers -> {Idle} \cup Publishing]
  BY DEF End, TypeOK
<1>4. ASSUME NEW p \in {"open", "send", "wait", "confirmed"}, call[a].phase # "idle", GoTo(a, p)
      PROVE  call' \in [Callers -> {Idle} \cup Publishing]
  <2>1. [call[a] EXCEPT !.phase = p] \in Publishing
    BY <1>2, <1>4 DEF Publishing
  <2> QED
    BY <1>4, <2>1 DEF GoTo, TypeOK
<1> QED
  BY <1>1, <1>2, <1>3, <1>4

\* What the broker may send.
LEMMA AnswerType ==
    ASSUME NEW m \in Messages
    PROVE  /\ \A k \in {"return", "ack", "nack"} : Answer(k, m) \in FrameType
           /\ <<Answer("return", m), Answer("ack", m)>> \in Seq(FrameType)
BY DEF Answer, FrameType

LEMMA AppendType ==
    ASSUME NEW s \in Seq(FrameType), NEW f \in FrameType PROVE Append(s, f) \in Seq(FrameType)
  OBVIOUS

LEMMA NoFrames == <<>> \in Seq(FrameType) /\ Len(<<>>) <= 1
  OBVIOUS

\* A new channel and a dropped one are empty.
ChannelTypes ==
    /\ channel \in {"none", "open", "closed"}
    /\ wire \subseteq Messages /\ frames \in Seq(FrameType)
    /\ returns \in Seq(FrameType) /\ Len(returns) <= 1
    /\ confirms \in Seq(FrameType) /\ Len(confirms) <= 1

LEMMA EmptyChannelTypes == Drop \/ NewChannel => ChannelTypes'
  BY NoFrames DEF Drop, NewChannel, ChannelTypes

LEMMA TypeOKStep == TypeOK /\ [Next]_vars => TypeOK'
<1> SUFFICES ASSUME TypeOK, [Next]_vars PROVE TypeOK'
  OBVIOUS
<1> USE DEF In, Fail
<1>1. ASSUME NEW a \in Callers, Publish(a) PROVE TypeOK'
  <2>1. calls + 1 \in Messages /\ calls' \in 0..MaxCalls
    BY <1>1, CallersAssumption DEF Publish, TypeOK, Messages
  <2>2. [phase |-> "open", msg |-> calls + 1] \in Publishing
    BY <2>1 DEF Publishing
  <2>3. call' \in [Callers -> {Idle} \cup Publishing] /\ holder' \in Callers \cup {NoCaller}
    BY <1>1, <2>2 DEF Publish, TypeOK
  <2> QED
    BY <1>1, <2>1, <2>3 DEF Publish, TypeOK, channelVars
<1>2. ASSUME NEW a \in Callers, OpenChannel(a) PROVE TypeOK'
  <2>1. call' \in [Callers -> {Idle} \cup Publishing]
    BY <1>2, CallType DEF OpenChannel
  <2>2. ChannelTypes'
    BY <1>2, EmptyChannelTypes DEF OpenChannel, TypeOK, ChannelTypes, channelVars
  <2> QED
    BY <1>2, <2>1, <2>2 DEF OpenChannel, ChannelTypes, TypeOK
<1>3. ASSUME NEW a \in Callers, OpenFails(a) PROVE TypeOK'
  BY <1>3, CallType DEF OpenFails, TypeOK, channelVars
<1>4. ASSUME NEW a \in Callers, Send(a) PROVE TypeOK'
  <2>1. call[a].msg \in Messages /\ call' \in [Callers -> {Idle} \cup Publishing]
    BY <1>4, CallType DEF Send
  <2> QED
    BY <1>4, <2>1 DEF Send, TypeOK
<1>5. ASSUME NEW a \in Callers, SendFails(a) PROVE TypeOK'
  <2>1. call[a].msg \in Messages
    BY <1>5, CallType DEF SendFails
  <2> QED
    BY <1>5, <2>1, CallType, EmptyChannelTypes DEF SendFails, ChannelTypes, TypeOK
<1>6. ASSUME NEW a \in Callers, TakeReturn(a) \/ TakeNack(a) \/ TimeOut(a) PROVE TypeOK'
  BY <1>6, CallType, EmptyChannelTypes
     DEF TakeReturn, TakeNack, TimeOut, GiveUp, Invalidate, ChannelTypes, TypeOK
<1>7. ASSUME NEW a \in Callers, TakeAck(a) PROVE TypeOK'
  <2>1. call' \in [Callers -> {Idle} \cup Publishing]
    BY <1>7, CallType DEF TakeAck
  <2> QED
    BY <1>7, <2>1, NoFrames DEF TakeAck, TypeOK
<1>8. ASSUME NEW a \in Callers, Confirmed(a) PROVE TypeOK'
  <2>1. call[a].msg \in Messages
    BY <1>8, CallType DEF Confirmed
  <2> QED
    BY <1>8, <2>1, CallType, EmptyChannelTypes
       DEF Confirmed, Invalidate, ChannelTypes, TypeOK, channelVars
<1>9. ASSUME Handle PROVE TypeOK'
  <2>1. PICK m \in wire :
          /\ wire' = wire \ {m}
          /\ \/ stored' = stored \cup {m} /\ frames' = Append(frames, Answer("ack", m))
             \/ /\ frames' = frames \o <<Answer("return", m), Answer("ack", m)>>
                /\ UNCHANGED stored
             \/ frames' = Append(frames, Answer("nack", m)) /\ UNCHANGED stored
    BY <1>9 DEF Handle
  <2>2. m \in Messages
    BY DEF TypeOK
  <2>3. frames' \in Seq(FrameType)
    <3>1. \A k \in {"return", "ack", "nack"} : Append(frames, Answer(k, m)) \in Seq(FrameType)
      BY <2>2, AnswerType, AppendType DEF TypeOK
    <3>2. frames \o <<Answer("return", m), Answer("ack", m)>> \in Seq(FrameType)
      BY <2>2, AnswerType, ConcatProperties DEF TypeOK
    <3> QED
      BY <2>1, <3>1, <3>2
  <2> QED
    BY <1>9, <2>1, <2>2, <2>3 DEF Handle, TypeOK
<1>10. ASSUME HandleAdrift PROVE TypeOK'
  BY <1>10 DEF HandleAdrift, TypeOK, channelVars
<1>11. ASSUME ReadReturn \/ ReadConfirm PROVE TypeOK'
  <2>1. frames # <<>> /\ frames \in Seq(FrameType)
    BY <1>11 DEF ReadReturn, ReadConfirm, TypeOK
  <2>2. Head(frames) \in FrameType /\ Tail(frames) \in Seq(FrameType)
    BY <2>1
  <2>3. <<Head(frames)>> \in Seq(FrameType) /\ Len(<<Head(frames)>>) <= 1
    BY <2>2
  <2> QED
    BY <1>11, <2>2, <2>3 DEF ReadReturn, ReadConfirm, TypeOK
<1>12. ASSUME CloseChannel PROVE TypeOK'
  BY <1>12, NoFrames DEF CloseChannel, TypeOK
<1>13. ASSUME UNCHANGED vars PROVE TypeOK'
  BY <1>13 DEF vars, channelVars, TypeOK
<1> QED
  BY <1>1, <1>2, <1>3, <1>4, <1>5, <1>6, <1>7, <1>8, <1>9, <1>10, <1>11, <1>12, <1>13
     DEF Next, CallStep

-----------------------------------------------------------------------------
(* One call at a time                                                       *)

LEMMA OneCallStep == TypeOK /\ OneCall /\ [Next]_vars => OneCall'
<1> SUFFICES ASSUME TypeOK, OneCall, [Next]_vars PROVE OneCall'
  OBVIOUS
<1> USE CallersAssumption DEF OneCall, In
<1>1. ASSUME NEW a \in Callers, Publish(a) PROVE OneCall'
  BY <1>1 DEF Publish, MutexFree, TypeOK
<1>2. ASSUME NEW a \in Callers, NEW p \in {"send", "wait", "confirmed"},
             call[a].phase # "idle", GoTo(a, p), UNCHANGED holder
      PROVE  OneCall'
  <2>1. /\ call'[a].phase = p
        /\ \A b \in Callers \ {a} : call'[b] = call[b]
    BY <1>2, CallType DEF GoTo, TypeOK, Idle, Publishing
  <2> QED
    BY <1>2, <2>1
<1>3. ASSUME NEW a \in Callers, call[a].phase # "idle", End(a) PROVE OneCall'
  BY <1>3 DEF End, Idle, TypeOK
<1>4. ASSUME UNCHANGED <<holder, call>> PROVE OneCall'
  BY <1>4
<1>5. ASSUME NEW a \in Callers, CallStep(a) PROVE OneCall'
  BY <1>2, <1>3, <1>5
     DEF CallStep, OpenChannel, OpenFails, Send, SendFails, TakeReturn, TakeAck,
         TakeNack, TimeOut, Confirmed, Fail
<1> QED
  BY <1>1, <1>4, <1>5
     DEF Next, vars, Handle, HandleAdrift, ReadReturn, ReadConfirm, CloseChannel

\* Before its message is sent, a caller finds nothing on the channel; nobody
\* outside a call does either.
LEMMA NothingOnChannel ==
    ASSUME OneCall, Own,
           holder = NoCaller \/ \E a \in Callers : In(a, "open") \/ In(a, "send")
    PROVE  OnChannel = {}
BY CallersAssumption DEF OneCall, Own, In

LEMMA NoMessages ==
    ASSUME NEW s \in Seq(FrameType)
    PROVE  {s[i].msg : i \in DOMAIN s} = {} <=> s = <<>>
<1>1. ASSUME s # <<>> PROVE s[1].msg \in {s[i].msg : i \in DOMAIN s}
  <2>1. 1 \in DOMAIN s
    BY <1>1
  <2> QED
    BY <2>1
<1>2. ASSUME s = <<>> PROVE DOMAIN s = {}
  BY <1>2
<1> QED
  BY <1>1, <1>2

LEMMA EmptyChannel ==
    ASSUME TypeOK
    PROVE  OnChannel = {} <=> wire = {} /\ frames = <<>> /\ returns = <<>> /\ confirms = <<>>
<1>1. frames \in Seq(FrameType) /\ returns \in Seq(FrameType) /\ confirms \in Seq(FrameType)
  BY DEF TypeOK
<1> QED
  BY <1>1, NoMessages DEF OnChannel

LEMMA EmptiedChannel == Drop \/ NewChannel => OnChannel' = {}
BY DEF Drop, NewChannel, OnChannel

-----------------------------------------------------------------------------
(* What happens to an answer                                                *)

\* All that is on the channel is the one message of the call in progress.
LEMMA OneMessage ==
    ASSUME OneCall, Own, NEW m \in OnChannel, NEW n \in OnChannel PROVE m = n
BY DEF OneCall, Own, In

LEMMA HandleCases ==
    ASSUME TypeOK, OneCall, Own, OneAnswer, Handle
    PROVE  \E m \in Messages :
        /\ wire = {m} /\ wire' = {} /\ frames = <<>> /\ confirms = <<>>
        /\ \/ stored' = stored \cup {m} /\ frames' = <<Answer("ack", m)>>
           \/ stored' = stored /\ frames' = <<Answer("return", m), Answer("ack", m)>>
           \/ stored' = stored /\ frames' = <<Answer("nack", m)>>
<1>1. PICK m \in wire :
        /\ wire' = wire \ {m}
        /\ \/ stored' = stored \cup {m} /\ frames' = Append(frames, Answer("ack", m))
           \/ /\ frames' = frames \o <<Answer("return", m), Answer("ack", m)>>
              /\ UNCHANGED stored
           \/ frames' = Append(frames, Answer("nack", m)) /\ UNCHANGED stored
  BY DEF Handle
<1>2. m \in Messages
  BY DEF TypeOK
<1>3. wire = {m} /\ wire' = {}
  BY <1>1, OneMessage DEF OnChannel
<1>4. frames = <<>> /\ confirms = <<>>
  BY <1>3 DEF OneAnswer
<1>5. \A k : Append(<<>>, Answer(k, m)) = <<Answer(k, m)>>
  OBVIOUS
<1>6. <<>> \o <<Answer("return", m), Answer("ack", m)>> = <<Answer("return", m), Answer("ack", m)>>
  BY <1>2, AnswerType, ConcatEmptySeq
<1> QED
  BY <1>1, <1>2, <1>3, <1>4, <1>5, <1>6

LEMMA AnswerKind == \A k, m : Answer(k, m).kind = k /\ Answer(k, m).msg = m
BY DEF Answer

LEMMA ReadReturnCases ==
    ASSUME OneAnswer, ReadReturn
    PROVE  \E m \in Messages :
        /\ frames = <<Answer("return", m), Answer("ack", m)>> /\ frames' = <<Answer("ack", m)>>
        /\ returns' = <<Answer("return", m)>> /\ confirms = <<>>
<1>1. frames # <<>> /\ Head(frames).kind = "return" /\ confirms = <<>>
  BY DEF OneAnswer, ReadReturn
<1>2. \A f : Head(<<f>>) = f
  OBVIOUS
<1>3. \A f, g : Head(<<f, g>>) = f /\ Tail(<<f, g>>) = <<g>>
  OBVIOUS
<1>4. PICK m \in Messages : frames = <<Answer("return", m), Answer("ack", m)>>
  BY <1>1, <1>2, AnswerKind DEF OneAnswer
<1> QED
  BY <1>1, <1>3, <1>4 DEF ReadReturn

LEMMA ReadConfirmCases ==
    ASSUME OneAnswer, ReadConfirm
    PROVE  \E m \in Messages, k \in {"ack", "nack"} :
        frames = <<Answer(k, m)>> /\ frames' = <<>> /\ confirms' = <<Answer(k, m)>>
<1>1. frames # <<>> /\ Head(frames).kind # "return"
  BY DEF ReadConfirm
<1>2. \A f : Head(<<f>>) = f /\ Tail(<<f>>) = <<>>
  OBVIOUS
<1>3. \A f, g : Head(<<f, g>>) = f
  OBVIOUS
<1>4. PICK m \in Messages, k \in {"ack", "nack"} : frames = <<Answer(k, m)>>
  BY <1>1, <1>3, AnswerKind DEF OneAnswer
<1> QED
  BY <1>2, <1>4 DEF ReadConfirm

\* The messages of short sequences.
LEMMA MessagesOf ==
    ASSUME NEW f, NEW g
    PROVE  /\ {<<>>[i].msg : i \in DOMAIN <<>>} = {}
           /\ {<<f>>[i].msg : i \in DOMAIN <<f>>} = {f.msg}
           /\ {<<f, g>>[i].msg : i \in DOMAIN <<f, g>>} = {f.msg, g.msg}
<1>1. {<<>>[i].msg : i \in DOMAIN <<>>} = {}
  OBVIOUS
<1>2. DOMAIN <<f>> = {1} /\ <<f>>[1] = f
  OBVIOUS
<1>3. DOMAIN <<f, g>> = {1, 2} /\ <<f, g>>[1] = f /\ <<f, g>>[2] = g
  OBVIOUS
<1> QED
  BY <1>1, <1>2, <1>3

-----------------------------------------------------------------------------
(* What is on the channel belongs to the call in progress                   *)

LEMMA OwnStep == TypeOK /\ OneCall /\ Own /\ OneAnswer /\ [Next]_vars => Own'
<1> SUFFICES ASSUME TypeOK, OneCall, Own, OneAnswer, [Next]_vars PROVE Own'
  OBVIOUS
<1>1. ASSUME OnChannel' = {} PROVE Own'
  BY <1>1 DEF Own
<1>2. ASSUME OnChannel' \subseteq OnChannel, UNCHANGED call PROVE Own'
  BY <1>2 DEF Own
<1>3. ASSUME NEW a \in Callers, Publish(a) PROVE Own'
  <2>1. OnChannel = {}
    BY <1>3, NothingOnChannel DEF Publish, MutexFree
  <2> QED
    BY <1>1, <1>3, <2>1 DEF Publish, channelVars, OnChannel
<1>4. ASSUME NEW a \in Callers, OpenChannel(a) \/ OpenFails(a) PROVE Own'
  <2>1. OnChannel = {}
    BY <1>4, NothingOnChannel DEF OpenChannel, OpenFails
  <2>2. UNCHANGED channelVars \/ NewChannel
    BY <1>4 DEF OpenChannel, OpenFails
  <2>3. UNCHANGED channelVars => OnChannel' = {}
    BY <2>1 DEF channelVars, OnChannel
  <2> QED
    BY <1>1, <2>2, <2>3, EmptiedChannel
<1>5. ASSUME NEW a \in Callers, Send(a) PROVE Own'
  <2>1. wire = {} /\ frames = <<>> /\ returns = <<>> /\ confirms = <<>>
    BY <1>5, NothingOnChannel, EmptyChannel DEF Send
  <2>2. OnChannel' = {call[a].msg}
    BY <1>5, <2>1, MessagesOf DEF Send, OnChannel
  <2>3. call'[a].phase = "wait" /\ call'[a].msg = call[a].msg
    BY <1>5, CallType DEF Send, GoTo, TypeOK, In, Publishing
  <2> QED
    BY <2>2, <2>3 DEF Own
<1>6. ASSUME NEW a \in Callers, SendFails(a) \/ TakeReturn(a) \/ TakeNack(a) \/ TimeOut(a)
      PROVE  Own'
  BY <1>1, <1>6, EmptiedChannel
     DEF SendFails, TakeReturn, TakeNack, TimeOut, GiveUp, Invalidate
<1>7. ASSUME NEW a \in Callers, TakeAck(a) PROVE Own'
  <2>1. OnChannel' \subseteq OnChannel
    BY <1>7, MessagesOf DEF TakeAck, OnChannel
  <2>2. /\ call'[a].phase = "confirmed" /\ call'[a].msg = call[a].msg
        /\ \A b \in Callers \ {a} : call'[b] = call[b]
    BY <1>7, CallType DEF TakeAck, GoTo, TypeOK, In, Publishing
  <2> QED
    BY <2>1, <2>2 DEF Own
<1>8. ASSUME NEW a \in Callers, Confirmed(a) PROVE Own'
  <2>1. CASE Returned
    BY <1>1, <1>8, <2>1, EmptiedChannel DEF Confirmed, Invalidate
  <2>2. CASE ~Returned
    <3>1. OnChannel = {}
      BY <1>8, <2>2, EmptyChannel DEF Confirmed, Returned, OneAnswer
    <3> QED
      BY <1>1, <1>8, <2>2, <3>1 DEF Confirmed, channelVars, OnChannel
  <2> QED
    BY <2>1, <2>2
<1>9. ASSUME Handle PROVE Own'
  <2>1. PICK m \in Messages :
          /\ wire = {m} /\ wire' = {}
          /\ \/ frames' = <<Answer("ack", m)>>
             \/ frames' = <<Answer("return", m), Answer("ack", m)>>
             \/ frames' = <<Answer("nack", m)>>
    BY <1>9, HandleCases
  <2>2. {frames'[i].msg : i \in DOMAIN frames'} = {m}
    BY <2>1, MessagesOf, AnswerKind
  <2> QED
    BY <1>2, <1>9, <2>1, <2>2 DEF Handle, OnChannel
<1>10. ASSUME ReadReturn PROVE Own'
  <2>1. PICK m \in Messages :
          /\ frames = <<Answer("return", m), Answer("ack", m)>> /\ frames' = <<Answer("ack", m)>>
          /\ returns' = <<Answer("return", m)>>
    BY <1>10, ReadReturnCases
  <2>2. /\ {frames[i].msg : i \in DOMAIN frames} = {m}
        /\ {frames'[i].msg : i \in DOMAIN frames'} = {m}
        /\ {returns'[i].msg : i \in DOMAIN returns'} = {m}
    BY <2>1, MessagesOf, AnswerKind
  <2> QED
    BY <1>2, <1>10, <2>2 DEF ReadReturn, OnChannel
<1>11. ASSUME ReadConfirm PROVE Own'
  <2>1. PICK m \in Messages, k \in {"ack", "nack"} :
          frames = <<Answer(k, m)>> /\ frames' = <<>> /\ confirms' = <<Answer(k, m)>>
    BY <1>11, ReadConfirmCases
  <2>2. /\ {frames[i].msg : i \in DOMAIN frames} = {m}
        /\ {frames'[i].msg : i \in DOMAIN frames'} = {}
        /\ {confirms'[i].msg : i \in DOMAIN confirms'} = {m}
    BY <2>1, MessagesOf, AnswerKind
  <2> QED
    BY <1>2, <1>11, <2>2 DEF ReadConfirm, OnChannel
<1>12. ASSUME CloseChannel PROVE Own'
  BY <1>2, <1>12, MessagesOf DEF CloseChannel, OnChannel
<1>13. ASSUME HandleAdrift \/ UNCHANGED vars PROVE Own'
  BY <1>2, <1>13 DEF HandleAdrift, vars, channelVars, OnChannel
<1> QED
  BY <1>3, <1>4, <1>5, <1>6, <1>7, <1>8, <1>9, <1>10, <1>11, <1>12, <1>13 DEF Next, CallStep

-----------------------------------------------------------------------------
(* One answer, the return ahead of the confirmation                         *)

LEMMA ShortSequences ==
    ASSUME NEW f, NEW g, NEW h
    PROVE  <<f>> # <<>> /\ <<f, g>> # <<>> /\ <<f, g>> # <<h>> /\ (<<f>> = <<g>> => f = g)
<1>1. Len(<<f>>) = 1 /\ Len(<<f, g>>) = 2 /\ Len(<<h>>) = 1 /\ Len(<<>>) = 0
  OBVIOUS
<1>2. <<f>>[1] = f /\ <<g>>[1] = g
  OBVIOUS
<1> QED
  BY <1>1, <1>2

\* While a caller is in its call, nobody else has one.
LEMMA OnlyCaller ==
    ASSUME OneCall, NEW a \in Callers, ~In(a, "idle"), NEW b \in Callers, b # a
    PROVE  In(b, "idle")
BY DEF OneCall

\* Most steps leave no caller with a confirmation.
LEMMA NotConfirmed ==
    ASSUME TypeOK, OneCall, NEW a \in Callers,
           \/ Publish(a) \/ OpenChannel(a) \/ Send(a)
           \/ ~In(a, "idle") /\ End(a)
    PROVE  \A b \in Callers : call'[b].phase # "confirmed"
<1> USE DEF In
<1>1. CASE Publish(a)
  BY <1>1, CallersAssumption DEF Publish, OneCall, TypeOK, MutexFree
<1>2. CASE OpenChannel(a)
  <2>1. call'[a].phase = "send"
    BY <1>2, CallType DEF OpenChannel, GoTo, TypeOK, Publishing
  <2> QED
    BY <1>2, <2>1, OnlyCaller DEF OpenChannel, GoTo, TypeOK
<1>3. CASE Send(a)
  <2>1. call'[a].phase = "wait"
    BY <1>3, CallType DEF Send, GoTo, TypeOK, Publishing
  <2> QED
    BY <1>3, <2>1, OnlyCaller DEF Send, GoTo, TypeOK
<1>4. CASE ~In(a, "idle") /\ End(a)
  BY <1>4, OnlyCaller DEF End, Idle, TypeOK
<1> QED
  BY <1>1, <1>2, <1>3, <1>4

\* A positive confirmation is about the message of the caller that waits.
LEMMA AckIsOwn ==
    ASSUME TypeOK, OneCall, Own, NEW a \in Callers, TakeAck(a)
    PROVE  confirms = <<Answer("ack", call[a].msg)>> /\ call[a].msg \in Messages
<1>1. confirms \in Seq(FrameType) /\ Len(confirms) <= 1 /\ confirms # <<>>
  BY DEF TypeOK, TakeAck
<1>2. Len(confirms) = 1 /\ confirms[1] \in FrameType /\ Head(confirms) = confirms[1]
  <2>1. Len(confirms) \in Nat /\ Len(confirms) # 0
    BY <1>1, EmptySeq, LenProperties
  <2>5. \A n \in Nat : n # 0 /\ n <= 1 => n = 1
    OBVIOUS
  <2>2. Len(confirms) = 1
    BY <1>1, <2>1, <2>5, Zenon
  <2>3. confirms[1] \in FrameType
    BY <1>1, <2>2
  <2>4. Head(confirms) = confirms[1]
    BY <1>1
  <2> QED
    BY <2>2, <2>3, <2>4
<1>3. confirms = <<confirms[1]>>
  BY <1>1, <1>2, SeqEqual
<1>4. confirms[1].msg \in OnChannel
  BY <1>2 DEF OnChannel
<1>5. confirms[1].msg = call[a].msg
  BY <1>4, OnlyCaller DEF Own, TakeAck, In
<1>6. confirms[1] = Answer("ack", call[a].msg) /\ call[a].msg \in Messages
  BY <1>2, <1>5 DEF TakeAck, FrameType, Answer
<1> QED
  BY <1>3, <1>6

LEMMA AnswersStep ==
    TypeOK /\ OneCall /\ Own /\ OneAnswer /\ ReturnedFirst /\ [Next]_vars
        => OneAnswer' /\ ReturnedFirst'
<1> SUFFICES ASSUME TypeOK, OneCall, Own, OneAnswer, ReturnedFirst, [Next]_vars
             PROVE  OneAnswer' /\ ReturnedFirst'
  OBVIOUS
<1>1. ASSUME \A b \in Callers : call'[b].phase # "confirmed", frames' = <<>>, confirms' = <<>>
      PROVE  OneAnswer' /\ ReturnedFirst'
  BY <1>1, ShortSequences DEF OneAnswer, ReturnedFirst, In
<1>2. ASSUME UNCHANGED <<call, returns, confirms, frames, wire>>, stored \subseteq stored'
      PROVE  OneAnswer' /\ ReturnedFirst'
  BY <1>2 DEF OneAnswer, ReturnedFirst, In
<1>3. ASSUME holder = NoCaller \/ \E a \in Callers : In(a, "open") \/ In(a, "send"),
             UNCHANGED <<frames, confirms>>
      PROVE  frames' = <<>> /\ confirms' = <<>>
  BY <1>3, NothingOnChannel, EmptyChannel
<1>4. ASSUME NEW a \in Callers, Publish(a) PROVE OneAnswer' /\ ReturnedFirst'
  BY <1>1, <1>3, <1>4, NotConfirmed DEF Publish, MutexFree, channelVars
<1>5. ASSUME NEW a \in Callers, OpenChannel(a) \/ OpenFails(a) \/ Send(a)
      PROVE  OneAnswer' /\ ReturnedFirst'
  <2>1. frames' = <<>> /\ confirms' = <<>>
    BY <1>3, <1>5 DEF OpenChannel, OpenFails, Send, NewChannel, channelVars
  <2>2. \A b \in Callers : call'[b].phase # "confirmed"
    BY <1>5, NotConfirmed DEF OpenFails, Fail, In
  <2> QED
    BY <1>1, <2>1, <2>2
<1>6. ASSUME NEW a \in Callers, ~In(a, "idle"), End(a), Drop PROVE OneAnswer' /\ ReturnedFirst'
  BY <1>1, <1>6, NotConfirmed DEF Drop
<1>7. ASSUME NEW a \in Callers, SendFails(a) \/ TakeReturn(a) \/ TakeNack(a) \/ TimeOut(a)
      PROVE  OneAnswer' /\ ReturnedFirst'
  BY <1>6, <1>7 DEF SendFails, TakeReturn, TakeNack, TimeOut, GiveUp, Invalidate, Fail, In
<1>8. ASSUME NEW a \in Callers, TakeAck(a) PROVE OneAnswer' /\ ReturnedFirst'
  <2>1. confirms = <<Answer("ack", call[a].msg)>> /\ call[a].msg \in Messages
    BY <1>8, AckIsOwn
  <2>2. frames = <<>> /\ wire = {} /\ (call[a].msg \in stored \/ returns # <<>>)
    BY <2>1, ShortSequences DEF OneAnswer, ReturnedFirst
  <2>3. /\ call'[a].msg = call[a].msg
        /\ \A b \in Callers \ {a} : call'[b].phase # "confirmed"
    BY <1>8, CallType, OnlyCaller DEF TakeAck, GoTo, TypeOK, In, Publishing
  <2> QED
    BY <1>8, <2>2, <2>3, ShortSequences DEF TakeAck, OneAnswer, ReturnedFirst, In
<1>9. ASSUME NEW a \in Callers, Confirmed(a) PROVE OneAnswer' /\ ReturnedFirst'
  <2>1. CASE Returned
    BY <1>6, <1>9, <2>1 DEF Confirmed, Invalidate, Fail, In
  <2>2. CASE ~Returned
    <3>1. frames' = <<>> /\ confirms' = <<>>
      BY <1>9, <2>2 DEF Confirmed, channelVars, OneAnswer
    <3> QED
      BY <1>1, <1>9, <2>2, <3>1, NotConfirmed DEF Confirmed, In
  <2> QED
    BY <2>1, <2>2
<1>10. ASSUME Handle PROVE OneAnswer' /\ ReturnedFirst'
  <2>1. PICK m \in Messages :
          /\ wire = {m} /\ wire' = {} /\ frames = <<>> /\ confirms = <<>>
          /\ \/ stored' = stored \cup {m} /\ frames' = <<Answer("ack", m)>>
             \/ stored' = stored /\ frames' = <<Answer("return", m), Answer("ack", m)>>
             \/ stored' = stored /\ frames' = <<Answer("nack", m)>>
    BY <1>10, HandleCases
  <2>2. UNCHANGED <<call, returns, confirms>>
    BY <1>10 DEF Handle
  <2>3. \A b \in Callers : ~In(b, "confirmed")
    BY <2>1 DEF OneAnswer
  <2>4. OneAnswer'
    BY <2>1, <2>2, <2>3 DEF OneAnswer, In
  <2>5. \A n \in Messages : frames' = <<Answer("ack", n)>> => n \in stored'
    BY <2>1, ShortSequences, AnswerKind
  <2>6. ReturnedFirst'
    BY <2>1, <2>2, <2>3, <2>5, ShortSequences DEF ReturnedFirst, In
  <2> QED
    BY <2>4, <2>6
<1>11. ASSUME ReadReturn PROVE OneAnswer' /\ ReturnedFirst'
  <2>1. PICK m \in Messages :
          /\ frames = <<Answer("return", m), Answer("ack", m)>> /\ frames' = <<Answer("ack", m)>>
          /\ returns' = <<Answer("return", m)>> /\ confirms = <<>>
    BY <1>11, ReadReturnCases
  <2>2. UNCHANGED <<call, wire, confirms>> /\ frames # <<>> /\ returns' # <<>>
    BY <1>11, <2>1, ShortSequences DEF ReadReturn
  <2>3. wire = {} /\ \A b \in Callers : ~In(b, "confirmed")
    BY <2>2 DEF OneAnswer
  <2> QED
    BY <2>1, <2>2, <2>3 DEF OneAnswer, ReturnedFirst, In
<1>12. ASSUME ReadConfirm PROVE OneAnswer' /\ ReturnedFirst'
  <2>1. PICK m \in Messages, k \in {"ack", "nack"} :
          frames = <<Answer(k, m)>> /\ frames' = <<>> /\ confirms' = <<Answer(k, m)>>
    BY <1>12, ReadConfirmCases
  <2>2. UNCHANGED <<call, wire, returns, stored>> /\ frames # <<>>
    BY <1>12, <2>1, ShortSequences DEF ReadConfirm
  <2>3. wire = {} /\ \A b \in Callers : ~In(b, "confirmed")
    BY <2>2 DEF OneAnswer
  <2>4. OneAnswer'
    BY <2>1, <2>2, <2>3 DEF OneAnswer, In
  <2>5. ReturnedFirst'
    BY <2>1, <2>2, <2>3, ShortSequences DEF ReturnedFirst, In
  <2> QED
    BY <2>4, <2>5
<1>13. ASSUME CloseChannel PROVE OneAnswer' /\ ReturnedFirst'
  BY <1>13, ShortSequences DEF CloseChannel, OneAnswer, ReturnedFirst, In
<1>14. ASSUME HandleAdrift \/ UNCHANGED vars PROVE OneAnswer' /\ ReturnedFirst'
  BY <1>2, <1>14 DEF HandleAdrift, vars, channelVars
<1> QED
  BY <1>4, <1>5, <1>7, <1>8, <1>9, <1>10, <1>11, <1>12, <1>13, <1>14 DEF Next, CallStep

-----------------------------------------------------------------------------
(* The invariant and the theorems                                           *)

LEMMA ConfirmedIsStoredStep ==
    TypeOK /\ ReturnedFirst /\ ConfirmedIsStored /\ [Next]_vars => ConfirmedIsStored'
<1> SUFFICES ASSUME TypeOK, ReturnedFirst, ConfirmedIsStored, [Next]_vars
             PROVE  ConfirmedIsStored'
  OBVIOUS
<1>1. stored \subseteq stored'
  BY DEF Next, CallStep, vars, channelVars, Publish, OpenChannel, OpenFails, Send, SendFails,
         TakeReturn, TakeAck, TakeNack, TimeOut, Confirmed, Handle, HandleAdrift, ReadReturn,
         ReadConfirm, CloseChannel
<1>2. ASSUME NEW a \in Callers, Confirmed(a) PROVE ConfirmedIsStored'
  BY <1>1, <1>2 DEF Confirmed, Returned, Fail, ReturnedFirst, ConfirmedIsStored
<1>3. ASSUME UNCHANGED succeeded PROVE ConfirmedIsStored'
  BY <1>1, <1>3 DEF ConfirmedIsStored
<1> QED
  BY <1>2, <1>3
     DEF Next, CallStep, vars, Publish, OpenChannel, OpenFails, Send, SendFails, TakeReturn,
         TakeAck, TakeNack, TimeOut, Fail, Handle, HandleAdrift, ReadReturn, ReadConfirm,
         CloseChannel

LEMMA InitIInv == Init => IInv
<1> SUFFICES ASSUME Init PROVE IInv
  OBVIOUS
<1>1. TypeOK
  BY InitTypeOK
<1>2. OnChannel = {} /\ \A a \in Callers : In(a, "idle")
  BY <1>1, EmptyChannel DEF Init, In, Idle
<1> QED
  BY <1>1, <1>2, CallersAssumption, ShortSequences
     DEF Init, IInv, OneCall, Own, OneAnswer, ReturnedFirst, ConfirmedIsStored, In

\* The inductive invariant holds in every reachable state.
THEOREM Invariance == Spec => []IInv
<1>1. IInv /\ [Next]_vars => IInv'
  BY TypeOKStep, OneCallStep, OwnStep, AnswersStep, ConfirmedIsStoredStep DEF IInv
<1> QED
  BY <1>1, InitIInv, PTL DEF Spec

\* A call of Client.Publish that returns nil has put its message into a queue
\* (mq/rabbitmq.go:139), for any number of callers and calls.
THEOREM PublishedIsStored == Spec => []ConfirmedIsStored
<1>1. IInv => ConfirmedIsStored
  BY DEF IInv
<1> QED
  BY <1>1, Invariance, PTL

\* Between two calls there is nothing on a channel that is used again, neither an
\* answer that the next call could take for its own nor a message.
THEOREM ChannelIsQuiet == Spec => []QuietBetweenCalls
<1>1. IInv => QuietBetweenCalls
  BY NothingOnChannel, EmptyChannel DEF IInv, QuietBetweenCalls
<1> QED
  BY <1>1, Invariance, PTL

-----------------------------------------------------------------------------
(* Refinement of PublishOutcome                                             *)

\* The call in progress is the newest and has no outcome; nothing that was never
\* published succeeds, or is on its way to the broker.
Numbered ==
    /\ \A a \in Callers : ~In(a, "idle") => call[a].msg = calls /\ calls \notin succeeded
    /\ \A m \in wire \cup adrift \cup succeeded : m <= calls

LEMMA NumberedInit == Init => Numbered
  BY DEF Init, Numbered, In, Idle

\* A call that ends leaves every caller idle.
LEMMA Ended ==
    ASSUME TypeOK, OneCall, NEW a \in Callers, ~In(a, "idle"), End(a)
    PROVE  \A b \in Callers : In(b, "idle")'
<1>1. \A b \in Callers : b # a => In(b, "idle")
  BY DEF OneCall
<1>2. call' = [call EXCEPT ![a] = Idle]
  BY DEF End
<1> QED
  BY <1>1, <1>2 DEF In, Idle, TypeOK

\* A call that goes on is with the same message.
LEMMA Continued ==
    ASSUME TypeOK, NEW a \in Callers, ~In(a, "idle"), NEW p, p # "idle", GoTo(a, p)
    PROVE  \A b \in Callers : (In(b, "idle")' <=> In(b, "idle")) /\ call'[b].msg = call[b].msg
<1>1. call[a] \in Publishing
  BY CallType DEF In
<1>2. call' = [call EXCEPT ![a] = [call[a] EXCEPT !.phase = p]]
  BY DEF GoTo
<1>3. call'[a].phase = p /\ call'[a].msg = call[a].msg
  BY <1>1, <1>2 DEF TypeOK, Publishing
<1>4. \A b \in Callers : b # a => call'[b] = call[b]
  BY <1>2 DEF TypeOK
<1> QED
  BY <1>3, <1>4 DEF In

\* The steps of Next, as far as Outcome can tell them apart.
Goes(a) == OpenChannel(a) \/ Send(a) \/ TakeAck(a)
Fails(a) ==
    \/ OpenFails(a) \/ SendFails(a) \/ TakeReturn(a) \/ TakeNack(a) \/ TimeOut(a)
    \/ Confirmed(a) /\ Returned
Succeeds(a) == Confirmed(a) /\ ~Returned
Stores == Handle \/ HandleAdrift
Moves == ReadReturn \/ ReadConfirm \/ CloseChannel

LEMMA StepKinds ==
    Next => \/ \E a \in Callers : Publish(a) \/ Goes(a) \/ Fails(a) \/ Succeeds(a)
            \/ Stores \/ Moves
  BY DEF Next, CallStep, Goes, Fails, Succeeds, Stores, Moves

LEMMA GoesEffect ==
    ASSUME TypeOK, NEW a \in Callers, Goes(a)
    PROVE  /\ \A b \in Callers : (In(b, "idle")' <=> In(b, "idle")) /\ call'[b].msg = call[b].msg
           /\ UNCHANGED <<calls, adrift, stored, succeeded>>
           /\ wire' \subseteq wire \cup {call[a].msg} /\ ~In(a, "idle")
<1>1. ~In(a, "idle") /\ \E p \in {"send", "wait", "confirmed"} : GoTo(a, p)
  BY DEF Goes, OpenChannel, Send, TakeAck, In
<1>2. \A b \in Callers : (In(b, "idle")' <=> In(b, "idle")) /\ call'[b].msg = call[b].msg
  BY <1>1, Continued
<1>3. UNCHANGED <<calls, adrift, stored, succeeded>> /\ wire' \subseteq wire \cup {call[a].msg}
  BY DEF Goes, OpenChannel, Send, TakeAck, channelVars, NewChannel
<1> QED
  BY <1>1, <1>2, <1>3

LEMMA EndEffect ==
    ASSUME TypeOK, OneCall, NEW a \in Callers, Fails(a) \/ Succeeds(a)
    PROVE  /\ ~In(a, "idle") /\ \A b \in Callers : In(b, "idle")'
           /\ UNCHANGED <<calls, stored>>
           /\ wire' \cup adrift' \subseteq wire \cup adrift \cup {call[a].msg}
           /\ Fails(a) => UNCHANGED succeeded
           /\ Succeeds(a) => succeeded' = succeeded \cup {call[a].msg}
<1>1. ~In(a, "idle") /\ End(a)
  BY DEF Fails, Succeeds, OpenFails, SendFails, TakeReturn, TakeNack, TimeOut, Confirmed, Fail, In
<1>2. \A b \in Callers : In(b, "idle")'
  BY <1>1, Ended
<1>3. /\ UNCHANGED <<calls, stored>>
      /\ wire' \cup adrift' \subseteq wire \cup adrift \cup {call[a].msg}
  BY DEF Fails, Succeeds, OpenFails, SendFails, TakeReturn, TakeNack, TimeOut, Confirmed,
         GiveUp, Invalidate, Drop, channelVars
<1>4. /\ Fails(a) => UNCHANGED succeeded
      /\ Succeeds(a) => succeeded' = succeeded \cup {call[a].msg}
  BY DEF Fails, Succeeds, OpenFails, SendFails, TakeReturn, TakeNack, TimeOut, Confirmed, Fail
<1> QED
  BY <1>1, <1>2, <1>3, <1>4

LEMMA PublishEffect ==
    ASSUME TypeOK, OneCall, CallersAssumption, NEW a \in Callers, Publish(a)
    PROVE  /\ \A b \in Callers : In(b, "idle")
           /\ calls \in Nat /\ calls' = calls + 1 /\ calls' \in Messages
           /\ ~In(a, "idle")' /\ call'[a].msg = calls'
           /\ \A b \in Callers : b # a => In(b, "idle")'
           /\ UNCHANGED <<channelVars, adrift, stored, succeeded>>
<1>1. \A b \in Callers : In(b, "idle")
  BY DEF Publish, MutexFree, OneCall
<1>2. calls \in Nat /\ calls' = calls + 1 /\ calls' \in Messages
  BY DEF Publish, TypeOK, Messages
<1>3. call' = [call EXCEPT ![a] = [phase |-> "open", msg |-> calls + 1]]
  BY DEF Publish
<1>4. ~In(a, "idle")' /\ call'[a].msg = calls'
  BY <1>2, <1>3 DEF In, TypeOK
<1>5. \A b \in Callers : b # a => In(b, "idle")'
  BY <1>1, <1>3 DEF In, TypeOK
<1>6. UNCHANGED <<channelVars, adrift, stored, succeeded>>
  BY DEF Publish
<1> QED
  BY <1>1, <1>2, <1>4, <1>5, <1>6

LEMMA StoresEffect ==
    ASSUME Stores
    PROVE  /\ UNCHANGED <<call, calls, succeeded>>
           /\ wire' \cup adrift' \subseteq wire \cup adrift
           /\ \/ UNCHANGED stored
              \/ \E m \in wire \cup adrift : stored' = stored \cup {m}
  BY DEF Stores, Handle, HandleAdrift, channelVars

LEMMA MovesEffect ==
    ASSUME Moves
    PROVE  /\ UNCHANGED <<call, calls, stored, succeeded>>
           /\ wire' \cup adrift' \subseteq wire \cup adrift
  BY DEF Moves, ReadReturn, ReadConfirm, CloseChannel

LEMMA NumberedStep == TypeOK /\ OneCall /\ Numbered /\ [Next]_vars => Numbered'
<1> SUFFICES ASSUME TypeOK, OneCall, Numbered, [Next]_vars PROVE Numbered'
  OBVIOUS
<1>1. calls \in Nat /\ wire \cup adrift \cup succeeded \subseteq Nat
  BY DEF TypeOK, Messages
<1>2. ASSUME NEW a \in Callers, Publish(a) PROVE Numbered'
  BY <1>1, <1>2, PublishEffect, CallersAssumption DEF Numbered, channelVars
<1>3. ASSUME NEW a \in Callers, Goes(a) PROVE Numbered'
  BY <1>1, <1>3, GoesEffect DEF Numbered
<1>4. ASSUME NEW a \in Callers, Fails(a) \/ Succeeds(a) PROVE Numbered'
  BY <1>1, <1>4, EndEffect DEF Numbered
<1>5. CASE Stores
  BY <1>5, StoresEffect DEF Numbered, In
<1>6. CASE Moves
  BY <1>6, MovesEffect DEF Numbered, In
<1>7. CASE UNCHANGED vars
  BY <1>7 DEF Numbered, In, vars, channelVars
<1> QED
  BY <1>2, <1>3, <1>4, <1>5, <1>6, <1>7, StepKinds

\* What the outcome of a message depends on.
LEMMA OutcomeSame ==
    ASSUME UNCHANGED <<calls, succeeded>>, \A m \in Messages : Underway(m)' <=> Underway(m)
    PROVE  \A m \in Messages : OutcomeOf(m)' = OutcomeOf(m)
  BY DEF OutcomeOf

\* The call in progress, and it alone, is underway.
LEMMA UnderwayIsNewest ==
    ASSUME Numbered, NEW m PROVE Underway(m) => m = calls
  BY DEF Numbered, Underway

LEMMA OutcomeInit == Init => Outcome!Init
<1> SUFFICES ASSUME Init, NEW m \in Messages PROVE OutcomeOf(m) = "none"
  BY DEF Init, Outcome!Init
<1>1. ~Underway(m) /\ m \notin succeeded /\ m > calls
  BY DEF Init, Underway, In, Idle, Messages
<1> QED
  BY <1>1 DEF OutcomeOf

\* A new call begins with a new message.
LEMMA PublishBegins ==
    ASSUME TypeOK, OneCall, Numbered, CallersAssumption, NEW a \in Callers, Publish(a)
    PROVE  Outcome!Next
<1> PICK n \in Messages : n = calls + 1
  BY PublishEffect
<1>1. n \in Messages /\ calls \in Nat /\ calls' = n
  BY PublishEffect
<1>2. \A m \in Messages : ~Underway(m) /\ (Underway(m)' <=> m = n)
  BY <1>1, PublishEffect DEF Underway
<1>3. OutcomeOf(n) = "none" /\ OutcomeOf(n)' = "underway"
  <2>1. n \notin succeeded /\ n > calls
    BY <1>1 DEF Numbered
  <2> QED
    BY <1>1, <1>2, <2>1 DEF OutcomeOf
<1>4. \A m \in Messages : m # n => OutcomeOf(m)' = OutcomeOf(m)
  <2> SUFFICES ASSUME NEW m \in Messages, m # n PROVE OutcomeOf(m)' = OutcomeOf(m)
    OBVIOUS
  <2>1. (m > calls)' <=> m > calls
    BY <1>1 DEF Messages
  <2>2. UNCHANGED succeeded
    BY PublishEffect
  <2> QED
    BY <1>2, <2>1, <2>2 DEF OutcomeOf
<1>5. \A m \in Messages : OutcomeOf(m) # "underway"
  BY <1>2 DEF OutcomeOf
<1>6. UNCHANGED stored
  BY PublishEffect
<1>7. Outcome!Begin(n)
  BY <1>1, <1>3, <1>4, <1>5, <1>6 DEF Outcome!Begin, Outcome!Become
<1> QED
  BY <1>1, <1>7 DEF Outcome!Next

\* A call that goes on keeps every outcome, and so does what goes on in the library.
LEMMA GoesStutters ==
    ASSUME TypeOK, NEW a \in Callers, Goes(a) PROVE UNCHANGED Outcome!vars
<1>1. \A m \in Messages : Underway(m)' <=> Underway(m)
  BY GoesEffect DEF Underway
<1> QED
  BY <1>1, GoesEffect, OutcomeSame DEF Outcome!vars

\* A call that ends has its outcome, and no other message changes its own.
LEMMA EndDecides ==
    ASSUME TypeOK, OneCall, Numbered, NEW a \in Callers, Fails(a) \/ Succeeds(a)
    PROVE  \E n \in Messages :
              /\ n = call[a].msg /\ OutcomeOf(n) = "underway"
              /\ OutcomeOf(n)' = IF Succeeds(a) THEN "succeeded" ELSE "failed"
              /\ \A m \in Messages : m # n => OutcomeOf(m)' = OutcomeOf(m)
<1> PICK n \in Messages : n = call[a].msg
  BY EndEffect, CallType DEF In
<1>1. ~In(a, "idle") /\ n = calls /\ n \notin succeeded
  BY EndEffect DEF Numbered
<1>2. \A m \in Messages : ~Underway(m)' /\ (Underway(m) <=> m = n)
  BY <1>1, EndEffect, UnderwayIsNewest DEF Underway
<1>3. UNCHANGED calls /\ n \in Nat
  BY EndEffect DEF Messages
<1>4. ~(Fails(a) /\ Succeeds(a))
  BY DEF Fails, Succeeds, OpenFails, SendFails, TakeReturn, TakeNack, TimeOut, Confirmed, In
<1>5. succeeded' = IF Succeeds(a) THEN succeeded \cup {n} ELSE succeeded
  BY <1>4, EndEffect
<1>6. OutcomeOf(n)' = IF Succeeds(a) THEN "succeeded" ELSE "failed"
  BY <1>1, <1>2, <1>3, <1>5 DEF OutcomeOf
<1>7. \A m \in Messages : m # n => OutcomeOf(m)' = OutcomeOf(m)
  BY <1>2, <1>3, <1>5 DEF OutcomeOf
<1>8. OutcomeOf(n) = "underway"
  BY <1>2 DEF OutcomeOf
<1> QED
  BY <1>6, <1>7, <1>8

LEMMA EndIsOutcome ==
    ASSUME TypeOK, OneCall, ReturnedFirst, Numbered, NEW a \in Callers, Fails(a) \/ Succeeds(a)
    PROVE  Outcome!Next
<1> PICK n \in Messages :
       /\ n = call[a].msg /\ OutcomeOf(n) = "underway"
       /\ OutcomeOf(n)' = IF Succeeds(a) THEN "succeeded" ELSE "failed"
       /\ \A m \in Messages : m # n => OutcomeOf(m)' = OutcomeOf(m)
  BY EndDecides
<1>1. UNCHANGED stored
  BY EndEffect
<1>2. CASE Succeeds(a)
  <2>1. n \in stored
    BY <1>2 DEF Succeeds, Confirmed, Returned, ReturnedFirst
  <2>2. Outcome!Succeed(n)
    BY <1>1, <1>2, <2>1 DEF Outcome!Succeed, Outcome!Become
  <2> QED
    BY <2>2 DEF Outcome!Next
<1>3. CASE ~Succeeds(a)
  <2>1. Outcome!Fail(n)
    BY <1>1, <1>3 DEF Outcome!Fail, Outcome!Become
  <2> QED
    BY <2>1 DEF Outcome!Next
<1> QED
  BY <1>2, <1>3

\* The broker stores a message of the call in progress or of one that has failed.
LEMMA StoresIsOutcome ==
    ASSUME TypeOK, Numbered, ConfirmedIsStored, Stores
    PROVE  Outcome!Next \/ UNCHANGED Outcome!vars
<1>1. \A m \in Messages : OutcomeOf(m)' = OutcomeOf(m)
  BY StoresEffect, OutcomeSame DEF Underway, In
<1>2. CASE UNCHANGED stored
  BY <1>1, <1>2 DEF Outcome!vars
<1>3. ASSUME NEW m \in wire \cup adrift, stored' = stored \cup {m}, m \notin stored
      PROVE  Outcome!Next
  <2>1. m \in Messages /\ m <= calls /\ m \notin succeeded
    BY <1>3 DEF TypeOK, Numbered, ConfirmedIsStored
  <2>2. ~(m > calls)
    BY <2>1 DEF TypeOK, Messages
  <2>3. OutcomeOf(m) \in {"underway", "failed"}
    BY <2>1, <2>2 DEF OutcomeOf
  <2>4. Outcome!Store(m)
    BY <1>1, <1>3, <2>1, <2>3 DEF Outcome!Store
  <2> QED
    BY <2>1, <2>4 DEF Outcome!Next
<1> QED
  BY <1>2, <1>3, StoresEffect

LEMMA OutcomeStep ==
    IInv /\ Numbered /\ [Next]_vars => [Outcome!Next]_(Outcome!vars)
<1> SUFFICES ASSUME IInv, Numbered, [Next]_vars PROVE Outcome!Next \/ UNCHANGED Outcome!vars
  OBVIOUS
<1> USE DEF IInv
<1>1. ASSUME NEW a \in Callers, Publish(a) PROVE Outcome!Next
  BY <1>1, PublishBegins, CallersAssumption
<1>2. ASSUME NEW a \in Callers, Goes(a) PROVE UNCHANGED Outcome!vars
  BY <1>2, GoesStutters
<1>3. ASSUME NEW a \in Callers, Fails(a) \/ Succeeds(a) PROVE Outcome!Next
  BY <1>3, EndIsOutcome
<1>4. CASE Stores
  BY <1>4, StoresIsOutcome
<1>5. CASE Moves \/ UNCHANGED vars
  <2>1. UNCHANGED <<call, calls, stored, succeeded>>
    BY <1>5, MovesEffect DEF vars
  <2> QED
    BY <2>1, OutcomeSame DEF Outcome!vars, Underway, In
<1> QED
  BY <1>1, <1>2, <1>3, <1>4, <1>5, StepKinds

\* A call of Client.Publish has the outcomes that VotePipeline gives it, for any
\* number of callers and calls (mq/rabbitmq.go:139-200).
THEOREM Refinement == Spec => ImplementsOutcome
<1>1. Spec => []Numbered
  <2>1. IInv /\ Numbered /\ [Next]_vars => Numbered'
    BY NumberedStep DEF IInv
  <2> QED
    BY <2>1, NumberedInit, Invariance, PTL DEF Spec
<1> QED
  BY <1>1, OutcomeInit, OutcomeStep, Invariance, PTL DEF Spec, ImplementsOutcome, Outcome!Spec
=============================================================================
