--------------------------- MODULE PostCacheProofs ---------------------------
(***************************************************************************)
(* Proofs about PostCache: for any number of instances and updates, a      *)
(* stale copy is always about to be deleted unless something has failed.   *)
(***************************************************************************)
EXTENDS PostCache, TLAPS

-----------------------------------------------------------------------------
(* Types                                                                    *)

ReaderStates == {NotReading, Missed} \cup {Loaded(c) : c \in Contents}
TimerType == [by : Instances, nr : 0..MaxUpdates, slow : SUBSET Instances]

LEMMA ReaderState ==
    ASSUME TypeOK, NEW i \in Instances
    PROVE  /\ reader[i] \in ReaderStates
           /\ reader[i].phase = "loaded" => reader[i].copy \in Contents
           /\ reader[i].phase # "loaded" => reader[i].copy = NoCopy
  BY DEF TypeOK, ReaderStates, NotReading, Missed, Loaded

LEMMA ReturnType ==
    ASSUME TypeOK, NEW i \in Instances, Return(i)
    PROVE  /\ reader' \in [Instances -> ReaderStates]
           /\ timers' \subseteq TimerType
  BY DEF TypeOK, Return, ReaderStates, TimerType

LEMMA FaultType == TypeOK /\ (Fault \/ UNCHANGED faults) => faults' \in 0..MaxFaults
  BY BoundsAssumption DEF TypeOK, Fault

LEMMA TypeOKStep == TypeOK /\ [Next]_vars => TypeOK'
<1> SUFFICES ASSUME TypeOK, [Next]_vars PROVE TypeOK'
  OBVIOUS
<1> USE DEF TypeOK
<1>1. ASSUME NEW i \in Instances, Read(i) PROVE TypeOK'
  <2>1. CASE Miss(i)
    BY <2>1 DEF Miss
  <2>2. CASE Load(i)
    BY <2>2 DEF Load
  <2>3. CASE Fill(i)
    BY <2>3, ReturnType, ReaderState DEF Fill, ReaderStates, TimerType
  <2>4. CASE FillFails(i)
    BY <2>4, ReturnType, FaultType DEF FillFails, ReaderStates, TimerType
  <2> QED
    BY <1>1, <2>1, <2>2, <2>3, <2>4 DEF Read
<1>2. ASSUME NEW i \in Instances, Write(i) PROVE TypeOK'
  <2>1. ASSUME NEW c \in Contents, UpdateCommits(i, c) PROVE TypeOK'
    BY <2>1, BoundsAssumption DEF UpdateCommits, Update
  <2>2. ASSUME NEW c \in Contents, UpdateReplyLost(i, c) PROVE TypeOK'
    BY <2>2, BoundsAssumption, FaultType DEF UpdateReplyLost, Update
  <2>3. CASE DeleteNow(i)
    BY <2>3 DEF DeleteNow, Deletion
  <2>4. CASE DeleteNowFails(i)
    BY <2>4, FaultType DEF DeleteNowFails
  <2>5. CASE ArmTimer(i)
    BY <2>5 DEF ArmTimer, AfterFunc
  <2> QED
    BY <1>2, <2>1, <2>2, <2>3, <2>4, <2>5 DEF Write
<1>3. ASSUME NEW i \in Instances, Crash(i) PROVE TypeOK'
  BY <1>3, FaultType DEF Crash
<1>4. CASE Timer
  BY <1>4, FaultType DEF Timer, DelayedDelete, DelayedDeleteFails, SlowReader, Deletion
<1>5. CASE Expire
  BY <1>5 DEF Expire
<1>6. CASE UNCHANGED vars
  BY <1>6 DEF vars
<1> QED
  BY <1>1, <1>2, <1>3, <1>4, <1>5, <1>6 DEF Next

-----------------------------------------------------------------------------
(* Stale copies are transient                                               *)

\* A step that counts a failure leaves nothing to show.
LEMMA AfterFault ==
    TypeOK /\ Fault => StaleIsTransient' /\ SlowReadIsOutlasted'
  BY BoundsAssumption DEF TypeOK, Fault, StaleIsTransient, SlowReadIsOutlasted

\* A step of a read without a failure.
LEMMA ReadStep ==
    ASSUME IInv, NEW i \in Instances, Miss(i) \/ Load(i) \/ Fill(i)
    PROVE  StaleIsTransient' /\ SlowReadIsOutlasted'
<1> SUFFICES ASSUME faults = 0
             PROVE  StaleIsTransient' /\ SlowReadIsOutlasted'
  BY DEF Miss, Load, Fill, StaleIsTransient, SlowReadIsOutlasted
<1> USE DEF IInv
<1>1. stored' = stored /\ Updating' = Updating
  BY DEF Miss, Load, Fill, Updating
<1>2. CASE Miss(i) \/ Load(i)
  <2>1. cache' = cache /\ timers' = timers /\ reader'[i].copy \in {NoCopy, stored}
        /\ \A r \in Instances \ {i} : reader'[r] = reader[r]
    BY <1>2 DEF Miss, Load, Missed, Loaded, TypeOK
  <2> QED
    BY <1>1, <2>1 DEF StaleIsTransient, SlowReadIsOutlasted, Fresh
<1>3. CASE Fill(i)
  <2>1. /\ cache' = reader[i].copy /\ reader'[i].copy = NoCopy
        /\ \A r \in Instances \ {i} : reader'[r] = reader[r]
        /\ timers' = {[t EXCEPT !.slow = @ \ {i}] : t \in timers}
    BY <1>3 DEF Fill, Return, NotReading, TypeOK
  <2>2. ~Fresh(reader[i].copy) => Updating \/ timers # {}
    BY DEF SlowReadIsOutlasted
  <2>3. StaleIsTransient'
    BY <1>1, <2>1, <2>2 DEF StaleIsTransient, Fresh
  <2>4. ASSUME NEW r \in Instances \ {i}, NEW t \in timers, r \in t.slow
        PROVE  \E u \in timers' : r \in u.slow
    <3> DEFINE u == [t EXCEPT !.slow = @ \ {i}]
    <3>1. u \in timers'
      BY <2>1
    <3>2. u.slow = t.slow \ {i}
      BY DEF TypeOK
    <3> QED
      BY <2>4, <3>1, <3>2
  <2>5. SlowReadIsOutlasted'
    BY <1>1, <2>1, <2>4 DEF SlowReadIsOutlasted, Fresh
  <2> QED
    BY <2>3, <2>5
<1> QED
  BY <1>2, <1>3

\* A step of an update without a failure.
LEMMA WriteStep ==
    ASSUME IInv, NEW i \in Instances,
           (\E c \in Contents : UpdateCommits(i, c)) \/ DeleteNow(i) \/ ArmTimer(i)
    PROVE  StaleIsTransient' /\ SlowReadIsOutlasted'
<1> USE DEF IInv
<1>1. ASSUME NEW c \in Contents, UpdateCommits(i, c)
      PROVE  StaleIsTransient' /\ SlowReadIsOutlasted'
  <2>1. CASE c = stored
    <3>1. Updating' = Updating
      BY <1>1, <2>1 DEF UpdateCommits, Update, Updating, TypeOK
    <3> QED
      BY <1>1, <2>1, <3>1
         DEF UpdateCommits, Update, StaleIsTransient, SlowReadIsOutlasted, Fresh
  <2>2. CASE c # stored
    <3>1. Updating'
      BY <1>1, <2>2 DEF UpdateCommits, Update, Updating, TypeOK
    <3> QED
      BY <3>1 DEF StaleIsTransient, SlowReadIsOutlasted
  <2> QED
    BY <2>1, <2>2
<1>2. CASE DeleteNow(i)
  <2>1. Updating'
    BY <1>2 DEF DeleteNow, Updating, TypeOK
  <2> QED
    BY <2>1 DEF StaleIsTransient, SlowReadIsOutlasted
<1>3. CASE ArmTimer(i)
  <2> DEFINE loaded == {r \in Instances : reader[r].phase = "loaded"}
              t == [by |-> i, nr |-> updates, slow |-> loaded]
  <2>1. t \in timers' /\ t.slow = loaded
    BY <1>3 DEF ArmTimer, AfterFunc
  <2>2. \A r \in Instances : ~Fresh(reader[r].copy) => r \in t.slow
    BY <2>1, ReaderState DEF Fresh
  <2>3. reader' = reader /\ stored' = stored
    BY <1>3 DEF ArmTimer
  <2> QED
    BY <2>1, <2>2, <2>3 DEF StaleIsTransient, SlowReadIsOutlasted, Fresh
<1> QED
  BY <1>1, <1>2, <1>3

\* The second deletion, and the end of a time to live.
LEMMA DeletionStep ==
    ASSUME IInv, (\E t \in timers : DelayedDelete(t)) \/ Expire
    PROVE  StaleIsTransient' /\ SlowReadIsOutlasted'
<1> USE DEF IInv
<1>1. cache' = NoCopy /\ UNCHANGED <<stored, reader, writer, faults>>
  BY DEF DelayedDelete, Deletion, Expire
<1>2. \A t \in timers : t \in timers' \/ t.slow = {}
  BY DEF DelayedDelete, OutlastsReads, Expire
<1>3. StaleIsTransient'
  BY <1>1 DEF StaleIsTransient, Fresh
<1>4. SlowReadIsOutlasted'
  BY <1>1, <1>2 DEF SlowReadIsOutlasted, Fresh, Updating
<1> QED
  BY <1>3, <1>4

LEMMA InitIInv == Init => IInv
  BY ContentsAssumption, BoundsAssumption
     DEF Init, IInv, TypeOK, StaleIsTransient, SlowReadIsOutlasted, Fresh, NotReading

LEMMA IInvStep == IInv /\ [Next]_vars => IInv'
<1> SUFFICES ASSUME IInv, [Next]_vars PROVE StaleIsTransient' /\ SlowReadIsOutlasted'
  BY TypeOKStep DEF IInv
<1>1. ASSUME Fault PROVE StaleIsTransient' /\ SlowReadIsOutlasted'
  BY <1>1, AfterFault DEF IInv
<1>2. ASSUME NEW i \in Instances, Read(i)
      PROVE  StaleIsTransient' /\ SlowReadIsOutlasted'
  BY <1>1, <1>2, ReadStep DEF Read, FillFails
<1>3. ASSUME NEW i \in Instances, Write(i)
      PROVE  StaleIsTransient' /\ SlowReadIsOutlasted'
  BY <1>1, <1>3, WriteStep DEF Write, UpdateReplyLost, DeleteNowFails
<1>4. ASSUME NEW i \in Instances, Crash(i)
      PROVE  StaleIsTransient' /\ SlowReadIsOutlasted'
  BY <1>1, <1>4 DEF Crash
<1>5. CASE Timer \/ Expire
  BY <1>1, <1>5, DeletionStep DEF Timer, DelayedDeleteFails, SlowReader
<1>6. CASE UNCHANGED vars
  BY <1>6 DEF vars, IInv, StaleIsTransient, SlowReadIsOutlasted, Fresh, Updating
<1> QED
  BY <1>2, <1>3, <1>4, <1>5, <1>6 DEF Next

\* The inductive invariant holds in every reachable state.
THEOREM Invariance == Spec => []IInv
<1> QED
  BY InitIInv, IInvStep, PTL DEF Spec

\* As long as nothing has failed, a copy other than MySQL's is about to be deleted
\* by an update under way or by a timer (logic/post.go:124-132).
THEOREM StaleCopiesAreTransient == Spec => []StaleIsTransient
<1>1. IInv => StaleIsTransient
  BY DEF IInv
<1> QED
  BY <1>1, Invariance, PTL
=============================================================================
