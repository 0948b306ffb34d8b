--------------------------- MODULE PostListsProofs ---------------------------
(***************************************************************************)
(* Proofs about PostLists, for all values of the constants.                *)
(***************************************************************************)
EXTENDS PostLists, TLAPS

-----------------------------------------------------------------------------
(* Types                                                                    *)

Bounded == TypeOK /\ Version <= MaxChanges

LEMMA VersionIsNat == TypeOK => Version \in Nat
  BY DEF TypeOK, Version

LEMMA BoundedStep == Bounded /\ [Next]_vars => Bounded'
<1> SUFFICES ASSUME Bounded, [Next]_vars PROVE Bounded'
  OBVIOUS
<1>1. CASE Change
  BY <1>1, BoundsAssumption DEF Change, Bounded, TypeOK, Version, indexVars, copyVars,
        flightVars, readerVars
<1>2. CASE Tick
  BY <1>2, BoundsAssumption DEF Tick, Bounded, TypeOK, Version, indexVars, copyVars,
        flightVars, readerVars
<1>3. ASSUME NEW r \in Readers, AskCommunity(r) PROVE Bounded'
  BY <1>3, BoundsAssumption DEF AskCommunity, Go, Bounded, TypeOK, Version, indexVars,
        copyVars, flightVars, readerVars
<1>4. ASSUME NEW r \in Readers, Exists(r) PROVE Bounded'
  BY <1>4, BoundsAssumption DEF Exists, Go, Fault, Bounded, TypeOK, Version, indexVars,
        copyVars, flightVars, readerVars
<1>5. ASSUME NEW r \in Readers, Store(r) PROVE Bounded'
  <2>1. changes' = changes /\ Version' = Version /\ Version \in 0..MaxChanges
    BY <1>5, VersionIsNat, BoundsAssumption DEF Store, Go, indexVars, Version, Bounded
  <2>2. 0 \in 0..Lifetime /\ Lifetime \in 0..Lifetime
    BY BoundsAssumption
  <2>3. list' \in 0..MaxChanges /\ ttl' \in 0..Lifetime /\ cut' \in BOOLEAN
    BY <1>5, <2>1, <2>2 DEF Store, Go, Bounded, TypeOK
  <2> QED
    BY <1>5, <2>1, <2>3 DEF Store, Go, Bounded, TypeOK, indexVars, flightVars
<1>6. ASSUME NEW r \in Readers, Expire(r) PROVE Bounded'
  <2>1. changes' = changes /\ Version' = Version /\ Version \in 0..MaxChanges
    BY <1>6, VersionIsNat, BoundsAssumption DEF Expire, Go, SetLifetime, indexVars, Version,
          Bounded
  <2>2. 0 \in 0..Lifetime /\ Lifetime \in 0..Lifetime
    BY BoundsAssumption
  <2>3. list' \in 0..MaxChanges /\ ttl' \in 0..Lifetime /\ cut' \in BOOLEAN
    BY <1>6, <2>1, <2>2 DEF Expire, Go, SetLifetime, Bounded, TypeOK
  <2> QED
    BY <1>6, <2>1, <2>3 DEF Expire, Go, SetLifetime, Bounded, TypeOK, indexVars, flightVars
<1>7. ASSUME NEW r \in Readers, ExpireLost(r) PROVE Bounded'
  BY <1>7, BoundsAssumption DEF ExpireLost, Go, Fault, Bounded, TypeOK, Version, indexVars,
        copyVars, flightVars, readerVars
<1>8. ASSUME NEW r \in Readers, ReadCopy(r) PROVE Bounded'
  BY <1>8, BoundsAssumption DEF ReadCopy, Go, Bounded, TypeOK, Version, indexVars, copyVars,
        flightVars, readerVars
<1>9. ASSUME NEW r \in Readers, CommunityFails(r) PROVE Bounded'
  BY <1>9, BoundsAssumption DEF CommunityFails, Go, Fault, Bounded, TypeOK, Version,
        indexVars, copyVars, flightVars, readerVars
<1>10. ASSUME NEW r \in Readers, NEW i \in Instances, AskAll(r, i) PROVE Bounded'
  BY <1>10, BoundsAssumption DEF AskAll, Go, Bounded, TypeOK, Version, indexVars, copyVars,
        flightVars, readerVars
<1>11. ASSUME NEW i \in Instances, ReadIndex(i) PROVE Bounded'
  BY <1>11, BoundsAssumption DEF ReadIndex, Bounded, TypeOK, Version, indexVars, copyVars,
        flightVars, readerVars
<1>12. ASSUME NEW i \in Instances, Answer(i) PROVE Bounded'
  BY <1>12, BoundsAssumption DEF Answer, EndFlight, LeavesMap, Waiting, Bounded, TypeOK,
        Version, indexVars, copyVars, flightVars, readerVars
<1>13. ASSUME NEW i \in Instances, FlightFails(i) PROVE Bounded'
  BY <1>13, BoundsAssumption DEF FlightFails, EndFlight, LeavesMap, Waiting, Fault, Bounded,
        TypeOK, Version, indexVars, copyVars, flightVars, readerVars
<1>14. CASE UNCHANGED vars
  BY <1>14 DEF Bounded, TypeOK, Version, vars, indexVars, copyVars, flightVars, readerVars
<1> QED
  BY <1>1, <1>2, <1>3, <1>4, <1>5, <1>6, <1>7, <1>8, <1>9, <1>10, <1>11, <1>12, <1>13, <1>14
        DEF Next, CommunityStep, QueryStep


-----------------------------------------------------------------------------
(* The copy of a community                                                  *)

\* The copy and the index stay as they are, and so does whether it is being built.
LEMMA CopySame ==
    ASSUME CopyInv,
           now' = now /\ changes' = changes /\ list' = list /\ ttl' = ttl /\ cut' = cut,
           (\E q \in Readers : at[q] = "expire") <=> (\E q \in Readers : at'[q] = "expire")
    PROVE  CopyInv'
  BY DEF CopyInv, Version, Missed

LEMMA CopyStep == CopyInv /\ Bounded /\ [Next]_vars => CopyInv'
<1> SUFFICES ASSUME CopyInv /\ Bounded, [Next]_vars PROVE CopyInv'
  OBVIOUS
<1>0. at \in [Readers -> {"idle", "exists", "store", "expire", "read", "waiting"}]
  BY DEF Bounded, TypeOK
<1>1. CASE Change
  BY <1>1, BoundsAssumption DEF Change, CopyInv, Version, Missed, Bounded, TypeOK,
        indexVars, copyVars, flightVars, readerVars
<1>2. CASE Tick
  BY <1>2, BoundsAssumption DEF Tick, CopyInv, Version, Missed, Bounded, TypeOK, indexVars,
        copyVars, flightVars, readerVars
<1>3. ASSUME NEW r \in Readers, AskCommunity(r) PROVE CopyInv'
  <2>1. /\ now' = now /\ changes' = changes /\ list' = list /\ ttl' = ttl /\ cut' = cut
        /\ (\E q \in Readers : at[q] = "expire") <=> (\E q \in Readers : at'[q] = "expire")
    BY <1>3, <1>0 DEF AskCommunity, Go, indexVars, copyVars, readerVars, flightVars
  <2> QED
    BY <2>1, CopySame
<1>4. ASSUME NEW r \in Readers, Exists(r) PROVE CopyInv'
  <2>1. /\ now' = now /\ changes' = changes /\ list' = list /\ ttl' = ttl /\ cut' = cut
        /\ (\E q \in Readers : at[q] = "expire") <=> (\E q \in Readers : at'[q] = "expire")
    BY <1>4, <1>0 DEF Exists, Go, Fault, indexVars, copyVars, readerVars, flightVars
  <2> QED
    BY <2>1, CopySame
<1>5. ASSUME NEW r \in Readers, Store(r) PROVE CopyInv'
  BY <1>5, BoundsAssumption DEF Store, Go, CopyInv, Version, Missed, Bounded, TypeOK,
        indexVars, copyVars, flightVars, readerVars
<1>6. ASSUME NEW r \in Readers, Expire(r) PROVE CopyInv'
  BY <1>6, BoundsAssumption DEF Expire, Go, SetLifetime, CopyInv, Version, Missed, Bounded,
        TypeOK, indexVars, copyVars, flightVars, readerVars
<1>7. ASSUME NEW r \in Readers, ExpireLost(r) PROVE CopyInv'
  BY <1>7, BoundsAssumption DEF ExpireLost, Go, Fault, CopyInv, Version, Missed, Bounded,
        TypeOK, indexVars, copyVars, flightVars, readerVars
<1>8. ASSUME NEW r \in Readers, ReadCopy(r) PROVE CopyInv'
  <2>1. /\ now' = now /\ changes' = changes /\ list' = list /\ ttl' = ttl /\ cut' = cut
        /\ (\E q \in Readers : at[q] = "expire") <=> (\E q \in Readers : at'[q] = "expire")
    BY <1>8, <1>0 DEF ReadCopy, Go, indexVars, copyVars, readerVars, flightVars
  <2> QED
    BY <2>1, CopySame
<1>9. ASSUME NEW r \in Readers, CommunityFails(r) PROVE CopyInv'
  <2>1. /\ now' = now /\ changes' = changes /\ list' = list /\ ttl' = ttl /\ cut' = cut
        /\ (\E q \in Readers : at[q] = "expire") <=> (\E q \in Readers : at'[q] = "expire")
    BY <1>9, <1>0 DEF CommunityFails, Go, Fault, indexVars, copyVars, readerVars, flightVars
  <2> QED
    BY <2>1, CopySame
<1>10. ASSUME NEW r \in Readers, NEW i \in Instances, AskAll(r, i) PROVE CopyInv'
  <2>1. /\ now' = now /\ changes' = changes /\ list' = list /\ ttl' = ttl /\ cut' = cut
        /\ (\E q \in Readers : at[q] = "expire") <=> (\E q \in Readers : at'[q] = "expire")
    BY <1>10, <1>0 DEF AskAll, Go, indexVars, copyVars, readerVars, flightVars
  <2> QED
    BY <2>1, CopySame
<1>11. ASSUME NEW i \in Instances, ReadIndex(i) PROVE CopyInv'
  <2>1. /\ now' = now /\ changes' = changes /\ list' = list /\ ttl' = ttl /\ cut' = cut
        /\ (\E q \in Readers : at[q] = "expire") <=> (\E q \in Readers : at'[q] = "expire")
    BY <1>11, <1>0 DEF ReadIndex, indexVars, copyVars, readerVars, flightVars
  <2> QED
    BY <2>1, CopySame
<1>12. ASSUME NEW i \in Instances, Answer(i) PROVE CopyInv'
  <2>1. /\ now' = now /\ changes' = changes /\ list' = list /\ ttl' = ttl /\ cut' = cut
        /\ (\E q \in Readers : at[q] = "expire") <=> (\E q \in Readers : at'[q] = "expire")
    BY <1>12, <1>0 DEF Answer, EndFlight, LeavesMap, Waiting, indexVars, copyVars,
          readerVars, flightVars
  <2> QED
    BY <2>1, CopySame
<1>13. ASSUME NEW i \in Instances, FlightFails(i) PROVE CopyInv'
  <2>1. /\ now' = now /\ changes' = changes /\ list' = list /\ ttl' = ttl /\ cut' = cut
        /\ (\E q \in Readers : at[q] = "expire") <=> (\E q \in Readers : at'[q] = "expire")
    BY <1>13, <1>0 DEF FlightFails, EndFlight, LeavesMap, Waiting, Fault, indexVars,
          copyVars, readerVars, flightVars
  <2> QED
    BY <2>1, CopySame
<1>14. CASE UNCHANGED vars
  BY <1>14 DEF CopyInv, Version, Missed, Bounded, TypeOK, vars, indexVars, copyVars,
        flightVars, readerVars
<1> QED
  BY <1>1, <1>2, <1>3, <1>4, <1>5, <1>6, <1>7, <1>8, <1>9, <1>10, <1>11, <1>12, <1>13, <1>14
        DEF Next, CommunityStep, QueryStep


-----------------------------------------------------------------------------
(* The query of an instance                                                 *)

LEMMA FlightStep == FlightInv /\ Bounded /\ [Next]_vars => FlightInv'
<1> SUFFICES ASSUME FlightInv /\ Bounded, [Next]_vars PROVE FlightInv'
  OBVIOUS
<1>1. CASE Change
  BY <1>1, BoundsAssumption DEF Change, FlightInv, Version, Bounded, TypeOK, indexVars,
        copyVars, flightVars, readerVars
<1>2. CASE Tick
  BY <1>2, BoundsAssumption DEF Tick, FlightInv, Version, Bounded, TypeOK, indexVars,
        copyVars, flightVars, readerVars
<1>3. ASSUME NEW r \in Readers, AskCommunity(r) PROVE FlightInv'
  BY <1>3, BoundsAssumption DEF AskCommunity, Go, FlightInv, Version, Bounded, TypeOK,
        indexVars, copyVars, flightVars, readerVars
<1>4. ASSUME NEW r \in Readers, Exists(r) PROVE FlightInv'
  BY <1>4, BoundsAssumption DEF Exists, Go, Fault, FlightInv, Version, Bounded, TypeOK,
        indexVars, copyVars, flightVars, readerVars
<1>5. ASSUME NEW r \in Readers, Store(r) PROVE FlightInv'
  BY <1>5, BoundsAssumption DEF Store, Go, FlightInv, Version, Bounded, TypeOK, indexVars,
        copyVars, flightVars, readerVars
<1>6. ASSUME NEW r \in Readers, Expire(r) PROVE FlightInv'
  BY <1>6, BoundsAssumption DEF Expire, Go, SetLifetime, FlightInv, Version, Bounded,
        TypeOK, indexVars, copyVars, flightVars, readerVars
<1>7. ASSUME NEW r \in Readers, ExpireLost(r) PROVE FlightInv'
  BY <1>7, BoundsAssumption DEF ExpireLost, Go, Fault, FlightInv, Version, Bounded, TypeOK,
        indexVars, copyVars, flightVars, readerVars
<1>8. ASSUME NEW r \in Readers, ReadCopy(r) PROVE FlightInv'
  BY <1>8, BoundsAssumption DEF ReadCopy, Go, FlightInv, Version, Bounded, TypeOK,
        indexVars, copyVars, flightVars, readerVars
<1>9. ASSUME NEW r \in Readers, CommunityFails(r) PROVE FlightInv'
  BY <1>9, BoundsAssumption DEF CommunityFails, Go, Fault, FlightInv, Version, Bounded,
        TypeOK, indexVars, copyVars, flightVars, readerVars
<1>10. ASSUME NEW r \in Readers, NEW i \in Instances, AskAll(r, i) PROVE FlightInv'
  BY <1>10, BoundsAssumption DEF AskAll, Go, FlightInv, Version, Bounded, TypeOK, indexVars,
        copyVars, flightVars, readerVars
<1>11. ASSUME NEW i \in Instances, ReadIndex(i) PROVE FlightInv'
  BY <1>11, BoundsAssumption DEF ReadIndex, FlightInv, Version, Bounded, TypeOK, indexVars,
        copyVars, flightVars, readerVars
<1>12. ASSUME NEW i \in Instances, Answer(i) PROVE FlightInv'
  BY <1>12, BoundsAssumption DEF Answer, EndFlight, LeavesMap, Waiting, FlightInv, Version,
        Bounded, TypeOK, indexVars, copyVars, flightVars, readerVars
<1>13. ASSUME NEW i \in Instances, FlightFails(i) PROVE FlightInv'
  BY <1>13, BoundsAssumption DEF FlightFails, EndFlight, LeavesMap, Waiting, Fault,
        FlightInv, Version, Bounded, TypeOK, indexVars, copyVars, flightVars, readerVars
<1>14. CASE UNCHANGED vars
  BY <1>14 DEF FlightInv, Version, Bounded, TypeOK, vars, indexVars, copyVars, flightVars,
        readerVars
<1> QED
  BY <1>1, <1>2, <1>3, <1>4, <1>5, <1>6, <1>7, <1>8, <1>9, <1>10, <1>11, <1>12, <1>13, <1>14
        DEF Next, CommunityStep, QueryStep


-----------------------------------------------------------------------------
(* The invariant and what follows from it                                   *)

LEMMA InvInit == Init => IInv
<1> SUFFICES ASSUME Init PROVE IInv
  OBVIOUS
<1>1. Version = 0 /\ Bounded
  <2>1. Version = 0 /\ changes \in Seq(0..MaxTime)
    BY DEF Init, Version
  <2>2. /\ 0 \in 0..MaxChanges /\ 0 \in 0..MaxTime /\ 0 \in 0..Lifetime /\ 0 \in 0..MaxFaults
        /\ 0 <= MaxChanges
    BY BoundsAssumption
  <2> QED
    BY <2>1, <2>2 DEF Init, Bounded, TypeOK
<1>2. CopyInv
  BY <1>1 DEF Init, CopyInv, Missed
<1>3. FlightInv
  BY <1>1 DEF Init, FlightInv
<1> QED
  BY <1>1, <1>2, <1>3 DEF IInv, Bounded

LEMMA InvStep == IInv /\ [Next]_vars => IInv'
<1> SUFFICES ASSUME IInv, [Next]_vars PROVE IInv'
  OBVIOUS
<1>1. Bounded /\ CopyInv /\ FlightInv
  BY DEF IInv, Bounded
<1>2. Bounded' /\ CopyInv' /\ FlightInv'
  BY <1>1, BoundedStep, CopyStep, FlightStep
<1> QED
  BY <1>2 DEF IInv, Bounded

\* The inductive invariant.
THEOREM Invariance == Spec => []IInv
  BY InvInit, InvStep, PTL DEF Spec

\* A change of the index shows in a community within the lifetime of a copy, unless
\* the EXPIRE of the present copy was cut off (dao/redis/post.go:76-84).
THEOREM FreshCopies == Spec => []CopyIsFresh
<1>1. IInv => CopyIsFresh
  <2> SUFFICES ASSUME IInv, list # 0, ~cut, NEW c \in list + 1 .. Version
               PROVE  now < changes[c] + Lifetime
    BY DEF CopyIsFresh
  <2>1. CASE ttl > 0
    BY <2>1, BoundsAssumption DEF IInv, TypeOK, CopyInv, Missed, Version
  <2>2. CASE ~(ttl > 0)
    BY <2>2, BoundsAssumption DEF IInv, TypeOK, CopyInv, Missed, Version
  <2> QED
    BY <2>1, <2>2
<1> QED
  BY <1>1, Invariance, PTL

\* Waiting for somebody else's query never answers with a page from before the
\* instance's last query ended (logic/post.go:371-375).
THEOREM FreshPages == Spec => []NoPageFromBefore
<1>1. IInv => NoPageFromBefore
  <2> SUFFICES ASSUME IInv, NEW r \in Readers, at[r] = "waiting", flight[home[r]] = "read"
               PROVE  floor[r] <= page[home[r]]
    BY DEF NoPageFromBefore
  <2>1. home[r] \in Instances /\ floor[r] <= settled[home[r]] /\ settled[home[r]] <= page[home[r]]
    BY DEF IInv, TypeOK, FlightInv
  <2>2. floor[r] \in Int /\ settled[home[r]] \in Int /\ page[home[r]] \in Int
    BY <2>1 DEF IInv, TypeOK
  <2> QED
    BY <2>1, <2>2
<1> QED
  BY <1>1, Invariance, PTL
=============================================================================
