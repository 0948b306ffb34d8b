-------------------------- MODULE UserRequestsProofs --------------------------
(***************************************************************************)
(* Proofs about Sessions, RateLimit and their composition UserRequests,    *)
(* for any number of tokens, requests and votes, any window, limit, delay  *)
(* and clock skew.                                                         *)
(***************************************************************************)
EXTENDS UserRequests, FiniteSetTheorems, WellFoundedInduction, TLAPS

-----------------------------------------------------------------------------
(* Sessions                                                                 *)

LEMMA SessionInitInv == SessionInit => SessionInv
  BY TokensAssumption
     DEF SessionInit, SessionInv, SessionTypeOK, NewestLoginHolds

LEMMA SessionTypeStep == SessionTypeOK /\ [SessionNext]_sessionVars => SessionTypeOK'
<1> SUFFICES ASSUME SessionTypeOK, [SessionNext]_sessionVars PROVE SessionTypeOK'
  OBVIOUS
<1> USE DEF SessionTypeOK
<1>1. ASSUME NEW s \in Tokens, GenToken(s) \/ Login(s) \/ LoginFails(s) \/ TokenExpires(s)
      PROVE  SessionTypeOK'
  BY <1>1 DEF GenToken, Login, LoginFails, TokenExpires, SetSession
<1>2. ASSUME NEW r \in Requests, NEW s \in Tokens, Authenticate(r, s) PROVE SessionTypeOK'
  BY <1>2 DEF Authenticate
<1>3. ASSUME NEW r \in Requests, Logout(r) \/ Answer(r) PROVE SessionTypeOK'
  BY <1>3 DEF Logout, Answer, DeleteSession
<1>4. CASE SessionExpires
  BY <1>4 DEF SessionExpires
<1>5. CASE UNCHANGED sessionVars
  BY <1>5 DEF sessionVars
<1> QED
  BY <1>1, <1>2, <1>3, <1>4, <1>5 DEF SessionNext, SessionStep

LEMMA SessionStepInv == SessionInv /\ [SessionNext]_sessionVars => SessionInv'
<1> SUFFICES ASSUME SessionInv, [SessionNext]_sessionVars PROVE SessionInv'
  OBVIOUS
<1>1. SessionTypeOK /\ SessionTypeOK'
  BY SessionTypeStep DEF SessionInv
<1> USE TokensAssumption DEF SessionInv, NewestLoginHolds
<1>2. ASSUME NEW s \in Tokens, GenToken(s) PROVE SessionInv'
  BY <1>1, <1>2 DEF GenToken, SessionTypeOK
<1>3. ASSUME NEW s \in Tokens, Login(s) PROVE SessionInv'
  BY <1>1, <1>3 DEF Login, SetSession, SessionTypeOK
<1>4. ASSUME NEW s \in Tokens, LoginFails(s) PROVE SessionInv'
  BY <1>1, <1>4 DEF LoginFails, SetSession, SessionTypeOK
<1>5. ASSUME NEW s \in Tokens, TokenExpires(s) PROVE SessionInv'
  BY <1>1, <1>5 DEF TokenExpires
<1>6. ASSUME NEW r \in Requests, NEW s \in Tokens, Authenticate(r, s) PROVE SessionInv'
  BY <1>1, <1>6 DEF Authenticate, Valid, SessionTypeOK
<1>7. ASSUME NEW r \in Requests, Logout(r) PROVE SessionInv'
  BY <1>1, <1>7 DEF Logout, DeleteSession, SessionTypeOK
<1>8. ASSUME NEW r \in Requests, Answer(r) PROVE SessionInv'
  BY <1>1, <1>8 DEF Answer, SessionTypeOK
<1>9. CASE SessionExpires
  BY <1>1, <1>9 DEF SessionExpires, SessionTypeOK
<1>10. CASE UNCHANGED sessionVars
  BY <1>1, <1>10 DEF sessionVars
<1> QED
  BY <1>2, <1>3, <1>4, <1>5, <1>6, <1>7, <1>8, <1>9, <1>10 DEF SessionNext, SessionStep

LEMMA SessionInvImplies == SessionInv => NewestLoginHolds /\ LogoutIsFinal
  BY DEF SessionInv, LogoutIsFinal, Valid

\* A token that was given out is good or spent, and the tokens that are good are none
\* or the one of the session.
Issued == {s \in Tokens : login[s] = "issued"}
Good == {s \in Tokens : Valid(s)}
Spent == {s \in Tokens : login[s] = "issued" /\ ~Valid(s)}

LEMMA IssuedParts ==
    /\ Issued = Good \cup Spent /\ Good \cap Spent = {}
    /\ Good \subseteq {session} /\ Good \subseteq Issued
  BY DEF Issued, Good, Spent, Valid

\* A step that gives out no token, and makes none good, ends the session or leaves
\* all as it was.
LEMMA NothingGained ==
    ASSUME Issued' = Issued, Good' \subseteq Good
    PROVE  \/ Good' = Good /\ Spent' = Spent
           \/ Good # {} /\ Good' = {} /\ Spent' = Spent \cup Good
<1>1. /\ Issued = Good \cup Spent /\ Good \cap Spent = {} /\ Good \subseteq {session}
  BY IssuedParts
<1>2. Issued' = Good' \cup Spent' /\ Good' \cap Spent' = {}
  BY DEF Issued, Good, Spent, Valid
<1>3. Good' = Good \/ Good' = {}
  BY <1>1
<1> QED
  BY <1>1, <1>2, <1>3

\* Sessions implement the abstract specification: a login that is answered is SignIn,
\* a step after which its token is refused is End, the rest stutters.
LEMMA DeviceStep == SessionInv /\ [SessionNext]_sessionVars => [Device!Next]_Device!vars
<1> SUFFICES ASSUME SessionInv, [SessionNext]_sessionVars
             PROVE  [Device!Next]_Device!vars
  OBVIOUS
<1> USE DEF Issued, Good
<1>0. SessionTypeOK /\ NoToken \notin Tokens
  BY TokensAssumption DEF SessionInv
<1>1. CASE Issued' = Issued /\ Good' \subseteq Good
  BY <1>1, NothingGained DEF Spent, Device!Next, Device!End, Device!vars
<1>2. ASSUME NEW s \in Tokens, Login(s) PROVE [Device!Next]_Device!vars
  <2>1. session # s /\ s \notin expired /\ login[s] = "signed"
    BY <1>2 DEF SessionInv, Login
  <2>2. /\ session' = s /\ expired' = expired /\ login'[s] = "issued"
        /\ \A t \in Tokens \ {s} : login'[t] = login[t]
    BY <1>0, <1>2 DEF Login, SetSession, SessionTypeOK
  <2>3. Good' = {s}
    BY <2>1, <2>2 DEF Valid
  <2>4. Spent' = Spent \cup Good /\ s \notin Good \cup Spent
    BY <2>1, <2>2 DEF Spent, Valid
  <2>5. Device!SignIn(s)
    BY <2>3, <2>4 DEF Device!SignIn, Spent
  <2> QED
    BY <2>5 DEF Device!Next
<1>3. ASSUME NEW s \in Tokens, GenToken(s) PROVE Issued' = Issued /\ Good' \subseteq Good
  BY <1>0, <1>3 DEF GenToken, Valid, SessionTypeOK
<1>4. ASSUME NEW s \in Tokens, LoginFails(s) PROVE Issued' = Issued /\ Good' \subseteq Good
  BY <1>0, <1>4 DEF LoginFails, SetSession, Valid, SessionTypeOK
<1>5. ASSUME NEW s \in Tokens, TokenExpires(s) PROVE Issued' = Issued /\ Good' \subseteq Good
  BY <1>5 DEF TokenExpires, Valid
<1>6. ASSUME NEW r \in Requests, Logout(r) PROVE Issued' = Issued /\ Good' \subseteq Good
  BY <1>0, <1>6 DEF Logout, DeleteSession, Valid
<1>7. CASE SessionExpires
  BY <1>0, <1>1, <1>7 DEF SessionExpires, Valid
<1>8. ASSUME UNCHANGED <<session, login, expired>> PROVE Issued' = Issued /\ Good' \subseteq Good
  BY <1>8 DEF Valid
<1> QED
  BY <1>1, <1>2, <1>3, <1>4, <1>5, <1>6, <1>7, <1>8
  DEF SessionNext, SessionStep, Authenticate, Answer, sessionVars

-----------------------------------------------------------------------------
(* The rate limit                                                           *)

LEMMA NumbersAreFinite == IsFiniteSet(Numbers)
<1>1. 1 \in Int /\ MaxRequests \in Int
  BY TimeAssumption
<1> QED
  BY <1>1, FS_Interval DEF Numbers

LEMMA LogIsFinite == LimitTypeOK => IsFiniteSet(log)
  BY NumbersAreFinite, FS_Subset DEF LimitTypeOK

\* A script that lets a request pass leaves a log that is not too long.
LEMMA RecordBound ==
    ASSUME LimitInv, NEW n \in Numbers, HasRoom(n), Record(n)
    PROVE  Cardinality(log') <= Limit /\ log' \subseteq Numbers
<1>1. IsFiniteSet(Recent(n)) /\ Recent(n) \subseteq Numbers
  BY LogIsFinite, FS_Subset DEF Recent, LimitInv, LimitTypeOK
<1>2. Cardinality(Recent(n)) \in Nat
  BY <1>1, FS_CardinalityType
<1>3. Cardinality(Recent(n) \cup {n}) <= Cardinality(Recent(n)) + 1
  <2>1. Cardinality(Recent(n) \cup {n}) = Cardinality(Recent(n))
        \/ Cardinality(Recent(n) \cup {n}) = Cardinality(Recent(n)) + 1
    BY <1>1, FS_AddElement
  <2> QED
    BY <1>2, <2>1
<1>4. Cardinality(Recent(n) \cup {n}) \in Nat
  BY <1>1, FS_AddElement, FS_CardinalityType
<1>5. \A a, b \in Nat : a <= b + 1 /\ b < Limit => a <= Limit
  BY LimitAssumption
<1> QED
  BY <1>1, <1>2, <1>3, <1>4, <1>5 DEF HasRoom, Record, Member

\* Neither does one that turns it down.
LEMMA TurnDownBound ==
    ASSUME LimitInv, NEW n \in Numbers, TurnDown(n)
    PROVE  Cardinality(log') <= Limit /\ log' \subseteq Numbers
<1>1. log' \subseteq log /\ log \subseteq Numbers /\ IsFiniteSet(log)
  BY LogIsFinite DEF TurnDown, Recent, LimitInv, LimitTypeOK
<1>2. Cardinality(log') <= Cardinality(log) /\ IsFiniteSet(log')
  BY <1>1, FS_Subset
<1>3. Cardinality(log) \in Nat /\ Cardinality(log') \in Nat
  BY <1>1, <1>2, FS_CardinalityType
<1> QED
  BY <1>1, <1>2, <1>3, LimitAssumption DEF LimitInv

\* A request that passed within the span is recent for every script.
LEMMA RecentKeeps ==
    ASSUME LimitInv, NEW n \in Numbers, phase[n] = "waiting",
           NEW a \in Accepted, now < ranAt[a] + Span
    PROVE  a \in Recent(n)
<1>1. stamp[n] <= now + Skew /\ ranAt[a] <= stamp[a] + MaxDelay + Skew /\ a \in log
  <2>1. stamp[n] <= ranAt[n] + Skew /\ ranAt[n] <= now
    BY DEF LimitInv
  <2>2. stamp[n] \in Int /\ ranAt[n] \in Nat /\ now \in Nat
    BY DEF LimitInv, LimitTypeOK
  <2> QED
    BY <2>1, <2>2, TimeAssumption DEF LimitInv
<1>2. stamp[n] \in Int /\ stamp[a] \in Int /\ ranAt[a] \in Nat /\ now \in Nat
  BY DEF LimitInv, LimitTypeOK, Accepted
<1>3. stamp[a] > stamp[n] - Window
  BY <1>1, <1>2, TimeAssumption DEF Span
<1> QED
  BY <1>1, <1>3 DEF Recent

\* The span invariant when the set of accepted requests does not grow.
LEMMA SpanStable ==
    ASSUME LimitInv, Accepted' \subseteq Accepted, \A n \in Accepted' : ranAt'[n] = ranAt[n]
    PROVE  SpanHoldsLimit'
<1> SUFFICES ASSUME NEW t \in 0..MaxTime
             PROVE  Cardinality({n \in Accepted' : t <= ranAt'[n] /\ ranAt'[n] < t + Span}) <= Limit
  BY DEF SpanHoldsLimit, Span
<1> DEFINE X == {n \in Accepted : t <= ranAt[n] /\ ranAt[n] < t + Span}
           Y == {n \in Accepted' : t <= ranAt'[n] /\ ranAt'[n] < t + Span}
<1>1. IsFiniteSet(X) /\ Y \subseteq X
  BY NumbersAreFinite, FS_Subset DEF Accepted
<1>2. Cardinality(Y) <= Cardinality(X) /\ IsFiniteSet(Y)
  BY <1>1, FS_Subset
<1>3. Cardinality(X) <= Limit
  BY DEF LimitInv, SpanHoldsLimit
<1>4. Cardinality(X) \in Nat /\ Cardinality(Y) \in Nat
  BY <1>1, <1>2, FS_CardinalityType
<1> QED
  BY <1>2, <1>3, <1>4, LimitAssumption

\* The span invariant when a request passes.
LEMMA SpanOfAllow ==
    ASSUME LimitInv, NEW n \in Numbers, AllowVote(n)
    PROVE  SpanHoldsLimit'
<1> SUFFICES ASSUME NEW t \in 0..MaxTime
             PROVE  Cardinality({m \in Accepted' : t <= ranAt'[m] /\ ranAt'[m] < t + Span}) <= Limit
  BY DEF SpanHoldsLimit, Span
<1> DEFINE X == {m \in Accepted : t <= ranAt[m] /\ ranAt[m] < t + Span}
           Y == {m \in Accepted' : t <= ranAt'[m] /\ ranAt'[m] < t + Span}
<1>1. /\ Accepted' = Accepted \cup {n} /\ n \notin Accepted
      /\ \A m \in Accepted : ranAt'[m] = ranAt[m]
      /\ ranAt'[n] = now /\ now' = now
  BY DEF AllowVote, Accepted, LimitInv, LimitTypeOK
<1>2. IsFiniteSet(X)
  BY NumbersAreFinite, FS_Subset DEF Accepted
<1>3. CASE n \notin Y
  <2>1. Y = X
    BY <1>1, <1>3
  <2> QED
    BY <2>1 DEF LimitInv, SpanHoldsLimit
<1>4. CASE n \in Y
  <2>1. \A m \in Accepted : m \in Y => m \in Recent(n)
    <3> SUFFICES ASSUME NEW m \in Accepted, m \in Y PROVE m \in Recent(n)
      OBVIOUS
    <3>1. t <= ranAt[m] /\ now < t + Span
      BY <1>1, <1>4
    <3>2. now \in Nat /\ ranAt[m] \in Nat /\ Span \in Int /\ t \in Int
      BY TimeAssumption DEF LimitInv, LimitTypeOK, Accepted, Span
    <3>3. now < ranAt[m] + Span
      BY <3>1, <3>2
    <3> QED
      BY <3>3, RecentKeeps DEF AllowVote
  <2>2. Y \subseteq log'
    BY <1>1, <2>1 DEF AllowVote, Record, Member
  <2>3. Cardinality(log') <= Limit /\ log' \subseteq Numbers
    BY RecordBound DEF AllowVote
  <2>4. IsFiniteSet(log')
    BY <2>3, NumbersAreFinite, FS_Subset
  <2>5. Cardinality(Y) <= Cardinality(log') /\ IsFiniteSet(Y)
    BY <2>2, <2>4, FS_Subset
  <2>6. Cardinality(Y) \in Nat /\ Cardinality(log') \in Nat
    BY <2>4, <2>5, FS_CardinalityType
  <2> QED
    BY <2>3, <2>5, <2>6, LimitAssumption
<1> QED
  BY <1>3, <1>4

LEMMA LimitInitInv == LimitInit => LimitInv
<1> SUFFICES ASSUME LimitInit PROVE LimitInv
  OBVIOUS
<1>1. LimitTypeOK
  BY TimeAssumption DEF LimitInit, LimitTypeOK
<1>2. Accepted = {}
  BY DEF LimitInit, Accepted
<1>3. SpanHoldsLimit
  BY <1>2, FS_EmptySet, LimitAssumption DEF SpanHoldsLimit
<1>4. Cardinality(log) <= Limit
  BY FS_EmptySet, LimitAssumption DEF LimitInit
<1> QED
  BY <1>1, <1>2, <1>3, <1>4, TimeAssumption DEF LimitInit, LimitInv, Numbers

LEMMA TakeTimeInv == LimitInv /\ TakeTime => LimitInv'
<1> SUFFICES ASSUME LimitInv, TakeTime PROVE LimitInv'
  OBVIOUS
<1> DEFINE n == sent + 1
<1>1. /\ n \in Numbers /\ phase[n] = "none" /\ sent' = n /\ sent \in Nat
      /\ \A m \in Numbers : m > sent' <=> (m > sent /\ m # n)
  BY TimeAssumption DEF TakeTime, LimitInv, LimitTypeOK, Numbers
<1>2. /\ phase'[n] = "waiting" /\ ranAt'[n] = now
      /\ now - Skew <= stamp'[n] /\ stamp'[n] <= now + Skew /\ stamp'[n] \in Int
      /\ \A m \in Numbers \ {n} :
            phase'[m] = phase[m] /\ ranAt'[m] = ranAt[m] /\ stamp'[m] = stamp[m]
      /\ UNCHANGED <<now, log, dies>>
  BY <1>1, TimeAssumption DEF TakeTime, LimitInv, LimitTypeOK
<1>3. LimitTypeOK'
  BY <1>1, <1>2, TimeAssumption DEF TakeTime, LimitInv, LimitTypeOK
<1>4. Accepted' = Accepted /\ n \notin Accepted
  BY <1>1, <1>2 DEF Accepted
<1>5. SpanHoldsLimit'
  BY <1>2, <1>4, SpanStable DEF Accepted
<1>6. \A m \in Numbers : phase'[m] = "none" <=> m > sent'
  BY <1>1, <1>2 DEF LimitInv
<1>7. \A m \in Numbers : phase'[m] \in {"waiting", "accepted"} => ranAt'[m] <= now'
  BY <1>2 DEF LimitInv, LimitTypeOK
<1>8. \A m \in Numbers : phase'[m] = "waiting" =>
         /\ now' <= ranAt'[m] + MaxDelay
         /\ ranAt'[m] - Skew <= stamp'[m] /\ stamp'[m] <= ranAt'[m] + Skew
  BY <1>2, TimeAssumption DEF LimitInv, LimitTypeOK
<1>9. \A m \in Accepted' :
         /\ ranAt'[m] + Window <= dies'
         /\ ranAt'[m] <= stamp'[m] + MaxDelay + Skew
         /\ now' < ranAt'[m] + Span => m \in log'
  BY <1>2, <1>4 DEF LimitInv, Accepted
<1> QED
  BY <1>2, <1>3, <1>5, <1>6, <1>7, <1>8, <1>9 DEF LimitInv, Span

LEMMA AllowVoteInv ==
    ASSUME LimitInv, NEW n \in Numbers, AllowVote(n)
    PROVE  LimitInv'
<1>1. /\ phase'[n] = "accepted" /\ ranAt'[n] = now
      /\ \A m \in Numbers \ {n} : phase'[m] = phase[m] /\ ranAt'[m] = ranAt[m]
      /\ UNCHANGED <<now, sent, stamp>> /\ dies' = now + Window
      /\ log' = Recent(n) \cup {n}
      /\ phase[n] = "waiting"
  BY DEF AllowVote, LimitInv, LimitTypeOK, Record, Member
<1>2. Accepted' = Accepted \cup {n}
  BY <1>1 DEF Accepted
<1>3. Cardinality(log') <= Limit /\ log' \subseteq Numbers
  BY RecordBound DEF AllowVote
<1>4. LimitTypeOK'
  BY <1>3, TimeAssumption DEF AllowVote, Record, LimitInv, LimitTypeOK
<1>5. SpanHoldsLimit'
  BY SpanOfAllow
<1>6. \A m \in Numbers : phase'[m] = "none" <=> m > sent'
  BY <1>1 DEF LimitInv
<1>7. \A m \in Numbers : phase'[m] \in {"waiting", "accepted"} => ranAt'[m] <= now'
  BY <1>1 DEF LimitInv, LimitTypeOK
<1>8. \A m \in Numbers : phase'[m] = "waiting" =>
         /\ now' <= ranAt'[m] + MaxDelay
         /\ ranAt'[m] - Skew <= stamp'[m] /\ stamp'[m] <= ranAt'[m] + Skew
  BY <1>1 DEF LimitInv
<1>9. ASSUME NEW m \in Accepted'
      PROVE  /\ ranAt'[m] + Window <= dies'
             /\ ranAt'[m] <= stamp'[m] + MaxDelay + Skew
             /\ now' < ranAt'[m] + Span => m \in log'
  <2>1. CASE m = n
    <3>1. now <= ranAt[n] + MaxDelay /\ ranAt[n] - Skew <= stamp[n]
      BY <1>1 DEF LimitInv
    <3>2. now \in Nat /\ ranAt[n] \in Nat /\ stamp[n] \in Int
      BY DEF LimitInv, LimitTypeOK
    <3> QED
      BY <1>1, <2>1, <3>1, <3>2, TimeAssumption
  <2>2. CASE m # n
    <3>1. m \in Accepted /\ m \in Numbers /\ ranAt'[m] = ranAt[m]
      BY <1>1, <1>2, <2>2 DEF Accepted
    <3>2. ranAt[m] <= now /\ ranAt[m] <= stamp[m] + MaxDelay + Skew
      BY <3>1 DEF LimitInv, Accepted
    <3>3. now \in Nat /\ ranAt[m] \in Nat
      BY <3>1 DEF LimitInv, LimitTypeOK
    <3>4. now < ranAt[m] + Span => m \in Recent(n)
      BY <1>1, <3>1, RecentKeeps
    <3> QED
      BY <1>1, <3>1, <3>2, <3>3, <3>4, TimeAssumption
  <2> QED
    BY <2>1, <2>2
<1>10. now' <= MaxTime
  BY <1>1 DEF LimitInv
<1> QED
  BY <1>3, <1>4, <1>5, <1>6, <1>7, <1>8, <1>9, <1>10 DEF LimitInv, Span

\* A request is refused; the script may have run.
LEMMA RefusedInv ==
    ASSUME LimitInv, NEW n \in Numbers, RefuseVote(n) \/ LimiterFails(n)
    PROVE  LimitInv'
<1>1. /\ phase'[n] = "refused" /\ phase[n] = "waiting"
      /\ \A m \in Numbers \ {n} : phase'[m] = phase[m]
      /\ UNCHANGED <<now, sent, stamp, ranAt>>
  BY DEF RefuseVote, LimiterFails, LimitInv, LimitTypeOK
<1>2. Accepted' = Accepted /\ n \notin Accepted
  BY <1>1 DEF Accepted
<1>3. \/ UNCHANGED <<log, dies>>
      \/ HasRoom(n) /\ Record(n)
      \/ TurnDown(n)
  BY DEF RefuseVote, LimiterFails
<1>4. Cardinality(log') <= Limit /\ log' \subseteq Numbers
  BY <1>3, RecordBound, TurnDownBound DEF LimitInv, LimitTypeOK
<1>5. dies' \in Nat /\ (dies' = dies \/ dies' = now + Window)
  BY <1>3, TimeAssumption DEF Record, TurnDown, LimitInv, LimitTypeOK
<1>6. LimitTypeOK'
  <2>1. phase' \in [Numbers -> {"none", "waiting", "accepted", "refused"}]
    BY DEF RefuseVote, LimiterFails, LimitInv, LimitTypeOK
  <2> QED
    BY <1>1, <1>4, <1>5, <2>1 DEF LimitInv, LimitTypeOK
<1>7. SpanHoldsLimit'
  BY <1>1, <1>2, SpanStable
<1>8. ASSUME NEW m \in Accepted
      PROVE  ranAt[m] + Window <= dies' /\ (now < ranAt[m] + Span => m \in log')
  <2>1. ranAt[m] <= now /\ ranAt[m] + Window <= dies /\ ranAt[m] \in Nat /\ now \in Nat
    BY DEF LimitInv, LimitTypeOK, Accepted
  <2>2. now < ranAt[m] + Span => m \in Recent(n) /\ m \in log
    BY <1>1, RecentKeeps DEF LimitInv
  <2> QED
    BY <1>3, <1>5, <2>1, <2>2, TimeAssumption DEF Record, TurnDown
<1>9. \A m \in Numbers : phase'[m] = "none" <=> m > sent'
  BY <1>1 DEF LimitInv
<1>10. \A m \in Numbers : phase'[m] \in {"waiting", "accepted"} => phase'[m] = phase[m]
  BY <1>1
<1> QED
  BY <1>1, <1>2, <1>4, <1>6, <1>7, <1>8, <1>9, <1>10 DEF LimitInv, Span

LEMMA TickInv == LimitInv /\ Tick => LimitInv'
<1> SUFFICES ASSUME LimitInv, Tick PROVE LimitInv'
  OBVIOUS
<1>1. /\ now \in Nat /\ now' = now + 1 /\ now' \in Nat /\ now' <= MaxTime
      /\ UNCHANGED <<sent, phase, stamp, ranAt, dies>>
      /\ log' = IF now + 1 >= dies THEN {} ELSE log
  BY TimeAssumption DEF Tick, LimitInv, LimitTypeOK
<1>2. LimitTypeOK'
  BY <1>1 DEF LimitInv, LimitTypeOK
<1>3. Cardinality(log') <= Limit
  BY <1>1, FS_EmptySet, LimitAssumption DEF LimitInv
<1>4. Accepted' = Accepted
  BY <1>1 DEF Accepted
<1>5. SpanHoldsLimit'
  BY <1>1, <1>4, SpanStable
<1>6. ASSUME NEW m \in Accepted, now' < ranAt[m] + Span PROVE m \in log'
  <2>1. m \in Numbers /\ ranAt[m] \in Nat /\ dies \in Nat
    BY DEF Accepted, LimitInv, LimitTypeOK
  <2>2. now + 1 < dies
    BY <1>1, <1>6, <2>1, TimeAssumption DEF LimitInv, Span
  <2>3. now < ranAt[m] + Span
    BY <1>1, <1>6, <2>1, TimeAssumption DEF Span
  <2> QED
    BY <1>1, <2>1, <2>2, <2>3 DEF LimitInv
<1>7. \A m \in Numbers : phase[m] \in {"waiting", "accepted"} => ranAt[m] <= now'
  BY <1>1 DEF LimitInv, LimitTypeOK
<1>8. \A m \in Numbers : phase[m] = "waiting" => now' <= ranAt[m] + MaxDelay
  BY <1>1, TimeAssumption DEF Tick, LimitInv, LimitTypeOK
<1> QED
  BY <1>1, <1>2, <1>3, <1>4, <1>5, <1>6, <1>7, <1>8 DEF LimitInv, Span

LEMMA LimitStepInv == LimitInv /\ [LimitNext]_limitVars => LimitInv'
<1> SUFFICES ASSUME LimitInv, [LimitNext]_limitVars PROVE LimitInv'
  OBVIOUS
<1>1. CASE UNCHANGED limitVars
  <2>1. Accepted' = Accepted
    BY <1>1 DEF limitVars, Accepted
  <2> QED
    BY <1>1, <2>1 DEF limitVars, LimitInv, LimitTypeOK, SpanHoldsLimit, Span
<1> QED
  BY <1>1, TakeTimeInv, AllowVoteInv, RefusedInv, TickInv DEF LimitNext, LimitStep

-----------------------------------------------------------------------------
(* The advised wait                                                         *)

LEMMA LeastNatural ==
    ASSUME NEW S, S \subseteq Nat, S # {}
    PROVE  \E n \in S : \A m \in S : n <= m
<1> DEFINE R == OpToRel(<, Nat)
<1>1. \A x, y \in Nat : y < x => <<y, x>> \in R
  BY DEF OpToRel
<1>2. IsWellFoundedOn(R, Nat)
  BY NatLessThanWellFounded
<1> HIDE DEF R
<1>3. PICK x \in S : \A y \in S : ~ (<<y, x>> \in R)
  BY <1>2, WFMin
<1>4. \A y \in S : ~ (y < x)
  BY <1>1, <1>3
<1> QED
  BY <1>4

\* Some entry that a request counts is the oldest one.
LEMMA OldestIsOldest ==
    ASSUME LimitTypeOK, NEW n \in Numbers, Recent(n) # {}
    PROVE  Oldest(n) \in Recent(n) /\ \A k \in Recent(n) : stamp[Oldest(n)] <= stamp[k]
<1> DEFINE age(m) == stamp[m] - (stamp[n] - Window)
           Ages == {age(m) : m \in Recent(n)}
<1>1. \A m \in Recent(n) : stamp[m] \in Int /\ stamp[n] \in Int /\ age(m) \in Nat
  BY TimeAssumption DEF Recent, LimitTypeOK
<1>2. Ages \subseteq Nat /\ Ages # {}
  BY <1>1
<1>3. PICK a \in Ages : \A b \in Ages : a <= b
  BY <1>2, LeastNatural
<1>4. PICK m \in Recent(n) : a = age(m)
  BY <1>3
<1>5. \A k \in Recent(n) : age(m) <= age(k)
  BY <1>3, <1>4
<1>6. \A k \in Recent(n) : stamp[m] <= stamp[k]
  BY <1>1, <1>5, TimeAssumption
<1> QED
  BY <1>4, <1>6 DEF Oldest

\* The first moment at which a refused request would pass.
Advised(n) == stamp[n] + RetryAfter(n)

\* A script that turns a request down counts the whole log, and the log is full: the
\* request passes as soon as the oldest entry has left, and not before.
LEMMA ScriptIsExact ==
    ASSUME LimitInv, NEW n \in Numbers, ~HasRoom(n)
    PROVE  RetryAfter(n) \in Nat /\ WouldPass(Advised(n)) /\ ~WouldPass(Advised(n) - 1)
<1>1. LimitTypeOK /\ IsFiniteSet(log) /\ Cardinality(log) <= Limit
  BY LogIsFinite DEF LimitInv
<1>2. /\ Recent(n) \subseteq log /\ IsFiniteSet(Recent(n))
      /\ Cardinality(Recent(n)) <= Cardinality(log)
      /\ Cardinality(Recent(n)) = Cardinality(log) => Recent(n) = log
  <2>1. Recent(n) \subseteq log
    BY DEF Recent
  <2> QED
    BY <1>1, <2>1, FS_Subset
<1>3. Cardinality(Recent(n)) \in Nat /\ Cardinality(log) \in Nat /\ Limit \in Nat
  BY <1>1, <1>2, FS_CardinalityType, LimitAssumption
<1>4. Recent(n) = log /\ Cardinality(log) = Limit
  BY <1>1, <1>2, <1>3 DEF HasRoom
<1>5. log # {}
  BY <1>4, FS_EmptySet, LimitAssumption
<1> DEFINE o == Oldest(n)
<1>6. o \in log /\ \A k \in log : stamp[o] <= stamp[k]
  BY <1>1, <1>4, <1>5, OldestIsOldest
<1>7. /\ stamp[o] \in Int /\ stamp[n] \in Int /\ stamp[o] > stamp[n] - Window
      /\ \A k \in log : stamp[k] \in Int
  BY <1>1, <1>4, <1>6 DEF Recent, LimitTypeOK
<1>8. RetryAfter(n) \in Nat /\ Advised(n) = stamp[o] + Window
  <2>1. RetryAfter(n) = IF stamp[o] + Window - stamp[n] < 0 THEN 0
                        ELSE stamp[o] + Window - stamp[n]
    BY DEF RetryAfter
  <2> HIDE DEF o
  <2> QED
    BY <1>7, <2>1, TimeAssumption DEF Advised
<1> DEFINE w == Advised(n)
           Left(t) == {m \in log : stamp[m] > t - Window}
<1> HIDE DEF o
<1>9. w \in Int /\ w - Window = stamp[o] /\ w - 1 - Window = stamp[o] - 1
  BY <1>7, <1>8, TimeAssumption
<1>10. \A t : WouldPass(t) <=> Cardinality(Left(t)) < Limit
  BY DEF WouldPass
<1>11. WouldPass(w)
  <2>1. Left(w) = {m \in log : stamp[m] > stamp[o]}
    BY <1>9
  <2>2. Left(w) \subseteq log \ {o}
    BY <1>7, <2>1
  <2>3. IsFiniteSet(log \ {o}) /\ Cardinality(log \ {o}) = Limit - 1
    BY <1>1, <1>4, <1>6, FS_RemoveElement
  <2>4. Cardinality(Left(w)) <= Limit - 1 /\ IsFiniteSet(Left(w))
    BY <2>2, <2>3, FS_Subset
  <2>5. Cardinality(Left(w)) \in Nat
    BY <2>4, FS_CardinalityType
  <2> HIDE DEF Left
  <2>6. Cardinality(Left(w)) < Limit
    BY <1>3, <2>4, <2>5
  <2> QED
    BY <1>10, <2>6
<1>12. ~WouldPass(w - 1)
  <2>1. Left(w - 1) = {m \in log : stamp[m] > stamp[o] - 1}
    BY <1>9
  <2>2. Left(w - 1) = log
    BY <1>6, <1>7, <2>1
  <2> HIDE DEF Left
  <2>3. ~(Cardinality(Left(w - 1)) < Limit)
    BY <1>3, <1>4, <2>2
  <2> QED
    BY <1>10, <2>3
<1> QED
  BY <1>8, <1>11, <1>12

\* Who passes at some moment passes later too, as long as the log is the same.
LEMMA PassesLater ==
    ASSUME LimitInv, NEW t \in Int, NEW u \in Int, t <= u, WouldPass(t)
    PROVE  WouldPass(u)
<1> DEFINE Left(v) == {m \in log : stamp[m] > v - Window}
<1>1. LimitTypeOK /\ IsFiniteSet(log) /\ Limit \in Nat
  BY LogIsFinite, LimitAssumption DEF LimitInv
<1>2. Left(u) \subseteq Left(t) /\ Left(t) \subseteq log
  BY <1>1, TimeAssumption DEF LimitTypeOK
<1>3. IsFiniteSet(Left(t))
  BY <1>1, <1>2, FS_Subset
<1>4. /\ Cardinality(Left(u)) <= Cardinality(Left(t))
      /\ IsFiniteSet(Left(u))
  BY <1>2, <1>3, FS_Subset
<1>5. Cardinality(Left(t)) \in Nat /\ Cardinality(Left(u)) \in Nat
  BY <1>3, <1>4, FS_CardinalityType
<1>6. Cardinality(Left(t)) < Limit
  BY DEF WouldPass
<1> HIDE DEF Left
<1>7. Cardinality(Left(u)) < Limit
  BY <1>1, <1>4, <1>5, <1>6
<1> QED
  BY <1>7 DEF WouldPass, Left

\* Whole seconds: more than the wait, by a second at most.
LEMMA WholeSeconds ==
    ASSUME NEW n \in Numbers, RetryAfter(n) \in Nat
    PROVE  Told(n) \in Nat /\ RetryAfter(n) < Told(n) /\ Told(n) - Second <= RetryAfter(n)
<1> DEFINE x == RetryAfter(n)
           q == x \div Second
<1>1. x \in Nat /\ Second \in Nat /\ Second > 0
  BY TimeAssumption
<1> HIDE DEF x
<1>2. q \in Nat /\ x = (Second * q) + (x % Second) /\ (x % Second) \in 0..(Second - 1)
  BY <1>1, SMT
<1>3. Told(n) = Second * q + Second
  BY DEF Told, x
<1>4. Second * q \in Nat
  BY <1>1, <1>2
<1> DEFINE p == Second * q
<1> HIDE DEF p, q
<1> QED
  BY <1>1, <1>2, <1>3, <1>4 DEF p, x

\* Waiting for whole seconds is enough, and one second less is too short.
LEMMA SufficientAdvice == LimitInv => AdviceSuffices
<1> SUFFICES ASSUME LimitInv, NEW n \in Numbers, ~HasRoom(n)
             PROVE  WouldPass(ComesBack(n)) /\ ~WouldPass(ComesBack(n) - Second - 1)
  BY DEF AdviceSuffices
<1> DEFINE first == Advised(n)
           back == ComesBack(n)
<1>1. /\ RetryAfter(n) \in Nat /\ WouldPass(first) /\ ~WouldPass(first - 1)
      /\ stamp[n] \in Int /\ Second \in Nat
  BY ScriptIsExact, TimeAssumption DEF LimitInv, LimitTypeOK
<1>2. Told(n) \in Nat /\ RetryAfter(n) < Told(n) /\ Told(n) - Second <= RetryAfter(n)
  BY <1>1, WholeSeconds
<1>3. /\ first \in Int /\ back \in Int /\ first <= back
      /\ first - 1 \in Int /\ back - Second - 1 \in Int /\ back - Second - 1 <= first - 1
  BY <1>1, <1>2 DEF Advised, ComesBack
<1>4. WouldPass(back)
  BY <1>1, <1>3, PassesLater
<1>5. ~WouldPass(back - Second - 1)
  BY <1>1, <1>3, PassesLater
<1> QED
  BY <1>4, <1>5

-----------------------------------------------------------------------------
(* The composition                                                          *)

LEMMA UserStep == [UserNext]_userVars => [SessionNext]_sessionVars /\ [LimitNext]_limitVars
  BY DEF UserNext, userVars, Account, Voting, VoteEnters, SessionNext, LimitNext

\* A user's requests are those of the session check and those of the rate limit:
\* what is proved of each of the two holds of them together.
LEMMA Composition == UserSpec => SessionSpec /\ LimitSpec
  BY UserStep, PTL DEF UserSpec, UserInit, SessionSpec, LimitSpec

\* The inductive invariant of the sessions: only a login that is under way can still
\* write one (logic/user.go:43-66).
THEOREM SessionInvariance == UserSpec => []SessionInv
<1>1. SessionSpec => []SessionInv
  BY SessionInitInv, SessionStepInv, PTL DEF SessionSpec
<1> QED
  BY <1>1, Composition, PTL

\* The session is that of the newest login until it expires or logs out itself
\* (dao/redis/session.go:8-13).
THEOREM NewestLogin == UserSpec => []NewestLoginHolds
  BY SessionInvariance, SessionInvImplies, PTL

\* Login on a single device: sessions implement SingleDevice, in which one token at
\* most is let in and none comes back (docs/PROJECT_REFACTOR_DESIGN.md, 8).
THEOREM DeviceRefinement == UserSpec => ImplementsSingleDevice
<1>1. SessionInit => Device!Init
  BY DEF SessionInit, Device!Init, Valid
<1>2. SessionSpec => Device!Spec
  BY <1>1, SessionInitInv, SessionStepInv, DeviceStep, PTL DEF SessionSpec, Device!Spec
<1> QED
  BY <1>2, Composition, PTL DEF ImplementsSingleDevice

\* A token that was logged out, or whose session ended, is never let in again
\* (middlewares/auth.go:14-61).
THEOREM LogoutHolds == UserSpec => []LogoutIsFinal
  BY SessionInvariance, SessionInvImplies, PTL

\* The inductive invariant of the rate limit: its log is never too long and has every
\* vote of the span (dao/redis/ratelimit.lua).
THEOREM LimitInvariance == UserSpec => []LimitInv
<1>1. LimitSpec => []LimitInv
  BY LimitInitInv, LimitStepInv, PTL DEF LimitSpec
<1> QED
  BY <1>1, Composition, PTL

\* Both together.
THEOREM Invariance == UserSpec => []UserInv
<1>1. SessionInv /\ LimitInv => UserInv
  BY DEF UserInv
<1> QED
  BY <1>1, SessionInvariance, LimitInvariance, PTL

\* Any span shorter than the window by the largest delay and twice the clock skew
\* sees at most Limit votes of a user pass (dao/redis/ratelimit.lua).
THEOREM LimitHolds == UserSpec => []SpanHoldsLimit
<1>1. LimitInv => SpanHoldsLimit
  BY DEF LimitInv
<1> QED
  BY <1>1, LimitInvariance, PTL

\* Who is refused passes after the Retry-After of the answer if no other vote came in
\* between, and would not after a wait more than a second shorter
\* (dao/redis/ratelimit.lua:21-31, middlewares/ratelimit.go:47).
THEOREM AdviceHolds == UserSpec => []AdviceSuffices
  BY LimitInvariance, SufficientAdvice, PTL
=============================================================================
