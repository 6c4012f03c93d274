--------------------------- MODULE SessionsProofs ---------------------------
(***************************************************************************)
(* Theorems about refresh rotation in Sessions.tla, for any number of      *)
(* accounts, sessions and concurrent refreshes.                            *)
(***************************************************************************)
EXTENDS Sessions, TLAPS

Started(r) == refreshPc[r] # "idle"

\* A refresh under way presents a token its session has issued.
PresentedOK ==
  \A r \in Refreshes :
    Started(r) =>
      /\ presented[r] \in Tokens /\ Issued(presented[r])
      /\ home[r] \in SignIns /\ SessionOf(presented[r]) = home[r]
      /\ signInPc[home[r]] = "done"

\* A session's document appears when its sign-in is done.
OpenedOK ==
  \A s \in SignIns : (session[s] # Absent <=> signInPc[s] = "done")

\* One token of session s was presented by two requests.
Shared(s) ==
  \E r, q \in Refreshes :
    /\ r # q /\ Started(r) /\ Started(q)
    /\ home[r] = s /\ home[q] = s /\ presented[r] = presented[q]

\* Until then nobody is out to kill the session, its current token is the only one not
\* presented yet or the one being rotated, unless the document is gone.
Orderly(s) ==
  /\ session[s] # "reused"
  /\ \A r \in Refreshes : home[r] = s => refreshPc[r] \notin {"kill", "killed"}
  /\ session[s] # "expired" =>
       /\ \A r \in Refreshes : home[r] = s /\ refreshPc[r] = "rotate" => presented[r] = current[s]
       /\ \A t \in Tokens :
            Issued(t) /\ SessionOf(t) = s /\ t # current[s] =>
              \E r \in Refreshes : Started(r) /\ home[r] = s /\ presented[r] = t

\* An authenticated request came with a token of a session that was opened, and a role
\* change under way is of a user.
CallOK ==
  \A q \in Requests :
    /\ requestPc[q] # "idle" =>
         call[q].session \in SignIns /\ signInPc[call[q].session] = "done"
    /\ requestPc[q] \in {"count", "roles"} => call[q].target \in Users

BaseInv == SessionsTypeOK /\ OpenedOK /\ CallOK

RotationOK ==
  /\ PresentedOK
  /\ BurntStaysBurnt
  /\ \A s \in SignIns : Shared(s) \/ Orderly(s)

RotationInv == BaseInv /\ RotationOK

LEMMA InitRotationInv == SessionsInit => RotationInv
  BY SessionsAssumption
  DEF SessionsInit, RotationInv, BaseInv, RotationOK, SessionsTypeOK, OpenedOK, CallOK,
      PresentedOK, BurntStaysBurnt, Shared, Orderly, Started, Issued, Tokens, NoCall,
      UserStatus, SessionState, Absent

-----------------------------------------------------------------------------
\* Types, documents and requests.

LEMMA SignInBase ==
  ASSUME BaseInv, NEW s \in SignIns,
         \/ \E u \in Users, password \in BOOLEAN : ReadAccount(s, u, password)
         \/ OpenSession(s) \/ ExpireSession(s)
  PROVE  BaseInv'
<1> USE DEF BaseInv, users, sessions, refreshing, requesting
<1>1. CASE \E u \in Users, password \in BOOLEAN : ReadAccount(s, u, password)
  <2>1. SessionsTypeOK'
    BY <1>1 DEF ReadAccount, SessionsTypeOK
  <2>2. OpenedOK' /\ CallOK'
    BY <1>1 DEF ReadAccount, SessionsTypeOK, OpenedOK, CallOK
  <2> QED BY <2>1, <2>2
<1>2. CASE OpenSession(s)
  <2>1. SessionsTypeOK'
    BY <1>2 DEF OpenSession, SessionsTypeOK, SessionState, Tokens
  <2>2. OpenedOK' /\ CallOK'
    BY <1>2 DEF OpenSession, SessionsTypeOK, OpenedOK, CallOK, Absent
  <2> QED BY <2>1, <2>2
<1>3. CASE ExpireSession(s)
  <2>1. SessionsTypeOK'
    BY <1>3 DEF ExpireSession, SessionsTypeOK, SessionState, signIns
  <2>2. OpenedOK' /\ CallOK'
    BY <1>3 DEF ExpireSession, SessionsTypeOK, OpenedOK, CallOK, Absent, signIns
  <2> QED BY <2>1, <2>2
<1> QED BY <1>1, <1>2, <1>3

LEMMA RefreshBase ==
  ASSUME BaseInv, PresentedOK, NEW r \in Refreshes,
         (\E t \in Tokens : PresentToken(r, t)) \/ KillSession(r) \/ RotateToken(r)
  PROVE  BaseInv'
<1> USE DEF BaseInv, users, sessions, signIns, requesting
<1>1. ASSUME NEW t \in Tokens, PresentToken(r, t) PROVE BaseInv'
  <2>1. SessionOf(t) \in SignIns \union {None}
    BY DEF SessionOf, SessionsTypeOK, Tokens
  <2>2. SessionsTypeOK'
    BY <1>1, <2>1 DEF PresentToken, SessionsTypeOK
  <2>3. OpenedOK' /\ CallOK'
    BY <1>1 DEF PresentToken, OpenedOK, CallOK
  <2> QED BY <2>2, <2>3
<1>2. CASE KillSession(r)
  <2>1. home[r] \in SignIns /\ signInPc[home[r]] = "done"
    BY <1>2 DEF KillSession, PresentedOK, Started
  <2>2. SessionsTypeOK'
    BY <1>2, <2>1 DEF KillSession, End, SessionsTypeOK, SessionState
  <2>3. OpenedOK' /\ CallOK'
    BY <1>2, <2>1 DEF KillSession, End, SessionsTypeOK, OpenedOK, CallOK, Absent
  <2> QED BY <2>2, <2>3
<1>3. CASE RotateToken(r)
  <2>1. home[r] \in SignIns
    BY <1>3 DEF RotateToken, PresentedOK, Started
  <2>2. SessionsTypeOK'
    BY <1>3, <2>1 DEF RotateToken, SessionsTypeOK, Tokens
  <2>3. OpenedOK' /\ CallOK'
    BY <1>3 DEF RotateToken, OpenedOK, CallOK
  <2> QED BY <2>2, <2>3
<1> QED BY <1>1, <1>2, <1>3

Carried ==
  [session : SignIns \union {None}, admin : BOOLEAN,
   target : Users \union {None}, grant : BOOLEAN]

\* Writing what a request carries keeps its type.
LEMMA NoteAdmin ==
  ASSUME call \in [Requests -> Carried], NEW q \in Requests, NEW b \in BOOLEAN
  PROVE  [call EXCEPT ![q].admin = b] \in [Requests -> Carried]
  BY DEF Carried

LEMMA NoteActor ==
  ASSUME call \in [Requests -> Carried], NEW q \in Requests
  PROVE  [call EXCEPT ![q].admin = Actor(q) \in supers] \in [Requests -> Carried]
<1> DEFINE admin == Actor(q) \in supers
<1>1. admin \in BOOLEAN OBVIOUS
<1> HIDE DEF admin
<1>2. [call EXCEPT ![q].admin = admin] \in [Requests -> Carried]
  BY <1>1, NoteAdmin
<1> QED BY <1>2 DEF admin

LEMMA NoteTarget ==
  ASSUME call \in [Requests -> Carried], NEW q \in Requests, NEW u \in Users
  PROVE  [call EXCEPT ![q].target = u] \in [Requests -> Carried]
  BY DEF Carried

LEMMA NoteGrant ==
  ASSUME call \in [Requests -> Carried], NEW q \in Requests, NEW u \in Users,
         NEW grant \in BOOLEAN
  PROVE  [call EXCEPT ![q].target = u, ![q].grant = grant] \in [Requests -> Carried]
  BY DEF Carried

\* A request that ends carries nothing.
LEMMA EndRequestFacts ==
  ASSUME BaseInv, NEW q \in Requests, EndRequest(q)
  PROVE  /\ requestPc' \in [Requests -> {"idle", "user", "act", "revoke", "count", "roles"}]
         /\ call' \in [Requests -> [session : SignIns \union {None}, admin : BOOLEAN,
                                   target : Users \union {None}, grant : BOOLEAN]]
         /\ signInPc' = signInPc => CallOK'
  BY DEF BaseInv, SessionsTypeOK, CallOK, EndRequest, MoveRequest, NoCall

LEMMA PrincipalBase ==
  ASSUME BaseInv, NEW q \in Requests,
         (\E s \in SignIns : LoadSession(q, s)) \/ LoadUser(q) \/ Finish(q)
  PROVE  BaseInv'
<1> USE DEF BaseInv, users, sessions, signIns, refreshing
<1>1. ASSUME NEW s \in SignIns, LoadSession(q, s) PROVE BaseInv'
  <2>1. SessionsTypeOK'
    BY <1>1 DEF LoadSession, MoveRequest, NoCall, SessionsTypeOK
  <2>2. OpenedOK' /\ CallOK'
    BY <1>1 DEF LoadSession, MoveRequest, NoCall, SessionsTypeOK, OpenedOK, CallOK
  <2> QED BY <2>1, <2>2
<1>2. CASE LoadUser(q)
  <2>1. CASE EndRequest(q)
    <3>1. SessionsTypeOK' /\ CallOK'
      BY <1>2, <2>1, EndRequestFacts DEF LoadUser, SessionsTypeOK
    <3> QED BY <1>2, <3>1 DEF LoadUser, OpenedOK
  <2>2. CASE ~EndRequest(q)
    <3>1. call' \in [Requests -> Carried]
      BY <1>2, <2>2, NoteActor DEF LoadUser, SessionsTypeOK, Carried
    <3>2. SessionsTypeOK'
      BY <1>2, <2>2, <3>1 DEF LoadUser, MoveRequest, SessionsTypeOK, Carried
    <3>3. OpenedOK' /\ CallOK'
      BY <1>2, <2>2 DEF LoadUser, MoveRequest, SessionsTypeOK, OpenedOK, CallOK
    <3> QED BY <3>2, <3>3
  <2> QED BY <2>1, <2>2
<1>3. CASE Finish(q)
  <2>1. SessionsTypeOK' /\ CallOK'
    BY <1>3, EndRequestFacts DEF Finish, SessionsTypeOK
  <2> QED BY <1>3, <2>1 DEF Finish, OpenedOK
<1> QED BY <1>1, <1>2, <1>3

\* The requests that end sessions, each a document that exists.
LEMMA EndingBase ==
  ASSUME BaseInv, NEW q \in Requests,
         Logout(q) \/ RevokeAfterStatus(q) \/ (\E u \in Users : RevokeAllSessions(q, u))
  PROVE  BaseInv'
<1> USE DEF BaseInv, users, signIns, refreshing
<1>1. UNCHANGED <<users, current, signIns, refreshing>> /\ EndRequest(q)
  BY DEF Logout, RevokeAfterStatus, RevokeAllSessions
<1>2. session' \in [SignIns -> SessionState] /\ OpenedOK'
  <2>1. CASE Logout(q)
    <3>1. call[q].session \in SignIns /\ signInPc[call[q].session] = "done"
      BY <2>1 DEF Logout, CallOK
    <3> QED BY <1>1, <2>1, <3>1 DEF Logout, End, SessionsTypeOK, SessionState, OpenedOK, Absent
  <2>2. CASE ~Logout(q)
    <3>1. PICK u : RevokeSessionsOf(u)
      BY <2>2 DEF RevokeAfterStatus, RevokeAllSessions
    <3> QED BY <1>1, <3>1
            DEF RevokeSessionsOf, SessionsTypeOK, SessionState, OpenedOK, Absent
  <2> QED BY <2>1, <2>2
<1>3. SessionsTypeOK' /\ CallOK'
  BY <1>1, <1>2, EndRequestFacts DEF SessionsTypeOK
<1> QED BY <1>2, <1>3

LEMMA ResetBase == BaseInv /\ ResetPassword => BaseInv'
BY DEF ResetPassword, BaseInv, SessionsTypeOK, SessionState, OpenedOK, CallOK, Absent,
       users, signIns, refreshing, requesting

LEMMA ConsoleBase ==
  ASSUME BaseInv, NEW q \in Requests,
         \/ \E u \in Users, s \in Settable : SetStatus(q, u, s)
         \/ \E u \in Users, grant \in BOOLEAN : ReadRoles(q, u, grant)
         \/ CountSupers(q) \/ WriteRoles(q)
  PROVE  BaseInv'
<1> USE DEF BaseInv, users, sessions, signIns, refreshing
<1>1. ASSUME NEW u \in Users, NEW s \in Settable, SetStatus(q, u, s) PROVE BaseInv'
  <2>1. status' \in [Users -> UserStatus]
    BY <1>1, SessionsAssumption DEF SetStatus, SessionsTypeOK
  <2>2. CASE s = "ACTIVE"
    <3>1. SessionsTypeOK' /\ CallOK'
      BY <1>1, <2>1, <2>2, EndRequestFacts DEF SetStatus, SessionsTypeOK
    <3> QED BY <1>1, <3>1 DEF SetStatus, OpenedOK
  <2>3. CASE s # "ACTIVE"
    <3>0. call' = [call EXCEPT ![q].target = u] /\ call \in [Requests -> Carried]
      BY <1>1, <2>3 DEF SetStatus, SessionsTypeOK, Carried
    <3>1. call' \in [Requests -> Carried]
      BY <3>0, NoteTarget
    <3>2. SessionsTypeOK'
      BY <1>1, <2>1, <2>3, <3>1 DEF SetStatus, MoveRequest, SessionsTypeOK, Carried
    <3>3. OpenedOK' /\ CallOK'
      BY <1>1, <2>3 DEF SetStatus, MoveRequest, SessionsTypeOK, OpenedOK, CallOK
    <3> QED BY <3>2, <3>3
  <2> QED BY <2>2, <2>3
<1>2. ASSUME NEW u \in Users, NEW grant \in BOOLEAN, ReadRoles(q, u, grant) PROVE BaseInv'
  <2>1. call' \in [Requests -> Carried]
    BY <1>2, NoteGrant DEF ReadRoles, SessionsTypeOK, Carried
  <2>2. SessionsTypeOK'
    BY <1>2, <2>1 DEF ReadRoles, MoveRequest, SessionsTypeOK, Carried
  <2>3. call'[q].session = call[q].session /\ call'[q].target = u
    BY <1>2 DEF ReadRoles, SessionsTypeOK
  <2>4. \A p \in Requests \ {q} : call'[p] = call[p] /\ requestPc'[p] = requestPc[p]
    BY <1>2 DEF ReadRoles, MoveRequest, SessionsTypeOK
  <2>5. OpenedOK' /\ requestPc[q] = "act" /\ signInPc' = signInPc
    BY <1>2 DEF ReadRoles, OpenedOK
  <2>6. CallOK'
    BY <2>3, <2>4, <2>5 DEF CallOK
  <2> QED BY <2>2, <2>5, <2>6
<1>3. CASE CountSupers(q)
  <2>1. CASE EndRequest(q)
    <3>1. SessionsTypeOK' /\ CallOK'
      BY <1>3, <2>1, EndRequestFacts DEF CountSupers, SessionsTypeOK
    <3> QED BY <1>3, <3>1 DEF CountSupers, OpenedOK
  <2>2. CASE ~EndRequest(q)
    <3>1. SessionsTypeOK'
      BY <1>3, <2>2 DEF CountSupers, MoveRequest, SessionsTypeOK
    <3>2. OpenedOK' /\ CallOK'
      BY <1>3, <2>2 DEF CountSupers, MoveRequest, SessionsTypeOK, OpenedOK, CallOK
    <3> QED BY <3>1, <3>2
  <2> QED BY <2>1, <2>2
<1>4. CASE WriteRoles(q)
  <2>1. supers' \subseteq Users
    BY <1>4 DEF WriteRoles, CallOK, SessionsTypeOK
  <2>2. SessionsTypeOK' /\ CallOK'
    BY <1>4, <2>1, EndRequestFacts DEF WriteRoles, SessionsTypeOK
  <2> QED BY <1>4, <2>2 DEF WriteRoles, OpenedOK
<1> QED BY <1>1, <1>2, <1>3, <1>4

-----------------------------------------------------------------------------
\* Rotation.

\* What leaves tokens and documents alone.
LEMMA RotationStutter ==
  ASSUME RotationOK, UNCHANGED <<session, current, refreshPc, presented, home>>,
         \A s \in SignIns : signInPc'[s] = "done" <=> signInPc[s] = "done"
  PROVE  RotationOK'
<1>1. \A t \in Tokens : (Issued(t)' <=> Issued(t)) /\ SessionOf(t)' = SessionOf(t)
  BY DEF Issued, SessionOf
<1>2. PresentedOK'
  BY <1>1 DEF RotationOK, PresentedOK, Started
<1>3. BurntStaysBurnt'
  BY DEF RotationOK, BurntStaysBurnt
<1>4. ASSUME NEW s \in SignIns PROVE Shared(s)' \/ Orderly(s)'
  BY <1>1 DEF RotationOK, Shared, Orderly, Started
<1> QED BY <1>2, <1>3, <1>4 DEF RotationOK

\* A session may end otherwise than for reuse, at any time, and an expired one stays so.
LEMMA RotationEnding ==
  ASSUME RotationOK, UNCHANGED <<current, signInPc, refreshPc, presented, home>>,
         \A s \in SignIns :
           session'[s] # session[s] =>
             session[s] # "expired" /\ session'[s] \in {"revoked", "expired"}
  PROVE  RotationOK'
<1>1. \A t \in Tokens : (Issued(t)' <=> Issued(t)) /\ SessionOf(t)' = SessionOf(t)
  BY DEF Issued, SessionOf
<1>2. PresentedOK'
  BY <1>1 DEF RotationOK, PresentedOK, Started
<1>3. BurntStaysBurnt'
  BY <1>2 DEF RotationOK, BurntStaysBurnt, PresentedOK, Started
<1>4. ASSUME NEW s \in SignIns PROVE Shared(s)' \/ Orderly(s)'
  BY <1>1 DEF RotationOK, Shared, Orderly, Started
<1> QED BY <1>2, <1>3, <1>4 DEF RotationOK

LEMMA RotationOpen ==
  ASSUME BaseInv, RotationOK, NEW s \in SignIns, OpenSession(s)
  PROVE  RotationOK'
<1> USE DEF RotationOK, refreshing
<1>1. /\ signInPc[s] # "done"
      /\ signInPc' = [signInPc EXCEPT ![s] = "done"]
      /\ UNCHANGED <<refreshPc, presented, home>>
  BY DEF OpenSession
<1>2. \A r \in Refreshes : Started(r) => home[r] # s
  BY <1>1 DEF PresentedOK
<1>3. \A t \in Tokens : SessionOf(t)' = SessionOf(t) /\ (Issued(t)' <=> Issued(t) \/ t = s)
  BY <1>1, SessionsAssumption DEF Issued, SessionOf, Tokens, BaseInv, SessionsTypeOK
<1>4. PresentedOK'
  BY <1>1, <1>3 DEF PresentedOK, Started, BaseInv, SessionsTypeOK
<1>5. \A i \in SignIns \ {s} : session'[i] = session[i] /\ current'[i] = current[i]
  BY DEF OpenSession, BaseInv, SessionsTypeOK
<1>6. session'[s] = "live" /\ current'[s] = s
  BY DEF OpenSession, BaseInv, SessionsTypeOK
<1>7. BurntStaysBurnt'
  BY <1>1, <1>2, <1>5 DEF BurntStaysBurnt, PresentedOK, Started
<1>8. ASSUME NEW i \in SignIns PROVE Shared(i)' \/ Orderly(i)'
  <2>1. CASE i = s
    <3>1. \A t \in Tokens : Issued(t)' /\ SessionOf(t)' = s => t = s
      BY <1>2, <1>3 DEF Issued, SessionOf, Tokens, Started
    <3>2. \A r \in Refreshes : home'[r] = s => refreshPc'[r] = "idle"
      BY <1>1, <1>2 DEF Started
    <3> QED BY <1>6, <2>1, <3>1, <3>2 DEF Orderly
  <2>2. CASE i # s
    <3>1. Shared(i) => Shared(i)'
      BY <1>1 DEF Shared, Started
    <3>2. SessionOf(s)' = s
      BY DEF SessionOf
    <3>3. Orderly(i) => Orderly(i)'
      BY <1>1, <1>3, <1>5, <2>2, <3>2 DEF Orderly, Started
    <3> QED BY <3>1, <3>3
  <2> QED BY <2>1, <2>2
<1> QED BY <1>4, <1>7, <1>8

LEMMA RotationPresent ==
  ASSUME BaseInv, RotationOK, NEW r \in Refreshes, NEW t \in Tokens, PresentToken(r, t)
  PROVE  RotationOK'
<1> DEFINE h == SessionOf(t)
<1> USE DEF RotationOK
<1>1. refreshPc[r] = "idle" /\ Issued(t) /\ session[h] = "live"
  BY DEF PresentToken
<1>2. UNCHANGED <<session, current, signInPc>>
  BY DEF PresentToken, sessions, signIns
<1>3. \A q \in Refreshes \ {r} :
        presented'[q] = presented[q] /\ home'[q] = home[q] /\ refreshPc'[q] = refreshPc[q]
  BY DEF PresentToken, BaseInv, SessionsTypeOK
<1>4. presented'[r] = t /\ home'[r] = h
      /\ refreshPc'[r] = IF current[h] = t THEN "rotate" ELSE "kill"
  BY DEF PresentToken, BaseInv, SessionsTypeOK
<1> HIDE DEF h
<1>5. ~Issued(r) /\ ~Issued(r)' /\ t # r
  BY <1>1, <1>4, SessionsAssumption DEF Issued
<1>6. \A x \in Tokens : (Issued(x)' <=> Issued(x)) /\ (x # r => SessionOf(x)' = SessionOf(x))
  BY <1>2, <1>3, <1>5 DEF Issued, SessionOf, Tokens
<1>7. h \in SignIns /\ signInPc[h] = "done"
  BY <1>1 DEF h, Issued, SessionOf, Tokens, PresentedOK, Started
<1>8. PresentedOK'
  <2>1. ASSUME NEW q \in Refreshes, q # r, Started(q)'
        PROVE  /\ presented'[q] \in Tokens /\ Issued(presented[q])'
               /\ home'[q] \in SignIns /\ SessionOf(presented[q])' = home'[q]
               /\ signInPc'[home'[q]] = "done"
    <3>1. Started(q) /\ presented'[q] = presented[q] /\ home'[q] = home[q]
      BY <1>3, <2>1 DEF Started
    <3> QED BY <1>2, <1>5, <1>6, <3>1 DEF PresentedOK
  <2>2. /\ presented'[r] \in Tokens /\ Issued(presented[r])'
        /\ home'[r] \in SignIns /\ SessionOf(presented[r])' = home'[r]
        /\ signInPc'[home'[r]] = "done"
    BY <1>1, <1>2, <1>4, <1>5, <1>6, <1>7 DEF h
  <2> QED BY <2>1, <2>2 DEF PresentedOK
<1>9. BurntStaysBurnt'
  BY <1>2, <1>3, <1>4 DEF BurntStaysBurnt
<1>10. ASSUME NEW s \in SignIns PROVE Shared(s)' \/ Orderly(s)'
  <2>1. Shared(s) => Shared(s)'
    BY <1>1, <1>3 DEF Shared, Started
  <2>2. CASE Orderly(s) /\ (s # h \/ current[h] = t)
    <3>1. \A q \in Refreshes :
            home'[q] = s => q = r \/ (home[q] = s /\ refreshPc'[q] = refreshPc[q])
      BY <1>3
    <3>2. \A q \in Refreshes : home'[q] = s => refreshPc'[q] \notin {"kill", "killed"}
      BY <1>4, <2>2, <3>1 DEF Orderly
    <3>3. \A q \in Refreshes :
            session[s] # "expired" /\ home'[q] = s /\ refreshPc'[q] = "rotate"
              => presented'[q] = current[s]
      BY <1>3, <1>4, <2>2, <3>1 DEF Orderly
    <3>4. ASSUME NEW x \in Tokens, Issued(x)', SessionOf(x)' = s, x # current[s],
                 session[s] # "expired"
          PROVE  \E q \in Refreshes : Started(q)' /\ home'[q] = s /\ presented'[q] = x
      <4>1. Issued(x) /\ SessionOf(x) = s
        BY <1>5, <1>6, <3>4
      <4>2. PICK q \in Refreshes : Started(q) /\ home[q] = s /\ presented[q] = x
        BY <2>2, <3>4, <4>1 DEF Orderly
      <4> QED BY <1>1, <1>3, <4>2 DEF Started
    <3>5. session'[s] # "reused"
      BY <1>2, <2>2 DEF Orderly
    <3> QED BY <1>2, <3>2, <3>3, <3>4, <3>5 DEF Orderly
  <2>3. CASE Orderly(s) /\ s = h /\ current[h] # t
    <3>1. PICK q \in Refreshes : Started(q) /\ home[q] = s /\ presented[q] = t
      BY <1>1, <2>3 DEF Orderly, h
    <3>2. q # r
      BY <1>1, <3>1 DEF Started
    <3> QED BY <1>3, <1>4, <2>3, <3>1, <3>2 DEF Shared, Started
  <2> QED BY <2>1, <2>2, <2>3
<1> QED BY <1>8, <1>9, <1>10

LEMMA RotationKill ==
  ASSUME BaseInv, RotationOK, NEW r \in Refreshes, KillSession(r)
  PROVE  RotationOK'
<1> USE DEF RotationOK
<1>1. refreshPc[r] = "kill" /\ home[r] \in SignIns
  BY DEF KillSession, PresentedOK, Started
<1>2. UNCHANGED <<current, signInPc, presented, home>>
  BY DEF KillSession, signIns
<1>3. \A q \in Refreshes : refreshPc'[q] = IF q = r THEN "killed" ELSE refreshPc[q]
  BY DEF KillSession, BaseInv, SessionsTypeOK
<1>4. /\ \A s \in SignIns \ {home[r]} : session'[s] = session[s]
      /\ session'[home[r]] # "live"
  BY <1>1 DEF KillSession, End, BaseInv, SessionsTypeOK
<1>5. \A t \in Tokens : (Issued(t)' <=> Issued(t)) /\ SessionOf(t)' = SessionOf(t)
  BY <1>1, <1>2, <1>3 DEF Issued, SessionOf, Tokens
<1>6. \A q \in Refreshes : Started(q)' <=> Started(q)
  BY <1>1, <1>3 DEF Started
<1>7. PresentedOK'
  BY <1>2, <1>5, <1>6 DEF PresentedOK
<1>8. BurntStaysBurnt'
  BY <1>2, <1>3, <1>4, <1>6 DEF BurntStaysBurnt, PresentedOK, Started
<1>9. ASSUME NEW s \in SignIns PROVE Shared(s)' \/ Orderly(s)'
  <2>1. Shared(s) => Shared(s)'
    BY <1>2, <1>6 DEF Shared
  <2>2. Orderly(s) => home[r] # s
    BY <1>1 DEF Orderly
  <2>3. Orderly(s) => Orderly(s)'
    <3> SUFFICES ASSUME Orderly(s) PROVE Orderly(s)'
      OBVIOUS
    <3>1. session'[s] = session[s]
      BY <1>4, <2>2
    <3>2. \A q \in Refreshes : home[q] = s => refreshPc'[q] = refreshPc[q]
      BY <1>3, <2>2
    <3> QED BY <1>2, <1>5, <1>6, <3>1, <3>2 DEF Orderly
  <2> QED BY <2>1, <2>3
<1> QED BY <1>7, <1>8, <1>9

LEMMA RotationRotate ==
  ASSUME BaseInv, RotationOK, NEW r \in Refreshes, RotateToken(r)
  PROVE  RotationOK'
<1> DEFINE h == home[r]
<1> USE DEF RotationOK
<1>1. refreshPc[r] = "rotate" /\ h \in SignIns
  BY DEF RotateToken, PresentedOK, Started
<1>2. UNCHANGED <<session, signInPc, presented, home>>
  BY DEF RotateToken, signIns
<1>3. \A q \in Refreshes : refreshPc'[q] = IF q = r THEN "done" ELSE refreshPc[q]
  BY DEF RotateToken, BaseInv, SessionsTypeOK
<1>4. /\ \A s \in SignIns \ {h} : current'[s] = current[s]
      /\ session[h] # "expired" => current'[h] = r
  BY <1>1 DEF RotateToken, BaseInv, SessionsTypeOK
<1>5. ~Issued(r) /\ SessionOf(r) = h
  BY <1>1, SessionsAssumption DEF Issued, SessionOf
<1>6. \A t \in Tokens : (Issued(t)' <=> Issued(t) \/ t = r) /\ SessionOf(t)' = SessionOf(t)
  BY <1>2, <1>3, SessionsAssumption DEF Issued, SessionOf, Tokens
<1>7. \A q \in Refreshes : Started(q)' <=> Started(q)
  BY <1>1, <1>3 DEF Started
<1>8. PresentedOK'
  BY <1>2, <1>6, <1>7 DEF PresentedOK
<1>9. \A q \in Refreshes : Started(q) => presented[q] # r
  BY <1>5 DEF PresentedOK
<1> HIDE DEF h
<1>10. BurntStaysBurnt'
  <2> SUFFICES ASSUME NEW q \in Refreshes, refreshPc'[q] = "done", session[home[q]] = "live"
               PROVE  current'[home[q]] # presented[q]
    BY <1>2 DEF BurntStaysBurnt
  <2>1. Started(q) /\ home[q] \in SignIns
    BY <1>7 DEF PresentedOK, Started
  <2>2. CASE home[q] = h
    BY <1>4, <1>9, <2>1, <2>2
  <2>3. CASE home[q] # h
    <3>1. q # r /\ refreshPc[q] = "done"
      BY <1>3, <2>3 DEF h
    <3> QED BY <1>4, <2>1, <2>3, <3>1 DEF BurntStaysBurnt
  <2> QED BY <2>2, <2>3
<1>11. ASSUME NEW s \in SignIns PROVE Shared(s)' \/ Orderly(s)'
  <2>1. Shared(s) => Shared(s)'
    BY <1>2, <1>7 DEF Shared
  <2>2. ASSUME Orderly(s), ~Shared(s), s = h PROVE Orderly(s)'
    <3>1. session'[s] # "reused"
          /\ \A q \in Refreshes : home'[q] = s => refreshPc'[q] \notin {"kill", "killed"}
      BY <1>2, <1>3, <2>2 DEF Orderly
    <3>2. CASE session[s] = "expired"
      BY <1>2, <3>1, <3>2 DEF Orderly
    <3>3. CASE session[s] # "expired"
      <4>1. presented[r] = current[s] /\ home[r] = s /\ Started(r) /\ current'[s] = r
        BY <1>1, <1>4, <2>2, <3>3 DEF Orderly, Started, h
      <4>2. \A q \in Refreshes : home[q] = s => refreshPc'[q] # "rotate"
        <5> SUFFICES ASSUME NEW q \in Refreshes, home[q] = s, refreshPc'[q] = "rotate"
                     PROVE  FALSE
          OBVIOUS
        <5>1. q # r /\ refreshPc[q] = "rotate"
          BY <1>3
        <5>2. presented[q] = current[s] /\ Started(q)
          BY <2>2, <3>3, <5>1 DEF Orderly, Started
        <5> QED BY <2>2, <4>1, <5>1, <5>2 DEF Shared
      <4>3. ASSUME NEW t \in Tokens, Issued(t)', SessionOf(t)' = s, t # r
            PROVE  \E q \in Refreshes : Started(q)' /\ home'[q] = s /\ presented'[q] = t
        <5>1. Issued(t) /\ SessionOf(t) = s
          BY <1>6, <4>3
        <5>2. PICK q \in Refreshes : Started(q) /\ home[q] = s /\ presented[q] = t
          BY <2>2, <3>3, <4>1, <5>1 DEF Orderly
        <5> QED BY <1>2, <1>7, <5>2
      <4> QED BY <1>2, <3>1, <4>1, <4>2, <4>3 DEF Orderly
    <3> QED BY <3>2, <3>3
  <2>3. ASSUME Orderly(s), s # h PROVE Orderly(s)'
    <3>1. current'[s] = current[s]
      BY <1>4, <2>3
    <3>2. \A q \in Refreshes : home[q] = s => refreshPc'[q] = refreshPc[q]
      BY <1>3, <2>3 DEF h
    <3>3. \A t \in Tokens : Issued(t)' /\ SessionOf(t)' = s => Issued(t) /\ SessionOf(t) = s
      BY <1>5, <1>6, <2>3
    <3> QED BY <1>2, <1>7, <2>3, <3>1, <3>2, <3>3 DEF Orderly
  <2> QED BY <2>1, <2>2, <2>3
<1> QED BY <1>8, <1>10, <1>11

-----------------------------------------------------------------------------
\* Every step.

LEMMA StepRotationInv ==
  ASSUME RotationInv, [SessionsNext]_vars
  PROVE  RotationInv'
<1> USE DEF RotationInv
<1>1. ASSUME NEW s \in SignIns, NEW u \in Users, NEW password \in BOOLEAN,
             ReadAccount(s, u, password)
      PROVE  RotationInv'
  <2>1. BaseInv'
    BY <1>1, SignInBase
  <2>2. RotationOK'
    BY <1>1, RotationStutter
    DEF ReadAccount, sessions, refreshing, BaseInv, SessionsTypeOK
  <2> QED BY <2>1, <2>2
<1>2. ASSUME NEW s \in SignIns, OpenSession(s) PROVE RotationInv'
  BY <1>2, SignInBase, RotationOpen
<1>3. ASSUME NEW s \in SignIns, ExpireSession(s) PROVE RotationInv'
  <2>1. BaseInv'
    BY <1>3, SignInBase
  <2>2. RotationOK'
    BY <1>3, RotationEnding
    DEF ExpireSession, signIns, refreshing, BaseInv, SessionsTypeOK
  <2> QED BY <2>1, <2>2
<1>4. ASSUME NEW r \in Refreshes, NEW t \in Tokens, PresentToken(r, t) PROVE RotationInv'
  BY <1>4, RefreshBase, RotationPresent DEF RotationOK
<1>5. ASSUME NEW r \in Refreshes, KillSession(r) PROVE RotationInv'
  BY <1>5, RefreshBase, RotationKill DEF RotationOK
<1>6. ASSUME NEW r \in Refreshes, RotateToken(r) PROVE RotationInv'
  BY <1>6, RefreshBase, RotationRotate DEF RotationOK
<1>7. ASSUME NEW q \in Requests,
             (\E s \in SignIns : LoadSession(q, s)) \/ LoadUser(q) \/ Finish(q)
      PROVE  RotationInv'
  <2>1. BaseInv'
    BY <1>7, PrincipalBase
  <2>2. UNCHANGED <<session, current, refreshPc, presented, home, signInPc>>
    BY <1>7 DEF LoadSession, LoadUser, Finish, sessions, signIns, refreshing
  <2> QED BY <2>1, <2>2, RotationStutter
<1>8. ASSUME NEW q \in Requests,
             Logout(q) \/ RevokeAfterStatus(q) \/ (\E u \in Users : RevokeAllSessions(q, u))
      PROVE  RotationInv'
  <2>1. BaseInv'
    BY <1>8, EndingBase
  <2>2. UNCHANGED <<current, signInPc, refreshPc, presented, home>>
    BY <1>8 DEF Logout, RevokeAfterStatus, RevokeAllSessions, signIns, refreshing
  <2>3. \A s \in SignIns :
          session'[s] # session[s] => session[s] # "expired" /\ session'[s] = "revoked"
    BY <1>8 DEF Logout, RevokeAfterStatus, RevokeAllSessions, End, RevokeSessionsOf,
                BaseInv, SessionsTypeOK
  <2> QED BY <2>1, <2>2, <2>3, RotationEnding
<1>9. ASSUME NEW q \in Requests,
             \/ \E u \in Users, s \in Settable : SetStatus(q, u, s)
             \/ \E u \in Users, grant \in BOOLEAN : ReadRoles(q, u, grant)
             \/ CountSupers(q) \/ WriteRoles(q)
      PROVE  RotationInv'
  <2>1. BaseInv'
    BY <1>9, ConsoleBase
  <2>2. UNCHANGED <<session, current, refreshPc, presented, home, signInPc>>
    BY <1>9 DEF SetStatus, ReadRoles, CountSupers, WriteRoles, sessions, signIns, refreshing
  <2> QED BY <2>1, <2>2, RotationStutter
<1>10. CASE ResetPassword
  <2>1. BaseInv'
    BY <1>10, ResetBase
  <2>2. UNCHANGED <<current, signInPc, refreshPc, presented, home>>
    BY <1>10 DEF ResetPassword, signIns, refreshing
  <2>3. \A s \in SignIns :
          session'[s] # session[s] => session[s] # "expired" /\ session'[s] = "revoked"
    BY <1>10 DEF ResetPassword, BaseInv, SessionsTypeOK
  <2> QED BY <2>1, <2>2, <2>3, RotationEnding
<1>11. CASE UNCHANGED vars
  BY <1>11
  DEF vars, BaseInv, RotationOK, SessionsTypeOK, OpenedOK, CallOK, PresentedOK,
      BurntStaysBurnt, Shared, Orderly, Started, Issued, SessionOf
<1> QED
  BY <1>1, <1>2, <1>3, <1>4, <1>5, <1>6, <1>7, <1>8, <1>9, <1>10, <1>11
  DEF SessionsNext, RequestStep, ConsoleStep

LEMMA RotationInvariant == SessionsSpec => []RotationInv
  BY InitRotationInv, StepRotationInv, PTL DEF SessionsSpec

-----------------------------------------------------------------------------
\* Accounts, sessions, refreshes and requests keep their types.
THEOREM SessionsTypes == SessionsSpec => []SessionsTypeOK
  BY RotationInvariant, PTL DEF RotationInv, BaseInv

\* refresh: whatever rotations, revocations and expiries race, a token that bought
\* another never becomes the one its session accepts.
THEOREM RotationBurns == SessionsSpec => []BurntStaysBurnt
  BY RotationInvariant, PTL DEF RotationInv, RotationOK

\* refresh: revoked_reason reuse_detected is evidence, for any number of concurrent
\* refreshes: two requests presented the same token of that session.
THEOREM ReuseIsReal == SessionsSpec => []KilledMeansReused
<1>1. RotationInv => KilledMeansReused
  BY DEF RotationInv, RotationOK, Shared, Orderly, KilledMeansReused
<1> QED BY <1>1, RotationInvariant, PTL

\* No write of a sign-in, a refresh, a logout or the console brings a session back.
THEOREM SessionsEnd == SessionsSpec => OverIsFinal
<1>1. ASSUME RotationInv, [SessionsNext]_vars
      PROVE  \A s \in SignIns :
               session[s] \in {"revoked", "reused", "expired"} => session'[s] # "live"
  <2>1. ASSUME NEW i \in SignIns, OpenSession(i)
        PROVE  \A s \in SignIns :
                 session[s] \in {"revoked", "reused", "expired"} => session'[s] # "live"
    <3>1. session[i] = Absent
      BY <1>1, <2>1 DEF OpenSession, RotationInv, BaseInv, OpenedOK
    <3> QED BY <1>1, <2>1, <3>1
            DEF OpenSession, Absent, RotationInv, BaseInv, SessionsTypeOK
  <2>2. CASE session' = session
    BY <2>2
  <2>3. CASE \E i \in SignIns : session' = [session EXCEPT ![i] = "expired"]
    BY <1>1, <2>3 DEF RotationInv, BaseInv, SessionsTypeOK
  <2>4. CASE \E i \in SignIns \union {None} : End(i, "reused") \/ End(i, "revoked")
    BY <1>1, <2>4 DEF End, RotationInv, BaseInv, SessionsTypeOK
  <2>5. CASE \E u \in Users \union {None} : RevokeSessionsOf(u)
    BY <2>5 DEF RevokeSessionsOf
  <2>6. CASE ResetPassword
    BY <2>6 DEF ResetPassword
  <2>7. \/ session' = session
        \/ \E i \in SignIns : OpenSession(i)
        \/ \E i \in SignIns : session' = [session EXCEPT ![i] = "expired"]
        \/ \E i \in SignIns \union {None} : End(i, "reused") \/ End(i, "revoked")
        \/ \E u \in Users \union {None} : RevokeSessionsOf(u)
        \/ ResetPassword
    <3>1. \A r \in Refreshes : home[r] \in SignIns \union {None}
      BY <1>1 DEF RotationInv, BaseInv, SessionsTypeOK
    <3>2. \A q \in Requests :
            call[q].session \in SignIns \union {None} /\ call[q].target \in Users \union {None}
      BY <1>1 DEF RotationInv, BaseInv, SessionsTypeOK
    <3> QED
      BY <1>1, <3>1, <3>2
      DEF SessionsNext, RequestStep, ConsoleStep, vars, sessions, ReadAccount, ExpireSession,
          PresentToken, KillSession, RotateToken, LoadSession, LoadUser, Finish, Logout,
          SetStatus, RevokeAfterStatus, RevokeAllSessions, ReadRoles, CountSupers, WriteRoles
  <2> QED BY <2>1, <2>2, <2>3, <2>4, <2>5, <2>6, <2>7
<1> QED BY <1>1, RotationInvariant, PTL DEF SessionsSpec, OverIsFinal

=============================================================================
