------------------------------ MODULE Sessions ------------------------------
(***************************************************************************)
(* Sessions (src/app/modules/auth/service.py), the check every             *)
(* authenticated request passes (src/app/api/deps.py) and the console's    *)
(* writes on users and sessions (src/app/modules/admin/console.py).        *)
(*                                                                         *)
(* One action per database call, as in Orders.tla.  A session is           *)
(* identified with the sign-in that opens it, and a refresh token with the *)
(* sign-in or the refresh request that issues it: both ids are drawn       *)
(* inside the request and never reused.  A request that dies simply never  *)
(* takes its next step; an authenticated one frees its slot (Finish).      *)
(***************************************************************************)
EXTENDS Naturals, FiniteSets

CONSTANTS
  Users,      \* accounts
  Admins,     \* the super admins the system starts with
  SignIns,    \* sign-in requests, and the sessions they open
  Refreshes,  \* refresh requests, and the tokens they issue
  Requests,   \* authenticated requests that can be under way at once
  Settable,   \* the statuses the console sets
  None

VARIABLES
  status,      \* users collection: status
  supers,      \* users collection: those whose roles contain SUPER_ADMIN
  session,     \* sessions collection: open, or why it is over, or Absent
  current,     \* sessions collection: refresh_jti
  owner,       \* user_id of each sign-in and its session
  signInPc,    \* where each sign-in is
  refreshPc,   \* where each refresh request is
  presented,   \* the token each refresh request presents
  home,        \* the session that token and the one issued for it belong to
  requestPc,   \* where each authenticated request is
  call         \* what each authenticated request carries

users == <<status, supers>>
sessions == <<session, current>>
signIns == <<owner, signInPc>>
refreshing == <<refreshPc, presented, home>>
requesting == <<requestPc, call>>
vars == <<status, supers, session, current, owner, signInPc, refreshPc, presented, home,
          requestPc, call>>

Absent == "ABSENT"
UserStatus == {"ACTIVE", "PENDING_VERIFICATION", "SUSPENDED", "DELETED"}

\* "reused" is revoked_reason reuse_detected, "revoked" any other; "expired" is a
\* document MongoDB has reaped.
SessionState == {Absent, "live", "revoked", "reused", "expired"}

Tokens == SignIns \union Refreshes
NoCall == [session |-> None, admin |-> FALSE, target |-> None, grant |-> FALSE]

ASSUME SessionsAssumption ==
  /\ Admins \subseteq Users
  /\ Settable \subseteq UserStatus
  /\ SignIns \intersect Refreshes = {}
  /\ None \notin Users /\ None \notin Tokens

SessionsInit ==
  /\ status = [u \in Users |-> "ACTIVE"]
  /\ supers = Admins
  /\ session = [s \in SignIns |-> Absent]
  /\ current = [s \in SignIns |-> None]
  /\ owner = [s \in SignIns |-> None]
  /\ signInPc = [s \in SignIns |-> "idle"]
  /\ refreshPc = [r \in Refreshes |-> "idle"]
  /\ presented = [r \in Refreshes |-> None]
  /\ home = [r \in Refreshes |-> None]
  /\ requestPc = [q \in Requests |-> "idle"]
  /\ call = [q \in Requests |-> NoCall]

-----------------------------------------------------------------------------
\* login, complete_google

\* A password sign-in reads the user and refuses a suspended one; a Google sign-in
\* resolves the user without looking at the status.
ReadAccount(s, u, password) ==
  /\ signInPc[s] = "idle"
  /\ password => status[u] # "SUSPENDED"
  /\ owner' = [owner EXCEPT ![s] = u]
  /\ signInPc' = [signInPc EXCEPT ![s] = "open"]
  /\ UNCHANGED <<users, sessions, refreshing, requesting>>

\* Mutation of OpenSession: stores the user's id for the token's.
StoreUserId(s) ==
  /\ signInPc[s] = "open"
  /\ session' = [session EXCEPT ![s] = "live"]
  /\ current' = [current EXCEPT ![s] = owner[s]]
  /\ signInPc' = [signInPc EXCEPT ![s] = "done"]
  /\ UNCHANGED <<users, owner, refreshing, requesting>>

\* _issue_session
OpenSession(s) ==
  /\ signInPc[s] = "open"
  /\ session' = [session EXCEPT ![s] = "live"]
  /\ current' = [current EXCEPT ![s] = s]
  /\ signInPc' = [signInPc EXCEPT ![s] = "done"]
  /\ UNCHANGED <<users, owner, refreshing, requesting>>

\* The TTL index reaps a session some time after it was opened, rotated or not.
ExpireSession(s) ==
  /\ session[s] \notin {Absent, "expired"}
  /\ session' = [session EXCEPT ![s] = "expired"]
  /\ UNCHANGED <<users, current, signIns, refreshing, requesting>>

-----------------------------------------------------------------------------
\* refresh

\* The tokens some client holds, and the session each is for.
Issued(t) == IF t \in SignIns THEN signInPc[t] = "done" ELSE refreshPc[t] = "done"
SessionOf(t) == IF t \in SignIns THEN t ELSE home[t]

\* Read the session: one that is over is refused and nothing done, one whose current
\* token is another will be killed, any other rotated.
PresentToken(r, t) ==
  /\ refreshPc[r] = "idle"
  /\ Issued(t)
  /\ session[SessionOf(t)] = "live"
  /\ presented' = [presented EXCEPT ![r] = t]
  /\ home' = [home EXCEPT ![r] = SessionOf(t)]
  /\ refreshPc' = [refreshPc EXCEPT
                     ![r] = IF current[SessionOf(t)] = t THEN "rotate" ELSE "kill"]
  /\ UNCHANGED <<users, sessions, signIns, requesting>>

\* An update of a document that is gone changes nothing.
End(s, how) ==
  session' = [session EXCEPT ![s] = IF @ = "expired" THEN @ ELSE how]

KillSession(r) ==
  /\ refreshPc[r] = "kill"
  /\ End(home[r], "reused")
  /\ refreshPc' = [refreshPc EXCEPT ![r] = "killed"]
  /\ UNCHANGED <<users, current, signIns, presented, home, requesting>>

\* Mutation of RotateToken: the new token is not stored.
AnswerOnly(r) ==
  /\ refreshPc[r] = "rotate"
  /\ refreshPc' = [refreshPc EXCEPT ![r] = "done"]
  /\ UNCHANGED <<users, sessions, signIns, presented, home, requesting>>

\* Mutation of RotateToken: writes the token that was presented.
KeepPresented(r) ==
  /\ refreshPc[r] = "rotate"
  /\ current' = [current EXCEPT ![home[r]] = presented[r]]
  /\ refreshPc' = [refreshPc EXCEPT ![r] = "done"]
  /\ UNCHANGED <<users, session, signIns, presented, home, requesting>>

\* Mutation of RotateToken: the whole document is written back.
ReplaceSession(r) ==
  /\ refreshPc[r] = "rotate"
  /\ session' = [session EXCEPT ![home[r]] = "live"]
  /\ current' = [current EXCEPT ![home[r]] = r]
  /\ refreshPc' = [refreshPc EXCEPT ![r] = "done"]
  /\ UNCHANGED <<users, signIns, presented, home, requesting>>

\* The new token becomes the current one.  The write does not ask whether the session
\* was revoked, or rotated, since it was read.
RotateToken(r) ==
  /\ refreshPc[r] = "rotate"
  /\ current' = [current EXCEPT ![home[r]] = IF session[home[r]] = "expired" THEN @ ELSE r]
  /\ refreshPc' = [refreshPc EXCEPT ![r] = "done"]
  /\ UNCHANGED <<users, session, signIns, presented, home, requesting>>

-----------------------------------------------------------------------------
\* current_principal

MoveRequest(q, pc) == requestPc' = [requestPc EXCEPT ![q] = pc]
EndRequest(q) == MoveRequest(q, "idle") /\ call' = [call EXCEPT ![q] = NoCall]

\* Read the session the access token is for; one that is over is refused.
LoadSession(q, s) ==
  /\ requestPc[q] = "idle"
  /\ signInPc[s] = "done"
  /\ session[s] = "live"
  /\ MoveRequest(q, "user")
  /\ call' = [call EXCEPT ![q] = [NoCall EXCEPT !.session = s]]
  /\ UNCHANGED <<users, sessions, signIns, refreshing>>

Actor(q) == owner[call[q].session]

\* Mutation of LoadUser: the status of the user is not looked at.
TrustSession(q) ==
  /\ requestPc[q] = "user"
  /\ MoveRequest(q, "act")
  /\ call' = [call EXCEPT ![q].admin = Actor(q) \in supers]
  /\ UNCHANGED <<users, sessions, signIns, refreshing>>

\* Read its user: a suspended one is refused, and the roles are as of now.
LoadUser(q) ==
  /\ requestPc[q] = "user"
  /\ \/ /\ status[Actor(q)] = "SUSPENDED"
        /\ EndRequest(q)
     \/ /\ status[Actor(q)] # "SUSPENDED"
        /\ MoveRequest(q, "act")
        /\ call' = [call EXCEPT ![q].admin = Actor(q) \in supers]
  /\ UNCHANGED <<users, sessions, signIns, refreshing>>

-----------------------------------------------------------------------------
\* What an admitted request does

\* Anything that leaves users and sessions alone, or the end of a request that dies.
Finish(q) ==
  /\ requestPc[q] # "idle"
  /\ EndRequest(q)
  /\ UNCHANGED <<users, sessions, signIns, refreshing>>

Logout(q) ==
  /\ requestPc[q] = "act"
  /\ End(call[q].session, "revoked")
  /\ EndRequest(q)
  /\ UNCHANGED <<users, current, signIns, refreshing>>

\* set_user_status writes the status; any but ACTIVE has the sessions revoked next.
SetStatus(q, u, s) ==
  /\ requestPc[q] = "act" /\ call[q].admin
  /\ status' = [status EXCEPT ![u] = s]
  /\ \/ /\ s = "ACTIVE"
        /\ EndRequest(q)
     \/ /\ s # "ACTIVE"
        /\ MoveRequest(q, "revoke")
        /\ call' = [call EXCEPT ![q].target = u]
  /\ UNCHANGED <<supers, sessions, signIns, refreshing>>

RevokeSessionsOf(u) ==
  session' = [s \in SignIns |-> IF owner[s] = u /\ session[s] = "live" THEN "revoked"
                                ELSE session[s]]

RevokeAfterStatus(q) ==
  /\ requestPc[q] = "revoke"
  /\ RevokeSessionsOf(call[q].target)
  /\ EndRequest(q)
  /\ UNCHANGED <<users, current, signIns, refreshing>>

RevokeAllSessions(q, u) ==
  /\ requestPc[q] = "act" /\ call[q].admin
  /\ RevokeSessionsOf(u)
  /\ EndRequest(q)
  /\ UNCHANGED <<users, current, signIns, refreshing>>

\* reset_password.py: whoever's password it is, every session that is live ends.
ResetPassword ==
  /\ session' = [s \in SignIns |-> IF session[s] = "live" THEN "revoked" ELSE session[s]]
  /\ UNCHANGED <<users, current, signIns, refreshing, requesting>>

ActiveSupers == {u \in supers : status[u] = "ACTIVE"}

\* set_user_roles: never one's own.  Read the user; taking SUPER_ADMIN away needs the
\* count first ...
ReadRoles(q, u, grant) ==
  /\ requestPc[q] = "act" /\ call[q].admin
  /\ u # Actor(q)
  /\ MoveRequest(q, IF u \in supers /\ ~grant THEN "count" ELSE "roles")
  /\ call' = [call EXCEPT ![q].target = u, ![q].grant = grant]
  /\ UNCHANGED <<users, sessions, signIns, refreshing>>

\* ... which refuses to take it from the last active super admin.
CountSupers(q) ==
  /\ requestPc[q] = "count"
  /\ \/ Cardinality(ActiveSupers) <= 1 /\ EndRequest(q)
     \/ Cardinality(ActiveSupers) > 1 /\ MoveRequest(q, "roles") /\ UNCHANGED call
  /\ UNCHANGED <<users, sessions, signIns, refreshing>>

WriteRoles(q) ==
  /\ requestPc[q] = "roles"
  /\ supers' = IF call[q].grant THEN supers \union {call[q].target}
               ELSE supers \ {call[q].target}
  /\ EndRequest(q)
  /\ UNCHANGED <<status, sessions, signIns, refreshing>>

-----------------------------------------------------------------------------
RequestStep(q) ==
  LoadUser(q) \/ Finish(q) \/ Logout(q) \/ RevokeAfterStatus(q) \/ CountSupers(q)
  \/ WriteRoles(q)

ConsoleStep(q, u) ==
  \/ \E s \in Settable : SetStatus(q, u, s)
  \/ RevokeAllSessions(q, u)
  \/ \E grant \in BOOLEAN : ReadRoles(q, u, grant)

SessionsNext ==
  \/ \E s \in SignIns, u \in Users, password \in BOOLEAN : ReadAccount(s, u, password)
  \/ \E s \in SignIns : OpenSession(s) \/ ExpireSession(s)
  \/ \E r \in Refreshes, t \in Tokens : PresentToken(r, t)
  \/ \E r \in Refreshes : KillSession(r) \/ RotateToken(r)
  \/ \E q \in Requests, s \in SignIns : LoadSession(q, s)
  \/ \E q \in Requests : RequestStep(q)
  \/ \E q \in Requests, u \in Users : ConsoleStep(q, u)
  \/ ResetPassword

SessionsSpec == SessionsInit /\ [][SessionsNext]_vars

\* An admitted request runs to its end.
FairSessionsSpec == SessionsSpec /\ \A q \in Requests : WF_vars(RequestStep(q))

-----------------------------------------------------------------------------
\* Properties

\* Every variable stays in its type.
SessionsTypeOK ==
  /\ status \in [Users -> UserStatus]
  /\ supers \subseteq Users
  /\ session \in [SignIns -> SessionState]
  /\ current \in [SignIns -> Tokens \union {None}]
  /\ owner \in [SignIns -> Users \union {None}]
  /\ signInPc \in [SignIns -> {"idle", "open", "done"}]
  /\ refreshPc \in [Refreshes -> {"idle", "kill", "rotate", "killed", "done"}]
  /\ presented \in [Refreshes -> Tokens \union {None}]
  /\ home \in [Refreshes -> SignIns \union {None}]
  /\ requestPc \in [Requests -> {"idle", "user", "act", "revoke", "count", "roles"}]
  /\ call \in [Requests -> [session : SignIns \union {None}, admin : BOOLEAN,
                            target : Users \union {None}, grant : BOOLEAN]]

\* A token that bought another is burnt: whatever rotations race, it never is, or
\* becomes again, the one its session accepts.
BurntStaysBurnt ==
  \A r \in Refreshes :
    refreshPc[r] = "done" /\ session[home[r]] = "live" => current[home[r]] # presented[r]

\* Reuse detection never fires on a client that presents each token once: a session
\* killed for reuse saw one token presented by two requests.
KilledMeansReused ==
  \A s \in SignIns :
    session[s] = "reused" =>
      \E r, q \in Refreshes : r # q /\ home[r] = s /\ home[q] = s /\ presented[r] = presented[q]

\* A session that is over stays over, even when a rotation that read it before writes
\* after its revocation or its expiry.
OverIsFinal ==
  [][\A s \in SignIns :
       session[s] \in {"revoked", "reused", "expired"} => session'[s] # "live"]_vars

Working(u) == \E q \in Requests : requestPc[q] \notin {"idle", "user"} /\ Actor(q) = u

\* A suspension takes hold: a user who stays suspended is in the end served by no
\* request, not even on a session that outlived the suspension because a sign-in raced
\* it or the console's request died before revoking.
SuspensionTakesHold ==
  \A u \in Users : <>[](status[u] = "SUSPENDED") => <>[]~Working(u)

\* "Locking everyone out must not be one request away": role changes alone, each
\* refusing to demote the last, leave an active super admin.
SuperAdminRemains == ActiveSupers # {}
=============================================================================
