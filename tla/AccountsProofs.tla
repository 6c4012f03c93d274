--------------------------- MODULE AccountsProofs ----------------------------
(***************************************************************************)
(* Theorems about accounts and the ways into them, for any number of       *)
(* people, addresses, registrations, Google sign-ins and password          *)
(* sign-ins.                                                               *)
(***************************************************************************)
EXTENDS Accounts, TLAPS

\* What the indexes on users make of the collection: an account has an address of its
\* own and a status, and a callback has inserted one only when it is done.
UsersOK ==
  /\ \A a \in Accounts : (email[a] = None <=> status[a] = None)
  /\ \A a \in Accounts : email[a] = None => identities[a] = {}
  /\ \A a, b \in Accounts : email[a] # None /\ email[a] = email[b] => a = b
  /\ \A r \in Callbacks : email[r] # None => callbackPc[r] = "done"

\* An identity was linked by a callback whose id token named the account's address.
LinksOK ==
  \A a \in Accounts : \A g \in identities[a] :
    \E r \in Callbacks : claim[r] # None /\ claim[r].subject = g /\ claim[r].email = email[a]

\* What a callback has gone through by the time it is where it is.
CallbackOK(r) ==
  /\ callbackPc[r] = "idle" => spent[r] = None
  /\ callbackPc[r] \in {"idle", "exchange"} => claim[r] = None
  /\ callbackPc[r] # "idle" => /\ spent[r] \in Flows /\ code[r] \in Flows
                               /\ flow[spent[r]] = "gone" /\ grant[code[r]] # None
  /\ callbackPc[r] \in {"subject", "email", "link", "create", "again", "done"} =>
       claim[r] # None
  /\ claim[r] # None => spent[r] \in Flows /\ claim[r].subject = grant[spent[r]]
  /\ callbackPc[r] \in {"email", "link", "create", "again"} => claim[r].verified = TRUE
  /\ callbackPc[r] = "link" => /\ account[r] \in Accounts /\ seen[r] \in UserStatus
                               /\ email[account[r]] = claim[r].email
  /\ callbackPc[r] = "done" =>
       /\ account[r] \in Accounts
       /\ \/ claim[r].subject \in identities[account[r]]
          \/ claim[r].verified = TRUE /\ claim[r].email = email[account[r]]

\* A state is spent by one callback.
SpentOnce ==
  \A r, q \in Callbacks : r # q /\ spent[r] = spent[q] => spent[r] = None

\* A password sign-in under way tries some address.
LoginsOK == \A l \in Logins : loginPc[l] # "idle" => tried[l] \in Emails

\* SignInIsTheirs and OneAccountPerPerson made inductive.
AccountsInv ==
  /\ AccountsTypeOK /\ UsersOK /\ LinksOK /\ LoginsOK
  /\ \A r \in Callbacks : CallbackOK(r)
  /\ SpentOnce

-----------------------------------------------------------------------------
LEMMA InitAccountsInv == AccountsInit => AccountsInv
<1> SUFFICES ASSUME AccountsInit PROVE AccountsInv
  OBVIOUS
<1>1. AccountsTypeOK
  BY DEF AccountsInit, AccountsTypeOK, CallbackPc
<1>2. UsersOK /\ LinksOK /\ LoginsOK
  BY DEF AccountsInit, UsersOK, LinksOK, LoginsOK, Accounts
<1>3. (\A r \in Callbacks : CallbackOK(r)) /\ SpentOnce
  BY DEF AccountsInit, CallbackOK, SpentOnce
<1> QED BY <1>1, <1>2, <1>3 DEF AccountsInv

\* What no step takes back: an account's address and identities, a spent state, an
\* approval.
Grows ==
  /\ \A a \in Accounts : email[a] # None => email'[a] = email[a]
  /\ \A a \in Accounts : identities[a] \subseteq identities'[a]
  /\ \A f \in Flows : flow[f] = "gone" => flow'[f] = "gone"
  /\ \A f \in Flows : grant[f] # None => grant'[f] = grant[f]

SameCallback(r) ==
  /\ callbackPc'[r] = callbackPc[r] /\ spent'[r] = spent[r] /\ code'[r] = code[r]
  /\ claim'[r] = claim[r] /\ account'[r] = account[r] /\ seen'[r] = seen[r]

\* A callback that does not move keeps what it has gone through.
LEMMA CallbackKept ==
  ASSUME AccountsTypeOK, NEW r \in Callbacks, CallbackOK(r), SameCallback(r), Grows
  PROVE  CallbackOK(r)'
<1>1. claim[r] # None => claim[r].email # None /\ claim[r].subject # None
  BY AccountsAssumption DEF AccountsTypeOK, Claims
<1>2. callbackPc[r] # "idle" =>
        /\ spent'[r] \in Flows /\ code'[r] \in Flows
        /\ flow'[spent'[r]] = "gone" /\ grant'[code'[r]] # None
  BY DEF CallbackOK, SameCallback, Grows
<1>3. claim[r] # None => spent'[r] \in Flows /\ claim'[r].subject = grant'[spent'[r]]
  BY <1>1 DEF CallbackOK, SameCallback, Grows
<1>4. callbackPc[r] = "link" => /\ account'[r] \in Accounts /\ seen'[r] \in UserStatus
                                /\ email'[account'[r]] = claim'[r].email
  BY <1>1 DEF CallbackOK, SameCallback, Grows
<1>5. callbackPc[r] = "done" =>
        /\ account'[r] \in Accounts
        /\ \/ claim'[r].subject \in identities'[account'[r]]
           \/ claim'[r].verified = TRUE /\ claim'[r].email = email'[account'[r]]
  BY <1>1 DEF CallbackOK, SameCallback, Grows
<1> QED BY <1>2, <1>3, <1>4, <1>5 DEF CallbackOK, SameCallback

LEMMA SameCallbacks ==
  ASSUME AccountsInv, UNCHANGED callbackVars, Grows
  PROVE  (\A r \in Callbacks : CallbackOK(r))' /\ SpentOnce'
<1>1. \A r \in Callbacks : SameCallback(r)
  BY DEF callbackVars, SameCallback
<1>2. \A r \in Callbacks : CallbackOK(r)'
  BY <1>1, CallbackKept DEF AccountsInv
<1>3. SpentOnce'
  BY DEF AccountsInv, SpentOnce, callbackVars
<1> QED BY <1>2, <1>3

-----------------------------------------------------------------------------
\* Registration, the console, Google and password sign-in.

LEMMA RegistrationAccountsInv ==
  ASSUME AccountsInv, NEW a \in Registrations, NEW e \in Emails,
         Register(a, e) \/ CreateByOperator(a, e)
  PROVE  AccountsInv'
<1> USE DEF AccountsInv
<1>1. /\ a \in Accounts /\ a \notin Callbacks
      /\ email[a] = None /\ identities[a] = {} /\ e # None
      /\ \A b \in Accounts : email[b] # e
  BY AccountsAssumption DEF Register, CreateByOperator, EmailTaken, Accounts, UsersOK
<1>2. PICK s \in {"PENDING_VERIFICATION", "ACTIVE"} :
        /\ email' = [email EXCEPT ![a] = e]
        /\ status' = [status EXCEPT ![a] = s]
        /\ identities' = [identities EXCEPT ![a] = {}]
  BY DEF Register, CreateByOperator, InsertUser
<1>3. /\ UNCHANGED <<google, callbackVars, loginVars>>
      /\ s \in UserStatus /\ s # None
  BY AccountsAssumption DEF Register, CreateByOperator, UserStatus
<1>4. identities' = identities
  BY <1>1, <1>2 DEF AccountsTypeOK
<1>5. AccountsTypeOK'
  BY <1>1, <1>2, <1>3, <1>4 DEF AccountsTypeOK, google, callbackVars, loginVars
<1>6. UsersOK'
  BY <1>1, <1>2, <1>3, <1>4 DEF UsersOK, AccountsTypeOK, callbackVars, Accounts
<1>7. LinksOK'
  BY <1>1, <1>2, <1>3, <1>4 DEF LinksOK, AccountsTypeOK, callbackVars
<1>8. LoginsOK'
  BY <1>3 DEF LoginsOK, loginVars
<1>9. Grows
  BY <1>1, <1>2, <1>3, <1>4 DEF Grows, AccountsTypeOK, google
<1> QED BY <1>3, <1>5, <1>6, <1>7, <1>8, <1>9, SameCallbacks

LEMMA ModerateAccountsInv ==
  ASSUME AccountsInv, NEW a \in Accounts, NEW s \in Settable, Moderate(a, s)
  PROVE  AccountsInv'
<1> USE DEF AccountsInv
<1>1. /\ email[a] # None /\ s \in UserStatus /\ s # None
      /\ status' = [status EXCEPT ![a] = s]
      /\ UNCHANGED <<email, identities, google, callbackVars, loginVars>>
  BY AccountsAssumption DEF Moderate
<1>2. AccountsTypeOK'
  BY <1>1 DEF AccountsTypeOK, google, callbackVars, loginVars
<1>3. UsersOK'
  BY <1>1 DEF UsersOK, AccountsTypeOK, callbackVars
<1>4. LinksOK' /\ LoginsOK' /\ Grows
  BY <1>1 DEF LinksOK, LoginsOK, Grows, google, callbackVars, loginVars
<1> QED BY <1>1, <1>2, <1>3, <1>4, SameCallbacks

LEMMA GoogleAccountsInv ==
  ASSUME AccountsInv,
         \/ \E f \in Flows : BeginGoogle(f) \/ LapseFlow(f)
         \/ \E f \in Flows, g \in Subjects : Approve(f, g)
         \/ \E g \in Subjects, e \in Emails : ChangeAddress(g, e)
  PROVE  AccountsInv'
<1> USE DEF AccountsInv
<1>1. UNCHANGED <<users, callbackVars, loginVars>>
  BY DEF BeginGoogle, LapseFlow, Approve, ChangeAddress
<1>2. /\ flow' \in [Flows -> {"none", "open", "gone"}]
      /\ grant' \in [Flows -> Subjects \union {None}]
      /\ address' \in [Subjects -> Emails]
  BY DEF BeginGoogle, LapseFlow, Approve, ChangeAddress, AccountsTypeOK
<1>3. Grows
  BY <1>1 DEF BeginGoogle, LapseFlow, Approve, ChangeAddress, Grows, users, AccountsTypeOK
<1>4. AccountsTypeOK'
  BY <1>1, <1>2 DEF AccountsTypeOK, users, callbackVars, loginVars
<1>5. UsersOK' /\ LinksOK' /\ LoginsOK'
  BY <1>1 DEF UsersOK, LinksOK, LoginsOK, users, callbackVars, loginVars
<1> QED BY <1>1, <1>3, <1>4, <1>5, SameCallbacks

LEMMA LoginAccountsInv ==
  ASSUME AccountsInv, LoginNext
  PROVE  AccountsInv'
<1> USE DEF AccountsInv
<1>1. UNCHANGED <<users, google, callbackVars>>
  BY DEF LoginNext, CheckLockout, LookUp, CountFailure, ClearFailures, AbandonLogin,
         ReapAttempts
<1> DEFINE Types == /\ attempts' \in [Emails -> Nat]
                    /\ loginPc' \in [Logins -> {"idle", "look", "fail", "clear"}]
                    /\ tried' \in [Logins -> Emails \union {None}]
                    /\ LoginsOK'
<1>2. Types
  <2> USE DEF GotoLogin, AccountsTypeOK, LoginsOK
  <2>1. ASSUME NEW l \in Logins, NEW e \in Emails, CheckLockout(l, e) PROVE Types
    BY <2>1 DEF CheckLockout
  <2>2. ASSUME NEW l \in Logins, LookUp(l) PROVE Types
    BY <2>2 DEF LookUp
  <2>3. ASSUME NEW l \in Logins, CountFailure(l) PROVE Types
    BY <2>3 DEF CountFailure
  <2>4. ASSUME NEW l \in Logins, ClearFailures(l) \/ AbandonLogin(l) PROVE Types
    BY <2>4 DEF ClearFailures, AbandonLogin
  <2>5. ASSUME NEW e \in Emails, ReapAttempts(e) PROVE Types
    BY <2>5 DEF ReapAttempts
  <2> QED BY <2>1, <2>2, <2>3, <2>4, <2>5 DEF LoginNext
<1>3. AccountsTypeOK'
  BY <1>1, <1>2 DEF AccountsTypeOK, users, google, callbackVars
<1>4. UsersOK' /\ LinksOK' /\ Grows
  BY <1>1 DEF UsersOK, LinksOK, Grows, users, google, callbackVars
<1> QED BY <1>1, <1>2, <1>3, <1>4, SameCallbacks

-----------------------------------------------------------------------------
\* complete_google.

\* A step of one callback, which leaves the others where they are.
LEMMA OneCallbackMoves ==
  ASSUME AccountsInv, NEW r \in Callbacks, Grows, CallbackOK(r)',
         \A q \in Callbacks \ {r} : SameCallback(q)
  PROVE  \A q \in Callbacks : CallbackOK(q)'
BY CallbackKept DEF AccountsInv

LEMMA SpendStateAccountsInv ==
  ASSUME AccountsInv, NEW r \in Callbacks, NEW f \in Flows, NEW c \in Flows,
         SpendState(r, f, c)
  PROVE  AccountsInv'
<1> USE DEF AccountsInv
<1>1. /\ callbackPc[r] = "idle" /\ flow[f] = "open" /\ grant[c] # None
      /\ flow' = [flow EXCEPT ![f] = "gone"]
      /\ callbackPc' = [callbackPc EXCEPT ![r] = "exchange"]
      /\ spent' = [spent EXCEPT ![r] = f]
      /\ code' = [code EXCEPT ![r] = c]
      /\ UNCHANGED <<users, grant, address, claim, account, seen, loginVars>>
  BY DEF SpendState, Goto
<1>2. AccountsTypeOK'
  BY <1>1 DEF AccountsTypeOK, CallbackPc, users, loginVars
<1>3. Grows
  BY <1>1 DEF Grows, AccountsTypeOK, users
<1>4. CallbackOK(r)'
  BY <1>1 DEF CallbackOK, AccountsTypeOK
<1>5. \A q \in Callbacks \ {r} : SameCallback(q)
  BY <1>1 DEF SameCallback, AccountsTypeOK
<1>6. SpentOnce'
  <2>1. \A q \in Callbacks : spent[q] # f
    BY <1>1, AccountsAssumption DEF CallbackOK
  <2> QED BY <2>1, <1>1 DEF SpentOnce, AccountsTypeOK
<1>7. UsersOK' /\ LinksOK' /\ LoginsOK'
  BY <1>1 DEF UsersOK, LinksOK, LoginsOK, AccountsTypeOK, users, loginVars
<1> QED BY <1>2, <1>3, <1>4, <1>5, <1>6, <1>7, OneCallbackMoves

LEMMA ExchangeCodeAccountsInv ==
  ASSUME AccountsInv, NEW r \in Callbacks, ExchangeCode(r)
  PROVE  AccountsInv'
<1> USE DEF AccountsInv
<1>1. /\ callbackPc[r] = "exchange"
      /\ UNCHANGED <<users, google, spent, code, account, seen, loginVars>>
  BY DEF ExchangeCode
<1>2. /\ claim[r] = None /\ spent[r] \in Flows /\ code[r] \in Flows
      /\ flow[spent[r]] = "gone" /\ grant[code[r]] # None
  BY <1>1 DEF CallbackOK
<1>3. Grows
  BY <1>1 DEF Grows, users, google
<1>4. CASE Goto(r, "refused") /\ UNCHANGED claim
  <2>1. callbackPc' = [callbackPc EXCEPT ![r] = "refused"]
    BY <1>4 DEF Goto
  <2>2. AccountsTypeOK'
    BY <1>1, <1>4, <2>1 DEF AccountsTypeOK, CallbackPc, users, google, loginVars
  <2>3. CallbackOK(r)'
    BY <1>1, <1>2, <1>4, <2>1 DEF CallbackOK, AccountsTypeOK, google
  <2>4. \A q \in Callbacks \ {r} : SameCallback(q)
    BY <1>1, <1>4, <2>1 DEF SameCallback, AccountsTypeOK
  <2>5. UsersOK' /\ LinksOK' /\ LoginsOK' /\ SpentOnce'
    BY <1>1, <1>4, <2>1 DEF UsersOK, LinksOK, LoginsOK, SpentOnce, AccountsTypeOK, users, loginVars
  <2> QED BY <1>3, <2>2, <2>3, <2>4, <2>5, OneCallbackMoves
<1>5. ASSUME NEW v \in BOOLEAN, code[r] = spent[r], Goto(r, "subject"),
             claim' = [claim EXCEPT ![r] = [subject |-> grant[code[r]],
                                            email |-> address[grant[code[r]]], verified |-> v]]
      PROVE  AccountsInv'
  <2> DEFINE token == [subject |-> grant[code[r]], email |-> address[grant[code[r]]],
                       verified |-> v]
  <2>1. callbackPc' = [callbackPc EXCEPT ![r] = "subject"]
    BY <1>5 DEF Goto
  <2>2. /\ token \in Claims /\ token # None /\ token.subject = grant[spent[r]]
    BY <1>2, <1>5, AccountsAssumption DEF AccountsTypeOK, Claims
  <2>3. claim' = [claim EXCEPT ![r] = token]
    BY <1>5
  <2> HIDE DEF token
  <2>4. AccountsTypeOK'
    BY <1>1, <2>1, <2>2, <2>3 DEF AccountsTypeOK, CallbackPc, users, google, loginVars
  <2>5. CallbackOK(r)'
    BY <1>1, <1>2, <2>1, <2>2, <2>3 DEF CallbackOK, AccountsTypeOK, google
  <2>6. \A q \in Callbacks \ {r} : SameCallback(q)
    BY <1>1, <2>1, <2>3 DEF SameCallback, AccountsTypeOK
  <2>7. UsersOK' /\ LoginsOK' /\ SpentOnce'
    BY <1>1, <2>1 DEF UsersOK, LoginsOK, SpentOnce, AccountsTypeOK, users, loginVars
  <2>8. LinksOK'
    <3>1. \A q \in Callbacks : claim[q] # None => claim'[q] = claim[q]
      BY <1>2, <2>3 DEF AccountsTypeOK
    <3> QED BY <1>1, <3>1 DEF LinksOK, users
  <2> QED BY <1>3, <2>4, <2>5, <2>6, <2>7, <2>8, OneCallbackMoves
<1> QED BY <1>4, <1>5 DEF ExchangeCode

\* The steps that find an account or none, and write nothing.
LEMMA FindAccountsInv ==
  ASSUME AccountsInv, NEW r \in Callbacks, FindBySubject(r) \/ FindByEmail(r) \/ FindAgain(r)
  PROVE  AccountsInv'
<1> USE DEF AccountsInv
<1>1. /\ UNCHANGED <<users, google, spent, code, claim, loginVars>>
      /\ callbackPc[r] \in {"subject", "email", "again"}
  BY DEF FindBySubject, FindByEmail, FindAgain
<1>2. Grows
  BY <1>1 DEF Grows, users, google
<1>3. claim[r] # None /\ claim[r] \in Claims /\ email[r] = None
  BY <1>1 DEF CallbackOK, AccountsTypeOK, UsersOK
<1>4. /\ callbackPc' \in [Callbacks -> CallbackPc]
      /\ account' \in [Callbacks -> Accounts \union {None}]
      /\ seen' \in [Callbacks -> UserStatus \union {None}]
      /\ \A q \in Callbacks \ {r} : SameCallback(q)
  <2> USE <1>1 DEF AccountsTypeOK, CallbackPc, Goto, SameCallback
  <2>1. CASE FindBySubject(r)
    BY <2>1 DEF FindBySubject
  <2>2. CASE FindByEmail(r)
    BY <2>2 DEF FindByEmail
  <2>3. CASE FindAgain(r)
    BY <2>3 DEF FindAgain
  <2> QED BY <2>1, <2>2, <2>3
<1>5. AccountsTypeOK'
  BY <1>1, <1>4 DEF AccountsTypeOK, users, google, loginVars
<1>6. CallbackOK(r)'
  <2>1. CASE FindBySubject(r)
    BY <1>1, <1>3, <2>1 DEF FindBySubject, Goto, CallbackOK, AccountsTypeOK, Claims, users, google
  <2>2. CASE FindByEmail(r)
    BY <1>1, <1>3, <2>2, AccountsAssumption
       DEF FindByEmail, Goto, CallbackOK, AccountsTypeOK, UsersOK, Claims, users, google
  <2>3. CASE FindAgain(r)
    BY <1>1, <1>3, <2>3 DEF FindAgain, Goto, CallbackOK, AccountsTypeOK, Claims, users, google
  <2> QED BY <2>1, <2>2, <2>3
<1>7. LinksOK' /\ LoginsOK' /\ SpentOnce'
  BY <1>1 DEF LinksOK, LoginsOK, SpentOnce, users, loginVars
<1>8. UsersOK'
  BY <1>1, <1>3, <1>4 DEF UsersOK, SameCallback, users
<1> QED BY <1>2, <1>4, <1>5, <1>6, <1>7, <1>8, OneCallbackMoves

LEMMA LinkAccountsInv ==
  ASSUME AccountsInv, NEW r \in Callbacks, LinkIdentity(r)
  PROVE  AccountsInv'
<1> DEFINE a == account[r]
           g == claim[r].subject
<1> USE DEF AccountsInv
<1>1. /\ callbackPc[r] = "link"
      /\ UNCHANGED <<email, google, spent, code, claim, account, seen, loginVars>>
  BY DEF LinkIdentity
<1>2. /\ claim[r] # None /\ claim[r] \in Claims /\ g \in Subjects
      /\ a \in Accounts /\ seen[r] \in UserStatus
      /\ email[a] = claim[r].email /\ email[a] # None /\ email[r] = None
  BY <1>1, AccountsAssumption DEF CallbackOK, AccountsTypeOK, UsersOK, Claims
<1>3. PICK pc \in {"done", "refused"} :
        /\ callbackPc' = [callbackPc EXCEPT ![r] = pc]
        /\ pc = "done" => g \in identities'[a]
  BY <1>1, <1>2 DEF LinkIdentity, Goto, AccountsTypeOK
<1> DEFINE Grown == /\ status' \in [Accounts -> UserStatus \union {None}]
                    /\ identities' \in [Accounts -> SUBSET Subjects]
                    /\ \A b \in Accounts : status'[b] # None <=> status[b] # None
                    /\ \A b \in Accounts : identities[b] \subseteq identities'[b]
                    /\ \A b \in Accounts \ {a} : identities'[b] = identities[b]
                    /\ identities'[a] \subseteq identities[a] \union {g}
<1>4. Grown
  <2>1. CASE UNCHANGED <<status, identities>>
    BY <2>1, <1>2 DEF AccountsTypeOK
  <2>2. ASSUME NEW s \in UserStatus, status' = [status EXCEPT ![a] = s],
               identities' = [identities EXCEPT ![a] = @ \union {g}]
        PROVE  Grown
    <3>1. status[a] # None /\ s # None
      BY <1>2, AccountsAssumption DEF UsersOK
    <3> QED BY <2>2, <3>1, <1>2 DEF AccountsTypeOK
  <2> QED BY <2>1, <2>2, <1>2 DEF LinkIdentity, UserStatus
<1>5. AccountsTypeOK'
  BY <1>1, <1>3, <1>4 DEF AccountsTypeOK, CallbackPc, google, loginVars
<1>6. Grows
  BY <1>1, <1>4 DEF Grows, google
<1>7. CallbackOK(r)'
  BY <1>1, <1>2, <1>3 DEF CallbackOK, AccountsTypeOK, google
<1>8. \A q \in Callbacks \ {r} : SameCallback(q)
  BY <1>1, <1>3 DEF SameCallback, AccountsTypeOK
<1>9. UsersOK'
  BY <1>1, <1>2, <1>4, <1>8 DEF UsersOK, SameCallback
<1>10. LinksOK'
  BY <1>1, <1>2, <1>4 DEF LinksOK
<1>11. LoginsOK' /\ SpentOnce'
  BY <1>1 DEF LoginsOK, SpentOnce, loginVars
<1> QED BY <1>5, <1>6, <1>7, <1>8, <1>9, <1>10, <1>11, OneCallbackMoves

LEMMA CreateAccountsInv ==
  ASSUME AccountsInv, NEW r \in Callbacks, CreateAccount(r)
  PROVE  AccountsInv'
<1> DEFINE e == claim[r].email
           g == claim[r].subject
<1> USE DEF AccountsInv
<1>1. /\ callbackPc[r] = "create"
      /\ UNCHANGED <<google, spent, code, claim, seen, loginVars>>
  BY DEF CreateAccount
<1>2. /\ claim[r] # None /\ claim[r] \in Claims /\ g \in Subjects /\ e \in Emails /\ e # None
      /\ r \in Accounts /\ email[r] = None /\ identities[r] = {}
  BY <1>1, AccountsAssumption DEF CallbackOK, AccountsTypeOK, UsersOK, Claims, Accounts
<1>3. CASE UNCHANGED <<users, account>> /\ Goto(r, "again")
  <2>1. AccountsTypeOK'
    BY <1>1, <1>3 DEF AccountsTypeOK, CallbackPc, Goto, users, google, loginVars
  <2>2. Grows
    BY <1>1, <1>3 DEF Grows, users, google
  <2>3. CallbackOK(r)'
    BY <1>1, <1>2, <1>3 DEF CallbackOK, AccountsTypeOK, Goto, google
  <2>4. \A q \in Callbacks \ {r} : SameCallback(q)
    BY <1>1, <1>3 DEF SameCallback, AccountsTypeOK, Goto
  <2>5. UsersOK' /\ LinksOK' /\ LoginsOK' /\ SpentOnce'
    BY <1>1, <1>2, <1>3, <2>4
       DEF UsersOK, LinksOK, LoginsOK, SpentOnce, SameCallback, users, loginVars
  <2> QED BY <2>1, <2>2, <2>3, <2>4, <2>5, OneCallbackMoves
<1>4. CASE /\ ~EmailTaken(e)
           /\ InsertUser(r, e, "ACTIVE", {g})
           /\ account' = [account EXCEPT ![r] = r]
           /\ Goto(r, "done")
  <2>1. /\ \A b \in Accounts : email[b] # e
        /\ email' = [email EXCEPT ![r] = e]
        /\ status' = [status EXCEPT ![r] = "ACTIVE"]
        /\ identities' = [identities EXCEPT ![r] = {g}]
        /\ account' = [account EXCEPT ![r] = r]
        /\ callbackPc' = [callbackPc EXCEPT ![r] = "done"]
    BY <1>4 DEF EmailTaken, InsertUser, Goto
  <2>2. AccountsTypeOK'
    BY <1>1, <1>2, <2>1 DEF AccountsTypeOK, CallbackPc, UserStatus, google, loginVars
  <2>3. Grows
    BY <1>1, <1>2, <2>1 DEF Grows, AccountsTypeOK, google
  <2>4. CallbackOK(r)'
    BY <1>1, <1>2, <2>1 DEF CallbackOK, AccountsTypeOK, google
  <2>5. \A q \in Callbacks \ {r} : SameCallback(q)
    BY <1>1, <2>1 DEF SameCallback, AccountsTypeOK
  <2>6. UsersOK'
    BY <1>1, <1>2, <2>1, AccountsAssumption DEF UsersOK, AccountsTypeOK, UserStatus
  <2>7. LinksOK'
    BY <1>1, <1>2, <2>1 DEF LinksOK, AccountsTypeOK
  <2>8. LoginsOK' /\ SpentOnce'
    BY <1>1 DEF LoginsOK, SpentOnce, loginVars
  <2> QED BY <2>2, <2>3, <2>4, <2>5, <2>6, <2>7, <2>8, OneCallbackMoves
<1> QED BY <1>3, <1>4 DEF CreateAccount

LEMMA AccountsStep == AccountsInv /\ [AccountsNext]_accountVars => AccountsInv'
<1> SUFFICES ASSUME AccountsInv, [AccountsNext]_accountVars PROVE AccountsInv'
  OBVIOUS
<1>1. CASE \E a \in Registrations, e \in Emails : Register(a, e) \/ CreateByOperator(a, e)
  BY <1>1, RegistrationAccountsInv
<1>2. CASE \E a \in Accounts, s \in Settable : Moderate(a, s)
  BY <1>2, ModerateAccountsInv
<1>3. CASE GoogleNext
  BY <1>3, GoogleAccountsInv, SpendStateAccountsInv, ExchangeCodeAccountsInv, FindAccountsInv,
     LinkAccountsInv, CreateAccountsInv DEF GoogleNext, CallbackStep
<1>4. CASE LoginNext
  BY <1>4, LoginAccountsInv
<1>5. CASE UNCHANGED accountVars
  <2>1. UNCHANGED callbackVars /\ Grows
    BY <1>5 DEF accountVars, users, google, Grows
  <2>2. AccountsTypeOK' /\ UsersOK' /\ LinksOK' /\ LoginsOK'
    BY <1>5 DEF AccountsInv, accountVars, users, google, callbackVars, loginVars,
                AccountsTypeOK, UsersOK, LinksOK, LoginsOK
  <2> QED BY <2>1, <2>2, SameCallbacks DEF AccountsInv
<1> QED BY <1>1, <1>2, <1>3, <1>4, <1>5 DEF AccountsNext

LEMMA AccountsInvHolds == AccountsSpec => []AccountsInv
BY InitAccountsInv, AccountsStep, PTL DEF AccountsSpec

\* Users, states, callbacks and sign-ins keep their types.
THEOREM AccountsTypes == AccountsSpec => []AccountsTypeOK
<1>1. AccountsInv => AccountsTypeOK
  BY DEF AccountsInv
<1> QED BY <1>1, AccountsInvHolds, PTL

\* A Google sign-in lets in the person who approved it, into an account that is theirs,
\* and its state lets in nobody else.
THEOREM SignInsAreTheirs == AccountsSpec => []SignInIsTheirs
<1>1. AccountsInv => SignInIsTheirs
  <2> SUFFICES ASSUME AccountsInv, NEW r \in Callbacks, callbackPc[r] = "done"
               PROVE  /\ claim[r].subject = grant[spent[r]]
                      /\ \A q \in Callbacks \ {r} : spent[q] # spent[r]
                      /\ \/ claim[r].subject \in identities[account[r]]
                         \/ claim[r].verified /\ claim[r].email = email[account[r]]
    BY DEF SignInIsTheirs
  <2>1. CallbackOK(r) /\ spent[r] # None
    BY AccountsAssumption DEF AccountsInv, CallbackOK
  <2>2. \A q \in Callbacks \ {r} : spent[q] # spent[r]
    BY <2>1 DEF AccountsInv, SpentOnce
  <2> QED BY <2>1, <2>2 DEF CallbackOK
<1> QED BY <1>1, AccountsInvHolds, PTL

\* One account per person, however many sign-ins and registrations race: every account a
\* person is let into carries the one address Google has named for them, because whoever
\* linked them read that address from a token of theirs, and an address has one account.
THEOREM PeopleHaveOneAccount == AccountsSpec => []OneAccountPerPerson
<1>1. ASSUME AccountsInv, NEW r \in Callbacks, callbackPc[r] = "done",
             OneAddress(claim[r].subject)
      PROVE  /\ account[r] \in Accounts
             /\ email[account[r]] = claim[r].email /\ email[account[r]] # None
  <2>1. CallbackOK(r) /\ claim[r] # None /\ claim[r].email # None
    BY <1>1, AccountsAssumption DEF AccountsInv, CallbackOK, AccountsTypeOK, Claims
  <2>2. CASE claim[r].subject \in identities[account[r]]
    <3>1. PICK q \in Callbacks : /\ claim[q] # None /\ claim[q].subject = claim[r].subject
                                 /\ claim[q].email = email[account[r]]
      BY <1>1, <2>1, <2>2 DEF AccountsInv, LinksOK, CallbackOK
    <3> QED BY <1>1, <2>1, <3>1 DEF OneAddress, CallbackOK
  <2>3. CASE claim[r].subject \notin identities[account[r]]
    BY <1>1, <2>1, <2>3 DEF CallbackOK
  <2> QED BY <2>2, <2>3
<1>2. AccountsInv => OneAccountPerPerson
  <2> SUFFICES ASSUME AccountsInv, NEW r \in Callbacks, NEW q \in Callbacks,
                      callbackPc[r] = "done", callbackPc[q] = "done",
                      claim[r].subject = claim[q].subject, OneAddress(claim[r].subject)
               PROVE  account[r] = account[q]
    BY DEF OneAccountPerPerson
  <2>1. OneAddress(claim[q].subject)
    OBVIOUS
  <2>2. claim[r] # None /\ claim[q] # None
    BY DEF AccountsInv, CallbackOK
  <2>3. claim[r].email = claim[q].email
    BY <2>2 DEF OneAddress
  <2> QED BY <2>1, <2>3, <1>1 DEF AccountsInv, UsersOK
<1> QED BY <1>2, AccountsInvHolds, PTL

\* A suspension is lifted by the console, or by the link of an identity that read the
\* account before it was suspended, and by nothing else.
THEOREM SuspensionsHold == AccountsSpec => SuspensionHolds
<1> DEFINE Lifted(a) == status[a] = "SUSPENDED" /\ status'[a] # "SUSPENDED"
           Excused(a) ==
             \/ \E s \in Settable : Moderate(a, s)
             \/ \E r \in Callbacks : ReadBeforeSuspension(r, a) /\ callbackPc'[r] = "done"
<1>1. AccountsInv /\ [AccountsNext]_accountVars =>
        [\A a \in Accounts : Lifted(a) => Excused(a)]_accountVars
  <2> SUFFICES ASSUME AccountsInv, AccountsNext, NEW a \in Accounts, Lifted(a)
               PROVE  Excused(a)
    OBVIOUS
  <2> USE DEF AccountsInv
  <2>1. email[a] # None
    BY AccountsAssumption DEF UsersOK, UserStatus
  <2>2. ASSUME NEW b \in Registrations, NEW e \in Emails, Register(b, e) \/ CreateByOperator(b, e)
        PROVE  FALSE
    BY <2>1, <2>2 DEF Register, CreateByOperator, InsertUser, AccountsTypeOK
  <2>3. ASSUME NEW b \in Accounts, NEW s \in Settable, Moderate(b, s)
        PROVE  Excused(a)
    <3>1. a = b
      BY <2>3 DEF Moderate, AccountsTypeOK
    <3> QED BY <2>3, <3>1
  <2>4. ASSUME NEW r \in Callbacks, CallbackStep(r)
        PROVE  Excused(a)
    <3>1. CASE LinkIdentity(r)
      <4>1. /\ callbackPc[r] = "link" /\ seen[r] \in UserStatus
            /\ status' = [status EXCEPT ![account[r]] = IF seen[r] = "PENDING_VERIFICATION"
                                                       THEN "ACTIVE" ELSE seen[r]]
            /\ callbackPc' = [callbackPc EXCEPT ![r] = "done"]
        BY <3>1 DEF LinkIdentity, Goto, CallbackOK
      <4>2. account[r] = a /\ seen[r] # "SUSPENDED"
        BY <4>1 DEF AccountsTypeOK, UserStatus
      <4> QED BY <4>1, <4>2 DEF ReadBeforeSuspension, AccountsTypeOK
    <3>2. CASE CreateAccount(r)
      <4>1. status' = [status EXCEPT ![r] = "ACTIVE"] /\ email[r] = None
        BY <3>2 DEF CreateAccount, InsertUser, users, UsersOK
      <4> QED BY <4>1, <2>1 DEF AccountsTypeOK
    <3>3. CASE status' = status
      BY <3>3
    <3> QED BY <2>4, <3>1, <3>2, <3>3
            DEF CallbackStep, ExchangeCode, FindBySubject, FindByEmail, FindAgain, users
  <2>5. ASSUME \/ \E f \in Flows : BeginGoogle(f) \/ LapseFlow(f)
               \/ \E f \in Flows, g \in Subjects : Approve(f, g)
               \/ \E g \in Subjects, e \in Emails : ChangeAddress(g, e)
               \/ \E r \in Callbacks, f, c \in Flows : SpendState(r, f, c)
               \/ LoginNext
        PROVE  FALSE
    BY <2>5 DEF BeginGoogle, LapseFlow, Approve, ChangeAddress, SpendState, LoginNext,
                CheckLockout, LookUp, CountFailure, ClearFailures, AbandonLogin, ReapAttempts,
                users
  <2> QED BY <2>2, <2>3, <2>4, <2>5 DEF AccountsNext, GoogleNext
<1> QED BY <1>1, AccountsInvHolds, PTL DEF AccountsSpec, SuspensionHolds

-----------------------------------------------------------------------------
\* The lockout of password sign-in.

\* The sign-ins that have passed the check of an address.
Passed == [e \in Emails |-> {l \in Logins : loginPc[l] # "idle" /\ tried[l] = e}]

\* A sign-in that ends leaves the others' passes alone.
LEMMA LoginEnds ==
  ASSUME AccountsInv, NEW l \in Logins, loginPc[l] # "idle",
         GotoLogin(l, "idle"), tried' = tried
  PROVE  /\ tried[l] \in Emails
         /\ l \in Passed[tried[l]]
         /\ Passed' = [Passed EXCEPT ![tried[l]] = @ \ {l}]
<1>1. tried[l] \in Emails
  BY DEF AccountsInv, LoginsOK
<1>2. \A k \in Logins : loginPc'[k] = IF k = l THEN "idle" ELSE loginPc[k]
  BY DEF GotoLogin, AccountsInv, AccountsTypeOK
<1>3. \A e \in Emails :
        Passed'[e] = IF e = tried[l] THEN Passed[e] \ {l} ELSE Passed[e]
  BY <1>2 DEF Passed
<1>4. Passed' = [e \in Emails |-> Passed'[e]] /\ Passed = [e \in Emails |-> Passed[e]]
  BY DEF Passed
<1>5. Passed' = [Passed EXCEPT ![tried[l]] = @ \ {l}]
  BY <1>1, <1>3, <1>4
<1> QED BY <1>1, <1>5 DEF Passed

\* The lockout keeps the promise of a limit that is counted first and recorded later.
THEOREM LockoutIsALimit == AccountsSpec => LockoutLimits
<1>1. AccountsInit => Lockout!LimiterInit
  BY DEF AccountsInit, Lockout!LimiterInit
<1>2. AccountsInv /\ [AccountsNext]_accountVars =>
        [Lockout!LimiterNext]_(Lockout!limiterVars)
  <2> SUFFICES ASSUME AccountsInv, [AccountsNext]_accountVars
               PROVE  Lockout!LimiterNext \/ UNCHANGED <<attempts, Passed>>
    BY DEF Lockout!limiterVars, Passed
  <2>1. CASE UNCHANGED loginVars
    BY <2>1 DEF loginVars, Passed
  <2>2. ASSUME NEW l \in Logins, NEW e \in Emails, CheckLockout(l, e)
        PROVE  Lockout!Pass(e, l)
    <3>1. /\ \A k \in Logins : loginPc'[k] = IF k = l THEN "look" ELSE loginPc[k]
          /\ \A k \in Logins : tried'[k] = IF k = l THEN e ELSE tried[k]
          /\ loginPc[l] = "idle"
      BY <2>2 DEF CheckLockout, GotoLogin, AccountsInv, AccountsTypeOK
    <3>2. \A d \in Emails : Passed'[d] = IF d = e THEN Passed[d] \union {l} ELSE Passed[d]
      BY <3>1 DEF Passed
    <3>3. Passed' = [d \in Emails |-> Passed'[d]] /\ Passed = [d \in Emails |-> Passed[d]]
      BY DEF Passed
    <3>4. Passed' = [Passed EXCEPT ![e] = @ \union {l}]
      BY <3>2, <3>3
    <3> QED BY <2>2, <3>4 DEF CheckLockout, Passed, Lockout!Pass
  <2>3. ASSUME NEW l \in Logins, LookUp(l)
        PROVE  (\E e \in Emails : Lockout!Give(e, l)) \/ UNCHANGED <<attempts, Passed>>
    <3>1. CASE GotoLogin(l, "idle")
      <4>1. PICK e \in Emails : /\ e = tried[l] /\ l \in Passed[e]
                                /\ Passed' = [Passed EXCEPT ![e] = @ \ {l}]
        BY <2>3, <3>1, LoginEnds DEF LookUp
      <4>2. Lockout!Give(e, l)
        BY <2>3, <4>1 DEF LookUp, Passed, Lockout!Give
      <4> QED BY <4>2
    <3>2. ASSUME NEW pc \in {"fail", "clear"}, GotoLogin(l, pc)
          PROVE  UNCHANGED <<attempts, Passed>>
      <4>1. \A k \in Logins : loginPc'[k] # "idle" <=> loginPc[k] # "idle"
        BY <2>3, <3>2 DEF LookUp, GotoLogin, AccountsInv, AccountsTypeOK
      <4> QED BY <2>3, <4>1 DEF LookUp, Passed
    <3> QED BY <2>3, <3>1, <3>2 DEF LookUp
  <2>4. ASSUME NEW l \in Logins, CountFailure(l) \/ ClearFailures(l) \/ AbandonLogin(l)
        PROVE  \E e \in Emails :
                 Lockout!Record(e, l) \/ Lockout!GiveAndForget(e, l) \/ Lockout!Give(e, l)
    <3>1. /\ loginPc[l] # "idle" /\ GotoLogin(l, "idle") /\ tried' = tried
      BY <2>4 DEF CountFailure, ClearFailures, AbandonLogin
    <3>2. PICK e \in Emails : /\ e = tried[l] /\ l \in Passed[e]
                              /\ Passed' = [Passed EXCEPT ![e] = @ \ {l}]
      BY <3>1, LoginEnds
    <3>3. CASE CountFailure(l)
      BY <3>2, <3>3 DEF CountFailure, Passed, Lockout!Record
    <3>4. CASE ClearFailures(l)
      BY <3>2, <3>4 DEF ClearFailures, Passed, Lockout!GiveAndForget
    <3>5. CASE AbandonLogin(l)
      BY <3>2, <3>5 DEF AbandonLogin, Passed, Lockout!Give
    <3> QED BY <2>4, <3>3, <3>4, <3>5
  <2>5. ASSUME NEW e \in Emails, ReapAttempts(e)
        PROVE  Lockout!Forget(e)
    <3>1. attempts' = [attempts EXCEPT ![e] = 0] /\ 0 \in 0..attempts[e]
      BY <2>5 DEF ReapAttempts, AccountsInv, AccountsTypeOK
    <3> QED BY <2>5, <3>1 DEF ReapAttempts, Lockout!Forget
  <2>6. CASE LoginNext
    BY <2>6, <2>2, <2>3, <2>4, <2>5 DEF LoginNext, Lockout!LimiterNext
  <2>7. CASE ~LoginNext
    BY <2>1, <2>7
       DEF AccountsNext, accountVars, Register, CreateByOperator, Moderate, GoogleNext,
           BeginGoogle, LapseFlow, Approve, ChangeAddress, SpendState, CallbackStep,
           ExchangeCode, FindBySubject, FindByEmail, LinkIdentity, CreateAccount, FindAgain
  <2> QED BY <2>6, <2>7
<1> QED BY <1>1, <1>2, AccountsInvHolds, PTL
        DEF AccountsSpec, LockoutLimits, Lockout!LimiterSpec

Counted ==
  INSTANCE LimiterProofs WITH
    Keys <- Emails, Callers <- Logins, Limit <- MaxAttempts, recorded <- attempts,
    passed <- [e \in Emails |-> {l \in Logins : loginPc[l] # "idle" /\ tried[l] = e}]

\* With n password sign-ins at a time, fewer than n failures more than login_max_attempts
\* are counted for an address before it is locked.
THEOREM LockoutOvershoots ==
  ASSUME IsFiniteSet(Logins)
  PROVE  AccountsSpec => []Counted!Overshoot
<1>0. MaxAttempts \in Nat \ {0} /\ Counted!IsFiniteSet(Logins)
  BY AccountsAssumption DEF IsFiniteSet, Counted!IsFiniteSet
<1>1. AccountsInit => Counted!LimiterInv
  BY <1>0, Counted!LimiterInitInv DEF AccountsInit, Counted!LimiterInit
<1>2. Counted!LimiterInv /\ [Lockout!LimiterNext]_(Lockout!limiterVars) => Counted!LimiterInv'
  BY <1>0, Counted!LimiterStep
     DEF Lockout!LimiterNext,
         Lockout!limiterVars, Lockout!Pass, Lockout!Record, Lockout!Give, Lockout!Forget,
         Lockout!GiveAndForget, Counted!LimiterNext,
         Counted!limiterVars, Counted!Pass, Counted!Record, Counted!Give, Counted!Forget,
         Counted!GiveAndForget
<1>3. Counted!LimiterInv => Counted!Overshoot
  BY <1>0, Counted!LimiterBounds
<1> QED BY <1>1, <1>2, <1>3, LockoutIsALimit, PTL
        DEF AccountsSpec, LockoutLimits, Lockout!LimiterSpec
=============================================================================
