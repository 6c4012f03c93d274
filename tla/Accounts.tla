------------------------------- MODULE Accounts -------------------------------
(***************************************************************************)
(* How accounts come to be and who gets into them: registration, the       *)
(* operator's script, Google sign-in with its linking of identities, and   *)
(* the lockout of password sign-in (src/app/modules/auth/service.py,       *)
(* auth/google.py, src/scripts/create_user.py).  The session a sign-in     *)
(* opens in the end is Sessions.tla's.                                     *)
(*                                                                         *)
(* One action per database call.  An account is identified with the        *)
(* request that inserts it.  A request that dies takes no further step.    *)
(***************************************************************************)
EXTENDS Integers, FiniteSets

CONSTANTS
  Registrations,  \* registrations and runs of the operator's script
  Callbacks,      \* Google's redirects back to us
  Flows,          \* Google sign-ins begun, each with its own state and nonce
  Logins,         \* password sign-ins that can be under way at once
  Subjects,       \* people, as Google names them
  Emails,
  Settable,       \* the statuses the console sets
  MaxAttempts,    \* login_max_attempts
  None

Accounts == Registrations \union Callbacks

VARIABLES
  email,       \* users collection: email, None where there is no document
  status,      \* users collection: status
  identities,  \* users collection: the linked Google subjects
  flow,        \* oauth_states collection: "none", "open" or "gone"
  grant,       \* at Google: who approved each flow
  address,     \* at Google: each subject's email address
  callbackPc,  \* where each callback is
  spent,       \* the flow whose state each callback presents
  code,        \* the flow whose authorization code it carries
  claim,       \* what the id token says
  account,     \* the account it has found
  seen,        \* that account's status when it was read
  attempts,    \* login_attempts collection: count, 0 where there is no document; an address
               \* stands for itself together with the network address it is tried from
  loginPc,     \* where each password sign-in is
  tried        \* the address it tries

users == <<email, status, identities>>
google == <<flow, grant, address>>
callbackVars == <<callbackPc, spent, code, claim, account, seen>>
loginVars == <<attempts, loginPc, tried>>
accountVars == <<users, google, callbackVars, loginVars>>

UserStatus == {"ACTIVE", "PENDING_VERIFICATION", "SUSPENDED", "DELETED"}
CallbackPc ==
  {"idle", "exchange", "subject", "email", "link", "create", "again", "refused", "done"}
Claims == [subject : Subjects, email : Emails, verified : BOOLEAN]

ASSUME AccountsAssumption ==
  /\ Registrations \intersect Callbacks = {}
  /\ Settable \subseteq UserStatus
  /\ MaxAttempts \in Nat \ {0}
  /\ None \notin Accounts \union Flows \union Subjects \union Emails \union UserStatus
  /\ None \notin Claims

AccountsInit ==
  /\ email = [a \in Accounts |-> None]
  /\ status = [a \in Accounts |-> None]
  /\ identities = [a \in Accounts |-> {}]
  /\ flow = [f \in Flows |-> "none"]
  /\ grant = [f \in Flows |-> None]
  /\ address \in [Subjects -> Emails]
  /\ callbackPc = [r \in Callbacks |-> "idle"]
  /\ spent = [r \in Callbacks |-> None]
  /\ code = [r \in Callbacks |-> None]
  /\ claim = [r \in Callbacks |-> None]
  /\ account = [r \in Callbacks |-> None]
  /\ seen = [r \in Callbacks |-> None]
  /\ attempts = [e \in Emails |-> 0]
  /\ loginPc = [l \in Logins |-> "idle"]
  /\ tried = [l \in Logins |-> None]

-----------------------------------------------------------------------------
\* Inserting users

\* The unique indexes on email and on identities: no other document has them.
EmailTaken(e) == \E a \in Accounts : email[a] = e
SubjectTaken(g, a) == \E b \in Accounts \ {a} : g \in identities[b]

InsertUser(a, e, s, linked) ==
  /\ email' = [email EXCEPT ![a] = e]
  /\ status' = [status EXCEPT ![a] = s]
  /\ identities' = [identities EXCEPT ![a] = linked]

\* register: a password account whose address is not verified yet.  A taken address is
\* refused by the index.
Register(a, e) ==
  /\ email[a] = None
  /\ ~EmailTaken(e)
  /\ InsertUser(a, e, "PENDING_VERIFICATION", {})
  /\ UNCHANGED <<google, callbackVars, loginVars>>

\* create_user.py: an account ready for use.  A taken address is found first, and is
\* either refused or has its roles replaced, which changes nothing here.
CreateByOperator(a, e) ==
  /\ email[a] = None
  /\ ~EmailTaken(e)
  /\ InsertUser(a, e, "ACTIVE", {})
  /\ UNCHANGED <<google, callbackVars, loginVars>>

\* set_user_status.
Moderate(a, s) ==
  /\ email[a] # None
  /\ status' = [status EXCEPT ![a] = s]
  /\ UNCHANGED <<email, identities, google, callbackVars, loginVars>>

-----------------------------------------------------------------------------
\* begin_google, and what happens at Google

BeginGoogle(f) ==
  /\ flow[f] = "none"
  /\ flow' = [flow EXCEPT ![f] = "open"]
  /\ UNCHANGED <<users, grant, address, callbackVars, loginVars>>

\* Ten minutes later: refused by its own date until the TTL index reaps it.
LapseFlow(f) ==
  /\ flow[f] = "open"
  /\ flow' = [flow EXCEPT ![f] = "gone"]
  /\ UNCHANGED <<users, grant, address, callbackVars, loginVars>>

\* A person approves at Google: the flow's code, and later its id token, are theirs.
Approve(f, g) ==
  /\ flow[f] # "none" /\ grant[f] = None
  /\ grant' = [grant EXCEPT ![f] = g]
  /\ UNCHANGED <<users, flow, address, callbackVars, loginVars>>

\* "A Google account can change its email address."
ChangeAddress(g, e) ==
  /\ address' = [address EXCEPT ![g] = e]
  /\ UNCHANGED <<users, flow, grant, callbackVars, loginVars>>

-----------------------------------------------------------------------------
\* complete_google

Goto(r, pc) == callbackPc' = [callbackPc EXCEPT ![r] = pc]

\* Mutation of SpendState: the state is looked up and stays.
FindState(r, f, c) ==
  /\ callbackPc[r] = "idle"
  /\ flow[f] = "open" /\ grant[c] # None
  /\ Goto(r, "exchange")
  /\ spent' = [spent EXCEPT ![r] = f]
  /\ code' = [code EXCEPT ![r] = c]
  /\ UNCHANGED <<users, google, claim, account, seen, loginVars>>

\* Find and delete the state in one call.  A callback whose state is not there is
\* refused and has done nothing.  The code need not be the one of that flow.
SpendState(r, f, c) ==
  /\ callbackPc[r] = "idle"
  /\ flow[f] = "open" /\ grant[c] # None
  /\ flow' = [flow EXCEPT ![f] = "gone"]
  /\ Goto(r, "exchange")
  /\ spent' = [spent EXCEPT ![r] = f]
  /\ code' = [code EXCEPT ![r] = c]
  /\ UNCHANGED <<users, grant, address, claim, account, seen, loginVars>>

\* Exchange the code and verify the id token: its nonce is the one of the flow the
\* code was issued for and has to be the one of the state.  Google may refuse or fail.
ExchangeCode(r) ==
  /\ callbackPc[r] = "exchange"
  /\ \/ /\ Goto(r, "refused")
        /\ UNCHANGED claim
     \/ /\ code[r] = spent[r]
        /\ Goto(r, "subject")
        /\ \E v \in BOOLEAN :
             claim' = [claim EXCEPT ![r] = [subject |-> grant[code[r]],
                                            email |-> address[grant[code[r]]],
                                            verified |-> v]]
  /\ UNCHANGED <<users, google, spent, code, account, seen, loginVars>>

\* _link_or_create: the account the subject is linked to, whatever its address.
FindBySubject(r) ==
  LET g == claim[r].subject
      linked == {a \in Accounts : g \in identities[a]}
  IN
    /\ callbackPc[r] = "subject"
    /\ \/ /\ \E a \in linked : account' = [account EXCEPT ![r] = a]
          /\ Goto(r, "done")
       \/ /\ linked = {}
          /\ Goto(r, IF claim[r].verified THEN "email" ELSE "refused")
          /\ UNCHANGED account
    /\ UNCHANGED <<users, google, spent, code, claim, seen, loginVars>>

\* Else the account with its address, its status noted, or none.
FindByEmail(r) ==
  /\ callbackPc[r] = "email"
  /\ \/ \E a \in Accounts :
          /\ email[a] = claim[r].email
          /\ account' = [account EXCEPT ![r] = a]
          /\ seen' = [seen EXCEPT ![r] = status[a]]
          /\ Goto(r, "link")
     \/ /\ ~EmailTaken(claim[r].email)
        /\ Goto(r, "create")
        /\ UNCHANGED <<account, seen>>
  /\ UNCHANGED <<users, google, spent, code, claim, loginVars>>

\* Mutation of LinkIdentity: whoever Google knows is active.
LinkAndActivate(r) ==
  LET a == account[r] IN
    /\ callbackPc[r] = "link"
    /\ ~SubjectTaken(claim[r].subject, a)
    /\ identities' = [identities EXCEPT ![a] = @ \union {claim[r].subject}]
    /\ status' = [status EXCEPT ![a] = "ACTIVE"]
    /\ Goto(r, "done")
    /\ UNCHANGED <<email, google, spent, code, claim, account, seen, loginVars>>

\* Link the subject and write the status back as it was read, a pending one made
\* active.  A subject linked elsewhere by now fails on the index.
LinkIdentity(r) ==
  LET a == account[r] IN
    /\ callbackPc[r] = "link"
    /\ \/ /\ ~SubjectTaken(claim[r].subject, a)
          /\ identities' = [identities EXCEPT ![a] = @ \union {claim[r].subject}]
          /\ status' = [status EXCEPT
                          ![a] = IF seen[r] = "PENDING_VERIFICATION" THEN "ACTIVE" ELSE seen[r]]
          /\ Goto(r, "done")
       \/ /\ SubjectTaken(claim[r].subject, a)
          /\ Goto(r, "refused")
          /\ UNCHANGED <<status, identities>>
    /\ UNCHANGED <<email, google, spent, code, claim, account, seen, loginVars>>

\* Mutation of CreateAccount: no unique index on identities or email.
InsertUnchecked(r) ==
  /\ callbackPc[r] = "create"
  /\ InsertUser(r, claim[r].email, "ACTIVE", {claim[r].subject})
  /\ account' = [account EXCEPT ![r] = r]
  /\ Goto(r, "done")
  /\ UNCHANGED <<google, spent, code, claim, seen, loginVars>>

\* Insert an account without a password; either index may refuse.
CreateAccount(r) ==
  LET free == ~EmailTaken(claim[r].email) /\ ~SubjectTaken(claim[r].subject, r) IN
    /\ callbackPc[r] = "create"
    /\ \/ /\ free
          /\ InsertUser(r, claim[r].email, "ACTIVE", {claim[r].subject})
          /\ account' = [account EXCEPT ![r] = r]
          /\ Goto(r, "done")
       \/ /\ ~free
          /\ Goto(r, "again")
          /\ UNCHANGED <<users, account>>
    /\ UNCHANGED <<google, spent, code, claim, seen, loginVars>>

\* After a lost race: the account with the address, as it is, or an error.
FindAgain(r) ==
  /\ callbackPc[r] = "again"
  /\ \/ \E a \in Accounts :
          /\ email[a] = claim[r].email
          /\ account' = [account EXCEPT ![r] = a]
          /\ Goto(r, "done")
     \/ /\ ~EmailTaken(claim[r].email)
        /\ Goto(r, "refused")
        /\ UNCHANGED account
  /\ UNCHANGED <<users, google, spent, code, claim, seen, loginVars>>

-----------------------------------------------------------------------------
\* login

GotoLogin(l, pc) == loginPc' = [loginPc EXCEPT ![l] = pc]

\* Mutation of CheckLockout: one attempt too many.
CheckLoosely(l, e) ==
  /\ loginPc[l] = "idle"
  /\ attempts[e] <= MaxAttempts
  /\ tried' = [tried EXCEPT ![l] = e]
  /\ GotoLogin(l, "look")
  /\ UNCHANGED <<users, google, callbackVars, attempts>>

\* A locked address is refused before anything else.
CheckLockout(l, e) ==
  /\ loginPc[l] = "idle"
  /\ attempts[e] < MaxAttempts
  /\ tried' = [tried EXCEPT ![l] = e]
  /\ GotoLogin(l, "look")
  /\ UNCHANGED <<users, google, callbackVars, attempts>>

\* Read the user and compare the password.  Unknown addresses, accounts without a
\* password and wrong passwords are counted; suspended accounts and a missing second
\* factor are refused without being counted.
LookUp(l) ==
  /\ loginPc[l] = "look"
  /\ \/ GotoLogin(l, "fail")
     \/ \E a \in Registrations :
          /\ email[a] = tried[l]
          /\ \/ GotoLogin(l, "idle")
             \/ status[a] # "SUSPENDED" /\ GotoLogin(l, "clear")
  /\ UNCHANGED <<users, google, callbackVars, attempts, tried>>

\* _register_failure: one more, in one call, whatever the count is by now.
CountFailure(l) ==
  /\ loginPc[l] = "fail"
  /\ attempts' = [attempts EXCEPT ![tried[l]] = @ + 1]
  /\ GotoLogin(l, "idle")
  /\ UNCHANGED <<users, google, callbackVars, tried>>

\* Mutation of ClearFailures: a success makes up for one failure.
ForgiveOne(l) ==
  /\ loginPc[l] = "clear"
  /\ attempts' = [attempts EXCEPT ![tried[l]] = @ - 1]
  /\ GotoLogin(l, "idle")
  /\ UNCHANGED <<users, google, callbackVars, tried>>

\* _clear_failures
ClearFailures(l) ==
  /\ loginPc[l] = "clear"
  /\ attempts' = [attempts EXCEPT ![tried[l]] = 0]
  /\ GotoLogin(l, "idle")
  /\ UNCHANGED <<users, google, callbackVars, tried>>

\* The TTL index: fifteen minutes after the first failure, however many followed.
ReapAttempts(e) ==
  /\ attempts' = [attempts EXCEPT ![e] = 0]
  /\ UNCHANGED <<users, google, callbackVars, loginPc, tried>>

\* A sign-in that dies; its slot is free again.
AbandonLogin(l) ==
  /\ loginPc[l] # "idle"
  /\ GotoLogin(l, "idle")
  /\ UNCHANGED <<users, google, callbackVars, attempts, tried>>

-----------------------------------------------------------------------------
CallbackStep(r) ==
  ExchangeCode(r) \/ FindBySubject(r) \/ FindByEmail(r) \/ LinkIdentity(r) \/ CreateAccount(r)
  \/ FindAgain(r)

GoogleNext ==
  \/ \E f \in Flows : BeginGoogle(f) \/ LapseFlow(f)
  \/ \E f \in Flows, g \in Subjects : Approve(f, g)
  \/ \E g \in Subjects, e \in Emails : ChangeAddress(g, e)
  \/ \E r \in Callbacks, f, c \in Flows : SpendState(r, f, c)
  \/ \E r \in Callbacks : CallbackStep(r)

LoginNext ==
  \/ \E l \in Logins, e \in Emails : CheckLockout(l, e)
  \/ \E l \in Logins : LookUp(l) \/ CountFailure(l) \/ ClearFailures(l) \/ AbandonLogin(l)
  \/ \E e \in Emails : ReapAttempts(e)

AccountsNext ==
  \/ \E a \in Registrations, e \in Emails : Register(a, e) \/ CreateByOperator(a, e)
  \/ \E a \in Accounts, s \in Settable : Moderate(a, s)
  \/ GoogleNext
  \/ LoginNext

AccountsSpec == AccountsInit /\ [][AccountsNext]_accountVars

-----------------------------------------------------------------------------
\* Properties

\* Every variable stays in its type.
AccountsTypeOK ==
  /\ email \in [Accounts -> Emails \union {None}]
  /\ status \in [Accounts -> UserStatus \union {None}]
  /\ identities \in [Accounts -> SUBSET Subjects]
  /\ flow \in [Flows -> {"none", "open", "gone"}]
  /\ grant \in [Flows -> Subjects \union {None}]
  /\ address \in [Subjects -> Emails]
  /\ callbackPc \in [Callbacks -> CallbackPc]
  /\ spent \in [Callbacks -> Flows \union {None}]
  /\ code \in [Callbacks -> Flows \union {None}]
  /\ claim \in [Callbacks -> Claims \union {None}]
  /\ account \in [Callbacks -> Accounts \union {None}]
  /\ seen \in [Callbacks -> UserStatus \union {None}]
  /\ attempts \in [Emails -> Nat]
  /\ loginPc \in [Logins -> {"idle", "look", "fail", "clear"}]
  /\ tried \in [Logins -> Emails \union {None}]

\* A Google sign-in that succeeds was begun here, once, and approved by the very person
\* it lets in, who is let into an account that is linked to them or carries the address
\* Google has verified for them.
SignInIsTheirs ==
  \A r \in Callbacks :
    callbackPc[r] = "done" =>
      /\ claim[r].subject = grant[spent[r]]
      /\ \A q \in Callbacks \ {r} : spent[q] # spent[r]
      /\ \/ claim[r].subject \in identities[account[r]]
         \/ claim[r].verified /\ claim[r].email = email[account[r]]

\* All sign-ins Google has answered for this person named one address.
OneAddress(g) ==
  \A r, q \in Callbacks :
    claim[r] # None /\ claim[q] # None /\ claim[r].subject = g /\ claim[q].subject = g =>
      claim[r].email = claim[q].email

\* "One account per person": however first sign-ins and registrations race, all
\* sign-ins of a person whose address stays the same end in one account.
OneAccountPerPerson ==
  \A r, q \in Callbacks :
    /\ callbackPc[r] = "done" /\ callbackPc[q] = "done"
    /\ claim[r].subject = claim[q].subject
    /\ OneAddress(claim[r].subject)
    => account[r] = account[q]

\* The link is about to write a status other than SUSPENDED, because it read the
\* account before it was suspended.
ReadBeforeSuspension(r, a) ==
  callbackPc[r] = "link" /\ account[r] = a /\ seen[r] # "SUSPENDED"

\* A suspension is lifted by the console, or by the link of an identity that read the
\* account before the suspension, and by nothing else.
SuspensionHolds ==
  [][\A a \in Accounts :
       status[a] = "SUSPENDED" /\ status'[a] # "SUSPENDED" =>
         \/ \E s \in Settable : Moderate(a, s)
         \/ \E r \in Callbacks : ReadBeforeSuspension(r, a) /\ callbackPc'[r] = "done"]_accountVars

Lockout ==
  INSTANCE Limiter WITH
    Keys <- Emails, Callers <- Logins, Limit <- MaxAttempts, recorded <- attempts,
    passed <- [e \in Emails |-> {l \in Logins : loginPc[l] # "idle" /\ tried[l] = e}]

\* The lockout keeps its promise as far as a count before the password check can: with
\* n sign-ins at a time, at most n - 1 passwords too many are tried (Limiter.tla).
LockoutLimits == Lockout!LimiterSpec
=============================================================================
