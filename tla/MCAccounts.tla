------------------------------ MODULE MCAccounts ------------------------------
(***************************************************************************)
(* Instances of accounts and their sign-ins for TLC.  A behaviour is about *)
(* Google sign-ins or about password sign-ins; registrations and the       *)
(* console take part in both.  The two kinds share nothing but the users   *)
(* they read, and a password sign-in writes none.                          *)
(***************************************************************************)
EXTENDS Accounts, TLC

VARIABLE side  \* the kind of sign-in this behaviour is about

MCInit == AccountsInit /\ side \in {"google", "password"}

MCNext ==
  /\ AccountsNext
  /\ side = "google" => UNCHANGED loginVars
  /\ side = "password" => UNCHANGED <<google, callbackVars>>
  /\ UNCHANGED side

MCSpec == MCInit /\ [][MCNext]_<<accountVars, side>>

Interchangeable ==
  Permutations(Callbacks) \union Permutations(Flows) \union Permutations(Logins)
  \union Permutations(Subjects) \union Permutations(Emails)
=============================================================================
