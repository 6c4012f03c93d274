\* Two registrations and two people with two addresses; two Google sign-ins in two flows,
\* or three password sign-ins at a time and a lockout after two failures.  Members of one
\* set, except registrations, are interchangeable.  The system may stop.
SPECIFICATION MCSpec
CONSTANTS
  Registrations = {n1, n2}
  Callbacks = {r1, r2}
  Flows = {f1, f2}
  Logins = {l1, l2, l3}
  Subjects = {g1, g2}
  Emails = {e1, e2}
  Settable = {"ACTIVE", "SUSPENDED"}
  MaxAttempts = 2
  None = None
SYMMETRY Interchangeable
INVARIANTS
  AccountsTypeOK
  SignInIsTheirs
  OneAccountPerPerson
PROPERTIES
  SuspensionHolds
  LockoutLimits
CHECK_DEADLOCK FALSE
