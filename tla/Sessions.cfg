\* Two accounts, one of them a super admin; two sign-ins, three refreshes and one
\* authenticated request at a time, reused.  No symmetry: liveness is checked.  The
\* system may stop: nobody has to sign in.
SPECIFICATION FairSessionsSpec
CONSTANTS
  Users = {u1, u2}
  Admins = {u1}
  SignIns = {s1, s2}
  Refreshes = {r1, r2, r3}
  Requests = {q1}
  Settable = {"ACTIVE", "SUSPENDED"}
  None = None
INVARIANTS
  SessionsTypeOK
  BurntStaysBurnt
  KilledMeansReused
PROPERTIES
  OverIsFinal
  SuspensionTakesHold
CHECK_DEADLOCK FALSE
