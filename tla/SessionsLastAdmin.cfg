\* Two super admins, two requests at a time.
SPECIFICATION SessionsSpec
CONSTANTS
  Users = {u1, u2}
  Admins = {u1, u2}
  SignIns = {s1, s2}
  Refreshes = {}
  Requests = {q1, q2}
  Settable = {"ACTIVE"}
  None = None
INVARIANT SuperAdminRemains
CHECK_DEADLOCK FALSE
