SPECIFICATION Spec
CONSTANTS
  p1 = p1
  p2 = p2
  c1 = c1
  c2 = c2
  u1 = u1
  u2 = u2
  admins = admins
  everyone = everyone
  Procs <- MCProcs
  Clients <- MCClients
  Stale = stale
  Users <- MCUsers
  Admins <- MCAdmins
  Modes <- MCModes
  Everyone = everyone
  None = None
  Unset = Unset
  MaxOps = 3
  MaxOverlap = 2
  MaxFaults = 1
CHECK_DEADLOCK FALSE
INVARIANT ModeInForce
