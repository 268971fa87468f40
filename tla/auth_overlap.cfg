\* Three overlapping requests of one ordinary user, with failures.
CONSTANTS
  root = root
  ann = ann
  r1 = r1
  r2 = r2
  r3 = r3
  p1 = p1
  p2 = p2
  None = None
  Root = root
  Users <- OneUser
  Passwords <- MCPasswords
  Requests <- ThreeRequests
  MaxTime = 0
  MaxPv = 2
  Failures = TRUE
SPECIFICATION Spec
SYMMETRY Symmetric
INVARIANTS OldPasswordSessionClosed IInv
PROPERTIES OnlyLoginOpens
\* Once the only user is disabled or deleted nobody is left to log in.
CHECK_DEADLOCK FALSE
