\* One request at a time, nothing fails; fair.
CONSTANTS
  root = root
  ann = ann
  r1 = r1
  r2 = r2
  r3 = r3
  p1 = p1
  p2 = p2
  None = None
  Root = root
  Users <- MCUsers
  Passwords <- MCPasswords
  Requests <- OneRequest
  MaxTime = 1
  MaxPv = 2
  Failures = FALSE
SPECIFICATION FairSpec
INVARIANTS SessionHasPerms TokenNamesItsUser
PROPERTIES OrdinaryLoginOpens RequestsEnd
\* Once both users are disabled nobody is left to log in.
CHECK_DEADLOCK FALSE
