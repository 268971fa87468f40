\* A user of two ordinary roles.
CONSTANTS
  root = root
  ann = ann
  r1 = r1
  r2 = r2
  detail = detail
  None = None
  All = All
  Root = root
  RootRole = 1
  Users <- OneUser
  Roles <- TwoOrdinary
  Menus <- OneMenu
  Parent <- Flat
  Protected <- NoProtected
  Requests <- OneRequest
  Failures = FALSE
SPECIFICATION SumSpec
INVARIANTS PermsOfAllRoles
