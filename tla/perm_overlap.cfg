\* Two overlapping requests of one user, with failures; or one request at a
\* time of two users.
CONSTANTS
  root = root
  ann = ann
  r1 = r1
  r2 = r2
  detail = detail
  None = None
  All = All
  Root = root
  RootRole = 1
  Users <- MCUsers
  Roles <- RootAndOne
  Menus <- OneMenu
  Parent <- Flat
  Protected <- NoProtected
  Requests <- TwoRequests
  Failures = TRUE
SPECIFICATION SumSpec
SYMMETRY Symmetric
INVARIANTS IInv CacheFresh
PROPERTIES LoneRefreshes LoneLoginCopies
