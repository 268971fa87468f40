\* Two administrators, the root user and one more, two names, one role.
CONSTANTS
  MaxUser = 2
  n1 = n1
  n2 = n2
  p1 = p1
  role1 = role1
  post1 = post1
  r1 = r1
  r2 = r2
  None = None
  Names <- TwoNames
  Phones <- OnePhone
  Roles <- OneRole
  Posts <- OnePost
  Requests <- TwoRequests
  Failures = TRUE
SPECIFICATION Spec
SYMMETRY Symmetry
INVARIANTS UniqueUnlessRaced PostsHaveUser GrantWillApply IInv
