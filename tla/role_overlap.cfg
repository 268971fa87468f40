\* Two administrators, two roles (one known, one added), two menus, one department.
CONSTANTS
  MaxRole = 2
  Known = 1
  m1 = m1
  m2 = m2
  d1 = d1
  r1 = r1
  r2 = r2
  Menus <- TwoMenus
  Depts <- OneDept
  Requests <- TwoRequests
  Failures = TRUE
SPECIFICATION Spec
SYMMETRY Symmetry
INVARIANTS EditWillApply GoneRoleGrantsNothing
PROPERTY GainsWereAsked
