\* One update of one role, and the menus of another are gone.
CONSTANTS
  MaxRole = 2
  Known = 2
  m1 = m1
  m2 = m2
  d1 = d1
  r1 = r1
  r2 = r2
  Menus <- OneMenu
  Depts <- OneDept
  Requests <- OneRequest
  Failures = FALSE
SPECIFICATION Spec
PROPERTY OtherRolesKept
