\* The menus, without the other parts.
CONSTANTS
  Parts = {"tree"}
  \* Captcha
  Captchas = {c1, c2}
  Texts = {x, y}
  Logins = {l1, l2}
  NoCaptcha = NoCaptcha
  \* TaskService
  t1 = t1
  t2 = t2
  j1 = j1
  j2 = j2
  Instances = {i1, i2}
  Tasks = {t1}
  Jobs = {j1, j2}
  TaskOf <- OneTask
  Recurs = {j1, j2}
  Ended = {t1}
  Nobody = Nobody
  Ttl = 2
  MaxBoots = 2
  \* TaskLog
  run1 = run1
  run2 = run2
  clear = clear
  LogTasks = {t1, t2}
  QueueJobs = {run1, run2, clear}
  JobTask <- LogTaskOf
  ClearJobs = {clear}
  \* ExcelExport
  Exports = {e1, e2}
  LastDay = 1
  NoFile = NoFile
  \* WsNotice
  Users = {1, 2}
  Roles = {1, 2}
  Root = 1
  Sockets = {s1, s2}
  Notices = {n1}
  Kicks = {k1}
  NoUser = 0
  \* MenuTree
  Menus = {1, 2, 3}
  Builtin = {1}
  Walks = {w1}
  MaxMoves = 1
  \* TableApi
  Calls = {a1, a2}
  MaxRows = 2
  PageSize = 1
  NoKey = NoKey
SPECIFICATION Spec
INVARIANT RoutersShowAll
\* Changes of a menu run out.
CHECK_DEADLOCK FALSE
