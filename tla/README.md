# Verification of nest-ruoyi-prisma

TLA+ models, TLC runs and TLAPS proofs for the back end of a RuoYi-style
administration system (NestJS on Fastify, Prisma on MySQL, ioredis, Bull,
Socket.IO). Paths are relative to `src/src/modules/admin/` unless they start with
`src/`.

Run a model with `tlc -config <run>.cfg MC<Module>.tla` (`auth_*` with
`MCAuthSession`, `perm_*` with `MCPermCache`, `role_*` with `MCRoleAdmin`, `user_*` with
`MCUserAdmin`, `parts_*`, `tasks_start` and `routers_children` with `MCParts`), a proof
with `tlapm <Module>_proofs.tla`. `PROJECT.json` lists the runs, a mutation of the
model for every property, the source lines of every definition, the hazards and
the theorems.

## 1. Inventory

One Node process per instance; the process manager may run several. Requests
interleave at every `await`. All state that outlives a request is in MySQL or
Redis.

| Part | State | Operations | Interacts with | Hard behaviour |
|---|---|---|---|---|
| Login (`login/`) | `admin:captcha:img:*` (5 min); `admin:passwordVersion:u`, `admin:token:u` (24 h), `admin:perms:u` | captcha create and check, `getLoginSign` | users, permission cache, login log | three keys written by three awaits; the captcha read, compared, deleted |
| Guard (`core/guards/`) | none | `canActivate` before every handler without `@Authorize` | the three keys | two to three reads at different instants |
| Account, online (`account/`, `system/online/`) | none of their own | logout, own password, kick | `forbidden`, password version, sockets | three deletes; read-then-write of the version |
| Users (`system/user/`) | `sys_user`, `sys_user_role`, `sys_user_post` | create, update, delete, assign roles, passwords, export | permission cache | uniqueness tested outside the transaction and not by the table; deletes in separate statements |
| Roles (`system/role/`) | `sys_role`, `sys_role_menu`, `sys_role_dept` | add, two updates, data scope, two deletes, grant and cancel | users, cache, WebSocket | read outside the transaction; deletes that reach other roles |
| Menus (`system/menu/`, `system/menuBack/`) | `sys_menu` (a tree by `parentId`) | CRUD, subtree delete, permission calculation and refresh | cache, WebSocket | the copy of permissions takes three awaits; recursion along `parentId` |
| Tasks (`system/task/`, `monitor/job/`, `src/src/mission/`) | `sys_job`, Bull queue, an init lock | init, start, stop, complete, `callService` | log, Redis | lock with expiry over several instances; crash while holding it |
| Logs (`system/log/`, `monitor/`) | `sys_logininfor`, `sys_oper_log`, `sys_job_log` | append, page, clear | – | the key of `sys_job_log` |
| WebSocket (`src/src/modules/ws/`) | connected sockets | connect, disconnect, notify | users, menus, kick | several sockets of one user |
| Excel (`src/src/shared/services/excel.service.ts`) | one file per prefix and day in `temp/` | write, stream, unlink | users, logs, roles | shared file, lazy open against unlink |
| Departments, dictionaries, parameters, posts, notices | one table each | CRUD, tree | – | the tree builder |
| Logger, exceptions, interceptors, configuration, server monitor | none, or files written by a library | – | – | the level test of the logger |

What makes each part correct:

- Sessions: the guard lets exactly the holder of the last login in; a password
  change ends the sessions of the old password; nothing but a login opens one;
  a login that answers with a token has opened its session.
- Permissions: what the guard reads is what the tables give, or someone knows
  it is out of date; a refresh reaches every online user; the calculation
  covers every role.
- Captcha: one answer for one captcha. Users: names stay unique, no rows of
  deleted users. Roles: an update of one role leaves the others alone. Tasks:
  one initialiser at a time, a crash does not leave the lock for good, a task that
  is meant to run is in the queue (it is not, finding 4). Excel: every download is
  the reader's own data. WebSocket: a client whose menus have changed is told
  (where the change gives notice of itself, section 10). Menu tree: the subtree
  delete ends and removes the subtree. Pages: a client that reads them all misses
  no row.

## 2. Modules

| Module | Part | Shown by |
|---|---|---|
| `AuthSession` | the three session keys, passwords, the guard | `auth_*`, `AuthSession_proofs` |
| `PermCache` | tables to permission keys | `perm_*`, `PermCache_proofs` |
| `RoleAdmin` | roles, their menus and departments | `role_*`, `RoleAdmin_proofs` |
| `UserAdmin` | users, their roles and posts | `user_overlap`, `UserAdmin_proofs` |
| `Captcha` | captchas and the logins that use them | `parts_safety`, `MCParts_proofs` |
| `TaskService`, `InitLease` | starting instances, the queue, `sys_job`; the promise of the lock | `parts_*`, `tasks_start`, `TaskService_proofs` |
| `TaskLog` | a job's call and its row in `sys_job_log` | `parts_safety`, `TaskService_proofs` |
| `ExcelExport` | the shared file of the exports | `parts_safety`, `MCParts_proofs` |
| `WsNotice` | sockets, notices, the kick | `parts_*`, `MCParts_proofs` |
| `MenuTree` | the tree of menus, its queries and the deletion of a subtree | `parts_*`, `routers_children`, `MenuTree_proofs` |
| `ApiRoutes`, `TableApi` | every route with its permission; the one-table controllers under overlap | `parts_safety`, `TableApi_proofs` |
| `MCParts` | the sum of the last seven rows | `parts_*`, `MCParts_proofs` |

The parts meet where one calls another: `forbidden` of `AuthSession` is what a kick
of `WsNotice` runs before it closes a socket; the login of `PermCache` is that of
`AuthSession` seen from the permission key; `UserAdmin` and `RoleAdmin` have the rows
whose effect on permissions `PermCache` has. What one part needs of another it has
as actions of its own (`ChangeUserRole` in `WsNotice`, `EndJob` in `TaskService`), which
allow whatever the other may do.

What would come next: an abstract `Session` (opened by a login, closed by logout,
kick, password change and expiry) that `AuthSession` implements as far as it does,
and one model of `AuthSession` and `PermCache` together for what the guard decides.

Modules that are proved about use recursive functions and folds, never
`RECURSIVE`.

## 3. AuthSession

State: `account` and `password` are columns of `sys_user`; `pv`, `tok`, `perms`
are the three Redis keys of each user; `handed` is the set of JWTs a client has
received; `req` is one record per HTTP request in progress with a program
counter, so every `await` that touches this state is a point where others may
run. `openedWith` and `excused` are history: they do not influence any action.

| Code | Actions |
|---|---|
| `getLoginSign` (`login/login.service.ts:139-183`) | `LoginCheck`, `LoginReuse` or `LoginSign`, `LoginSetPv`, `LoginSetToken`, `LoginSetPerms`, `LoginReply` |
| `canActivate` (`core/guards/auth.guard.ts:18-79`) | `GuardVersion`, `GuardToken`, `GuardPerms`, `OtherHandler` |
| `forbidden` via logout and kick | `Logout`, `Kick`, `DelPv`, `DelToken`, `DelPerms` |
| `updatePassword`, `forceUpdatePassword`, `upgradePasswordV` | `ChangeOwnPassword`, `ForcePassword`, `PwWrite`, `PvGet`, `PvSet` |
| user `update` (status) and `delete` | `SetStatus`, `DeleteUser` |
| environment | `TokenExpires` (24 h), `Tick` (the second in `iat`), `Abort` (a rejected await or a restart) |

Abstractions: a password is its digest and md5 is taken to be injective; a JWT
is its `uid` and `iat` (`pv` is always 1, the secret is not modelled, a token
verifies only if a login produced it); the contents of the permission key are
left to `PermCache`; a request picks its route after the guard instead of before,
which allows the same behaviours; a request that is refused changes nothing and
only frees its slot. `Root` is the uid the code compares with 1 and is assumed to
be the first holder of the root role, which `findRootUserId` looks up. Deletion
with ids that arrive as strings is taken to work.

Properties:

- `IInv`, the inductive invariant of the proofs, which holds the types.
- `TokenNamesItsUser` – a stored or returned token belongs to the right user.
- `OldPasswordSessionClosed` – a session the guard would accept was opened with
  the password stored now, except in four windows: between the write of the
  password and the bump of the version; while a later login is between its first
  two writes; when the login had checked its password before the change and
  wrote its token after it; when one of these was cut off. TLC finds a violation
  when any one of the four is dropped, so the code really has each of them.
- `OnlyLoginOpens` – an action property: only a login of u turns a session of u
  the guard refuses into one it accepts. `upgradePasswordV` could break it by
  overwriting: it writes the value it read plus one over whatever a login has
  set meanwhile, and a mutant that forgets its test for an absent key does.
- `SessionHasPerms`, `OrdinaryLoginOpens` – without overlap, a live session has
  its permission key, and a login that answers has opened the session it answers
  with. Both fail with overlap (a slow logout removes the keys of the next
  session); the runs say so by having one slot.
- `RequestsEnd` – liveness: each request runs to its end.
- `RootLoginOpens` – the same as `OrdinaryLoginOpens` for the administrator; the
  code violates it (finding 1).

## 4. PermCache

State: the three tables that determine permissions (`userRole`, `roleMenu`, `menu`),
the rows of `sys_role`, whether a user has a token, the permission key `cache`,
and the requests. `stale` and the `old` flag of a request are history: `stale`
marks users whose permissions changed since they were last copied or whose last
copy was overtaken; `old` marks a calculation under way whose user was affected
by a write.

| Code | Actions |
|---|---|
| `getPerms` | `ReadRoles`, `QueryMenus` (`PermsOf`) |
| `getLoginSign` | `Login`, `LoginSetToken`, `SetPerms` |
| `refreshPerms` | `CheckOnline`, `SetPerms` |
| `refreshOnlineUserPerms` | `KeysTokens`, `Each`, `SetPerms` |
| `PUT /user`, `PUT /user/authRole` | `ReplaceRoles`; `AuthRole`, `GrantRoles` |
| `/role/authUser/*` | `CancelAuth`, `SelectAll` |
| `PUT /role`, `POST /role/update` | `UpdateRole`, `UpdateEmptyRole`, `RoleTx` |
| `DELETE /role/:ids`, `POST /role/delete` | `RemoveRole`, `DeleteUnusedRole` |
| `POST /menuBack/delete`, `PUT` and `DELETE /system/menu` | `DeleteMenu`, `SetMenu` |
| `forbidden`, expiry, crash | `Forbid`, `DelToken`, `DelPerms`, `TokenExpires`, `Abort` |

`PermsOf` is the query as MySQL runs it. The ids are joined into one string and
bound as one parameter, and a number column compared with a string compares with
the number the string starts with, so only the first role counts. `role/update`
mixes BigInt ids with numbers, so its difference always inserts everything and
its delete has no usable ids: it succeeds only for a role without menus (and
without departments). `role/delete` passes an array where the service expects an
object and deletes nothing. `menuBack/add` and `update` name columns the table does
not have and always fail. The tree is fixed, and a subtree is read and deleted
in one step. The removal of a deleted user's roles has the effect of
`AuthRole` with no roles and is not an action of its own.

Properties:

- `IInv`, the inductive invariant, which holds the types.
- `CacheFresh` – the key of a user who is not marked is what `getPerms` would
  calculate now. The marks are the races the code has: a login that calculated
  its permissions before a menu was deleted writes them after the refresh has
  ended, and nothing tells. It fails if a copy mixes two users, reads the roles of one
  moment and writes them after another without being marked, or calculates
  anything else than the tables say.
- `LoneRefreshes` – without overlap, when `refreshOnlineUserPerms` ends every
  online user has the permissions of the tables.
- `LoneLoginCopies` – without overlap, when a login ends its user has the
  permissions of the tables, unless it gave the administrator his old token. This
  is what ends the staleness that `PUT /user` leaves behind, which refreshes
  `dto.id`, a field its body has not.
- `PermsOfAllRoles` – a calculation covers every role; violated (finding 2).

## 5. RoleAdmin

State: `row` holds the ids in `sys_role`, `roleMenu` and `roleDept` the two join
tables as a set per role (their key is the pair), `next` is the table's counter.
A request carries what it was asked for and, once it has read, the difference it
will apply. `old` and `orphan` are history: the rows of the request's role changed
since it read them; the roles deleted while a request was about to write their
menus. Where `PermCache` sees only what role changes do to permissions, this
module has the rows themselves.

| Code (`system/role/role.service.ts`) | Actions |
|---|---|
| `add` (169-212) | `Add`, `AddTx` |
| `updateV1` (320-380) | `UpdateV1`, `ReadMenus`, `MenuTx` |
| `updateV2` (385-425) | `UpdateV2`, `DeptTx` |
| `update` (217-315) | `Update`, `ReadOrigin`, `UpdateTx` |
| `delete` (136-164) | `Delete` |
| a rejected await, a restart | `Abort` |

A transaction is one step: no statement of another request is modelled between
its statements, and a transaction that throws changes nothing. What throws is a
duplicate key, a column that does not exist (`departmentId`), and an `undefined`
in an `in` list. `update` compares BigInt ids with numbers, so it inserts all it
was asked for and would delete all there is. Role ids in a `DELETE` arrive as
strings and are taken to work.

Properties:

- `TypeOK` and `IInv`, the inductive invariant, are proved.
- `EditWillApply` – a difference whose role has not changed since it was read is
  one the transaction can apply, and leaves the role with exactly what was asked
  for. A concurrent change makes the request fail or resurrects rows, and `old`
  marks exactly those requests.
- `GainsWereAsked` – an action property: no role is given a menu or department
  that no request for that role asks for. The unconditional deletes are bad, but
  they are deletes: nobody's permissions grow by an edit of another role.
- `GoneRoleGrantsNothing`, with the strengthening `TargetsExist` – no menus stay
  with a deleted role, whose users `sys_user_role` still has, unless it was deleted
  under a request that writes them (between the first statement of its update
  and the transaction, or between the two halves of `add`). TLC finds a violation
  when that exception is dropped.
- `OtherRolesKept` – violated (finding 3).

`add` can never store departments; the model says so, and no property does.

## 6. UserAdmin

State: `name` and `phone` are columns of `sys_user` (`name[u] = None`: no row),
`roles` and `posts` the join tables as a set per user, `next` the counter. `cut`,
`raced` and `old` are history: users whose deletion was cut off; users whose last
create or update was overtaken; requests that have been overtaken. A request is
overtaken when another one changes the roles it is to insert next, or gives the
name or phone number it has asked about to someone else.

| Code (`system/user/user.service.ts`, `system/role/role.service.ts`) | Actions |
|---|---|
| `create` (444-510) | `Create`, `CreatePhone`, `CreateTx` |
| `update` (515-597) | `Update`, `UpdatePhone`, `UpdateTx` |
| `delete` (616-643) | `Delete`, `DelRoles`, `DelPosts` |
| `insertAuthRole` (645-665) | `AuthRole`, `GrantRoles` |
| `cancelAuthUser`, `cancelAuthUserAll` | `CancelAuth` |
| `insertAuthUsers` | `SelectAll` |
| a rejected await, a restart | `Abort` |

A request that is refused by its first statement changes nothing and is no step.
The client is taken to send every field of its form, an empty phone number
included; `name` and `phone` compare as model values, so the collation of the
column is left out. `POST /update` (`updatePersonInfo`) demands a field `phone`, which
is no column of `sys_user`, and always fails: names and phone numbers have no other
writers.

Properties:

- `IInv`, the inductive invariant, which holds the types; `ChecksHold`, its
  strengthening, is proved.
- `UniqueUnlessRaced` – no two users share a name or a phone number, however
  requests overlap and wherever they are cut off, unless one of the two was last
  written by a request that had been overtaken. Without the exception TLC finds
  two requests that give two users one name; `login` finds the first of them.
- `PostsHaveUser` – posts belong to a user there is, unless he is being deleted or
  his deletion was cut off. It rests on the transaction of `update` throwing for a
  row that is gone. Roles have no such property: `insertAuthRole` and
  `insertAuthUsers` give roles to ids without asking.
- `GrantWillApply` – the second half of an assignment finds no roles, so it cannot
  fail on a duplicate key, unless another request changed the roles between.
- `RootStays`, part of `IInv` – the user the code compares with `rootRoleId` keeps
  his row.

## 7. Captcha

State: `drawn` and `captcha` are the ids handed out and the texts under
`admin:captcha:img:*`; `login` is one record per login in progress. `passed` and
`doubled` are history: captchas a login got past; captchas two logins read before
either had deleted them.

| Code | Actions |
|---|---|
| `createImageCaptcha` (`login/login.service.ts:99-119`) | `CreateImageCaptcha`, `CaptchaExpires` (five minutes) |
| `LoginController.login` (`login/login.controller.ts:26-37`) | `LoginRequest`, `LoginDone` |
| `checkImgCaptcha` (`login/login.service.ts:124-133`) | `CheckImgCaptcha` (read and compare), `DeleteCaptcha` |
| a rejected command, a restart | `LoginAborts` |

`OneLoginPerCaptcha` – one captcha lets one login through unless their checks
overlapped. `CaptchaInv`, which it rests on: a captcha somebody got past is gone
from Redis for good, and outside `doubled` a captcha has one holder. A wrong text
leaves the captcha where it is, so it may be tried again until it expires.

## 8. TaskService, InitLease, TaskLog

`TaskService` has the lock (`ttl`), the step of each instance (`phase`, `todo`), the
status of each row of `sys_job` and the state of each job of the queue. `lapsed` and
`late` are history: the lock went while somebody initialised; the jobs
queued since an instance read the queue.

| Code (`system/task/task.service.ts`) | Actions |
|---|---|
| `onModuleInit`, `initTask` (28-77) | `Boot`, `TakeLock`, `ReadJobs`, `RemoveJob`, `JobsRemoved`, `ReadTasks`, `StartTask`, `TasksStarted`, `ReleaseLock` |
| `start`, `stop`, `existJob` (171-285) | `StartTask`, `TaskStop`, `Stopped` |
| consumer (`task.processor.ts`), `updateTaskCompleteStatus` | `TakeJob`, `EndJob`, `CompleteStatus` |
| `monitor/job/service.ts`; `task.controller.ts:75-107` | `JobCreate`, `JobUpdate`, `JobDelete`, `TaskStop` |
| expiry, the process manager, Bull | `Tick`, `Crash`, `Down` |

What the code does, and the model with it: `EXPIRE` is sent whether or not `SETNX`
took the lock, so an instance that finds it taken renews it; the lock is deleted
by whoever gets to the end; `start` calls `stop`, which sets the status to `'0'`, and
the line that adds the job to the queue is commented out, so the queue only holds
what an earlier version of the program left there; `remove` of a job that another
instance is running rejects, which ends the instance that starts and leaves its
lock; `onCompleted` does not wait for `updateTaskCompleteStatus`, whose exception
for a row that is gone ends the process.

- `LeaseKept` – a refinement: `TaskService` implements `InitLease` with `inside` being
  the instances between the lock and its release. Two initialise together only
  after the lock expired under one of them, whatever crashes, late deletions and
  renewals do. (After a lapse the latecomer deletes the newcomer's lock, so the
  promise is off until everyone is out.)
- `QueueEmptied` – an instance that has come to start the tasks has emptied the
  queue, but for the next run of a repeatable job that was queued meanwhile.
- `InitStartsTasks` – a task that `initTask` found on has a job in the queue, or is
  still on, when `initTask` has gone past it; violated (finding 4): a start of the
  program stops every task.
- `LockFreed`, `InitEnds` – liveness, also after crashes.

`TaskLog` has the jobs as the consumer runs them and the rows of `sys_job_log`.

| Code | Actions |
|---|---|
| `SysTaskConsumer.handle` (`system/task/task.processor.ts:20-34`) | `Handle`, `CallService`, `RecordTaskLog` |
| `callService` (`system/task/task.service.ts:312-383`), `clearTaskLog` | `CallService` |
| `recordTaskLog` (`system/log/log.service.ts:71-88`) | `RecordTaskLog` |
| Bull | `Stall`, `NextRun` |

`recordTaskLog` takes the id of the task for the key of the row, so that the second
run of a task meets a duplicate key. Its `create` may also reject because the
database fails or the text of the exception is longer than its column
(`src/prisma/schema.prisma:152`). A rejection after a success is caught as if the
service had failed and records again, as a failure; one in the catch fails the job.
`refused` is history: the jobs whose last `create` in this run rejected though no
row was in the way.

- `RunsLeaveTrace` – a job completes only with a row of its task in the log, its own
  or an earlier run's, unless the log was cleared; a job that fails found such a row,
  or the database refused the row of the failure itself, and then nothing is left
  of the run but Bull's failed job.
- `RowsAreEarned` – an action property: a row that says a task was done comes from a
  run that did it. A row that says it failed comes from a run that threw, or from a
  success whose own row was refused or met an older one that was then cleared:
  the code does record successes as failures.

## 9. ExcelExport

State: whose rows the file of each day holds, and one record per export. All six
export handlers pass the prefix `target`, so they share one file a day. `over`, `lost`
and `leftover` are history: another export wrote or deleted the file; the process
ended in the middle.

| Code | Actions |
|---|---|
| handler and query (`system/dictData/controller.ts:34-44` and five more) | `ExportRequest`, `QueryFails` |
| `createExcelFile` (`src/src/shared/services/excel.service.ts:9-27`) | `WriteFile`, `OpenFile` |
| Fastify sends the stream | `ReadFile`, `ClientGone` |
| `ExcelFileCleanupInterceptor` (`src/src/common/interceptors/excel.interceptor.ts`) | `Unlink` |
| restart, midnight | `ProcessEnds`, `NextDay` |

`OwnDataSent` – an export sends its own rows unless another has written the file
since, and an error only if another has deleted it. Both do happen in the code.
`NoFileLeft` – a file is there only while an export that will delete it is under
way, or since a restart: the clean-ups, which delete by a name that others use too,
leave nothing behind.

## 10. WsNotice

State: of each connected socket which others were connected before it (`earlier`; the
code looks for a user's socket in that order), the uid of each, `sys_user_role`, the
notices and the kicks in progress.
`stale` and `missed` are history: of each client those of its user's roles whose
menus have changed since it was last told; and of these the ones that were given
no notice when they last changed, or one that went to others.

| Code | Actions |
|---|---|
| `AdminWSGateway` (`src/src/modules/ws/admin-ws.gateway.ts:39-58`) | `HandleConnection`, `HandleDisconnect` |
| `noticeUserToUpdateMenusBy*` (`admin-ws.service.ts:58-99`) | `NoticeMenus`, `NoticeRoles`, `Emit` |
| the handlers that give a notice without awaiting it | `SaveRole`, `DeleteMenus` |
| those that change menus and give none: `POST`, `PUT` and `DELETE system/menu`, `DELETE system/role` | `ChangeUnnoticed` |
| `kickUser` (`system/online/online.service.ts:39-57`), `findSocketIdByUid` | `KickRequest`, `KickUser`, `KickClose`, `KickFails` |
| `UserAdmin`; a restart or a rejection nobody handles | `ChangeUserRole`; `ServerEnds` |

`updateV1` deletes the menus it takes from one role from every other role as well
(finding 3) and gives notice to the one only: `SaveRole` makes the clients of all of
them stale, and those of the others `missed`. The other roles also lose the rows by
which a notice under way would have found them (`lost`). The commit of a
transaction and the notice it is followed by are one step, and so is a notice with
the look at the gateway's sockets.

`noticeUserToUpdateMenusByRoleIds` looks for users by the ids of roles. As a rule no
user with such an id is connected; then `to()` is given no room and emits to
everybody, which is why notices work. `StaleNoticed` and `StaleTold` say that: while a
client has not been told of a change that was given notice, such a notice for its
role is under way, and in the end it is told. Two kinds of clients may never be
told: those whose role changed without a notice, until some other notice is sent to
everybody, and those whose notice met a connected user with the id of a role and
went to him.

`KickSparesRoot` – a kick about to close a socket is not aimed at the root user,
unless the root role changed hands since it looked. A client is taken to read its
menus when it connects; its token is verified once, never expires there and is not
compared with Redis, so that a kicked client may connect again. The root user has
every menu, so that each deletion changes his, and a notice looks for his role only
if a row of `sys_role_menu` names it; rows of `sys_role_menu` outlive their menus, so a
notice by deleted menus still finds the roles.

## 11. MenuTree

State: the rows of `sys_menu`, of which `create` and `update` take any parent; a
role's menus; the deletions with all below that are in progress.

| Code | Definitions |
|---|---|
| `transData` with `buildTree` in `system/menu/service.ts`, `role.service.ts`, `user.service.ts` | `TransData`, `RoleTransData`, `UserTransData` |
| `getMenus`, `getRouters`, `transData` (`login/login.service.ts:20-81, 192-206`) | `GetMenus`, `GetRouters`, `RouterData` |
| `roleMenuTreeselect`, `deptTree` | `RoleMenuTreeselect`, `RoleDeptTree`, `UserDeptTree`, `CheckedKeys` |
| `system/menu/service.ts:147-178` | `MenuCreate`, `MenuUpdate`, `MenuRemove` |
| `POST menuBack/delete`, `findChildMenus`, `deleteMenuItem` | `DeleteTree`, `FindChildMenus`, `DeleteMenuItem` |

- `TreeShowsAll` – the trees hold exactly the rows whose parents lead to the top,
  however the rows are linked; and the routers hold only menus the role opens: its
  own and enabled, as all above them are.
- `RoutersShowAll` – the routers hold every menu the role opens; violated (finding 5):
  the objects pushed below the first level carry no id, so nothing is found below them.
- `CheckedKeysRebuild` – the checked keys of a role's tree, which leave out every
  menu that is a chosen one's parent, still say all of the choice. Parents are ids
  here, with 0 above all; the column may hold NULL (`src/prisma/schema.prisma:173`), and one chosen
  row with a NULL parent makes the `NOT IN` of `system/menu/service.ts:84` yield no
  keys at all. The model has no such row.
- `NoOrphansLeft` – a deletion with all below leaves nothing below what it deleted,
  unless a menu was created or moved since it began. `WalksEnd` – it ends unless the
  tree has a cycle; on a cycle the code never stops.

`treeselect` of `system/menu` reads `params.id`, which the controller does not pass,
and throws for everybody but uid 1; it is left out.

## 12. ApiRoutes, TableApi

`ApiRoutes` lists every route of the controllers with its permission and what its
handler does. `TableApi` runs one of the ten one-table controllers (dictionary
types and data, departments, posts, parameters, notices, menus, operation log,
login log, jobs): the router chooses the handler, the guard decides, the handler
runs one statement, or two for a page. A row is its id and the value of one column,
which a query may ask for: `want` is the filter of a page (`where: queryObj`; dict/type
alone has none), the rows and their number are those that match it, and an edit
may take a row into the filter or out of it. `monitor/job` edits by `updateMany`, all
rows where the body names no id. `alive`, `seen`, `twice`, `cut` and `pushed` of a call
are the client's and history's.

- `HandlersReached` – over all controllers: a request for a route reaches that
  route, although several are declared after a pattern with a parameter that
  matches them too (`menu/:id` before `menu/treeselect`) and although controllers
  share prefixes. The code relies on Fastify's router preferring static segments.
- `GuardedChange` – an action property: the rows change only by a handler that
  writes, for a caller who held exactly the matching permission when the guard
  looked, where the route asks for one.
- `WalkComplete` – a client that reads page after page, with a filter or without,
  while rows are added and edited has at the end every row that matched all the
  time, unless one of the matching rows went meanwhile, deleted or edited out of the filter
  (`cut`), which moves the later ones to a page already read. No row comes twice
  unless one was edited into the filter (`pushed`).

The guard's test `perms.includes` runs on a string, so that a permission that is
part of another would be enough; no permission of the source is part of another,
and the model has membership. It assumes that MySQL returns rows by id where a
statement names no order (InnoDB does along the primary key, and along an index on a
column that is compared for equality), and that bodies to create a row name no id.

## 13. Runs and bounds

| Run | Instance | Shows |
|---|---|---|
| `auth_overlap` | 1 user, 3 slots, 2 passwords, failures, one second | `IInv`; the two session properties against every overlap of three requests |
| `auth_sequential` | administrator and user, 1 slot, 2 passwords, 2 seconds, fair | what a login achieves; tokens of the right user under kicks and forced changes; every request ends |
| `auth_root_relogin` | as `auth_sequential` | finding 1 |
| `perm_overlap` | roles 1 (root) and 2, 1 menu; either 1 user, 2 slots, failures, or administrator and user, one request at a time | `IInv`, `CacheFresh`; `LoneRefreshes`, `LoneLoginCopies` |
| `perm_roles` | 1 user, roles 2 and 3, 1 menu, 1 slot | finding 2 |
| `role_overlap` | 1 role known and 1 to add, 2 menus, 1 department, 2 slots, failures | `EditWillApply`, `GainsWereAsked`, `GoneRoleGrantsNothing` |
| `role_others` | 2 roles, 1 menu, 1 slot | finding 3 |
| `user_overlap` | root user and 1 more, 2 names, 1 phone number, role and post, 2 slots, failures | `IInv`; `UniqueUnlessRaced`, `PostsHaveUser`, `GrantWillApply` |
| `parts_safety` | seven parts, see below | `PartsInv` (types and inductive invariants of the parts) and the safety properties of sections 7 to 12 |
| `parts_progress` | tasks, notices and the tree, smaller, fair | `LockFreed`, `InitEnds`, `StaleTold`, `WalksEnd` |
| `tasks_start` | the tasks of `parts_safety` | finding 4 |
| `routers_children` | the menus of `parts_safety` | finding 5 |

`MCParts` is a sum, not a product: a variable `part`, chosen at the start, says which
part moves, the others rest in an initial state. The parts in it share no state,
so a product would show no more and cost the product of their states. `MCPermCache` is
a sum in the same way: `alone`, chosen at the start, says whether requests overlap and
may fail, for one user, or not, for two. `parts_safety`
has some 944,000 distinct states: 2 captchas, texts and logins; 2 instances, 1 task,
2 jobs, a lock of 2 ticks, 2 starts; 2 runs of one task and one that clears the log;
2 exports over 2 days; 2 users and roles with the same numbers, 2 sockets, 1 notice,
1 kick; 3 menus of which 1 is built in, 1 deletion, 1 change; every one-table
controller with 2 calls, 2 rows, two values of a column and pages of one row. `parts_progress` has 1 job, no
kick, 2 menus.

Why these are enough. Keys of different users never meet except in kick, forced
password changes and the administrator's reuse of a token, which two users show; a
violation of the session properties needs a login, a change and one more request
of one user, which three slots allow. `MaxPv = 2`: the guard only tests for 1, and an
absent version, 1 and "more than 1" are all it and `upgradePasswordV` tell apart.
`MaxTime`: two tokens of a user differ or coincide; one or two seconds give both.
`MaxRole`, `MaxUser`: ids are not used again, so two roles meet in the deletes that
reach other roles, and a deleted and a living user in the checks. Two menus give a
difference something to insert, to delete and to keep. Two slots are enough for
one request to overtake another, and every property that holds in these modules
relates at most one request to the tables. `PermsOf` distinguishes no role, the root
role, the lowest role and others. `Ttl = 2` lets a lock be renewed and expire;
`MaxBoots = 2` two instances meet or one crash and start again. Three menus give
chains, forks, loops of every length up to three and rows that hang from nothing;
every table over them is an initial state. Two pages let a row move between them.

`auth_overlap`, `perm_overlap`, `role_overlap`, `user_overlap` and `parts_safety` use the
symmetry of their slots (and of values the code only compares), runs with liveness
none. Deadlock is checked in the PermCache, RoleAdmin and UserAdmin runs. It is
switched off in the AuthSession ones, where all users may have been disabled or
deleted and no session is left, and in the sum, where captchas and starts run out.

Fairness. `FairSpec` of AuthSession is weakly fair to each request: Node resumes an
`await` that has been answered, and the drivers answer. Nothing is assumed of
clients, nor of the expiry of tokens. `TaskFairness`: time passes and `initTask` goes on; nothing
is assumed of jobs, which may run for ever. `LockFreed` also rests on `MaxBoots`:
instances that were started for ever could renew the lock for ever. `WsFairness`,
`TreeFairness`: the queries of a notice and of a deletion are answered.

## 14. Proofs

All theorems hold for any sets of users, roles, menus, instances, jobs and slots,
any bounds, and with failures (but for three, see "Without overlap"). Their
assumptions are the named `ASSUME`s of the modules: bounds are natural numbers (`MaxPv`
at least 2), `None`, `All`, `Nobody` and their like are none of the values they stand
beside, jobs and tasks are disjoint, the sets of menus are finite.

`AuthSession_proofs`: `Invariance`, `TypeCorrect`, `TokensNameTheirUser`, `OldPasswordClosed`,
`OpenedByLoginOnly`. The inductive invariant is `IInv`: the types, the two safety
properties and `RequestInv`. The last is needed because the safety properties
speak of keys, while a step writes what a request has carried since an earlier
step: a login that is yet to write its token must have checked the password
stored now or be marked as overtaken; the token it carries must name its user;
an upgrade past its read must have seen a version (so what it writes is never 1,
which is why it cannot open a session). The proof has one step per action; lemmas
`TokenWriters` and `VersionWriters` reduce the session properties to the few
actions that write those keys.

`PermCache_proofs`: `TypeCorrect`, `CacheIsFresh`. `IInv` adds `CalculationInv`: a
calculation that is not marked holds the roles, later the permissions, that are
in the tables. Every action is an instance of one of two lemmas: `CopyStep` (the
tables do not change, one request moves) and `CommitStep` (the tables change, the
keys do not, everyone affected is marked).

`RoleAdmin_proofs`: `TypeCorrect`, `EditsApply`, `NoUnaskedGains`, `GoneRolesAreEmpty`,
`TargetsAreThere`. `IInv` adds to the types what a request holds: a difference is part
of what was asked for and of what there is. That is also why nothing unasked is
ever inserted, which `NoUnaskedGains` shows step by step. Every action is an instance
of `ReadStep` (only one slot moves) or `CommitStep` (the tables change, every other
slot of a role that changed is marked). `GoneRolesAreEmpty` adds `TargetsExist` to the
invariant: a request that writes menus set out for a role that was there.

`UserAdmin_proofs`: `TypeCorrect`, `PostsBelong`, `RootUserStays`, `GrantsApply`, `ChecksStay`,
`UniqueButForRaces`. `IInv` has, beyond types and `PostsHaveUser`, that users under
deletion have no row and are not the root user, since ids are not given out
again. The steps are instances of `SlotStep` and `CommitStep`. `UniqueButForRaces` adds
`ChecksHold`: what a request that was not overtaken has asked is still so when it
writes (`NotOvertaken`, `WriteUnique`).

`TaskService_proofs` proves about three modules. `LockInvariant`: without a lapse the
lock is there and one instance is inside; every action either leaves `Inside` alone,
lets one out, or lets one in when there was no lock. From it `LockRefines`: the
initial states are those of `InitLease`, and every step is `Enter`, `Leave`, `Lapse` or a
stutter there. `QueueIsEmptied` rests on `PendingInv`: while an
instance removes jobs, what is still in the queue is on its list or came later. `RunsAreLogged`, `RowsTellTruth` rest on `LogInv`: a
run on its way to record a success has one as its outcome, and one that records a
failure threw, was refused its row, or met one that is there or has been cleared
since; whatever `create` rejects for.

`MenuTree_proofs`: `TreeInvariant`, `DeletionLeavesNoOrphans`, `TreesShowAll`,
`CheckedKeysSuffice`, for any finite set of menus and any rows, cycles and rows whose
parent is missing included. What `TransData` computes and what leads to the top are
defined by recursion along `parentId`. The library's induction needs an operator as
parameter, so the module goes another way: `LeastNat` is the least number principle
for a set, from it `Recursion` has that the recursive functions used exist, so that
their equations hold, and `ChainStops`, by cardinality, says that a growing chain of subsets of a finite set stops.
So both are least closed sets (`TransDataLeast`, `AncestorsLeast`), and that alone
is used after. `KeysRebuild`, for the checked keys: every chosen menu with no checked one
below it has a child like it; one such child for each maps a finite set into and so onto
itself, which makes the set closed under parents as well, and it never reaches the top.
`TreeInv`, for the deletions, says that the children of what a walk has read are found.

`TableApi_proofs` is about pages, routes and the guard.
Pages: `ApiInvariant`, `PagesAreComplete`. Rows move between pages when others go out
of the filter or come into it, so `Reads` speaks of ranks among the rows that match:
while none but new rows came, the rows seen rank within the pages read; while none
went, those that were there all the time and rank within those pages have been
seen. A row that goes only lowers the ranks of others, one that comes only raises
them (`RankGrows`), and a new one leaves them alone since ids grow. The three handlers
that write are instances of one lemma, `WritesInv`. Routes: `RequestsReachHandlers`. `RouterFinds` holds for any routes: if no two
have the same method and pattern, and no segment is what a parameter was
given, the route a request was made for is preferred to every other one that
matches. `AllRoutesDistinct` is the fact about this program: the routes of one controller differ
(`ListsAreDistinct`), and those of two controllers differ in their prefixes or, for
`account` and `login`, which have none, in their length. Guard: `GuardInvariant`, `ChangesAreGuarded`: every route
that writes asks for the permission to write that way (`ListsAsk`), the request
reaches that route, and the slot keeps what the guard saw.

`MCParts_proofs` has the parts and their sum.
Captcha: `CaptchaInvariant`, `CaptchaOnce`. A login that holds a captcha holds it alone,
or the overlap was seen when the second one read it; so a deletion by a holder
outside `doubled` is the first. Excel: `ExcelInvariant`, `ExportSendsOwn`,
`ExportCleansUp`. `ExcelInv` says what the file and the open descriptor hold before the
property speaks of what was sent: until it is overtaken, an export's rows are in
the file, and then in what it reads. WebSocket: `StaleIsNoticed` from `StaleInv`, which
ties a client's stale roles to its user's roles (a user who loses a role is no
longer looked for by it, and no longer waits), and to the notices that have its role and
may not have lost it; `RootIsSpared`, where only a change of
the root role after the look can make the user a kick is aimed at the root user;
`WsTypes`, which has more than types: the sockets stay in one order, so that a kick
closes at most one socket of its user (`KickClosesOne`). The sum: `PartsAreParts`, every behaviour of `MCParts` is one of each part, so
that every theorem of a part holds there; and `PartsInvariant`, that `PartsInv`, the
types and inductive invariants together, always holds.

Without overlap. Three properties are false for overlapping requests, and their
theorems say under what they hold. `SessionsHavePerms` and `LoginsOpen`
(`AuthSession_proofs`): at every moment at most one request is under way and none
fails (`Alone`), with any number of slots. `AloneInv` says in which order a login and a
logout write the three keys. `RefreshesReachAll` (`PermCache_proofs`): one slot (`OneSlot`),
because a handler of one statement takes one step there and would not be seen to overlap.
`RefreshInv`: the users the loop is done with have what the tables say, and no
calculation was overtaken. The runs `auth_sequential` and, for `LoneRefreshes`, `perm_overlap` are their instances.

Only model-checked: liveness (`RequestsEnd`, `LockFreed`,
`InitEnds`, `StaleTold`, `WalksEnd`), because the prover has neither fairness nor
`ENABLED`; `LoneLoginCopies`; and the violations. Two choices of the models are for the proofs: the
sockets' order is a relation, not a sequence, since the provers see nothing in `SelectSeq`;
and `AllRoutes` is a function on places (a controller, a number), not the routes strung together.

## 15. Findings

1. `auth_root_relogin`: after the administrator has changed his password his
   version is 2, and a new login returns his stored token without resetting it.
   The guard refuses that token (11002) until it expires.
2. `perm_roles`: a user with several ordinary roles has the permissions of the
   lowest-numbered one.
3. `role_others`: `updateV1` deletes the deselected menus by menu id alone, so every
   other role loses them; `updateV2` does the same with departments. The clients of the other roles'
   users get no notice of it (`missed` in `WsNotice`).
4. `tasks_start`: `initTask` looks up the tasks that are to run ("查找所有需要运行的任务",
   `system/task/task.service.ts:64`) and calls `start` ("启动任务", 169) for each, which stops it:
   `stop` sets its status to `'0'`, and the line that adds the job to the queue (199) is
   commented out. After every start of the program no task runs.
5. `routers_children`: `login/login.service.ts:72-73` fetches the children of the children
   ("获取子节点的子节点", "递归获取子节点"), but the objects it pushes have no id to look
   them up by, so a menu on the third level is in nobody's routers.

Races that the code has and no document denies are not findings; they are the
exceptions the properties name (`CacheFresh`, `UniqueUnlessRaced`, `OwnDataSent`,
`OneLoginPerCaptcha`, `StaleNoticed`, `OldPasswordSessionClosed`).

## 16. Not modelled

Left out for good: server monitor, exception filter, interceptors other than that of
the exports, configuration and Swagger (no state of their own), the logger and the
wrappers of libraries.

Operations that cannot succeed and change nothing, so that no action stands for
them: `menuBack/add` and `update`, `task/add` and `update`, `POST user/update` name columns
their tables do not have. `task/once` does nothing.

Operations that only read and that no property is about: profiles, the lists of
users and roles (`infoUserRole` flags all roles; `unallocatedList` leaves out only the
users of the page), the list of online users, the user page and the log pages, whose
SQL names columns the tables do not have. `saveLoginLog` adds a row nothing depends
on. `SocketIoAdapter` is installed nowhere (`src/src/main.ts`).
