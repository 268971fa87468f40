----------------------------- MODULE PermCache -----------------------------
(***************************************************************************)
(* Where permissions come from and where the guard reads them: the tables  *)
(* sys_user_role, sys_role_menu and sys_menu on one side, the Redis keys   *)
(* admin:perms:u on the other, and the only three places that copy from    *)
(* the first to the second: a login, SysMenuService.refreshPerms and       *)
(* refreshOnlineUserPerms.                                                 *)
(*                                                                         *)
(* A copy takes three awaits (the user's roles, the menus of the roles,    *)
(* the write), and every other request may run between them.  A handler    *)
(* of one statement takes one step; a handler that changes nothing (its    *)
(* guard refuses, its statement fails) takes none.  Which caller may use   *)
(* which handler, and the version key of a session, are in AuthSession.    *)
(***************************************************************************)
EXTENDS Integers, FiniteSetsExt

CONSTANTS
  Users,      \* user ids
  Root,       \* user id 1: the administrator whose old token a login returns
  Roles,      \* role ids
  RootRole,   \* rootRoleId of the configuration
  Menus,      \* menu ids, each with a permission string of its own
  Parent,     \* sys_menu.parentId
  Protected,  \* menus up to FORBIDDEN_OP_MENU_ID_INDEX
  Requests,   \* slots for the HTTP requests being processed
  Failures,   \* may an await reject, or the process die, in mid-request?
  All,        \* the permission '*:*:*'
  None        \* no user, no role, no menu

PermList == SUBSET (Menus \cup {All})
NoList   == {None}  \* what is there when no list is

ASSUME RolesAssumption == Roles \subseteq Nat
ASSUME MenusAssumption == IsFiniteSet(Menus)
ASSUME ParentAssumption == Parent \in [Menus -> Menus \cup {None}]
ASSUME FailuresAssumption == Failures \in BOOLEAN
ASSUME NoneAssumption ==
  None \notin Users \cup Roles \cup Menus \cup {All} /\ All \notin Menus

VARIABLES
  userRole,   \* sys_user_role: the roles of each user
  roleRow,    \* the rows of sys_role
  roleMenu,   \* sys_role_menu: the menus of each role
  menu,       \* sys_menu.status, or "gone" once the row is deleted
  token,      \* is admin:token:u present?
  cache,      \* admin:perms:u, NoList when the key is absent
  req,        \* the request in each slot
  stale       \* history: users whose permissions changed since they were
              \* last written, or were written by an overtaken calculation

tables == <<userRole, roleRow, roleMenu, menu>>
vars   == <<userRole, roleRow, roleMenu, menu, token, cache, req, stale>>

Steps == {"roles", "menus", "online", "setToken", "setPerms",  \* copying
          "keys", "each",                                      \* for everyone
          "grant", "roleTx",                                   \* half-done writes
          "delToken", "delPerms"}                              \* forbidden

Request ==
  [pc    : Steps \cup {"idle"},
   job   : {"login", "one", "all", "none"},  \* why permissions are copied
   user  : Users \cup {None},
   roles : SUBSET Roles,          \* read for user, or about to be granted
   value : PermList \cup {NoList},  \* the list calculated for user
   todo  : SUBSET Users,          \* the rest of KEYS admin:token:*
   role  : Roles \cup {None},
   add   : SUBSET Menus,          \* to insert for role ...
   drop  : SUBSET Menus,          \* ... and to delete
   old   : BOOLEAN]               \* history: did the tables change for user
                                  \* since his roles were read?

Idle == [pc |-> "idle", job |-> "none", user |-> None, roles |-> {},
         value |-> NoList, todo |-> {}, role |-> None, add |-> {}, drop |-> {},
         old |-> FALSE]

Init ==
  /\ userRole \in [Users -> SUBSET Roles]
  /\ roleRow  = Roles
  /\ roleMenu \in [Roles -> SUBSET Menus]
  /\ menu     = [m \in Menus |-> "on"]
  /\ token    = [u \in Users |-> FALSE]
  /\ cache    = [u \in Users |-> NoList]
  /\ req      = [r \in Requests |-> Idle]
  /\ stale    = {}

At(r, step)   == req[r].pc = step
Goto(r, step) == [req EXCEPT ![r].pc = step]
Finished(r)   == [req EXCEPT ![r] = Idle]

----------------------------------------------------------------------------
(* The calculation: SysMenuService.getPerms. *)

(* The query of getPerms.  The role ids are joined into one string, bound   *)
(* as one parameter of IN, and MySQL compares role_id with the number the   *)
(* string starts with: rows of the first role only, which is the lowest     *)
(* (they come in the order of the primary key).                            *)
PermsOf(roles) ==
  IF RootRole \in roles THEN {All}
  ELSE {m \in Menus : /\ roles # {}
                      /\ m \in roleMenu[Min(roles)]
                      /\ menu[m] = "on"}

(* The permissions a calculation for u that nothing overtakes arrives at. *)
Perms(u) == PermsOf(userRole[u])

(* A calculation for some user is under way. *)
Calculating(q) == q.pc \in {"menus", "online", "setToken", "setPerms"}

(* A write to the tables: who is out of date from now on, and which        *)
(* calculations under way have read what is no longer so.                  *)
Commit(next) ==
  LET changed == {u \in Users : Perms(u)' # Perms(u)}
      moved   == changed \cup {u \in Users : userRole'[u] # userRole[u]}
  IN  /\ stale' = stale \cup {u \in changed : cache[u] # NoList}
      /\ req' = [r \in Requests |->
                   [next[r] EXCEPT !.old =
                      @ \/ (Calculating(next[r]) /\ next[r].user \in moved)]]

ReadRoles(r) ==
  /\ At(r, "roles")
  /\ req' = [req EXCEPT ![r].pc = "menus", ![r].roles = userRole[req[r].user]]
  /\ UNCHANGED <<tables, token, cache, stale>>

(* What follows the calculation depends on who asked for it. *)
After(job) == CASE job = "login" -> "setToken"
                [] job = "one"   -> "online"
                [] OTHER         -> "setPerms"

(* Variants: the list is put into a list; the status of a menu is not read. *)
QueryMenusNested(r) ==
  /\ At(r, "menus")
  /\ req' = [req EXCEPT ![r].pc = After(req[r].job),
                        ![r].value = {PermsOf(req[r].roles)},
                        ![r].roles = {}]
  /\ UNCHANGED <<tables, token, cache, stale>>

QueryMenusAnyStatus(r) ==
  LET roles == req[r].roles IN
  /\ At(r, "menus")
  /\ req' = [req EXCEPT ![r].pc = After(req[r].job),
                        ![r].value = IF RootRole \in roles THEN {All}
                                     ELSE {m \in Menus : roles # {} /\ m \in roleMenu[Min(roles)]},
                        ![r].roles = {}]
  /\ UNCHANGED <<tables, token, cache, stale>>

QueryMenus(r) ==
  /\ At(r, "menus")
  /\ req' = [req EXCEPT ![r].pc = After(req[r].job),
                        ![r].value = PermsOf(req[r].roles),
                        ![r].roles = {}]
  /\ UNCHANGED <<tables, token, cache, stale>>

(* The write at the end of every copy. *)
SetPerms(r) ==
  LET u == req[r].user IN
  /\ At(r, "setPerms")
  /\ cache' = [cache EXCEPT ![u] = req[r].value]
  /\ stale' = IF req[r].old THEN stale \cup {u} ELSE stale \ {u}
  /\ req' = IF req[r].job = "all"
            THEN [req EXCEPT ![r] = [Idle EXCEPT !.pc = "each", !.job = "all",
                                                 !.todo = req[r].todo]]
            ELSE Finished(r)
  /\ UNCHANGED <<tables, token>>

----------------------------------------------------------------------------
(* Copying for one user: getLoginSign and refreshPerms. *)

(* getLoginSign calculates the permissions right after the password check. *)
Login(r, u) ==
  /\ At(r, "idle")
  /\ req' = [req EXCEPT ![r] = [Idle EXCEPT !.pc = "roles", !.job = "login", !.user = u]]
  /\ UNCHANGED <<tables, token, cache, stale>>

(* Variant: everyone who has a token is given that one. *)
LoginSetTokenOnce(r) ==
  LET u == req[r].user IN
  /\ At(r, "setToken")
  /\ \/ token[u] /\ req' = Finished(r) /\ UNCHANGED token
     \/ /\ ~token[u]
        /\ req' = Goto(r, "setPerms")
        /\ token' = [token EXCEPT ![u] = TRUE]
  /\ UNCHANGED <<tables, cache, stale>>

(* The administrator who has a token is given that one, and what was       *)
(* calculated is thrown away; otherwise the token is written, then the     *)
(* permissions.                                                            *)
LoginSetToken(r) ==
  LET u == req[r].user IN
  /\ At(r, "setToken")
  /\ \/ /\ u = Root /\ token[u]
        /\ req' = Finished(r)
        /\ UNCHANGED token
     \/ /\ ~(u = Root /\ token[u])
        /\ req' = Goto(r, "setPerms")
        /\ token' = [token EXCEPT ![u] = TRUE]
  /\ UNCHANGED <<tables, cache, stale>>

(* refreshPerms writes for a user who is online. *)
CheckOnline(r) ==
  /\ At(r, "online")
  /\ req' = IF token[req[r].user] THEN Goto(r, "setPerms") ELSE Finished(r)
  /\ UNCHANGED <<tables, token, cache, stale>>

----------------------------------------------------------------------------
(* Copying for everyone: refreshOnlineUserPerms. *)

KeysTokens(r) ==
  /\ At(r, "keys")
  /\ req' = [req EXCEPT ![r].pc = "each", ![r].todo = {u \in Users : token[u]}]
  /\ UNCHANGED <<tables, token, cache, stale>>

(* Variant: the loop stops one user early. *)
EachButLast(r) ==
  /\ At(r, "each")
  /\ \/ Cardinality(req[r].todo) <= 1 /\ req' = Finished(r)
     \/ /\ Cardinality(req[r].todo) > 1
        /\ \E u \in req[r].todo :
             req' = [req EXCEPT ![r].pc = "roles", ![r].user = u,
                                ![r].todo = req[r].todo \ {u}]
  /\ UNCHANGED <<tables, token, cache, stale>>

(* The loop over the keys, in whatever order KEYS returned them. *)
Each(r) ==
  /\ At(r, "each")
  /\ \/ req[r].todo = {} /\ req' = Finished(r)
     \/ \E u \in req[r].todo :
          req' = [req EXCEPT ![r].pc = "roles", ![r].user = u,
                             ![r].todo = req[r].todo \ {u}]
  /\ UNCHANGED <<tables, token, cache, stale>>

----------------------------------------------------------------------------
(* The roles of a user. *)

(* PUT /user: a transaction replaces the roles; then refreshPerms(dto.id).  *)
(* The body names the user as userId, so dto.id is usually undefined and    *)
(* the refresh finds no token for it.                                      *)
ReplaceRoles(r, u, roles, id) ==
  /\ At(r, "idle")
  /\ userRole' = [userRole EXCEPT ![u] = roles]
  /\ UNCHANGED <<roleRow, roleMenu, menu, token, cache>>
  /\ Commit(IF id = None THEN req
            ELSE [req EXCEPT ![r] = [Idle EXCEPT !.pc = "roles", !.job = "one",
                                                 !.user = id]])

(* PUT /user/authRole: the old roles are deleted in one statement, the new  *)
(* ones inserted in another; nothing is refreshed.                         *)
AuthRole(r, u, roles) ==
  /\ At(r, "idle")
  /\ userRole' = [userRole EXCEPT ![u] = {}]
  /\ UNCHANGED <<roleRow, roleMenu, menu, token, cache>>
  /\ Commit(IF roles = {} THEN req
            ELSE [req EXCEPT ![r] = [Idle EXCEPT !.pc = "grant", !.user = u,
                                                 !.roles = roles]])

(* createMany fails as a whole on a duplicate key. *)
GrantRoles(r) ==
  LET u == req[r].user IN
  /\ At(r, "grant")
  /\ userRole' = IF userRole[u] \cap req[r].roles = {}
                 THEN [userRole EXCEPT ![u] = @ \cup req[r].roles]
                 ELSE userRole
  /\ UNCHANGED <<roleRow, roleMenu, menu, token, cache>>
  /\ Commit(Finished(r))

(* PUT /role/authUser/cancel and cancelAll. *)
CancelAuth(r, us, role) ==
  /\ At(r, "idle")
  /\ userRole' = [u \in Users |-> IF u \in us THEN userRole[u] \ {role} ELSE userRole[u]]
  /\ UNCHANGED <<roleRow, roleMenu, menu, token, cache>>
  /\ Commit(req)

(* PUT /role/authUser/selectAll; none of us may hold the role already. *)
SelectAll(r, us, role) ==
  /\ At(r, "idle")
  /\ \A u \in us : role \notin userRole[u]
  /\ userRole' = [u \in Users |-> IF u \in us THEN userRole[u] \cup {role} ELSE userRole[u]]
  /\ UNCHANGED <<roleRow, roleMenu, menu, token, cache>>
  /\ Commit(req)

----------------------------------------------------------------------------
(* The menus of a role. *)

(* PUT /role (updateV1) reads the menus of the role and works out the      *)
(* difference to the list it was given.  POST /role/update does the same   *)
(* with BigInts and numbers mixed up, so that it only works for a role      *)
(* that has no menus; it is the one that refreshes.                        *)
UpdateRole(r, role, menus) ==
  /\ At(r, "idle")
  /\ role \in roleRow
  /\ req' = [req EXCEPT ![r] = [Idle EXCEPT !.pc = "roleTx", !.role = role,
                                  !.add = menus \ roleMenu[role],
                                  !.drop = roleMenu[role] \ menus]]
  /\ UNCHANGED <<tables, token, cache, stale>>

UpdateEmptyRole(r, role, menus) ==
  /\ At(r, "idle")
  /\ role \in roleRow
  /\ roleMenu[role] = {}
  /\ req' = [req EXCEPT ![r] = [Idle EXCEPT !.pc = "roleTx", !.job = "all",
                                  !.role = role, !.add = menus]]
  /\ UNCHANGED <<tables, token, cache, stale>>

(* The transaction: insert for this role, delete for every role; a         *)
(* duplicate key rolls it back.                                            *)
RoleTx(r) ==
  LET role == req[r].role IN
  /\ At(r, "roleTx")
  /\ \/ /\ roleMenu[role] \cap req[r].add # {}
        /\ req' = Finished(r)
        /\ UNCHANGED <<tables, stale>>
     \/ /\ roleMenu[role] \cap req[r].add = {}
        /\ roleMenu' = [x \in Roles |->
             (roleMenu[x] \cup (IF x = role THEN req[r].add ELSE {})) \ req[r].drop]
        /\ UNCHANGED <<userRole, roleRow, menu>>
        /\ Commit(IF req[r].job = "all"
                  THEN [req EXCEPT ![r] = [Idle EXCEPT !.pc = "keys", !.job = "all"]]
                  ELSE Finished(r))
  /\ UNCHANGED <<token, cache>>

(* DELETE /role/:ids: one transaction.  The test for the root role compares *)
(* strings with a number and never holds; sys_user_role keeps its rows.     *)
RemoveRole(r, role) ==
  /\ At(r, "idle")
  /\ roleRow' = roleRow \ {role}
  /\ roleMenu' = [roleMenu EXCEPT ![role] = {}]
  /\ UNCHANGED <<userRole, menu, token, cache>>
  /\ Commit(req)

(* POST /role/delete: not a role in use (10008), not the root role.  The    *)
(* service looks for the ids in a property the array has not: nothing is    *)
(* deleted, everyone is refreshed.                                         *)
DeleteUnusedRole(r, role) ==
  /\ At(r, "idle")
  /\ role # RootRole
  /\ \A u \in Users : role \notin userRole[u]
  /\ req' = [req EXCEPT ![r] = [Idle EXCEPT !.pc = "keys", !.job = "all"]]
  /\ UNCHANGED <<tables, token, cache, stale>>

----------------------------------------------------------------------------
(* Menus. *)

(* m and what findChildMenus finds below it. *)
Subtree(m) ==
  LET reach[d \in Nat] ==
        IF d = 0 THEN {m}
        ELSE reach[d - 1] \cup {x \in Menus : menu[x] # "gone" /\ Parent[x] \in reach[d - 1]}
  IN  reach[Cardinality(Menus)]

(* POST /menuBack/delete: not a built-in menu (10016).  The rows of         *)
(* sys_role_menu stay.                                                     *)
DeleteMenu(r, m) ==
  /\ At(r, "idle")
  /\ m \notin Protected
  /\ menu' = [x \in Menus |-> IF x \in Subtree(m) THEN "gone" ELSE menu[x]]
  /\ UNCHANGED <<userRole, roleRow, roleMenu, token, cache>>
  /\ Commit([req EXCEPT ![r] = [Idle EXCEPT !.pc = "keys", !.job = "all"]])

(* PUT and DELETE /system/menu: any one row that exists, and no refresh. *)
SetMenu(r, m, s) ==
  /\ At(r, "idle")
  /\ menu[m] # "gone"
  /\ menu' = [menu EXCEPT ![m] = s]
  /\ UNCHANGED <<userRole, roleRow, roleMenu, token, cache>>
  /\ Commit(req)

----------------------------------------------------------------------------
(* The end of a session. *)

(* forbidden, for the caller himself or for one he kicks off. *)
Forbid(r, u) ==
  /\ At(r, "idle")
  /\ req' = [req EXCEPT ![r] = [Idle EXCEPT !.pc = "delToken", !.user = u]]
  /\ UNCHANGED <<tables, token, cache, stale>>

DelToken(r) ==
  /\ At(r, "delToken")
  /\ token' = [token EXCEPT ![req[r].user] = FALSE]
  /\ req' = Goto(r, "delPerms")
  /\ UNCHANGED <<tables, cache, stale>>

DelPerms(r) ==
  /\ At(r, "delPerms")
  /\ cache' = [cache EXCEPT ![req[r].user] = NoList]
  /\ stale' = stale \ {req[r].user}
  /\ req' = Finished(r)
  /\ UNCHANGED <<tables, token>>

(* EX 60 * 60 * 24 on the token key; the permission key has no expiry. *)
TokenExpires(u) ==
  /\ token[u]
  /\ token' = [token EXCEPT ![u] = FALSE]
  /\ UNCHANGED <<tables, cache, req, stale>>

(* An await rejects or the process is restarted. *)
Abort(r) ==
  /\ Failures
  /\ req[r].pc \in Steps
  /\ req' = Finished(r)
  /\ UNCHANGED <<tables, token, cache, stale>>

----------------------------------------------------------------------------
Copy(r) == ReadRoles(r) \/ QueryMenus(r) \/ SetPerms(r) \/ LoginSetToken(r)
           \/ CheckOnline(r) \/ KeysTokens(r) \/ Each(r)

Proceed(r) == Copy(r) \/ GrantRoles(r) \/ RoleTx(r) \/ DelToken(r) \/ DelPerms(r)

(* The handlers, as used on the users in us. *)
UserHandlersOn(r, us) ==
  \/ \E u \in us : Login(r, u) \/ Forbid(r, u)
  \/ \E u \in us, rs \in SUBSET Roles, id \in us \cup {None} : ReplaceRoles(r, u, rs, id)
  \/ \E u \in us, rs \in SUBSET Roles : AuthRole(r, u, rs)

RoleHandlersOn(r, us) ==
  \/ \E some \in SUBSET us, role \in Roles : CancelAuth(r, some, role) \/ SelectAll(r, some, role)
  \/ \E role \in Roles, ms \in SUBSET Menus : UpdateRole(r, role, ms) \/ UpdateEmptyRole(r, role, ms)
  \/ \E role \in Roles : RemoveRole(r, role) \/ DeleteUnusedRole(r, role)

UserHandlers(r) == UserHandlersOn(r, Users)
RoleHandlers(r) == RoleHandlersOn(r, Users)

MenuHandlers(r) ==
  \/ \E m \in Menus : DeleteMenu(r, m)
  \/ \E m \in Menus, s \in {"on", "off", "gone"} : SetMenu(r, m, s)

Next ==
  \/ \E r \in Requests : UserHandlers(r) \/ RoleHandlers(r) \/ MenuHandlers(r)
                         \/ Proceed(r) \/ Abort(r)
  \/ \E u \in Users : TokenExpires(u)

Spec == Init /\ [][Next]_vars

----------------------------------------------------------------------------
(* Types of the tables, the Redis keys and the slots. *)
TypeOK ==
  /\ userRole \in [Users -> SUBSET Roles]
  /\ roleRow \subseteq Roles
  /\ roleMenu \in [Roles -> SUBSET Menus]
  /\ menu \in [Menus -> {"on", "off", "gone"}]
  /\ token \in [Users -> BOOLEAN]
  /\ cache \in [Users -> PermList \cup {NoList}]
  /\ req \in [Requests -> Request]
  /\ stale \subseteq Users

(* The permissions the guard reads for a user are the ones the tables give *)
(* him, unless they changed after they were last copied, or the last copy  *)
(* was overtaken by a change: a copy never mixes two users, two versions   *)
(* of a table or a half-done handler (getPerms with its three callers).     *)
CacheFresh ==
  \A u \in Users : cache[u] # NoList /\ u \notin stale => cache[u] = Perms(u)

(* What makes CacheFresh inductive: a calculation that has not been         *)
(* overtaken holds the roles, later the permissions, that are in the tables. *)
CalculationOK(q) ==
  /\ q.pc \in {"roles", "menus", "online", "setToken", "setPerms", "grant",
               "delToken", "delPerms"} => q.user \in Users
  /\ q.pc = "roleTx" => q.role \in Roles
  /\ q.pc = "menus" /\ ~q.old => q.roles = userRole[q.user]
  /\ q.pc \in {"online", "setToken", "setPerms"} =>
       q.value \in PermList /\ (~q.old => q.value = Perms(q.user))

CalculationInv == \A r \in Requests : CalculationOK(req[r])

IInv == TypeOK /\ CalculationInv /\ CacheFresh

(* When refreshOnlineUserPerms ends, the permissions of every online user    *)
(* are the ones in the tables: true where no requests overlap.              *)
Refreshed ==
  \A r \in Requests :
    At(r, "each") /\ req'[r].pc = "idle" => \A u \in Users : token[u] => cache[u] = Perms(u)

RefreshRefreshes == [][Refreshed]_vars

(* When a login ends, its user's permissions are the ones in the tables,     *)
(* unless it gave the administrator his old token: true where no requests   *)
(* overlap.                                                                *)
LoginCopied ==
  \A r \in Requests, u \in Users :
    req[r].job = "login" /\ req[r].user = u /\ req'[r].pc = "idle" =>
      cache'[u] = Perms(u)' \/ (u = Root /\ token[u])

LoginCopies == [][LoginCopied]_vars

(* A calculation nothing overtook contains every enabled permission that    *)
(* any role of the user grants (menu.service.ts:197).                      *)
PermsOfAllRoles ==
  \A r \in Requests :
    At(r, "setPerms") /\ ~req[r].old /\ All \notin req[r].value =>
      \A m \in Menus, role \in userRole[req[r].user] :
        m \in roleMenu[role] /\ menu[m] = "on" => m \in req[r].value

=============================================================================
