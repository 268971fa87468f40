----------------------------- MODULE RoleAdmin -----------------------------
(***************************************************************************)
(* The tables behind a role, sys_role, sys_role_menu and sys_role_dept,    *)
(* and the handlers of SysRoleController that write them.  A handler reads *)
(* what the role has, works out the difference to what it was asked for,   *)
(* and applies the difference in a transaction; requests of other          *)
(* administrators run between the statements.  A transaction takes one     *)
(* step, and one that throws leaves the tables alone.  There are no        *)
(* foreign keys.                                                           *)
(***************************************************************************)
EXTENDS Integers, FiniteSets

CONSTANTS
  MaxRole,    \* bound: the ids AUTO_INCREMENT gives out
  Known,      \* the roles 1 .. Known are there from the start
  Menus,      \* menu ids
  Depts,      \* department ids
  Requests,   \* slots for the HTTP requests being processed
  Failures    \* may an await reject, or the process die, in mid-request?

ASSUME BoundAssumption == MaxRole \in Nat /\ Known \in 0 .. MaxRole
ASSUME FailuresAssumption == Failures \in BOOLEAN

Roles == 1 .. MaxRole

VARIABLES
  next,       \* sys_role's AUTO_INCREMENT
  row,        \* the ids in sys_role
  roleMenu,   \* sys_role_menu: the menus of each role
  roleDept,   \* sys_role_dept: the departments of each role
  req,        \* the request in each slot
  orphan      \* history: roles deleted while a request was on its way to
              \* write their menus

tables == <<next, row, roleMenu, roleDept>>
vars   == <<next, row, roleMenu, roleDept, req, orphan>>

MenuSteps == {"addTx", "readMenus", "menuTx", "readOrigin", "updateTx"}
Steps     == MenuSteps \cup {"deptTx"}

Request ==
  [pc      : Steps \cup {"idle"},
   role    : Roles \cup {0},   \* the role it is about
   menus   : SUBSET Menus,     \* the menus and departments it asks for
   depts   : SUBSET Depts,
   add     : SUBSET (Menus \cup Depts),   \* what to insert for the role ...
   drop    : SUBSET (Menus \cup Depts),   \* ... and what to delete
   old     : BOOLEAN]          \* history: have the rows of the role changed
                               \* since they were read?

Idle == [pc |-> "idle", role |-> 0, menus |-> {}, depts |-> {},
         add |-> {}, drop |-> {}, old |-> FALSE]

Init ==
  /\ next = Known + 1
  /\ row  = 1 .. Known
  /\ \E m \in [1 .. Known -> SUBSET Menus] :
       roleMenu = [x \in Roles |-> IF x \in 1 .. Known THEN m[x] ELSE {}]
  /\ roleDept = [x \in Roles |-> {}]
  /\ req = [r \in Requests |-> Idle]
  /\ orphan = {}

At(r, step) == req[r].pc = step
Finished(r) == [req EXCEPT ![r] = Idle]

(* A role id an administrator may still have on his page: one given out     *)
(* before, deleted or not.                                                  *)
Given == {x \in Roles : x < next}

(* A write to the tables: the other requests about a role whose rows change *)
(* hold a difference that is out of date.                                   *)
Commit(after) ==
  req' = [r \in Requests |->
            [after[r] EXCEPT !.old = @ \/ /\ after[r].role \in Roles
                                          /\ \/ roleMenu'[after[r].role] # roleMenu[after[r].role]
                                             \/ roleDept'[after[r].role] # roleDept[after[r].role]]]

----------------------------------------------------------------------------
(* POST /role (add): the row of sys_role is committed first.               *)
Add(r, menus, depts) ==
  /\ At(r, "idle")
  /\ next \in Roles
  /\ next' = next + 1
  /\ row'  = row \cup {next}
  /\ req'  = [req EXCEPT ![r] = [Idle EXCEPT !.pc = "addTx", !.role = next,
                                             !.menus = menus, !.depts = depts]]
  /\ UNCHANGED <<roleMenu, roleDept, orphan>>

(* Then menus and departments in a transaction.  The rows for departments   *)
(* name a column departmentId, which sys_role_dept has not: it throws.      *)
AddTx(r) ==
  LET role == req[r].role IN
  /\ At(r, "addTx")
  /\ roleMenu' = IF /\ req[r].depts = {}
                    /\ roleMenu[role] \cap req[r].menus = {}
                 THEN [roleMenu EXCEPT ![role] = @ \cup req[r].menus]
                 ELSE roleMenu
  /\ UNCHANGED <<next, row, roleDept, orphan>>
  /\ Commit(Finished(r))

----------------------------------------------------------------------------
(* PUT /role (updateV1), the menus of a role: sys_role.update throws when   *)
(* there is no such role.                                                  *)
UpdateV1(r, role, menus) ==
  /\ At(r, "idle")
  /\ role \in row
  /\ req' = [req EXCEPT ![r] = [Idle EXCEPT !.pc = "readMenus", !.role = role,
                                            !.menus = menus]]
  /\ UNCHANGED <<tables, orphan>>

(* Variant: the menus the role is to lose are not compared with those it    *)
(* was given to keep.                                                      *)
ReadMenusDropAll(r) ==
  LET has == roleMenu[req[r].role] IN
  /\ At(r, "readMenus")
  /\ req' = [req EXCEPT ![r].pc = "menuTx", ![r].old = FALSE,
                        ![r].add  = req[r].menus \ has,
                        ![r].drop = has]
  /\ UNCHANGED <<tables, orphan>>

ReadMenus(r) ==
  LET has == roleMenu[req[r].role] IN
  /\ At(r, "readMenus")
  /\ req' = [req EXCEPT ![r].pc = "menuTx", ![r].old = FALSE,
                        ![r].add  = req[r].menus \ has,
                        ![r].drop = has \ req[r].menus]
  /\ UNCHANGED <<tables, orphan>>

(* Variant: the rows to insert are not tied to one role.                    *)
MenuTxInsertAll(r) ==
  LET role == req[r].role IN
  /\ At(r, "menuTx")
  /\ roleMenu' = IF roleMenu[role] \cap req[r].add = {}
                 THEN [x \in Roles |->
                         (roleMenu[x] \cup (IF x \in row THEN req[r].add ELSE {})) \ req[r].drop]
                 ELSE roleMenu
  /\ UNCHANGED <<next, row, roleDept, orphan>>
  /\ Commit(Finished(r))

(* The transaction inserts for this role (a duplicate key throws) and       *)
(* deletes by menu id alone, whatever the role.                             *)
MenuTx(r) ==
  LET role == req[r].role IN
  /\ At(r, "menuTx")
  /\ roleMenu' = IF roleMenu[role] \cap req[r].add = {}
                 THEN [x \in Roles |->
                         (roleMenu[x] \cup (IF x = role THEN req[r].add ELSE {})) \ req[r].drop]
                 ELSE roleMenu
  /\ UNCHANGED <<next, row, roleDept, orphan>>
  /\ Commit(Finished(r))

----------------------------------------------------------------------------
(* PUT /role/dataScope (updateV2), the departments of a role; nothing asks  *)
(* whether the role is still there.                                        *)
UpdateV2(r, role, depts) ==
  /\ At(r, "idle")
  /\ role \in Given
  /\ req' = [req EXCEPT ![r] = [Idle EXCEPT !.pc = "deptTx", !.role = role,
                                  !.depts = depts,
                                  !.add   = depts \ roleDept[role],
                                  !.drop  = roleDept[role] \ depts]]
  /\ UNCHANGED <<tables, orphan>>

DeptTx(r) ==
  LET role == req[r].role IN
  /\ At(r, "deptTx")
  /\ roleDept' = IF roleDept[role] \cap req[r].add = {}
                 THEN [x \in Roles |->
                         (roleDept[x] \cup (IF x = role THEN req[r].add ELSE {})) \ req[r].drop]
                 ELSE roleDept
  /\ UNCHANGED <<next, row, roleMenu, orphan>>
  /\ Commit(Finished(r))

----------------------------------------------------------------------------
(* POST /role/update (update).                                             *)
Update(r, role, menus, depts) ==
  /\ At(r, "idle")
  /\ role \in row
  /\ req' = [req EXCEPT ![r] = [Idle EXCEPT !.pc = "readOrigin", !.role = role,
                                            !.menus = menus, !.depts = depts]]
  /\ UNCHANGED <<tables, orphan>>

(* The ids in the rows are BigInts and those in the request numbers, so the *)
(* differences are everything asked for and everything there is.           *)
ReadOrigin(r) ==
  /\ At(r, "readOrigin")
  /\ req' = [req EXCEPT ![r].pc = "updateTx", ![r].old = FALSE,
                        ![r].add  = req[r].menus,
                        ![r].drop = roleMenu[req[r].role]]
  /\ UNCHANGED <<tables, orphan>>

(* The transaction throws on a duplicate key, on menus to delete (the rows  *)
(* have no id, and undefined is no value) and on departments to insert      *)
(* (departmentId again); departments are never deleted, since no row has a  *)
(* departmentId to find it by.                                             *)
UpdateTx(r) ==
  LET role == req[r].role IN
  /\ At(r, "updateTx")
  /\ roleMenu' = IF /\ roleMenu[role] \cap req[r].add = {}
                    /\ req[r].drop = {}
                    /\ req[r].depts = {}
                 THEN [roleMenu EXCEPT ![role] = @ \cup req[r].add]
                 ELSE roleMenu
  /\ UNCHANGED <<next, row, roleDept, orphan>>
  /\ Commit(Finished(r))

----------------------------------------------------------------------------
(* The roles are deleted under requests that are to write their menus. *)
Overtakes(roles) ==
  orphan' = orphan \cup {x \in roles : \E r \in Requests : /\ req[r].pc \in MenuSteps
                                                           /\ req[r].role = x}

(* Variant: the rows of sys_role_menu are left behind. *)
DeleteRowOnly(r, roles) ==
  /\ At(r, "idle")
  /\ row' = row \ roles
  /\ roleDept' = [x \in Roles |-> IF x \in roles THEN {} ELSE roleDept[x]]
  /\ Overtakes(roles)
  /\ UNCHANGED <<next, roleMenu>>
  /\ Commit(req)

(* DELETE /role/:ids, one transaction.  The test for the root role compares *)
(* strings with a number and never holds.                                  *)
Delete(r, roles) ==
  /\ At(r, "idle")
  /\ row' = row \ roles
  /\ roleMenu' = [x \in Roles |-> IF x \in roles THEN {} ELSE roleMenu[x]]
  /\ roleDept' = [x \in Roles |-> IF x \in roles THEN {} ELSE roleDept[x]]
  /\ Overtakes(roles)
  /\ UNCHANGED next
  /\ Commit(req)

(* An await rejects, or the process goes down. *)
Abort(r) ==
  /\ Failures
  /\ ~At(r, "idle")
  /\ req' = Finished(r)
  /\ UNCHANGED <<tables, orphan>>

Arrive(r) ==
  \/ \E menus \in SUBSET Menus, depts \in SUBSET Depts : Add(r, menus, depts)
  \/ \E role \in Roles, menus \in SUBSET Menus : UpdateV1(r, role, menus)
  \/ \E role \in Roles, depts \in SUBSET Depts : UpdateV2(r, role, depts)
  \/ \E role \in Roles, menus \in SUBSET Menus, depts \in SUBSET Depts :
       Update(r, role, menus, depts)
  \/ \E roles \in SUBSET Given : roles # {} /\ Delete(r, roles)

Proceed(r) ==
  AddTx(r) \/ ReadMenus(r) \/ MenuTx(r) \/ DeptTx(r) \/ ReadOrigin(r) \/ UpdateTx(r)

Next == \E r \in Requests : Arrive(r) \/ Proceed(r) \/ Abort(r)

Spec == Init /\ [][Next]_vars

----------------------------------------------------------------------------
(* Every variable has its type.                                            *)
TypeOK ==
  /\ next \in 1 .. MaxRole + 1
  /\ row \in SUBSET Given
  /\ roleMenu \in [Roles -> SUBSET Menus]
  /\ roleDept \in [Roles -> SUBSET Depts]
  /\ req \in [Requests -> Request]
  /\ orphan \in SUBSET Roles

(* The difference in q can be applied and gives what q asks for.           *)
Applies(q) ==
  /\ q.pc = "menuTx" => /\ roleMenu[q.role] \cap q.add = {}
                        /\ (roleMenu[q.role] \cup q.add) \ q.drop = q.menus
  /\ q.pc = "deptTx" => /\ roleDept[q.role] \cap q.add = {}
                        /\ (roleDept[q.role] \cup q.add) \ q.drop = q.depts

(* The difference updateV1 (and updateV2) has worked out, unless the rows   *)
(* of its role changed since they were read, is one the transaction can     *)
(* apply and that leaves the role with exactly what was asked for.          *)
EditWillApply == \A r \in Requests : ~req[r].old => Applies(req[r])

(* What a request holds on its way, and the invariant that is inductive.    *)
RequestOK(q) ==
  /\ q.pc # "idle" => q.role \in Roles
  /\ q.pc \in {"menuTx", "updateTx"} => q.add \subseteq q.menus /\ q.drop \subseteq Menus
  /\ q.pc = "deptTx" => q.add \subseteq q.depts /\ q.drop \subseteq Depts
  /\ ~q.old => Applies(q)

IInv == TypeOK /\ \A r \in Requests : RequestOK(req[r])

(* Whatever an administrator or several do, no role is given a menu or a    *)
(* department that a request for that very role does not ask for.           *)
GainsWereAsked ==
  [][\A x \in Roles :
       /\ \A m \in roleMenu'[x] \ roleMenu[x] :
            \E r \in Requests : req[r].role = x /\ m \in req[r].menus
       /\ \A d \in roleDept'[x] \ roleDept[x] :
            \E r \in Requests : req[r].role = x /\ d \in req[r].depts]_vars

(* No menus are left to a role that is gone, unless it was deleted while a  *)
(* request was about to write them: sys_user_role keeps the users of a      *)
(* deleted role, and getPerms would go on giving them what sys_role_menu    *)
(* holds (delete, against add and the three updates).                      *)
GoneRoleGrantsNothing ==
  \A x \in Roles \ row : roleMenu[x] # {} => x \in orphan

(* A request that writes menus is for a role that is there, or that went    *)
(* while it ran: no handler sets out for a role nobody has.                *)
TargetsExist ==
  \A r \in Requests : req[r].pc \in MenuSteps => req[r].role \in row \cup orphan

(* An update of one role leaves the menus and departments of the others     *)
(* alone.  The code violates it: the deletes of updateV1 and updateV2 have  *)
(* no condition on the role.                                               *)
OtherRolesKept ==
  [][\A x \in Roles :
       roleMenu'[x] # roleMenu[x] \/ roleDept'[x] # roleDept[x] =>
         x \notin row' \/ \E r \in Requests : req[r].role = x]_vars
=============================================================================
