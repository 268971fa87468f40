----------------------------- MODULE UserAdmin -----------------------------
(***************************************************************************)
(* The accounts: sys_user with its user name and phone number, and the     *)
(* tables sys_user_role and sys_user_post, as SysUserService writes them.  *)
(* Uniqueness of names and phone numbers is the service's business: the    *)
(* table has no such index.  create and update ask for others first and    *)
(* write in a transaction later; delete and the assignment of roles write  *)
(* by statements of their own, with other requests between.  A request     *)
(* that is refused at its first statement changes nothing and is no step.  *)
(* What a change means for sessions is in AuthSession, for the cached      *)
(* permissions in PermCache.                                               *)
(***************************************************************************)
EXTENDS Integers, FiniteSets

CONSTANTS
  MaxUser,    \* bound: the ids AUTO_INCREMENT gives out
  Names,      \* user names
  Phones,     \* phone numbers
  Roles,      \* role ids
  Posts,      \* post ids
  Requests,   \* slots for the HTTP requests being processed
  Failures,   \* may an await reject, or the process die, in mid-request?
  None        \* no name, no phone number

ASSUME BoundAssumption == MaxUser \in Nat \ {0}
ASSUME FailuresAssumption == Failures \in BOOLEAN
ASSUME NoneAssumption == None \notin Names \cup Phones

Users == 1 .. MaxUser
Root  == 1    \* the user delete compares with rootRoleId

VARIABLES
  next,    \* sys_user's AUTO_INCREMENT
  name,    \* sys_user.user_name; None when there is no row
  phone,   \* sys_user.phonenumber; None when it is empty
  roles,   \* sys_user_role
  posts,   \* sys_user_post
  req,     \* the request in each slot
  cut,     \* history: users whose deletion was cut off ...
  raced    \* ... and who were written by a request that was overtaken

accounts == <<next, name, phone>>
vars     == <<next, name, phone, roles, posts, req, cut, raced>>
history  == <<cut, raced>>

Steps == {"createPhone", "createTx", "updatePhone", "updateTx",
          "delRoles", "delPosts", "grant"}

Request ==
  [pc    : Steps \cup {"idle"},
   user  : Users \cup {0},       \* the user it is about
   name  : Names \cup {None},    \* what he is to have
   phone : Phones \cup {None},
   roles : SUBSET Roles,
   posts : SUBSET Posts,
   gone  : SUBSET Users,         \* the users being deleted
   old   : BOOLEAN]              \* history: has another request written
                                 \* what this one relies on?

Idle == [pc |-> "idle", user |-> 0, name |-> None, phone |-> None,
         roles |-> {}, posts |-> {}, gone |-> {}, old |-> FALSE]

(* The administrator of the installation script. *)
Init ==
  /\ next = 2
  /\ \E n \in Names : name = [u \in Users |-> IF u = Root THEN n ELSE None]
  /\ phone = [u \in Users |-> None]
  /\ roles = [u \in Users |-> IF u = Root THEN Roles ELSE {}]
  /\ posts = [u \in Users |-> IF u = Root THEN Posts ELSE {}]
  /\ req   = [r \in Requests |-> Idle]
  /\ cut   = {}
  /\ raced = {}

At(r, step)   == req[r].pc = step
Goto(r, step) == [req EXCEPT ![r].pc = step]
Finished(r)   == [req EXCEPT ![r] = Idle]

Exists(u) == name[u] # None

(* An id an administrator may still have on his page. *)
Given == {u \in Users : u < next}

NameTaken(n, others)  == \E u \in others : name[u] = n
PhoneTaken(p, others) == p # None /\ \E u \in others : phone[u] = p

(* A write overtakes an assignment whose user has other roles after it, and *)
(* a create or update whose name or phone number it has given to another.   *)
Overtaken(q) ==
  \/ q.pc = "grant" /\ roles'[q.user] # roles[q.user]
  \/ \E u \in Users \ {q.user} :
       \/ name'[u] = q.name /\ name[u] # q.name
       \/ phone'[u] = q.phone /\ phone[u] # q.phone /\ q.phone # None

Commit(after) ==
  req' = [r \in Requests |-> [after[r] EXCEPT !.old = @ \/ Overtaken(after[r])]]

(* A user written by a request that was overtaken may not be unique. *)
Mark(r, u) == raced' = IF req[r].old THEN raced \cup {u} ELSE raced \ {u}

----------------------------------------------------------------------------
(* POST /user (create): is the name free, is the phone number free, then    *)
(* the user, his roles and his posts in one transaction.                   *)
Create(r, n, p, rs, ps) ==
  /\ At(r, "idle")
  /\ ~NameTaken(n, Users)
  /\ req' = [req EXCEPT ![r] =
               [Idle EXCEPT !.pc = IF p = None THEN "createTx" ELSE "createPhone",
                            !.name = n, !.phone = p, !.roles = rs, !.posts = ps]]
  /\ UNCHANGED <<accounts, roles, posts, history>>

CreatePhone(r) ==
  /\ At(r, "createPhone")
  /\ req' = IF PhoneTaken(req[r].phone, Users) THEN Finished(r) ELSE Goto(r, "createTx")
  /\ UNCHANGED <<accounts, roles, posts, history>>

(* Out of ids (the bound), the insert fails. *)
CreateTx(r) ==
  /\ At(r, "createTx")
  /\ \/ /\ next \notin Users
        /\ req' = Finished(r)
        /\ UNCHANGED <<accounts, roles, posts, raced>>
     \/ /\ next \in Users
        /\ Mark(r, next)
        /\ next'  = next + 1
        /\ name'  = [name EXCEPT ![next] = req[r].name]
        /\ phone' = [phone EXCEPT ![next] = req[r].phone]
        /\ roles' = [roles EXCEPT ![next] = @ \cup req[r].roles]
        /\ posts' = [posts EXCEPT ![next] = @ \cup req[r].posts]
        /\ Commit(Finished(r))
  /\ UNCHANGED cut

----------------------------------------------------------------------------
(* Variant: the names of the others are not looked at. *)
UpdateNoName(r, u, n, p, rs, ps) ==
  /\ At(r, "idle")
  /\ u \in Given
  /\ req' = [req EXCEPT ![r] =
               [Idle EXCEPT !.pc = IF p = None THEN "updateTx" ELSE "updatePhone",
                            !.user = u, !.name = n, !.phone = p,
                            !.roles = rs, !.posts = ps]]
  /\ UNCHANGED <<accounts, roles, posts, history>>

(* PUT /user (update): the same questions about other users; the           *)
(* transaction replaces roles and posts, and throws if there is no row.    *)
Update(r, u, n, p, rs, ps) ==
  /\ At(r, "idle")
  /\ u \in Given
  /\ ~NameTaken(n, Users \ {u})
  /\ req' = [req EXCEPT ![r] =
               [Idle EXCEPT !.pc = IF p = None THEN "updateTx" ELSE "updatePhone",
                            !.user = u, !.name = n, !.phone = p,
                            !.roles = rs, !.posts = ps]]
  /\ UNCHANGED <<accounts, roles, posts, history>>

UpdatePhone(r) ==
  /\ At(r, "updatePhone")
  /\ req' = IF PhoneTaken(req[r].phone, Users \ {req[r].user})
            THEN Finished(r) ELSE Goto(r, "updateTx")
  /\ UNCHANGED <<accounts, roles, posts, history>>

(* Variant: updateMany instead of update, which does not throw. *)
UpdateTxMany(r) ==
  LET u == req[r].user IN
  /\ At(r, "updateTx")
  /\ IF Exists(u)
     THEN /\ name'  = [name EXCEPT ![u] = req[r].name]
          /\ phone' = [phone EXCEPT ![u] = req[r].phone]
     ELSE UNCHANGED <<name, phone>>
  /\ roles' = [roles EXCEPT ![u] = req[r].roles]
  /\ posts' = [posts EXCEPT ![u] = req[r].posts]
  /\ Mark(r, u)
  /\ Commit(Finished(r))
  /\ UNCHANGED <<next, cut>>

UpdateTx(r) ==
  LET u == req[r].user IN
  /\ At(r, "updateTx")
  /\ \/ /\ ~Exists(u)
        /\ req' = Finished(r)
        /\ UNCHANGED <<accounts, roles, posts, raced>>
     \/ /\ Exists(u)
        /\ Mark(r, u)
        /\ name'  = [name EXCEPT ![u] = req[r].name]
        /\ phone' = [phone EXCEPT ![u] = req[r].phone]
        /\ roles' = [roles EXCEPT ![u] = req[r].roles]
        /\ posts' = [posts EXCEPT ![u] = req[r].posts]
        /\ Commit(Finished(r))
        /\ UNCHANGED next
  /\ UNCHANGED cut

----------------------------------------------------------------------------
(* Variant: nothing keeps the root user. *)
DeleteAny(r, us) ==
  /\ At(r, "idle")
  /\ name'  = [u \in Users |-> IF u \in us THEN None ELSE name[u]]
  /\ phone' = [u \in Users |-> IF u \in us THEN None ELSE phone[u]]
  /\ req'   = [req EXCEPT ![r] = [Idle EXCEPT !.pc = "delRoles", !.gone = us]]
  /\ UNCHANGED <<next, roles, posts, history>>

(* DELETE /user/:ids: three statements, no transaction. *)
Delete(r, us) ==
  /\ At(r, "idle")
  /\ Root \notin us
  /\ name'  = [u \in Users |-> IF u \in us THEN None ELSE name[u]]
  /\ phone' = [u \in Users |-> IF u \in us THEN None ELSE phone[u]]
  /\ req'   = [req EXCEPT ![r] = [Idle EXCEPT !.pc = "delRoles", !.gone = us]]
  /\ UNCHANGED <<next, roles, posts, history>>

DelRoles(r) ==
  /\ At(r, "delRoles")
  /\ roles' = [u \in Users |-> IF u \in req[r].gone THEN {} ELSE roles[u]]
  /\ UNCHANGED <<accounts, posts, history>>
  /\ Commit(Goto(r, "delPosts"))

DelPosts(r) ==
  /\ At(r, "delPosts")
  /\ posts' = [u \in Users |-> IF u \in req[r].gone THEN {} ELSE posts[u]]
  /\ req'   = Finished(r)
  /\ UNCHANGED <<accounts, roles, history>>

----------------------------------------------------------------------------
(* Variant: the old roles stay. *)
AuthRoleKeep(r, u, rs) ==
  /\ At(r, "idle")
  /\ u \in Given
  /\ rs # {}
  /\ req' = [req EXCEPT ![r] = [Idle EXCEPT !.pc = "grant", !.user = u, !.roles = rs]]
  /\ UNCHANGED <<accounts, roles, posts, history>>

(* PUT /user/authRole (insertAuthRole): delete the roles, insert the new    *)
(* ones; nothing asks whether the user is there.                           *)
AuthRole(r, u, rs) ==
  LET mine == [Idle EXCEPT !.pc = "grant", !.user = u, !.roles = rs] IN
  /\ At(r, "idle")
  /\ u \in Given
  /\ roles' = [roles EXCEPT ![u] = {}]
  /\ UNCHANGED <<accounts, posts, history>>
  /\ req' = [p \in Requests |->
               IF p = r THEN IF rs = {} THEN Idle ELSE mine
               ELSE [req[p] EXCEPT !.old = @ \/ Overtaken(req[p])]]

(* createMany fails as a whole on a duplicate key. *)
GrantRoles(r) ==
  LET u == req[r].user IN
  /\ At(r, "grant")
  /\ roles' = IF roles[u] \cap req[r].roles = {}
              THEN [roles EXCEPT ![u] = @ \cup req[r].roles]
              ELSE roles
  /\ UNCHANGED <<accounts, posts, history>>
  /\ Commit(Finished(r))

(* PUT /role/authUser/cancel and cancelAll. *)
CancelAuth(r, us, role) ==
  /\ At(r, "idle")
  /\ roles' = [u \in Users |-> IF u \in us THEN roles[u] \ {role} ELSE roles[u]]
  /\ UNCHANGED <<accounts, posts, history>>
  /\ Commit(req)

(* PUT /role/authUser/selectAll: fails when one of us has the role already. *)
SelectAll(r, us, role) ==
  /\ At(r, "idle")
  /\ \A u \in us : role \notin roles[u]
  /\ roles' = [u \in Users |-> IF u \in us THEN roles[u] \cup {role} ELSE roles[u]]
  /\ UNCHANGED <<accounts, posts, history>>
  /\ Commit(req)

(* An await rejects, or the process goes down. *)
Abort(r) ==
  /\ Failures
  /\ ~At(r, "idle")
  /\ req' = Finished(r)
  /\ cut' = cut \cup req[r].gone
  /\ UNCHANGED <<accounts, roles, posts, raced>>

Arrive(r) ==
  \/ \E n \in Names, p \in Phones \cup {None}, rs \in SUBSET Roles, ps \in SUBSET Posts :
       \/ Create(r, n, p, rs, ps)
       \/ \E u \in Users : Update(r, u, n, p, rs, ps)
  \/ \E us \in SUBSET Given : us # {} /\ Delete(r, us)
  \/ \E u \in Users, rs \in SUBSET Roles : AuthRole(r, u, rs)
  \/ \E us \in SUBSET Given, role \in Roles : CancelAuth(r, us, role) \/ SelectAll(r, us, role)

Proceed(r) ==
  \/ CreatePhone(r) \/ CreateTx(r) \/ UpdatePhone(r) \/ UpdateTx(r)
  \/ DelRoles(r) \/ DelPosts(r) \/ GrantRoles(r)

Next == \E r \in Requests : Arrive(r) \/ Proceed(r) \/ Abort(r)

Spec == Init /\ [][Next]_vars

----------------------------------------------------------------------------
(* Every variable has its type, and rows are for ids given out.            *)
TypeOK ==
  /\ next \in 1 .. MaxUser + 1
  /\ name \in [Users -> Names \cup {None}]
  /\ phone \in [Users -> Phones \cup {None}]
  /\ roles \in [Users -> SUBSET Roles]
  /\ posts \in [Users -> SUBSET Posts]
  /\ req \in [Requests -> Request]
  /\ cut \in SUBSET Users
  /\ raced \in SUBSET Users
  /\ \A u \in Users \ Given : name[u] = None /\ roles[u] = {} /\ posts[u] = {}
  /\ \A u \in Users : ~Exists(u) => phone[u] = None

Distinct(u, v) ==
  /\ name[u] # None => name[u] # name[v]
  /\ phone[u] # None => phone[u] # phone[v]

(* No two users share a name or a phone number, as login, which finds a     *)
(* user by his name, needs, but for one way the code leaves open: create    *)
(* and update ask before the transaction and not in it.  Two users who      *)
(* share one include one whose last create or update was overtaken, by a    *)
(* request that gave the name or the number away between its question and   *)
(* its write.                                                              *)
UniqueUnlessRaced ==
  \A u, v \in Users \ raced : u # v => Distinct(u, v)

(* Posts are those of a user there is, however requests overlap, except     *)
(* while he is being deleted or when his deletion was cut off.             *)
PostsHaveUser ==
  \A u \in Users : posts[u] # {} /\ ~Exists(u) =>
    \/ u \in cut
    \/ \E r \in Requests : req[r].pc \in {"delRoles", "delPosts"} /\ u \in req[r].gone

(* The second half of an assignment finds no roles, so it cannot fail and   *)
(* leaves exactly what was asked for, unless another request changed the    *)
(* user's roles between the halves.                                        *)
GrantWillApply ==
  \A r \in Requests : At(r, "grant") /\ ~req[r].old => roles[req[r].user] = {}

(* The root user stays, whatever is asked for. *)
RootStays == Exists(Root)

(* What a request on its way holds, and an invariant that is inductive.     *)
RequestOK(q) ==
  /\ q.pc \in {"createPhone", "createTx", "updatePhone", "updateTx"} => q.name \in Names
  /\ q.pc \in {"updatePhone", "updateTx", "grant"} => q.user \in Given
  /\ q.pc \in {"createPhone", "createTx"} => q.user = 0
  /\ q.pc = "grant" /\ ~q.old => roles[q.user] = {}
  /\ q.pc \in {"delRoles", "delPosts"} => Root \notin q.gone /\ \A u \in q.gone : u \in Given /\ ~Exists(u)

IInv ==
  /\ TypeOK
  /\ \A r \in Requests : RequestOK(req[r])
  /\ PostsHaveUser
  /\ Root \in Given /\ RootStays

(* What a create or an update has found out about the names and the phone   *)
(* numbers of the others ...                                               *)
Checked(q) ==
  /\ q.pc \in {"createPhone", "createTx"} => ~NameTaken(q.name, Users)
  /\ q.pc = "createTx" => ~PhoneTaken(q.phone, Users)
  /\ q.pc \in {"updatePhone", "updateTx"} => ~NameTaken(q.name, Users \ {q.user})
  /\ q.pc = "updateTx" => ~PhoneTaken(q.phone, Users \ {q.user})

(* ... still holds, however long it waits, unless it was overtaken.         *)
ChecksHold == \A r \in Requests : ~req[r].old => Checked(req[r])
=============================================================================
