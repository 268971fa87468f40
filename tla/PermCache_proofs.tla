------------------------- MODULE PermCache_proofs -------------------------
(***************************************************************************)
(* Proofs about PermCache, for any users, roles, menus and request slots.  *)
(***************************************************************************)
EXTENDS PermCache, TLAPS

(* The query returns a list of permissions, for any roles. *)
LEMMA ListType == ASSUME NEW roles PROVE PermsOf(roles) \in PermList
  BY DEF PermsOf, PermList

(* An empty slot is well formed and claims nothing. *)
LEMMA IdleFit == Idle \in Request /\ CalculationOK(Idle)
<1>1. Idle \in Request
  BY DEF Idle, Request
<1>2. CalculationOK(Idle)
  BY DEF Idle, CalculationOK
<1>3. QED
  BY <1>1, <1>2

(* A step that leaves the tables alone and puts a request whose claims hold *)
(* into one slot keeps the invariant, if it keeps the cache right.          *)
LEMMA CopyStep ==
  ASSUME IInv, UNCHANGED tables,
         token' \in [Users -> BOOLEAN],
         cache' \in [Users -> PermList \cup {NoList}],
         stale' \subseteq Users,
         \A u \in Users : cache'[u] # NoList /\ u \notin stale' => cache'[u] = Perms(u),
         NEW r \in Requests, NEW q \in Request, CalculationOK(q),
         req' = [req EXCEPT ![r] = q]
  PROVE  IInv'
<1>1. TypeOK'
  BY DEF IInv, TypeOK, tables
<1>2. \A u \in Users : Perms(u)' = Perms(u)
  BY DEF tables, Perms, PermsOf
<1>3. CalculationInv'
  <2>1. \A p \in Requests : req'[p] = IF p = r THEN q ELSE req[p]
    BY DEF IInv, TypeOK
  <2>2. \A p \in Requests : CalculationOK(req'[p])
    BY <2>1 DEF IInv, CalculationInv
  <2>3. \A p \in Requests : req'[p] \in Request
    BY <1>1 DEF TypeOK
  <2>4. QED
    BY <1>2, <2>2, <2>3 DEF CalculationInv, CalculationOK, tables
<1>4. CacheFresh'
  BY <1>2 DEF CacheFresh
<1>5. QED
  BY <1>1, <1>3, <1>4 DEF IInv

(* A step that writes the tables and leaves the session keys alone keeps    *)
(* the invariant: whoever is affected is marked.                           *)
LEMMA CommitStep ==
  ASSUME IInv,
         userRole' \in [Users -> SUBSET Roles],
         roleRow' \subseteq Roles,
         roleMenu' \in [Roles -> SUBSET Menus],
         menu' \in [Menus -> {"on", "off", "gone"}],
         UNCHANGED <<token, cache>>,
         NEW next \in [Requests -> Request],
         \A r \in Requests : CalculationOK(next[r]),
         Commit(next)
  PROVE  IInv'
<1> DEFINE changed == {u \in Users : Perms(u)' # Perms(u)}
           moved   == changed \cup {u \in Users : userRole'[u] # userRole[u]}
           old(r)  == next[r].old \/ (Calculating(next[r]) /\ next[r].user \in moved)
<1>1. /\ stale' = stale \cup {u \in changed : cache[u] # NoList}
      /\ req' = [r \in Requests |-> [next[r] EXCEPT !.old = old(r)]]
  BY Zenon DEF Commit
<1> HIDE DEF changed, moved, old
<1>2. \A r \in Requests : old(r) \in BOOLEAN
  BY DEF old, Request, Calculating
<1>3. \A r \in Requests : req'[r] = [next[r] EXCEPT !.old = old(r)]
  BY <1>1
<1>4. \A r \in Requests :
        /\ req'[r] \in Request
        /\ req'[r].old = old(r)
        /\ req'[r].pc = next[r].pc
        /\ req'[r].user = next[r].user
        /\ req'[r].role = next[r].role
        /\ req'[r].roles = next[r].roles
        /\ req'[r].value = next[r].value
  <2> TAKE r \in Requests
  <2> DEFINE q == next[r]
             b == old(r)
             p == req'[r]
  <2>1. q \in Request /\ b \in BOOLEAN /\ p = [q EXCEPT !.old = b]
    BY <1>2, <1>3
  <2> HIDE DEF q, b, p
  <2>2. /\ p \in Request
        /\ p.old = b
        /\ p.pc = q.pc
        /\ p.user = q.user
        /\ p.role = q.role
        /\ p.roles = q.roles
        /\ p.value = q.value
    BY <2>1 DEF Request
  <2>3. QED
    BY <2>2 DEF p, q, b
<1>5. TypeOK'
  <2>1. stale' \subseteq Users
    BY <1>1 DEF IInv, TypeOK, changed
  <2>2. req' \in [Requests -> Request]
    <3>1. req' = [r \in Requests |-> req'[r]]
      BY <1>1, <1>3
    <3>2. QED
      BY <1>4, <3>1
  <2>3. QED
    BY <2>1, <2>2 DEF IInv, TypeOK
<1>6. CalculationInv'
  <2> SUFFICES ASSUME NEW r \in Requests PROVE CalculationOK(req[r])'
    BY DEF CalculationInv
  <2>1. CalculationOK(next[r]) /\ next[r] \in Request
    OBVIOUS
  <2>2. ASSUME ~req'[r].old, Calculating(next[r])
        PROVE  ~next[r].old /\ next[r].user \notin moved
    BY <1>4, <2>2 DEF old
  <2>3. ASSUME ~req'[r].old, req'[r].pc = "menus"
        PROVE  req'[r].roles = userRole'[req'[r].user]
    <3>1. next[r].pc = "menus" /\ next[r].user \in Users
      BY <1>4, <2>1, <2>3 DEF CalculationOK
    <3>2. ~next[r].old /\ next[r].user \notin moved
      BY <2>2, <2>3, <3>1 DEF Calculating
    <3>3. userRole'[next[r].user] = userRole[next[r].user]
      BY <3>1, <3>2 DEF moved
    <3>4. QED
      BY <1>4, <2>1, <3>1, <3>2, <3>3 DEF CalculationOK
  <2>4. ASSUME req'[r].pc \in {"online", "setToken", "setPerms"}
        PROVE  req'[r].value \in PermList /\ (~req'[r].old => req'[r].value = Perms(req[r].user)')
    <3>1. /\ next[r].pc \in {"online", "setToken", "setPerms"}
          /\ next[r].user \in Users
          /\ next[r].value \in PermList
      BY <1>4, <2>1, <2>4 DEF CalculationOK
    <3>2. ASSUME ~req'[r].old PROVE req'[r].value = Perms(req[r].user)'
      <4>1. ~next[r].old /\ next[r].user \notin moved
        BY <2>2, <3>1, <3>2 DEF Calculating
      <4>2. next[r].value = Perms(next[r].user)
        BY <2>1, <3>1, <4>1 DEF CalculationOK
      <4>3. Perms(next[r].user)' = Perms(next[r].user)
        BY <3>1, <4>1 DEF moved, changed
      <4>4. Perms(req[r].user)' = Perms(next[r].user)'
        BY <1>4 DEF Perms
      <4>5. QED
        BY <1>4, <4>2, <4>3, <4>4
    <3>3. QED
      BY <1>4, <3>1, <3>2
  <2>5. /\ req'[r].pc \in {"roles", "menus", "online", "setToken", "setPerms", "grant",
                           "delToken", "delPerms"} => req'[r].user \in Users
        /\ req'[r].pc = "roleTx" => req'[r].role \in Roles
    BY <1>4, <2>1 DEF CalculationOK
  <2>6. QED
    BY <2>3, <2>4, <2>5 DEF CalculationOK
<1>7. CacheFresh'
  BY <1>1 DEF changed, CacheFresh, IInv
<1>8. QED
  BY <1>5, <1>6, <1>7 DEF IInv

(* The invariant holds before the first request. *)
LEMMA InitInv == Init => IInv
<1> SUFFICES ASSUME Init PROVE IInv
  OBVIOUS
<1>1. TypeOK
  BY IdleFit DEF Init, TypeOK
<1>2. CalculationInv
  BY IdleFit DEF Init, CalculationInv
<1>3. CacheFresh
  BY DEF Init, CacheFresh
<1>4. QED
  BY <1>1, <1>2, <1>3 DEF IInv

(* The steps of a copy: reading, calculating, writing. *)
LEMMA CopyInv == ASSUME IInv, NEW r \in Requests, Copy(r) PROVE IInv'
<1> USE DEF IInv
<1>0. req[r] \in Request /\ CalculationOK(req[r])
  BY DEF TypeOK, CalculationInv
<1>1. CASE ReadRoles(r)
  <2> DEFINE q == [req[r] EXCEPT !.pc = "menus", !.roles = userRole[req[r].user]]
  <2>1. req[r].user \in Users
    BY <1>0, <1>1 DEF ReadRoles, At, CalculationOK
  <2>2. userRole[req[r].user] \in SUBSET Roles
    BY <2>1 DEF TypeOK
  <2>3. q \in Request
    BY <1>0, <2>2 DEF Request, Steps
  <2>4. CalculationOK(q)
    BY <1>0, <2>1 DEF CalculationOK, Request
  <2>5. req' = [req EXCEPT ![r] = q]
    BY <1>1 DEF ReadRoles
  <2>6. QED
    BY <1>1, <2>3, <2>4, <2>5, CopyStep DEF ReadRoles, TypeOK, CacheFresh
<1>2. CASE QueryMenus(r)
  <2> DEFINE q == [req[r] EXCEPT !.pc = After(req[r].job),
                                 !.value = PermsOf(req[r].roles), !.roles = {}]
  <2>1. req[r].user \in Users /\ (~req[r].old => req[r].roles = userRole[req[r].user])
    BY <1>0, <1>2 DEF QueryMenus, At, CalculationOK
  <2>2. PermsOf(req[r].roles) \in PermList
    BY ListType
  <2>3. After(req[r].job) \in {"setToken", "online", "setPerms"}
    BY DEF After
  <2>4. q \in Request
    BY <1>0, <2>2, <2>3 DEF Request, Steps
  <2>5. /\ q.pc = After(req[r].job)
        /\ q.value = PermsOf(req[r].roles)
        /\ q.user = req[r].user
        /\ q.old = req[r].old
    BY <1>0 DEF Request
  <2>6. CalculationOK(q)
    BY <2>1, <2>2, <2>3, <2>5 DEF CalculationOK, Perms
  <2>7. req' = [req EXCEPT ![r] = q]
    BY <1>2 DEF QueryMenus
  <2>8. QED
    BY <1>2, <2>4, <2>6, <2>7, CopyStep DEF QueryMenus, TypeOK, CacheFresh
<1>3. CASE SetPerms(r)
  <2> DEFINE u == req[r].user
             n == [Idle EXCEPT !.pc = "each", !.job = "all", !.todo = req[r].todo]
             q == IF req[r].job = "all" THEN n ELSE Idle
  <2>1. u \in Users /\ req[r].value \in PermList /\ (~req[r].old => req[r].value = Perms(u))
    BY <1>0, <1>3 DEF SetPerms, At, CalculationOK
  <2>2. n \in Request
    BY <1>0, IdleFit DEF Request, Steps
  <2>3. CalculationOK(n)
    BY DEF CalculationOK, Idle
  <2>4. q \in Request /\ CalculationOK(q)
    BY <2>2, <2>3, IdleFit
  <2>5. req' = [req EXCEPT ![r] = q]
    BY <1>3 DEF SetPerms, Finished
  <2>6. /\ cache' = [cache EXCEPT ![u] = req[r].value]
        /\ stale' = IF req[r].old THEN stale \cup {u} ELSE stale \ {u}
    BY <1>3 DEF SetPerms
  <2>7. \A v \in Users : cache'[v] # NoList /\ v \notin stale' => cache'[v] = Perms(v)
    BY <2>1, <2>6 DEF TypeOK, CacheFresh
  <2>8. cache' \in [Users -> PermList \cup {NoList}] /\ stale' \subseteq Users
    BY <2>1, <2>6 DEF TypeOK
  <2>9. QED
    BY <1>3, <2>4, <2>5, <2>7, <2>8, CopyStep DEF SetPerms, TypeOK
<1>4. CASE LoginSetToken(r)
  <2> DEFINE u == req[r].user
             n == [req[r] EXCEPT !.pc = "setPerms"]
  <2>1. n \in Request
    BY <1>0 DEF Request, Steps
  <2>2. CalculationOK(n)
    BY <1>0, <1>4 DEF LoginSetToken, At, CalculationOK, Request
  <2>3. \/ req' = [req EXCEPT ![r] = Idle] /\ token' = token
        \/ req' = [req EXCEPT ![r] = n] /\ token' = [token EXCEPT ![u] = TRUE]
    BY <1>4 DEF LoginSetToken, Finished, Goto
  <2>4. token' \in [Users -> BOOLEAN]
    BY <2>3 DEF TypeOK
  <2>5. PICK q \in Request : CalculationOK(q) /\ req' = [req EXCEPT ![r] = q]
    BY <2>1, <2>2, <2>3, IdleFit
  <2>6. QED
    BY <1>4, <2>4, <2>5, CopyStep DEF LoginSetToken, TypeOK, CacheFresh
<1>5. CASE CheckOnline(r)
  <2> DEFINE n == [req[r] EXCEPT !.pc = "setPerms"]
             q == IF token[req[r].user] THEN n ELSE Idle
  <2>1. n \in Request
    BY <1>0 DEF Request, Steps
  <2>2. CalculationOK(n)
    BY <1>0, <1>5 DEF CheckOnline, At, CalculationOK, Request
  <2>3. q \in Request /\ CalculationOK(q)
    BY <2>1, <2>2, IdleFit
  <2>4. req' = [req EXCEPT ![r] = q]
    BY <1>5 DEF CheckOnline, Finished, Goto
  <2>5. QED
    BY <1>5, <2>3, <2>4, CopyStep DEF CheckOnline, TypeOK, CacheFresh
<1>6. CASE KeysTokens(r)
  <2> DEFINE q == [req[r] EXCEPT !.pc = "each", !.todo = {u \in Users : token[u]}]
  <2>1. q \in Request
    BY <1>0 DEF Request, Steps
  <2>2. CalculationOK(q)
    BY <1>0 DEF CalculationOK, Request
  <2>3. req' = [req EXCEPT ![r] = q]
    BY <1>6 DEF KeysTokens
  <2>4. QED
    BY <1>6, <2>1, <2>2, <2>3, CopyStep DEF KeysTokens, TypeOK, CacheFresh
<1>7. CASE Each(r)
  <2>1. CASE req' = Finished(r)
    BY <1>7, <2>1, IdleFit, CopyStep DEF Each, Finished, TypeOK, CacheFresh
  <2>2. ASSUME NEW u \in req[r].todo,
               req' = [req EXCEPT ![r].pc = "roles", ![r].user = u,
                                  ![r].todo = req[r].todo \ {u}]
        PROVE  IInv'
    <3> DEFINE q == [req[r] EXCEPT !.pc = "roles", !.user = u, !.todo = req[r].todo \ {u}]
    <3>1. u \in Users /\ req[r].todo \ {u} \in SUBSET Users
      BY <1>0 DEF Request
    <3>2. q \in Request
      BY <1>0, <3>1 DEF Request, Steps
    <3>3. CalculationOK(q)
      BY <1>0, <3>1 DEF CalculationOK, Request
    <3>4. req' = [req EXCEPT ![r] = q]
      BY <2>2
    <3>5. QED
      BY <1>7, <3>2, <3>3, <3>4, CopyStep DEF Each, TypeOK, CacheFresh
  <2>3. QED
    BY <1>7, <2>1, <2>2 DEF Each
<1>8. QED
  BY <1>1, <1>2, <1>3, <1>4, <1>5, <1>6, <1>7 DEF Copy

(* A write by a handler that leaves the slots as they are, or moves one     *)
(* request on, keeps the invariant.                                        *)
LEMMA WriteStep ==
  ASSUME IInv,
         userRole' \in [Users -> SUBSET Roles],
         roleRow' \subseteq Roles,
         roleMenu' \in [Roles -> SUBSET Menus],
         menu' \in [Menus -> {"on", "off", "gone"}],
         UNCHANGED <<token, cache>>,
         NEW r \in Requests, NEW q \in Request, CalculationOK(q),
         NEW next, next = req \/ next = [req EXCEPT ![r] = q],
         Commit(next)
  PROVE  IInv'
<1>1. next \in [Requests -> Request]
  BY DEF IInv, TypeOK
<1>2. \A p \in Requests : next[p] = req[p] \/ next[p] = q
  BY DEF IInv, TypeOK
<1>3. \A p \in Requests : CalculationOK(next[p])
  BY <1>2 DEF IInv, CalculationInv
<1>4. QED
  BY <1>1, <1>3, CommitStep

(* The second half of a handler that writes in two statements, and the two  *)
(* deletes of forbidden.                                                   *)
LEMMA HalfInv ==
  ASSUME IInv, NEW r \in Requests,
         GrantRoles(r) \/ RoleTx(r) \/ DelToken(r) \/ DelPerms(r)
  PROVE  IInv'
<1> USE DEF IInv
<1>0. req[r] \in Request /\ CalculationOK(req[r])
  BY DEF TypeOK, CalculationInv
<1>1. CASE GrantRoles(r)
  <2> DEFINE u == req[r].user
  <2>1. u \in Users /\ req[r].roles \in SUBSET Roles
    BY <1>0, <1>1 DEF GrantRoles, At, CalculationOK, Request
  <2>2. userRole' = IF userRole[u] \cap req[r].roles = {}
                    THEN [userRole EXCEPT ![u] = @ \cup req[r].roles] ELSE userRole
    BY <1>1 DEF GrantRoles
  <2>3. userRole' \in [Users -> SUBSET Roles]
    BY <2>1, <2>2 DEF TypeOK
  <2>4. Commit([req EXCEPT ![r] = Idle])
    BY <1>1 DEF GrantRoles, Finished
  <2>5. QED
    BY <1>1, <2>3, <2>4, IdleFit, WriteStep DEF GrantRoles, TypeOK
<1>2. CASE RoleTx(r)
  <2> DEFINE role == req[r].role
             n == [Idle EXCEPT !.pc = "keys", !.job = "all"]
  <2>1. CASE req' = Finished(r) /\ UNCHANGED <<tables, stale>>
    BY <1>2, <2>1, IdleFit, CopyStep DEF RoleTx, Finished, TypeOK, CacheFresh
  <2>2. CASE /\ roleMenu' = [x \in Roles |->
                  (roleMenu[x] \cup (IF x = role THEN req[r].add ELSE {})) \ req[r].drop]
             /\ UNCHANGED <<userRole, roleRow, menu>>
             /\ Commit(IF req[r].job = "all" THEN [req EXCEPT ![r] = n] ELSE Finished(r))
    <3> DEFINE q == IF req[r].job = "all" THEN n ELSE Idle
    <3>1. roleMenu' \in [Roles -> SUBSET Menus]
      <4>1. req[r].add \in SUBSET Menus
        BY <1>0 DEF Request
      <4>2. \A x \in Roles :
              (roleMenu[x] \cup (IF x = role THEN req[r].add ELSE {})) \ req[r].drop
                \in SUBSET Menus
        BY <4>1 DEF TypeOK
      <4>3. QED
        BY <2>2, <4>2
    <3>2. n \in Request /\ CalculationOK(n)
      BY DEF Request, Steps, Idle, CalculationOK
    <3>3. q \in Request /\ CalculationOK(q)
      BY <3>2, IdleFit
    <3>4. Commit([req EXCEPT ![r] = q])
      BY <2>2 DEF Finished
    <3>5. QED
      BY <1>2, <2>2, <3>1, <3>3, <3>4, WriteStep DEF RoleTx, TypeOK
  <2>3. QED
    BY <1>2, <2>1, <2>2, Zenon DEF RoleTx
<1>3. CASE DelToken(r)
  <2> DEFINE q == [req[r] EXCEPT !.pc = "delPerms"]
  <2>1. q \in Request
    BY <1>0 DEF Request, Steps
  <2>2. CalculationOK(q)
    BY <1>0, <1>3 DEF DelToken, At, CalculationOK, Request
  <2>3. req' = [req EXCEPT ![r] = q]
    BY <1>3 DEF DelToken, Goto
  <2>4. token' \in [Users -> BOOLEAN]
    BY <1>3 DEF DelToken, TypeOK
  <2>5. QED
    BY <1>3, <2>1, <2>2, <2>3, <2>4, CopyStep DEF DelToken, TypeOK, CacheFresh
<1>4. CASE DelPerms(r)
  <2>1. /\ cache' = [cache EXCEPT ![req[r].user] = NoList]
        /\ stale' = stale \ {req[r].user}
    BY <1>4 DEF DelPerms
  <2>2. \A v \in Users : cache'[v] # NoList /\ v \notin stale' => cache'[v] = Perms(v)
    BY <2>1 DEF TypeOK, CacheFresh
  <2>3. cache' \in [Users -> PermList \cup {NoList}] /\ stale' \subseteq Users
    BY <2>1 DEF TypeOK
  <2>4. QED
    BY <1>4, <2>2, <2>3, IdleFit, CopyStep DEF DelPerms, Finished, TypeOK
<1>5. QED
  BY <1>1, <1>2, <1>3, <1>4

(* The arrival of a request about users. *)
LEMMA UserHandlersInv == ASSUME IInv, NEW r \in Requests, UserHandlers(r) PROVE IInv'
<1> USE DEF IInv
<1>1. ASSUME NEW u \in Users, Login(r, u) PROVE IInv'
  <2> DEFINE q == [Idle EXCEPT !.pc = "roles", !.job = "login", !.user = u]
  <2>1. q \in Request /\ CalculationOK(q)
    BY DEF Request, Steps, Idle, CalculationOK
  <2>2. QED
    BY <1>1, <2>1, CopyStep DEF Login, TypeOK, CacheFresh
<1>2. ASSUME NEW u \in Users, Forbid(r, u) PROVE IInv'
  <2> DEFINE q == [Idle EXCEPT !.pc = "delToken", !.user = u]
  <2>1. q \in Request /\ CalculationOK(q)
    BY DEF Request, Steps, Idle, CalculationOK
  <2>2. QED
    BY <1>2, <2>1, CopyStep DEF Forbid, TypeOK, CacheFresh
<1>3. ASSUME NEW u \in Users, NEW rs \in SUBSET Roles, NEW id \in Users \cup {None},
             ReplaceRoles(r, u, rs, id)
      PROVE  IInv'
  <2> DEFINE n == [Idle EXCEPT !.pc = "roles", !.job = "one", !.user = id]
             q == IF id = None THEN Idle ELSE n
             next == IF id = None THEN req ELSE [req EXCEPT ![r] = n]
  <2>1. id # None => n \in Request /\ CalculationOK(n)
    BY DEF Request, Steps, Idle, CalculationOK
  <2>2. q \in Request /\ CalculationOK(q)
    BY <2>1, IdleFit
  <2>3. next = req \/ next = [req EXCEPT ![r] = q]
    OBVIOUS
  <2>4. Commit(next)
    BY <1>3 DEF ReplaceRoles
  <2>5. userRole' \in [Users -> SUBSET Roles]
    BY <1>3 DEF ReplaceRoles, TypeOK
  <2> HIDE DEF q, next
  <2>6. QED
    BY <1>3, <2>2, <2>3, <2>4, <2>5, WriteStep DEF ReplaceRoles, TypeOK
<1>4. ASSUME NEW u \in Users, NEW rs \in SUBSET Roles, AuthRole(r, u, rs) PROVE IInv'
  <2> DEFINE q == [Idle EXCEPT !.pc = "grant", !.user = u, !.roles = rs]
             next == IF rs = {} THEN req ELSE [req EXCEPT ![r] = q]
  <2>1. q \in Request /\ CalculationOK(q)
    BY DEF Request, Steps, Idle, CalculationOK
  <2>2. next = req \/ next = [req EXCEPT ![r] = q]
    OBVIOUS
  <2>3. Commit(next)
    BY <1>4 DEF AuthRole
  <2>4. userRole' \in [Users -> SUBSET Roles]
    BY <1>4 DEF AuthRole, TypeOK
  <2> HIDE DEF q, next
  <2>5. QED
    BY <1>4, <2>1, <2>2, <2>3, <2>4, WriteStep DEF AuthRole, TypeOK
<1>5. QED
  BY <1>1, <1>2, <1>3, <1>4 DEF UserHandlers, UserHandlersOn

(* The arrival of a request about roles. *)
LEMMA RoleHandlersInv == ASSUME IInv, NEW r \in Requests, RoleHandlers(r) PROVE IInv'
<1> USE DEF IInv
<1>1. ASSUME NEW us \in SUBSET Users, NEW role \in Roles,
             CancelAuth(r, us, role) \/ SelectAll(r, us, role)
      PROVE  IInv'
  <2>1. userRole' \in [Users -> SUBSET Roles]
    BY <1>1 DEF CancelAuth, SelectAll, TypeOK
  <2>2. Commit(req) /\ UNCHANGED <<roleRow, roleMenu, menu, token, cache>>
    BY <1>1 DEF CancelAuth, SelectAll
  <2>3. QED
    BY <2>1, <2>2, IdleFit, WriteStep DEF TypeOK
<1>2. ASSUME NEW role \in Roles, NEW ms \in SUBSET Menus, UpdateRole(r, role, ms)
      PROVE  IInv'
  <2> DEFINE q == [Idle EXCEPT !.pc = "roleTx", !.role = role,
                               !.add = ms \ roleMenu[role], !.drop = roleMenu[role] \ ms]
  <2>1. ms \ roleMenu[role] \in SUBSET Menus /\ roleMenu[role] \ ms \in SUBSET Menus
    BY DEF TypeOK
  <2>2. q \in Request /\ CalculationOK(q)
    BY <2>1 DEF Request, Steps, Idle, CalculationOK
  <2>3. QED
    BY <1>2, <2>2, CopyStep DEF UpdateRole, TypeOK, CacheFresh
<1>3. ASSUME NEW role \in Roles, NEW ms \in SUBSET Menus, UpdateEmptyRole(r, role, ms)
      PROVE  IInv'
  <2> DEFINE q == [Idle EXCEPT !.pc = "roleTx", !.job = "all", !.role = role, !.add = ms]
  <2>1. q \in Request /\ CalculationOK(q)
    BY DEF Request, Steps, Idle, CalculationOK
  <2>2. QED
    BY <1>3, <2>1, CopyStep DEF UpdateEmptyRole, TypeOK, CacheFresh
<1>4. ASSUME NEW role \in Roles, RemoveRole(r, role) PROVE IInv'
  BY <1>4, IdleFit, WriteStep DEF RemoveRole, TypeOK
<1>5. ASSUME NEW role \in Roles, DeleteUnusedRole(r, role) PROVE IInv'
  <2> DEFINE q == [Idle EXCEPT !.pc = "keys", !.job = "all"]
  <2>1. q \in Request /\ CalculationOK(q)
    BY DEF Request, Steps, Idle, CalculationOK
  <2>2. QED
    BY <1>5, <2>1, CopyStep DEF DeleteUnusedRole, TypeOK, CacheFresh
<1>6. QED
  BY <1>1, <1>2, <1>3, <1>4, <1>5 DEF RoleHandlers, RoleHandlersOn

(* The arrival of a request about menus. *)
LEMMA MenuHandlersInv == ASSUME IInv, NEW r \in Requests, MenuHandlers(r) PROVE IInv'
<1> USE DEF IInv
<1>1. ASSUME NEW m \in Menus, DeleteMenu(r, m) PROVE IInv'
  <2> DEFINE q == [Idle EXCEPT !.pc = "keys", !.job = "all"]
  <2>1. q \in Request /\ CalculationOK(q)
    BY DEF Request, Steps, Idle, CalculationOK
  <2>2. menu' \in [Menus -> {"on", "off", "gone"}]
    BY <1>1 DEF DeleteMenu, TypeOK
  <2>3. QED
    BY <1>1, <2>1, <2>2, WriteStep DEF DeleteMenu, TypeOK
<1>2. ASSUME NEW m \in Menus, NEW s \in {"on", "off", "gone"}, SetMenu(r, m, s) PROVE IInv'
  <2>1. menu' \in [Menus -> {"on", "off", "gone"}]
    BY <1>2 DEF SetMenu, TypeOK
  <2>2. QED
    BY <1>2, <2>1, IdleFit, WriteStep DEF SetMenu, TypeOK
<1>3. QED
  BY <1>1, <1>2 DEF MenuHandlers

(* Every step keeps the invariant. *)
LEMMA NextInv == IInv /\ [Next]_vars => IInv'
<1> SUFFICES ASSUME IInv, [Next]_vars PROVE IInv'
  OBVIOUS
<1>1. CASE UNCHANGED vars
  BY <1>1 DEF vars, tables, IInv, TypeOK, CalculationInv, CalculationOK, CacheFresh,
              Perms, PermsOf
<1>2. ASSUME NEW r \in Requests, Proceed(r) PROVE IInv'
  BY <1>2, CopyInv, HalfInv DEF Proceed
<1>3. ASSUME NEW r \in Requests, Abort(r) PROVE IInv'
  BY <1>3, IdleFit, CopyStep DEF Abort, Finished, IInv, TypeOK, CacheFresh
<1>4. ASSUME NEW u \in Users, TokenExpires(u) PROVE IInv'
  <2>1. TypeOK'
    BY <1>4 DEF TokenExpires, tables, IInv, TypeOK
  <2>2. CalculationInv' /\ CacheFresh'
    BY <1>4 DEF TokenExpires, tables, IInv, CalculationInv, CalculationOK, CacheFresh,
                Perms, PermsOf
  <2>3. QED
    BY <2>1, <2>2 DEF IInv
<1>5. QED
  BY <1>1, <1>2, <1>3, <1>4, UserHandlersInv, RoleHandlersInv, MenuHandlersInv DEF Next

(* The inductive invariant holds in every reachable state. *)
THEOREM Invariance == Spec => []IInv
  BY InitInv, NextInv, PTL DEF Spec

(* Every variable keeps its type: the tables, the keys and the slots.       *)
THEOREM TypeCorrect == Spec => []TypeOK
<1>1. IInv => TypeOK
  BY DEF IInv
<1>2. QED
  BY <1>1, Invariance, PTL

(* For any number of users, roles, menus and overlapping requests, crashes  *)
(* included: the permission key of a user nobody has marked as changed is   *)
(* what getPerms would calculate from the tables now.                      *)
THEOREM CacheIsFresh == Spec => []CacheFresh
<1>1. IInv => CacheFresh
  BY DEF IInv
<1>2. QED
  BY <1>1, Invariance, PTL

----------------------------------------------------------------------------
(* What holds while requests do not overlap and nothing fails.  Handlers of    *)
(* one statement take one step, so that this is said of the slots.           *)

OneSlot == ~Failures /\ \A r, s \in Requests : r = s

(* While everyone is refreshed, the users that are done have what the tables   *)
(* say, and nothing overtakes a calculation.                                *)
RefreshOK(r) ==
  /\ ~req[r].old
  /\ req[r].pc \in {"keys", "each"} => req[r].job = "all"
  /\ req[r].pc \in {"online", "setToken"} => req[r].job # "all"
  /\ req[r].job = "all" /\ req[r].pc \in {"each", "roles", "menus", "setPerms"} =>
       \A u \in Users \ req[r].todo :
         token[u] /\ (At(r, "each") \/ u # req[r].user) => cache[u] = Perms(u)

RefreshInv == \A r \in Requests : RefreshOK(r)

(* A request that has not begun to refresh everyone. *)
Starting(q) ==
  /\ ~q.old
  /\ q.pc \in {"idle", "roles", "grant", "roleTx", "keys", "delToken", "delPerms"}
  /\ q.pc = "keys" => q.job = "all"
  /\ q.pc = "roles" => q.job # "all"

(* Such a request claims nothing. *)
LEMMA StartStep ==
  ASSUME OneSlot, NEW r \in Requests, NEW q, req'[r] = q, Starting(q)
  PROVE  RefreshInv'
<1>1. RefreshOK(r)'
  BY DEF Starting, RefreshOK
<1>2. \A p \in Requests : p = r
  BY DEF OneSlot
<1> QED BY <1>1, <1>2 DEF RefreshInv

(* A write to the tables by a request that is alone marks no calculation.      *)
LEMMA CommitStart ==
  ASSUME OneSlot, NEW r \in Requests, NEW q \in Request, Starting(q), ~Calculating(q),
         NEW next, next[r] = q, Commit(next)
  PROVE  RefreshInv'
<1>1. req'[r] = [q EXCEPT !.old = @ \/ FALSE]
  <2>1. PICK b \in BOOLEAN :
          req'[r] = [next[r] EXCEPT !.old = @ \/ (Calculating(next[r]) /\ b)]
    BY DEF Commit
  <2> QED BY <2>1
<1> DEFINE p == req'[r]
<1>2. p = [q EXCEPT !.old = @ \/ FALSE]
  BY <1>1
<1> HIDE DEF p
<1>3. p.pc = q.pc /\ p.job = q.job /\ ~p.old
  BY <1>2 DEF Request, Starting
<1>4. Starting(p)
  BY <1>3 DEF Starting
<1> QED BY <1>4, StartStep DEF p

(* A request about to start, and the first step of each kind of request.       *)
LEMMA FirstSteps ==
  /\ Starting(Idle) /\ Idle \in Request
  /\ \A u \in Users : LET q == [Idle EXCEPT !.pc = "roles", !.job = "login", !.user = u]
                      IN  Starting(q) /\ q \in Request
  /\ \A u \in Users : LET q == [Idle EXCEPT !.pc = "roles", !.job = "one", !.user = u]
                      IN  Starting(q) /\ q \in Request /\ ~Calculating(q)
  /\ \A u \in Users, rs \in SUBSET Roles :
       LET q == [Idle EXCEPT !.pc = "grant", !.user = u, !.roles = rs]
       IN  Starting(q) /\ q \in Request /\ ~Calculating(q)
  /\ \A u \in Users : LET q == [Idle EXCEPT !.pc = "delToken", !.user = u]
                      IN  Starting(q) /\ q \in Request
  /\ LET q == [Idle EXCEPT !.pc = "keys", !.job = "all"]
     IN  Starting(q) /\ q \in Request /\ ~Calculating(q)
  /\ ~Calculating(Idle)
BY DEF Idle, Request, Steps, Starting, Calculating

(* The arrival of a request. *)
LEMMA ArrivalStep ==
  ASSUME TypeOK, OneSlot, RefreshInv, NEW r \in Requests,
         UserHandlers(r) \/ RoleHandlers(r) \/ MenuHandlers(r)
  PROVE  RefreshInv'
<1>0. req[r] \in Request /\ req \in [Requests -> Request]
  BY DEF TypeOK
<1>1. At(r, "idle")
  BY DEF UserHandlers, UserHandlersOn, Login, Forbid, ReplaceRoles, AuthRole, RoleHandlers, RoleHandlersOn, CancelAuth, SelectAll,
         UpdateRole, UpdateEmptyRole, RemoveRole, DeleteUnusedRole, MenuHandlers, DeleteMenu, SetMenu
<1>2. Starting(req[r]) /\ ~Calculating(req[r])
  BY <1>1 DEF RefreshInv, RefreshOK, Starting, Calculating, At
<1>3. ASSUME Commit(req) PROVE RefreshInv'
  BY <1>0, <1>2, <1>3, CommitStart
<1>4. ASSUME NEW q \in Request, Starting(q), ~Calculating(q), Commit([req EXCEPT ![r] = q])
      PROVE  RefreshInv'
  BY <1>0, <1>4, CommitStart
<1>5. ASSUME NEW q, Starting(q), req' = [req EXCEPT ![r] = q] PROVE RefreshInv'
  BY <1>0, <1>5, StartStep
<1>6. ASSUME NEW u \in Users, Login(r, u) \/ Forbid(r, u) PROVE RefreshInv'
  BY <1>5, <1>6, FirstSteps DEF Login, Forbid
<1>7. ASSUME NEW u \in Users, NEW rs \in SUBSET Roles, NEW id \in Users \cup {None},
             ReplaceRoles(r, u, rs, id)
      PROVE  RefreshInv'
  <2>1. CASE id = None
    BY <1>3, <1>7, <2>1 DEF ReplaceRoles
  <2>2. CASE id # None
    <3> DEFINE q == [Idle EXCEPT !.pc = "roles", !.job = "one", !.user = id]
    <3>1. Starting(q) /\ q \in Request /\ ~Calculating(q)
      BY <2>2, FirstSteps
    <3>2. Commit([req EXCEPT ![r] = q])
      BY <1>7, <2>2 DEF ReplaceRoles
    <3> HIDE DEF q
    <3> QED BY <1>4, <3>1, <3>2
  <2> QED BY <2>1, <2>2
<1>8. ASSUME NEW u \in Users, NEW rs \in SUBSET Roles, AuthRole(r, u, rs) PROVE RefreshInv'
  <2>1. CASE rs = {}
    BY <1>3, <1>8, <2>1 DEF AuthRole
  <2>2. CASE rs # {}
    <3> DEFINE q == [Idle EXCEPT !.pc = "grant", !.user = u, !.roles = rs]
    <3>1. Starting(q) /\ q \in Request /\ ~Calculating(q)
      BY FirstSteps
    <3>2. Commit([req EXCEPT ![r] = q])
      BY <1>8, <2>2 DEF AuthRole
    <3> HIDE DEF q
    <3> QED BY <1>4, <3>1, <3>2
  <2> QED BY <2>1, <2>2
<1>9. ASSUME NEW us \in SUBSET Users, NEW role \in Roles, CancelAuth(r, us, role) \/ SelectAll(r, us, role)
      PROVE  RefreshInv'
  BY <1>3, <1>9 DEF CancelAuth, SelectAll
<1>10. ASSUME NEW role \in Roles, NEW ms \in SUBSET Menus,
              UpdateRole(r, role, ms) \/ UpdateEmptyRole(r, role, ms)
       PROVE  RefreshInv'
  <2>1. PICK q : Starting(q) /\ req' = [req EXCEPT ![r] = q]
    BY <1>10 DEF UpdateRole, UpdateEmptyRole, Idle, Starting
  <2> QED BY <1>5, <2>1
<1>11. ASSUME NEW role \in Roles, RemoveRole(r, role) \/ DeleteUnusedRole(r, role)
       PROVE  RefreshInv'
  BY <1>3, <1>5, <1>11, FirstSteps DEF RemoveRole, DeleteUnusedRole
<1>12. ASSUME NEW m \in Menus, DeleteMenu(r, m) PROVE RefreshInv'
  <2> DEFINE q == [Idle EXCEPT !.pc = "keys", !.job = "all"]
  <2>1. Starting(q) /\ q \in Request /\ ~Calculating(q)
    BY FirstSteps
  <2>2. Commit([req EXCEPT ![r] = q])
    BY <1>12 DEF DeleteMenu
  <2> HIDE DEF q
  <2> QED BY <1>4, <2>1, <2>2
<1>13. ASSUME NEW m \in Menus, NEW s \in {"on", "off", "gone"}, SetMenu(r, m, s) PROVE RefreshInv'
  BY <1>3, <1>13 DEF SetMenu
<1> QED BY <1>6, <1>7, <1>8, <1>9, <1>10, <1>11, <1>12, <1>13
        DEF UserHandlers, UserHandlersOn, RoleHandlers, RoleHandlersOn, MenuHandlers

(* A request goes on. *)
LEMMA ProceedStep ==
  ASSUME TypeOK, CalculationInv, OneSlot, RefreshInv, NEW r \in Requests, Proceed(r)
  PROVE  RefreshInv'
<1>0. /\ req[r] \in Request /\ req \in [Requests -> Request]
      /\ RefreshOK(r) /\ \A p \in Requests : p = r
  BY DEF TypeOK, RefreshInv, OneSlot
<1>1. ASSUME NEW q, Starting(q), req' = [req EXCEPT ![r] = q] PROVE RefreshInv'
  BY <1>0, <1>1, StartStep
<1>2. ASSUME RefreshOK(r)' PROVE RefreshInv'
  BY <1>0, <1>2 DEF RefreshInv
<1>3. ASSUME UNCHANGED tables PROVE \A u \in Users : Perms(u)' = Perms(u)
  BY <1>3 DEF tables, Perms, PermsOf
<1>4. CASE ReadRoles(r)
  <2>1. /\ req'[r].pc = "menus" /\ req[r].pc = "roles"
        /\ req'[r].job = req[r].job /\ req'[r].user = req[r].user
        /\ req'[r].todo = req[r].todo /\ req'[r].old = req[r].old
    BY <1>0, <1>4 DEF ReadRoles, At, Request
  <2>2. UNCHANGED <<tables, token, cache>>
    BY <1>4 DEF ReadRoles
  <2> QED BY <1>0, <1>2, <1>3, <2>1, <2>2 DEF RefreshOK, At
<1>5. CASE QueryMenus(r)
  <2>1. /\ req'[r].pc = After(req[r].job) /\ req[r].pc = "menus"
        /\ req'[r].job = req[r].job /\ req'[r].user = req[r].user
        /\ req'[r].todo = req[r].todo /\ req'[r].old = req[r].old
    BY <1>0, <1>5 DEF QueryMenus, At, Request
  <2>2. UNCHANGED <<tables, token, cache>>
    BY <1>5 DEF QueryMenus
  <2>3. req'[r].pc \in {"setToken", "online", "setPerms"}
    BY <2>1 DEF After
  <2>4. CASE req[r].job = "all"
    <3>1. \A u \in Users \ req[r].todo : token[u] /\ u # req[r].user => cache[u] = Perms(u)
      BY <1>0, <2>1, <2>4 DEF RefreshOK
    <3>2. \A u \in Users \ req'[r].todo : token'[u] /\ u # req'[r].user => cache'[u] = Perms(u)'
      BY <1>3, <2>1, <2>2, <3>1
    <3>3. req'[r].pc = "setPerms"
      BY <2>1, <2>4 DEF After
    <3> QED BY <1>0, <1>2, <2>1, <3>2, <3>3 DEF RefreshOK, At
  <2>5. CASE req[r].job # "all"
    BY <1>0, <1>2, <2>1, <2>3, <2>5 DEF RefreshOK
  <2> QED BY <2>4, <2>5
<1>6. CASE SetPerms(r)
  <2>0. req[r].pc = "setPerms"
    BY <1>6 DEF SetPerms, At
  <2>1. CASE req[r].job = "all"
    <3>1. /\ req'[r].pc = "each" /\ req'[r].job = "all" /\ req'[r].todo = req[r].todo
          /\ ~req'[r].old
      BY <1>0, <1>6, <2>1 DEF SetPerms, Idle
    <3>2. req[r].user \in Users /\ req[r].value = Perms(req[r].user)
      BY <1>0, <2>0 DEF CalculationInv, CalculationOK, RefreshOK
    <3>3. cache' = [cache EXCEPT ![req[r].user] = req[r].value] /\ UNCHANGED <<tables, token>>
      BY <1>6 DEF SetPerms
    <3>4. \A u \in Users \ req[r].todo : token[u] => cache'[u] = Perms(u)
      BY <1>0, <2>0, <2>1, <3>2, <3>3 DEF RefreshOK, TypeOK, At
    <3>5. \A u \in Users \ req'[r].todo : token'[u] => cache'[u] = Perms(u)'
      BY <1>3, <3>1, <3>3, <3>4
    <3> QED BY <1>2, <3>1, <3>5 DEF RefreshOK
  <2>2. CASE req[r].job # "all"
    BY <1>1, <1>6, <2>2, FirstSteps DEF SetPerms, Finished
  <2> QED BY <2>1, <2>2
<1>7. CASE LoginSetToken(r) \/ CheckOnline(r)
  <2>1. CASE req' = Finished(r)
    BY <1>1, <2>1, FirstSteps DEF Finished
  <2>2. CASE req' = Goto(r, "setPerms")
    <3>1. req'[r].pc = "setPerms" /\ req'[r].job = req[r].job /\ req'[r].old = req[r].old
      BY <1>0, <2>2 DEF Goto, Request
    <3>2. req[r].job # "all"
      BY <1>0, <1>7 DEF LoginSetToken, CheckOnline, At, RefreshOK
    <3> QED BY <1>0, <1>2, <3>1, <3>2 DEF RefreshOK
  <2> QED BY <1>7, <2>1, <2>2 DEF LoginSetToken, CheckOnline
<1>8. CASE KeysTokens(r)
  <2>1. /\ req'[r].pc = "each" /\ req'[r].job = req[r].job /\ req'[r].old = req[r].old
        /\ req'[r].todo = {u \in Users : token[u]} /\ req[r].pc = "keys"
    BY <1>0, <1>8 DEF KeysTokens, At, Request
  <2>2. UNCHANGED token
    BY <1>8 DEF KeysTokens
  <2>3. \A u \in Users \ req'[r].todo : ~token'[u]
    BY <2>1, <2>2
  <2> QED BY <1>0, <1>2, <2>1, <2>3 DEF RefreshOK
<1>9. CASE Each(r)
  <2>0. UNCHANGED <<tables, token, cache>> /\ req[r].pc = "each" /\ req[r].job = "all"
    BY <1>0, <1>9 DEF Each, At, RefreshOK
  <2>1. CASE req' = Finished(r)
    BY <1>1, <2>1, FirstSteps DEF Finished
  <2>2. ASSUME NEW u \in req[r].todo,
               req' = [req EXCEPT ![r].pc = "roles", ![r].user = u, ![r].todo = req[r].todo \ {u}]
        PROVE  RefreshInv'
    <3> DEFINE x == req[r]
               y == req'[r]
    <3>1. y = [x EXCEPT !.pc = "roles", !.user = u, !.todo = x.todo \ {u}] /\ x \in Request
      BY <1>0, <2>2
    <3> HIDE DEF x, y
    <3>2. y.pc = "roles" /\ y.job = x.job /\ y.user = u /\ y.todo = x.todo \ {u} /\ y.old = x.old
      BY <3>1 DEF Request
    <3>3. /\ req'[r].pc = "roles" /\ req'[r].job = "all" /\ req'[r].user = u
          /\ req'[r].todo = req[r].todo \ {u} /\ req'[r].old = req[r].old
      BY <2>0, <3>2 DEF x, y
    <3>4. \A v \in Users \ req'[r].todo : token[v] /\ v # u => cache[v] = Perms(v)
      BY <1>0, <2>0, <3>3 DEF RefreshOK, At
    <3>5. \A v \in Users \ req'[r].todo : token'[v] /\ v # u => cache'[v] = Perms(v)'
      BY <1>3, <2>0, <3>4
    <3> QED BY <1>0, <1>2, <3>3, <3>5 DEF RefreshOK, At
  <2> QED BY <1>9, <2>1, <2>2 DEF Each
<1>10. CASE GrantRoles(r)
  <2>1. Commit([req EXCEPT ![r] = Idle])
    BY <1>10 DEF GrantRoles, Finished
  <2> QED BY <1>0, <2>1, FirstSteps, CommitStart
<1>11. CASE RoleTx(r)
  <2> DEFINE n == [Idle EXCEPT !.pc = "keys", !.job = "all"]
             q == IF req[r].job = "all" THEN n ELSE Idle
  <2>1. CASE req' = Finished(r)
    BY <1>1, <2>1, FirstSteps DEF Finished
  <2>2. CASE Commit(IF req[r].job = "all" THEN [req EXCEPT ![r] = n] ELSE Finished(r))
    <3>1. Starting(q) /\ q \in Request /\ ~Calculating(q)
      BY FirstSteps
    <3>2. Commit([req EXCEPT ![r] = q])
      BY <2>2 DEF Finished
    <3> HIDE DEF q
    <3> QED BY <1>0, <3>1, <3>2, CommitStart
  <2> QED BY <1>11, <2>1, <2>2, Zenon DEF RoleTx
<1>12. CASE DelToken(r)
  <2>1. req'[r].pc = "delPerms" /\ req'[r].old = req[r].old
    BY <1>0, <1>12 DEF DelToken, Goto, Request
  <2> QED BY <1>0, <1>2, <2>1 DEF RefreshOK
<1>13. CASE DelPerms(r)
  BY <1>1, <1>13, FirstSteps DEF DelPerms, Finished
<1> QED BY <1>4, <1>5, <1>6, <1>7, <1>8, <1>9, <1>10, <1>11, <1>12, <1>13 DEF Proceed, Copy

(* Every step keeps the invariant. *)
LEMMA RefreshStep == OneSlot /\ IInv /\ RefreshInv /\ [Next]_vars => RefreshInv'
<1> SUFFICES ASSUME OneSlot, IInv, RefreshInv, [Next]_vars PROVE RefreshInv'
  OBVIOUS
<1>1. ASSUME NEW u \in Users, TokenExpires(u) PROVE RefreshInv'
  <2>1. UNCHANGED <<tables, cache, req>>
    BY <1>1 DEF TokenExpires
  <2>2. \A v \in Users : Perms(v)' = Perms(v)
    BY <2>1 DEF tables, Perms, PermsOf
  <2>3. \A v \in Users : token'[v] => token[v]
    BY <1>1 DEF TokenExpires, IInv, TypeOK
  <2> QED BY <2>1, <2>2, <2>3 DEF RefreshInv, RefreshOK, At
<1>2. CASE UNCHANGED vars
  <2>1. \A v \in Users : Perms(v)' = Perms(v)
    BY <1>2 DEF vars, tables, Perms, PermsOf
  <2> QED BY <1>2, <2>1 DEF vars, RefreshInv, RefreshOK, At
<1>3. ASSUME NEW r \in Requests, Abort(r) PROVE RefreshInv'
  BY <1>3 DEF Abort, OneSlot
<1> QED BY <1>1, <1>2, <1>3, ArrivalStep, ProceedStep DEF Next, IInv

(* While requests do not overlap and nothing fails, refreshOnlineUserPerms      *)
(* leaves every online user the permissions of the tables, for any number of *)
(* users, roles and menus and whoever goes offline meanwhile.               *)
THEOREM RefreshesReachAll ==
  ASSUME OneSlot
  PROVE  Spec => RefreshRefreshes
<1>1. Init => RefreshInv
  BY DEF Init, Idle, RefreshInv, RefreshOK
<1>2. IInv /\ RefreshInv /\ [Next]_vars => RefreshInv'
  BY RefreshStep
<1>3. IInv /\ RefreshInv /\ [Next]_vars => [Refreshed]_vars
  <2> SUFFICES ASSUME IInv, RefreshInv, Next, NEW r \in Requests, At(r, "each"),
                      req'[r].pc = "idle"
               PROVE  \A u \in Users : token[u] => cache[u] = Perms(u)
    BY DEF Refreshed
  <2>1. Each(r)
    <3>1. ASSUME NEW s \in Requests,
                 UserHandlers(s) \/ RoleHandlers(s) \/ MenuHandlers(s) \/ Proceed(s) \/ Abort(s)
          PROVE  Each(r)
      <4>1. s = r
        BY DEF OneSlot
      <4> QED BY <3>1, <4>1
          DEF OneSlot, At, Proceed, Copy, ReadRoles, QueryMenus, SetPerms, LoginSetToken,
              CheckOnline, KeysTokens, GrantRoles, RoleTx, DelToken, DelPerms, Abort,
              UserHandlers, UserHandlersOn, Login, Forbid, ReplaceRoles, AuthRole, RoleHandlers, RoleHandlersOn, CancelAuth,
              SelectAll, UpdateRole, UpdateEmptyRole, RemoveRole, DeleteUnusedRole,
              MenuHandlers, DeleteMenu, SetMenu
    <3>2. ASSUME NEW u \in Users, TokenExpires(u) PROVE FALSE
      BY <3>2 DEF TokenExpires, At
    <3> QED BY <3>1, <3>2 DEF Next
  <2>2. req[r].todo = {}
    <3>1. req[r] \in Request /\ req \in [Requests -> Request]
      BY DEF IInv, TypeOK
    <3>2. ASSUME NEW u, req' = [req EXCEPT ![r].pc = "roles", ![r].user = u,
                                           ![r].todo = req[r].todo \ {u}]
          PROVE  req'[r].pc = "roles"
      BY <3>1, <3>2 DEF Request
    <3> QED BY <2>1, <3>2 DEF Each
  <2> QED BY <2>2 DEF RefreshInv, RefreshOK, At
<1> QED BY <1>1, <1>2, <1>3, Invariance, PTL DEF Spec, RefreshRefreshes

=============================================================================
