------------------------- MODULE UserAdmin_proofs -------------------------
(***************************************************************************)
(* Proofs about UserAdmin, for any names, phone numbers, roles, posts and  *)
(* slots.                                                                  *)
(***************************************************************************)
EXTENDS UserAdmin, TLAPS

(* An empty slot is well formed. *)
LEMMA IdleFit == Idle \in Request /\ RequestOK(Idle)
  BY DEF Idle, Request, RequestOK

(* Marking a request keeps its type and its other fields. *)
LEMMA SetOld ==
  ASSUME NEW q \in Request, NEW b \in BOOLEAN, NEW p, p = [q EXCEPT !.old = b]
  PROVE  /\ p \in Request
         /\ p.old = b /\ p.pc = q.pc /\ p.user = q.user
         /\ p.name = q.name /\ p.phone = q.phone
         /\ p.roles = q.roles /\ p.posts = q.posts /\ p.gone = q.gone
  BY DEF Request

(* Who is deleting whom. *)
Deleting(q, u) == q.pc \in {"delRoles", "delPosts"} /\ u \in q.gone

(* What Commit does to a slot: only the history flag may change, and a slot *)
(* that nothing marks was not overtaken.                                   *)
LEMMA CommitSlots ==
  ASSUME NEW after \in [Requests -> Request], Commit(after)
  PROVE  /\ req' \in [Requests -> Request]
         /\ \A r \in Requests :
              /\ req'[r].pc = after[r].pc /\ req'[r].user = after[r].user
              /\ req'[r].name = after[r].name /\ req'[r].phone = after[r].phone
              /\ req'[r].gone = after[r].gone
              /\ ~req'[r].old => ~after[r].old /\ ~Overtaken(after[r])
<1> DEFINE old(r) == after[r].old \/ Overtaken(after[r])
<1>1. req' = [r \in Requests |-> [after[r] EXCEPT !.old = old(r)]]
  BY Zenon DEF Commit
<1> HIDE DEF old
<1>2. \A r \in Requests : old(r) \in BOOLEAN
  BY DEF old, Request
<1>3. ASSUME NEW r \in Requests
      PROVE  /\ req'[r] \in Request
             /\ req'[r].old = old(r)
             /\ req'[r].pc = after[r].pc /\ req'[r].user = after[r].user
             /\ req'[r].name = after[r].name /\ req'[r].phone = after[r].phone
             /\ req'[r].gone = after[r].gone
  <2>1. after[r] \in Request /\ old(r) \in BOOLEAN /\ req'[r] = [after[r] EXCEPT !.old = old(r)]
    BY <1>1, <1>2
  <2>2. QED
    BY <2>1, SetOld
<1>4. req' \in [Requests -> Request]
  <2>1. req' = [r \in Requests |-> req'[r]]
    BY <1>1
  <2>2. QED
    BY <1>3, <2>1
<1>5. \A r \in Requests : ~old(r) => ~after[r].old /\ ~Overtaken(after[r])
  BY DEF old
<1>6. QED
  BY <1>3, <1>4, <1>5

(* A step that changes one slot and no table. *)
LEMMA SlotStep ==
  ASSUME IInv, UNCHANGED <<accounts, roles, posts, history>>,
         NEW r \in Requests, NEW q \in Request, RequestOK(q),
         req' = [req EXCEPT ![r] = q],
         \A u \in Users : Deleting(req[r], u) => Deleting(q, u)
  PROVE  IInv'
<1>1. \A p \in Requests : req'[p] = IF p = r THEN q ELSE req[p]
  BY DEF IInv, TypeOK
<1>2. TypeOK'
  BY DEF IInv, TypeOK, accounts, history, Given, Exists
<1>3. \A p \in Requests : RequestOK(req'[p])
  BY <1>1 DEF IInv
<1>4. \A p \in Requests : RequestOK(req[p])'
  BY <1>3 DEF RequestOK, accounts, Given, Exists
<1>5. PostsHaveUser'
  <2> SUFFICES ASSUME NEW u \in Users, posts[u] # {}, ~Exists(u), u \notin cut
               PROVE  \E p \in Requests : Deleting(req'[p], u)
    BY DEF PostsHaveUser, accounts, history, Exists, Deleting
  <2>1. PICK p \in Requests : Deleting(req[p], u)
    BY DEF IInv, PostsHaveUser, Deleting
  <2>2. Deleting(req'[p], u)
    BY <1>1, <2>1
  <2>3. QED
    BY <2>2
<1>6. QED
  BY <1>2, <1>4, <1>5 DEF IInv, accounts, Given, RootStays, Exists

(* The invariant holds at the start. *)
LEMMA InitInv == Init => IInv
<1> SUFFICES ASSUME Init PROVE IInv
  OBVIOUS
<1>1. PICK n \in Names : name = [u \in Users |-> IF u = Root THEN n ELSE None]
  BY DEF Init
<1>2. Root \in Users /\ n # None
  BY BoundAssumption, NoneAssumption DEF Root, Users
<1>3. Root \in Given /\ \A u \in Users \ Given : u # Root
  BY <1>2 DEF Init, Given, Root
<1>4. name \in [Users -> Names \cup {None}]
  BY <1>1
<1>5. TypeOK
  <2>1. next \in 1 .. MaxUser + 1
    BY BoundAssumption DEF Init
  <2>2. \A u \in Users \ Given : name[u] = None /\ roles[u] = {} /\ posts[u] = {}
    BY <1>1, <1>3 DEF Init
  <2>3. QED
    BY <1>4, <2>1, <2>2, IdleFit DEF Init, TypeOK
<1>6. RootStays
  BY <1>1, <1>2 DEF RootStays, Exists
<1>7. PostsHaveUser
  BY <1>6 DEF Init, PostsHaveUser, RootStays
<1>8. QED
  BY <1>3, <1>5, <1>6, <1>7, IdleFit DEF Init, IInv

(* A step that writes the tables by Commit: nobody who is gone comes back,  *)
(* and nobody who is gone is given posts.                                  *)
LEMMA CommitStep ==
  ASSUME IInv,
         NEW after \in [Requests -> Request], Commit(after),
         \A p \in Requests : RequestOK(after[p]),
         \A p \in Requests, u \in Users : Deleting(req[p], u) => Deleting(after[p], u),
         next' \in 1 .. MaxUser + 1, next' >= next, cut' = cut, raced' \in SUBSET Users,
         name' \in [Users -> Names \cup {None}], phone' \in [Users -> Phones \cup {None}],
         roles' \in [Users -> SUBSET Roles], posts' \in [Users -> SUBSET Posts],
         \A u \in Users : u >= next' => name'[u] = None /\ roles'[u] = {} /\ posts'[u] = {},
         \A u \in Given : name'[u] = None <=> name[u] = None,
         \A u \in Users : name'[u] = None => phone'[u] = None,
         \A u \in Users : name'[u] = None /\ posts'[u] # {} => posts[u] # {} /\ ~Exists(u)
  PROVE  IInv'
<1>0. TypeOK
  BY DEF IInv
<1>1. /\ req' \in [Requests -> Request]
      /\ \A r \in Requests :
           /\ req'[r].pc = after[r].pc /\ req'[r].user = after[r].user
           /\ req'[r].name = after[r].name /\ req'[r].gone = after[r].gone
           /\ ~req'[r].old => ~after[r].old /\ ~Overtaken(after[r])
  BY CommitSlots
<1>2. \A u \in Given : u \in Given'
  BY <1>0 DEF TypeOK, Given, Users
<1>3. TypeOK'
  <2>1. \A u \in Users : u \notin Given' => u >= next'
    BY DEF Given, Users
  <2>2. QED
    BY <1>0, <1>1, <2>1 DEF TypeOK, Exists
<1>4. ASSUME NEW r \in Requests PROVE RequestOK(req[r])'
  <2>1. RequestOK(after[r])
    OBVIOUS
  <2>2. ASSUME req'[r].pc = "grant", ~req'[r].old PROVE roles'[req'[r].user] = {}
    BY <1>1, <2>1, <2>2 DEF RequestOK, Overtaken
  <2>3. ASSUME req'[r].pc \in {"delRoles", "delPosts"}
        PROVE  Root \notin req'[r].gone /\ \A u \in req'[r].gone : u \in Given' /\ name'[u] = None
    BY <1>1, <1>2, <2>1, <2>3 DEF RequestOK, Exists
  <2>4. QED
    BY <1>1, <1>2, <2>1, <2>2, <2>3 DEF RequestOK, Exists
<1>5. PostsHaveUser'
  <2> SUFFICES ASSUME NEW u \in Users, posts'[u] # {}, name'[u] = None, u \notin cut
               PROVE  \E p \in Requests : Deleting(req'[p], u)
    BY DEF PostsHaveUser, Exists, Deleting
  <2>1. PICK p \in Requests : Deleting(req[p], u)
    BY DEF IInv, PostsHaveUser, Deleting
  <2>2. Deleting(after[p], u)
    BY <2>1
  <2>3. QED
    BY <1>1, <2>2 DEF Deleting
<1>6. Root \in Given' /\ RootStays'
  BY <1>2 DEF IInv, RootStays, Exists
<1>7. QED
  BY <1>3, <1>4, <1>5, <1>6 DEF IInv

(* Requests arriving. *)
LEMMA ArriveInv == ASSUME IInv, NEW r \in Requests, Arrive(r) PROVE IInv'
<1>0. TypeOK /\ req[r] \in Request /\ \A p \in Requests : RequestOK(req[p])
  BY DEF IInv, TypeOK
<1>1. ASSUME At(r, "idle") PROVE \A u \in Users : ~Deleting(req[r], u)
  BY <1>1 DEF At, Deleting
<1>2. ASSUME NEW n \in Names, NEW p \in Phones \cup {None}, NEW rs \in SUBSET Roles,
             NEW ps \in SUBSET Posts, Create(r, n, p, rs, ps)
      PROVE  IInv'
  <2> DEFINE q == [Idle EXCEPT !.pc = IF p = None THEN "createTx" ELSE "createPhone",
                               !.name = n, !.phone = p, !.roles = rs, !.posts = ps]
  <2>1. q \in Request /\ RequestOK(q)
    BY DEF Idle, Request, Steps, RequestOK
  <2>2. QED
    BY <1>1, <1>2, <2>1, SlotStep DEF Create
<1>3. ASSUME NEW n \in Names, NEW p \in Phones \cup {None}, NEW rs \in SUBSET Roles,
             NEW ps \in SUBSET Posts, NEW u \in Users, Update(r, u, n, p, rs, ps)
      PROVE  IInv'
  <2> DEFINE q == [Idle EXCEPT !.pc = IF p = None THEN "updateTx" ELSE "updatePhone",
                               !.user = u, !.name = n, !.phone = p,
                               !.roles = rs, !.posts = ps]
  <2>1. q \in Request /\ RequestOK(q)
    BY <1>3 DEF Update, Idle, Request, Steps, RequestOK
  <2>2. QED
    BY <1>1, <1>3, <2>1, SlotStep DEF Update
<1>4. ASSUME NEW us \in SUBSET Given, Delete(r, us) PROVE IInv'
  <2> DEFINE q == [Idle EXCEPT !.pc = "delRoles", !.gone = us]
  <2>1. us \subseteq Users
    BY DEF Given
  <2>2. q \in Request
    BY <2>1 DEF Idle, Request, Steps
  <2>3. q.pc = "delRoles" /\ q.gone = us
    BY DEF Idle
  <2>4. /\ \A u \in us : name'[u] = None
        /\ \A u \in Users : name'[u] # None => name[u] # None
        /\ \A u \in Users \ us : name'[u] = name[u]
    BY <1>0, <1>4, <2>1 DEF Delete, TypeOK
  <2>5. \A p \in Requests : req'[p] = IF p = r THEN q ELSE req[p]
    BY <1>0, <1>4 DEF Delete, TypeOK
  <2>6. TypeOK'
    BY <1>0, <1>4, <2>2, <2>4 DEF Delete, TypeOK, Given, Exists, history
  <2>7. ASSUME NEW p \in Requests PROVE RequestOK(req[p])'
    <3>1. CASE p = r
      BY <1>4, <2>3, <2>4, <2>5, <3>1 DEF Delete, RequestOK, Exists, Given
    <3>2. CASE p # r
      <4>1. req'[p] = req[p] /\ RequestOK(req[p])
        BY <1>0, <2>5, <3>2
      <4>2. next' = next /\ roles' = roles
        BY <1>4 DEF Delete
      <4>3. \A u \in Given : ~Exists(u) => name'[u] = None
        BY <2>4 DEF Exists, Given
      <4>4. QED
        BY <4>1, <4>2, <4>3 DEF RequestOK, Exists, Given
    <3>3. QED
      BY <3>1, <3>2
  <2>8. PostsHaveUser'
    <3> SUFFICES ASSUME NEW u \in Users, posts[u] # {}, name'[u] = None, u \notin cut
                 PROVE  \E p \in Requests : Deleting(req'[p], u)
      BY <1>4 DEF Delete, PostsHaveUser, Exists, Deleting, history
    <3>1. CASE u \in us
      BY <2>3, <2>5, <3>1 DEF Deleting
    <3>2. CASE u \notin us
      <4>1. PICK p \in Requests : Deleting(req[p], u)
        BY <2>4, <3>2 DEF IInv, PostsHaveUser, Deleting, Exists
      <4>2. p # r
        BY <1>1, <1>4, <4>1 DEF Delete
      <4>3. QED
        BY <2>5, <4>1, <4>2
    <3>3. QED
      BY <3>1, <3>2
  <2>9. Root \in Given' /\ RootStays'
    BY <1>4, <2>4 DEF Delete, IInv, Given, RootStays, Exists
  <2>10. QED
    BY <2>6, <2>7, <2>8, <2>9 DEF IInv
<1>5. ASSUME NEW u \in Users, NEW rs \in SUBSET Roles, AuthRole(r, u, rs) PROVE IInv'
  <2> DEFINE mine == [Idle EXCEPT !.pc = "grant", !.user = u, !.roles = rs]
             old(p) == req[p].old \/ Overtaken(req[p])
  <2>1. mine \in Request /\ mine.pc = "grant" /\ mine.user = u
    BY DEF Idle, Request, Steps
  <2>2. req' = [p \in Requests |-> IF p = r THEN IF rs = {} THEN Idle ELSE mine
                                   ELSE [req[p] EXCEPT !.old = old(p)]]
    BY <1>5, Zenon DEF AuthRole
  <2>3. /\ u \in Given
        /\ roles' = [roles EXCEPT ![u] = {}]
        /\ UNCHANGED <<accounts, posts, cut, raced>>
        /\ At(r, "idle")
    BY <1>5 DEF AuthRole, history
  <2> HIDE DEF mine, old
  <2>4. \A p \in Requests : old(p) \in BOOLEAN
    BY <1>0 DEF old, Request, TypeOK
  <2>5. ASSUME NEW p \in Requests, p # r
        PROVE  /\ req'[p] \in Request
               /\ req'[p].old = old(p) /\ req'[p].pc = req[p].pc
               /\ req'[p].user = req[p].user /\ req'[p].name = req[p].name
               /\ req'[p].gone = req[p].gone
    <3>1. req[p] \in Request /\ old(p) \in BOOLEAN /\ req'[p] = [req[p] EXCEPT !.old = old(p)]
      BY <1>0, <2>2, <2>4, <2>5 DEF TypeOK
    <3>2. QED
      BY <3>1, SetOld
  <2>6. req'[r] = IF rs = {} THEN Idle ELSE mine
    BY <2>2
  <2>7. TypeOK'
    <3>1. req' = [p \in Requests |-> req'[p]]
      BY <2>2
    <3>2. req' \in [Requests -> Request]
      BY <2>1, <2>5, <2>6, <3>1, IdleFit
    <3>3. QED
      BY <1>0, <2>3, <3>2 DEF TypeOK, accounts, Given, Exists
  <2>8. roles'[u] = {} /\ \A v \in Users : v # u => roles'[v] = roles[v]
    BY <1>0, <2>3 DEF TypeOK
  <2>9. ASSUME NEW p \in Requests PROVE RequestOK(req[p])'
    <3>1. CASE p = r
      BY <2>1, <2>3, <2>6, <2>8, <3>1 DEF RequestOK, Idle, accounts, Given
    <3>2. CASE p # r
      <4>1. RequestOK(req[p])
        BY <1>0
      <4>2. ASSUME req[p].pc = "grant", ~req'[p].old PROVE roles'[req[p].user] = {}
        <5>1. ~req[p].old /\ ~Overtaken(req[p])
          BY <2>5, <3>2, <4>2 DEF old
        <5>2. roles[req[p].user] = {}
          BY <4>1, <4>2, <5>1 DEF RequestOK
        <5>3. QED
          BY <4>2, <5>1, <5>2 DEF Overtaken
      <4>3. QED
        BY <2>3, <2>5, <3>2, <4>1, <4>2 DEF RequestOK, accounts, Given, Exists
    <3>3. QED
      BY <3>1, <3>2
  <2>10. PostsHaveUser'
    <3> SUFFICES ASSUME NEW v \in Users, posts[v] # {}, ~Exists(v), v \notin cut
                 PROVE  \E p \in Requests : Deleting(req'[p], v)
      BY <2>3 DEF PostsHaveUser, Exists, Deleting, accounts
    <3>1. PICK p \in Requests : Deleting(req[p], v)
      BY DEF IInv, PostsHaveUser, Deleting
    <3>2. p # r
      BY <1>1, <2>3, <3>1
    <3>3. QED
      BY <2>5, <3>1, <3>2 DEF Deleting
  <2>11. QED
    BY <2>3, <2>7, <2>9, <2>10 DEF IInv, accounts, Given, RootStays, Exists
<1>6. ASSUME NEW us \in SUBSET Given, NEW role \in Roles,
             CancelAuth(r, us, role) \/ SelectAll(r, us, role)
      PROVE  IInv'
  <2>1. UNCHANGED <<next, name, phone, posts, cut, raced>> /\ Commit(req)
    BY <1>6 DEF CancelAuth, SelectAll, accounts, history
  <2>2. roles' \in [Users -> SUBSET Roles] /\ \A u \in Users \ Given : roles'[u] = roles[u]
    BY <1>0, <1>6 DEF CancelAuth, SelectAll, TypeOK
  <2>3. next' >= next /\ \A u \in Users : u >= next' => u \notin Given
    BY <1>0, <2>1, BoundAssumption DEF TypeOK, Given, Users
  <2>4. \A u \in Users : u >= next' => name'[u] = None /\ roles'[u] = {} /\ posts'[u] = {}
    BY <1>0, <2>1, <2>2, <2>3 DEF TypeOK
  <2>5. QED
    BY <1>0, <2>1, <2>2, <2>3, <2>4, CommitStep DEF TypeOK, Exists
<1>7. QED
  BY <1>2, <1>3, <1>4, <1>5, <1>6 DEF Arrive

(* Requests going on. *)
LEMMA ProceedInv == ASSUME IInv, NEW r \in Requests, Proceed(r) PROVE IInv'
<1>0. TypeOK /\ req[r] \in Request /\ RequestOK(req[r]) /\ \A p \in Requests : RequestOK(req[p])
  BY DEF IInv, TypeOK
<1>a. \A u \in Users : u < next <=> u \in Given
  BY DEF Given
<1>b. next \in 1 .. MaxUser + 1 /\ \A u \in Users : u >= next => u \notin Given
  BY <1>0, BoundAssumption DEF TypeOK, Given, Users
<1>1. ASSUME req[r].pc \notin {"delRoles", "delPosts"}, req' = Finished(r),
             UNCHANGED <<accounts, roles, posts, history>>
      PROVE  IInv'
  <2>1. \A u \in Users : ~Deleting(req[r], u)
    BY <1>1 DEF Deleting
  <2>2. QED
    BY <1>1, <2>1, IdleFit, SlotStep DEF Finished
<1>2. ASSUME req[r].pc \notin {"delRoles", "delPosts"}
      PROVE  /\ Finished(r) \in [Requests -> Request]
             /\ \A p \in Requests : RequestOK(Finished(r)[p])
             /\ \A p \in Requests, u \in Users :
                  Deleting(req[p], u) => Deleting(Finished(r)[p], u)
  <2>1. \A p \in Requests : Finished(r)[p] = IF p = r THEN Idle ELSE req[p]
    BY <1>0 DEF Finished, TypeOK
  <2>2. Finished(r) \in [Requests -> Request]
    BY <1>0, IdleFit DEF Finished, TypeOK
  <2>3. QED
    BY <1>0, <1>2, <2>1, <2>2, IdleFit DEF Deleting
<1>3. ASSUME NEW step \in {"createTx", "updateTx"}, req' = Goto(r, step),
             req[r].pc = (IF step = "createTx" THEN "createPhone" ELSE "updatePhone"),
             UNCHANGED <<accounts, roles, posts, history>>
      PROVE  IInv'
  <2> DEFINE q == [req[r] EXCEPT !.pc = step]
  <2>1. q \in Request /\ RequestOK(q)
    BY <1>0, <1>3 DEF Request, Steps, RequestOK
  <2>2. \A u \in Users : ~Deleting(req[r], u)
    BY <1>3 DEF Deleting
  <2>3. QED
    BY <1>3, <2>1, <2>2, SlotStep DEF Goto
<1>4. CASE CreatePhone(r)
  BY <1>1, <1>3, <1>4 DEF CreatePhone, At
<1>5. CASE UpdatePhone(r)
  BY <1>1, <1>3, <1>5 DEF UpdatePhone, At
<1>6. CASE CreateTx(r)
  <2>1. req[r].pc = "createTx" /\ cut' = cut /\ req[r].name \in Names
    BY <1>0, <1>6 DEF CreateTx, At, RequestOK
  <2>2. CASE next \notin Users
    BY <1>1, <1>6, <2>1, <2>2 DEF CreateTx, history
  <2>3. CASE next \in Users
    <3>1. /\ next'  = next + 1
          /\ name'  = [name EXCEPT ![next] = req[r].name]
          /\ phone' = [phone EXCEPT ![next] = req[r].phone]
          /\ roles' = [roles EXCEPT ![next] = roles[next] \cup req[r].roles]
          /\ posts' = [posts EXCEPT ![next] = posts[next] \cup req[r].posts]
          /\ Commit(Finished(r)) /\ Mark(r, next)
      BY <1>6, <2>3 DEF CreateTx
    <3>2. next' \in 1 .. MaxUser + 1 /\ next' >= next
      BY <1>b, <2>3, <3>1, BoundAssumption DEF Users
    <3>3. /\ name' \in [Users -> Names \cup {None}] /\ phone' \in [Users -> Phones \cup {None}]
          /\ roles' \in [Users -> SUBSET Roles] /\ posts' \in [Users -> SUBSET Posts]
      BY <1>0, <2>1, <2>3, <3>1 DEF TypeOK, Request
    <3>4. \A u \in Users : u # next =>
            name'[u] = name[u] /\ roles'[u] = roles[u] /\ posts'[u] = posts[u]
      BY <1>0, <3>1 DEF TypeOK
    <3>5. name'[next] \in Names /\ name'[next] # None
      BY <1>0, <2>1, <2>3, <3>1, NoneAssumption DEF TypeOK
    <3>6. \A u \in Users : u >= next' => name'[u] = None /\ roles'[u] = {} /\ posts'[u] = {}
      <4> TAKE u \in Users
      <4> HAVE u >= next'
      <4>1. u # next /\ u >= next
        BY <1>b, <3>1 DEF Users
      <4>2. name[u] = None /\ roles[u] = {} /\ posts[u] = {}
        BY <1>0, <1>b, <4>1 DEF TypeOK
      <4>3. QED
        BY <3>4, <4>1, <4>2
    <3>7. \A u \in Given : name'[u] = None <=> name[u] = None
      BY <1>b, <3>4 DEF Given
    <3>8. \A u \in Users : name'[u] = None /\ posts'[u] # {} => posts[u] # {} /\ ~Exists(u)
      BY <3>4, <3>5 DEF Exists
    <3>9. raced' \in SUBSET Users
      BY <1>0, <2>3, <3>1 DEF Mark, TypeOK
    <3>10. \A u \in Users : name'[u] = None => phone'[u] = None
      <4>1. \A u \in Users : u # next => phone'[u] = phone[u]
        BY <1>0, <3>1 DEF TypeOK
      <4>2. QED
        BY <1>0, <3>4, <3>5, <4>1 DEF TypeOK, Exists
    <3>11. QED
      BY <1>2, <2>1, <3>1, <3>2, <3>3, <3>6, <3>7, <3>8, <3>9, <3>10, CommitStep
  <2>4. QED
    BY <2>2, <2>3
<1>7. CASE UpdateTx(r)
  <2> DEFINE u == req[r].user
  <2>1. /\ req[r].pc = "updateTx" /\ cut' = cut
        /\ req[r].name \in Names /\ u \in Given /\ u \in Users
    BY <1>0, <1>7 DEF UpdateTx, At, RequestOK, Given
  <2>2. CASE ~Exists(u)
    BY <1>1, <1>7, <2>1, <2>2 DEF UpdateTx, history
  <2>3. CASE Exists(u)
    <3>1. /\ name'  = [name EXCEPT ![u] = req[r].name]
          /\ phone' = [phone EXCEPT ![u] = req[r].phone]
          /\ roles' = [roles EXCEPT ![u] = req[r].roles]
          /\ posts' = [posts EXCEPT ![u] = req[r].posts]
          /\ Commit(Finished(r)) /\ Mark(r, u)
          /\ next' = next
      BY <1>7, <2>3 DEF UpdateTx
    <3>2. /\ name' \in [Users -> Names \cup {None}] /\ phone' \in [Users -> Phones \cup {None}]
          /\ roles' \in [Users -> SUBSET Roles] /\ posts' \in [Users -> SUBSET Posts]
      BY <1>0, <2>1, <3>1 DEF TypeOK, Request
    <3>3. \A v \in Users : v # u =>
            name'[v] = name[v] /\ roles'[v] = roles[v] /\ posts'[v] = posts[v]
      BY <1>0, <3>1 DEF TypeOK
    <3>4. name'[u] # None /\ name[u] # None
      BY <1>0, <2>1, <2>3, <3>1, NoneAssumption DEF TypeOK, Exists
    <3>5. \A v \in Users : v >= next' => name'[v] = None /\ roles'[v] = {} /\ posts'[v] = {}
      <4> TAKE v \in Users
      <4> HAVE v >= next'
      <4>1. v \notin Given /\ v # u
        BY <1>b, <2>1, <3>1
      <4>2. QED
        BY <1>0, <3>3, <4>1 DEF TypeOK
    <3>6. \A v \in Given : name'[v] = None <=> name[v] = None
      BY <3>3, <3>4 DEF Given
    <3>7. \A v \in Users : name'[v] = None /\ posts'[v] # {} => posts[v] # {} /\ ~Exists(v)
      BY <3>3, <3>4 DEF Exists
    <3>8. next' \in 1 .. MaxUser + 1 /\ next' >= next
      BY <1>b, <3>1
    <3>9. raced' \in SUBSET Users
      BY <1>0, <2>1, <3>1 DEF Mark, TypeOK
    <3>10. \A v \in Users : name'[v] = None => phone'[v] = None
      <4>1. \A v \in Users : v # u => phone'[v] = phone[v]
        BY <1>0, <3>1 DEF TypeOK
      <4>2. QED
        BY <1>0, <3>3, <3>4, <4>1 DEF TypeOK, Exists
    <3>11. QED
      BY <1>2, <2>1, <3>1, <3>2, <3>5, <3>6, <3>7, <3>8, <3>9, <3>10, CommitStep
  <2>4. QED
    BY <2>2, <2>3
<1>8. CASE DelRoles(r)
  <2> DEFINE after == Goto(r, "delPosts")
  <2>1. /\ req[r].pc = "delRoles"
        /\ roles' = [u \in Users |-> IF u \in req[r].gone THEN {} ELSE roles[u]]
        /\ Commit(after)
        /\ UNCHANGED <<accounts, posts, cut, raced>>
    BY <1>8 DEF DelRoles, At, history
  <2>2. \A p \in Requests : after[p] = IF p = r THEN [req[r] EXCEPT !.pc = "delPosts"] ELSE req[p]
    BY <1>0 DEF Goto, TypeOK
  <2>3. after \in [Requests -> Request]
    BY <1>0 DEF Goto, TypeOK, Request, Steps
  <2>4. /\ after[r].pc = "delPosts" /\ after[r].gone = req[r].gone
        /\ RequestOK(after[r])
    BY <1>0, <2>1, <2>2 DEF Request, RequestOK
  <2>5. \A p \in Requests : RequestOK(after[p])
    BY <1>0, <2>2, <2>4
  <2>6. \A p \in Requests, u \in Users : Deleting(req[p], u) => Deleting(after[p], u)
    BY <2>2, <2>4 DEF Deleting
  <2>7. roles' \in [Users -> SUBSET Roles]
    BY <1>0, <2>1 DEF TypeOK
  <2>8. \A u \in Users : u >= next' => name'[u] = None /\ roles'[u] = {} /\ posts'[u] = {}
    BY <1>0, <1>b, <2>1 DEF TypeOK, accounts
  <2>9. UNCHANGED <<next, name, phone, posts, cut, raced>> /\ next' >= next
    BY <1>b, <2>1 DEF accounts
  <2> HIDE DEF after
  <2>10. QED
    BY <1>0, <2>1, <2>3, <2>5, <2>6, <2>7, <2>8, <2>9, CommitStep DEF TypeOK, Exists
<1>9. CASE DelPosts(r)
  <2>1. /\ req[r].pc = "delPosts"
        /\ posts' = [u \in Users |-> IF u \in req[r].gone THEN {} ELSE posts[u]]
        /\ req' = [req EXCEPT ![r] = Idle]
        /\ UNCHANGED <<next, name, phone, roles, cut, raced>>
    BY <1>9 DEF DelPosts, At, Finished, accounts, history
  <2>2. \A p \in Requests : req'[p] = IF p = r THEN Idle ELSE req[p]
    BY <1>0, <2>1 DEF TypeOK
  <2>3. TypeOK'
    BY <1>0, <2>1, IdleFit DEF TypeOK, Given, Exists
  <2>4. \A p \in Requests : RequestOK(req'[p])
    BY <1>0, <2>2, IdleFit
  <2>5. \A p \in Requests : RequestOK(req[p])'
    BY <2>1, <2>4 DEF RequestOK, Given, Exists
  <2>6. PostsHaveUser'
    <3> SUFFICES ASSUME NEW u \in Users, posts'[u] # {}, ~Exists(u), u \notin cut
                 PROVE  \E p \in Requests : Deleting(req'[p], u)
      BY <2>1 DEF PostsHaveUser, Exists, Deleting
    <3>1. u \notin req[r].gone /\ posts[u] # {}
      BY <2>1
    <3>2. PICK p \in Requests : Deleting(req[p], u)
      BY <3>1 DEF IInv, PostsHaveUser, Deleting
    <3>3. p # r
      BY <3>1, <3>2 DEF Deleting
    <3>4. QED
      BY <2>2, <3>2, <3>3
  <2>7. QED
    BY <2>1, <2>3, <2>5, <2>6 DEF IInv, Given, RootStays, Exists
<1>10. CASE GrantRoles(r)
  <2>1. /\ req[r].pc = "grant" /\ req[r].user \in Given
        /\ Commit(Finished(r))
        /\ UNCHANGED <<next, name, phone, posts, cut, raced>>
    BY <1>0, <1>10 DEF GrantRoles, At, RequestOK, accounts, history
  <2>2. /\ roles' \in [Users -> SUBSET Roles]
        /\ \A u \in Users : u # req[r].user => roles'[u] = roles[u]
    BY <1>0, <1>10 DEF GrantRoles, TypeOK, Request
  <2>3. \A u \in Users : u >= next' => name'[u] = None /\ roles'[u] = {} /\ posts'[u] = {}
    BY <1>0, <1>b, <2>1, <2>2 DEF TypeOK
  <2>4. next' >= next
    BY <1>b, <2>1
  <2>5. QED
    BY <1>0, <1>2, <2>1, <2>2, <2>3, <2>4, CommitStep DEF TypeOK, Exists
<1>11. QED
  BY <1>4, <1>5, <1>6, <1>7, <1>8, <1>9, <1>10 DEF Proceed

(* A request that is cut off leaves the users it was deleting in cut. *)
LEMMA AbortInv == ASSUME IInv, NEW r \in Requests, Abort(r) PROVE IInv'
<1>0. TypeOK /\ req[r] \in Request /\ \A p \in Requests : RequestOK(req[p])
  BY DEF IInv, TypeOK
<1>1. \A p \in Requests : req'[p] = IF p = r THEN Idle ELSE req[p]
  BY <1>0 DEF Abort, Finished, TypeOK
<1>2. /\ cut' = cut \cup req[r].gone
      /\ UNCHANGED <<next, name, phone, roles, posts, raced>>
  BY DEF Abort, accounts
<1>3. TypeOK'
  BY <1>0, <1>2, IdleFit DEF TypeOK, Given, Abort, Finished, Request, Exists
<1>4. \A p \in Requests : RequestOK(req'[p])
  BY <1>0, <1>1, IdleFit
<1>5. \A p \in Requests : RequestOK(req[p])'
  BY <1>2, <1>4 DEF RequestOK, Given, Exists
<1>6. PostsHaveUser'
  <2> SUFFICES ASSUME NEW u \in Users, posts[u] # {}, ~Exists(u), u \notin cut'
               PROVE  \E p \in Requests : Deleting(req'[p], u)
    BY <1>2 DEF PostsHaveUser, Exists, Deleting
  <2>1. PICK p \in Requests : Deleting(req[p], u)
    BY <1>2 DEF IInv, PostsHaveUser, Deleting
  <2>2. p # r
    BY <1>2, <2>1 DEF Deleting
  <2>3. QED
    BY <1>1, <2>1, <2>2
<1>7. QED
  BY <1>2, <1>3, <1>5, <1>6 DEF IInv, Given, RootStays, Exists

(* A stutter keeps the invariant. *)
LEMMA StutterInv == IInv /\ UNCHANGED vars => IInv'
  BY DEF vars, accounts, IInv, TypeOK, RequestOK, PostsHaveUser, RootStays, Exists, Given

(* Every step keeps the invariant. *)
LEMMA NextInv == IInv /\ [Next]_vars => IInv'
  BY ArriveInv, ProceedInv, AbortInv, StutterInv DEF Next

(* The inductive invariant holds of every behaviour: for any users, names,     *)
(* roles, posts and slots, however requests overlap and are cut off.         *)
THEOREM Invariance == Spec => []IInv
  BY InitInv, NextInv, PTL DEF Spec

(* Every variable keeps its type. *)
THEOREM TypeCorrect == Spec => []TypeOK
<1>1. IInv => TypeOK
  BY DEF IInv
<1>2. QED
  BY <1>1, Invariance, PTL

(* The user the code compares with rootRoleId keeps his row. *)
THEOREM RootUserStays == Spec => []RootStays
<1>1. IInv => RootStays
  BY DEF IInv
<1>2. QED
  BY <1>1, Invariance, PTL

(* Posts without a user are those of a deletion under way or cut off. *)
THEOREM PostsBelong == Spec => []PostsHaveUser
<1>1. IInv => PostsHaveUser
  BY DEF IInv
<1>2. QED
  BY <1>1, Invariance, PTL

(* The second half of an assignment that nothing overtook cannot fail.     *)
THEOREM GrantsApply == Spec => []GrantWillApply
<1>1. IInv => GrantWillApply
  BY DEF IInv, GrantWillApply, RequestOK, At
<1>2. QED
  BY <1>1, Invariance, PTL

(* What q has found out holds after the step. *)
Kept(q) ==
  /\ q.pc \in {"createPhone", "createTx"} => \A u \in Users : name'[u] # q.name
  /\ q.pc = "createTx" /\ q.phone # None => \A u \in Users : phone'[u] # q.phone
  /\ q.pc \in {"updatePhone", "updateTx"} => \A u \in Users \ {q.user} : name'[u] # q.name
  /\ q.pc = "updateTx" /\ q.phone # None => \A u \in Users \ {q.user} : phone'[u] # q.phone

(* A request nothing overtook keeps what it has found out. *)
LEMMA NotOvertaken ==
  ASSUME NEW q \in Request, RequestOK(q), Checked(q), ~Overtaken(q)
  PROVE  Kept(q)
<1>1. \A u \in Users \ {q.user} : /\ name'[u] = q.name => name[u] = q.name
                                  /\ phone'[u] = q.phone => phone[u] = q.phone \/ q.phone = None
  BY DEF Overtaken
<1>2. q.pc \in {"createPhone", "createTx"} => \A u \in Users : u # q.user
  BY DEF RequestOK, Users
<1>3. QED
  BY <1>1, <1>2 DEF Checked, NameTaken, PhoneTaken, Kept

(* Slots that hold, after a step, requests that keep what they found out.  *)
LEMMA ChecksKept ==
  ASSUME NEW after \in [Requests -> Request],
         \A r \in Requests :
           /\ req'[r].pc = after[r].pc /\ req'[r].user = after[r].user
           /\ req'[r].name = after[r].name /\ req'[r].phone = after[r].phone
           /\ ~req'[r].old => Kept(after[r])
  PROVE  ChecksHold'
<1>1. ASSUME NEW r \in Requests, ~req'[r].old PROVE Checked(req[r])'
  BY <1>1 DEF Kept, Checked, NameTaken, PhoneTaken
<1>2. QED
  BY <1>1 DEF ChecksHold

(* A write by Commit. *)
LEMMA CommitChecks ==
  ASSUME NEW after \in [Requests -> Request], Commit(after),
         \A r \in Requests : RequestOK(after[r]) /\ (~after[r].old => Checked(after[r]))
  PROVE  ChecksHold'
<1>1. \A r \in Requests : ~after[r].old /\ ~Overtaken(after[r]) => Kept(after[r])
  BY NotOvertaken
<1>2. QED
  BY <1>1, CommitSlots, ChecksKept

(* A step of one slot that leaves names and phone numbers alone. *)
LEMMA SlotChecks ==
  ASSUME TypeOK, ChecksHold, UNCHANGED <<name, phone, raced>>, UniqueUnlessRaced,
         NEW r \in Requests, \A p \in Requests \ {r} : req'[p] = req[p],
         ~req'[r].old => Checked(req'[r])
  PROVE  UniqueUnlessRaced' /\ ChecksHold'
<1>1. \A p \in Requests : ~req'[p].old => Checked(req'[p])
  BY DEF ChecksHold
<1>2. \A p \in Requests : ~req'[p].old => Checked(req[p])'
  BY <1>1 DEF Checked, NameTaken, PhoneTaken
<1>3. QED
  BY <1>2 DEF ChecksHold, UniqueUnlessRaced, Distinct

(* The write of a user whose name and phone number nobody else has, or who  *)
(* is marked.                                                              *)
LEMMA WriteUnique ==
  ASSUME TypeOK, UniqueUnlessRaced,
         NEW r \in Requests, NEW w \in Users, Mark(r, w),
         name'  = [name EXCEPT ![w] = req[r].name],
         phone' = [phone EXCEPT ![w] = req[r].phone],
         ~req[r].old =>
           /\ \A v \in Users \ {w} : name[v] # req[r].name
           /\ req[r].phone # None => \A v \in Users \ {w} : phone[v] # req[r].phone
  PROVE  UniqueUnlessRaced'
<1>1. \A u \in Users : /\ name'[u] = IF u = w THEN req[r].name ELSE name[u]
                       /\ phone'[u] = IF u = w THEN req[r].phone ELSE phone[u]
  BY DEF TypeOK
<1> SUFFICES ASSUME NEW u \in Users \ raced', NEW v \in Users \ raced', u # v
             PROVE  Distinct(u, v)'
  BY DEF UniqueUnlessRaced
<1>2. CASE u # w /\ v # w
  <2>1. u \notin raced /\ v \notin raced
    BY <1>2 DEF Mark
  <2>2. Distinct(u, v)
    BY <2>1 DEF UniqueUnlessRaced
  <2>3. QED
    BY <1>1, <1>2, <2>2 DEF Distinct
<1>3. CASE u = w \/ v = w
  <2>1. ~req[r].old
    BY <1>3 DEF Mark
  <2>2. QED
    BY <1>1, <1>3, <2>1 DEF Distinct
<1>4. QED
  BY <1>2, <1>3

(* However requests overlap, two users who share a name or a phone number   *)
(* include one whose last write was overtaken.                             *)
LEMMA UniqueAndChecked == Spec => [](UniqueUnlessRaced /\ ChecksHold)
<1> DEFINE Inv  == IInv /\ UniqueUnlessRaced /\ ChecksHold
           Goal == UniqueUnlessRaced' /\ ChecksHold'
<1>1. Init => Inv
  <2> SUFFICES ASSUME Init PROVE UniqueUnlessRaced /\ ChecksHold
    BY InitInv
  <2>1. PICK n \in Names : name = [u \in Users |-> IF u = Root THEN n ELSE None]
    BY DEF Init
  <2>2. UniqueUnlessRaced
    BY <2>1, NoneAssumption DEF Init, UniqueUnlessRaced, Distinct
  <2>3. ChecksHold
    BY DEF Init, Idle, ChecksHold, Checked
  <2>4. QED
    BY <2>2, <2>3
<1>2. Inv /\ [Next]_vars => Inv'
  <2> SUFFICES ASSUME Inv, [Next]_vars PROVE Goal
    BY NextInv
  <2>0. TypeOK /\ \A p \in Requests : RequestOK(req[p])
    BY DEF IInv
  <2>1. CASE UNCHANGED vars
    BY <2>1
    DEF vars, UniqueUnlessRaced, Distinct, ChecksHold, Checked, NameTaken, PhoneTaken
  <2>a. Checked(Idle)
    BY DEF Checked, Idle
  <2>b. ASSUME NEW r \in Requests, NEW q, req' = [req EXCEPT ![r] = q], Checked(q),
               UNCHANGED <<name, phone, raced>>
        PROVE  Goal
    <3>1. req'[r] = q /\ \A p \in Requests \ {r} : req'[p] = req[p]
      BY <2>0, <2>b DEF TypeOK
    <3>2. QED
      BY <2>0, <2>b, <3>1, SlotChecks
  <2>c. ASSUME NEW r \in Requests
        PROVE  /\ Finished(r) \in [Requests -> Request]
               /\ \A p \in Requests : /\ RequestOK(Finished(r)[p])
                                      /\ ~Finished(r)[p].old => Checked(Finished(r)[p])
    <3>1. \A p \in Requests : Finished(r)[p] = IF p = r THEN Idle ELSE req[p]
      BY <2>0 DEF Finished, TypeOK
    <3>2. Finished(r) \in [Requests -> Request]
      BY <2>0, IdleFit DEF Finished, TypeOK
    <3>3. QED
      BY <2>0, <2>a, <3>1, <3>2, IdleFit DEF ChecksHold
  <2>d. ASSUME UNCHANGED <<name, phone, raced>> PROVE UniqueUnlessRaced'
    BY <2>d DEF UniqueUnlessRaced, Distinct
  <2>2. ASSUME NEW r \in Requests, Arrive(r) PROVE Goal
    <3>1. ASSUME NEW n \in Names, NEW p \in Phones \cup {None}, NEW rs \in SUBSET Roles,
                 NEW ps \in SUBSET Posts, Create(r, n, p, rs, ps)
          PROVE  Goal
      <4> DEFINE q == [Idle EXCEPT !.pc = IF p = None THEN "createTx" ELSE "createPhone",
                                   !.name = n, !.phone = p, !.roles = rs, !.posts = ps]
      <4>1. Checked(q)
        BY <3>1 DEF Create, Checked, Idle, PhoneTaken
      <4>2. req' = [req EXCEPT ![r] = q] /\ UNCHANGED <<name, phone, raced>>
        BY <3>1 DEF Create, accounts, history
      <4>3. QED
        BY <2>b, <4>1, <4>2
    <3>2. ASSUME NEW n \in Names, NEW p \in Phones \cup {None}, NEW rs \in SUBSET Roles,
                 NEW ps \in SUBSET Posts, NEW u \in Users, Update(r, u, n, p, rs, ps)
          PROVE  Goal
      <4> DEFINE q == [Idle EXCEPT !.pc = IF p = None THEN "updateTx" ELSE "updatePhone",
                                   !.user = u, !.name = n, !.phone = p,
                                   !.roles = rs, !.posts = ps]
      <4>1. Checked(q)
        BY <3>2 DEF Update, Checked, Idle, PhoneTaken
      <4>2. req' = [req EXCEPT ![r] = q] /\ UNCHANGED <<name, phone, raced>>
        BY <3>2 DEF Update, accounts, history
      <4>3. QED
        BY <2>b, <4>1, <4>2
    <3>3. ASSUME NEW us \in SUBSET Given, Delete(r, us) PROVE Goal
      <4> DEFINE q == [Idle EXCEPT !.pc = "delRoles", !.gone = us]
      <4>1. /\ \A u \in Users : /\ name'[u] \in {None, name[u]}
                                /\ phone'[u] \in {None, phone[u]}
            /\ req' = [req EXCEPT ![r] = q] /\ raced' = raced
        BY <3>3 DEF Delete, history
      <4>2. q \in Request /\ q.pc = "delRoles"
        BY DEF Idle, Request, Steps, Given
      <4> HIDE DEF q
      <4>3. UniqueUnlessRaced'
        BY <4>1 DEF UniqueUnlessRaced, Distinct
      <4>4. \A p \in Requests : req'[p] = IF p = r THEN q ELSE req[p]
        BY <2>0, <4>1 DEF TypeOK
      <4>5. req' \in [Requests -> Request]
        BY <2>0, <4>1, <4>2 DEF TypeOK
      <4>6. ASSUME NEW p \in Requests, ~req'[p].old PROVE Kept(req'[p])
        <5>1. CASE p = r
          BY <4>2, <4>4, <5>1 DEF Kept
        <5>2. CASE p # r
          <6>1. req'[p] = req[p] /\ req[p] \in Request /\ RequestOK(req[p]) /\ Checked(req[p])
            BY <2>0, <4>4, <4>6, <5>2 DEF ChecksHold, TypeOK
          <6>2. req[p].pc \in {"createPhone", "createTx", "updatePhone", "updateTx"} =>
                  req[p].name # None
            BY <6>1, NoneAssumption DEF RequestOK
          <6>3. QED
            BY <4>1, <6>1, <6>2 DEF Checked, NameTaken, PhoneTaken, Kept
        <5>3. QED
          BY <5>1, <5>2
      <4>7. ChecksHold'
        <5>1. \A p \in Requests : ~req'[p].old => Checked(req[p])'
          BY <4>6 DEF Kept, Checked, NameTaken, PhoneTaken
        <5>2. QED
          BY <5>1 DEF ChecksHold
      <4>8. QED
        BY <4>3, <4>7
    <3>4. ASSUME NEW u \in Users, NEW rs \in SUBSET Roles, AuthRole(r, u, rs) PROVE Goal
      <4> DEFINE mine == [Idle EXCEPT !.pc = "grant", !.user = u, !.roles = rs]
                 old(p) == req[p].old \/ Overtaken(req[p])
      <4>1. req' = [p \in Requests |-> IF p = r THEN IF rs = {} THEN Idle ELSE mine
                                       ELSE [req[p] EXCEPT !.old = old(p)]]
        BY <3>4, Zenon DEF AuthRole
      <4>2. UNCHANGED <<name, phone, raced>>
        BY <3>4 DEF AuthRole, accounts, history
      <4>3. mine.pc = "grant" /\ Idle.pc = "idle"
        BY DEF Idle
      <4> HIDE DEF mine, old
      <4>4. \A p \in Requests : old(p) \in BOOLEAN /\ (~old(p) => ~req[p].old)
        BY <2>0 DEF old, Request, TypeOK
      <4>5. ASSUME NEW p \in Requests, ~req'[p].old PROVE Checked(req'[p])
        <5>1. CASE p = r
          BY <4>1, <4>3, <5>1 DEF Checked
        <5>2. CASE p # r
          <6>1. req[p] \in Request /\ old(p) \in BOOLEAN /\ req'[p] = [req[p] EXCEPT !.old = old(p)]
            BY <2>0, <4>1, <4>4, <5>2 DEF TypeOK
          <6>2. /\ req'[p].old = old(p) /\ req'[p].pc = req[p].pc
                /\ req'[p].user = req[p].user /\ req'[p].name = req[p].name
                /\ req'[p].phone = req[p].phone
            BY <6>1, SetOld
          <6>3. Checked(req[p])
            BY <4>4, <4>5, <6>2 DEF ChecksHold
          <6>4. QED
            BY <6>2, <6>3 DEF Checked
        <5>3. QED
          BY <5>1, <5>2
      <4>6. \A p \in Requests : ~req'[p].old => Checked(req[p])'
        BY <4>2, <4>5 DEF Checked, NameTaken, PhoneTaken
      <4>7. QED
        BY <2>d, <4>2, <4>6 DEF ChecksHold
    <3>5. ASSUME NEW us \in SUBSET Given, NEW role \in Roles,
                 CancelAuth(r, us, role) \/ SelectAll(r, us, role)
          PROVE  Goal
      <4>1. Commit(req) /\ UNCHANGED <<name, phone, raced>>
        BY <3>5 DEF CancelAuth, SelectAll, accounts, history
      <4>2. req \in [Requests -> Request]
        BY <2>0 DEF TypeOK
      <4>3. \A p \in Requests : RequestOK(req[p]) /\ (~req[p].old => Checked(req[p]))
        BY <2>0 DEF ChecksHold
      <4>4. QED
        BY <2>d, <4>1, <4>2, <4>3, CommitChecks
    <3>6. QED
      BY <2>2, <3>1, <3>2, <3>3, <3>4, <3>5 DEF Arrive
  <2>3. ASSUME NEW r \in Requests, Proceed(r) PROVE Goal
    <3>0. req[r] \in Request /\ RequestOK(req[r]) /\ (~req[r].old => Checked(req[r]))
      BY <2>0 DEF TypeOK, ChecksHold
    <3>1. CASE CreatePhone(r) \/ UpdatePhone(r)
      <4> DEFINE c == [req[r] EXCEPT !.pc = "createTx"]
                 u == [req[r] EXCEPT !.pc = "updateTx"]
      <4>1. /\ c.pc = "createTx" /\ c.name = req[r].name /\ c.phone = req[r].phone
            /\ u.pc = "updateTx" /\ u.name = req[r].name /\ u.phone = req[r].phone
            /\ u.user = req[r].user /\ c.old = req[r].old /\ u.old = req[r].old
        BY <3>0 DEF Request
      <4>2. UNCHANGED <<name, phone, raced>>
        BY <3>1 DEF CreatePhone, UpdatePhone, accounts, history
      <4>3. \/ req'[r] = Idle
            \/ /\ req[r].pc = "createPhone" /\ ~PhoneTaken(req[r].phone, Users)
               /\ req'[r] = c
            \/ /\ req[r].pc = "updatePhone" /\ ~PhoneTaken(req[r].phone, Users \ {req[r].user})
               /\ req'[r] = u
        BY <2>0, <3>1 DEF CreatePhone, UpdatePhone, At, Finished, Goto, TypeOK
      <4>4. \A p \in Requests \ {r} : req'[p] = req[p]
        BY <2>0, <3>1 DEF CreatePhone, UpdatePhone, Finished, Goto, TypeOK
      <4> HIDE DEF c, u
      <4>5. ~req'[r].old => Checked(req'[r])
        BY <2>a, <3>0, <4>1, <4>3 DEF Checked
      <4>6. QED
        BY <2>0, <4>2, <4>4, <4>5, SlotChecks
    <3>2. CASE CreateTx(r)
      <4>1. CASE next \notin Users
        <5>1. req' = [req EXCEPT ![r] = Idle] /\ UNCHANGED <<name, phone, raced>>
          BY <3>2, <4>1 DEF CreateTx, Finished, accounts
        <5>2. QED
          BY <2>a, <2>b, <5>1
      <4>2. CASE next \in Users
        <5>1. /\ req[r].pc = "createTx"
              /\ name'  = [name EXCEPT ![next] = req[r].name]
              /\ phone' = [phone EXCEPT ![next] = req[r].phone]
              /\ Commit(Finished(r)) /\ Mark(r, next)
          BY <3>2, <4>2 DEF CreateTx, At
        <5>2. ~req[r].old =>
                /\ \A v \in Users \ {next} : name[v] # req[r].name
                /\ req[r].phone # None => \A v \in Users \ {next} : phone[v] # req[r].phone
          BY <3>0, <5>1 DEF Checked, NameTaken, PhoneTaken
        <5>3. UniqueUnlessRaced'
          BY <2>0, <4>2, <5>1, <5>2, WriteUnique
        <5>4. ChecksHold'
          BY <2>c, <5>1, CommitChecks
        <5>5. QED
          BY <5>3, <5>4
      <4>3. QED
        BY <4>1, <4>2
    <3>3. CASE UpdateTx(r)
      <4> DEFINE w == req[r].user
      <4>0. req[r].pc = "updateTx" /\ w \in Users
        BY <3>0, <3>3 DEF UpdateTx, At, RequestOK, Given
      <4>1. CASE ~Exists(w)
        <5>1. req' = [req EXCEPT ![r] = Idle] /\ UNCHANGED <<name, phone, raced>>
          BY <3>3, <4>1 DEF UpdateTx, Finished, accounts
        <5>2. QED
          BY <2>a, <2>b, <5>1
      <4>2. CASE Exists(w)
        <5>1. /\ name'  = [name EXCEPT ![w] = req[r].name]
              /\ phone' = [phone EXCEPT ![w] = req[r].phone]
              /\ Commit(Finished(r)) /\ Mark(r, w)
          BY <3>3, <4>2 DEF UpdateTx
        <5>2. ~req[r].old =>
                /\ \A v \in Users \ {w} : name[v] # req[r].name
                /\ req[r].phone # None => \A v \in Users \ {w} : phone[v] # req[r].phone
          BY <3>0, <4>0 DEF Checked, NameTaken, PhoneTaken
        <5>3. UniqueUnlessRaced'
          BY <2>0, <4>0, <5>1, <5>2, WriteUnique
        <5>4. ChecksHold'
          BY <2>c, <5>1, CommitChecks
        <5>5. QED
          BY <5>3, <5>4
      <4>3. QED
        BY <4>1, <4>2
    <3>4. CASE DelRoles(r)
      <4> DEFINE after == Goto(r, "delPosts")
      <4>1. Commit(after) /\ UNCHANGED <<name, phone, raced>> /\ req[r].pc = "delRoles"
        BY <3>4 DEF DelRoles, accounts, history, At
      <4>2. \A p \in Requests : after[p] = IF p = r THEN [req[r] EXCEPT !.pc = "delPosts"] ELSE req[p]
        BY <2>0 DEF Goto, TypeOK
      <4>3. after \in [Requests -> Request]
        BY <2>0 DEF Goto, TypeOK, Request, Steps
      <4>4. RequestOK(after[r]) /\ Checked(after[r])
        BY <3>0, <4>1, <4>2 DEF Request, RequestOK, Checked
      <4>5. \A p \in Requests : RequestOK(after[p]) /\ (~after[p].old => Checked(after[p]))
        BY <2>0, <4>2, <4>4 DEF ChecksHold
      <4> HIDE DEF after
      <4>6. QED
        BY <2>d, <4>1, <4>3, <4>5, CommitChecks
    <3>5. CASE DelPosts(r)
      <4>1. req' = [req EXCEPT ![r] = Idle] /\ UNCHANGED <<name, phone, raced>>
        BY <3>5 DEF DelPosts, Finished, accounts, history
      <4>2. QED
        BY <2>a, <2>b, <4>1
    <3>6. CASE GrantRoles(r)
      <4>1. Commit(Finished(r)) /\ UNCHANGED <<name, phone, raced>>
        BY <3>6 DEF GrantRoles, accounts, history
      <4>2. QED
        BY <2>c, <2>d, <4>1, CommitChecks
    <3>7. QED
      BY <2>3, <3>1, <3>2, <3>3, <3>4, <3>5, <3>6 DEF Proceed
  <2>4. ASSUME NEW r \in Requests, Abort(r) PROVE Goal
    <3>1. req' = [req EXCEPT ![r] = Idle] /\ UNCHANGED <<name, phone, raced>>
      BY <2>4 DEF Abort, Finished, accounts
    <3>2. QED
      BY <2>a, <2>b, <3>1
  <2>5. QED
    BY <2>1, <2>2, <2>3, <2>4 DEF Next
<1>3. QED
  BY <1>1, <1>2, PTL DEF Spec

(* Two users who share a name or a phone number include one whose last      *)
(* write was overtaken.                                                    *)
THEOREM UniqueButForRaces == Spec => []UniqueUnlessRaced
  BY UniqueAndChecked, PTL

(* What a request that was not overtaken has found out is still so. *)
THEOREM ChecksStay == Spec => []ChecksHold
  BY UniqueAndChecked, PTL

=============================================================================
