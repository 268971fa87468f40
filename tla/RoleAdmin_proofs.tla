------------------------- MODULE RoleAdmin_proofs -------------------------
(***************************************************************************)
(* Proofs about RoleAdmin, for any roles, menus, departments and slots.    *)
(***************************************************************************)
EXTENDS RoleAdmin, TLAPS

(* An empty slot is well formed. *)
LEMMA IdleFit == Idle \in Request /\ RequestOK(Idle)
  BY DEF Idle, Request, RequestOK, Applies

(* Setting the history flag leaves the rest of a request alone. *)
LEMMA SetOld ==
  ASSUME NEW q \in Request, NEW b \in BOOLEAN, NEW p, p = [q EXCEPT !.old = b]
  PROVE  /\ p \in Request
         /\ p.old = b /\ p.pc = q.pc /\ p.role = q.role
         /\ p.menus = q.menus /\ p.depts = q.depts
         /\ p.add = q.add /\ p.drop = q.drop
  BY DEF Request

(* A step that leaves roleMenu and roleDept alone and puts a well-formed    *)
(* request into one slot keeps the invariant.                              *)
LEMMA ReadStep ==
  ASSUME IInv, UNCHANGED <<roleMenu, roleDept>>,
         next' \in 1 .. MaxRole + 1, row' \in (SUBSET Given)', orphan' = orphan,
         NEW r \in Requests, NEW q \in Request, RequestOK(q),
         req' = [req EXCEPT ![r] = q]
  PROVE  IInv'
<1>1. TypeOK'
  BY DEF IInv, TypeOK
<1>2. \A p \in Requests : req'[p] = IF p = r THEN q ELSE req[p]
  BY DEF IInv, TypeOK
<1>3. \A p \in Requests : RequestOK(req'[p])
  BY <1>2 DEF IInv
<1>4. \A p \in Requests : RequestOK(req[p])'
  BY <1>3 DEF RequestOK, Applies
<1>5. QED
  BY <1>1, <1>4 DEF IInv

(* A transaction marks the requests whose role it touches, so what the      *)
(* others hold stays right.                                                *)
LEMMA CommitStep ==
  ASSUME IInv,
         roleMenu' \in [Roles -> SUBSET Menus], roleDept' \in [Roles -> SUBSET Depts],
         next' = next, row' \in SUBSET Given, orphan' \in SUBSET Roles,
         NEW after \in [Requests -> Request],
         \A r \in Requests : RequestOK(after[r]),
         Commit(after)
  PROVE  IInv'
<1> DEFINE touched(x) == x \in Roles /\ (roleMenu'[x] # roleMenu[x] \/ roleDept'[x] # roleDept[x])
           old(r) == after[r].old \/ touched(after[r].role)
<1>1. req' = [r \in Requests |-> [after[r] EXCEPT !.old = old(r)]]
  BY Zenon DEF Commit
<1> HIDE DEF old
<1>2. \A r \in Requests : old(r) \in BOOLEAN
  BY DEF old, Request
<1>3. \A r \in Requests : req'[r] = [after[r] EXCEPT !.old = old(r)]
  BY <1>1
<1>4. \A r \in Requests :
        /\ req'[r] \in Request
        /\ req'[r].old = old(r) /\ req'[r].pc = after[r].pc /\ req'[r].role = after[r].role
        /\ req'[r].menus = after[r].menus /\ req'[r].depts = after[r].depts
        /\ req'[r].add = after[r].add /\ req'[r].drop = after[r].drop
  <2> TAKE r \in Requests
  <2>1. after[r] \in Request /\ old(r) \in BOOLEAN /\ req'[r] = [after[r] EXCEPT !.old = old(r)]
    BY <1>2, <1>3
  <2>2. QED
    BY <2>1, SetOld
<1>5. TypeOK'
  <2>1. req' = [r \in Requests |-> req'[r]]
    BY <1>1, <1>3
  <2>2. req' \in [Requests -> Request]
    BY <1>4, <2>1
  <2>3. QED
    BY <2>2 DEF IInv, TypeOK, Given
<1>6. ASSUME NEW r \in Requests PROVE RequestOK(req[r])'
  <2>1. RequestOK(after[r]) /\ after[r] \in Request
    OBVIOUS
  <2>2. ASSUME ~req'[r].old PROVE Applies(req[r])'
    <3>1. ~after[r].old /\ ~touched(after[r].role)
      BY <1>4, <2>2 DEF old
    <3>2. Applies(after[r])
      BY <2>1, <3>1 DEF RequestOK
    <3>3. after[r].pc # "idle" => after[r].role \in Roles
      BY <2>1 DEF RequestOK
    <3>4. after[r].role \in Roles =>
            /\ roleMenu'[after[r].role] = roleMenu[after[r].role]
            /\ roleDept'[after[r].role] = roleDept[after[r].role]
      BY <3>1
    <3>5. QED
      BY <1>4, <3>2, <3>3, <3>4 DEF Applies
  <2>3. QED
    BY <1>4, <2>1, <2>2 DEF RequestOK
<1>7. QED
  BY <1>5, <1>6 DEF IInv

(* A slot that has finished is empty, the others are as they were. *)
LEMMA FinishedFit ==
  ASSUME IInv, NEW r \in Requests
  PROVE  /\ Finished(r) \in [Requests -> Request]
         /\ \A p \in Requests : RequestOK(Finished(r)[p])
  BY IdleFit DEF IInv, TypeOK, Finished

(* The invariant holds at the start. *)
LEMMA InitInv == Init => IInv
<1> SUFFICES ASSUME Init PROVE IInv
  OBVIOUS
<1>1. \A x \in Roles : roleMenu[x] \in SUBSET Menus
  BY DEF Init
<1>2. TypeOK
  BY <1>1, IdleFit, BoundAssumption DEF Init, TypeOK, Roles, Given
<1>3. QED
  BY <1>2, IdleFit DEF Init, IInv

(* Requests arriving. *)
LEMMA ArriveInv == ASSUME IInv, NEW r \in Requests, Arrive(r) PROVE IInv'
<1>1. ASSUME NEW menus \in SUBSET Menus, NEW depts \in SUBSET Depts, Add(r, menus, depts)
      PROVE  IInv'
  <2> DEFINE q == [Idle EXCEPT !.pc = "addTx", !.role = next, !.menus = menus, !.depts = depts]
  <2>1. q \in Request /\ RequestOK(q)
    BY <1>1 DEF Add, Idle, Request, Steps, MenuSteps, RequestOK, Applies
  <2>2. next' \in 1 .. MaxRole + 1 /\ row' \in (SUBSET Given)'
    BY <1>1, BoundAssumption DEF Add, IInv, TypeOK, Given, Roles
  <2>3. req' = [req EXCEPT ![r] = q]
    BY <1>1 DEF Add
  <2>4. UNCHANGED <<roleMenu, roleDept, orphan>>
    BY <1>1 DEF Add
  <2>5. QED
    BY <2>1, <2>2, <2>3, <2>4, ReadStep
<1>2. ASSUME NEW role \in Roles, NEW menus \in SUBSET Menus, UpdateV1(r, role, menus)
      PROVE  IInv'
  <2> DEFINE q == [Idle EXCEPT !.pc = "readMenus", !.role = role, !.menus = menus]
  <2>1. q \in Request /\ RequestOK(q)
    BY DEF Idle, Request, Steps, MenuSteps, RequestOK, Applies
  <2>2. QED
    BY <1>2, <2>1, ReadStep DEF UpdateV1, tables, IInv, TypeOK, Given
<1>3. ASSUME NEW role \in Roles, NEW depts \in SUBSET Depts, UpdateV2(r, role, depts)
      PROVE  IInv'
  <2> DEFINE add  == depts \ roleDept[role]
             drop == roleDept[role] \ depts
             q == [Idle EXCEPT !.pc = "deptTx", !.role = role, !.depts = depts,
                               !.add = add, !.drop = drop]
  <2>1. roleDept[role] \subseteq Depts
    BY DEF IInv, TypeOK
  <2>2. /\ add \subseteq depts /\ drop \subseteq Depts
        /\ roleDept[role] \cap add = {}
        /\ (roleDept[role] \cup add) \ drop = depts
    BY <2>1
  <2>3. req' = [req EXCEPT ![r] = q] /\ UNCHANGED <<tables, orphan>>
    BY <1>3 DEF UpdateV2
  <2> HIDE DEF add, drop
  <2>4. q \in Request /\ RequestOK(q)
    BY <2>2 DEF Idle, Request, Steps, MenuSteps, RequestOK, Applies
  <2>5. QED
    BY <2>3, <2>4, ReadStep DEF tables, IInv, TypeOK, Given
<1>4. ASSUME NEW role \in Roles, NEW menus \in SUBSET Menus, NEW depts \in SUBSET Depts,
             Update(r, role, menus, depts)
      PROVE  IInv'
  <2> DEFINE q == [Idle EXCEPT !.pc = "readOrigin", !.role = role,
                               !.menus = menus, !.depts = depts]
  <2>1. q \in Request /\ RequestOK(q)
    BY DEF Idle, Request, Steps, MenuSteps, RequestOK, Applies
  <2>2. QED
    BY <1>4, <2>1, ReadStep DEF Update, tables, IInv, TypeOK, Given
<1>5. ASSUME NEW roles \in SUBSET Given, Delete(r, roles) PROVE IInv'
  <2>1. /\ roleMenu' \in [Roles -> SUBSET Menus]
        /\ roleDept' \in [Roles -> SUBSET Depts]
        /\ next' = next /\ row' \in SUBSET Given /\ orphan' \in SUBSET Roles
    BY <1>5 DEF Delete, Overtakes, IInv, TypeOK, Given
  <2>2. req \in [Requests -> Request] /\ \A p \in Requests : RequestOK(req[p])
    BY DEF IInv, TypeOK
  <2>3. Commit(req)
    BY <1>5 DEF Delete
  <2>4. QED
    BY <2>1, <2>2, <2>3, CommitStep
<1>6. QED
  BY <1>1, <1>2, <1>3, <1>4, <1>5 DEF Arrive

(* Requests going on. *)
LEMMA ProceedInv == ASSUME IInv, NEW r \in Requests, Proceed(r) PROVE IInv'
<1>0. req[r] \in Request /\ RequestOK(req[r]) /\ TypeOK
  BY DEF IInv, TypeOK
<1>1. ASSUME roleMenu' \in [Roles -> SUBSET Menus], roleDept' \in [Roles -> SUBSET Depts],
             UNCHANGED <<next, row, orphan>>, Commit(Finished(r))
      PROVE  IInv'
  BY <1>0, <1>1, FinishedFit, CommitStep DEF TypeOK
<1>2. CASE AddTx(r)
  <2>1. roleMenu' \in [Roles -> SUBSET Menus]
    BY <1>0, <1>2 DEF AddTx, TypeOK, Request
  <2>2. QED
    BY <1>0, <1>1, <1>2, <2>1 DEF AddTx, TypeOK
<1>3. CASE ReadMenus(r)
  <2> DEFINE add  == req[r].menus \ roleMenu[req[r].role]
             drop == roleMenu[req[r].role] \ req[r].menus
             q == [req[r] EXCEPT !.pc = "menuTx", !.old = FALSE, !.add = add, !.drop = drop]
  <2>1. req[r].role \in Roles /\ req[r].menus \subseteq Menus
    BY <1>0, <1>3 DEF ReadMenus, At, RequestOK, Request
  <2>2. roleMenu[req[r].role] \subseteq Menus
    BY <1>0, <2>1 DEF TypeOK
  <2>3. /\ add \subseteq req[r].menus /\ add \subseteq Menus /\ drop \subseteq Menus
        /\ roleMenu[req[r].role] \cap add = {}
        /\ (roleMenu[req[r].role] \cup add) \ drop = req[r].menus
    BY <2>1, <2>2
  <2>4. req' = [req EXCEPT ![r] = q] /\ UNCHANGED <<tables, orphan>>
    BY <1>3 DEF ReadMenus
  <2> HIDE DEF add, drop
  <2>5. q \in Request
    BY <1>0, <2>3 DEF Request, Steps, MenuSteps
  <2>6. /\ q.pc = "menuTx" /\ q.role = req[r].role /\ q.menus = req[r].menus
        /\ q.add = add /\ q.drop = drop
    BY <1>0 DEF Request
  <2>7. RequestOK(q)
    BY <2>1, <2>3, <2>6 DEF RequestOK, Applies
  <2>8. QED
    BY <1>0, <2>4, <2>5, <2>7, ReadStep DEF tables, TypeOK, Given
<1>4. CASE MenuTx(r)
  <2>1. req[r].role \in Roles /\ req[r].add \subseteq Menus
    BY <1>0, <1>4 DEF MenuTx, At, RequestOK, Request
  <2>2. roleMenu' \in [Roles -> SUBSET Menus]
    BY <1>0, <1>4, <2>1 DEF MenuTx, TypeOK
  <2>3. QED
    BY <1>0, <1>1, <1>4, <2>2 DEF MenuTx, TypeOK
<1>5. CASE DeptTx(r)
  <2>1. req[r].role \in Roles /\ req[r].add \subseteq Depts
    BY <1>0, <1>5 DEF DeptTx, At, RequestOK, Request
  <2>2. roleDept' \in [Roles -> SUBSET Depts]
    BY <1>0, <1>5, <2>1 DEF DeptTx, TypeOK
  <2>3. QED
    BY <1>0, <1>1, <1>5, <2>2 DEF DeptTx, TypeOK
<1>6. CASE ReadOrigin(r)
  <2> DEFINE q == [req[r] EXCEPT !.pc = "updateTx", !.old = FALSE, !.add = req[r].menus,
                                 !.drop = roleMenu[req[r].role]]
  <2>1. req[r].role \in Roles /\ req[r].menus \subseteq Menus
    BY <1>0, <1>6 DEF ReadOrigin, At, RequestOK, Request
  <2>2. roleMenu[req[r].role] \subseteq Menus
    BY <1>0, <2>1 DEF TypeOK
  <2>3. q \in Request /\ RequestOK(q)
    BY <1>0, <2>1, <2>2 DEF Request, Steps, MenuSteps, RequestOK, Applies
  <2>4. QED
    BY <1>0, <1>6, <2>3, ReadStep DEF ReadOrigin, tables, TypeOK, Given
<1>7. CASE UpdateTx(r)
  <2>1. req[r].add \subseteq Menus
    BY <1>0, <1>7 DEF UpdateTx, At, RequestOK, Request
  <2>2. roleMenu' \in [Roles -> SUBSET Menus]
    BY <1>0, <1>7, <2>1 DEF UpdateTx, TypeOK
  <2>3. QED
    BY <1>0, <1>1, <1>7, <2>2 DEF UpdateTx, TypeOK
<1>8. QED
  BY <1>2, <1>3, <1>4, <1>5, <1>6, <1>7 DEF Proceed

(* A request that is cut off keeps the invariant. *)
LEMMA AbortInv == ASSUME IInv, NEW r \in Requests, Abort(r) PROVE IInv'
  BY IdleFit, ReadStep DEF Abort, Finished, tables, IInv, TypeOK, Given

(* A stutter keeps the invariant. *)
LEMMA StutterInv == IInv /\ UNCHANGED vars => IInv'
  BY DEF vars, IInv, TypeOK, RequestOK, Applies, Given

(* Every step keeps the invariant. *)
LEMMA NextInv == IInv /\ [Next]_vars => IInv'
  BY ArriveInv, ProceedInv, AbortInv, StutterInv DEF Next

(* The inductive invariant holds of every behaviour: for any roles, menus,     *)
(* departments and slots, however requests overlap and are cut off.          *)
THEOREM Invariance == Spec => []IInv
  BY InitInv, NextInv, PTL DEF Spec

(* Every variable keeps its type. *)
THEOREM TypeCorrect == Spec => []TypeOK
<1>1. IInv => TypeOK
  BY DEF IInv
<1>2. QED
  BY <1>1, Invariance, PTL

(* A difference that nothing overtook can be applied and is what was asked  *)
(* for, however many requests overlap.                                     *)
THEOREM EditsApply == Spec => []EditWillApply
<1>1. IInv => EditWillApply
  BY DEF IInv, EditWillApply, RequestOK
<1>2. QED
  BY <1>1, Invariance, PTL

(* A transaction for a role inserts nothing that its request does not ask   *)
(* for, and every other write only deletes.                                *)
THEOREM NoUnaskedGains == Spec => GainsWereAsked
<1> DEFINE Gain(x) ==
      /\ \A m \in roleMenu'[x] \ roleMenu[x] :
           \E r \in Requests : req[r].role = x /\ m \in req[r].menus
      /\ \A d \in roleDept'[x] \ roleDept[x] :
           \E r \in Requests : req[r].role = x /\ d \in req[r].depts
<1>1. ASSUME IInv, [Next]_vars, NEW x \in Roles PROVE Gain(x)
  <2>1. CASE UNCHANGED vars
    BY <2>1 DEF vars
  <2>2. ASSUME NEW r \in Requests, Arrive(r) PROVE Gain(x)
    <3>1. roleMenu'[x] \subseteq roleMenu[x] /\ roleDept'[x] \subseteq roleDept[x]
      BY <2>2, <1>1 DEF Arrive, Add, UpdateV1, UpdateV2, Update, Delete, tables
    <3>2. QED
      BY <3>1
  <2>3. ASSUME NEW r \in Requests, Proceed(r) PROVE Gain(x)
    <3>0. req[r] \in Request /\ RequestOK(req[r]) /\ TypeOK
      BY <1>1 DEF IInv, TypeOK
    <3>1. CASE AddTx(r)
      BY <3>0, <3>1 DEF AddTx, TypeOK
    <3>2. CASE ReadMenus(r) \/ ReadOrigin(r)
      BY <3>2 DEF ReadMenus, ReadOrigin, tables
    <3>3. CASE MenuTx(r)
      <4>1. req[r].add \subseteq req[r].menus
        BY <3>0, <3>3 DEF MenuTx, At, RequestOK
      <4>2. QED
        BY <3>0, <3>3, <4>1 DEF MenuTx, TypeOK
    <3>4. CASE DeptTx(r)
      <4>1. req[r].add \subseteq req[r].depts
        BY <3>0, <3>4 DEF DeptTx, At, RequestOK
      <4>2. QED
        BY <3>0, <3>4, <4>1 DEF DeptTx, TypeOK
    <3>5. CASE UpdateTx(r)
      <4>1. req[r].add \subseteq req[r].menus
        BY <3>0, <3>5 DEF UpdateTx, At, RequestOK
      <4>2. QED
        BY <3>0, <3>5, <4>1 DEF UpdateTx, TypeOK
    <3>6. QED
      BY <2>3, <3>1, <3>2, <3>3, <3>4, <3>5 DEF Proceed
  <2>4. ASSUME NEW r \in Requests, Abort(r) PROVE Gain(x)
    BY <2>4 DEF Abort, tables
  <2>5. QED
    BY <1>1, <2>1, <2>2, <2>3, <2>4 DEF Next
<1>2. IInv /\ [Next]_vars =>
        [\A x \in Roles : Gain(x)]_vars
  BY <1>1
<1>3. QED
  BY <1>2, Invariance, PTL DEF Spec, GainsWereAsked

(* Menus are inserted for roles that were there when the request set out,   *)
(* so the only roles that keep some after their deletion are the orphans.  *)
LEMMA TargetsAndRests == Spec => [](GoneRoleGrantsNothing /\ TargetsExist)
<1> DEFINE Inv == IInv /\ GoneRoleGrantsNothing /\ TargetsExist
<1>1. Init => Inv
  <2> SUFFICES ASSUME Init PROVE GoneRoleGrantsNothing /\ TargetsExist
    BY InitInv
  <2>1. GoneRoleGrantsNothing
    BY DEF Init, GoneRoleGrantsNothing
  <2>2. TargetsExist
    BY DEF Init, Idle, MenuSteps, TargetsExist
  <2>3. QED
    BY <2>1, <2>2
<1>2. Inv /\ [Next]_vars => Inv'
  <2> SUFFICES ASSUME Inv, [Next]_vars PROVE GoneRoleGrantsNothing' /\ TargetsExist'
    BY NextInv
  <2>0. TypeOK
    BY DEF IInv
  <2>1. CASE UNCHANGED vars
    BY <2>1 DEF vars, GoneRoleGrantsNothing, TargetsExist
  <2>2. ASSUME NEW r \in Requests, Arrive(r)
        PROVE  GoneRoleGrantsNothing' /\ TargetsExist'
    <3>1. ASSUME NEW roles \in SUBSET Given, Delete(r, roles)
          PROVE  GoneRoleGrantsNothing' /\ TargetsExist'
      <4>1. GoneRoleGrantsNothing'
        BY <2>0, <3>1 DEF Delete, Overtakes, GoneRoleGrantsNothing, TypeOK
      <4>2. \A p \in Requests : req'[p].pc = req[p].pc /\ req'[p].role = req[p].role
        BY <2>0, <3>1 DEF Delete, Commit, TypeOK, Request
      <4>3. ASSUME NEW p \in Requests, req[p].pc \in MenuSteps
            PROVE  req[p].role \in row' \cup orphan'
        <5>1. CASE req[p].role \in roles
          BY <3>1, <4>3, <5>1 DEF Delete, Overtakes
        <5>2. CASE req[p].role \notin roles
          BY <3>1, <4>3, <5>2 DEF Delete, Overtakes, TargetsExist
        <5>3. QED
          BY <5>1, <5>2
      <4>4. TargetsExist'
        BY <4>2, <4>3 DEF TargetsExist
      <4>5. QED
        BY <4>1, <4>4
    <3>2. ASSUME NEW menus \in SUBSET Menus, NEW depts \in SUBSET Depts, Add(r, menus, depts)
          PROVE  GoneRoleGrantsNothing' /\ TargetsExist'
      BY <2>0, <3>2 DEF Add, GoneRoleGrantsNothing, TargetsExist, TypeOK, Idle
    <3>3. ASSUME NEW role \in Roles, NEW menus \in SUBSET Menus, UpdateV1(r, role, menus)
          PROVE  GoneRoleGrantsNothing' /\ TargetsExist'
      BY <2>0, <3>3 DEF UpdateV1, tables, GoneRoleGrantsNothing, TargetsExist, TypeOK, Idle
    <3>4. ASSUME NEW role \in Roles, NEW depts \in SUBSET Depts, UpdateV2(r, role, depts)
          PROVE  GoneRoleGrantsNothing' /\ TargetsExist'
      BY <2>0, <3>4
      DEF UpdateV2, tables, GoneRoleGrantsNothing, TargetsExist, TypeOK, Idle, MenuSteps
    <3>5. ASSUME NEW role \in Roles, NEW menus \in SUBSET Menus, NEW depts \in SUBSET Depts,
                 Update(r, role, menus, depts)
          PROVE  GoneRoleGrantsNothing' /\ TargetsExist'
      BY <2>0, <3>5 DEF Update, tables, GoneRoleGrantsNothing, TargetsExist, TypeOK, Idle
    <3>6. QED
      BY <2>2, <3>1, <3>2, <3>3, <3>4, <3>5 DEF Arrive
  <2>3. ASSUME NEW r \in Requests, Proceed(r)
        PROVE  GoneRoleGrantsNothing' /\ TargetsExist'
    <3>1. ASSUME Commit(Finished(r)), UNCHANGED <<row, orphan>> PROVE TargetsExist'
      <4>1. \A p \in Requests : /\ req'[p].pc = Finished(r)[p].pc
                                /\ req'[p].role = Finished(r)[p].role
        BY <2>0, <3>1, FinishedFit DEF Commit, Request
      <4>2. \A p \in Requests : Finished(r)[p] = IF p = r THEN Idle ELSE req[p]
        BY <2>0 DEF Finished, TypeOK
      <4>3. Idle.pc \notin MenuSteps
        BY DEF Idle, MenuSteps
      <4>4. QED
        BY <3>1, <4>1, <4>2, <4>3 DEF TargetsExist
    <3>2. CASE AddTx(r)
      <4>1. req[r].role \in row \cup orphan
        BY <3>2 DEF AddTx, At, TargetsExist, MenuSteps
      <4>2. QED
        BY <2>0, <3>1, <3>2, <4>1 DEF AddTx, GoneRoleGrantsNothing, TypeOK
    <3>3. CASE ReadMenus(r) \/ ReadOrigin(r)
      BY <2>0, <3>3
      DEF ReadMenus, ReadOrigin, At, tables, GoneRoleGrantsNothing, TargetsExist, TypeOK,
          Request, MenuSteps
    <3>4. CASE MenuTx(r)
      <4>1. req[r].role \in row \cup orphan
        BY <3>4 DEF MenuTx, At, TargetsExist, MenuSteps
      <4>2. QED
        BY <2>0, <3>1, <3>4, <4>1 DEF MenuTx, GoneRoleGrantsNothing, TypeOK
    <3>5. CASE DeptTx(r)
      BY <2>0, <3>1, <3>5 DEF DeptTx, GoneRoleGrantsNothing, TypeOK
    <3>6. CASE UpdateTx(r)
      <4>1. req[r].role \in row \cup orphan
        BY <3>6 DEF UpdateTx, At, TargetsExist, MenuSteps
      <4>2. QED
        BY <2>0, <3>1, <3>6, <4>1 DEF UpdateTx, GoneRoleGrantsNothing, TypeOK
    <3>7. QED
      BY <2>3, <3>2, <3>3, <3>4, <3>5, <3>6 DEF Proceed
  <2>4. ASSUME NEW r \in Requests, Abort(r)
        PROVE  GoneRoleGrantsNothing' /\ TargetsExist'
    BY <2>0, <2>4
    DEF Abort, tables, Finished, Idle, GoneRoleGrantsNothing, TargetsExist, TypeOK, MenuSteps
  <2>5. QED
    BY <2>1, <2>2, <2>3, <2>4 DEF Next
<1>3. QED
  BY <1>1, <1>2, PTL DEF Spec

(* A role that is gone grants nothing, but for the orphans. *)
THEOREM GoneRolesAreEmpty == Spec => []GoneRoleGrantsNothing
  BY TargetsAndRests, PTL

(* A request that is about to write menus writes them for a role that is    *)
(* there, or that was deleted under it.                                    *)
THEOREM TargetsAreThere == Spec => []TargetsExist
  BY TargetsAndRests, PTL

=============================================================================
