------------------------ MODULE AuthSession_proofs ------------------------
(***************************************************************************)
(* Proofs about AuthSession, for any set of users, passwords and request   *)
(* slots and any values of the bounds.                                     *)
(***************************************************************************)
EXTENDS AuthSession, TLAPS

(* Replacing the request in one slot by a well-formed one keeps req typed. *)
LEMMA SlotType ==
  ASSUME req \in [Requests -> Request], NEW r \in Requests, NEW q \in Request,
         req' = [req EXCEPT ![r] = q]
  PROVE  req' \in [Requests -> Request]
  OBVIOUS

(* Writing a typed value under one key of a function keeps it typed. *)
LEMMA KeyType ==
  ASSUME NEW S, NEW T, NEW f \in [S -> T], NEW x, NEW y \in T
  PROVE  [f EXCEPT ![x] = y] \in [S -> T]
  OBVIOUS

(* An empty slot is well formed. *)
LEMMA IdleType == Idle \in Request
  BY VersionAssumption DEF Idle, Request

(* A request keeps its type when a step moves it on and sets typed fields. *)
LEMMA FieldTypes ==
  ASSUME NEW q \in Request, NEW s \in Steps
  PROVE  /\ [q EXCEPT !.pc = s] \in Request
         /\ \A u \in Users : [q EXCEPT !.pc = s, !.user = u] \in Request
         /\ \A t \in Token : [q EXCEPT !.pc = s, !.token = t] \in Request
         /\ \A p \in Passwords : [q EXCEPT !.pc = s, !.pw = p] \in Request
         /\ \A v \in 0 .. MaxPv : [q EXCEPT !.pc = s, !.seen = v] \in Request
         /\ \A u \in Users, p \in Passwords :
              [q EXCEPT !.pc = s, !.user = u, !.pw = p] \in Request
         /\ \A u \in Users, t \in Token :
              [q EXCEPT !.pc = s, !.user = u, !.token = t] \in Request
         /\ \A b \in BOOLEAN : [q EXCEPT !.raced = b] \in Request
<1>1. [q EXCEPT !.pc = s] \in Request
  BY DEF Request
<1>2. ASSUME NEW u \in Users PROVE [q EXCEPT !.pc = s, !.user = u] \in Request
  BY Zenon DEF Request
<1>3. ASSUME NEW t \in Token PROVE [q EXCEPT !.pc = s, !.token = t] \in Request
  BY Zenon DEF Request
<1>4. ASSUME NEW p \in Passwords PROVE [q EXCEPT !.pc = s, !.pw = p] \in Request
  BY Zenon DEF Request
<1>5. ASSUME NEW v \in 0 .. MaxPv PROVE [q EXCEPT !.pc = s, !.seen = v] \in Request
  BY Zenon DEF Request
<1>6. ASSUME NEW u \in Users, NEW p \in Passwords
      PROVE  [q EXCEPT !.pc = s, !.user = u, !.pw = p] \in Request
  BY Zenon DEF Request
<1>7. ASSUME NEW u \in Users, NEW t \in Token
      PROVE  [q EXCEPT !.pc = s, !.user = u, !.token = t] \in Request
  BY Zenon DEF Request
<1>8. ASSUME NEW b \in BOOLEAN PROVE [q EXCEPT !.raced = b] \in Request
  BY DEF Request
<1>9. QED
  BY <1>1, <1>2, <1>3, <1>4, <1>5, <1>6, <1>7, <1>8

(* The invariant holds before the first request. *)
LEMMA InitInv == Init => IInv
<1> SUFFICES ASSUME Init PROVE IInv
  OBVIOUS
<1> USE TimeAssumption, VersionAssumption, NoneAssumption
<1>1. TypeOK
  BY DEF Init, TypeOK, Idle, Request, Status
<1>2. RequestInv
  BY DEF Init, RequestInv, RequestOK, Idle
<1>3. TokenNamesItsUser
  BY DEF Init, TokenNamesItsUser, Idle, At
<1>4. OldPasswordSessionClosed
  BY DEF Init, OldPasswordSessionClosed, Live
<1>5. QED
  BY <1>1, <1>2, <1>3, <1>4 DEF IInv

(* Type correctness is inductive together with RequestInv. *)
LEMMA TypeStep == ASSUME TypeOK, RequestInv, [Next]_vars PROVE TypeOK'
<1> USE TimeAssumption, VersionAssumption, NoneAssumption
<1>1. CASE UNCHANGED vars
  BY <1>1 DEF vars, TypeOK
<1>2. ASSUME NEW r \in Requests, Arrive(r) PROVE TypeOK'
  <2>1. ASSUME NEW u \in Users, LoginCheck(r, u) PROVE TypeOK'
    <3>1. [Idle EXCEPT !.pc = "sign", !.user = u, !.pw = password[u]] \in Request
      BY IdleType, FieldTypes DEF TypeOK, Steps, LoginSteps
    <3>2. req' \in [Requests -> Request]
      BY <2>1, <3>1, SlotType DEF TypeOK, LoginCheck, redis, history
    <3>3. QED
      BY <2>1, <3>2 DEF TypeOK, LoginCheck, redis, history
  <2>2. ASSUME NEW t \in Token, GuardVersion(r, t) PROVE TypeOK'
    <3>1. [Idle EXCEPT !.pc = "guard", !.user = t.uid, !.token = t] \in Request
      <4>1. t.uid \in Users /\ "guard" \in Steps
        BY DEF Token, Steps, GuardSteps
      <4>2. QED
        BY <4>1, IdleType, FieldTypes
    <3>2. req' \in [Requests -> Request]
      BY <2>2, <3>1, SlotType DEF TypeOK, GuardVersion, redis, history
    <3>3. QED
      BY <2>2, <3>2 DEF TypeOK, GuardVersion, redis, history
  <2>3. QED
    BY <1>2, <2>1, <2>2 DEF Arrive
<1>3. ASSUME NEW r \in Requests, Route(r) PROVE TypeOK'
  <2>1. CASE Logout(r)
    BY <2>1 DEF TypeOK, Logout, redis, history, Goto, Request, Steps, ForbiddenSteps
  <2>2. ASSUME NEW v \in Users, Kick(r, v) PROVE TypeOK'
    <3>1. [req[r] EXCEPT !.pc = "delPv", !.user = v] \in Request
      BY FieldTypes DEF TypeOK, Steps, ForbiddenSteps
    <3>2. req' \in [Requests -> Request]
      BY <2>2, <3>1, SlotType DEF TypeOK, Kick, redis, history
    <3>3. QED
      BY <2>2, <3>2 DEF TypeOK, Kick, redis, history
  <2>3. ASSUME NEW q \in Passwords, ChangeOwnPassword(r, q) PROVE TypeOK'
    <3>1. [req[r] EXCEPT !.pc = "pwWrite", !.pw = q] \in Request
      BY FieldTypes DEF TypeOK, Steps, ChangeSteps
    <3>2. req' \in [Requests -> Request]
      BY <2>3, <3>1, SlotType DEF TypeOK, ChangeOwnPassword, redis, history
    <3>3. QED
      BY <2>3, <3>2 DEF TypeOK, ChangeOwnPassword, redis, history
  <2>4. ASSUME NEW v \in Users, NEW q \in Passwords, ForcePassword(r, v, q) PROVE TypeOK'
    <3>1. [req[r] EXCEPT !.pc = "pwWrite", !.user = v, !.pw = q] \in Request
      BY FieldTypes DEF TypeOK, Steps, ChangeSteps
    <3>2. req' \in [Requests -> Request]
      BY <2>4, <3>1, SlotType DEF TypeOK, ForcePassword, redis, history
    <3>3. QED
      BY <2>4, <3>2 DEF TypeOK, ForcePassword, redis, history
  <2>5. ASSUME NEW v \in Users, NEW s \in {"enabled", "disabled"}, SetStatus(r, v, s)
        PROVE  TypeOK'
    BY <2>5 DEF TypeOK, SetStatus, redis, history, Finish, Idle, Request, Status
  <2>6. ASSUME NEW v \in Users, DeleteUser(r, v) PROVE TypeOK'
    BY <2>6 DEF TypeOK, DeleteUser, redis, history, Finish, Idle, Request, Status
  <2>7. QED
    BY <1>3, <2>1, <2>2, <2>3, <2>4, <2>5, <2>6 DEF Route
<1>4. ASSUME NEW r \in Requests, Login(r) PROVE TypeOK'
  <2>1. CASE LoginReuse(r)
    <3>1. [req[r] EXCEPT !.pc = "reply", !.token = tok[Root]] \in Request
      BY <2>1, FieldTypes DEF LoginReuse, RequestInv, RequestOK, At, TypeOK, Steps, LoginSteps
    <3>2. req' \in [Requests -> Request]
      BY <2>1, <3>1, SlotType DEF TypeOK, LoginReuse, redis, history
    <3>3. QED
      BY <2>1, <3>2 DEF TypeOK, LoginReuse, redis, history
  <2>2. CASE LoginSign(r)
    <3> DEFINE t == [uid |-> req[r].user, iat |-> now]
    <3>0. t \in Token
      BY <2>2 DEF LoginSign, RequestInv, RequestOK, At, TypeOK, Token
    <3>1. [req[r] EXCEPT !.pc = "setPv", !.token = t] \in Request
      BY <3>0, FieldTypes DEF TypeOK, Steps, LoginSteps
    <3>2. req' = [req EXCEPT ![r] = [req[r] EXCEPT !.pc = "setPv", !.token = t]]
      BY <2>2 DEF LoginSign
    <3>3. req' \in [Requests -> Request]
      BY <3>1, <3>2, SlotType DEF TypeOK
    <3>4. QED
      BY <2>2, <3>3 DEF TypeOK, LoginSign, redis, history
  <2>3. CASE LoginSetPv(r)
    <3>1. [req[r] EXCEPT !.pc = "setToken"] \in Request
      BY FieldTypes DEF TypeOK, Steps, LoginSteps
    <3>2. req' \in [Requests -> Request]
      BY <2>3, <3>1, SlotType DEF TypeOK, LoginSetPv, Goto
    <3>3. pv' \in [Users -> 0 .. MaxPv]
      <4>1. 1 \in 0 .. MaxPv
        OBVIOUS
      <4>2. pv \in [Users -> 0 .. MaxPv] /\ pv' = [pv EXCEPT ![req[r].user] = 1]
        BY <2>3 DEF TypeOK, LoginSetPv
      <4>3. QED
        BY <4>1, <4>2, KeyType
    <3>4. QED
      BY <2>3, <3>2, <3>3 DEF TypeOK, LoginSetPv, history
  <2>4. CASE LoginSetToken(r)
    <3>1. [req[r] EXCEPT !.pc = "setPerms"] \in Request
      BY DEF TypeOK, Request, Steps, LoginSteps
    <3>2. req' \in [Requests -> Request]
      BY <2>4, <3>1, SlotType DEF TypeOK, LoginSetToken, Goto
    <3>3. req[r].user \in Users /\ req[r].token \in Token /\ req[r].pw \in Passwords
      BY <2>4 DEF LoginSetToken, RequestInv, RequestOK, At
    <3>4. QED
      BY <2>4, <3>2, <3>3 DEF TypeOK, LoginSetToken
  <2>5. CASE LoginSetPerms(r)
    <3>1. [req[r] EXCEPT !.pc = "reply"] \in Request
      BY <2>5 DEF TypeOK, Request, Steps, LoginSteps
    <3>2. req' \in [Requests -> Request]
      BY <2>5, <3>1, SlotType DEF TypeOK, LoginSetPerms, Goto, history
    <3>3. QED
      BY <2>5, <3>2 DEF TypeOK, LoginSetPerms, Goto, history
  <2>6. CASE LoginReply(r)
    <3>1. req' \in [Requests -> Request]
      BY <2>6, IdleType, SlotType DEF TypeOK, LoginReply, Finish
    <3>2. req[r].token \in Token
      BY <2>6 DEF LoginReply, RequestInv, RequestOK, At
    <3>3. QED
      BY <2>6, <3>1, <3>2 DEF TypeOK, LoginReply, redis, history
  <2>7. QED
    BY <1>4, <2>1, <2>2, <2>3, <2>4, <2>5, <2>6 DEF Login
<1>5. ASSUME NEW r \in Requests, Guard(r) PROVE TypeOK'
  <2>1. /\ [req[r] EXCEPT !.pc = "admitted"] \in Request
        /\ [req[r] EXCEPT !.pc = "permitted"] \in Request
    BY DEF TypeOK, Request, Steps, GuardSteps
  <2>2. req' \in [Requests -> Request]
    BY <1>5, <2>1, IdleType, SlotType
       DEF Guard, GuardToken, GuardPerms, OtherHandler, Goto, Finish, TypeOK
  <2>3. QED
    BY <1>5, <2>2 DEF Guard, GuardToken, GuardPerms, OtherHandler, TypeOK, redis, history
<1>6. ASSUME NEW r \in Requests, Forbidden(r) PROVE TypeOK'
  <2>1. /\ [req[r] EXCEPT !.pc = "delToken"] \in Request
        /\ [req[r] EXCEPT !.pc = "delPerms"] \in Request
    BY DEF TypeOK, Request, Steps, ForbiddenSteps
  <2>2. req' \in [Requests -> Request]
    BY <1>6, <2>1, IdleType, SlotType
       DEF Forbidden, DelPv, DelToken, DelPerms, Goto, Finish, TypeOK
  <2>3. /\ pv' \in [Users -> 0 .. MaxPv]
        /\ tok' \in [Users -> Token \cup {None}]
        /\ perms' \in [Users -> BOOLEAN]
    <3>1. 0 \in 0 .. MaxPv
      OBVIOUS
    <3>2. /\ pv' = pv \/ pv' = [pv EXCEPT ![req[r].user] = 0]
          /\ tok' = tok \/ tok' = [tok EXCEPT ![req[r].user] = None]
          /\ perms' = perms \/ perms' = [perms EXCEPT ![req[r].user] = FALSE]
      BY <1>6 DEF Forbidden, DelPv, DelToken, DelPerms
    <3>3. pv' \in [Users -> 0 .. MaxPv]
      BY <3>1, <3>2, KeyType DEF TypeOK
    <3>4. tok' \in [Users -> Token \cup {None}]
      BY <3>2, KeyType DEF TypeOK
    <3>5. perms' \in [Users -> BOOLEAN]
      BY <3>2, KeyType DEF TypeOK
    <3>6. QED
      BY <3>3, <3>4, <3>5
  <2>4. QED
    BY <1>6, <2>2, <2>3 DEF Forbidden, DelPv, DelToken, DelPerms, TypeOK, history
<1>7. ASSUME NEW r \in Requests, Change(r) PROVE TypeOK'
  <2>1. CASE PwWrite(r)
    <3>1. CASE account[req[r].user] = "deleted"
      <4>1. req' \in [Requests -> Request]
        BY <2>1, <3>1, IdleType, SlotType DEF TypeOK, PwWrite, Finish
      <4>2. QED
        BY <2>1, <3>1, <4>1 DEF PwWrite, TypeOK, redis, history
    <3>2. CASE account[req[r].user] # "deleted"
      <4>1. ASSUME NEW q \in Requests
            PROVE  /\ [req[q] EXCEPT !.pc = "pvGet"] \in Request
                   /\ [req[q] EXCEPT !.raced = @ \/ LoggingIn(q, req[r].user)] \in Request
        BY FieldTypes DEF TypeOK, Steps, ChangeSteps, LoggingIn
      <4>2. req' \in [Requests -> Request]
        <5>1. req' = [q \in Requests |->
                       IF q = r THEN [req[q] EXCEPT !.pc = "pvGet"]
                       ELSE [req[q] EXCEPT !.raced = @ \/ LoggingIn(q, req[r].user)]]
          BY <2>1, <3>2 DEF PwWrite
        <5>2. QED
          BY <4>1, <5>1
      <4>3. req[r].pw \in Passwords
        BY <2>1 DEF PwWrite, RequestInv, RequestOK, At
      <4>4. QED
        BY <2>1, <3>2, <4>2, <4>3 DEF PwWrite, TypeOK, redis, history
    <3>3. QED
      BY <3>1, <3>2
  <2>2. CASE PvGet(r)
    <3> DEFINE v == pv[req[r].user]
    <3>1. v \in 0 .. MaxPv
      BY <2>2 DEF PvGet, At, RequestInv, RequestOK, TypeOK
    <3>2. [req[r] EXCEPT !.pc = "pvSet", !.seen = v] \in Request
      BY <3>1, FieldTypes DEF TypeOK, Steps, ChangeSteps
    <3>3. \/ req' = [req EXCEPT ![r] = Idle]
          \/ req' = [req EXCEPT ![r] = [req[r] EXCEPT !.pc = "pvSet", !.seen = v]]
      BY <2>2 DEF PvGet, Finish
    <3>4. req' \in [Requests -> Request]
      BY <3>2, <3>3, IdleType, SlotType DEF TypeOK
    <3>5. QED
      BY <2>2, <3>4 DEF PvGet, TypeOK, redis, history
  <2>3. CASE PvSet(r)
    <3>1. req' \in [Requests -> Request]
      BY <2>3, IdleType, SlotType DEF TypeOK, PvSet, Finish
    <3>2. req[r].seen \in 0 .. MaxPv
      BY DEF TypeOK, Request
    <3>3. NextVersion(req[r].seen) \in 0 .. MaxPv
      BY <3>2 DEF NextVersion
    <3>4. QED
      BY <2>3, <3>1, <3>3 DEF PvSet, TypeOK, history
  <2>4. QED
    BY <1>7, <2>1, <2>2, <2>3 DEF Change
<1>8. ASSUME NEW r \in Requests, Abort(r) PROVE TypeOK'
  <2>1. req' \in [Requests -> Request]
    BY <1>8, IdleType, SlotType DEF TypeOK, Abort, Finish
  <2>2. req[r].pc \in {"pvGet", "pvSet", "setToken"} => req[r].user \in Users
    BY DEF RequestInv, RequestOK
  <2>3. QED
    BY <1>8, <2>1, <2>2 DEF Abort, TypeOK, redis
<1>9. ASSUME NEW u \in Users, TokenExpires(u) PROVE TypeOK'
  BY <1>9 DEF TokenExpires, TypeOK, history
<1>10. CASE Tick
  BY <1>10 DEF Tick, TypeOK, redis, history
<1>11. QED
  BY <1>1, <1>2, <1>3, <1>4, <1>5, <1>6, <1>7, <1>8, <1>9, <1>10 DEF Next, Proceed
(* A step that leaves the passwords alone and moves one request keeps the  *)
(* other requests' facts.                                                  *)
LEMMA SlotInv ==
  ASSUME TypeOK, RequestInv, NEW r \in Requests, NEW q \in Request,
         req' = [req EXCEPT ![r] = q], UNCHANGED password, RequestOK(q)
  PROVE  RequestInv'
<1>1. \A p \in Requests : req'[p] = IF p = r THEN q ELSE req[p]
  BY DEF TypeOK
<1>2. \A p \in Requests : RequestOK(req'[p])
  BY <1>1 DEF RequestInv
<1>3. QED
  BY <1>2 DEF RequestInv, RequestOK

(* An empty slot claims nothing. *)
LEMMA IdleOK == RequestOK(Idle)
  BY DEF RequestOK, Idle

(* RequestInv is preserved by every step. *)
LEMMA RequestStep ==
  ASSUME TypeOK, RequestInv, TokenNamesItsUser, [Next]_vars
  PROVE  RequestInv'
<1> USE NoneAssumption
<1>1. CASE UNCHANGED vars
  BY <1>1 DEF vars, RequestInv, RequestOK
<1>2. ASSUME NEW r \in Requests, Arrive(r) PROVE RequestInv'
  <2>1. ASSUME NEW u \in Users, LoginCheck(r, u) PROVE RequestInv'
    <3> DEFINE q == [Idle EXCEPT !.pc = "sign", !.user = u, !.pw = password[u]]
    <3>1. q \in Request /\ password[u] \in Passwords
      BY IdleType, FieldTypes DEF TypeOK, Steps, LoginSteps
    <3>2. RequestOK(q)
      BY <3>1 DEF RequestOK, Idle
    <3>3. req' = [req EXCEPT ![r] = q] /\ UNCHANGED password
      BY <2>1 DEF LoginCheck
    <3>4. QED
      BY <3>1, <3>2, <3>3, SlotInv
  <2>2. ASSUME NEW t \in Token, GuardVersion(r, t) PROVE RequestInv'
    <3> DEFINE q == [Idle EXCEPT !.pc = "guard", !.user = t.uid, !.token = t]
    <3>1. t.uid \in Users /\ "guard" \in Steps
      BY DEF Token, Steps, GuardSteps
    <3>2. q \in Request
      BY <3>1, IdleType, FieldTypes
    <3>3. RequestOK(q)
      BY <3>1 DEF RequestOK, Idle
    <3>4. req' = [req EXCEPT ![r] = q] /\ UNCHANGED password
      BY <2>2 DEF GuardVersion
    <3>5. QED
      BY <3>2, <3>3, <3>4, SlotInv
  <2>3. QED
    BY <1>2, <2>1, <2>2 DEF Arrive
<1>3. ASSUME NEW r \in Requests, Route(r) PROVE RequestInv'
  <2>0. req[r] \in Request
    BY DEF TypeOK
  <2>1. CASE Logout(r)
    <3>1. [req[r] EXCEPT !.pc = "delPv"] \in Request
      BY <2>0, FieldTypes DEF Steps, ForbiddenSteps
    <3>2. RequestOK([req[r] EXCEPT !.pc = "delPv"])
      BY <2>0, <2>1 DEF Logout, At, RequestInv, RequestOK, Request
    <3>3. QED
      BY <2>1, <3>1, <3>2, SlotInv DEF Logout, Goto
  <2>2. ASSUME NEW v \in Users, Kick(r, v) PROVE RequestInv'
    <3>1. [req[r] EXCEPT !.pc = "delPv", !.user = v] \in Request
      BY <2>0, FieldTypes DEF Steps, ForbiddenSteps
    <3>2. RequestOK([req[r] EXCEPT !.pc = "delPv", !.user = v])
      BY <2>0 DEF RequestOK, Request
    <3>3. QED
      BY <2>2, <3>1, <3>2, SlotInv DEF Kick
  <2>3. ASSUME NEW q \in Passwords, ChangeOwnPassword(r, q) PROVE RequestInv'
    <3>1. [req[r] EXCEPT !.pc = "pwWrite", !.pw = q] \in Request
      BY <2>0, FieldTypes DEF Steps, ChangeSteps
    <3>2. RequestOK([req[r] EXCEPT !.pc = "pwWrite", !.pw = q])
      BY <2>0, <2>3 DEF ChangeOwnPassword, At, RequestInv, RequestOK, Request
    <3>3. QED
      BY <2>3, <3>1, <3>2, SlotInv DEF ChangeOwnPassword
  <2>4. ASSUME NEW v \in Users, NEW q \in Passwords, ForcePassword(r, v, q)
        PROVE  RequestInv'
    <3>1. [req[r] EXCEPT !.pc = "pwWrite", !.user = v, !.pw = q] \in Request
      BY <2>0, FieldTypes DEF Steps, ChangeSteps
    <3>2. RequestOK([req[r] EXCEPT !.pc = "pwWrite", !.user = v, !.pw = q])
      BY <2>0 DEF RequestOK, Request
    <3>3. QED
      BY <2>4, <3>1, <3>2, SlotInv DEF ForcePassword
  <2>5. ASSUME NEW v \in Users,
               \/ \E s \in {"enabled", "disabled"} : SetStatus(r, v, s)
               \/ DeleteUser(r, v)
        PROVE  RequestInv'
    BY <2>5, IdleType, IdleOK, SlotInv DEF SetStatus, DeleteUser, Finish
  <2>6. QED
    BY <1>3, <2>1, <2>2, <2>3, <2>4, <2>5 DEF Route
<1>4. ASSUME NEW r \in Requests, Login(r) PROVE RequestInv'
  <2>0. req[r] \in Request /\ RequestOK(req[r])
    BY DEF TypeOK, RequestInv
  <2>1. CASE LoginReuse(r)
    <3> DEFINE q == [req[r] EXCEPT !.pc = "reply", !.token = tok[Root]]
    <3>1. req[r].user = Root /\ Root \in Users /\ tok[Root] \in Token /\ tok[Root].uid = Root
      BY <2>0, <2>1 DEF LoginReuse, At, RequestOK, TypeOK, TokenNamesItsUser
    <3>2. q \in Request
      BY <2>0, <3>1, FieldTypes DEF Steps, LoginSteps
    <3>3. RequestOK(q)
      BY <2>0, <3>1 DEF RequestOK, Request
    <3>4. QED
      BY <2>1, <3>2, <3>3, SlotInv DEF LoginReuse
  <2>2. CASE LoginSign(r)
    <3> DEFINE t == [uid |-> req[r].user, iat |-> now]
    <3> DEFINE q == [req[r] EXCEPT !.pc = "setPv", !.token = t]
    <3>1. t \in Token /\ t.uid = req[r].user /\ req[r].pc = "sign"
      BY <2>0, <2>2 DEF LoginSign, RequestOK, At, TypeOK, Token
    <3>2. q \in Request
      BY <2>0, <3>1, FieldTypes DEF Steps, LoginSteps
    <3>3. RequestOK(q)
      <4>1. q.pc = "setPv" /\ q.token = t /\ q.user = req[r].user /\ q.pw = req[r].pw
            /\ q.raced = req[r].raced
        BY <2>0 DEF Request
      <4>2. QED
        BY <2>0, <3>1, <4>1 DEF RequestOK
    <3>4. req' = [req EXCEPT ![r] = q] /\ UNCHANGED password
      BY <2>2 DEF LoginSign
    <3>5. QED
      BY <3>2, <3>3, <3>4, SlotInv
  <2>3. CASE LoginSetPv(r) \/ LoginSetToken(r) \/ LoginSetPerms(r)
    <3>1. PICK s \in {"setToken", "setPerms", "reply"} :
            /\ req' = [req EXCEPT ![r].pc = s]
            /\ req[r].pc = CASE s = "setToken" -> "setPv"
                             [] s = "setPerms" -> "setToken"
                             [] s = "reply" -> "setPerms"
            /\ UNCHANGED password
      BY <2>3 DEF LoginSetPv, LoginSetToken, LoginSetPerms, Goto, At
    <3>2. [req[r] EXCEPT !.pc = s] \in Request
      BY <2>0, FieldTypes DEF Steps, LoginSteps
    <3>3. RequestOK([req[r] EXCEPT !.pc = s])
      BY <2>0, <3>1 DEF RequestOK, Request
    <3>4. QED
      BY <3>1, <3>2, <3>3, SlotInv
  <2>4. CASE LoginReply(r)
    BY <2>4, IdleType, IdleOK, SlotInv DEF LoginReply, Finish
  <2>5. QED
    BY <1>4, <2>1, <2>2, <2>3, <2>4 DEF Login
<1>5. ASSUME NEW r \in Requests, Guard(r) PROVE RequestInv'
  <2>0. req[r] \in Request /\ RequestOK(req[r])
    BY DEF TypeOK, RequestInv
  <2>1. \/ req' = [req EXCEPT ![r] = Idle]
        \/ \E s \in {"admitted", "permitted"} :
             req[r].pc # "idle" /\ req' = [req EXCEPT ![r].pc = s]
    BY <1>5 DEF Guard, GuardToken, GuardPerms, OtherHandler, Goto, Finish, At
  <2>2. UNCHANGED password
    BY <1>5 DEF Guard, GuardToken, GuardPerms, OtherHandler
  <2>3. CASE req' = [req EXCEPT ![r] = Idle]
    BY <2>2, <2>3, IdleType, IdleOK, SlotInv
  <2>4. ASSUME NEW s \in {"admitted", "permitted"},
               req[r].pc # "idle", req' = [req EXCEPT ![r].pc = s]
        PROVE  RequestInv'
    <3>1. [req[r] EXCEPT !.pc = s] \in Request
      BY <2>0, FieldTypes DEF Steps, GuardSteps
    <3>2. RequestOK([req[r] EXCEPT !.pc = s])
      BY <2>0, <2>4 DEF RequestOK, Request
    <3>3. QED
      BY <2>2, <2>4, <3>1, <3>2, SlotInv
  <2>5. QED
    BY <2>1, <2>3, <2>4
<1>6. ASSUME NEW r \in Requests, Forbidden(r) PROVE RequestInv'
  <2>0. req[r] \in Request /\ RequestOK(req[r])
    BY DEF TypeOK, RequestInv
  <2>1. \/ req' = [req EXCEPT ![r] = Idle]
        \/ \E s \in {"delToken", "delPerms"} :
             req[r].pc # "idle" /\ req' = [req EXCEPT ![r].pc = s]
    BY <1>6 DEF Forbidden, DelPv, DelToken, DelPerms, Goto, Finish, At
  <2>2. UNCHANGED password
    BY <1>6 DEF Forbidden, DelPv, DelToken, DelPerms
  <2>3. CASE req' = [req EXCEPT ![r] = Idle]
    BY <2>2, <2>3, IdleType, IdleOK, SlotInv
  <2>4. ASSUME NEW s \in {"delToken", "delPerms"},
               req[r].pc # "idle", req' = [req EXCEPT ![r].pc = s]
        PROVE  RequestInv'
    <3>1. [req[r] EXCEPT !.pc = s] \in Request
      BY <2>0, FieldTypes DEF Steps, ForbiddenSteps
    <3>2. RequestOK([req[r] EXCEPT !.pc = s])
      BY <2>0, <2>4 DEF RequestOK, Request
    <3>3. QED
      BY <2>2, <2>4, <3>1, <3>2, SlotInv
  <2>5. QED
    BY <2>1, <2>3, <2>4
<1>7. ASSUME NEW r \in Requests, Change(r) PROVE RequestInv'
  <2>0. req[r] \in Request /\ RequestOK(req[r])
    BY DEF TypeOK, RequestInv
  <2>1. CASE PwWrite(r)
    <3> DEFINE u == req[r].user
    <3>1. CASE account[u] = "deleted"
      BY <2>1, <3>1, IdleType, IdleOK, SlotInv DEF PwWrite, Finish
    <3>2. CASE account[u] # "deleted"
      <4>1. /\ password' = [password EXCEPT ![u] = req[r].pw]
            /\ req' = [q \in Requests |->
                         IF q = r THEN [req[q] EXCEPT !.pc = "pvGet"]
                         ELSE [req[q] EXCEPT !.raced = @ \/ LoggingIn(q, u)]]
            /\ req[r].pc = "pwWrite"
        BY <2>1, <3>2 DEF PwWrite, At
      <4>2. ASSUME NEW q \in Requests PROVE RequestOK(req[q])'
        <5>1. req[q] \in Request /\ RequestOK(req[q])
          BY DEF TypeOK, RequestInv
        <5>2. CASE q = r
          <6>1. req'[q].pc = "pvGet" /\ req'[q].user = req[q].user
            BY <4>1, <5>1, <5>2 DEF Request
          <6>2. QED
            BY <4>1, <5>1, <5>2, <6>1 DEF RequestOK
        <5>3. CASE q # r
          <6>1. /\ req'[q].pc = req[q].pc
                /\ req'[q].user = req[q].user
                /\ req'[q].token = req[q].token
                /\ req'[q].pw = req[q].pw
                /\ req'[q].seen = req[q].seen
                /\ req'[q].raced = (req[q].raced \/ LoggingIn(q, u))
            BY <4>1, <5>1, <5>3 DEF Request
          <6>2. req[q].pc \in {"sign", "setPv", "setToken"} =>
                  req[q].pw = password'[req[q].user] \/ req'[q].raced
            BY <4>1, <5>1, <6>1 DEF RequestOK, LoggingIn, LoginSteps, TypeOK
          <6>3. QED
            BY <5>1, <6>1, <6>2 DEF RequestOK
        <5>4. QED
          BY <5>2, <5>3
      <4>3. QED
        BY <4>2 DEF RequestInv
    <3>3. QED
      BY <3>1, <3>2
  <2>2. CASE PvGet(r)
    <3> DEFINE v == pv[req[r].user]
    <3>1. v \in 0 .. MaxPv
      BY <2>0, <2>2 DEF PvGet, At, RequestOK, TypeOK
    <3>2. CASE v = 0
      BY <2>2, <3>2, IdleType, IdleOK, SlotInv DEF PvGet, Finish
    <3>3. CASE v # 0
      <4> DEFINE q == [req[r] EXCEPT !.pc = "pvSet", !.seen = v]
      <4>1. q \in Request
        BY <2>0, <3>1, FieldTypes DEF Steps, ChangeSteps
      <4>2. RequestOK(q)
        <5>1. q.pc = "pvSet" /\ q.seen = v /\ q.user = req[r].user
          BY <2>0 DEF Request
        <5>2. v > 0
          BY <3>1, <3>3, VersionAssumption
        <5>3. QED
          BY <2>0, <2>2, <5>1, <5>2 DEF PvGet, At, RequestOK
      <4>3. req' = [req EXCEPT ![r] = q] /\ UNCHANGED password
        BY <2>2, <3>3 DEF PvGet
      <4>4. QED
        BY <4>1, <4>2, <4>3, SlotInv
    <3>4. QED
      BY <3>2, <3>3
  <2>3. CASE PvSet(r)
    BY <2>3, IdleType, IdleOK, SlotInv DEF PvSet, Finish
  <2>4. QED
    BY <1>7, <2>1, <2>2, <2>3 DEF Change
<1>8. ASSUME NEW r \in Requests, Abort(r) PROVE RequestInv'
  BY <1>8, IdleType, IdleOK, SlotInv DEF Abort, Finish
<1>9. ASSUME NEW u \in Users, TokenExpires(u) PROVE RequestInv'
  BY <1>9 DEF TokenExpires, RequestInv, RequestOK
<1>10. CASE Tick
  BY <1>10 DEF Tick, RequestInv, RequestOK
<1>11. QED
  BY <1>1, <1>2, <1>3, <1>4, <1>5, <1>6, <1>7, <1>8, <1>9, <1>10 DEF Next, Proceed

(* Who writes the token keys. *)
LEMMA TokenWriters ==
  ASSUME [Next]_vars
  PROVE  \/ UNCHANGED tok
         \/ \E r \in Requests : LoginSetToken(r) \/ DelToken(r)
         \/ \E u \in Users : TokenExpires(u)
<1>1. CASE UNCHANGED vars
  BY <1>1 DEF vars
<1>2. ASSUME NEW r \in Requests, Arrive(r) \/ Route(r) PROVE UNCHANGED tok
  BY <1>2 DEF Arrive, Route, LoginCheck, GuardVersion, Logout, Kick, ChangeOwnPassword,
              ForcePassword, SetStatus, DeleteUser, redis
<1>3. ASSUME NEW r \in Requests, Proceed(r), ~LoginSetToken(r), ~DelToken(r)
      PROVE  UNCHANGED tok
  BY <1>3 DEF Proceed, Login, LoginReuse, LoginSign, LoginSetPv, LoginSetPerms, LoginReply,
              Guard, GuardToken, GuardPerms, OtherHandler, Forbidden, DelPv, DelPerms,
              Change, PwWrite, PvGet, PvSet, redis
<1>4. ASSUME NEW r \in Requests, Abort(r) PROVE UNCHANGED tok
  BY <1>4 DEF Abort, redis
<1>5. CASE Tick
  BY <1>5 DEF Tick, redis
<1>6. QED
  BY <1>1, <1>2, <1>3, <1>4, <1>5 DEF Next

(* Who writes the version keys. *)
LEMMA VersionWriters ==
  ASSUME [Next]_vars
  PROVE  \/ UNCHANGED pv
         \/ \E r \in Requests : LoginSetPv(r) \/ DelPv(r) \/ PvSet(r)
<1>1. CASE UNCHANGED vars
  BY <1>1 DEF vars
<1>2. ASSUME NEW r \in Requests, Arrive(r) \/ Route(r) PROVE UNCHANGED pv
  BY <1>2 DEF Arrive, Route, LoginCheck, GuardVersion, Logout, Kick, ChangeOwnPassword,
              ForcePassword, SetStatus, DeleteUser, redis
<1>3. ASSUME NEW r \in Requests, Proceed(r), ~LoginSetPv(r), ~DelPv(r), ~PvSet(r)
      PROVE  UNCHANGED pv
  BY <1>3 DEF Proceed, Login, LoginReuse, LoginSign, LoginSetToken, LoginSetPerms, LoginReply,
              Guard, GuardToken, GuardPerms, OtherHandler, Forbidden, DelToken, DelPerms,
              Change, PwWrite, PvGet, redis
<1>4. ASSUME NEW r \in Requests, Abort(r) PROVE UNCHANGED pv
  BY <1>4 DEF Abort, redis
<1>5. ASSUME NEW u \in Users, TokenExpires(u) PROVE UNCHANGED pv
  BY <1>5 DEF TokenExpires
<1>6. CASE Tick
  BY <1>6 DEF Tick, redis
<1>7. QED
  BY <1>1, <1>2, <1>3, <1>4, <1>5, <1>6 DEF Next

(* TokenNamesItsUser is preserved: the only writer of a token key is a     *)
(* login that signed or found a token of its own user.                     *)
LEMMA TokenStep ==
  ASSUME TypeOK, RequestInv, RequestInv', TokenNamesItsUser, [Next]_vars
  PROVE  TokenNamesItsUser'
<1> SUFFICES \A u \in Users : tok'[u] # None => tok'[u].uid = u
  <2>1. \A r \in Requests : At(r, "reply")' => req'[r].token.uid = req'[r].user
    BY DEF RequestInv, RequestOK, At
  <2>2. QED
    BY <2>1 DEF TokenNamesItsUser
<1>1. ASSUME NEW r \in Requests, LoginSetToken(r)
      PROVE  \A u \in Users : tok'[u] # None => tok'[u].uid = u
  BY <1>1 DEF LoginSetToken, At, RequestInv, RequestOK, TokenNamesItsUser, TypeOK
<1>2. ASSUME NEW r \in Requests, DelToken(r)
      PROVE  \A u \in Users : tok'[u] # None => tok'[u].uid = u
  BY <1>2 DEF DelToken, TokenNamesItsUser, TypeOK
<1>3. ASSUME NEW v \in Users, TokenExpires(v)
      PROVE  \A u \in Users : tok'[u] # None => tok'[u].uid = u
  BY <1>3 DEF TokenExpires, TokenNamesItsUser, TypeOK
<1>4. CASE UNCHANGED tok
  BY <1>4 DEF TokenNamesItsUser
<1>5. QED
  BY <1>1, <1>2, <1>3, <1>4, TokenWriters

(* The exceptions of OldPasswordSessionClosed that a request in progress   *)
(* stands for.                                                             *)
Watched(q, u) == ChangePending(q, u) \/ (req[q].user = u /\ At(q, "setToken"))

(* A request keeps its exception as long as its slot keeps its place.      *)
LEMMA WatchedKept ==
  ASSUME NEW q, NEW u, Watched(q, u),
         req'[q].pc = req[q].pc, req'[q].user = req[q].user
  PROVE  Watched(q, u)'
  BY DEF Watched, ChangePending, At

(* OldPasswordSessionClosed is preserved by every step. *)
LEMMA OldPasswordStep ==
  ASSUME TypeOK, RequestInv, OldPasswordSessionClosed, [Next]_vars
  PROVE  OldPasswordSessionClosed'
<1> SUFFICES ASSUME NEW u \in Users, Live(u)', openedWith'[u] # password'[u]
             PROVE  u \in excused' \/ \E q \in Requests : Watched(q, u)'
  BY DEF OldPasswordSessionClosed, Watched
<1>0. Live(u) /\ openedWith[u] # password[u] =>
        u \in excused \/ \E q \in Requests : Watched(q, u)
  BY DEF OldPasswordSessionClosed, Watched
<1>1. CASE UNCHANGED vars
  BY <1>0, <1>1, WatchedKept DEF vars, Live
<1>2. ASSUME NEW r \in Requests,
             UNCHANGED <<password, pv, tok, history>>,
             req[r].pc \notin {"setToken", "pvGet", "pvSet"},
             \A q \in Requests \ {r} : req'[q] = req[q]
      PROVE  u \in excused' \/ \E q \in Requests : Watched(q, u)'
  <2>1. CASE u \in excused
    BY <1>2, <2>1 DEF history
  <2>2. ASSUME NEW q \in Requests, Watched(q, u) PROVE Watched(q, u)'
    <3>1. q # r
      BY <1>2, <2>2 DEF Watched, ChangePending, At
    <3>2. QED
      BY <1>2, <2>2, <3>1, WatchedKept
  <2>3. QED
    BY <1>0, <1>2, <2>1, <2>2 DEF Live, history
<1>3. ASSUME NEW r \in Requests, Arrive(r) \/ Route(r) \/ Guard(r)
      PROVE  u \in excused' \/ \E q \in Requests : Watched(q, u)'
  <2>1. UNCHANGED <<password, pv, tok, history>>
    BY <1>3 DEF Arrive, Route, Guard, LoginCheck, GuardVersion, Logout, Kick,
                ChangeOwnPassword, ForcePassword, SetStatus, DeleteUser,
                GuardToken, GuardPerms, OtherHandler, redis
  <2>2. req[r].pc \notin {"setToken", "pvGet", "pvSet"}
    BY <1>3 DEF Arrive, Route, Guard, LoginCheck, GuardVersion, Logout, Kick,
                ChangeOwnPassword, ForcePassword, SetStatus, DeleteUser,
                GuardToken, GuardPerms, OtherHandler, At
  <2>3. \A q \in Requests \ {r} : req'[q] = req[q]
    BY <1>3 DEF TypeOK, Arrive, Route, Guard, LoginCheck, GuardVersion, Logout, Kick,
                ChangeOwnPassword, ForcePassword, SetStatus, DeleteUser,
                GuardToken, GuardPerms, OtherHandler, Goto, Finish
  <2>4. QED
    BY <1>2, <2>1, <2>2, <2>3
<1>4. ASSUME NEW r \in Requests, Login(r)
      PROVE  u \in excused' \/ \E q \in Requests : Watched(q, u)'
  <2>0. \A q \in Requests \ {r} : req'[q] = req[q]
    BY <1>4 DEF TypeOK, Login, LoginReuse, LoginSign, LoginSetPv, LoginSetToken,
                LoginSetPerms, LoginReply, Goto, Finish
  <2>1. CASE LoginReuse(r) \/ LoginSign(r) \/ LoginSetPerms(r) \/ LoginReply(r)
    <3>1. /\ UNCHANGED <<password, pv, tok, history>>
          /\ req[r].pc \notin {"setToken", "pvGet", "pvSet"}
      BY <2>1 DEF LoginReuse, LoginSign, LoginSetPerms, LoginReply, At, redis
    <3>2. QED
      BY <1>2, <2>0, <3>1
  <2>2. CASE LoginSetPv(r)
    <3>1. CASE req[r].user = u
      <4>1. req'[r].pc = "setToken" /\ req'[r].user = u
        BY <2>2, <3>1 DEF LoginSetPv, Goto, TypeOK, Request
      <4>2. QED
        BY <4>1 DEF Watched, At
    <3>2. CASE req[r].user # u
      <4>1. Live(u) /\ openedWith[u] # password[u] /\ excused' = excused
        BY <2>2, <3>2 DEF LoginSetPv, Live, TypeOK, history
      <4>2. ASSUME NEW q \in Requests, Watched(q, u) PROVE Watched(q, u)'
        BY <2>0, <3>2, <4>2, WatchedKept DEF Watched, ChangePending
      <4>3. QED
        BY <1>0, <4>1, <4>2
    <3>3. QED
      BY <3>1, <3>2
  <2>3. CASE LoginSetToken(r)
    <3>1. CASE req[r].user = u
      <4>1. req[r].pw = password[u] \/ req[r].raced
        BY <2>3, <3>1 DEF LoginSetToken, At, RequestInv, RequestOK
      <4>2. openedWith'[u] = req[r].pw /\ password' = password
        BY <2>3, <3>1 DEF LoginSetToken, TypeOK
      <4>3. req[r].raced
        BY <4>1, <4>2
      <4>4. QED
        BY <2>3, <3>1, <4>3 DEF LoginSetToken
    <3>2. CASE req[r].user # u
      <4>1. /\ Live(u) /\ openedWith[u] # password[u]
            /\ u \in excused => u \in excused'
        BY <2>3, <3>2 DEF LoginSetToken, Live, TypeOK
      <4>2. ASSUME NEW q \in Requests, Watched(q, u) PROVE Watched(q, u)'
        BY <2>0, <3>2, <4>2, WatchedKept DEF Watched, ChangePending
      <4>3. QED
        BY <1>0, <4>1, <4>2
    <3>3. QED
      BY <3>1, <3>2
  <2>4. QED
    BY <1>4, <2>1, <2>2, <2>3 DEF Login
<1>5. ASSUME NEW r \in Requests, Forbidden(r)
      PROVE  u \in excused' \/ \E q \in Requests : Watched(q, u)'
  <2>1. /\ \A q \in Requests \ {r} : req'[q] = req[q]
        /\ req[r].pc \notin {"setToken", "pvGet", "pvSet"}
        /\ UNCHANGED <<password, history>>
    BY <1>5 DEF Forbidden, DelPv, DelToken, DelPerms, Goto, Finish, TypeOK, At
  <2>2. Live(u)
    BY <1>5 DEF Forbidden, DelPv, DelToken, DelPerms, Live, TypeOK
  <2>3. ASSUME NEW q \in Requests, Watched(q, u) PROVE Watched(q, u)'
    BY <2>1, <2>3, WatchedKept DEF Watched, ChangePending, At
  <2>4. QED
    BY <1>0, <2>1, <2>2, <2>3 DEF history
<1>6. ASSUME NEW r \in Requests, Change(r)
      PROVE  u \in excused' \/ \E q \in Requests : Watched(q, u)'
  <2>0. req[r] \in Request /\ RequestOK(req[r])
    BY DEF TypeOK, RequestInv
  <2>1. CASE PwWrite(r)
    <3>1. CASE account[req[r].user] = "deleted"
      BY <1>2, <2>1, <3>1 DEF PwWrite, Finish, At, redis, TypeOK
    <3>2. CASE account[req[r].user] # "deleted"
      <4>1. /\ password' = [password EXCEPT ![req[r].user] = req[r].pw]
            /\ req' = [q \in Requests |->
                         IF q = r THEN [req[q] EXCEPT !.pc = "pvGet"]
                         ELSE [req[q] EXCEPT !.raced = @ \/ LoggingIn(q, req[r].user)]]
            /\ UNCHANGED <<pv, tok, excused, openedWith>>
            /\ req[r].pc = "pwWrite"
        BY <2>1, <3>2 DEF PwWrite, At, redis, history
      <4>2. CASE req[r].user = u
        <5>1. req'[r].pc = "pvGet" /\ req'[r].user = u
          BY <2>0, <4>1, <4>2 DEF Request
        <5>2. QED
          BY <5>1 DEF Watched, ChangePending
      <4>3. CASE req[r].user # u
        <5>1. Live(u) /\ openedWith[u] # password[u]
          BY <4>1, <4>3 DEF Live, TypeOK
        <5>2. ASSUME NEW q \in Requests, Watched(q, u) PROVE Watched(q, u)'
          <6>1. q # r /\ req[q] \in Request
            BY <4>3, <5>2 DEF Watched, ChangePending, TypeOK
          <6>2. req'[q].pc = req[q].pc /\ req'[q].user = req[q].user
            BY <4>1, <6>1 DEF Request
          <6>3. QED
            BY <5>2, <6>2, WatchedKept
        <5>3. QED
          BY <1>0, <4>1, <5>1, <5>2
      <4>4. QED
        BY <4>2, <4>3
    <3>3. QED
      BY <3>1, <3>2
  <2>2. CASE PvGet(r)
    <3>1. /\ \A q \in Requests \ {r} : req'[q] = req[q]
          /\ UNCHANGED <<password, pv, tok, excused, openedWith>>
      BY <2>2 DEF PvGet, Finish, TypeOK, redis, history
    <3>2. CASE req[r].user = u
      <4>1. pv[u] = 1
        BY <3>1 DEF Live
      <4>2. req'[r].pc = "pvSet" /\ req'[r].user = u
        BY <2>0, <2>2, <3>2, <4>1 DEF PvGet, TypeOK, Request
      <4>3. QED
        BY <4>2 DEF Watched, ChangePending
    <3>3. CASE req[r].user # u
      <4>1. ASSUME NEW q \in Requests, Watched(q, u) PROVE Watched(q, u)'
        BY <3>1, <3>3, <4>1, WatchedKept DEF Watched, ChangePending
      <4>2. QED
        BY <1>0, <3>1, <4>1 DEF Live
    <3>4. QED
      BY <3>2, <3>3
  <2>3. CASE PvSet(r)
    <3>1. /\ \A q \in Requests \ {r} : req'[q] = req[q]
          /\ UNCHANGED <<password, tok, excused, openedWith>>
      BY <2>3 DEF PvSet, Finish, TypeOK, history
    <3>2. NextVersion(req[r].seen) # 1
      <4>1. req[r].seen \in Nat /\ req[r].seen > 0
        BY <2>0, <2>3, VersionAssumption DEF PvSet, At, RequestOK, Request
      <4>2. QED
        BY <4>1, VersionAssumption DEF NextVersion
    <3>3. req[r].user # u
      BY <2>3, <3>2 DEF PvSet, Live, TypeOK
    <3>4. Live(u)
      BY <2>3, <3>3 DEF PvSet, Live, TypeOK
    <3>5. ASSUME NEW q \in Requests, Watched(q, u) PROVE Watched(q, u)'
      BY <3>1, <3>3, <3>5, WatchedKept DEF Watched, ChangePending
    <3>6. QED
      BY <1>0, <3>1, <3>4, <3>5
  <2>4. QED
    BY <1>6, <2>1, <2>2, <2>3 DEF Change
<1>7. ASSUME NEW r \in Requests, Abort(r)
      PROVE  u \in excused' \/ \E q \in Requests : Watched(q, u)'
  <2>1. /\ \A q \in Requests \ {r} : req'[q] = req[q]
        /\ UNCHANGED <<password, pv, tok, openedWith>>
        /\ excused \subseteq excused'
    BY <1>7 DEF Abort, Finish, TypeOK, redis
  <2>2. Watched(r, u) => u \in excused'
    BY <1>7 DEF Watched, ChangePending, At, Abort
  <2>3. ASSUME NEW q \in Requests, Watched(q, u), q # r PROVE Watched(q, u)'
    BY <2>1, <2>3, WatchedKept
  <2>4. QED
    BY <1>0, <2>1, <2>2, <2>3 DEF Live
<1>8. ASSUME NEW v \in Users, TokenExpires(v)
      PROVE  u \in excused' \/ \E q \in Requests : Watched(q, u)'
  <2>1. Live(u) /\ UNCHANGED <<password, openedWith, excused, req>>
    BY <1>8 DEF TokenExpires, Live, TypeOK, history
  <2>2. QED
    BY <1>0, <2>1, WatchedKept
<1>9. CASE Tick
  BY <1>0, <1>9, WatchedKept DEF Tick, Live, redis, history
<1>10. QED
  BY <1>1, <1>3, <1>4, <1>5, <1>6, <1>7, <1>8, <1>9 DEF Next, Proceed

(* An upgrade never writes the version a token carries. *)
LEMMA UpgradeNotOne ==
  ASSUME TypeOK, RequestInv, NEW r \in Requests, PvSet(r)
  PROVE  NextVersion(req[r].seen) # 1
<1>1. req[r] \in Request /\ RequestOK(req[r]) /\ req[r].pc = "pvSet"
  BY DEF TypeOK, RequestInv, PvSet, At
<1>2. req[r].seen \in Nat /\ req[r].seen > 0
  BY <1>1, VersionAssumption DEF RequestOK, Request
<1>3. QED
  BY <1>2, VersionAssumption DEF NextVersion

(* One step makes a closed session acceptable only as a login's write. *)
LEMMA OpeningStep ==
  ASSUME TypeOK, RequestInv, [Next]_vars, NEW u \in Users, ~Live(u), Live(u)'
  PROVE  \E r \in Requests : LoggingIn(r, u) /\ req'[r].pc \in {"setToken", "setPerms"}
<1>1. CASE pv[u] # 1
  <2>1. PICK r \in Requests : LoginSetPv(r) \/ DelPv(r) \/ PvSet(r)
    BY <1>1, VersionWriters DEF Live
  <2>2. LoginSetPv(r) /\ req[r].user = u
    BY <1>1, <2>1, UpgradeNotOne DEF LoginSetPv, DelPv, PvSet, Live, TypeOK
  <2>3. req'[r].pc = "setToken" /\ req[r].pc = "setPv"
    BY <2>2 DEF LoginSetPv, Goto, At, TypeOK, Request
  <2>4. QED
    BY <2>2, <2>3 DEF LoggingIn, LoginSteps
<1>2. CASE tok[u] = None
  <2>1. \/ \E r \in Requests : LoginSetToken(r) \/ DelToken(r)
        \/ \E v \in Users : TokenExpires(v)
    BY <1>2, TokenWriters DEF Live
  <2>2. PICK r \in Requests : LoginSetToken(r) /\ req[r].user = u
    BY <1>2, <2>1 DEF LoginSetToken, DelToken, TokenExpires, Live, TypeOK
  <2>3. req'[r].pc = "setPerms" /\ req[r].pc = "setToken"
    BY <2>2 DEF LoginSetToken, Goto, At, TypeOK, Request
  <2>4. QED
    BY <2>2, <2>3 DEF LoggingIn, LoginSteps
<1>3. QED
  BY <1>1, <1>2 DEF Live

(* The conjunction of the four invariants is inductive. *)
LEMMA IInvStep == IInv /\ [Next]_vars => IInv'
<1> SUFFICES ASSUME IInv, [Next]_vars PROVE IInv'
  OBVIOUS
<1>1. TypeOK /\ RequestInv /\ TokenNamesItsUser /\ OldPasswordSessionClosed
  BY DEF IInv
<1>2. TypeOK'
  BY <1>1, TypeStep
<1>3. RequestInv'
  BY <1>1, RequestStep
<1>4. TokenNamesItsUser'
  BY <1>1, <1>3, TokenStep
<1>5. OldPasswordSessionClosed'
  BY <1>1, OldPasswordStep
<1>6. QED
  BY <1>2, <1>3, <1>4, <1>5 DEF IInv

(* The inductive invariant holds of every behaviour. *)
THEOREM Invariance == Spec => []IInv
  BY InitInv, IInvStep, PTL DEF Spec

(* Every variable keeps its type, with any number of requests, users and   *)
(* passwords and for any bounds.                                           *)
THEOREM TypeCorrect == Spec => []TypeOK
<1>1. IInv => TypeOK
  BY DEF IInv
<1>2. QED
  BY <1>1, Invariance, PTL

(* A login never hands out another user's token, nor is one ever stored    *)
(* under another user's key (getLoginSign).                                *)
THEOREM TokensNameTheirUser == Spec => []TokenNamesItsUser
<1>1. IInv => TokenNamesItsUser
  BY DEF IInv
<1>2. QED
  BY <1>1, Invariance, PTL

(* Whatever requests overlap and wherever they are cut off, a session the  *)
(* guard would accept belongs to the stored password, except in the four   *)
(* situations OldPasswordSessionClosed lists (updatePassword,              *)
(* forceUpdatePassword, upgradePasswordV against getLoginSign).            *)
THEOREM OldPasswordClosed == Spec => []OldPasswordSessionClosed
<1>1. IInv => OldPasswordSessionClosed
  BY DEF IInv
<1>2. QED
  BY <1>1, Invariance, PTL

(* No step but a login's own write turns a session the guard refuses into  *)
(* one it accepts (forbidden, upgradePasswordV, the expiry of the token).  *)
THEOREM OpenedByLoginOnly == Spec => OnlyLoginOpens
<1> DEFINE Opens == \A u \in Users :
       ~Live(u) /\ Live(u)' =>
         \E r \in Requests : LoggingIn(r, u) /\ req'[r].pc \in {"setToken", "setPerms"}
<1>1. IInv /\ [Next]_vars => [Opens]_vars
  <2> SUFFICES ASSUME IInv, [Next]_vars PROVE Opens
    OBVIOUS
  <2>1. TypeOK /\ RequestInv
    BY DEF IInv
  <2>2. QED
    BY <2>1, OpeningStep
<1>2. QED
  BY <1>1, Invariance, PTL DEF Spec, OnlyLoginOpens

----------------------------------------------------------------------------
(* What holds while requests do not overlap and nothing fails. *)

Alone ==
  /\ ~Failures
  /\ \A r, s \in Requests : At(r, "idle") \/ At(s, "idle") \/ r = s

(* A login past its first write has the version it wrote, and past its second *)
(* the token, unless that has expired; the administrator's may have written  *)
(* nothing.                                                                *)
Opened(r) ==
  /\ At(r, "setToken") => pv[req[r].user] = 1
  /\ req[r].pc \in {"setPerms", "reply"} /\ req[r].user # Root =>
       pv[req[r].user] = 1 /\ tok[req[r].user] \in {req[r].token, None}

(* A token without its permission key is that of a login about to write it,   *)
(* and forbidden deletes that key after the token.                          *)
AloneInv ==
  /\ \A u \in Users : tok[u] # None /\ ~perms[u] =>
       \E r \in Requests : req[r].user = u /\ At(r, "setPerms")
  /\ \A r \in Requests : At(r, "delPerms") => tok[req[r].user] = None
  /\ \A r \in Requests : Opened(r)

(* The step of one request leaves the others where they are.                 *)
Stays(q) == req'[q].pc = req[q].pc /\ req'[q].user = req[q].user /\ req'[q].token = req[q].token

(* The step of a request that writes none of the keys. *)
LEMMA QuietStep ==
  ASSUME AloneInv, NEW r \in Requests, UNCHANGED <<pv, tok, perms>>,
         \A q \in Requests \ {r} : Stays(q),
         ~At(r, "setPerms"),
         req'[r].pc \notin {"setToken", "setPerms", "delPerms"},
         req'[r].pc = "reply" => req'[r].user = Root
  PROVE  AloneInv'
<1>1. \A u \in Users : tok'[u] # None /\ ~perms'[u] =>
        \E q \in Requests : req'[q].user = u /\ req'[q].pc = "setPerms"
  BY DEF AloneInv, At, Stays
<1>2. \A q \in Requests : req'[q].pc = "delPerms" => tok'[req'[q].user] = None
  BY DEF AloneInv, At, Stays
<1>3. \A q \in Requests : Opened(q)'
  BY DEF AloneInv, At, Stays, Opened
<1> QED BY <1>1, <1>2, <1>3 DEF AloneInv, At

(* Every step that writes one of the keys is that of a request that is alone. *)
LEMMA KeyStep ==
  ASSUME TypeOK, RequestInv, AloneInv, Alone, NEW r \in Requests,
         LoginSetPv(r) \/ LoginSetToken(r) \/ LoginSetPerms(r) \/ Forbidden(r) \/ PvSet(r)
  PROVE  AloneInv'
<1> DEFINE u == req[r].user
<1>1. ~At(r, "idle")
  BY DEF LoginSetPv, LoginSetToken, LoginSetPerms, Forbidden, DelPv, DelToken, DelPerms, PvSet, At
<1>2. /\ \A q \in Requests \ {r} : req[q].pc = "idle"
      /\ u \in Users
  BY <1>1 DEF Alone, At, RequestInv, RequestOK
<1>3. \A q \in Requests \ {r} : req'[q] = req[q]
  BY DEF LoginSetPv, LoginSetToken, LoginSetPerms, Forbidden, DelPv, DelToken, DelPerms, PvSet,
         Goto, Finish, TypeOK
<1>4. \A q \in Requests \ {r} : req'[q].pc = "idle"
  BY <1>2, <1>3
<1>5. AloneInv' <=>
        /\ \A v \in Users : tok'[v] # None /\ ~perms'[v] => req'[r].user = v /\ req'[r].pc = "setPerms"
        /\ req'[r].pc = "delPerms" => tok'[req'[r].user] = None
        /\ Opened(r)'
  BY <1>4 DEF AloneInv, At, Opened
<1>6. /\ \A v \in Users : tok[v] # None /\ ~perms[v] => u = v /\ req[r].pc = "setPerms"
      /\ req[r].pc = "delPerms" => tok[u] = None
      /\ Opened(r)
  BY <1>2 DEF AloneInv, At
<1>7. req[r] \in Request
  BY DEF TypeOK
<1>8. ASSUME NEW s, Goto(r, s) PROVE req'[r].pc = s /\ req'[r].user = u /\ req'[r].token = req[r].token
  BY <1>7, <1>8 DEF Goto, TypeOK, Request
<1>9. ASSUME Finish(r) PROVE req'[r].pc = "idle"
  BY <1>9 DEF Finish, TypeOK, Idle
<1> HIDE DEF u
<1>10. CASE LoginSetPv(r)
  <2>1. req'[r].pc = "setToken" /\ req'[r].user = u
    BY <1>8, <1>10 DEF LoginSetPv
  <2>2. pv'[u] = 1 /\ req[r].pc = "setPv" /\ UNCHANGED <<tok, perms>>
    BY <1>2, <1>10 DEF LoginSetPv, TypeOK, At, u
  <2> QED BY <1>5, <1>6, <2>1, <2>2 DEF Opened, At
<1>11. CASE LoginSetToken(r)
  <2>1. req'[r].pc = "setPerms" /\ req'[r].user = u /\ req'[r].token = req[r].token
    BY <1>8, <1>11 DEF LoginSetToken
  <2>2. /\ tok' = [tok EXCEPT ![u] = req[r].token]
        /\ req[r].pc = "setToken" /\ UNCHANGED <<pv, perms>>
    BY <1>11 DEF LoginSetToken, At, u
  <2>3. pv[u] = 1
    BY <1>6, <2>2 DEF Opened, At, u
  <2>4. \A v \in Users : tok'[v] # None /\ ~perms'[v] => u = v
    BY <1>6, <2>2 DEF TypeOK
  <2>5. tok'[u] = req[r].token
    BY <1>2, <2>2 DEF TypeOK
  <2> QED BY <1>5, <2>1, <2>2, <2>3, <2>4, <2>5 DEF Opened, At
<1>12. CASE LoginSetPerms(r)
  <2>1. req'[r].pc = "reply" /\ req'[r].user = u /\ req'[r].token = req[r].token
    BY <1>8, <1>12 DEF LoginSetPerms
  <2>2. /\ perms' = [perms EXCEPT ![u] = TRUE]
        /\ req[r].pc = "setPerms" /\ UNCHANGED <<pv, tok>>
    BY <1>12 DEF LoginSetPerms, At, u
  <2>3. \A v \in Users : tok'[v] # None => perms'[v]
    BY <1>6, <2>2 DEF TypeOK
  <2>4. Opened(r)'
    BY <1>6, <2>1, <2>2 DEF Opened, At, u
  <2> QED BY <1>5, <2>1, <2>3, <2>4
<1>13. CASE DelPv(r)
  <2>1. req'[r].pc = "delToken" /\ req[r].pc = "delPv" /\ UNCHANGED <<tok, perms>>
    BY <1>8, <1>13 DEF DelPv, At
  <2> QED BY <1>5, <1>6, <2>1 DEF Opened, At
<1>14. CASE DelToken(r)
  <2>1. req'[r].pc = "delPerms" /\ req'[r].user = u /\ req[r].pc = "delToken"
    BY <1>8, <1>14 DEF DelToken, At
  <2>2. tok' = [tok EXCEPT ![u] = None] /\ UNCHANGED perms
    BY <1>14 DEF DelToken, u
  <2>3. tok'[u] = None /\ \A v \in Users : tok'[v] # None => tok[v] # None
    BY <1>2, <2>2 DEF TypeOK
  <2> QED BY <1>5, <1>6, <2>1, <2>2, <2>3 DEF Opened, At
<1>15. CASE DelPerms(r)
  <2>1. req'[r].pc = "idle" /\ req[r].pc = "delPerms"
    BY <1>9, <1>15 DEF DelPerms, At
  <2>2. perms' = [perms EXCEPT ![u] = FALSE] /\ UNCHANGED tok
    BY <1>15 DEF DelPerms, u
  <2>3. \A v \in Users : v # u => perms'[v] = perms[v]
    BY <2>2 DEF TypeOK
  <2> QED BY <1>5, <1>6, <2>1, <2>2, <2>3 DEF Opened, At
<1>16. CASE PvSet(r)
  <2>1. req'[r].pc = "idle" /\ req[r].pc = "pvSet" /\ UNCHANGED <<tok, perms>>
    BY <1>9, <1>16 DEF PvSet, At
  <2> QED BY <1>5, <1>6, <2>1 DEF Opened, At
<1> QED BY <1>10, <1>11, <1>12, <1>13, <1>14, <1>15, <1>16 DEF Forbidden

(* Every step keeps the invariant, as long as requests do not overlap. *)
LEMMA AloneStep == IInv /\ AloneInv /\ Alone /\ [Next]_vars => AloneInv'
<1> SUFFICES ASSUME TypeOK, RequestInv, AloneInv, Alone, [Next]_vars PROVE AloneInv'
  BY DEF IInv
<1> USE DEF TypeOK
<1>1. ASSUME NEW r \in Requests, Arrive(r) PROVE AloneInv'
  <2>1. \A q \in Requests \ {r} : Stays(q)
    BY <1>1 DEF Arrive, LoginCheck, GuardVersion, Stays
  <2>2. ~At(r, "setPerms") /\ req'[r].pc \in {"sign", "guard"} /\ UNCHANGED <<pv, tok, perms>>
    BY <1>1 DEF Arrive, LoginCheck, GuardVersion, At, Idle, redis
  <2> QED BY <2>1, <2>2, QuietStep
<1>2. ASSUME NEW r \in Requests, Route(r) PROVE AloneInv'
  <2> USE DEF Logout, Kick, ChangeOwnPassword, ForcePassword, SetStatus, DeleteUser
  <2>1. \A q \in Requests \ {r} : Stays(q)
    BY <1>2 DEF Route, Goto, Finish, Stays
  <2>2. ~At(r, "setPerms") /\ UNCHANGED <<pv, tok, perms>>
    BY <1>2 DEF Route, At, redis
  <2>3. req[r] \in Request
    OBVIOUS
  <2>4. req'[r].pc \in {"delPv", "pwWrite", "idle"}
    <3>1. CASE Logout(r)
      BY <2>3, <3>1 DEF Goto, Request
    <3>2. CASE \E v \in Users : Kick(r, v)
      BY <2>3, <3>2 DEF Request
    <3>3. CASE \E q \in Passwords : ChangeOwnPassword(r, q)
      BY <2>3, <3>3 DEF Request
    <3>4. ASSUME NEW v \in Users, NEW q \in Passwords, ForcePassword(r, v, q)
          PROVE  req'[r].pc = "pwWrite"
      <4> DEFINE x == req[r]
      <4>1. req'[r] = [x EXCEPT !.pc = "pwWrite", !.user = v, !.pw = q]
        BY <3>4
      <4>2. x \in Request
        BY <2>3
      <4> HIDE DEF x
      <4>3. [x EXCEPT !.pc = "pwWrite", !.user = v, !.pw = q].pc = "pwWrite"
        BY <4>2 DEF Request
      <4> QED BY <4>1, <4>3
    <3>5. CASE \/ \E v \in Users, s \in {"enabled", "disabled"} : SetStatus(r, v, s)
               \/ \E v \in Users : DeleteUser(r, v)
      BY <3>5 DEF Finish, Idle
    <3> QED BY <1>2, <3>1, <3>2, <3>3, <3>4, <3>5 DEF Route
  <2> QED BY <2>1, <2>2, <2>4, QuietStep
<1>3. ASSUME NEW r \in Requests, LoginReuse(r) \/ LoginSign(r) \/ LoginReply(r) PROVE AloneInv'
  <2> USE DEF LoginReuse, LoginSign, LoginReply
  <2>1. \A q \in Requests \ {r} : Stays(q)
    BY <1>3 DEF Finish, Stays
  <2>2. ~At(r, "setPerms") /\ UNCHANGED <<pv, tok, perms>>
    BY <1>3 DEF At, redis
  <2>3. req[r] \in Request
    OBVIOUS
  <2>4. req'[r].pc \in {"setPv", "idle"} \/ (req'[r].pc = "reply" /\ req'[r].user = Root)
    BY <1>3, <2>3 DEF Finish, Idle, Request
  <2> QED BY <2>1, <2>2, <2>4, QuietStep
<1>4. ASSUME NEW r \in Requests, Guard(r) PROVE AloneInv'
  <2> USE DEF Guard, GuardToken, GuardPerms, OtherHandler
  <2>1. \A q \in Requests \ {r} : Stays(q)
    BY <1>4 DEF Goto, Finish, Stays
  <2>2. ~At(r, "setPerms") /\ UNCHANGED <<pv, tok, perms>>
    BY <1>4 DEF At, redis
  <2>3. req[r] \in Request
    OBVIOUS
  <2>4. req'[r].pc \in {"admitted", "permitted", "idle"}
    BY <1>4, <2>3 DEF Goto, Finish, Idle, Request
  <2> QED BY <2>1, <2>2, <2>4, QuietStep
<1>5. ASSUME NEW r \in Requests, PwWrite(r) \/ PvGet(r) PROVE AloneInv'
  <2>1. \A q \in Requests : req[q] \in Request
    OBVIOUS
  <2>2. \A q \in Requests \ {r} : Stays(q)
    BY <1>5, <2>1 DEF PwWrite, PvGet, Finish, Stays, Request
  <2>3. ~At(r, "setPerms") /\ UNCHANGED <<pv, tok, perms>>
    BY <1>5 DEF PwWrite, PvGet, At, redis
  <2>4. req'[r].pc \in {"pvGet", "pvSet", "idle"}
    BY <1>5, <2>1 DEF PwWrite, PvGet, Finish, Idle, Request
  <2> QED BY <2>2, <2>3, <2>4, QuietStep
<1>6. ASSUME NEW v \in Users, TokenExpires(v) PROVE AloneInv'
  <2>1. \A u \in Users : tok'[u] \in {tok[u], None}
    BY <1>6 DEF TokenExpires
  <2>2. UNCHANGED <<pv, perms, req>>
    BY <1>6 DEF TokenExpires
  <2>3. \A u \in Users : tok'[u] # None => tok[u] # None
    BY <2>1
  <2>4. \A r \in Requests : At(r, "delPerms") => req[r].user \in Users
    BY DEF RequestInv, RequestOK, At
  <2>5. \A r \in Requests : At(r, "delPerms")' => tok'[req'[r].user] = None
    BY <2>2, <2>3, <2>4 DEF AloneInv, At
  <2>6. ASSUME NEW r \in Requests PROVE Opened(r)'
    <3>1. req[r].pc \in {"setPerms", "reply"} => req[r].user \in Users
      BY DEF RequestInv, RequestOK
    <3> QED BY <2>1, <2>2, <3>1 DEF AloneInv, Opened, At
  <2> QED BY <2>2, <2>3, <2>5, <2>6 DEF AloneInv, At
<1>7. CASE Tick \/ UNCHANGED vars
  <2>1. UNCHANGED <<pv, tok, perms, req>>
    BY <1>7 DEF Tick, vars, redis
  <2> QED BY <2>1 DEF AloneInv, At, Opened
<1>8. ASSUME NEW r \in Requests, Abort(r) PROVE AloneInv'
  BY <1>8 DEF Abort, Alone
<1> QED BY <1>1, <1>2, <1>3, <1>4, <1>5, <1>6, <1>7, <1>8, KeyStep
        DEF Next, Proceed, Login, Change, Forbidden

(* The invariant holds as long as requests do not overlap and nothing fails. *)
LEMMA AloneInvariant == Spec /\ []Alone => []AloneInv
<1>1. Init => AloneInv
  BY DEF Init, Idle, AloneInv, Opened, At
<1> QED BY <1>1, AloneStep, Invariance, PTL DEF Spec

(* While requests do not overlap and nothing fails, a session that the guard   *)
(* would accept has its permission key between requests: with any users and  *)
(* passwords, whoever logs in, logs out, is kicked off or expires           *)
(* (getLoginSign writes the key last, forbidden deletes it last).           *)
THEOREM SessionsHavePerms == Spec /\ []Alone => []SessionHasPerms
<1>1. AloneInv => SessionHasPerms
  BY DEF AloneInv, SessionHasPerms, Live, At
<1> QED BY <1>1, AloneInvariant, PTL

(* While requests do not overlap and nothing fails, a login of an ordinary     *)
(* user that answers has opened the session of the token it answers with.   *)
THEOREM LoginsOpen == Spec /\ []Alone => OrdinaryLoginOpens
<1> DEFINE Opens == \A r \in Requests :
       LoginReply(r) /\ req[r].user # Root =>
         pv[req[r].user] = 1 /\ tok[req[r].user] \in {req[r].token, None}
<1>1. AloneInv /\ [Next]_vars => [Opens]_vars
  BY DEF AloneInv, Opened, LoginReply, At
<1> QED BY <1>1, AloneInvariant, PTL DEF Spec, OrdinaryLoginOpens

=============================================================================
