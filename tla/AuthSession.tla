---------------------------- MODULE AuthSession ----------------------------
(***************************************************************************)
(* Who is logged in: the login, the guard that stands before every         *)
(* protected handler, logout, kicking a user off, and the password         *)
(* changes, at the grain of one Redis command or one database statement.   *)
(*                                                                         *)
(* A session of user u is not one value but three Redis keys written one   *)
(* after the other by independent awaits:                                  *)
(*   admin:passwordVersion:u  (pv)      no expiry                          *)
(*   admin:token:u            (tok)     expires after 24 hours             *)
(*   admin:perms:u            (perms)   no expiry                          *)
(* A JWT always carries pv: 1 and never expires, so the guard lets a token *)
(* through exactly when pv[u] is 1 and tok[u] is that token.               *)
(*                                                                         *)
(* Every HTTP request in progress occupies a slot of Requests; its await   *)
(* points interleave with those of the other requests.  A request that is  *)
(* turned away has changed nothing, so a refusal only frees its slot (or,  *)
(* for the first check, never takes one).                                  *)
(***************************************************************************)
EXTENDS Naturals

CONSTANTS
  Users,      \* user ids of sys_user
  Root,       \* the id the code compares with 1: the built-in administrator
  Passwords,  \* password digests (md5, taken to be injective)
  Requests,   \* slots for the HTTP requests being processed
  MaxTime,    \* last second of the clock that stamps a JWT (bound)
  MaxPv,      \* password versions from MaxPv on are not told apart (bound)
  Failures,   \* may an await reject, or the process die, in mid-request?
  None        \* no user, no token, no password

Token == [uid : Users, iat : 0 .. MaxTime]

ASSUME TimeAssumption == MaxTime \in Nat
ASSUME VersionAssumption == MaxPv \in Nat /\ MaxPv >= 2
ASSUME FailuresAssumption == Failures \in BOOLEAN
ASSUME NoneAssumption == None \notin Users \cup Passwords \cup Token

VARIABLES
  account,    \* sys_user.status, or "deleted" once the row is gone
  password,   \* sys_user.password
  pv,         \* admin:passwordVersion:u, 0 when the key is absent
  tok,        \* admin:token:u, None when the key is absent
  perms,      \* is admin:perms:u present?
  now,        \* whole seconds, the resolution of the JWT's iat
  handed,     \* tokens some client has received from a login
  req,        \* the request in each slot
  openedWith, \* history: the password checked by the login that wrote tok[u]
  excused     \* history: users whose last opening was torn or overtaken

redis   == <<pv, tok, perms>>
history == <<openedWith, excused>>
vars    == <<account, password, pv, tok, perms, now, handed, req,
             openedWith, excused>>

Status == {"enabled", "disabled", "deleted"}

LoginSteps     == {"sign", "setPv", "setToken", "setPerms", "reply"}
GuardSteps     == {"guard", "admitted", "permitted"}
ForbiddenSteps == {"delPv", "delToken", "delPerms"}
ChangeSteps    == {"pwWrite", "pvGet", "pvSet"}
Steps == LoginSteps \cup GuardSteps \cup ForbiddenSteps \cup ChangeSteps

Request ==
  [pc    : Steps \cup {"idle"},
   user  : Users \cup {None},      \* whose keys the next steps touch
   token : Token \cup {None},      \* presented to the guard, or just signed
   pw    : Passwords \cup {None},  \* checked by a login, to be set by a change
   seen  : 0 .. MaxPv,             \* password version read by upgradePasswordV
   raced : BOOLEAN]                \* history: was the password rewritten
                                   \* after this login had checked it?

Idle == [pc |-> "idle", user |-> None, token |-> None, pw |-> None,
         seen |-> 0, raced |-> FALSE]

Init ==
  /\ account  = [u \in Users |-> "enabled"]
  /\ password \in [Users -> Passwords]
  /\ pv       = [u \in Users |-> 0]
  /\ tok      = [u \in Users |-> None]
  /\ perms    = [u \in Users |-> FALSE]
  /\ now      = 0
  /\ handed   = {}
  /\ req      = [r \in Requests |-> Idle]
  /\ openedWith = [u \in Users |-> None]
  /\ excused  = {}

----------------------------------------------------------------------------
(* Moving a request along. *)

At(r, step)   == req[r].pc = step
Goto(r, step) == req' = [req EXCEPT ![r].pc = step]
Finish(r)     == req' = [req EXCEPT ![r] = Idle]

(* getLoginSign has checked the password of u and has yet to finish. *)
LoggingIn(r, u) == req[r].user = u /\ req[r].pc \in LoginSteps

(* A change of u's password is in the database, and the session it should  *)
(* close has not been closed yet.                                          *)
ChangePending(r, u) == req[r].user = u /\ req[r].pc \in {"pvGet", "pvSet"}

(* Both conditions of the guard, at one instant. *)
Live(u) == pv[u] = 1 /\ tok[u] # None

----------------------------------------------------------------------------
(* Login: LoginService.getLoginSign. *)

(* findUserByUserName finds enabled users only, and the digest is compared; *)
(* a failed check answers 10003 and changes nothing.                        *)
LoginCheck(r, u) ==
  /\ At(r, "idle")
  /\ account[u] = "enabled"
  /\ req' = [req EXCEPT ![r] =
               [Idle EXCEPT !.pc = "sign", !.user = u, !.pw = password[u]]]
  /\ UNCHANGED <<account, password, redis, now, handed, history>>

(* Variants: the token is looked up for uid 1 whoever logs in; every user is *)
(* given his old token.                                                    *)
LoginReuseForeign(r) ==
  /\ At(r, "sign")
  /\ tok[Root] # None
  /\ req' = [req EXCEPT ![r].pc = "reply", ![r].token = tok[Root]]
  /\ UNCHANGED <<account, password, redis, now, handed, history>>

LoginReuseForAll(r) ==
  /\ At(r, "sign")
  /\ tok[req[r].user] # None
  /\ req' = [req EXCEPT ![r].pc = "reply", ![r].token = tok[req[r].user]]
  /\ UNCHANGED <<account, password, redis, now, handed, history>>

(* The administrator is given the token that is already there, if there is *)
(* one; nothing is written for him then.                                   *)
LoginReuse(r) ==
  /\ At(r, "sign")
  /\ req[r].user = Root
  /\ tok[Root] # None
  /\ req' = [req EXCEPT ![r].pc = "reply", ![r].token = tok[Root]]
  /\ UNCHANGED <<account, password, redis, now, handed, history>>

(* Everyone else, and an administrator without a token, gets a new JWT.    *)
(* Its payload is the uid and pv: 1, its iat a whole second: two logins of  *)
(* one user in the same second sign the same token.                        *)
LoginSign(r) ==
  /\ At(r, "sign")
  /\ req[r].user = Root => tok[Root] = None
  /\ req' = [req EXCEPT ![r].pc = "setPv",
                        ![r].token = [uid |-> req[r].user, iat |-> now]]
  /\ UNCHANGED <<account, password, redis, now, handed, history>>

LoginSetPv(r) ==
  /\ At(r, "setPv")
  /\ pv' = [pv EXCEPT ![req[r].user] = 1]
  /\ Goto(r, "setToken")
  /\ UNCHANGED <<account, password, tok, perms, now, handed, history>>

(* Variant: the permission key is not written. *)
LoginSetTokenOnly(r) ==
  LET u == req[r].user IN
  /\ At(r, "setToken")
  /\ tok' = [tok EXCEPT ![u] = req[r].token]
  /\ Goto(r, "reply")
  /\ openedWith' = [openedWith EXCEPT ![u] = req[r].pw]
  /\ excused' = IF req[r].raced THEN excused \cup {u} ELSE excused \ {u}
  /\ UNCHANGED <<account, password, pv, perms, now, handed>>

LoginSetToken(r) ==
  LET u == req[r].user IN
  /\ At(r, "setToken")
  /\ tok' = [tok EXCEPT ![u] = req[r].token]
  /\ Goto(r, "setPerms")
  /\ openedWith' = [openedWith EXCEPT ![u] = req[r].pw]
  /\ excused' = IF req[r].raced THEN excused \cup {u} ELSE excused \ {u}
  /\ UNCHANGED <<account, password, pv, perms, now, handed>>

LoginSetPerms(r) ==
  /\ At(r, "setPerms")
  /\ perms' = [perms EXCEPT ![req[r].user] = TRUE]
  /\ Goto(r, "reply")
  /\ UNCHANGED <<account, password, pv, tok, now, handed, history>>

(* The login log has been written and the response carries the token. *)
LoginReply(r) ==
  /\ At(r, "reply")
  /\ handed' = handed \cup {req[r].token}
  /\ Finish(r)
  /\ UNCHANGED <<account, password, redis, now, history>>

----------------------------------------------------------------------------
(* The guard: AuthGuard.canActivate.  The route of a request is fixed when *)
(* it arrives; here it is chosen when the guard has let it through, which  *)
(* allows the same behaviours.                                             *)

(* The JWT verifies, and the stored version is the 1 it carries (11002     *)
(* otherwise).                                                             *)
GuardVersion(r, t) ==
  /\ At(r, "idle")
  /\ t \in handed
  /\ pv[t.uid] = 1
  /\ req' = [req EXCEPT ![r] =
               [Idle EXCEPT !.pc = "guard", !.user = t.uid, !.token = t]]
  /\ UNCHANGED <<account, password, redis, now, handed, history>>

(* Variant: a mismatch neither passes nor throws. *)
GuardTokenSilent(r) ==
  /\ At(r, "guard")
  /\ tok[req[r].user] = req[r].token
  /\ Goto(r, "admitted")
  /\ UNCHANGED <<account, password, redis, now, handed, history>>

(* The stored token is compared in a second command (11002 otherwise). *)
GuardToken(r) ==
  /\ At(r, "guard")
  /\ IF tok[req[r].user] = req[r].token THEN Goto(r, "admitted")
                                        ELSE Finish(r)
  /\ UNCHANGED <<account, password, redis, now, handed, history>>

(* Routes without @PermissionOptional also need the permission key (11001  *)
(* otherwise); its contents may still refuse the route (11003).            *)
GuardPerms(r) ==
  /\ At(r, "admitted")
  /\ \/ perms[req[r].user] /\ Goto(r, "permitted")
     \/ Finish(r)
  /\ UNCHANGED <<account, password, redis, now, handed, history>>

(* Any handler that leaves the state of this module alone. *)
OtherHandler(r) ==
  /\ req[r].pc \in {"admitted", "permitted"}
  /\ Finish(r)
  /\ UNCHANGED <<account, password, redis, now, handed, history>>

----------------------------------------------------------------------------
(* SysUserService.forbidden, run by logout and by kicking a user off. *)

(* POST /account/logout is @PermissionOptional and forbids its caller. *)
Logout(r) ==
  /\ At(r, "admitted")
  /\ Goto(r, "delPv")
  /\ UNCHANGED <<account, password, redis, now, handed, history>>

(* POST /online/kick: not oneself (10012), not by a caller whose row is     *)
(* gone (10017), not the administrator (10013).                             *)
Kick(r, v) ==
  /\ At(r, "permitted")
  /\ account[req[r].user] # "deleted"
  /\ v # req[r].user
  /\ v # Root
  /\ req' = [req EXCEPT ![r].pc = "delPv", ![r].user = v]
  /\ UNCHANGED <<account, password, redis, now, handed, history>>

DelPv(r) ==
  /\ At(r, "delPv")
  /\ pv' = [pv EXCEPT ![req[r].user] = 0]
  /\ Goto(r, "delToken")
  /\ UNCHANGED <<account, password, tok, perms, now, handed, history>>

DelToken(r) ==
  /\ At(r, "delToken")
  /\ tok' = [tok EXCEPT ![req[r].user] = None]
  /\ Goto(r, "delPerms")
  /\ UNCHANGED <<account, password, pv, perms, now, handed, history>>

DelPerms(r) ==
  /\ At(r, "delPerms")
  /\ perms' = [perms EXCEPT ![req[r].user] = FALSE]
  /\ Finish(r)
  /\ UNCHANGED <<account, password, pv, tok, now, handed, history>>

----------------------------------------------------------------------------
(* Changing a password, and with it the password version. *)

(* updatePassword: the caller's row exists (10017) and the old password he *)
(* presented is the stored one (10011).                                    *)
ChangeOwnPassword(r, q) ==
  /\ At(r, "admitted")
  /\ account[req[r].user] # "deleted"
  /\ req' = [req EXCEPT ![r].pc = "pwWrite", ![r].pw = q]
  /\ UNCHANGED <<account, password, redis, now, handed, history>>

(* forceUpdatePassword: the row of v exists (10017), nothing else is asked. *)
ForcePassword(r, v, q) ==
  /\ At(r, "permitted")
  /\ account[v] # "deleted"
  /\ req' = [req EXCEPT ![r].pc = "pwWrite", ![r].user = v, ![r].pw = q]
  /\ UNCHANGED <<account, password, redis, now, handed, history>>

(* Variant: the version is not upgraded after the write. *)
PwWriteOnly(r) ==
  LET u == req[r].user IN
  /\ At(r, "pwWrite")
  /\ account[u] # "deleted"
  /\ password' = [password EXCEPT ![u] = req[r].pw]
  /\ req' = [q \in Requests |->
               IF q = r THEN Idle
               ELSE [req[q] EXCEPT !.raced = @ \/ LoggingIn(q, u)]]
  /\ UNCHANGED <<account, redis, now, handed, history>>

(* The update fails when the row was deleted meanwhile.  Logins of that    *)
(* user that are past their check are marked: they checked a password that *)
(* is no longer the stored one.                                            *)
PwWrite(r) ==
  LET u == req[r].user IN
  /\ At(r, "pwWrite")
  /\ \/ /\ account[u] = "deleted"
        /\ Finish(r)
        /\ UNCHANGED password
     \/ /\ account[u] # "deleted"
        /\ password' = [password EXCEPT ![u] = req[r].pw]
        /\ req' = [q \in Requests |->
                     IF q = r THEN [req[q] EXCEPT !.pc = "pvGet"]
                     ELSE [req[q] EXCEPT !.raced = @ \/ LoggingIn(q, u)]]
  /\ UNCHANGED <<account, redis, now, handed, history>>

(* Variant: an absent version is upgraded like any other. *)
PvGetUntested(r) ==
  /\ At(r, "pvGet")
  /\ req' = [req EXCEPT ![r].pc = "pvSet", ![r].seen = pv[req[r].user]]
  /\ UNCHANGED <<account, password, redis, now, handed, history>>

(* upgradePasswordV reads the version, and stops when there is none. *)
PvGet(r) ==
  LET v == pv[req[r].user] IN
  /\ At(r, "pvGet")
  /\ IF v = 0 THEN Finish(r)
     ELSE req' = [req EXCEPT ![r].pc = "pvSet", ![r].seen = v]
  /\ UNCHANGED <<account, password, redis, now, handed, history>>

(* parseInt(v) + 1, with every version from MaxPv on taken for MaxPv. *)
NextVersion(v) == IF v < MaxPv THEN v + 1 ELSE MaxPv

PvSet(r) ==
  /\ At(r, "pvSet")
  /\ pv' = [pv EXCEPT ![req[r].user] = NextVersion(req[r].seen)]
  /\ Finish(r)
  /\ UNCHANGED <<account, password, tok, perms, now, handed, history>>

----------------------------------------------------------------------------
(* Accounts: SysUserService.update (its status column) and delete.  Neither *)
(* touches Redis; delete spares the administrator.                          *)

SetStatus(r, v, s) ==
  /\ At(r, "permitted")
  /\ account[v] # "deleted"
  /\ account' = [account EXCEPT ![v] = s]
  /\ Finish(r)
  /\ UNCHANGED <<password, redis, now, handed, history>>

DeleteUser(r, v) ==
  /\ At(r, "permitted")
  /\ v # Root
  /\ account' = [account EXCEPT ![v] = "deleted"]
  /\ Finish(r)
  /\ UNCHANGED <<password, redis, now, handed, history>>

----------------------------------------------------------------------------
(* The environment. *)

(* EX 60 * 60 * 24 on the token key. *)
TokenExpires(u) ==
  /\ tok[u] # None
  /\ tok' = [tok EXCEPT ![u] = None]
  /\ UNCHANGED <<account, password, pv, perms, now, handed, req, history>>

Tick ==
  /\ now < MaxTime
  /\ now' = now + 1
  /\ UNCHANGED <<account, password, redis, handed, req, history>>

(* An await rejects (Redis, the database, the login log) or the process is *)
(* restarted: what the request has already written stays.  A change cut    *)
(* off before its version bump, or a login cut off between its two writes, *)
(* is remembered.                                                          *)
Abort(r) ==
  /\ Failures
  /\ req[r].pc \in Steps
  /\ Finish(r)
  /\ excused' = IF req[r].pc \in {"pvGet", "pvSet", "setToken"}
                THEN excused \cup {req[r].user} ELSE excused
  /\ UNCHANGED <<account, password, redis, now, handed, openedWith>>

----------------------------------------------------------------------------
Login(r)     == \/ LoginReuse(r) \/ LoginSign(r) \/ LoginSetPv(r)
                \/ LoginSetToken(r) \/ LoginSetPerms(r) \/ LoginReply(r)
Guard(r)     == GuardToken(r) \/ GuardPerms(r) \/ OtherHandler(r)
Forbidden(r) == DelPv(r) \/ DelToken(r) \/ DelPerms(r)
Change(r)    == PwWrite(r) \/ PvGet(r) \/ PvSet(r)

(* What a request does by itself once it has arrived. *)
Proceed(r) == Login(r) \/ Guard(r) \/ Forbidden(r) \/ Change(r)

(* A client's request arrives, or takes its route after the guard. *)
Arrive(r) ==
  \/ \E u \in Users : LoginCheck(r, u)
  \/ \E t \in Token : GuardVersion(r, t)

Route(r) ==
  \/ Logout(r)
  \/ \E v \in Users : Kick(r, v)
  \/ \E q \in Passwords : ChangeOwnPassword(r, q)
  \/ \E v \in Users, q \in Passwords : ForcePassword(r, v, q)
  \/ \E v \in Users, s \in {"enabled", "disabled"} : SetStatus(r, v, s)
  \/ \E v \in Users : DeleteUser(r, v)

Next ==
  \/ \E r \in Requests : Arrive(r) \/ Route(r) \/ Proceed(r) \/ Abort(r)
  \/ \E u \in Users : TokenExpires(u)
  \/ Tick

Spec == Init /\ [][Next]_vars

(* The event loop resumes every request whose Redis or database call has   *)
(* answered.                                                               *)
FairSpec == Spec /\ \A r \in Requests : WF_vars(Proceed(r))

----------------------------------------------------------------------------
(* Types of all variables; the three Redis keys and the slots. *)
TypeOK ==
  /\ account  \in [Users -> Status]
  /\ password \in [Users -> Passwords]
  /\ pv       \in [Users -> 0 .. MaxPv]
  /\ tok      \in [Users -> Token \cup {None}]
  /\ perms    \in [Users -> BOOLEAN]
  /\ now      \in 0 .. MaxTime
  /\ handed   \subseteq Token
  /\ req      \in [Requests -> Request]
  /\ openedWith \in [Users -> Passwords \cup {None}]
  /\ excused  \subseteq Users

(* Safety. *)

(* A token names the user under whose key it is stored, and the token a    *)
(* login returns names the user whose password that login checked          *)
(* (getLoginSign, both the new JWT and the administrator's old one).       *)
TokenNamesItsUser ==
  /\ \A u \in Users : tok[u] # None => tok[u].uid = u
  /\ \A r \in Requests : At(r, "reply") => req[r].token.uid = req[r].user

(* A password change closes the sessions opened with the old password: a   *)
(* session the guard would accept was opened with the password that is     *)
(* stored now.  The exceptions are exactly four: the change is between its *)
(* database write and its version bump; a later login has reset the        *)
(* version to 1 and not yet replaced the old token; the login checked its  *)
(* password before the change and wrote its token after; one of these      *)
(* steps was cut off.  (updatePassword, forceUpdatePassword,               *)
(* upgradePasswordV against getLoginSign.)                                 *)
OldPasswordSessionClosed ==
  \A u \in Users :
    Live(u) /\ openedWith[u] # password[u] =>
      \/ u \in excused
      \/ \E r \in Requests : \/ ChangePending(r, u)
                             \/ (req[r].user = u /\ At(r, "setToken"))

(* Nothing but a login of u makes a closed session of u acceptable to the  *)
(* guard again: not a password change that bumps a version it read before  *)
(* a logout, not a half-finished forbidden, not an expiry.                 *)
OnlyLoginOpens ==
  [][\A u \in Users :
       ~Live(u) /\ Live(u)' =>
         \E r \in Requests : LoggingIn(r, u) /\ req'[r].pc \in {"setToken", "setPerms"}]_vars

(* What makes the two safety properties above inductive: what each request *)
(* in progress has established so far.  A login that has yet to write its  *)
(* token checked the password that is stored now unless it was overtaken,  *)
(* and an upgrade past its read saw a version that exists.                 *)
RequestOK(q) ==
  /\ q.pc # "idle" => q.user \in Users
  /\ q.pc \in {"setPv", "setToken", "setPerms", "reply"} =>
       q.token \in Token /\ q.token.uid = q.user
  /\ q.pc \in {"sign", "setPv", "setToken"} =>
       q.pw \in Passwords /\ (q.pw = password[q.user] \/ q.raced)
  /\ q.pc = "pwWrite" => q.pw \in Passwords
  /\ q.pc = "pvSet" => q.seen > 0

RequestInv == \A r \in Requests : RequestOK(req[r])

IInv == TypeOK /\ RequestInv /\ TokenNamesItsUser /\ OldPasswordSessionClosed

(* Without overlapping requests (one slot, no failures): a login of an     *)
(* ordinary user that returns a token has opened the session of that       *)
(* token, whatever was logged out, expired or changed before.              *)
OrdinaryLoginOpens ==
  [][\A r \in Requests :
       LoginReply(r) /\ req[r].user # Root =>
         pv[req[r].user] = 1 /\ tok[req[r].user] \in {req[r].token, None}]_vars

(* The same for the administrator, who is to be able to log in from several *)
(* places (login.service.ts:154).                                           *)
RootLoginOpens ==
  [][\A r \in Requests :
       LoginReply(r) /\ req[r].user = Root =>
         pv[Root] = 1 /\ tok[Root] \in {req[r].token, None}]_vars

(* Between requests, a session the guard would accept has its permission   *)
(* key (without overlapping requests; with them a slow logout deletes the  *)
(* key of the next session).                                               *)
SessionHasPerms ==
  (\A r \in Requests : At(r, "idle")) => \A u \in Users : Live(u) => perms[u]

----------------------------------------------------------------------------
(* Liveness. *)

(* Every request ends. *)
RequestsEnd == \A r \in Requests : ~At(r, "idle") ~> At(r, "idle")

=============================================================================
