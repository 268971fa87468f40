------------------------------ MODULE WsNotice ------------------------------
(***************************************************************************)
(* The WebSocket gateway: which clients are connected, the notices that     *)
(* tell them to fetch their menus again, and the kick that closes one.      *)
(*                                                                         *)
(* A notice is started by a handler that does not wait for it: it reads the *)
(* roles of the menus, then the users of the roles, then asks the gateway   *)
(* for its sockets and emits.  The adapter keeps its sockets in memory and  *)
(* answers in the same turn of the event loop, so that asking and emitting, *)
(* or asking and closing, are one step.  A refused client is disconnected  *)
(* in the turn in which it connects and is never among the sockets.         *)
(***************************************************************************)
EXTENDS Integers, FiniteSets

CONSTANTS
  Users,      \* user ids, numbers
  Roles,      \* role ids, numbers as well
  Root,       \* rootRoleId
  Sockets,    \* clients
  Notices,    \* slots for the notices under way
  Kicks,      \* slots for the kicks being processed
  NoUser      \* no user id

ASSUME IdsAssumption  == Users \subseteq Nat \ {0} /\ Roles \subseteq Nat \ {0}
ASSUME RootAssumption == Root \in Roles
ASSUME NoUserAssumption == NoUser \notin Users

VARIABLES
  earlier,    \* the sockets that are connected since before each was: the
              \* order of the gateway's map of sockets
  uid,        \* the uid in the token each was opened with
  userRole,   \* sys_user_role
  notice,     \* the notice in each slot
  kick,       \* the kick in each slot
  stale,      \* roles whose rows of sys_role_menu, or their menus, have changed
              \* since the client of each socket was last told, while its
              \* user has the role
  missed      \* history: those of its stale roles that were given no notice
              \* when they last changed, or one that went to others

wsVars == <<earlier, uid, userRole, notice, kick, stale, missed>>

NoticeSlot == [pc : {"idle", "menus", "roles", "emit"}, roles : SUBSET Roles, ids : SUBSET Roles]
KickSlot   == [pc : {"idle", "root", "close"}, id : Users \cup {NoUser}, moved : BOOLEAN]

NoNotice == [pc |-> "idle", roles |-> {}, ids |-> {}]
NoKick   == [pc |-> "idle", id |-> NoUser, moved |-> FALSE]

WsInit ==
  /\ earlier  = [s \in Sockets |-> {}]
  /\ uid      = [s \in Sockets |-> NoUser]
  /\ userRole \in SUBSET (Users \X Roles)
  /\ notice   = [n \in Notices |-> NoNotice]
  /\ kick     = [k \in Kicks |-> NoKick]
  /\ stale    = [s \in Sockets |-> {}]
  /\ missed   = [s \in Sockets |-> {}]

OnlineSockets == {s \in Sockets : uid[s] # NoUser}
SocketsOf(ids) == {s \in OnlineSockets : uid[s] \in ids}

(* findRootUserId: the first of those who have the root role. *)
RootUsers    == {u \in Users : <<u, Root>> \in userRole}
FindRootUser == IF RootUsers = {} THEN NoUser
                ELSE CHOOSE u \in RootUsers : \A v \in RootUsers : u <= v

----------------------------------------------------------------------------
(* handleConnection, with a token that verifies: it does not expire, and the *)
(* keys in Redis are not looked at.  The client reads its menus.            *)
HandleConnection(s, u) ==
  /\ s \notin OnlineSockets
  /\ earlier' = [earlier EXCEPT ![s] = OnlineSockets]
  /\ uid' = [uid EXCEPT ![s] = u]
  /\ UNCHANGED <<userRole, notice, kick, stale, missed>>

(* The sockets in S are closed. *)
Close(S) ==
  /\ earlier' = [s \in Sockets |-> IF s \in S THEN {} ELSE earlier[s] \ S]
  /\ uid' = [s \in Sockets |-> IF s \in S THEN NoUser ELSE uid[s]]
  /\ stale' = [s \in Sockets |-> IF s \in S THEN {} ELSE stale[s]]
  /\ missed' = [s \in Sockets |-> IF s \in S THEN {} ELSE missed[s]]

HandleDisconnect(s) ==
  /\ s \in OnlineSockets
  /\ Close({s})
  /\ UNCHANGED <<userRole, notice, kick>>

(* UserAdmin. *)
ChangeUserRole(u, r) ==
  /\ userRole' = IF <<u, r>> \in userRole THEN userRole \ {<<u, r>>} ELSE userRole \cup {<<u, r>>}
  /\ stale' = [s \in Sockets |-> IF uid[s] = u THEN stale[s] \ {r} ELSE stale[s]]
  /\ missed' = [s \in Sockets |-> IF uid[s] = u THEN missed[s] \ {r} ELSE missed[s]]
  /\ kick' = [k \in Kicks |-> [kick[k] EXCEPT !.moved = @ \/ (r = Root /\ kick[k].pc = "close")]]
  /\ UNCHANGED <<earlier, uid, notice>>

----------------------------------------------------------------------------
(* The menus that the users of the roles in C have are others now; the roles   *)
(* in N are given notice of it.                                             *)
MenusChange(C, N) ==
  LET theirs(s) == {r \in C : <<uid[s], r>> \in userRole} IN
  /\ stale'  = [s \in Sockets |-> stale[s] \cup theirs(s)]
  /\ missed' = [s \in Sockets |-> (missed[s] \cup theirs(s)) \ N]

(* Notices that have yet to ask for the roles of their menus do not find those *)
(* that have lost their rows of sys_role_menu.                              *)
Asking == {n \in Notices : notice[n].pc = "menus"}
RowsLost(lost) ==
  [n \in Notices |-> [notice[n] EXCEPT !.roles = {r \in @ : <<n, r>> \notin lost}]]

(* updateV1 deletes the deselected menus of every role, here of those in S as *)
(* well, and gives notice for its own.                                     *)
SaveRole(n, r, S, lost) ==
  /\ notice[n].pc = "idle"
  /\ MenusChange(S \cup {r}, {r})
  /\ notice' = [RowsLost(lost) EXCEPT ![n] = [NoNotice EXCEPT !.pc = "roles", !.roles = {r}]]
  /\ UNCHANGED <<earlier, uid, userRole, kick>>

(* deleteMenuItem, of menus that the roles in R have rows of; the root role has *)
(* every menu, with or without a row.  save of a menu always fails in Prisma *)
(* before its notice.                                                       *)
DeleteMenus(n, R) ==
  /\ notice[n].pc = "idle"
  /\ MenusChange(R \cup {Root}, R)
  /\ notice' = [notice EXCEPT ![n] = [NoNotice EXCEPT !.pc = "menus", !.roles = R]]
  /\ UNCHANGED <<earlier, uid, userRole, kick>>

(* POST, PUT and DELETE system/menu and DELETE system/role give no notice. *)
ChangeUnnoticed(S, lost) ==
  /\ MenusChange(S, {})
  /\ notice' = RowsLost(lost)
  /\ UNCHANGED <<earlier, uid, userRole, kick>>

(* noticeUserToUpdateMenusByMenuIds: the rows of sys_role_menu, which outlive *)
(* their menus.  (A role that was given one meanwhile has a notice of its own.) *)
NoticeMenus(n) ==
  /\ notice[n].pc = "menus"
  /\ notice' = [notice EXCEPT ![n].pc = "roles"]
  /\ UNCHANGED <<earlier, uid, userRole, kick, stale, missed>>

(* Variant: users are looked for by the notice's first role only. *)
NoticeFirstRole(n) ==
  /\ notice[n].pc = "roles"
  /\ notice' = [notice EXCEPT ![n].pc = "emit",
                              ![n].ids = {r \in notice[n].roles : \A q \in notice[n].roles : r <= q}]
  /\ UNCHANGED <<earlier, uid, userRole, kick, stale, missed>>

(* noticeUserToUpdateMenusByRoleIds: of the rows found, the role ids. *)
NoticeRoles(n) ==
  /\ notice[n].pc = "roles"
  /\ notice' = [notice EXCEPT ![n].pc = "emit",
                              ![n].ids = {r \in notice[n].roles : \E u \in Users : <<u, r>> \in userRole}]
  /\ UNCHANGED <<earlier, uid, userRole, kick, stale, missed>>

(* The clients in S are told; the roles in R were what the others were not. *)
Told(S, R) ==
  /\ stale'  = [s \in Sockets |-> IF s \in S THEN {} ELSE stale[s]]
  /\ missed' = [s \in Sockets |-> IF s \in S THEN {} ELSE missed[s] \cup (stale[s] \cap R)]

(* Variant: nobody is told where no socket is found. *)
EmitNobody(n) ==
  LET found == SocketsOf(notice[n].ids) IN
  /\ notice[n].pc = "emit"
  /\ Told(found, IF found = {} THEN {} ELSE notice[n].roles)
  /\ notice' = [notice EXCEPT ![n] = NoNotice]
  /\ UNCHANGED <<earlier, uid, userRole, kick>>

(* noticeUserToUpdateMenusByUserIds: to() with no socket is to everyone. *)
Emit(n) ==
  LET found == SocketsOf(notice[n].ids) IN
  /\ notice[n].pc = "emit"
  /\ Told(IF found = {} THEN OnlineSockets ELSE found, notice[n].roles)
  /\ notice' = [notice EXCEPT ![n] = NoNotice]
  /\ UNCHANGED <<earlier, uid, userRole, kick>>

NoticeStep(n) == NoticeMenus(n) \/ NoticeRoles(n) \/ Emit(n)

----------------------------------------------------------------------------
(* POST online/kick of another user; 10012 for oneself. *)
KickRequest(k, u) ==
  /\ kick[k].pc = "idle"
  /\ kick' = [kick EXCEPT ![k] = [NoKick EXCEPT !.pc = "root", !.id = u]]
  /\ UNCHANGED <<earlier, uid, userRole, notice, stale, missed>>

(* Variant: the root user is not refused. *)
KickAnyone(k) ==
  /\ kick[k].pc = "root"
  /\ kick' = [kick EXCEPT ![k].pc = "close"]
  /\ UNCHANGED <<earlier, uid, userRole, notice, stale, missed>>

(* kickUser: findRootUserId (result[0].userId throws where nobody has the    *)
(* root role), getAccountInfo of the caller, 10013 for the user found, and  *)
(* forbidden (AuthSession.Forbidden).                                       *)
KickUser(k) ==
  /\ kick[k].pc = "root"
  /\ kick' = [kick EXCEPT ![k] = IF FindRootUser \in {NoUser, kick[k].id} THEN NoKick
                                 ELSE [@ EXCEPT !.pc = "close"]]
  /\ UNCHANGED <<earlier, uid, userRole, notice, stale, missed>>

(* A query or a command rejects; 10017 if the caller's row is gone. *)
KickFails(k) ==
  /\ kick[k].pc # "idle"
  /\ kick' = [kick EXCEPT ![k] = NoKick]
  /\ UNCHANGED <<earlier, uid, userRole, notice, stale, missed>>

(* findSocketIdByUid: the first socket with that uid. *)
FindSocket(u) ==
  {s \in SocketsOf({u}) : earlier[s] \cap SocketsOf({u}) = {}}

(* emit, disconnect. *)
KickClose(k) ==
  /\ kick[k].pc = "close"
  /\ Close(FindSocket(kick[k].id))
  /\ kick' = [kick EXCEPT ![k] = NoKick]
  /\ UNCHANGED <<userRole, notice>>

KickStep(k) == KickUser(k) \/ KickClose(k)

(* A rejection nobody handles (a notice's query), or a restart. *)
ServerEnds ==
  /\ Close(OnlineSockets)
  /\ notice' = [n \in Notices |-> NoNotice]
  /\ kick' = [k \in Kicks |-> NoKick]
  /\ UNCHANGED userRole

WsNext ==
  \/ \E s \in Sockets, u \in Users : HandleConnection(s, u)
  \/ \E s \in Sockets : HandleDisconnect(s)
  \/ \E u \in Users, r \in Roles : ChangeUserRole(u, r)
  \/ \E n \in Notices :
       \/ (\E r \in Roles : \E S \in SUBSET (Roles \ {r}) :
             \E lost \in SUBSET (Asking \X (S \cup {r})) : SaveRole(n, r, S, lost))
       \/ (\E R \in SUBSET Roles : DeleteMenus(n, R))
       \/ NoticeStep(n)
  \/ \E S \in SUBSET Roles : \E lost \in SUBSET (Asking \X S) : ChangeUnnoticed(S, lost)
  \/ \E k \in Kicks :
       KickStep(k) \/ KickFails(k) \/ (\E u \in Users : KickRequest(k, u))
  \/ ServerEnds

WsSpec == WsInit /\ [][WsNext]_wsVars

(* The queries of a notice are answered. *)
WsFairness == \A n \in Notices : WF_wsVars(NoticeStep(n))

----------------------------------------------------------------------------
StaleTypes ==
  /\ uid \in [Sockets -> Users \cup {NoUser}]
  /\ userRole \subseteq Users \X Roles
  /\ notice \in [Notices -> NoticeSlot]
  /\ stale \in [Sockets -> SUBSET Roles]
  /\ missed \in [Sockets -> SUBSET Roles]

(* Types of the sockets and of the slots; the sockets are in some order.      *)
WsTypeOK ==
  /\ earlier \in [Sockets -> SUBSET OnlineSockets]
  /\ \A s, t \in OnlineSockets :
       /\ s \in earlier[t] <=> s # t /\ t \notin earlier[s]
       /\ s \in earlier[t] => earlier[s] \subseteq earlier[t]
  /\ kick \in [Kicks -> KickSlot]
  /\ StaleTypes

(* A client whose user's menus changed is known to nobody but the notice:    *)
(* as long as a client has not been told, a notice of that role is under    *)
(* way that will find its user, or one has gone to others, or the handler   *)
(* that made the last change gave none for the role (role.service.ts:376    *)
(* gives it for the role saved only, though line 365 takes menus from       *)
(* others).                                                                *)
StaleNoticed ==
  \A s \in Sockets : \A r \in stale[s] \ missed[s] :
    \E n \in Notices : r \in notice[n].roles /\ (notice[n].pc = "emit" => r \in notice[n].ids)

(* With what stale says of a client, inductive. *)
StaleInv ==
  /\ StaleTypes
  /\ StaleNoticed
  /\ \A n \in Notices :
       /\ notice[n].pc # "emit" => notice[n].ids = {}
       /\ notice[n].pc = "idle" => notice[n].roles = {}
  /\ \A s \in Sockets : \A r \in stale[s] : <<uid[s], r>> \in userRole

(* A client whose user's menus have changed is told, disconnects, or its      *)
(* user loses the role, where the change was given a notice: although the   *)
(* ids a notice looks for are ids of roles (admin-ws.service.ts:96), for    *)
(* then, as a rule, it finds no socket and tells everyone.  Only a client   *)
(* that is connected along with one whose user's id is that of such a role, *)
(* or whose role last changed with no notice, may never be told.            *)
StaleTold ==
  \A s \in Sockets, r \in Roles : r \in stale[s] ~> r \notin stale[s] \/ r \in missed[s]

(* A kick that is about to close a socket has not the root user for its      *)
(* target, unless the root role changed hands since it looked.              *)
KickSparesRoot ==
  \A k \in Kicks : kick[k].pc = "close" => kick[k].id # FindRootUser \/ kick[k].moved

=============================================================================
