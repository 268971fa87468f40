---------------------------- MODULE MCPermCache ----------------------------
(***************************************************************************)
(* Instances of PermCache for TLC.  One run has the requests of one user,   *)
(* which overlap and may be cut off, and those of two users, one at a time; *)
(* it chooses at the start.                                                *)
(***************************************************************************)
EXTENDS PermCache, TLC

CONSTANTS root, ann, r1, r2, detail

VARIABLE alone   \* no requests overlap

OneUser     == {ann}
MCUsers     == {root, ann}
OneRequest  == {r1}
TwoRequests == {r1, r2}
OneMenu     == {detail}
NoProtected == {}
RootAndOne  == {1, 2}
TwoOrdinary == {2, 3}
Flat        == detail :> None

Symmetric == Permutations(TwoRequests)

Active == IF alone THEN Users ELSE {ann}

SumInit ==
  /\ Init
  /\ alone \in BOOLEAN
  /\ \A u \in Users \ Active : userRole[u] = {}

SumNext ==
  /\ UNCHANGED alone
  /\ \/ \E r \in Requests :
          /\ alone => \A q \in Requests \ {r} : At(q, "idle")
          /\ \/ UserHandlersOn(r, Active) \/ RoleHandlersOn(r, Active) \/ MenuHandlers(r) \/ Proceed(r)
             \/ ~alone /\ Abort(r)
     \/ \E u \in Users : TokenExpires(u)

SumSpec == SumInit /\ [][SumNext]_<<vars, alone>>

----------------------------------------------------------------------------
(* Where requests do not overlap, refreshOnlineUserPerms leaves every online *)
(* user the permissions of the tables (menu.service.ts:282).                *)
LoneRefreshes == [][alone => Refreshed]_<<vars, alone>>

(* Where requests do not overlap, a change of roles or menus that nothing    *)
(* refreshed waits for the user's next login and no longer, unless he is   *)
(* the administrator, whose logins give him his old token (login.service.ts: *)
(* 156-183).                                                               *)
LoneLoginCopies == [][alone => LoginCopied]_<<vars, alone>>

=============================================================================
