---------------------------- MODULE MCRoleAdmin ----------------------------
(* Small instances of RoleAdmin. *)
EXTENDS RoleAdmin, TLC

CONSTANTS m1, m2, d1, r1, r2

TwoMenus    == {m1, m2}
OneMenu     == {m1}
OneDept     == {d1}
OneRequest  == {r1}
TwoRequests == {r1, r2}

(* Menus and slots are interchangeable. *)
Symmetry == Permutations({m1, m2}) \cup Permutations({r1, r2})
=============================================================================
