---------------------------- MODULE MCUserAdmin ----------------------------
(* Small instances of UserAdmin. *)
EXTENDS UserAdmin, TLC

CONSTANTS n1, n2, p1, role1, post1, r1, r2

TwoNames    == {n1, n2}
OnePhone    == {p1}
OneRole     == {role1}
OnePost     == {post1}
TwoRequests == {r1, r2}

(* Names and slots are interchangeable. *)
Symmetry == Permutations({n1, n2}) \cup Permutations({r1, r2})
=============================================================================
