--------------------------- MODULE MCAuthSession ---------------------------
(* Instances of AuthSession for TLC. *)
EXTENDS AuthSession, TLC

CONSTANTS root, ann, r1, r2, r3, p1, p2

MCUsers     == {root, ann}
OneUser     == {ann}
ThreeRequests == {r1, r2, r3}
OneRequest  == {r1}
MCPasswords == {p1, p2}

(* Slots and password digests are interchangeable. *)
Symmetric == Permutations(ThreeRequests) \cup Permutations(MCPasswords)
=============================================================================
