------------------------- MODULE MenuTree_proofs -------------------------
(***************************************************************************)
(* Proofs about MenuTree.                                                  *)
(*                                                                         *)
(* The trees are recursive functions over the depth.  What they compute is  *)
(* proved from the least-number principle: a recursive definition over 0..N *)
(* has a value (Recursion), a growing chain of sets of rows stops growing   *)
(* before it is longer than the rows (ChainStops), so that transData and    *)
(* Ancestors are least sets closed under a step of the tree                 *)
(* (TransDataLeast, AncestorsLeast).  The properties of the trees follow    *)
(* without a further look at the recursion.  That of the deletion with all  *)
(* below is an invariant of its walk (FoundBelow).                          *)
(***************************************************************************)
EXTENDS MenuTree, FiniteSetTheorems, TLAPS

(* A set of numbers that has a member has a least one. *)
LEMMA LeastNat ==
  ASSUME NEW S, S \subseteq Nat, S # {}
  PROVE  \E m \in S : \A k \in S : m <= k
<1> DEFINE R == OpToRel(<, Nat)
<1>1. R = {p \in Nat \X Nat : p[1] < p[2]}
  BY DEF OpToRel
<1>2. IsWellFoundedOn(R, Nat)
  BY NatLessThanWellFounded
<1> HIDE DEF R
<1>3. PICK x \in S : \A y \in S : ~(<<y, x>> \in R)
  BY <1>2, WFMin
<1>4. \A y \in Nat : y < x => <<y, x>> \in R
  BY <1>1
<1>5. \A k \in S : x <= k
  <2> SUFFICES ASSUME NEW k \in S, ~(x <= k) PROVE FALSE
    OBVIOUS
  <2>1. x \in Nat /\ k \in Nat
    OBVIOUS
  <2>2. k < x
    BY <2>1
  <2>3. <<k, x>> \in R
    BY <1>4, <2>1, <2>2
  <2> QED BY <1>3, <2>3
<1> QED BY <1>5

(* What a recursive definition over 0..N chooses: c, F[c], F[F[c]] and so on. *)
Iterates(X, c, F, N) ==
  {f \in [0..N -> X] : f[0] = c /\ \A n \in 1..N : f[n] = F[f[n - 1]]}

(* What is defined by recursion from c with F exists, as far as any N. *)
LEMMA Recursion ==
  ASSUME NEW X, NEW c \in X, NEW F \in [X -> X], NEW N \in Nat
  PROVE  Iterates(X, c, F, N) # {}
<1> DEFINE Good(k) == \E f \in [0..k -> X] : f[0] = c /\ \A n \in 1..k : f[n] = F[f[n - 1]]
           Bad == {k \in Nat : ~Good(k)}
<1>1. SUFFICES ASSUME Bad # {} PROVE FALSE
  BY DEF Iterates
<1>2. PICK m \in Bad : \A k \in Bad : m <= k
  <2> HIDE DEF Good
  <2> QED BY <1>1, LeastNat
<1>3. m # 0
  <2>1. Good(0)
    <3> DEFINE f == [n \in 0..0 |-> c]
    <3>1. f \in [0..0 -> X] /\ f[0] = c /\ \A n \in 1..0 : f[n] = F[f[n - 1]]
      OBVIOUS
    <3> QED BY <3>1
  <2> QED BY <2>1
<1>4. PICK f \in [0..(m - 1) -> X] : f[0] = c /\ \A n \in 1..(m - 1) : f[n] = F[f[n - 1]]
  <2>1. m - 1 \in Nat /\ m - 1 \notin Bad
    <3> HIDE DEF Good
    <3> QED BY <1>2, <1>3
  <2> QED BY <2>1
<1> DEFINE g == [n \in 0..m |-> IF n = m THEN F[f[m - 1]] ELSE f[n]]
<1>5. g \in [0..m -> X]
  BY <1>3
<1>6. g[0] = c /\ \A n \in 1..m : g[n] = F[g[n - 1]]
  <2>1. g[0] = c
    BY <1>3, <1>4
  <2> SUFFICES ASSUME NEW n \in 1..m PROVE g[n] = F[g[n - 1]]
    BY <2>1
  <2>2. n - 1 \in 0..m /\ n - 1 # m /\ g[n - 1] = f[n - 1]
    BY <1>3
  <2>3. CASE n = m
    BY <2>2, <2>3
  <2>4. CASE n # m
    <3>1. n \in 1..(m - 1) /\ g[n] = f[n]
      BY <2>4, <1>3
    <3> QED BY <3>1, <2>2, <1>4
  <2> QED BY <2>3, <2>4
<1>7. Good(m)
  BY <1>5, <1>6, Zenon
<1> QED BY <1>7

(* The rows of a query: ids of menus, each with its parent. *)
MenuRows(t) ==
  /\ DOMAIN t \subseteq Menus
  /\ t \in [DOMAIN t -> [parent : Parents, on : BOOLEAN]]

(* A table of menus is finite. *)
LEMMA RowsFinite ==
  ASSUME NEW t, MenuRows(t)
  PROVE  IsFiniteSet(DOMAIN t) /\ Cardinality(DOMAIN t) \in Nat
BY MenusAssumption, FS_Subset, FS_CardinalityType DEF MenuRows

(* A chain of Cardinality(D) + 1 growing subsets of D begins empty, or two     *)
(* neighbours are equal.                                                   *)
LEMMA ChainStops ==
  ASSUME NEW D, IsFiniteSet(D),
         NEW U \in [0..Cardinality(D) -> SUBSET D],
         \A n \in 1..Cardinality(D) : U[n - 1] \subseteq U[n]
  PROVE  U[0] = {} \/ \E n \in 1..Cardinality(D) : U[n] = U[n - 1]
<1> DEFINE N == Cardinality(D)
           Low == {n \in 0..N : Cardinality(U[n]) <= n}
<1>1. N \in Nat /\ \A n \in 0..N : IsFiniteSet(U[n]) /\ Cardinality(U[n]) \in Nat
                                   /\ Cardinality(U[n]) <= N
  BY FS_CardinalityType, FS_Subset
<1>2. N \in Low
  BY <1>1
<1>3. PICK n \in Low : \A k \in Low : n <= k
  <2>1. Low \subseteq Nat /\ Low # {}
    BY <1>1, <1>2
  <2> HIDE DEF Low
  <2> QED BY <2>1, LeastNat
<1>4. CASE n = 0
  <2>1. Cardinality(U[0]) = 0
    BY <1>1, <1>4
  <2> QED BY <2>1, <1>1, FS_EmptySet
<1>5. CASE n # 0
  <2>1. n \in 1..N /\ n - 1 \in 0..N /\ n - 1 \notin Low
    BY <1>1, <1>3, <1>5
  <2>2. Cardinality(U[n]) <= n /\ n <= Cardinality(U[n - 1])
    BY <2>1, <1>1
  <2>3. U[n - 1] \subseteq U[n]
    BY <2>1
  <2>4. Cardinality(U[n - 1]) <= Cardinality(U[n])
    BY <2>1, <2>3, <1>1, FS_Subset
  <2>5. Cardinality(U[n]) = Cardinality(U[n - 1])
    BY <2>1, <2>2, <2>4, <1>1
  <2>6. U[n] = U[n - 1]
    BY <2>1, <2>3, <2>5, <1>1, FS_Subset
  <2> QED BY <2>1, <2>6
<1> QED BY <1>4, <1>5

(* buildTree comes to an end with all rows below the top: what transData      *)
(* returns is the least set that holds the rows at the top and, with a row, *)
(* the rows below it.                                                       *)
LEMMA TransDataLeast ==
  ASSUME NEW t, MenuRows(t)
  PROVE  /\ TransData(t) \subseteq DOMAIN t
         /\ Kids(t, 0) \subseteq TransData(t)
         /\ \A m \in TransData(t) : Kids(t, m) \subseteq TransData(t)
         /\ \A S : Kids(t, 0) \subseteq S /\ (\A m \in S : Kids(t, m) \subseteq S)
                     => TransData(t) \subseteq S
<1> DEFINE D == DOMAIN t
           N == Cardinality(D)
           Below(L) == UNION {Kids(t, m) : m \in L}
           level[n \in 0..N] ==
             IF n = 0 THEN Kids(t, 0) ELSE UNION {Kids(t, m) : m \in level[n - 1]}
           F == [L \in SUBSET D |-> UNION {Kids(t, m) : m \in L}]
<1>1. TransData(t) = UNION {level[n] : n \in DOMAIN level}
  BY DEF TransData
<1>2. IsFiniteSet(D) /\ N \in Nat
  BY RowsFinite
<1>3. Kids(t, 0) \in SUBSET D /\ F \in [SUBSET D -> SUBSET D]
  BY DEF Kids
<1>4. PICK f \in [0..N -> SUBSET D] :
        f[0] = Kids(t, 0) /\ \A n \in 1..N : f[n] = F[f[n - 1]]
  <2> DEFINE X == SUBSET D
             c == Kids(t, 0)
  <2>1. N \in Nat /\ c \in X /\ F \in [X -> X]
    BY <1>2, <1>3
  <2> HIDE DEF X, c, N, F, level
  <2>2. Iterates(X, c, F, N) # {}
    BY <2>1, Recursion
  <2>3. PICK f \in Iterates(X, c, F, N) : TRUE
    BY <2>2
  <2> QED BY <2>3 DEF Iterates, X, c
<1>5. f = [n \in 0..N |-> IF n = 0 THEN Kids(t, 0) ELSE Below(f[n - 1])]
  <2>1. \A n \in 1..N : f[n - 1] \in SUBSET D
    BY <1>2
  <2>2. \A n \in 1..N : f[n] = Below(f[n - 1])
    BY <2>1, <1>4
  <2>3. \A n \in 0..N : f[n] = IF n = 0 THEN Kids(t, 0) ELSE Below(f[n - 1])
    BY <2>2, <1>2, <1>4
  <2> QED BY <2>3
<1>6. level = [n \in 0..N |-> IF n = 0 THEN Kids(t, 0)
                               ELSE Below(level[n - 1])]
  BY <1>5
<1>10. \A L : Below(L) \subseteq D /\ \A x \in L : Kids(t, x) \subseteq Below(L)
  BY DEF Kids
<1>11. \A L, S : (\A x \in L : Kids(t, x) \subseteq S) => Below(L) \subseteq S
  OBVIOUS
<1> HIDE DEF level, F, Below
<1>7. \A n \in 0..N : level[n] = IF n = 0 THEN Kids(t, 0)
                                  ELSE Below(level[n - 1])
  BY <1>6
<1>8. DOMAIN level = 0..N
  BY <1>6
<1>9. \A n \in 0..N : level[n] \subseteq D
  BY <1>7, <1>10 DEF Kids
<1>12. /\ level[0] = Kids(t, 0)
      /\ \A n \in 1..N : level[n] = Below(level[n - 1])
  BY <1>2, <1>7
<1>13. TransData(t) \subseteq D
  BY <1>1, <1>8, <1>9
<1>14. Kids(t, 0) \subseteq TransData(t)
  BY <1>1, <1>2, <1>12, <1>8
<1>15. ASSUME NEW S, Kids(t, 0) \subseteq S, \A m \in S : Kids(t, m) \subseteq S
       PROVE  TransData(t) \subseteq S
  <2> DEFINE Out == {n \in 0..N : ~(level[n] \subseteq S)}
  <2> SUFFICES ASSUME Out # {} PROVE FALSE
    BY <1>1, <1>12, <1>8
  <2>1. PICK n \in Out : \A k \in Out : n <= k
    <3>1. Out \subseteq Nat
      OBVIOUS
    <3> HIDE DEF Out
    <3> QED BY <3>1, LeastNat
  <2>2. n \in 1..N /\ n - 1 \in 0..N /\ n - 1 \notin Out
    BY <2>1, <1>12, <1>15, <1>2
  <2>3. level[n] \subseteq S
    BY <2>2, <1>12, <1>15, <1>11
  <2> QED BY <2>1, <2>3
<1>16. ASSUME NEW m \in TransData(t)
       PROVE  Kids(t, m) \subseteq TransData(t)
  <2> DEFINE U == [n \in 0..N |-> UNION {level[k] : k \in 0..n}]
  <2>1. U \in [0..N -> SUBSET D]
    BY <1>9, <1>2
  <2>2. \A n \in 1..N : U[n - 1] \subseteq U[n]
    BY <1>2
  <2>3. \A n \in 0..N : U[n] \subseteq TransData(t)
    BY <1>1, <1>2, <1>12, <1>8
  <2>4. U[0] = Kids(t, 0)
    BY <1>2, <1>12
  <2>5. \A n \in 1..N : Kids(t, 0) \subseteq U[n]
    BY <1>2, <1>12
  <2>6. \A n \in 1..N : \A x \in U[n - 1] : Kids(t, x) \subseteq U[n]
    <3> SUFFICES ASSUME NEW n \in 1..N, NEW x \in U[n - 1] PROVE Kids(t, x) \subseteq U[n]
      OBVIOUS
    <3>1. PICK k \in 0..(n - 1) : x \in level[k]
      BY <1>2
    <3>2. k + 1 \in 1..N /\ k + 1 \in 0..n /\ (k + 1) - 1 = k
      BY <1>2
    <3>3. Kids(t, x) \subseteq level[k + 1]
      BY <3>1, <3>2, <1>12, <1>10
    <3> QED BY <3>2, <3>3
  <2> HIDE DEF U
  <2>7. U[0] = {} \/ \E n \in 1..N : U[n] = U[n - 1]
    <3> HIDE DEF D
    <3> QED BY <2>1, <2>2, <1>2, ChainStops
  <2>8. CASE U[0] = {}
    <3>1. TransData(t) \subseteq {}
      <4>1. Kids(t, 0) \subseteq {}
        BY <2>8, <2>4
      <4> QED BY <4>1, <1>15
    <3> QED BY <3>1
  <2>9. ASSUME NEW n \in 1..N, U[n] = U[n - 1] PROVE Kids(t, m) \subseteq TransData(t)
    <3>1. TransData(t) \subseteq U[n]
      <4>1. \A x \in U[n] : Kids(t, x) \subseteq U[n]
        BY <2>9, <2>6
      <4> QED BY <4>1, <2>5, <1>15
    <3>2. Kids(t, m) \subseteq U[n]
      BY <3>1, <2>6, <2>9
    <3> QED BY <3>2, <2>3, <1>2
  <2> QED BY <2>7, <2>8, <2>9
<1> QED BY <1>13, <1>14, <1>15, <1>16

(* The ancestors of m are the least set that holds m and, with a row, its     *)
(* parent.                                                                 *)
LEMMA AncestorsLeast ==
  ASSUME NEW t, MenuRows(t), NEW m
  PROVE  /\ m \in Ancestors(t, m)
         /\ \A x \in Ancestors(t, m) \cap DOMAIN t : t[x].parent \in Ancestors(t, m)
         /\ \A S : m \in S /\ (\A x \in S \cap DOMAIN t : t[x].parent \in S)
                     => Ancestors(t, m) \subseteq S
<1> DEFINE D == DOMAIN t
           N == Cardinality(D)
           up[n \in 0..N] ==
             IF n = 0 THEN {m} ELSE up[n - 1] \cup {t[x].parent : x \in up[n - 1] \cap D}
           Y == {m} \cup {t[x].parent : x \in D}
           F == [L \in SUBSET Y |-> L \cup {t[x].parent : x \in L \cap D}]
<1>1. Ancestors(t, m) = up[N]
  BY DEF Ancestors
<1>2. IsFiniteSet(D) /\ N \in Nat
  BY RowsFinite
<1>3. {m} \in SUBSET Y /\ F \in [SUBSET Y -> SUBSET Y]
  OBVIOUS
<1>4. PICK f \in [0..N -> SUBSET Y] :
        f[0] = {m} /\ \A n \in 1..N : f[n] = F[f[n - 1]]
  <2> DEFINE X == SUBSET Y
             c == {m}
  <2>1. N \in Nat /\ c \in X /\ F \in [X -> X]
    BY <1>2, <1>3
  <2> HIDE DEF X, c, N, F, up
  <2>2. Iterates(X, c, F, N) # {}
    BY <2>1, Recursion
  <2>3. PICK f \in Iterates(X, c, F, N) : TRUE
    BY <2>2
  <2> QED BY <2>3 DEF Iterates, X, c
<1>5. f = [n \in 0..N |-> IF n = 0 THEN {m}
                           ELSE f[n - 1] \cup {t[x].parent : x \in f[n - 1] \cap D}]
  <2>1. \A n \in 1..N : f[n - 1] \in SUBSET Y
    BY <1>2
  <2>2. \A n \in 1..N : f[n] = f[n - 1] \cup {t[x].parent : x \in f[n - 1] \cap D}
    BY <2>1, <1>4
  <2>3. \A n \in 0..N : f[n] = IF n = 0 THEN {m}
                                ELSE f[n - 1] \cup {t[x].parent : x \in f[n - 1] \cap D}
    BY <2>2, <1>2, <1>4
  <2> QED BY <2>3
<1>6. up = [n \in 0..N |-> IF n = 0 THEN {m}
                            ELSE up[n - 1] \cup {t[x].parent : x \in up[n - 1] \cap D}]
  BY <1>5
<1> HIDE DEF up, F
<1>7. /\ up[0] = {m}
      /\ \A n \in 1..N : up[n] = up[n - 1] \cup {t[x].parent : x \in up[n - 1] \cap D}
  BY <1>2, <1>6
<1>8. ASSUME NEW S, m \in S, \A x \in S \cap D : t[x].parent \in S
      PROVE  \A n \in 0..N : up[n] \subseteq S
  <2> DEFINE Out == {n \in 0..N : ~(up[n] \subseteq S)}
  <2> SUFFICES ASSUME Out # {} PROVE FALSE
    OBVIOUS
  <2>1. PICK n \in Out : \A k \in Out : n <= k
    <3>1. Out \subseteq Nat
      OBVIOUS
    <3> HIDE DEF Out
    <3> QED BY <3>1, LeastNat
  <2>2. n \in 1..N /\ n - 1 \in 0..N /\ n - 1 \notin Out
    BY <2>1, <1>7, <1>8, <1>2
  <2>3. up[n] \subseteq S
    BY <2>2, <1>7, <1>8
  <2> QED BY <2>1, <2>3
<1>9. \A n \in 0..N : up[n] \subseteq up[N]
  <2> DEFINE Out == {k \in Nat : k <= N /\ ~(up[N - k] \subseteq up[N])}
  <2> SUFFICES ASSUME Out # {} PROVE FALSE
    <3>1. \A n \in 0..N : N - n \in Nat /\ N - n <= N /\ N - (N - n) = n
      BY <1>2
    <3> QED BY <3>1
  <2>1. PICK k \in Out : \A j \in Out : k <= j
    <3>1. Out \subseteq Nat
      OBVIOUS
    <3> HIDE DEF Out
    <3> QED BY <3>1, LeastNat
  <2>2. k # 0
    BY <2>1, <1>2
  <2>3. k - 1 \in Nat /\ k - 1 <= N /\ k - 1 \notin Out
    BY <2>1, <2>2, <1>2
  <2>4. N - (k - 1) \in 1..N /\ (N - (k - 1)) - 1 = N - k
    BY <2>1, <2>2, <1>2
  <2>5. up[N - k] \subseteq up[N - (k - 1)]
    BY <2>4, <1>7
  <2> QED BY <2>1, <2>3, <2>5
<1>10. m \in up[N]
  BY <1>7, <1>9, <1>2
<1>11. ASSUME NEW x \in up[N] \cap D
       PROVE  t[x].parent \in up[N]
  <2> DEFINE U == [n \in 0..N |-> up[n] \cap D]
  <2>1. U \in [0..N -> SUBSET D]
    OBVIOUS
  <2>2. \A n \in 1..N : U[n - 1] \subseteq U[n]
    BY <1>2, <1>7
  <2>3. \A n \in 0..N : U[n] = up[n] \cap D
    OBVIOUS
  <2> HIDE DEF U
  <2>4. U[0] = {} \/ \E n \in 1..N : U[n] = U[n - 1]
    <3> HIDE DEF D
    <3> QED BY <2>1, <2>2, <1>2, ChainStops
  <2>5. CASE U[0] = {}
    <3>1. m \notin D
      BY <2>5, <2>3, <1>7, <1>2
    <3>2. up[N] \subseteq {m}
      <4>1. \A z \in {m} \cap D : t[z].parent \in {m}
        BY <3>1
      <4>2. \A n \in 0..N : up[n] \subseteq {m}
        BY <4>1, <1>8
      <4> QED BY <4>2, <1>2
    <3> QED BY <3>1, <3>2
  <2>6. ASSUME NEW n \in 1..N, U[n] = U[n - 1] PROVE t[x].parent \in up[N]
    <3>1. n \in 0..N /\ n - 1 \in 0..N
      BY <1>2
    <3>2. \A z \in up[n] \cap D : t[z].parent \in up[n]
      BY <2>6, <2>3, <3>1, <1>7
    <3>3. m \in up[n]
      <4> DEFINE Out == {k \in 0..N : m \notin up[k]}
      <4> SUFFICES ASSUME Out # {} PROVE FALSE
        BY <3>1
      <4>2. PICK k \in Out : \A j \in Out : k <= j
        <5>1. Out \subseteq Nat
          OBVIOUS
        <5> HIDE DEF Out
        <5> QED BY <5>1, LeastNat
      <4>3. k \in 1..N /\ k - 1 \in 0..N /\ k - 1 \notin Out
        BY <4>2, <1>7, <1>2
      <4> QED BY <4>2, <4>3, <1>7
    <3>4. up[N] \subseteq up[n]
      BY <3>2, <3>3, <1>8, <1>2
    <3> QED BY <3>1, <3>2, <3>4, <1>9
  <2> QED BY <2>4, <2>5, <2>6
<1> QED BY <1>1, <1>8, <1>10, <1>11, <1>2

(* The ancestors of a row's parent are ancestors of the row. *)
LEMMA AncestorsOfParent ==
  ASSUME NEW t, MenuRows(t), NEW m \in DOMAIN t
  PROVE  /\ Ancestors(t, t[m].parent) \subseteq Ancestors(t, m)
         /\ Ancestors(t, m) \subseteq {m} \cup Ancestors(t, t[m].parent)
<1> DEFINE p == t[m].parent
<1>1. p \in Ancestors(t, m) /\ \A x \in Ancestors(t, m) \cap DOMAIN t : t[x].parent \in Ancestors(t, m)
  BY AncestorsLeast
<1>2. p \in Ancestors(t, p) /\ \A x \in Ancestors(t, p) \cap DOMAIN t : t[x].parent \in Ancestors(t, p)
  BY AncestorsLeast
<1>3. Ancestors(t, p) \subseteq Ancestors(t, m)
  <2> HIDE DEF p
  <2> QED BY <1>1, AncestorsLeast
<1>4. Ancestors(t, m) \subseteq {m} \cup Ancestors(t, p)
  <2> DEFINE S == {m} \cup Ancestors(t, p)
  <2>1. m \in S /\ \A x \in S \cap DOMAIN t : t[x].parent \in S
    BY <1>2
  <2> HIDE DEF p, S
  <2>2. Ancestors(t, m) \subseteq S
    BY <2>1, AncestorsLeast
  <2> QED BY <2>2 DEF S
<1> QED BY <1>3, <1>4

(* A row at the top has no ancestors but itself and the top. *)
LEMMA AncestorsOfTop ==
  ASSUME NEW t, MenuRows(t), NEW m \in Kids(t, 0)
  PROVE  Ancestors(t, m) \subseteq {m, 0}
<1> DEFINE S == {m, 0}
<1>1. m \in S /\ \A x \in S \cap DOMAIN t : t[x].parent \in S
  BY MenusAssumption DEF MenuRows, Kids
<1>2. Ancestors(t, m) \subseteq S
  <2> HIDE DEF S
  <2> QED BY <1>1, AncestorsLeast
<1> QED BY <1>2

(* Where an ancestor of m other than the top is missing from a set that holds *)
(* the rows at the top and is closed upwards along m's ancestors, the top    *)
(* is no ancestor.  (The argument of the two lemmas below.)                 *)
LEMMA LeadsDown ==
  ASSUME NEW t, MenuRows(t), NEW m \in DOMAIN t, 0 \in Ancestors(t, m), NEW T,
         \A x \in Ancestors(t, m) \cap DOMAIN t :
           t[x].parent = 0 \/ t[x].parent \in T => x \in T
  PROVE  m \in T
<1> SUFFICES ASSUME m \notin T PROVE FALSE
  OBVIOUS
<1> DEFINE C == {x \in Ancestors(t, m) : x # 0 /\ x \notin T}
<1>1. m # 0
  BY MenusAssumption DEF MenuRows
<1>2. m \in Ancestors(t, m) /\ \A x \in Ancestors(t, m) \cap DOMAIN t : t[x].parent \in Ancestors(t, m)
  BY AncestorsLeast
<1>3. m \in C /\ \A x \in C \cap DOMAIN t : t[x].parent \in C
  BY <1>1, <1>2
<1>4. Ancestors(t, m) \subseteq C
  <2> HIDE DEF C
  <2> QED BY <1>3, AncestorsLeast
<1> QED BY <1>4

(* transData returns the rows whose ancestors lead to the top. *)
LEMMA TransDataShown ==
  ASSUME NEW t, MenuRows(t)
  PROVE  TransData(t) = {m \in DOMAIN t : 0 \in Ancestors(t, m)}
<1> DEFINE S == {m \in DOMAIN t : 0 \in Ancestors(t, m)}
<1>1. Kids(t, 0) \subseteq S
  BY AncestorsLeast DEF Kids
<1>2. \A m \in S : Kids(t, m) \subseteq S
  <2> SUFFICES ASSUME NEW m \in S, NEW k \in Kids(t, m) PROVE k \in S
    OBVIOUS
  <2>1. k \in DOMAIN t /\ t[k].parent = m
    BY DEF Kids
  <2>2. Ancestors(t, m) \subseteq Ancestors(t, k)
    BY <2>1, AncestorsOfParent
  <2> QED BY <2>1, <2>2
<1>3. TransData(t) \subseteq S
  <2> HIDE DEF S
  <2> QED BY <1>1, <1>2, TransDataLeast
<1>4. ASSUME NEW m \in S PROVE m \in TransData(t)
  <2> DEFINE T == TransData(t)
  <2>1. \A x \in DOMAIN t : t[x].parent = 0 \/ t[x].parent \in T => x \in T
    BY TransDataLeast DEF Kids
  <2> HIDE DEF T
  <2>2. m \in T
    BY <2>1, LeadsDown
  <2> QED BY <2>2 DEF T
<1> QED BY <1>3, <1>4

(* The same where the rows that are not on are left out of the query. *)
LEMMA TransDataOn ==
  ASSUME NEW t, MenuRows(t)
  PROVE  TransData([m \in {x \in DOMAIN t : t[x].on} |-> t[m]]) =
           {m \in DOMAIN t : /\ 0 \in Ancestors(t, m)
                             /\ \A x \in Ancestors(t, m) \ {0} : t[x].on}
<1> DEFINE u == [m \in {x \in DOMAIN t : t[x].on} |-> t[m]]
           S == {m \in DOMAIN t : /\ 0 \in Ancestors(t, m)
                                  /\ \A x \in Ancestors(t, m) \ {0} : t[x].on}
<1>1. MenuRows(u)
  BY DEF MenuRows
<1>2. \A p : Kids(u, p) = {k \in Kids(t, p) : t[k].on}
  BY DEF Kids
<1> HIDE DEF u
<1>3. Kids(u, 0) \subseteq S
  <2> SUFFICES ASSUME NEW k \in Kids(u, 0) PROVE k \in S
    OBVIOUS
  <2>1. k \in Kids(t, 0) /\ k \in DOMAIN t /\ t[k].on /\ t[k].parent = 0
    BY <1>2 DEF Kids
  <2>2. 0 \in Ancestors(t, k)
    BY <2>1, AncestorsLeast
  <2>3. Ancestors(t, k) \subseteq {k, 0}
    BY <2>1, AncestorsOfTop
  <2> QED BY <2>1, <2>2, <2>3
<1>4. \A m \in S : Kids(u, m) \subseteq S
  <2> SUFFICES ASSUME NEW m \in S, NEW k \in Kids(u, m) PROVE k \in S
    OBVIOUS
  <2>1. k \in DOMAIN t /\ t[k].on /\ t[k].parent = m
    BY <1>2 DEF Kids
  <2>2. Ancestors(t, m) \subseteq Ancestors(t, k) /\ Ancestors(t, k) \subseteq {k} \cup Ancestors(t, m)
    BY <2>1, AncestorsOfParent
  <2> QED BY <2>1, <2>2
<1>5. TransData(u) \subseteq S
  <2> HIDE DEF S
  <2> QED BY <1>1, <1>3, <1>4, TransDataLeast
<1>6. ASSUME NEW m \in S PROVE m \in TransData(u)
  <2> DEFINE T == TransData(u)
  <2>1. \A x \in Ancestors(t, m) \cap DOMAIN t :
          t[x].parent = 0 \/ t[x].parent \in T => x \in T
    <3> SUFFICES ASSUME NEW x \in Ancestors(t, m) \cap DOMAIN t,
                        t[x].parent = 0 \/ t[x].parent \in T
                 PROVE  x \in T
      OBVIOUS
    <3>1. t[x].on
      BY MenusAssumption DEF MenuRows
    <3>2. x \in Kids(u, t[x].parent)
      BY <3>1, <1>2 DEF Kids
    <3> QED BY <3>2, <1>1, TransDataLeast
  <2> HIDE DEF T
  <2>2. m \in T
    BY <2>1, LeadsDown
  <2> QED BY <2>2 DEF T
<1> QED BY <1>5, <1>6 DEF u

(* The routers hold only menus that the role opens, of any rows and any choice. *)
LEMMA RoutersOpened ==
  ASSUME MenuRows(menu)
  PROVE  GetRouters(menu, granted) \subseteq Opened
<1> DEFINE u == GetMenus(menu, granted)
<1>1. MenuRows(u) /\ \A p : Kids(u, p) = {k \in Kids(menu, p) : menu[k].on /\ k \in granted}
  BY DEF MenuRows, GetMenus, Kids
<1>2. Kids(u, -1) = {}
  BY <1>1, MenusAssumption DEF MenuRows, Kids, Parents
<1>3. GetRouters(menu, granted) = Kids(u, 0) \cup UNION {Kids(u, m) : m \in Kids(u, 0)}
  BY <1>2 DEF GetRouters, RouterData
<1> HIDE DEF u
<1>4. \A m \in Kids(u, 0) : m \in Opened
  <2> SUFFICES ASSUME NEW m \in Kids(u, 0) PROVE m \in Opened
    OBVIOUS
  <2>1. m \in Kids(menu, 0) /\ menu[m].on /\ m \in granted
    BY <1>1
  <2>2. Ancestors(menu, m) \subseteq {m, 0}
    BY <2>1, AncestorsOfTop
  <2>3. m \in DOMAIN menu /\ 0 \in Ancestors(menu, m)
    BY <2>1, AncestorsLeast DEF Kids
  <2> QED BY <2>1, <2>2, <2>3 DEF Opened
<1>5. \A p \in Kids(u, 0) : \A m \in Kids(u, p) : m \in Opened
  <2> SUFFICES ASSUME NEW p \in Kids(u, 0), NEW m \in Kids(u, p) PROVE m \in Opened
    OBVIOUS
  <2>1. m \in DOMAIN menu /\ menu[m].parent = p /\ menu[m].on /\ m \in granted
    BY <1>1 DEF Kids
  <2>2. /\ Ancestors(menu, p) \subseteq Ancestors(menu, m)
        /\ Ancestors(menu, m) \subseteq {m} \cup Ancestors(menu, p)
    BY <2>1, AncestorsOfParent
  <2>3. p \in Opened
    BY <1>4
  <2> QED BY <2>1, <2>2, <2>3 DEF Opened
<1> QED BY <1>3, <1>4, <1>5

(* A choice closed upwards that leads to the top is the ancestors of those of  *)
(* its rows that are no parents: a row of the choice that is below none of    *)
(* them has a child that is not either, so that the rows without one would   *)
(* be the parents of as many rows, themselves, and never reach the top.     *)
LEMMA KeysRebuild ==
  ASSUME MenuRows(menu)
  PROVE  CheckedKeysRebuild
<1> DEFINE chosen == DOMAIN menu \cap granted
           keys == CheckedKeys(menu, granted)
           up   == UNION {Ancestors(menu, m) : m \in keys}
           C    == chosen \ up
<1> SUFFICES ASSUME \A m \in chosen : 0 \in Ancestors(menu, m) /\ Ancestors(menu, m) \ {0} \subseteq chosen
             PROVE  up \ {0} = chosen
  BY DEF CheckedKeysRebuild, RoleMenuTreeselect
<1>1. keys = {m \in chosen : \A x \in chosen : menu[x].parent # m}
  BY DEF CheckedKeys
<1>2. up \ {0} \subseteq chosen
  BY <1>1
<1>3. 0 \notin chosen
  BY MenusAssumption DEF MenuRows
<1>4. \A c \in C : \E x \in C : menu[x].parent = c
  <2> SUFFICES ASSUME NEW c \in C PROVE \E x \in C : menu[x].parent = c
    OBVIOUS
  <2>1. c \notin keys
    BY AncestorsLeast
  <2>2. PICK x \in chosen : menu[x].parent = c
    BY <2>1, <1>1
  <2>3. ASSUME NEW k \in keys, x \in Ancestors(menu, k) PROVE FALSE
    BY <2>2, <2>3, AncestorsLeast
  <2> QED BY <2>2, <2>3
<1> HIDE DEF keys, up
<1>5. C = {}
  <2> SUFFICES ASSUME NEW d \in C PROVE FALSE
    OBVIOUS
  <2> DEFINE child == [c \in C |-> CHOOSE x \in C : menu[x].parent = c]
  <2>1. \A c \in C : child[c] \in C /\ menu[child[c]].parent = c
    BY <1>4
  <2>2. child \in Injection(C, C)
    BY <2>1 DEF Injection, IsInjective
  <2>3. IsFiniteSet(C)
    <3>1. C \in SUBSET DOMAIN menu
      OBVIOUS
    <3> HIDE DEF C
    <3> QED BY <3>1, RowsFinite, FS_Subset
  <2>4. child \in Surjection(C, C)
    <3> HIDE DEF C, child
    <3> QED BY <2>2, <2>3, FS_Injection
  <2>5. \A x \in C : menu[x].parent \in C
    <3> HIDE DEF C, child
    <3> SUFFICES ASSUME NEW x \in C PROVE menu[x].parent \in C
      OBVIOUS
    <3>1. PICK c \in C : child[c] = x
      BY <2>4 DEF Surjection
    <3> QED BY <2>1, <3>1
  <2>6. Ancestors(menu, d) \subseteq C
    <3> HIDE DEF C
    <3> QED BY <2>5, AncestorsLeast
  <2> QED BY <2>6, <1>3
<1> QED BY <1>2, <1>3, <1>5

----------------------------------------------------------------------------
(* The rows and the slots, and what a walk may rely on while nobody puts a     *)
(* menu somewhere: the children of a menu that it has read are found.        *)
WalkType == [pc : {"idle", "walk"}, todo : SUBSET Menus, got : SUBSET Menus, moved : BOOLEAN]

TreeTypeOK == MenuRows(menu) /\ granted \subseteq Menus /\ walk \in [Walks -> WalkType]

FoundBelow ==
  \A w \in Walks :
    /\ walk[w].pc = "idle" => walk[w].todo = {} /\ walk[w].got = {}
    /\ ~walk[w].moved => \A x \in walk[w].got \ walk[w].todo : Kids(menu, x) \subseteq walk[w].got

TreeInv == TreeTypeOK /\ FoundBelow

(* No walk is under way at the start. *)
LEMMA TreeInvInit == TreeInit => TreeInv
<1> SUFFICES ASSUME TreeInit PROVE TreeInv
  OBVIOUS
<1>1. MenuRows(menu)
  BY DEF TreeInit, MenuRows
<1>2. granted \subseteq Menus /\ walk \in [Walks -> WalkType] /\ FoundBelow
  BY DEF TreeInit, NoWalk, WalkType, FoundBelow
<1> QED BY <1>1, <1>2 DEF TreeInv, TreeTypeOK

(* Steps that change rows: a walk that may have missed a menu is marked.       *)
LEMMA MovedOf ==
  ASSUME TreeTypeOK, NEW w \in Walks
  PROVE  /\ Moved[w] \in WalkType
         /\ Moved[w].pc = walk[w].pc /\ Moved[w].todo = walk[w].todo /\ Moved[w].got = walk[w].got
         /\ Moved[w].moved <=> walk[w].pc = "walk"
<1>1. walk[w] \in WalkType
  BY DEF TreeTypeOK
<1>2. Moved[w] = [walk[w] EXCEPT !.moved = walk[w].pc = "walk"]
  BY DEF Moved
<1>3. CASE walk[w].pc = "walk"
  <2>1. Moved[w] = [walk[w] EXCEPT !.moved = TRUE]
    BY <1>2, <1>3
  <2> QED BY <1>1, <1>3, <2>1 DEF WalkType
<1>4. CASE walk[w].pc # "walk"
  <2>1. Moved[w] = [walk[w] EXCEPT !.moved = FALSE]
    BY <1>2, <1>4
  <2> QED BY <1>1, <1>4, <2>1 DEF WalkType
<1> QED BY <1>3, <1>4

(* The rows change: the walks are marked, or no menu gets a child. *)
LEMMA RowsChangeInv ==
  ASSUME TreeInv, MenuRows(menu'), granted' = granted,
         \/ walk' = Moved
         \/ walk' = walk /\ \A x \in Menus : Kids(menu', x) \subseteq Kids(menu, x)
  PROVE  TreeInv'
<1>1. walk' \in [Walks -> WalkType]
  <2>1. CASE walk' = Moved
    <3>1. \A w \in Walks : Moved[w] \in WalkType
      BY MovedOf DEF TreeInv
    <3>2. DOMAIN Moved = Walks /\ Moved = [w \in Walks |-> Moved[w]]
      BY DEF Moved
    <3> QED BY <2>1, <3>1, <3>2
  <2>2. CASE walk' = walk
    BY <2>2 DEF TreeInv, TreeTypeOK
  <2> QED BY <2>1, <2>2
<1>2. FoundBelow'
  <2> SUFFICES ASSUME NEW w \in Walks
               PROVE  /\ walk'[w].pc = "idle" => walk'[w].todo = {} /\ walk'[w].got = {}
                      /\ ~walk'[w].moved => \A x \in walk'[w].got \ walk'[w].todo :
                                              Kids(menu', x) \subseteq walk'[w].got
    BY DEF FoundBelow
  <2>0. walk[w] \in WalkType
    BY DEF TreeInv, TreeTypeOK
  <2>1. CASE walk' = walk /\ \A x \in Menus : Kids(menu', x) \subseteq Kids(menu, x)
    BY <2>0, <2>1 DEF TreeInv, FoundBelow, WalkType
  <2>2. CASE walk' = Moved
    <3>1. /\ Moved[w].pc = walk[w].pc /\ Moved[w].todo = walk[w].todo /\ Moved[w].got = walk[w].got
          /\ Moved[w].moved <=> walk[w].pc = "walk"
      BY MovedOf DEF TreeInv
    <3>2. CASE walk[w].pc = "walk"
      BY <2>2, <3>1, <3>2
    <3>3. CASE walk[w].pc = "idle"
      <4>1. walk[w].todo = {} /\ walk[w].got = {}
        BY <3>3 DEF TreeInv, FoundBelow
      <4> QED BY <2>2, <3>1, <4>1
    <3> QED BY <2>0, <3>2, <3>3 DEF WalkType
  <2> QED BY <2>1, <2>2
<1> QED BY <1>1, <1>2 DEF TreeInv, TreeTypeOK

(* Every step keeps what the rows and the walks may rely on. *)
LEMMA TreeInvNext == TreeInv /\ [TreeNext]_treeVars => TreeInv'
<1> SUFFICES ASSUME TreeInv, [TreeNext]_treeVars PROVE TreeInv'
  OBVIOUS
<1>0. MenuRows(menu) /\ granted \subseteq Menus /\ walk \in [Walks -> WalkType] /\ FoundBelow
  BY DEF TreeInv, TreeTypeOK
<1>1. ASSUME NEW m \in Menus, NEW p \in Parents, NEW on \in BOOLEAN, MenuCreate(m, p, on)
      PROVE  TreeInv'
  <2>1. MenuRows(menu')
    BY <1>0, <1>1 DEF MenuCreate, MenuRows
  <2> QED BY <1>1, <2>1, RowsChangeInv DEF MenuCreate
<1>2. ASSUME NEW m \in Menus, NEW p \in Parents, NEW on \in BOOLEAN, MenuUpdate(m, p, on)
      PROVE  TreeInv'
  <2>1. MenuRows(menu')
    BY <1>0, <1>2 DEF MenuUpdate, MenuRows
  <2>2. p = menu[m].parent => \A x \in Menus : Kids(menu', x) \subseteq Kids(menu, x)
    BY <1>0, <1>2 DEF MenuUpdate, MenuRows, Kids
  <2>3. granted' = granted /\ walk' = IF p = menu[m].parent THEN walk ELSE Moved
    BY <1>2 DEF MenuUpdate
  <2> QED BY <2>1, <2>2, <2>3, RowsChangeInv
<1>3. ASSUME NEW m \in Menus, MenuRemove(m)
      PROVE  TreeInv'
  <2>1. MenuRows(menu') /\ \A x \in Menus : Kids(menu', x) \subseteq Kids(menu, x)
    BY <1>0, <1>3 DEF MenuRemove, MenuRows, Kids
  <2> QED BY <1>3, <2>1, RowsChangeInv DEF MenuRemove
<1>4. ASSUME NEW w \in Walks, NEW m \in Menus, DeleteTree(w, m)
      PROVE  TreeInv'
  <2>1. menu' = menu /\ granted' = granted /\ walk' \in [Walks -> WalkType]
    BY <1>0, <1>4 DEF DeleteTree, WalkType, NoWalk
  <2>2. FoundBelow'
    BY <1>0, <1>4 DEF DeleteTree, FoundBelow, NoWalk
  <2> QED BY <1>0, <2>1, <2>2 DEF TreeInv, TreeTypeOK
<1>5. ASSUME NEW w \in Walks, NEW m \in Menus, FindChildMenus(w, m)
      PROVE  TreeInv'
  <2>0. Kids(menu, m) \subseteq Menus
    BY <1>0 DEF Kids, MenuRows
  <2>1. menu' = menu /\ granted' = granted
    BY <1>5 DEF FindChildMenus
  <2> DEFINE new == [walk[w] EXCEPT !.todo = (walk[w].todo \ {m}) \cup Kids(menu, m),
                                    !.got  = walk[w].got \cup Kids(menu, m)]
  <2>2. walk' = [walk EXCEPT ![w] = new]
    BY <1>0, <1>5 DEF FindChildMenus
  <2>5. new \in WalkType
    BY <1>0, <2>0 DEF WalkType
  <2>6. /\ new.pc = walk[w].pc /\ new.moved = walk[w].moved
        /\ new.todo = (walk[w].todo \ {m}) \cup Kids(menu, m)
        /\ new.got = walk[w].got \cup Kids(menu, m)
    BY <1>0 DEF WalkType
  <2> HIDE DEF new
  <2>3. walk' \in [Walks -> WalkType]
    BY <2>5, <2>2, <1>0
  <2>4. FoundBelow'
    <3> SUFFICES ASSUME NEW v \in Walks
                 PROVE  /\ walk'[v].pc = "idle" => walk'[v].todo = {} /\ walk'[v].got = {}
                        /\ ~walk'[v].moved => \A x \in walk'[v].got \ walk'[v].todo :
                                                Kids(menu', x) \subseteq walk'[v].got
      BY DEF FoundBelow
    <3>1. /\ walk[v].pc = "idle" => walk[v].todo = {} /\ walk[v].got = {}
          /\ ~walk[v].moved => \A x \in walk[v].got \ walk[v].todo :
                                 Kids(menu, x) \subseteq walk[v].got
      BY <1>0 DEF FoundBelow
    <3>2. CASE v # w
      <4>1. walk'[v] = walk[v]
        BY <2>2, <3>2, <1>0
      <4> QED BY <3>1, <4>1, <2>1
    <3>3. CASE v = w
      <4>1. /\ walk'[w].pc = walk[w].pc /\ walk'[w].moved = walk[w].moved
            /\ walk'[w].todo = (walk[w].todo \ {m}) \cup Kids(menu, m)
            /\ walk'[w].got = walk[w].got \cup Kids(menu, m)
        BY <2>2, <2>6, <1>0
      <4>2. m \in walk[w].todo
        BY <1>5 DEF FindChildMenus
      <4>3. walk[w].pc # "idle"
        BY <4>2, <3>1, <3>3
      <4> QED BY <3>1, <3>3, <4>1, <4>3, <2>1
    <3> QED BY <3>2, <3>3
  <2> QED BY <1>0, <2>1, <2>3, <2>4 DEF TreeInv, TreeTypeOK
<1>6. ASSUME NEW w \in Walks, DeleteMenuItem(w)
      PROVE  TreeInv'
  <2>1. MenuRows(menu') /\ \A x \in Menus : Kids(menu', x) \subseteq Kids(menu, x)
    BY <1>0, <1>6 DEF DeleteMenuItem, MenuRows, Kids
  <2>2. granted' = granted /\ walk' = [walk EXCEPT ![w] = NoWalk]
    BY <1>6 DEF DeleteMenuItem
  <2>3. walk' \in [Walks -> WalkType]
    BY <1>0, <2>2 DEF WalkType, NoWalk
  <2>4. FoundBelow'
    <3> SUFFICES ASSUME NEW v \in Walks
                 PROVE  /\ walk'[v].pc = "idle" => walk'[v].todo = {} /\ walk'[v].got = {}
                        /\ ~walk'[v].moved => \A x \in walk'[v].got \ walk'[v].todo :
                                                Kids(menu', x) \subseteq walk'[v].got
      BY DEF FoundBelow
    <3>1. CASE v # w
      <4>1. walk'[v] = walk[v] /\ walk[v] \in WalkType
        BY <2>2, <3>1, <1>0
      <4> QED BY <1>0, <2>1, <4>1 DEF FoundBelow, WalkType
    <3>2. CASE v = w
      BY <2>2, <3>2, <1>0 DEF NoWalk
    <3> QED BY <3>1, <3>2
  <2> QED BY <1>0, <2>1, <2>2, <2>3, <2>4 DEF TreeInv, TreeTypeOK
<1>7. CASE UNCHANGED treeVars
  BY <1>0, <1>7 DEF treeVars, TreeInv, TreeTypeOK, FoundBelow
<1> QED BY <1>1, <1>2, <1>3, <1>4, <1>5, <1>6, <1>7 DEF TreeNext, WalkStep

(* The types hold, and a deletion that nobody disturbed has found everything   *)
(* below what it has read (findChildMenus), in any table, cycles included.   *)
THEOREM TreeInvariant == TreeSpec => []TreeInv
BY TreeInvInit, TreeInvNext, PTL DEF TreeSpec

(* What a step of the deletion with all below leaves: every row whose parent   *)
(* was deleted was found while its parent's children were read.             *)
LEMMA DeleteStep ==
  ASSUME TreeInv, [TreeNext]_treeVars, NEW w \in Walks,
         walk[w].pc = "walk", walk'[w].pc = "idle", ~walk[w].moved,
         NEW m \in DOMAIN menu'
  PROVE  menu'[m].parent \notin walk[w].got
<1>0. MenuRows(menu) /\ walk \in [Walks -> WalkType] /\ FoundBelow
  BY DEF TreeInv, TreeTypeOK
<1>1. DeleteMenuItem(w)
  <2>1. ASSUME NEW k \in Menus, NEW p \in Parents, NEW on \in BOOLEAN,
               MenuCreate(k, p, on) \/ MenuUpdate(k, p, on) \/ MenuRemove(k)
        PROVE  FALSE
    <3>1. walk' = walk \/ walk' = Moved
      BY <2>1 DEF MenuCreate, MenuUpdate, MenuRemove
    <3>2. Moved[w].pc = walk[w].pc
      BY MovedOf DEF TreeInv
    <3> QED BY <3>1, <3>2
  <2>2. ASSUME NEW v \in Walks, NEW k \in Menus, DeleteTree(v, k) PROVE FALSE
    BY <2>2, <1>0 DEF DeleteTree, NoWalk
  <2>3. ASSUME NEW v \in Walks, NEW k \in Menus, FindChildMenus(v, k) PROVE FALSE
    BY <2>3, <1>0 DEF FindChildMenus, WalkType
  <2>4. ASSUME NEW v \in Walks, DeleteMenuItem(v) PROVE v = w
    BY <2>4, <1>0 DEF DeleteMenuItem
  <2>5. ~UNCHANGED treeVars
    BY DEF treeVars
  <2>6. 0 \in Parents /\ TRUE \in BOOLEAN
    BY DEF Parents
  <2> QED BY <2>1, <2>2, <2>3, <2>4, <2>5, <2>6 DEF TreeNext, WalkStep
<1>2. /\ walk[w].todo = {}
      /\ \A x \in walk[w].got : Kids(menu, x) \subseteq walk[w].got
  BY <1>0, <1>1 DEF DeleteMenuItem, FoundBelow
<1>3. m \in DOMAIN menu /\ m \notin walk[w].got /\ menu'[m] = menu[m]
  BY <1>1 DEF DeleteMenuItem
<1> QED BY <1>2, <1>3 DEF Kids

(* A deletion with all below leaves no orphan, for any tree and any others.   *)
THEOREM DeletionLeavesNoOrphans == TreeSpec => NoOrphansLeft
<1>1. TreeInv /\ [TreeNext]_treeVars =>
        [\A w \in Walks :
           walk[w].pc = "walk" /\ walk'[w].pc = "idle" /\ ~walk[w].moved =>
             \A m \in DOMAIN menu' : menu'[m].parent \notin walk[w].got]_treeVars
  BY DeleteStep
<1> QED BY <1>1, TreeInvariant, PTL DEF TreeSpec, NoOrphansLeft

(* The trees show all rows that lead to the top, and the routers nothing that  *)
(* the role does not open, for any table.                                   *)
THEOREM TreesShowAll == TreeSpec => []TreeShowsAll
<1>1. TreeInv => TreeShowsAll
  <2> SUFFICES ASSUME TreeInv PROVE TreeShowsAll
    OBVIOUS
  <2>1. MenuRows(menu)
    BY DEF TreeInv, TreeTypeOK
  <2> DEFINE shown == {m \in DOMAIN menu : 0 \in Ancestors(menu, m)}
  <2>2. TransData(menu) = shown
    BY <2>1, TransDataShown
  <2>3. TransData([m \in {x \in DOMAIN menu : menu[x].on} |-> menu[m]]) =
          {m \in shown : \A x \in Ancestors(menu, m) \ {0} : menu[x].on}
    <3>1. TransData([m \in {x \in DOMAIN menu : menu[x].on} |-> menu[m]]) =
            {m \in DOMAIN menu : /\ 0 \in Ancestors(menu, m)
                                 /\ \A x \in Ancestors(menu, m) \ {0} : menu[x].on}
      BY <2>1, TransDataOn
    <3> QED BY <3>1
  <2>4. GetRouters(menu, granted) \subseteq Opened
    BY <2>1, RoutersOpened
  <2>5. RoleMenuTreeselect(menu, granted).menus = shown /\ UserDeptTree(menu) = shown
    BY <2>2 DEF RoleMenuTreeselect, UserDeptTree, UserTransData
  <2>6. RoleDeptTree(menu, granted).depts =
          {m \in shown : \A x \in Ancestors(menu, m) \ {0} : menu[x].on}
    BY <2>3 DEF RoleDeptTree, RoleTransData
  <2> QED BY <2>4, <2>5, <2>6 DEF TreeShowsAll
<1> QED BY <1>1, TreeInvariant, PTL

(* The checked keys are enough to rebuild the choice, for any table. *)
THEOREM CheckedKeysSuffice == TreeSpec => []CheckedKeysRebuild
<1>1. TreeInv => CheckedKeysRebuild
  BY KeysRebuild DEF TreeInv, TreeTypeOK
<1> QED BY <1>1, TreeInvariant, PTL

=============================================================================
