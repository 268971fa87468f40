--------------------------- MODULE TableApi_proofs ---------------------------
(***************************************************************************)
(* Proofs about TableApi.                                                  *)
(*                                                                         *)
(* Pages: what a client may rely on while it reads (Reads) is stated with   *)
(* the ranks of the rows among those that its query asks for: while none    *)
(* goes ranks only grow, while none but a new one comes they only fall; that *)
(* gives the whole of the walk, for any number of clients, rows and pages.  *)
(*                                                                         *)
(* Routes: the router finds the route a request is made for, whatever the   *)
(* routes are and in whatever order they are tried, where no two are alike  *)
(* and none has the value of a parameter for a segment (RouterFinds); the    *)
(* routes of the program are such (AllRoutesDistinct), and each that writes  *)
(* asks for the permission to write that way (ListsAsk).  So the slots of    *)
(* the requests that write hold what the guard saw (GuardInv).               *)
(***************************************************************************)
EXTENDS TableApi, FiniteSetTheorems, TLAPS

----------------------------------------------------------------------------
(* Pages. *)

(* The routes that a request to a table can reach. *)
Targets == {NoCall.route}
             \cup UNION {{Reached[k][i] : i \in DOMAIN Apis[k].routes} : k \in DOMAIN Tables}

CallType == [pc : {"idle", "run", "count", "done"}, route : Targets, id : Nat, held : BOOLEAN,
             page : Nat, want : SUBSET BOOLEAN, seen : SUBSET Nat, alive : SUBSET Nat,
             twice : BOOLEAN, cut : BOOLEAN, pushed : BOOLEAN]

(* How many pages the client of request s has read. *)
PagesRead(s) == IF s.pc = "run" THEN s.page - 1 ELSE s.page

(* What a client that reads pages of the rows in t may rely on.  While no row  *)
(* but a new one comes to those it asks for, the rows it has seen rank within *)
(* the pages it has read; while none of them goes, it has seen those that    *)
(* were there all the time and rank within those pages.                     *)
Reads(s, t) ==
  LET M == Matching(t, s.want) IN
  /\ s.pc = "run" /\ s.route.op = "page" => s.page >= 1
  /\ s.pc = "count" => s.page >= 1
  /\ s.page = 0 => s.seen = {} /\ s.alive = {}
  /\ s.alive \subseteq M
  /\ ~s.pushed => ~s.twice /\ \A i \in s.seen \cap M : Rank(i, M) <= PagesRead(s) * PageSize
  /\ ~s.cut => /\ s.seen \subseteq M
               /\ \A i \in s.alive : Rank(i, M) <= PagesRead(s) * PageSize => i \in s.seen
  /\ s.pc = "done" /\ ~s.cut => s.alive \subseteq s.seen

Reader(c) == Reads(call[c], rows)

ApiInv == ApiTypeOK /\ call \in [Calls -> CallType] /\ \A c \in Calls : Reader(c)

(* A slot at rest relies on nothing. *)
LEMMA NoCallFits ==
  /\ NoCall \in CallType /\ NoCall.pc = "idle"
  /\ NoCall.seen = {} /\ NoCall.alive = {} /\ \A t : Reads(NoCall, t)
<1>1. NoCall.route \in Targets
  BY DEF Targets
<1>2. NoCall \in CallType
  BY <1>1 DEF NoCall, CallType
<1> QED BY <1>2 DEF Reads, NoCall

(* Ranks are numbers, at most that of the rows. *)
LEMMA RankBounds ==
  ASSUME NEW n \in Nat, NEW S, S \subseteq 1..n
  PROVE  /\ IsFiniteSet(S) /\ Cardinality(S) \in Nat
         /\ \A i : Rank(i, S) \in Nat /\ Rank(i, S) <= Cardinality(S)
<1>1. IsFiniteSet(S) /\ Cardinality(S) \in Nat
  <2>1. IsFiniteSet(1..n)
    BY FS_Interval
  <2> QED BY <2>1, FS_Subset, FS_CardinalityType
<1>2. ASSUME NEW i PROVE Rank(i, S) \in Nat /\ Rank(i, S) <= Cardinality(S)
  <2> DEFINE T == {j \in S : j <= i}
  <2>1. T \subseteq S
    OBVIOUS
  <2> HIDE DEF T
  <2>2. IsFiniteSet(T) /\ Cardinality(T) <= Cardinality(S)
    BY <1>1, <2>1, FS_Subset
  <2>3. Cardinality(T) \in Nat
    BY <2>2, FS_CardinalityType
  <2> QED BY <2>2, <2>3 DEF Rank, T
<1> QED BY <1>1, <1>2

(* A row has a rank, from one on. *)
LEMMA RankPositive ==
  ASSUME NEW n \in Nat, NEW S, S \subseteq 1..n, NEW i \in S
  PROVE  Rank(i, S) >= 1
<1> DEFINE T == {j \in S : j <= i}
<1>1. i \in T /\ T \subseteq 1..n
  <2>1. i \in 1..n
    BY Zenon
  <2>2. i <= i
    BY <2>1
  <2> QED BY <2>2, Zenon
<1> HIDE DEF T
<1>2. IsFiniteSet(T)
  <2>1. IsFiniteSet(1..n)
    BY FS_Interval
  <2> QED BY <1>1, <2>1, FS_Subset
<1>3. Cardinality(T) \in Nat /\ Cardinality(T) # 0
  BY <1>1, <1>2, FS_EmptySet, FS_CardinalityType
<1> QED BY <1>3 DEF Rank, T

(* A row ranks at least as high among more rows. *)
LEMMA RankGrows ==
  ASSUME NEW n \in Nat, NEW S, NEW T, T \subseteq 1..n, NEW i,
         \A j \in S : j <= i => j \in T
  PROVE  Rank(i, S) <= Rank(i, T)
<1> DEFINE A == {j \in S : j <= i}
           B == {j \in T : j <= i}
<1>1. A \subseteq B /\ B \subseteq 1..n
  OBVIOUS
<1> HIDE DEF A, B
<1>2. IsFiniteSet(B)
  <2>1. IsFiniteSet(1..n)
    BY FS_Interval
  <2> QED BY <1>1, <2>1, FS_Subset
<1>3. Cardinality(A) <= Cardinality(B)
  BY <1>1, <1>2, FS_Subset
<1> QED BY <1>3 DEF Rank, A, B

(* What a client may rely on when the rows, of which n were made, are u after  *)
(* having been t, where only the next one is new.                          *)
After(s, t, u) ==
  [s EXCEPT !.alive = s.alive \cap Matching(u, s.want),
            !.cut = s.cut \/ ~(Matching(t, s.want) \subseteq Matching(u, s.want)),
            !.pushed = s.pushed \/ ~(Matching(u, s.want) \cap DOMAIN t \subseteq Matching(t, s.want))]

LEMMA ReadsOn ==
  ASSUME NEW n \in Nat, NEW t, NEW u, NEW s \in CallType, Reads(s, t),
         DOMAIN t \subseteq 1..n, DOMAIN u \subseteq DOMAIN t \cup {n + 1},
         s.seen \subseteq 1..n, s.page # 0
  PROVE  /\ After(s, t, u) \in CallType /\ After(s, t, u).seen = s.seen
         /\ After(s, t, u).pc = s.pc /\ After(s, t, u).alive \subseteq s.alive
         /\ Reads(After(s, t, u), u)
<1> DEFINE before == Matching(t, s.want)
           after  == Matching(u, s.want)
           r      == After(s, t, u)
           P      == PagesRead(s) * PageSize
<1>1. before \subseteq DOMAIN t /\ after \subseteq DOMAIN u
  BY DEF Matching
<1>2. before \subseteq 1..n /\ after \subseteq 1..(n + 1)
  BY <1>1
<1>3. /\ r \in CallType /\ r.pc = s.pc /\ r.route = s.route /\ r.page = s.page
      /\ r.want = s.want /\ r.seen = s.seen /\ r.twice = s.twice
      /\ r.alive = s.alive \cap after
      /\ r.cut = (s.cut \/ ~(before \subseteq after))
      /\ r.pushed = (s.pushed \/ ~(after \cap DOMAIN t \subseteq before))
  <2> DEFINE al == s.alive \cap after
             cu == s.cut \/ ~(before \subseteq after)
             pu == s.pushed \/ ~(after \cap DOMAIN t \subseteq before)
  <2>1. r = [s EXCEPT !.alive = al, !.cut = cu, !.pushed = pu]
    BY DEF After
  <2>2. al \in SUBSET Nat /\ cu \in BOOLEAN /\ pu \in BOOLEAN
    BY DEF CallType
  <2> HIDE DEF al, cu, pu, r
  <2>3. /\ r \in CallType /\ r.pc = s.pc /\ r.route = s.route /\ r.page = s.page
        /\ r.want = s.want /\ r.seen = s.seen /\ r.twice = s.twice
        /\ r.alive = al /\ r.cut = cu /\ r.pushed = pu
    BY <2>1, <2>2 DEF CallType
  <2> QED BY <2>3 DEF al, cu, pu
<1> HIDE DEF r
<1>4. PagesRead(r) = PagesRead(s)
  BY <1>3 DEF PagesRead
<1>5. P \in Int
  BY PageSizeAssumption DEF PagesRead, CallType
<1>6. \A i : Rank(i, before) \in Nat /\ Rank(i, after) \in Nat
  BY <1>2, RankBounds
<1>7. /\ s.alive \subseteq before
      /\ ~s.pushed => ~s.twice /\ \A i \in s.seen \cap before : Rank(i, before) <= P
      /\ ~s.cut => s.seen \subseteq before /\ \A i \in s.alive : Rank(i, before) <= P => i \in s.seen
      /\ s.pc = "done" /\ ~s.cut => s.alive \subseteq s.seen
  BY DEF Reads
<1> HIDE DEF P, before, after
<1>8. ~r.pushed => ~r.twice /\ \A i \in r.seen \cap after : Rank(i, after) <= P
  <2> SUFFICES ASSUME ~r.pushed, NEW i \in s.seen \cap after
               PROVE  Rank(i, after) <= P
    BY <1>3, <1>7
  <2>1. after \cap DOMAIN t \subseteq before /\ ~s.pushed
    BY <1>3
  <2>2. i \in 1..n /\ \A j \in after : j \in DOMAIN t \/ j = n + 1
    BY <1>1
  <2>3. \A j \in after : j <= i => j \in before
    BY <2>1, <2>2
  <2>4. i \in before
    <3>1. i \in DOMAIN t
      BY <1>1, <2>2
    <3> QED BY <2>1, <3>1
  <2>6. Rank(i, after) <= Rank(i, before)
    BY <1>2, <2>3, RankGrows
  <2>5. Rank(i, before) <= P
    BY <1>7, <2>1, <2>4
  <2> QED BY <1>5, <1>6, <2>5, <2>6
<1>9. ~r.cut => /\ r.seen \subseteq after
                /\ \A i \in r.alive : Rank(i, after) <= P => i \in r.seen
  <2> SUFFICES ASSUME ~r.cut
               PROVE  /\ s.seen \subseteq after
                      /\ \A i \in s.alive \cap after : Rank(i, after) <= P => i \in s.seen
    BY <1>3
  <2>1. before \subseteq after /\ ~s.cut
    BY <1>3
  <2>2. ASSUME NEW i \in s.alive, Rank(i, after) <= P PROVE i \in s.seen
    <3>1. Rank(i, before) <= Rank(i, after)
      <4>1. n + 1 \in Nat /\ \A j \in before : j <= i => j \in after
        BY <2>1
      <4> QED BY <1>2, <4>1, RankGrows
    <3>2. Rank(i, before) <= P
      BY <1>5, <1>6, <2>2, <3>1
    <3> QED BY <1>7, <2>1, <3>2
  <2> QED BY <1>7, <2>1, <2>2
<1>10. Reads(r, u)
  <2>1. /\ r.pc = "run" /\ r.route.op = "page" => r.page >= 1
        /\ r.pc = "count" => r.page >= 1
        /\ r.page = 0 => r.seen = {} /\ r.alive = {}
    BY <1>3 DEF Reads
  <2>2. /\ r.alive \subseteq after
        /\ r.pc = "done" /\ ~r.cut => r.alive \subseteq r.seen
    BY <1>3, <1>7
  <2> QED BY <1>3, <1>4, <1>8, <1>9, <2>1, <2>2 DEF Reads, P, after
<1> QED BY <1>3, <1>10 DEF r

(* Nobody reads at first. *)
LEMMA ApiInvInit == ApiInit => ApiInv
<1> SUFFICES ASSUME ApiInit PROVE ApiInv
  OBVIOUS
<1>1. rows = <<>> /\ made = 0 /\ call = [c \in Calls |-> NoCall] /\ api \in DOMAIN Tables
  BY DEF ApiInit
<1>2. ApiTypeOK
  <2>1. DOMAIN rows = {} /\ rows \in [DOMAIN rows -> BOOLEAN]
    BY <1>1
  <2> QED BY <1>1, <2>1, NoCallFits, MaxRowsAssumption DEF ApiTypeOK
<1>3. call \in [Calls -> CallType] /\ \A c \in Calls : Reader(c)
  BY <1>1, NoCallFits DEF Reader
<1> QED BY <1>2, <1>3 DEF ApiInv

(* A step of slot c that leaves the table alone: what is left to show is c. *)
LEMMA OneSlotStep ==
  ASSUME ApiInv, NEW c \in Calls, NEW r \in CallType, call' = [call EXCEPT ![c] = r],
         UNCHANGED <<api, rows, made>>, r.seen \cup r.alive \subseteq 1..made,
         Reads(r, rows)
  PROVE  ApiInv'
<1>1. ApiTypeOK /\ call \in [Calls -> CallType] /\ \A d \in Calls : Reader(d)
  BY DEF ApiInv
<1>2. call'[c] = r /\ call' \in [Calls -> CallType] /\ \A d \in Calls \ {c} : call'[d] = call[d]
  BY <1>1
<1>3. \A d \in Calls : Reader(d)'
  BY <1>1, <1>2 DEF Reader
<1>4. ApiTypeOK'
  <2>1. \A d \in Calls : /\ call'[d].pc \in {"idle", "run", "count", "done"}
                         /\ call'[d].seen \cup call'[d].alive \subseteq 1..made
    BY <1>1, <1>2 DEF ApiTypeOK, CallType
  <2> QED BY <1>1, <2>1 DEF ApiTypeOK
<1> QED BY <1>2, <1>3, <1>4 DEF ApiInv

(* A step of slot c that answers it and leaves the table alone. *)
LEMMA AnswerStep ==
  ASSUME ApiInv, NEW c \in Calls, Answer(c), UNCHANGED <<api, rows, made>>
  PROVE  ApiInv'
BY NoCallFits, OneSlotStep DEF Answer

(* A handler writes: one slot is answered, the other clients read on. *)
LEMMA WritesInv ==
  ASSUME ApiInv, NEW c \in Calls, NEW t, Writes(c, t), t \in [DOMAIN t -> BOOLEAN],
         DOMAIN t \subseteq DOMAIN rows \cup {made + 1}, DOMAIN t \subseteq 1..made',
         made' \in made..MaxRows
  PROVE  ApiInv'
<1>1. /\ ApiTypeOK /\ call \in [Calls -> CallType] /\ made \in Nat /\ DOMAIN rows \subseteq 1..made
      /\ \A d \in Calls : Reader(d) /\ call[d].seen \cup call[d].alive \subseteq 1..made
  BY MaxRowsAssumption DEF ApiInv, ApiTypeOK
<1>2. rows' = t /\ call' = [Readers(t) EXCEPT ![c] = NoCall] /\ UNCHANGED api
  BY DEF Writes
<1>3. DOMAIN Readers(t) = Calls
  BY DEF Readers
<1>4. call'[c] = NoCall /\ \A d \in Calls \ {c} : call'[d] = Readers(t)[d]
  BY <1>2, <1>3
<1>5. ASSUME NEW d \in Calls \ {c}
      PROVE  /\ call'[d] \in CallType /\ Reads(call'[d], t)
             /\ call'[d].seen \cup call'[d].alive \subseteq 1..made
  <2>1. call[d] \in CallType /\ Reads(call[d], rows)
    BY <1>1 DEF Reader
  <2>2. CASE call[d].page = 0
    <3>1. call'[d] = call[d]
      BY <1>4, <2>2 DEF Readers
    <3>2. Reads(call[d], t)
      BY <2>1, <2>2 DEF Reads
    <3> QED BY <1>1, <2>1, <3>1, <3>2
  <2>3. CASE call[d].page # 0
    <3>1. call'[d] = After(call[d], rows, t)
      BY <1>4, <2>3 DEF Readers, After
    <3> QED BY <1>1, <2>1, <2>3, <3>1, ReadsOn
  <2> QED BY <2>2, <2>3
<1>6. call' \in [Calls -> CallType]
  <2>1. \A d \in Calls : call'[d] \in CallType
    BY <1>4, <1>5, NoCallFits
  <2>2. DOMAIN call' = Calls /\ call' = [d \in Calls |-> call'[d]]
    BY <1>2, <1>3
  <2> QED BY <2>1, <2>2
<1>7. \A d \in Calls : Reader(d)'
  BY <1>2, <1>4, <1>5, NoCallFits DEF Reader
<1>8. ApiTypeOK'
  <2>1. 1..made \subseteq 1..made' /\ made' \in 0..MaxRows
    BY <1>1, MaxRowsAssumption
  <2>2. \A d \in Calls : /\ call'[d].pc \in {"idle", "run", "count", "done"}
                         /\ call'[d].seen \cup call'[d].alive \subseteq 1..made'
    BY <1>4, <1>5, <2>1, NoCallFits DEF CallType
  <2> QED BY <1>1, <1>2, <2>1, <2>2 DEF ApiTypeOK
<1> QED BY <1>6, <1>7, <1>8 DEF ApiInv

(* Each of the three handlers that write. *)
LEMMA CreateRowInv ==
  ASSUME ApiInv, NEW c \in Calls, CreateRow(c)
  PROVE  ApiInv'
<1>1. /\ made \in Nat /\ made < MaxRows /\ made' = made + 1 /\ DOMAIN rows \subseteq 1..made
      /\ rows \in [DOMAIN rows -> BOOLEAN]
  BY MaxRowsAssumption DEF ApiInv, ApiTypeOK, CreateRow
<1> DEFINE t(v) == [i \in DOMAIN rows \cup {made + 1} |-> IF i = made + 1 THEN v ELSE rows[i]]
<1>2. PICK v \in BOOLEAN : Writes(c, t(v))
  BY DEF CreateRow
<1>3. /\ t(v) \in [DOMAIN t(v) -> BOOLEAN] /\ DOMAIN t(v) = DOMAIN rows \cup {made + 1}
      /\ DOMAIN t(v) \subseteq 1..made'
  BY <1>1
<1>4. made' \in made..MaxRows
  BY <1>1, MaxRowsAssumption
<1> HIDE DEF t
<1> QED BY <1>2, <1>3, <1>4, WritesInv

LEMMA EditRowInv ==
  ASSUME ApiInv, NEW c \in Calls, EditRow(c)
  PROVE  ApiInv'
<1>1. /\ made \in Nat /\ made' = made /\ DOMAIN rows \subseteq 1..made /\ made \in made..MaxRows
      /\ rows \in [DOMAIN rows -> BOOLEAN]
  BY MaxRowsAssumption DEF ApiInv, ApiTypeOK, EditRow
<1> DEFINE t(v, ids) == [i \in DOMAIN rows |-> IF i \in ids THEN v ELSE rows[i]]
<1>2. PICK v \in BOOLEAN, ids \in {{call[c].id}} \cup (IF Apis[api].many THEN {DOMAIN rows} ELSE {}) :
        Writes(c, t(v, ids))
  BY Zenon DEF EditRow
<1>3. t(v, ids) \in [DOMAIN t(v, ids) -> BOOLEAN] /\ DOMAIN t(v, ids) = DOMAIN rows
  BY <1>1
<1> HIDE DEF t
<1> QED BY <1>1, <1>2, <1>3, WritesInv

LEMMA RemoveRowInv ==
  ASSUME ApiInv, NEW c \in Calls, RemoveRow(c)
  PROVE  ApiInv'
<1>1. /\ made \in Nat /\ made' = made /\ DOMAIN rows \subseteq 1..made /\ made \in made..MaxRows
      /\ rows \in [DOMAIN rows -> BOOLEAN]
  BY MaxRowsAssumption DEF ApiInv, ApiTypeOK, RemoveRow
<1> DEFINE t == [j \in DOMAIN rows \ {call[c].id} |-> rows[j]]
<1>2. Writes(c, t)
  BY DEF RemoveRow
<1>3. t \in [DOMAIN t -> BOOLEAN] /\ DOMAIN t \subseteq DOMAIN rows
  BY <1>1
<1> HIDE DEF t
<1> QED BY <1>1, <1>2, <1>3, WritesInv

(* A walk begins: no row ranks within no page. *)
LEMMA RequestInv ==
  ASSUME ApiInv, NEW c \in Calls, NEW i \in DOMAIN Apis[api].routes, Request(c, i)
  PROVE  ApiInv'
<1> DEFINE r == Reached[api][i]
           page == IF r.op = "page" THEN 1 ELSE 0
           alive(want) == IF r.op = "page" THEN Matching(rows, want) ELSE {}
           s(id, want) == [NoCall EXCEPT
             !.pc = "run", !.route = r, !.id = id, !.held = Holds(perms, r.need),
             !.want = want, !.page = page, !.alive = alive(want)]
<1>1. /\ ApiTypeOK /\ call \in [Calls -> CallType] /\ made \in Nat /\ DOMAIN rows \subseteq 1..made
      /\ api \in DOMAIN Tables
  BY MaxRowsAssumption DEF ApiInv, ApiTypeOK
<1>2. r \in Targets
  BY <1>1 DEF Targets
<1>3. PICK id \in Nat, want \in SUBSET BOOLEAN : call' = [call EXCEPT ![c] = s(id, want)]
  <2>1. PICK id \in IF r.op \in {"edit", "remove"} THEN 1..MaxRows ELSE {0},
             want \in IF r.op = "page" THEN Wants(Apis[api]) ELSE {BOOLEAN} :
          call' = [call EXCEPT ![c] = s(id, want)]
    BY Zenon DEF Request
  <2>2. id \in Nat
    BY MaxRowsAssumption
  <2>3. want \in SUBSET BOOLEAN
    BY DEF Wants
  <2> QED BY <2>1, <2>2, <2>3, Zenon
<1>4. Holds(perms, r.need) \in BOOLEAN
  BY DEF Holds
<1> DEFINE M == Matching(rows, want)
           al == alive(want)
           q  == s(id, want)
<1>5. page \in {0, 1} /\ (r.op = "page" => page = 1) /\ al \subseteq M /\ (page = 0 => al = {})
  OBVIOUS
<1>6. M \subseteq 1..made
  BY <1>1 DEF Matching
<1> DEFINE held == Holds(perms, r.need)
<1>7. q = [NoCall EXCEPT !.pc = "run", !.route = r, !.id = id, !.held = held,
             !.want = want, !.page = page, !.alive = al]
  OBVIOUS
<1>8. al \in SUBSET Nat
  BY <1>1, <1>5, <1>6
<1>9. call' = [call EXCEPT ![c] = q]
  BY <1>3
<1> HIDE DEF r, page, alive, s, q, al, held, M
<1>10. /\ q \in CallType /\ q.pc = "run" /\ q.route = r /\ q.page = page /\ q.want = want
       /\ q.seen = {} /\ q.alive = al /\ ~q.twice
  <2>1. held \in BOOLEAN /\ page \in Nat
    BY <1>4, <1>5 DEF held
  <2> QED BY <1>2, <1>7, <1>8, <2>1 DEF NoCall, CallType
<1>11. PagesRead(q) * PageSize <= 0 /\ PagesRead(q) * PageSize \in Int
  <2>1. PagesRead(q) = page - 1
    BY <1>10 DEF PagesRead
  <2>2. PagesRead(q) = 0 \/ PagesRead(q) = -1
    BY <1>5, <2>1
  <2>3. 0 * PageSize = 0 /\ (-1) * PageSize <= 0 /\ (-1) * PageSize \in Int
    BY PageSizeAssumption
  <2> QED BY <2>2, <2>3
<1>12. \A j \in al : ~(Rank(j, M) <= PagesRead(q) * PageSize)
  <2> SUFFICES ASSUME NEW j \in al PROVE ~(Rank(j, M) <= PagesRead(q) * PageSize)
    OBVIOUS
  <2>1. Rank(j, M) >= 1 /\ Rank(j, M) \in Nat
    BY <1>1, <1>5, <1>6, RankPositive, RankBounds
  <2> QED BY <1>11, <2>1
<1>13. Reads(q, rows)
  BY <1>5, <1>10, <1>12 DEF Reads, M
<1>14. UNCHANGED <<api, rows, made>>
  BY DEF Request
<1>15. q.seen \cup q.alive \subseteq 1..made
  BY <1>5, <1>6, <1>10
<1> QED BY <1>9, <1>10, <1>13, <1>14, <1>15, OneSlotStep

(* A page more: its rows rank behind those seen. *)
LEMMA PageRowsInv ==
  ASSUME ApiInv, NEW c \in Calls, PageRows(c)
  PROVE  ApiInv'
<1> DEFINE r    == call[c]
           M    == Matching(rows, r.want)
           p    == r.page
           got  == OnPage(M, p)
           seen == r.seen \cup got
           twice == r.twice \/ r.seen \cap got # {}
           s    == [r EXCEPT !.pc = "count", !.seen = seen, !.twice = twice]
<1>1. /\ ApiTypeOK /\ call \in [Calls -> CallType] /\ made \in Nat /\ DOMAIN rows \subseteq 1..made
      /\ r \in CallType /\ Reads(r, rows) /\ r.seen \cup r.alive \subseteq 1..made
  BY MaxRowsAssumption DEF ApiInv, ApiTypeOK, Reader
<1>2. /\ call' = [call EXCEPT ![c].pc = "count", ![c].seen = seen, ![c].twice = twice]
      /\ r.pc = "run" /\ r.route.op = "page" /\ UNCHANGED <<api, rows, made>>
  BY DEF PageRows, Running
<1>3. call' = [call EXCEPT ![c] = s]
  BY <1>1, <1>2
<1>4. p \in Nat /\ p >= 1 /\ PagesRead(r) = p - 1
  BY <1>1, <1>2 DEF Reads, PagesRead, CallType
<1>5. /\ (p - 1) * PageSize \in Int /\ p * PageSize \in Int
      /\ (p - 1) * PageSize <= p * PageSize
  <2>1. (p - 1) * PageSize = p * PageSize - PageSize /\ p * PageSize \in Int
    BY <1>4, PageSizeAssumption
  <2> QED BY <2>1, PageSizeAssumption
<1>6. M \subseteq 1..made
  BY <1>1 DEF Matching
<1>7. \A i : Rank(i, M) \in Nat
  BY <1>1, <1>6, RankBounds
<1>8. got = {i \in M : (p - 1) * PageSize < Rank(i, M) /\ Rank(i, M) <= p * PageSize}
  BY DEF OnPage
<1>9. /\ r.alive \subseteq M
      /\ ~r.pushed => ~r.twice /\ \A i \in r.seen \cap M : Rank(i, M) <= (p - 1) * PageSize
      /\ ~r.cut => /\ r.seen \subseteq M
                   /\ \A i \in r.alive : Rank(i, M) <= (p - 1) * PageSize => i \in r.seen
  BY <1>1, <1>4 DEF Reads
<1> HIDE DEF got, M
<1>10. got \subseteq M /\ got \subseteq 1..made /\ seen \in SUBSET Nat /\ twice \in BOOLEAN
  <2>1. got \subseteq M
    BY <1>8
  <2>2. got \subseteq 1..made /\ 1..made \subseteq Nat
    BY <1>1, <1>6, <2>1
  <2>3. r.seen \in SUBSET Nat /\ r.twice \in BOOLEAN
    BY <1>1 DEF CallType
  <2> HIDE DEF r
  <2> QED BY <2>1, <2>2, <2>3
<1> HIDE DEF seen, twice, r
<1>11. /\ s \in CallType /\ s.pc = "count" /\ s.seen = seen /\ s.twice = twice /\ s.page = p
       /\ s.want = r.want /\ s.alive = r.alive /\ s.cut = r.cut /\ s.pushed = r.pushed
  BY <1>1, <1>10 DEF CallType
<1> HIDE DEF s, p
<1>12. PagesRead(s) = p
  BY <1>11 DEF PagesRead
<1>13. ~s.pushed => ~s.twice /\ \A i \in s.seen \cap M : Rank(i, M) <= p * PageSize
  <2> SUFFICES ASSUME ~r.pushed
               PROVE  ~twice /\ \A i \in seen \cap M : Rank(i, M) <= p * PageSize
    BY <1>11
  <2>1. ~r.twice /\ \A i \in r.seen \cap M : Rank(i, M) <= (p - 1) * PageSize
    BY <1>9
  <2>2. \A i \in got : i \in M /\ (p - 1) * PageSize < Rank(i, M) /\ Rank(i, M) <= p * PageSize
    BY <1>8
  <2>3. r.seen \cap got = {}
    BY <1>5, <1>7, <2>1, <2>2
  <2>4. ASSUME NEW i \in seen \cap M PROVE Rank(i, M) <= p * PageSize
    BY <1>5, <1>7, <2>1, <2>2, <2>4 DEF seen
  <2> QED BY <2>1, <2>3, <2>4 DEF twice
<1>14. ~s.cut => /\ s.seen \subseteq M
                 /\ \A i \in s.alive : Rank(i, M) <= p * PageSize => i \in s.seen
  <2> SUFFICES ASSUME ~r.cut
               PROVE  /\ seen \subseteq M
                      /\ \A i \in r.alive : Rank(i, M) <= p * PageSize => i \in seen
    BY <1>11
  <2>1. ASSUME NEW i \in r.alive, Rank(i, M) <= p * PageSize PROVE i \in seen
    <3>1. CASE Rank(i, M) <= (p - 1) * PageSize
      BY <3>1, <1>9 DEF seen
    <3>2. CASE ~(Rank(i, M) <= (p - 1) * PageSize)
      <4>1. (p - 1) * PageSize < Rank(i, M)
        BY <3>2, <1>5, <1>7
      <4> QED BY <4>1, <1>8, <1>9, <2>1 DEF seen
    <3> QED BY <3>1, <3>2
  <2> QED BY <1>9, <1>10, <2>1 DEF seen
<1>15. Reads(s, rows)
  BY <1>4, <1>9, <1>11, <1>12, <1>13, <1>14 DEF Reads, M
<1>16. s.seen \cup s.alive \subseteq 1..made
  BY <1>1, <1>10, <1>11 DEF seen
<1> QED BY <1>2, <1>3, <1>11, <1>15, <1>16, OneSlotStep

(* The end: the pages read hold all the ranks, or all rows have been seen. *)
LEMMA PageCountInv ==
  ASSUME ApiInv, NEW c \in Calls, PageCount(c)
  PROVE  ApiInv'
<1> DEFINE r     == call[c]
           M     == Matching(rows, r.want)
           total == Cardinality(M)
           p     == r.page
           more  == Cardinality(r.seen) < total /\ p * PageSize < total
<1>1. /\ ApiTypeOK /\ call \in [Calls -> CallType] /\ made \in Nat /\ DOMAIN rows \subseteq 1..made
      /\ r \in CallType /\ Reads(r, rows) /\ r.seen \cup r.alive \subseteq 1..made
  BY MaxRowsAssumption DEF ApiInv, ApiTypeOK, Reader
<1>2. UNCHANGED <<api, rows, made>> /\ r.pc = "count"
  BY DEF PageCount
<1>3. p \in Nat /\ p >= 1 /\ PagesRead(r) = p
  BY <1>1, <1>2 DEF PagesRead, Reads, CallType
<1>4. M \subseteq 1..made
  BY <1>1 DEF Matching
<1>5. CASE more /\ call' = [call EXCEPT ![c].pc = "run", ![c].page = @ + 1]
  <2> DEFINE s == [r EXCEPT !.pc = "run", !.page = p + 1]
  <2>1. call' = [call EXCEPT ![c] = s]
    BY <1>1, <1>5
  <2>2. p + 1 \in Nat /\ p + 1 >= 1
    BY <1>3
  <2> DEFINE q == p + 1
  <2> HIDE DEF r, p, q
  <2>3. /\ s \in CallType /\ s.pc = "run" /\ s.page = q /\ s.seen = r.seen /\ s.alive = r.alive
        /\ s.want = r.want /\ s.cut = r.cut /\ s.twice = r.twice /\ s.pushed = r.pushed
    BY <1>1, <2>2 DEF CallType, q
  <2> HIDE DEF s
  <2>4. PagesRead(s) = PagesRead(r) /\ s.page >= 1 /\ s.page # 0
    BY <1>3, <2>2, <2>3 DEF PagesRead, q
  <2>5. Reads(s, rows)
    BY <1>1, <2>3, <2>4 DEF Reads
  <2> QED BY <1>1, <1>2, <2>1, <2>3, <2>5, OneSlotStep
<1>6. CASE Answer(c)
  BY <1>2, <1>6, AnswerStep
<1>7. CASE ~more /\ call' = [call EXCEPT ![c].pc = "done"]
  <2> DEFINE s == [r EXCEPT !.pc = "done"]
  <2>1. call' = [call EXCEPT ![c] = s]
    BY <1>1, <1>7
  <2>2. ~r.cut => r.alive \subseteq r.seen
    <3> SUFFICES ASSUME ~r.cut PROVE r.alive \subseteq r.seen
      OBVIOUS
    <3>1. /\ r.seen \cup r.alive \subseteq M
          /\ \A i \in r.alive : Rank(i, M) <= p * PageSize => i \in r.seen
      BY <1>1, <1>3 DEF Reads
    <3>2. IsFiniteSet(M) /\ total \in Nat /\ \A i : Rank(i, M) \in Nat /\ Rank(i, M) <= total
      BY <1>1, <1>4, RankBounds
    <3>3. p * PageSize \in Int
      BY <1>3, PageSizeAssumption
    <3> HIDE DEF M, r, p
    <3>4. CASE ~(p * PageSize < total)
      <4>1. \A i : Rank(i, M) <= p * PageSize
        BY <3>2, <3>3, <3>4
      <4> QED BY <3>1, <4>1
    <3>5. CASE ~(Cardinality(r.seen) < total)
      <4>1. r.seen \in SUBSET M
        BY <3>1
      <4>2. IsFiniteSet(r.seen) /\ Cardinality(r.seen) <= total
        BY <3>2, <4>1, FS_Subset
      <4>3. Cardinality(r.seen) = total
        BY <3>2, <3>5, <4>2, FS_CardinalityType
      <4>4. r.seen = M
        BY <3>2, <4>1, <4>3, FS_Subset
      <4> QED BY <3>1, <4>4
    <3> QED BY <1>7, <3>4, <3>5
  <2> HIDE DEF r, p
  <2>3. /\ s \in CallType /\ s.pc = "done" /\ s.page = p /\ s.seen = r.seen /\ s.alive = r.alive
        /\ s.want = r.want /\ s.cut = r.cut /\ s.twice = r.twice /\ s.pushed = r.pushed
    BY <1>1 DEF CallType, p
  <2> HIDE DEF s
  <2>4. PagesRead(s) = PagesRead(r) /\ s.page # 0
    BY <1>3, <2>3 DEF PagesRead
  <2>5. Reads(s, rows)
    BY <1>1, <2>2, <2>3, <2>4 DEF Reads
  <2> QED BY <1>1, <1>2, <2>1, <2>3, <2>5, OneSlotStep
<1> QED BY <1>5, <1>6, <1>7 DEF PageCount

(* One case for each action. *)
LEMMA ApiInvNext == ApiInv /\ [ApiNext]_apiVars => ApiInv'
<1> SUFFICES ASSUME ApiInv, [ApiNext]_apiVars PROVE ApiInv'
  OBVIOUS
<1>1. ASSUME NEW c \in Calls, Rejected(c) \/ AllRead(c) PROVE ApiInv'
  BY <1>1, AnswerStep DEF Rejected, AllRead
<1>2. CASE UNCHANGED <<api, rows, made, call>>
  BY <1>2 DEF ApiInv, ApiTypeOK, Reader
<1> QED BY <1>1, <1>2, RequestInv, CreateRowInv, EditRowInv, RemoveRowInv, PageRowsInv, PageCountInv
        DEF ApiNext, PermsChange, apiVars

(* The types of the table and the slots, and what every client may rely on,  *)
(* hold in every behaviour of the requests to a table.                      *)
THEOREM ApiInvariant == ApiSpec => []ApiInv
BY ApiInvInit, ApiInvNext, PTL DEF ApiSpec

(* A client that reads page after page of the rows its query asks for gets a   *)
(* row twice only if one was edited into them meanwhile, and in the end every *)
(* row that was among them all the time, if none of them was deleted or      *)
(* edited out (findMany with where, skip and take, then count with the same  *)
(* where, in the services).                                                *)
THEOREM PagesAreComplete == ApiSpec => []WalkComplete
<1>1. ApiInv => WalkComplete
  BY DEF ApiInv, Reader, Reads, WalkComplete
<1> QED BY <1>1, ApiInvariant, PTL

----------------------------------------------------------------------------
(* Routes. *)

(* The words that segments, methods, permissions and operations are made of. *)
Words ==
  {"*", ":id", "AnyPerms", "Authorize", "DELETE", "GET", "POST", "PUT",
   "PermissionOptional", "add", "all", "allocatedList", "authRole", "authUser",
   "cancel", "cancelAll", "captchaImage", "config", "create", "data", "dataScope",
   "delete", "dept", "deptTree", "dict", "edit", "exclude", "export", "getInfo",
   "getRouters", "info", "job", "kick", "list", "log", "login", "logininfor",
   "logout", "menu", "menuBack", "monitor", "notice", "once", "one", "online",
   "operlog", "optionselect", "page", "password", "permmenu", "post", "query",
   "read", "remove", "resetPwd", "role", "roleMenuTreeselect", "selectAll", "serve",
   "start", "stat", "stop", "system", "tables", "task", "treeselect", "type",
   "unallocatedList", "update", "user"}

(* A route over a set of words. *)
RouteOf(X) == [m : X, p : Seq(X), need : Seq(X), op : X]

(* No two routes of one controller are alike. *)
Distinct(rs) ==
  \A i, j \in DOMAIN rs : rs[i].m = rs[j].m /\ rs[i].p = rs[j].p => i = j

Writing == {"create", "edit", "remove"}

(* A route that writes asks for the permission to write that way, or for none *)
(* of its own.                                                              *)
Asks(r) ==
  r.op \in Writing =>
    \/ r.need = AnyPerms
    \/ /\ r.need \notin {Authorize, PermissionOptional}
       /\ \/ r.op = "create" /\ r.need[2] = "add"
          \/ r.op \in {"edit", "remove"} /\ r.need[2] = r.op

AllAsk(rs) == \A i \in DOMAIN rs : Asks(rs[i])

(* Every list of routes is a sequence of routes made of those words. *)
LEMMA ListsAreTyped ==
  ASSUME NEW X, Words \subseteq X
  PROVE  /\ DictTypeRoutes \in Seq(RouteOf(X))
         /\ DictDataRoutes \in Seq(RouteOf(X))
         /\ DeptRoutes \in Seq(RouteOf(X))
         /\ PostRoutes \in Seq(RouteOf(X))
         /\ ConfigRoutes \in Seq(RouteOf(X))
         /\ NoticeRoutes \in Seq(RouteOf(X))
         /\ OperlogRoutes \in Seq(RouteOf(X))
         /\ LogininforRoutes \in Seq(RouteOf(X))
         /\ JobRoutes \in Seq(RouteOf(X))
         /\ MenuRoutes \in Seq(RouteOf(X))
         /\ UserRoutes \in Seq(RouteOf(X))
         /\ RoleRoutes \in Seq(RouteOf(X))
         /\ RoleMoreRoutes \in Seq(RouteOf(X))
         /\ MenuBackRoutes \in Seq(RouteOf(X))
         /\ TaskRoutes \in Seq(RouteOf(X))
         /\ AccountRoutes \in Seq(RouteOf(X))
         /\ LoginRoutes \in Seq(RouteOf(X))
         /\ OnlineRoutes \in Seq(RouteOf(X))
         /\ LogRoutes \in Seq(RouteOf(X))
         /\ ServeRoutes \in Seq(RouteOf(X))
<1>1. DictTypeRoutes \in Seq(RouteOf(X))
  BY SMTT(60) DEF DictTypeRoutes, RouteOf, Words, Get, Post, Put, Delete, AnyPerms, Authorize,
                  PermissionOptional
<1>2. DictDataRoutes \in Seq(RouteOf(X))
  BY SMTT(60) DEF DictDataRoutes, RouteOf, Words, Get, Post, Put, Delete, AnyPerms, Authorize,
                  PermissionOptional
<1>3. DeptRoutes \in Seq(RouteOf(X))
  BY SMTT(60) DEF DeptRoutes, RouteOf, Words, Get, Post, Put, Delete, AnyPerms, Authorize,
                  PermissionOptional
<1>4. PostRoutes \in Seq(RouteOf(X))
  BY SMTT(60) DEF PostRoutes, RouteOf, Words, Get, Post, Put, Delete, AnyPerms, Authorize,
                  PermissionOptional
<1>5. ConfigRoutes \in Seq(RouteOf(X))
  BY SMTT(60) DEF ConfigRoutes, RouteOf, Words, Get, Post, Put, Delete, AnyPerms, Authorize,
                  PermissionOptional
<1>6. NoticeRoutes \in Seq(RouteOf(X))
  BY SMTT(60) DEF NoticeRoutes, RouteOf, Words, Get, Post, Put, Delete, AnyPerms, Authorize,
                  PermissionOptional
<1>7. OperlogRoutes \in Seq(RouteOf(X))
  BY SMTT(60) DEF OperlogRoutes, RouteOf, Words, Get, Post, Put, Delete, AnyPerms, Authorize,
                  PermissionOptional
<1>8. LogininforRoutes \in Seq(RouteOf(X))
  BY SMTT(60) DEF LogininforRoutes, RouteOf, Words, Get, Post, Put, Delete, AnyPerms, Authorize,
                  PermissionOptional
<1>9. JobRoutes \in Seq(RouteOf(X))
  BY SMTT(60) DEF JobRoutes, RouteOf, Words, Get, Post, Put, Delete, AnyPerms, Authorize,
                  PermissionOptional
<1>10. MenuRoutes \in Seq(RouteOf(X))
  BY SMTT(60) DEF MenuRoutes, RouteOf, Words, Get, Post, Put, Delete, AnyPerms, Authorize,
                  PermissionOptional
<1>11. UserRoutes \in Seq(RouteOf(X))
  BY SMTT(60) DEF UserRoutes, RouteOf, Words, Get, Post, Put, Delete, AnyPerms, Authorize,
                  PermissionOptional
<1>12. RoleRoutes \in Seq(RouteOf(X))
  BY SMTT(60) DEF RoleRoutes, RouteOf, Words, Get, Post, Put, Delete, AnyPerms, Authorize,
                  PermissionOptional
<1>13. RoleMoreRoutes \in Seq(RouteOf(X))
  BY SMTT(60) DEF RoleMoreRoutes, RouteOf, Words, Get, Post, Put, Delete, AnyPerms, Authorize,
                  PermissionOptional
<1>14. MenuBackRoutes \in Seq(RouteOf(X))
  BY SMTT(60) DEF MenuBackRoutes, RouteOf, Words, Get, Post, Put, Delete, AnyPerms, Authorize,
                  PermissionOptional
<1>15. TaskRoutes \in Seq(RouteOf(X))
  BY SMTT(60) DEF TaskRoutes, RouteOf, Words, Get, Post, Put, Delete, AnyPerms, Authorize,
                  PermissionOptional
<1>16. AccountRoutes \in Seq(RouteOf(X))
  BY SMTT(60) DEF AccountRoutes, RouteOf, Words, Get, Post, Put, Delete, AnyPerms, Authorize,
                  PermissionOptional
<1>17. LoginRoutes \in Seq(RouteOf(X))
  BY SMTT(60) DEF LoginRoutes, RouteOf, Words, Get, Post, Put, Delete, AnyPerms, Authorize,
                  PermissionOptional
<1>18. OnlineRoutes \in Seq(RouteOf(X))
  BY SMTT(60) DEF OnlineRoutes, RouteOf, Words, Get, Post, Put, Delete, AnyPerms, Authorize,
                  PermissionOptional
<1>19. LogRoutes \in Seq(RouteOf(X))
  BY SMTT(60) DEF LogRoutes, RouteOf, Words, Get, Post, Put, Delete, AnyPerms, Authorize,
                  PermissionOptional
<1>20. ServeRoutes \in Seq(RouteOf(X))
  BY SMTT(60) DEF ServeRoutes, RouteOf, Words, Get, Post, Put, Delete, AnyPerms, Authorize,
                  PermissionOptional
<1> QED BY <1>1, <1>2, <1>3, <1>4, <1>5, <1>6, <1>7, <1>8, <1>9, <1>10,
           <1>11, <1>12, <1>13, <1>14, <1>15, <1>16, <1>17, <1>18, <1>19, <1>20

(* No list declares a route twice. *)
LEMMA ListsAreDistinct ==
  /\ Distinct(DictTypeRoutes)
  /\ Distinct(DictDataRoutes)
  /\ Distinct(DeptRoutes)
  /\ Distinct(PostRoutes)
  /\ Distinct(ConfigRoutes)
  /\ Distinct(NoticeRoutes)
  /\ Distinct(OperlogRoutes)
  /\ Distinct(LogininforRoutes)
  /\ Distinct(JobRoutes)
  /\ Distinct(MenuRoutes)
  /\ Distinct(UserRoutes)
  /\ Distinct(RoleRoutes)
  /\ Distinct(RoleMoreRoutes)
  /\ Distinct(MenuBackRoutes)
  /\ Distinct(TaskRoutes)
  /\ Distinct(AccountRoutes)
  /\ Distinct(LoginRoutes)
  /\ Distinct(OnlineRoutes)
  /\ Distinct(LogRoutes)
  /\ Distinct(ServeRoutes)
<1>1. Distinct(DictTypeRoutes)
  BY SMTT(120) DEF Distinct, DictTypeRoutes, Get, Post, Put, Delete
<1>2. Distinct(DictDataRoutes)
  BY SMTT(120) DEF Distinct, DictDataRoutes, Get, Post, Put, Delete
<1>3. Distinct(DeptRoutes)
  BY SMTT(120) DEF Distinct, DeptRoutes, Get, Post, Put, Delete
<1>4. Distinct(PostRoutes)
  BY SMTT(120) DEF Distinct, PostRoutes, Get, Post, Put, Delete
<1>5. Distinct(ConfigRoutes)
  BY SMTT(120) DEF Distinct, ConfigRoutes, Get, Post, Put, Delete
<1>6. Distinct(NoticeRoutes)
  BY SMTT(120) DEF Distinct, NoticeRoutes, Get, Post, Put, Delete
<1>7. Distinct(OperlogRoutes)
  BY SMTT(120) DEF Distinct, OperlogRoutes, Get, Post, Put, Delete
<1>8. Distinct(LogininforRoutes)
  BY SMTT(120) DEF Distinct, LogininforRoutes, Get, Post, Put, Delete
<1>9. Distinct(JobRoutes)
  BY SMTT(120) DEF Distinct, JobRoutes, Get, Post, Put, Delete
<1>10. Distinct(MenuRoutes)
  BY SMTT(120) DEF Distinct, MenuRoutes, Get, Post, Put, Delete
<1>11. Distinct(UserRoutes)
  BY SMTT(120) DEF Distinct, UserRoutes, Get, Post, Put, Delete
<1>12. Distinct(RoleRoutes)
  BY SMTT(120) DEF Distinct, RoleRoutes, Get, Post, Put, Delete
<1>13. Distinct(RoleMoreRoutes)
  BY SMTT(120) DEF Distinct, RoleMoreRoutes, Get, Post, Put, Delete
<1>14. Distinct(MenuBackRoutes)
  BY SMTT(120) DEF Distinct, MenuBackRoutes, Get, Post, Put, Delete
<1>15. Distinct(TaskRoutes)
  BY SMTT(120) DEF Distinct, TaskRoutes, Get, Post, Put, Delete
<1>16. Distinct(AccountRoutes)
  BY SMTT(120) DEF Distinct, AccountRoutes, Get, Post, Put, Delete
<1>17. Distinct(LoginRoutes)
  BY SMTT(120) DEF Distinct, LoginRoutes, Get, Post, Put, Delete
<1>18. Distinct(OnlineRoutes)
  BY SMTT(120) DEF Distinct, OnlineRoutes, Get, Post, Put, Delete
<1>19. Distinct(LogRoutes)
  BY SMTT(120) DEF Distinct, LogRoutes, Get, Post, Put, Delete
<1>20. Distinct(ServeRoutes)
  BY SMTT(120) DEF Distinct, ServeRoutes, Get, Post, Put, Delete
<1> QED BY <1>1, <1>2, <1>3, <1>4, <1>5, <1>6, <1>7, <1>8, <1>9, <1>10,
           <1>11, <1>12, <1>13, <1>14, <1>15, <1>16, <1>17, <1>18, <1>19, <1>20

(* Every route that writes asks for the permission to write that way. *)
LEMMA ListsAsk ==
  /\ AllAsk(DictTypeRoutes)
  /\ AllAsk(DictDataRoutes)
  /\ AllAsk(DeptRoutes)
  /\ AllAsk(PostRoutes)
  /\ AllAsk(ConfigRoutes)
  /\ AllAsk(NoticeRoutes)
  /\ AllAsk(OperlogRoutes)
  /\ AllAsk(LogininforRoutes)
  /\ AllAsk(JobRoutes)
  /\ AllAsk(MenuRoutes)
  /\ AllAsk(UserRoutes)
  /\ AllAsk(RoleRoutes)
  /\ AllAsk(RoleMoreRoutes)
  /\ AllAsk(MenuBackRoutes)
  /\ AllAsk(TaskRoutes)
  /\ AllAsk(AccountRoutes)
  /\ AllAsk(LoginRoutes)
  /\ AllAsk(OnlineRoutes)
  /\ AllAsk(LogRoutes)
  /\ AllAsk(ServeRoutes)
<1>1. AllAsk(DictTypeRoutes)
  BY SMTT(60) DEF AllAsk, Asks, Writing, DictTypeRoutes, Get, Post, Put, Delete, AnyPerms,
                  Authorize, PermissionOptional
<1>2. AllAsk(DictDataRoutes)
  BY SMTT(60) DEF AllAsk, Asks, Writing, DictDataRoutes, Get, Post, Put, Delete, AnyPerms,
                  Authorize, PermissionOptional
<1>3. AllAsk(DeptRoutes)
  BY SMTT(60) DEF AllAsk, Asks, Writing, DeptRoutes, Get, Post, Put, Delete, AnyPerms,
                  Authorize, PermissionOptional
<1>4. AllAsk(PostRoutes)
  BY SMTT(60) DEF AllAsk, Asks, Writing, PostRoutes, Get, Post, Put, Delete, AnyPerms,
                  Authorize, PermissionOptional
<1>5. AllAsk(ConfigRoutes)
  BY SMTT(60) DEF AllAsk, Asks, Writing, ConfigRoutes, Get, Post, Put, Delete, AnyPerms,
                  Authorize, PermissionOptional
<1>6. AllAsk(NoticeRoutes)
  BY SMTT(60) DEF AllAsk, Asks, Writing, NoticeRoutes, Get, Post, Put, Delete, AnyPerms,
                  Authorize, PermissionOptional
<1>7. AllAsk(OperlogRoutes)
  BY SMTT(60) DEF AllAsk, Asks, Writing, OperlogRoutes, Get, Post, Put, Delete, AnyPerms,
                  Authorize, PermissionOptional
<1>8. AllAsk(LogininforRoutes)
  BY SMTT(60) DEF AllAsk, Asks, Writing, LogininforRoutes, Get, Post, Put, Delete, AnyPerms,
                  Authorize, PermissionOptional
<1>9. AllAsk(JobRoutes)
  BY SMTT(60) DEF AllAsk, Asks, Writing, JobRoutes, Get, Post, Put, Delete, AnyPerms,
                  Authorize, PermissionOptional
<1>10. AllAsk(MenuRoutes)
  BY SMTT(60) DEF AllAsk, Asks, Writing, MenuRoutes, Get, Post, Put, Delete, AnyPerms,
                  Authorize, PermissionOptional
<1>11. AllAsk(UserRoutes)
  BY SMTT(60) DEF AllAsk, Asks, Writing, UserRoutes, Get, Post, Put, Delete, AnyPerms,
                  Authorize, PermissionOptional
<1>12. AllAsk(RoleRoutes)
  BY SMTT(60) DEF AllAsk, Asks, Writing, RoleRoutes, Get, Post, Put, Delete, AnyPerms,
                  Authorize, PermissionOptional
<1>13. AllAsk(RoleMoreRoutes)
  BY SMTT(60) DEF AllAsk, Asks, Writing, RoleMoreRoutes, Get, Post, Put, Delete, AnyPerms,
                  Authorize, PermissionOptional
<1>14. AllAsk(MenuBackRoutes)
  BY SMTT(60) DEF AllAsk, Asks, Writing, MenuBackRoutes, Get, Post, Put, Delete, AnyPerms,
                  Authorize, PermissionOptional
<1>15. AllAsk(TaskRoutes)
  BY SMTT(60) DEF AllAsk, Asks, Writing, TaskRoutes, Get, Post, Put, Delete, AnyPerms,
                  Authorize, PermissionOptional
<1>16. AllAsk(AccountRoutes)
  BY SMTT(60) DEF AllAsk, Asks, Writing, AccountRoutes, Get, Post, Put, Delete, AnyPerms,
                  Authorize, PermissionOptional
<1>17. AllAsk(LoginRoutes)
  BY SMTT(60) DEF AllAsk, Asks, Writing, LoginRoutes, Get, Post, Put, Delete, AnyPerms,
                  Authorize, PermissionOptional
<1>18. AllAsk(OnlineRoutes)
  BY SMTT(60) DEF AllAsk, Asks, Writing, OnlineRoutes, Get, Post, Put, Delete, AnyPerms,
                  Authorize, PermissionOptional
<1>19. AllAsk(LogRoutes)
  BY SMTT(60) DEF AllAsk, Asks, Writing, LogRoutes, Get, Post, Put, Delete, AnyPerms,
                  Authorize, PermissionOptional
<1>20. AllAsk(ServeRoutes)
  BY SMTT(60) DEF AllAsk, Asks, Writing, ServeRoutes, Get, Post, Put, Delete, AnyPerms,
                  Authorize, PermissionOptional
<1> QED BY <1>1, <1>2, <1>3, <1>4, <1>5, <1>6, <1>7, <1>8, <1>9, <1>10,
           <1>11, <1>12, <1>13, <1>14, <1>15, <1>16, <1>17, <1>18, <1>19, <1>20

(* No word is "1", the value of every parameter. *)
LEMMA WordsArePlain == "1" \notin Words
BY DEF Words

(* A controller: where it is mounted, and its routes. *)
ApisAt(k, at, rs) == Apis[k].at = at /\ Apis[k].routes = rs

(* The controllers of the program, one by one. *)
LEMMA ApisAre ==
  /\ DOMAIN Tables = 1..10 /\ DOMAIN Apis = 1..18
  /\ ApisAt(1, <<"system", "dict", "type">>, DictTypeRoutes)
  /\ ApisAt(2, <<"system", "dict", "data">>, DictDataRoutes)
  /\ ApisAt(3, <<"system", "dept">>, DeptRoutes)
  /\ ApisAt(4, <<"system", "post">>, PostRoutes)
  /\ ApisAt(5, <<"system", "config">>, ConfigRoutes)
  /\ ApisAt(6, <<"system", "notice">>, NoticeRoutes)
  /\ ApisAt(7, <<"system", "menu">>, MenuRoutes)
  /\ ApisAt(8, <<"monitor", "operlog">>, OperlogRoutes)
  /\ ApisAt(9, <<"monitor", "logininfor">>, LogininforRoutes)
  /\ ApisAt(10, <<"monitor", "job">>, JobRoutes)
  /\ ApisAt(11, <<"system", "user">>, UserRoutes)
  /\ ApisAt(12, <<"system", "role">>, RoleRoutes \o RoleMoreRoutes)
  /\ ApisAt(13, <<"system", "task">>, TaskRoutes)
  /\ ApisAt(14, <<"system", "menuBack">>, MenuBackRoutes)
  /\ ApisAt(15, <<"system", "online">>, OnlineRoutes)
  /\ ApisAt(16, <<"system", "log">>, LogRoutes)
  /\ ApisAt(17, <<"system", "serve">>, ServeRoutes)
  /\ ApisAt(18, <<>>, AccountRoutes \o LoginRoutes)
<1>1. /\ DOMAIN Tables = 1..10 /\ DOMAIN Apis = 1..18
      /\ Apis[1] = DictType /\ Apis[2] = DictData /\ Apis[3] = Dept /\ Apis[4] = PostTable
      /\ Apis[5] = Config /\ Apis[6] = Notice /\ Apis[7] = Menu /\ Apis[8] = Operlog
      /\ Apis[9] = Logininfor /\ Apis[10] = MonitorJob /\ Apis[11] = User /\ Apis[12] = Role
      /\ Apis[13] = Task /\ Apis[14] = MenuBack /\ Apis[15] = Online /\ Apis[16] = Log
      /\ Apis[17] = Serve /\ Apis[18] = Account
  BY DEF Apis, Tables
<1>2. /\ ApisAt(1, <<"system", "dict", "type">>, DictTypeRoutes)
      /\ ApisAt(2, <<"system", "dict", "data">>, DictDataRoutes)
      /\ ApisAt(3, <<"system", "dept">>, DeptRoutes)
      /\ ApisAt(4, <<"system", "post">>, PostRoutes)
      /\ ApisAt(5, <<"system", "config">>, ConfigRoutes)
      /\ ApisAt(6, <<"system", "notice">>, NoticeRoutes)
      /\ ApisAt(7, <<"system", "menu">>, MenuRoutes)
      /\ ApisAt(8, <<"monitor", "operlog">>, OperlogRoutes)
      /\ ApisAt(9, <<"monitor", "logininfor">>, LogininforRoutes)
  BY <1>1 DEF ApisAt, DictType, DictData, Dept, PostTable, Config, Notice, Menu, Operlog, Logininfor
<1>3. /\ ApisAt(10, <<"monitor", "job">>, JobRoutes)
      /\ ApisAt(11, <<"system", "user">>, UserRoutes)
      /\ ApisAt(13, <<"system", "task">>, TaskRoutes)
      /\ ApisAt(14, <<"system", "menuBack">>, MenuBackRoutes)
      /\ ApisAt(15, <<"system", "online">>, OnlineRoutes)
      /\ ApisAt(16, <<"system", "log">>, LogRoutes)
      /\ ApisAt(17, <<"system", "serve">>, ServeRoutes)
  BY <1>1 DEF ApisAt, MonitorJob, User, Task, MenuBack, Online, Log, Serve
<1>4. /\ ApisAt(12, <<"system", "role">>, RoleRoutes \o RoleMoreRoutes)
      /\ ApisAt(18, <<>>, AccountRoutes \o LoginRoutes)
  <2>1. ASSUME NEW k, NEW at, NEW rs, NEW many, Apis[k] = [at |-> at, routes |-> rs, many |-> many]
        PROVE  ApisAt(k, at, rs)
    BY <2>1 DEF ApisAt
  <2> QED BY <1>1, <2>1, Zenon DEF Role, Account
<1> QED BY <1>1, <1>2, <1>3, <1>4

(* What is in a list put together: what is in its parts. *)
LEMMA JoinIs ==
  ASSUME NEW R, NEW rs \in Seq(R), NEW qs \in Seq(R), NEW i \in DOMAIN (rs \o qs)
  PROVE  \/ i \in DOMAIN rs /\ (rs \o qs)[i] = rs[i]
         \/ i - Len(rs) \in DOMAIN qs /\ (rs \o qs)[i] = qs[i - Len(rs)]
<1>1. i \in 1..(Len(rs) + Len(qs)) /\ Len(rs) \in Nat /\ Len(qs) \in Nat
  OBVIOUS
<1>2. CASE i \in 1..Len(rs)
  BY <1>2
<1>3. CASE i \notin 1..Len(rs)
  <2>1. i - Len(rs) \in 1..Len(qs)
    BY <1>1, <1>3
  <2>2. (rs \o qs)[i] = qs[i - Len(rs)]
    BY <1>1, <1>3
  <2> QED BY <2>1, <2>2
<1> QED BY <1>2, <1>3

(* No route twice, where no route of the one part is like one of the other. *)
LEMMA JoinedAreDistinct ==
  ASSUME NEW R, NEW rs \in Seq(R), NEW qs \in Seq(R), Distinct(rs), Distinct(qs),
         \A i \in DOMAIN rs, j \in DOMAIN qs : rs[i].m # qs[j].m \/ rs[i].p # qs[j].p
  PROVE  Distinct(rs \o qs)
<1> DEFINE t == rs \o qs
           Low(i) == i \in DOMAIN rs /\ t[i] = rs[i]
           High(i) == i - Len(rs) \in DOMAIN qs /\ t[i] = qs[i - Len(rs)]
<1> SUFFICES ASSUME NEW i \in DOMAIN t, NEW j \in DOMAIN t, t[i].m = t[j].m, t[i].p = t[j].p
             PROVE  i = j
  BY Zenon DEF Distinct
<1>1. (Low(i) \/ High(i)) /\ (Low(j) \/ High(j))
  BY JoinIs
<1>2. i \in Int /\ j \in Int /\ Len(rs) \in Int
  OBVIOUS
<1> HIDE DEF t
<1>3. CASE Low(i) /\ Low(j)
  BY <1>3 DEF Distinct
<1>4. CASE High(i) /\ High(j)
  <2>1. i - Len(rs) = j - Len(rs)
    BY <1>4 DEF Distinct
  <2> QED BY <1>2, <2>1
<1>5. CASE Low(i) /\ High(j)
  BY <1>5
<1>6. CASE High(i) /\ Low(j)
  BY <1>6
<1> QED BY <1>1, <1>3, <1>4, <1>5, <1>6

(* A list put together asks for what its parts ask for. *)
LEMMA JoinedAsk ==
  ASSUME NEW R, NEW rs \in Seq(R), NEW qs \in Seq(R), AllAsk(rs), AllAsk(qs)
  PROVE  AllAsk(rs \o qs)
<1> DEFINE t == rs \o qs
<1> SUFFICES ASSUME NEW i \in DOMAIN t PROVE Asks(t[i])
  BY Zenon DEF AllAsk
<1>1. \/ i \in DOMAIN rs /\ t[i] = rs[i]
      \/ i - Len(rs) \in DOMAIN qs /\ t[i] = qs[i - Len(rs)]
  BY JoinIs
<1> QED BY <1>1, Zenon DEF AllAsk

Route == RouteOf(Words)

(* The fields of a route, and of a route whose pattern is put elsewhere. *)
LEMMA RouteFields ==
  ASSUME NEW X, NEW r \in RouteOf(X), NEW q
  PROVE  /\ r.p \in Seq(X)
         /\ [r EXCEPT !.p = q].p = q /\ [r EXCEPT !.p = q].m = r.m
         /\ [r EXCEPT !.p = q].op = r.op /\ [r EXCEPT !.p = q].need = r.need
BY DEF RouteOf

(* What holds of every controller. *)
LEMMA ApisAreSound ==
  ASSUME NEW k \in DOMAIN Apis
  PROVE  Apis[k].routes \in Seq(Route) /\ Distinct(Apis[k].routes) /\ AllAsk(Apis[k].routes)
<1> DEFINE Sound(rs) == rs \in Seq(Route) /\ Distinct(rs) /\ AllAsk(rs)
<1> HIDE DEF Route, Sound
<1>1. ASSUME NEW rs, NEW qs, Sound(rs), Sound(qs),
             \A i \in DOMAIN rs, j \in DOMAIN qs : rs[i].m # qs[j].m \/ rs[i].p # qs[j].p
      PROVE  Sound(rs \o qs)
  <2>1. rs \o qs \in Seq(Route)
    BY <1>1 DEF Sound
  <2> QED BY <1>1, <2>1, JoinedAreDistinct, JoinedAsk DEF Sound
<1>2. /\ Sound(DictTypeRoutes) /\ Sound(DictDataRoutes) /\ Sound(DeptRoutes) /\ Sound(PostRoutes)
      /\ Sound(ConfigRoutes) /\ Sound(NoticeRoutes) /\ Sound(OperlogRoutes)
      /\ Sound(LogininforRoutes) /\ Sound(JobRoutes) /\ Sound(MenuRoutes) /\ Sound(UserRoutes)
      /\ Sound(RoleRoutes) /\ Sound(RoleMoreRoutes) /\ Sound(MenuBackRoutes)
      /\ Sound(TaskRoutes) /\ Sound(AccountRoutes) /\ Sound(LoginRoutes)
      /\ Sound(OnlineRoutes) /\ Sound(LogRoutes) /\ Sound(ServeRoutes)
  BY ListsAreTyped, ListsAreDistinct, ListsAsk, WordsArePlain DEF Sound, Route
<1>3. Sound(RoleRoutes \o RoleMoreRoutes)
  <2>1. \A i \in DOMAIN RoleRoutes, j \in DOMAIN RoleMoreRoutes :
          \/ RoleRoutes[i].m # RoleMoreRoutes[j].m
          \/ RoleRoutes[i].p # RoleMoreRoutes[j].p
    BY SMTT(200) DEF RoleRoutes, RoleMoreRoutes, Get, Post, Put, Delete
  <2> QED BY <1>1, <1>2, <2>1
<1>4. Sound(AccountRoutes \o LoginRoutes)
  <2>1. \A i \in DOMAIN AccountRoutes, j \in DOMAIN LoginRoutes :
          \/ AccountRoutes[i].m # LoginRoutes[j].m
          \/ AccountRoutes[i].p # LoginRoutes[j].p
    BY SMTT(60) DEF AccountRoutes, LoginRoutes, Get, Post, Put, Delete
  <2> QED BY <1>1, <1>2, <2>1
<1>5. Sound(Apis[k].routes)
  <2>1. \A n \in 1..6 : Sound(Apis[n].routes)
    BY SMTT(30), <1>2, ApisAre DEF ApisAt
  <2>2. \A n \in 7..11 : Sound(Apis[n].routes)
    BY SMTT(30), <1>2, ApisAre DEF ApisAt
  <2>3. \A n \in 13..17 : Sound(Apis[n].routes)
    BY SMTT(30), <1>2, ApisAre DEF ApisAt
  <2>4. Sound(Apis[12].routes) /\ Sound(Apis[18].routes)
    BY <1>3, <1>4, ApisAre DEF ApisAt
  <2>5. k \in 1..6 \/ k \in 7..11 \/ k = 12 \/ k \in 13..17 \/ k = 18
    BY ApisAre
  <2> QED BY <2>1, <2>2, <2>3, <2>4, <2>5
<1> QED BY <1>5 DEF Sound

(* Controllers are mounted at paths made of the words. *)
LEMMA AtIsTyped ==
  ASSUME NEW X, Words \subseteq X, NEW k \in DOMAIN Apis
  PROVE  Apis[k].at \in Seq(X)
<1> DEFINE Typed(p) == p \in Seq(X)
<1>1. /\ Typed(<<"system", "dict", "type">>)
      /\ Typed(<<"system", "dict", "data">>)
      /\ Typed(<<"system", "dept">>)
      /\ Typed(<<"system", "post">>)
      /\ Typed(<<"system", "config">>)
      /\ Typed(<<"system", "notice">>)
  BY DEF Words
<1>2. /\ Typed(<<"system", "menu">>)
      /\ Typed(<<"monitor", "operlog">>)
      /\ Typed(<<"monitor", "logininfor">>)
      /\ Typed(<<"monitor", "job">>)
      /\ Typed(<<"system", "user">>)
      /\ Typed(<<"system", "role">>)
  BY DEF Words
<1>3. /\ Typed(<<"system", "task">>)
      /\ Typed(<<"system", "menuBack">>)
      /\ Typed(<<"system", "online">>)
      /\ Typed(<<"system", "log">>)
      /\ Typed(<<"system", "serve">>)
      /\ Typed(<<>>)
  BY DEF Words
<1> HIDE DEF Typed
<1>4. \A n \in 1..6 : Typed(Apis[n].at)
  <2>1. /\ Typed(Apis[1].at) /\ Typed(Apis[2].at) /\ Typed(Apis[3].at)
        /\ Typed(Apis[4].at) /\ Typed(Apis[5].at) /\ Typed(Apis[6].at)
    BY <1>1, ApisAre, Zenon DEF ApisAt
  <2> QED BY <2>1
<1>5. \A n \in 7..12 : Typed(Apis[n].at)
  <2>1. /\ Typed(Apis[7].at) /\ Typed(Apis[8].at) /\ Typed(Apis[9].at)
        /\ Typed(Apis[10].at) /\ Typed(Apis[11].at) /\ Typed(Apis[12].at)
    BY <1>2, ApisAre, Zenon DEF ApisAt
  <2> QED BY <2>1
<1>6. \A n \in 13..18 : Typed(Apis[n].at)
  <2>1. /\ Typed(Apis[13].at) /\ Typed(Apis[14].at) /\ Typed(Apis[15].at)
        /\ Typed(Apis[16].at) /\ Typed(Apis[17].at) /\ Typed(Apis[18].at)
    BY <1>3, ApisAre, Zenon DEF ApisAt
  <2> QED BY <2>1
<1>7. k \in 1..6 \/ k \in 7..12 \/ k \in 13..18
  BY ApisAre
<1>8. Typed(Apis[k].at)
  BY <1>4, <1>5, <1>6, <1>7
<1> QED BY <1>8 DEF Typed

----------------------------------------------------------------------------
(* The router. *)

(* A pattern that is filled in. *)
LEMMA FilledOf ==
  ASSUME NEW X, "1" \notin X, NEW p \in Seq(X)
  PROVE  /\ DOMAIN Filled(p) = 1..Len(p) /\ Len(Filled(p)) = Len(p)
         /\ \A n \in 1..Len(p) : Filled(p)[n] = IF p[n] = ":id" THEN "1" ELSE p[n]
BY DEF Filled

(* Where two patterns first differ. *)
LEMMA FirstDifference ==
  ASSUME NEW X, NEW p \in Seq(X), NEW q \in Seq(X), p # q, Len(q) = Len(p)
  PROVE  \E n \in 1..Len(p) : p[n] # q[n] /\ \A k \in 1..(n - 1) : p[k] = q[k]
<1> DEFINE Differ == {n \in 1..Len(p) : p[n] # q[n]}
           R == OpToRel(<, Nat)
<1>1. Differ # {} /\ Differ \subseteq Nat
  OBVIOUS
<1>2. R = {r \in Nat \X Nat : r[1] < r[2]}
  BY DEF OpToRel
<1>3. IsWellFoundedOn(R, Nat)
  BY NatLessThanWellFounded
<1> HIDE DEF R, Differ
<1>4. PICK n \in Differ : \A k \in Differ : <<k, n>> \notin R
  BY <1>1, <1>3, WFMin
<1>5. n \in 1..Len(p) /\ p[n] # q[n]
  BY DEF Differ
<1>6. ASSUME NEW k \in 1..(n - 1) PROVE p[k] = q[k]
  <2>1. k \in 1..Len(p) /\ <<k, n>> \in R
    BY <1>2, <1>5
  <2> QED BY <1>4, <2>1 DEF Differ
<1> QED BY <1>5, <1>6

(* A request for a route: of all patterns that fit it, the route's own is the  *)
(* most static.                                                            *)
LEMMA FilledIsStatic ==
  ASSUME NEW X, "1" \notin X, NEW p \in Seq(X), NEW q \in Seq(X), p # q, Len(q) = Len(p),
         \A n \in 1..Len(p) : q[n] \in {":id", Filled(p)[n]}
  PROVE  MoreStatic(p, q)
<1>1. PICK n \in 1..Len(p) : p[n] # q[n] /\ \A k \in 1..(n - 1) : p[k] = q[k]
  BY FirstDifference
<1>2. q[n] = ":id"
  <2>1. q[n] # "1"
    BY <1>1
  <2> QED BY <1>1, <2>1, FilledOf
<1> QED BY <1>1, <1>2 DEF MoreStatic

(* Of two patterns at most one is the more static. *)
LEMMA MoreStaticOneWay ==
  ASSUME NEW X, NEW p \in Seq(X), NEW q \in Seq(X), MoreStatic(p, q), MoreStatic(q, p)
  PROVE  FALSE
<1>1. PICK i \in DOMAIN p : p[i] # q[i] /\ q[i] = ":id" /\ \A j \in 1..(i - 1) : p[j] = q[j]
  BY DEF MoreStatic
<1>2. PICK k \in DOMAIN q : q[k] # p[k] /\ p[k] = ":id" /\ \A j \in 1..(k - 1) : q[j] = p[j]
  BY DEF MoreStatic
<1>3. i \in Nat /\ k \in Nat /\ i >= 1 /\ k >= 1
  OBVIOUS
<1>4. ~(i < k) /\ ~(k < i)
  BY <1>1, <1>2, <1>3
<1> QED BY <1>1, <1>2, <1>3, <1>4

(* Whatever the routes are, and in whatever order: where no two are alike and  *)
(* no segment is the value of a parameter, a request for a route reaches it. *)
LEMMA RouterFinds ==
  ASSUME NEW X, "1" \notin X, NEW rs,
         \A j \in DOMAIN rs : rs[j].p \in Seq(X),
         Distinct(rs),
         NEW i \in DOMAIN rs
  PROVE  Router(rs, rs[i].m, Filled(rs[i].p)) = i
<1> DEFINE p == rs[i].p
           C == Candidates(rs, rs[i].m, Filled(p))
<1>0. p \in Seq(X)
  OBVIOUS
<1>1. i \in C
  BY <1>0, FilledOf DEF Candidates, Matches
<1>2. ASSUME NEW j \in C \ {i} PROVE MoreStatic(p, rs[j].p)
  <2>1. /\ j \in DOMAIN rs /\ rs[j].m = rs[i].m /\ Len(rs[j].p) = Len(Filled(p))
        /\ \A n \in DOMAIN Filled(p) : rs[j].p[n] \in {":id", Filled(p)[n]}
    BY DEF Candidates, Matches
  <2>2. rs[j].p \in Seq(X) /\ p # rs[j].p
    BY <2>1 DEF Distinct
  <2>3. /\ Len(rs[j].p) = Len(p)
        /\ \A n \in 1..Len(p) : rs[j].p[n] \in {":id", Filled(p)[n]}
    BY <1>0, <2>1, FilledOf
  <2> HIDE DEF p
  <2> QED BY <1>0, <2>2, <2>3, FilledIsStatic
<1>3. ASSUME NEW k \in C, \A j \in C \ {k} : MoreStatic(rs[k].p, rs[j].p) PROVE k = i
  <2> SUFFICES ASSUME k # i PROVE FALSE
    OBVIOUS
  <2>1. MoreStatic(rs[k].p, p) /\ MoreStatic(p, rs[k].p)
    BY <1>1, <1>2, <1>3
  <2>2. rs[k].p \in Seq(X)
    BY DEF Candidates
  <2> QED BY <1>0, <2>1, <2>2, MoreStaticOneWay
<1>4. Router(rs, rs[i].m, Filled(p)) = CHOOSE k \in C : \A j \in C \ {k} : MoreStatic(rs[k].p, rs[j].p)
  BY DEF Router
<1> HIDE DEF C
<1>5. \E k \in C : \A j \in C \ {k} : MoreStatic(rs[k].p, rs[j].p)
  BY <1>1, <1>2
<1> QED BY <1>3, <1>4, <1>5

(* Where the controllers are mounted tells their routes apart: all but two   *)
(* by their second segment, those of the dictionaries by the third, and the *)
(* account's have one segment only.                                         *)
Seconds == <<"dict", "dict", "dept", "post", "config", "notice", "menu", "operlog", "logininfor",
             "job", "user", "role", "task", "menuBack", "online", "log", "serve">>

(* The two that share their second segment are those of the dictionaries. *)
LEMMA SecondsTell ==
  \A k, l \in 1..17 : Seconds[k] = Seconds[l] => k = l \/ {k, l} = {1, 2}
BY SMTT(60) DEF Seconds

(* Where each controller is mounted. *)
LEMMA AtTells ==
  /\ \A k \in 1..17 : Len(Apis[k].at) >= 2 /\ Apis[k].at[2] = Seconds[k]
  /\ Len(Apis[1].at) = 3 /\ Apis[1].at[3] = "type"
  /\ Len(Apis[2].at) = 3 /\ Apis[2].at[3] = "data"
  /\ Apis[18].at = <<>>
<1> DEFINE Told(p, s) == Len(p) >= 2 /\ p[2] = s
<1>1. /\ Told(<<"system", "dict", "type">>, "dict") /\ Told(<<"system", "dict", "data">>, "dict")
      /\ Told(<<"system", "dept">>, "dept") /\ Told(<<"system", "post">>, "post")
      /\ Told(<<"system", "config">>, "config") /\ Told(<<"system", "notice">>, "notice")
      /\ Told(<<"system", "menu">>, "menu") /\ Told(<<"monitor", "operlog">>, "operlog")
      /\ Told(<<"monitor", "logininfor">>, "logininfor") /\ Told(<<"monitor", "job">>, "job")
      /\ Told(<<"system", "user">>, "user") /\ Told(<<"system", "role">>, "role")
      /\ Told(<<"system", "task">>, "task") /\ Told(<<"system", "menuBack">>, "menuBack")
      /\ Told(<<"system", "online">>, "online") /\ Told(<<"system", "log">>, "log")
      /\ Told(<<"system", "serve">>, "serve")
  OBVIOUS
<1>2. \A k \in 1..17 : Told(Apis[k].at, Seconds[k])
  <2> HIDE DEF Told
  <2>1. /\ Told(Apis[1].at, "dict") /\ Told(Apis[2].at, "dict") /\ Told(Apis[3].at, "dept")
        /\ Told(Apis[4].at, "post") /\ Told(Apis[5].at, "config") /\ Told(Apis[6].at, "notice")
        /\ Told(Apis[7].at, "menu") /\ Told(Apis[8].at, "operlog")
        /\ Told(Apis[9].at, "logininfor") /\ Told(Apis[10].at, "job")
    BY <1>1, ApisAre, Zenon DEF ApisAt
  <2>2. /\ Told(Apis[11].at, "user") /\ Told(Apis[12].at, "role") /\ Told(Apis[13].at, "task")
        /\ Told(Apis[14].at, "menuBack") /\ Told(Apis[15].at, "online")
        /\ Told(Apis[16].at, "log") /\ Told(Apis[17].at, "serve")
    BY <1>1, ApisAre, Zenon DEF ApisAt
  <2>3. \A k \in 1..10 : Told(Apis[k].at, Seconds[k])
    BY <2>1 DEF Seconds
  <2>4. \A k \in 11..17 : Told(Apis[k].at, Seconds[k])
    BY <2>2 DEF Seconds
  <2> QED BY <2>3, <2>4
<1>3. /\ Apis[1].at = <<"system", "dict", "type">> /\ Apis[2].at = <<"system", "dict", "data">>
      /\ Apis[18].at = <<>>
  BY ApisAre, Zenon DEF ApisAt
<1> QED BY <1>2, <1>3

(* The account's routes have one segment. *)
LEMMA AccountIsShort ==
  \A i \in DOMAIN Apis[18].routes : Len(Apis[18].routes[i].p) = 1
<1>1. /\ \A i \in DOMAIN AccountRoutes : Len(AccountRoutes[i].p) = 1
      /\ \A i \in DOMAIN LoginRoutes : Len(LoginRoutes[i].p) = 1
  BY DEF AccountRoutes, LoginRoutes, Get, Post
<1>2. AccountRoutes \in Seq(Route) /\ LoginRoutes \in Seq(Route)
  BY ListsAreTyped, WordsArePlain DEF Route
<1>3. Apis[18].routes = AccountRoutes \o LoginRoutes
  BY ApisAre, Zenon DEF ApisAt
<1> HIDE DEF Route
<1>4. ASSUME NEW rs \in Seq(Route), NEW qs \in Seq(Route), NEW i \in DOMAIN (rs \o qs)
      PROVE  \/ \E j \in DOMAIN rs : (rs \o qs)[i] = rs[j]
             \/ \E j \in DOMAIN qs : (rs \o qs)[i] = qs[j]
  <2>1. \/ i \in DOMAIN rs /\ (rs \o qs)[i] = rs[i]
        \/ i - Len(rs) \in DOMAIN qs /\ (rs \o qs)[i] = qs[i - Len(rs)]
    BY JoinIs
  <2> QED BY <2>1, Zenon
<1> QED BY <1>1, <1>2, <1>3, <1>4

(* The pattern of a route, below its controller. *)
LEMMA PlacesAre ==
  ASSUME NEW n \in Places
  PROVE  LET a == Apis[n[1]]
             r == a.routes[n[2]]
         IN  /\ n = <<n[1], n[2]>> /\ n[1] \in 1..18 /\ n[2] \in DOMAIN a.routes
             /\ a.at \in Seq(Words) /\ r \in Route
             /\ AllRoutes[n] = Mounted(a)[n[2]]
             /\ AllRoutes[n] = [r EXCEPT !.p = a.at \o r.p]
             /\ AllRoutes[n].m = r.m /\ AllRoutes[n].p = a.at \o r.p
<1> DEFINE a == Apis[n[1]]
           r == a.routes[n[2]]
<1>1. PICK k \in DOMAIN Apis : n \in {k} \X DOMAIN Apis[k].routes
  BY DEF Places
<1>2. n = <<n[1], n[2]>> /\ n[1] \in DOMAIN Apis /\ n[2] \in DOMAIN a.routes
  BY <1>1
<1>3. n[1] \in 1..18
  BY <1>2, ApisAre
<1>4. a.at \in Seq(Words)
  BY <1>2, AtIsTyped, WordsArePlain
<1>5. r \in Route
  <2>1. a.routes \in Seq(Route)
    BY <1>2, ApisAreSound
  <2> HIDE DEF Route, a
  <2> QED BY <1>2, <2>1
<1>6. AllRoutes[n] = Mounted(a)[n[2]]
  BY DEF AllRoutes
<1>7. Mounted(a)[n[2]] = [r EXCEPT !.p = a.at \o r.p]
  BY <1>2 DEF Mounted
<1>8. AllRoutes[n].m = r.m /\ AllRoutes[n].p = a.at \o r.p
  <2> DEFINE q == a.at \o r.p
  <2>1. AllRoutes[n] = [r EXCEPT !.p = q]
    BY <1>6, <1>7
  <2> HIDE DEF a, r, q
  <2>2. [r EXCEPT !.p = q].m = r.m /\ [r EXCEPT !.p = q].p = q
    BY <1>5, RouteFields DEF Route
  <2>3. AllRoutes[n].m = r.m /\ AllRoutes[n].p = q
    BY <2>1, <2>2
  <2> QED BY <2>3, Zenon DEF q
<1> QED BY <1>2, <1>3, <1>4, <1>5, <1>6, <1>7, <1>8, Zenon

(* Paths below one controller differ as the patterns do. *)
LEMMA PrefixCancels ==
  ASSUME NEW X, NEW a \in Seq(X), NEW p \in Seq(X), NEW q \in Seq(X), a \o p = a \o q
  PROVE  p = q
<1>1. Len(p) = Len(q) /\ Len(p) \in Nat /\ Len(a) \in Nat
  <2>1. Len(a \o p) = Len(a) + Len(p) /\ Len(a \o q) = Len(a) + Len(q)
    OBVIOUS
  <2> QED BY <2>1
<1>2. ASSUME NEW i \in 1..Len(p) PROVE p[i] = q[i]
  <2>1. (a \o p)[Len(a) + i] = p[i] /\ (a \o q)[Len(a) + i] = q[i]
    BY <1>1
  <2> QED BY <2>1
<1> QED BY <1>1, <1>2

(* Prefixes a and b that keep apart the patterns p and q below them. *)
Apart(a, b, p, q) ==
  \/ \E n \in 1..Len(a) : n \in 1..Len(b) /\ a[n] # b[n]
  \/ Len(a) = 0 /\ Len(p) = 1 /\ Len(b) >= 2
  \/ Len(b) = 0 /\ Len(q) = 1 /\ Len(a) >= 2

(* Such prefixes make different paths. *)
LEMMA ApartDiffer ==
  ASSUME NEW X, NEW a \in Seq(X), NEW b \in Seq(X), NEW p \in Seq(X), NEW q \in Seq(X),
         Apart(a, b, p, q)
  PROVE  a \o p # b \o q
<1>1. /\ Len(a \o p) = Len(a) + Len(p) /\ \A n \in 1..Len(a) : (a \o p)[n] = a[n]
      /\ Len(b \o q) = Len(b) + Len(q) /\ \A n \in 1..Len(b) : (b \o q)[n] = b[n]
      /\ Len(a) \in Nat /\ Len(b) \in Nat /\ Len(p) \in Nat /\ Len(q) \in Nat
  OBVIOUS
<1> QED BY SMTT(30), <1>1 DEF Apart

(* Two controllers have no route in common. *)
LEMMA ControllersApart ==
  ASSUME NEW k \in 1..18, NEW l \in 1..18, k # l,
         NEW i \in DOMAIN Apis[k].routes, NEW j \in DOMAIN Apis[l].routes
  PROVE  Apart(Apis[k].at, Apis[l].at, Apis[k].routes[i].p, Apis[l].routes[j].p)
<1> DEFINE a == Apis[k].at
           b == Apis[l].at
<1>1. k \in 1..17 => Len(a) >= 2 /\ a[2] = Seconds[k]
  BY AtTells
<1>2. l \in 1..17 => Len(b) >= 2 /\ b[2] = Seconds[l]
  BY AtTells
<1>3. Len(a) \in Nat /\ Len(b) \in Nat
  <2>1. a \in Seq(Words) /\ b \in Seq(Words)
    BY ApisAre, AtIsTyped, WordsArePlain
  <2> HIDE DEF a, b
  <2> QED BY <2>1
<1>4. CASE k \in 1..17 /\ l \in 1..17
  <2>1. CASE Seconds[k] # Seconds[l]
    <3>1. 2 \in 1..Len(a) /\ 2 \in 1..Len(b) /\ a[2] # b[2]
      BY <1>1, <1>2, <1>3, <1>4, <2>1
    <3> QED BY <3>1 DEF Apart
  <2>2. CASE Seconds[k] = Seconds[l]
    <3>1. {k, l} = {1, 2}
      BY <1>4, <2>2, SecondsTell
    <3>2. (k = 1 /\ l = 2) \/ (k = 2 /\ l = 1)
      BY <3>1
    <3>3. Len(a) = 3 /\ Len(b) = 3 /\ a[3] # b[3]
      BY <3>2, AtTells
    <3>4. 3 \in 1..Len(a) /\ 3 \in 1..Len(b)
      BY <3>3
    <3> QED BY <3>3, <3>4 DEF Apart
  <2> QED BY <2>1, <2>2
<1>5. CASE k = 18
  <2>1. Len(Apis[k].routes[i].p) = 1 /\ Len(a) = 0
    BY <1>5, AtTells, AccountIsShort
  <2>2. Len(b) >= 2
    BY <1>2, <1>5
  <2> QED BY <2>1, <2>2, Zenon DEF Apart
<1>6. CASE l = 18
  <2>1. Len(Apis[l].routes[j].p) = 1 /\ Len(b) = 0
    BY <1>6, AtTells, AccountIsShort
  <2>2. Len(a) >= 2
    BY <1>1, <1>6
  <2> QED BY <2>1, <2>2, Zenon DEF Apart
<1> QED BY <1>4, <1>5, <1>6

(* No two routes of the program are alike. *)
LEMMA AllRoutesDistinct == Distinct(AllRoutes)
<1>1. DOMAIN AllRoutes = Places
  BY DEF AllRoutes
<1> SUFFICES ASSUME NEW n \in Places, NEW o \in Places,
                    AllRoutes[n].m = AllRoutes[o].m, AllRoutes[n].p = AllRoutes[o].p
             PROVE  n = o
  BY <1>1, Zenon DEF Distinct
<1> DEFINE k == n[1]
           l == o[1]
           i == n[2]
           j == o[2]
           r == Apis[k].routes[i]
           s == Apis[l].routes[j]
           a == Apis[k].at
           b == Apis[l].at
<1>2. /\ n = <<k, i>> /\ k \in 1..18 /\ i \in DOMAIN Apis[k].routes
      /\ a \in Seq(Words) /\ r \in Route
      /\ AllRoutes[n].m = r.m /\ AllRoutes[n].p = a \o r.p
  BY PlacesAre, Zenon
<1>3. /\ o = <<l, j>> /\ l \in 1..18 /\ j \in DOMAIN Apis[l].routes
      /\ b \in Seq(Words) /\ s \in Route
      /\ AllRoutes[o].m = s.m /\ AllRoutes[o].p = b \o s.p
  BY PlacesAre, Zenon
<1> HIDE DEF k, l, i, j
<1>4. r.m = s.m /\ a \o r.p = b \o s.p
  BY <1>2, <1>3, Zenon
<1>5. r.p \in Seq(Words) /\ s.p \in Seq(Words)
  BY <1>2, <1>3, RouteFields, Zenon DEF Route
<1>6. k = l
  <2> SUFFICES ASSUME k # l PROVE FALSE
    BY Zenon
  <2>1. Apart(a, b, r.p, s.p)
    BY <1>2, <1>3, ControllersApart, Zenon
  <2> HIDE DEF r, s, a, b
  <2> QED BY <1>2, <1>3, <1>4, <1>5, <2>1, ApartDiffer, Zenon
<1>7. r.p = s.p
  <2>1. a \o r.p = a \o s.p
    BY <1>4, <1>6, Zenon
  <2> HIDE DEF r, s, a, b
  <2> QED BY <1>2, <1>5, <2>1, PrefixCancels, Zenon
<1>8. Distinct(Apis[k].routes)
  <2>1. k \in DOMAIN Apis
    BY <1>2, ApisAre
  <2> QED BY <2>1, ApisAreSound, Zenon
<1>9. i = j
  <2>1. j \in DOMAIN Apis[k].routes /\ s = Apis[k].routes[j]
    BY <1>3, <1>6, Zenon
  <2> QED BY <1>2, <1>4, <1>7, <1>8, <2>1, Zenon DEF Distinct
<1> QED BY <1>2, <1>3, <1>6, <1>9, Zenon

(* Every request reaches the handler it is meant for. *)
LEMMA NoneMisrouted == Misrouted = {} /\ \A k \in DOMAIN Apis : Reached[k] = Mounted(Apis[k])
<1>1. ASSUME NEW n \in Places PROVE AllRoutes[n].p \in Seq(Words)
  <2> DEFINE a == Apis[n[1]]
             r == a.routes[n[2]]
  <2>1. r \in Route /\ a.at \in Seq(Words) /\ AllRoutes[n].p = a.at \o r.p
    BY PlacesAre
  <2> HIDE DEF a, r
  <2>2. r.p \in Seq(Words)
    BY <2>1, RouteFields, Zenon DEF Route
  <2> HIDE DEF Route
  <2> QED BY SMTT(30), <2>1, <2>2
<1>2. DOMAIN AllRoutes = Places
  BY DEF AllRoutes
<1>3. ASSUME NEW n \in Places
      PROVE  AllRoutes[Router(AllRoutes, AllRoutes[n].m, Filled(AllRoutes[n].p))] = AllRoutes[n]
  <2>1. "1" \notin Words
    BY WordsArePlain
  <2>2. \A j \in DOMAIN AllRoutes : AllRoutes[j].p \in Seq(Words)
    BY <1>1, <1>2
  <2>3. Router(AllRoutes, AllRoutes[n].m, Filled(AllRoutes[n].p)) = n
    BY <1>2, <2>1, <2>2, AllRoutesDistinct, RouterFinds
  <2> QED BY <2>3
<1>4. ASSUME NEW k \in DOMAIN Apis PROVE Reached[k] = Mounted(Apis[k])
  <2> DEFINE rs == Mounted(Apis[k])
  <2>1. DOMAIN rs = DOMAIN Apis[k].routes /\ rs = [i \in DOMAIN rs |-> rs[i]]
    BY DEF Mounted
  <2>2. \A i \in DOMAIN rs : <<k, i>> \in Places /\ AllRoutes[<<k, i>>] = rs[i]
    BY <2>1 DEF Places, AllRoutes
  <2>3. \A i \in DOMAIN rs : AllRoutes[Router(AllRoutes, rs[i].m, Filled(rs[i].p))] = rs[i]
    <3> HIDE DEF rs
    <3> TAKE i \in DOMAIN rs
    <3>1. <<k, i>> \in Places /\ AllRoutes[<<k, i>>] = rs[i]
      BY <2>2
    <3> QED BY <1>3, <3>1
  <2>4. Reached[k] = [i \in DOMAIN rs |-> AllRoutes[Router(AllRoutes, rs[i].m, Filled(rs[i].p))]]
    BY DEF Reached
  <2> HIDE DEF rs
  <2>5. Reached[k] = rs
    BY <2>1, <2>3, <2>4
  <2> QED BY <2>5 DEF rs
<1> QED BY <1>4 DEF Misrouted

(* Every request reaches the handler its route was declared with, also where  *)
(* a pattern with a parameter is declared before a static one: the router is  *)
(* Fastify's, the routes are those of all the controllers.                   *)
THEOREM RequestsReachHandlers == ApiSpec => []HandlersReached
<1>1. HandlersReached
  BY NoneMisrouted DEF HandlersReached
<1> QED BY <1>1, PTL

----------------------------------------------------------------------------
(* The guard. *)

(* What the guard has seen of the request in slot c, if it is one that writes. *)
Kept(c) ==
  LET r == call[c].route IN
  r.op \in Writing =>
    \/ r.need = AnyPerms
    \/ /\ call[c].held
       /\ \/ r.op = "create" /\ r.need[2] = "add"
          \/ r.op \in {"edit", "remove"} /\ r.need[2] = r.op

GuardInv == \A c \in Calls : call[c].pc # "idle" => Kept(c)

(* The route that a request reaches asks for what it is to ask for. *)
LEMMA ReachedAsks ==
  ASSUME NEW k \in DOMAIN Tables, NEW i \in DOMAIN Apis[k].routes
  PROVE  Asks(Reached[k][i])
<1> DEFINE r == Apis[k].routes[i]
<1>1. k \in DOMAIN Apis
  BY ApisAre
<1>2. Reached[k][i] = Mounted(Apis[k])[i]
  BY <1>1, NoneMisrouted
<1>3. Reached[k][i] = [r EXCEPT !.p = Apis[k].at \o r.p]
  BY <1>2 DEF Mounted
<1>4. r \in Route
  <2>1. Apis[k].routes \in Seq(Route)
    BY <1>1, ApisAreSound
  <2> HIDE DEF Route
  <2> QED BY <2>1
<1>5. Asks(r)
  BY <1>1, ApisAreSound DEF AllAsk
<1>6. Reached[k][i].op = r.op /\ Reached[k][i].need = r.need
  <2> DEFINE q == Apis[k].at \o r.p
  <2>1. Reached[k][i] = [r EXCEPT !.p = q]
    BY <1>3
  <2> HIDE DEF r, q
  <2>2. [r EXCEPT !.p = q].op = r.op /\ [r EXCEPT !.p = q].need = r.need
    BY <1>4, RouteFields DEF Route
  <2> QED BY <2>1, <2>2
<1> HIDE DEF r
<1> QED BY <1>5, <1>6, Zenon DEF Asks

(* A request that the guard admits holds what the guard saw. *)
LEMMA RequestKeeps ==
  ASSUME ApiInv, NEW c \in Calls, NEW i \in DOMAIN Apis[api].routes, Request(c, i)
  PROVE  Kept(c)' /\ \A d \in Calls \ {c} : call'[d] = call[d]
<1> DEFINE r == Reached[api][i]
<1>1. api \in DOMAIN Tables /\ call \in [Calls -> CallType]
  BY DEF ApiInv, ApiTypeOK
<1>2. Asks(r)
  BY <1>1, ReachedAsks
<1>3. Admits(perms, r.need)
  BY DEF Request
<1>4. r.op \in Writing =>
        \/ r.need = AnyPerms
        \/ /\ Holds(perms, r.need)
           /\ \/ r.op = "create" /\ r.need[2] = "add"
              \/ r.op \in {"edit", "remove"} /\ r.need[2] = r.op
  <2> HIDE DEF r
  <2> QED BY <1>2, <1>3 DEF Asks, Admits
<1> DEFINE page == IF r.op = "page" THEN 1 ELSE 0
           alive(want) == IF r.op = "page" THEN Matching(rows, want) ELSE {}
<1>5. PICK id, want : call' = [call EXCEPT ![c] = [NoCall EXCEPT
        !.pc = "run", !.route = r, !.id = id, !.held = Holds(perms, r.need),
        !.want = want, !.page = page, !.alive = alive(want)]]
  BY Zenon DEF Request
<1> HIDE DEF r, page, alive
<1>6. call'[c].route = r /\ call'[c].held = Holds(perms, r.need)
  BY <1>1, <1>5 DEF NoCall
<1>7. \A d \in Calls \ {c} : call'[d] = call[d]
  BY <1>1, <1>5
<1> QED BY <1>4, <1>6, <1>7 DEF Kept

(* Every other step leaves a request what it was, or answers it. *)
SameRequest(d) ==
  \/ call'[d].pc = "idle"
  \/ call[d].pc # "idle" /\ call'[d].route = call[d].route /\ call'[d].held = call[d].held

(* One case for each way to go on with a request. *)
LEMMA OthersKeep ==
  ASSUME ApiInv, NEW c \in Calls,
         \/ CreateRow(c) \/ EditRow(c) \/ RemoveRow(c)
         \/ Rejected(c) \/ PageRows(c) \/ PageCount(c) \/ AllRead(c)
  PROVE  \A d \in Calls : SameRequest(d)
<1>1. /\ call \in [Calls -> CallType]
      /\ \A d \in Calls : call[d].pc \in {"idle", "run", "count", "done"}
  BY DEF ApiInv, ApiTypeOK
<1>2. NoCall.pc = "idle"
  BY DEF NoCall
<1>3. CASE Answer(c)
  <2>1. call'[c] = NoCall /\ \A d \in Calls \ {c} : call'[d] = call[d]
    BY <1>1, <1>3 DEF Answer
  <2> QED BY <1>1, <1>2, <2>1 DEF SameRequest
<1>4. ASSUME NEW t, Writes(c, t) PROVE \A d \in Calls : SameRequest(d)
  <2>1. call' = [Readers(t) EXCEPT ![c] = NoCall] /\ DOMAIN Readers(t) = Calls
    BY <1>4 DEF Writes, Readers
  <2>2. call'[c] = NoCall /\ \A d \in Calls \ {c} : call'[d] = Readers(t)[d]
    BY <2>1
  <2>3. ASSUME NEW d \in Calls \ {c} PROVE SameRequest(d)
    <3>1. call'[d] = call[d] \/ call'[d] = After(call[d], rows, t)
      BY <2>2 DEF Readers, After
    <3>2. call[d] \in CallType
      BY <1>1
    <3>3. /\ call'[d].pc = call[d].pc /\ call'[d].route = call[d].route
          /\ call'[d].held = call[d].held
      BY <3>1, <3>2 DEF CallType, After
    <3> QED BY <1>1, <3>3 DEF SameRequest
  <2> QED BY <1>2, <2>2, <2>3 DEF SameRequest
<1>5. CASE PageRows(c)
  <2> DEFINE got == OnPage(Matching(rows, call[c].want), call[c].page)
             seen == call[c].seen \cup got
             twice == call[c].twice \/ call[c].seen \cap got # {}
  <2>1. call' = [call EXCEPT ![c].pc = "count", ![c].seen = seen, ![c].twice = twice]
    BY <1>1, <1>5 DEF PageRows
  <2> HIDE DEF seen, twice
  <2>2. call[c] \in CallType /\ call[c].pc = "run"
    BY <1>1, <1>5 DEF PageRows, Running
  <2>3. call'[c].route = call[c].route /\ call'[c].held = call[c].held
    BY <1>1, <2>1, <2>2 DEF CallType
  <2>4. \A d \in Calls \ {c} : call'[d] = call[d]
    BY <1>1, <2>1
  <2> QED BY <1>1, <2>2, <2>3, <2>4 DEF SameRequest
<1>6. CASE PageCount(c) /\ ~Answer(c)
  <2>1. \/ call' = [call EXCEPT ![c].pc = "run", ![c].page = @ + 1]
        \/ call' = [call EXCEPT ![c].pc = "done"]
    BY <1>6 DEF PageCount
  <2>2. call[c] \in CallType /\ call[c].pc = "count"
    BY <1>1, <1>6 DEF PageCount
  <2>3. call'[c].route = call[c].route /\ call'[c].held = call[c].held
    BY <1>1, <2>1, <2>2 DEF CallType
  <2>4. \A d \in Calls \ {c} : call'[d] = call[d]
    BY <1>1, <2>1
  <2> QED BY <1>1, <2>2, <2>3, <2>4 DEF SameRequest
<1>7. CASE CreateRow(c) \/ EditRow(c) \/ RemoveRow(c)
  BY <1>4, <1>7, Zenon DEF CreateRow, EditRow, RemoveRow
<1>8. CASE Rejected(c) \/ AllRead(c)
  BY <1>3, <1>8 DEF Rejected, AllRead
<1> QED BY <1>3, <1>5, <1>6, <1>7, <1>8

(* The step of the invariant. *)
LEMMA GuardInvNext == ApiInv /\ GuardInv /\ [ApiNext]_apiVars => GuardInv'
<1> SUFFICES ASSUME ApiInv, GuardInv, [ApiNext]_apiVars PROVE GuardInv'
  OBVIOUS
<1>1. ASSUME NEW c \in Calls, NEW i \in DOMAIN Apis[api].routes, Request(c, i)
      PROVE  GuardInv'
  BY <1>1, RequestKeeps DEF GuardInv, Kept
<1>2. ASSUME \A d \in Calls : SameRequest(d) PROVE GuardInv'
  BY <1>2 DEF GuardInv, Kept, SameRequest
<1>3. CASE UNCHANGED call
  BY <1>3 DEF GuardInv, Kept
<1> QED BY <1>1, <1>2, <1>3, OthersKeep DEF ApiNext, PermsChange, apiVars

(* The action of GuardedChange. *)
GuardedStep ==
  rows' # rows =>
    \E c \in Calls : LET r == call[c].route IN
      /\ call[c].pc = "run" /\ call'[c].pc = "idle"
      /\ r.need = AnyPerms \/
           /\ call[c].held
           /\ \/ r.op = "create" /\ r.need[2] = "add"
              \/ r.op \in {"edit", "remove"} /\ r.need[2] = r.op

(* A step that changes the table is one of a handler that writes. *)
LEMMA GuardedSteps == ApiInv /\ GuardInv /\ [ApiNext]_apiVars => GuardedStep
<1> SUFFICES ASSUME ApiInv, GuardInv, [ApiNext]_apiVars, rows' # rows PROVE GuardedStep
  BY Zenon DEF GuardedStep
<1>0. ApiNext
  BY DEF apiVars
<1>1. PICK c \in Calls : CreateRow(c) \/ EditRow(c) \/ RemoveRow(c)
  BY <1>0, Zenon DEF ApiNext, Request, Rejected, PageRows, PageCount, AllRead, PermsChange
<1>2. call[c].pc = "run" /\ call[c].route.op \in Writing
  BY <1>1 DEF CreateRow, EditRow, RemoveRow, Running, Writing
<1>3. Kept(c)
  BY <1>2 DEF GuardInv
<1>4. call'[c].pc = "idle"
  <2>1. call \in [Calls -> CallType] /\ NoCall.pc = "idle"
    BY DEF ApiInv, NoCall
  <2>2. ASSUME NEW t, Writes(c, t) PROVE call'[c].pc = "idle"
    <3>1. call' = [Readers(t) EXCEPT ![c] = NoCall] /\ DOMAIN Readers(t) = Calls
      BY <2>2 DEF Writes, Readers
    <3> QED BY <2>1, <3>1
  <2> QED BY <1>1, <2>2, Zenon DEF CreateRow, EditRow, RemoveRow
<1> QED BY <1>2, <1>3, <1>4 DEF Kept, GuardedStep

(* A request that writes, at every stage of it, is one whose route asks for    *)
(* the permission to write that way and whose caller held it when the guard  *)
(* looked, or one whose route asks for none of its own.                     *)
THEOREM GuardInvariant == ApiSpec => []GuardInv
<1>1. ApiInit => GuardInv
  BY DEF ApiInit, NoCall, GuardInv
<1> QED BY <1>1, ApiInvariant, GuardInvNext, PTL DEF ApiSpec

(* The table changes only by a handler that writes, for a caller who held that *)
(* very permission when the guard looked, where the route asks for one: for   *)
(* every table, any overlap of requests and any changes of permissions.      *)
THEOREM ChangesAreGuarded == ApiSpec => GuardedChange
<1>1. ApiSpec => [][GuardedStep]_apiVars
  BY ApiInvariant, GuardInvariant, GuardedSteps, PTL DEF ApiSpec
<1> QED BY <1>1 DEF GuardedChange, GuardedStep

=============================================================================
