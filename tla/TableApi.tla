------------------------------ MODULE TableApi ------------------------------
(***************************************************************************)
(* A request to a controller that keeps one table: the router chooses the   *)
(* handler, the guard looks at the caller's permissions, the handler runs   *)
(* one statement, or two for a page (the rows, then their number).  A       *)
(* client reads page after page, with the same filter, until it has as many *)
(* rows as the last total said.  Calls overlap, and the caller's            *)
(* permissions may change.                                                 *)
(*                                                                         *)
(* One table is at work in a behaviour.  A row is its id and the value of a *)
(* column that a query may ask for.  Ids grow, and a statement that names   *)
(* no order returns rows by id, as InnoDB does, also where it finds them by *)
(* an index on the column; a body to create one names no id.                *)
(***************************************************************************)
EXTENDS ApiRoutes

CONSTANTS
  Calls,      \* slots for the requests being processed
  MaxRows,    \* bound: rows ever made
  PageSize,   \* rows of a page
  NoKey       \* no permission key in Redis

ASSUME MaxRowsAssumption  == MaxRows \in Nat
ASSUME PageSizeAssumption == PageSize \in Nat \ {0}

VARIABLES
  api,        \* the index of the table in Apis
  rows,       \* [ids -> has the column the value that queries ask for?]
  made,       \* rows ever made
  perms,      \* the caller's permission key
  call        \* the request in each slot

apiVars == <<api, rows, made, perms, call>>

(* A table: where its controller is mounted, its routes, and its service.     *)
(* The ten services are made alike, findMany with skip and take and a count  *)
(* for a page, one statement for each other operation, so that the actions  *)
(* below stand for all of them.  They differ in how they edit and remove:   *)
(* updateMany and deleteMany (many) do not mind a row that is absent, update *)
(* and delete reject.                                                       *)
DictType   == [at |-> <<"system", "dict", "type">>, routes |-> DictTypeRoutes, many |-> FALSE]
DictData   == [at |-> <<"system", "dict", "data">>, routes |-> DictDataRoutes, many |-> FALSE]
Dept       == [at |-> <<"system", "dept">>, routes |-> DeptRoutes, many |-> FALSE]
PostTable  == [at |-> <<"system", "post">>, routes |-> PostRoutes, many |-> FALSE]
Config     == [at |-> <<"system", "config">>, routes |-> ConfigRoutes, many |-> FALSE]
Notice     == [at |-> <<"system", "notice">>, routes |-> NoticeRoutes, many |-> FALSE]
Menu       == [at |-> <<"system", "menu">>, routes |-> MenuRoutes, many |-> FALSE]
Operlog    == [at |-> <<"monitor", "operlog">>, routes |-> OperlogRoutes, many |-> FALSE]
Logininfor == [at |-> <<"monitor", "logininfor">>, routes |-> LogininforRoutes, many |-> FALSE]
MonitorJob == [at |-> <<"monitor", "job">>, routes |-> JobRoutes, many |-> TRUE]

(* The other controllers, whose handlers other modules model: here they       *)
(* only have routes.                                                        *)
User     == [at |-> <<"system", "user">>, routes |-> UserRoutes, many |-> TRUE]
Role     == [at |-> <<"system", "role">>, routes |-> RoleRoutes \o RoleMoreRoutes, many |-> TRUE]
Task     == [at |-> <<"system", "task">>, routes |-> TaskRoutes, many |-> TRUE]
MenuBack == [at |-> <<"system", "menuBack">>, routes |-> MenuBackRoutes, many |-> TRUE]
Online   == [at |-> <<"system", "online">>, routes |-> OnlineRoutes, many |-> TRUE]
Log      == [at |-> <<"system", "log">>, routes |-> LogRoutes, many |-> TRUE]
Serve    == [at |-> <<"system", "serve">>, routes |-> ServeRoutes, many |-> TRUE]
Account  == [at |-> <<>>, routes |-> AccountRoutes \o LoginRoutes, many |-> TRUE]

Tables == <<DictType, DictData, Dept, PostTable, Config, Notice, Menu, Operlog, Logininfor,
            MonitorJob>>
Apis   == Tables \o <<User, Role, Task, MenuBack, Online, Log, Serve, Account>>

Mounted(a) == [i \in DOMAIN a.routes |-> [a.routes[i] EXCEPT !.p = a.at \o @]]

(* Every route, at <<its controller's index in Apis, its own there>>. *)
Places    == UNION {{k} \X DOMAIN Apis[k].routes : k \in DOMAIN Apis}
AllRoutes == [n \in Places |-> Mounted(Apis[n[1]])[n[2]]]

Needs(c) == {c.routes[i].need : i \in DOMAIN c.routes}
              \ {Authorize, PermissionOptional, AnyPerms}
Reading  == {"list", "query", "export"}

(* The permission keys the checks tell apart: none, one that only reads, and  *)
(* the administrator's.                                                     *)
Keys(c) == {NoKey, {n \in Needs(c) : n[2] \in Reading}, {Star}}

NoCall == [pc |-> "idle", route |-> <<>>, id |-> 0, held |-> FALSE, page |-> 0,
           want |-> BOOLEAN, seen |-> {}, alive |-> {}, twice |-> FALSE,
           cut |-> FALSE, pushed |-> FALSE]

ApiInit ==
  /\ api   \in DOMAIN Tables
  /\ rows  = <<>>
  /\ made  = 0
  /\ perms \in Keys(Apis[api])
  /\ call  = [c \in Calls |-> NoCall]

----------------------------------------------------------------------------
(* The routes of the other tables and controllers are there too. *)
Matches(r, m, path) ==
  /\ r.m = m /\ Len(r.p) = Len(path)
  /\ \A i \in DOMAIN path : r.p[i] \in {":id", path[i]}

(* Of two patterns, the one that is static where they first differ.          *)
MoreStatic(p, q) ==
  \E i \in DOMAIN p : p[i] # q[i] /\ q[i] = ":id" /\ \A j \in 1..(i - 1) : p[j] = q[j]

Candidates(rs, m, path) == {i \in DOMAIN rs : Matches(rs[i], m, path)}

(* Variant: the route declared first. *)
RouterInOrder(rs, m, path) ==
  CHOOSE i \in Candidates(rs, m, path) :
    \A j \in Candidates(rs, m, path) : i[1] < j[1] \/ (i[1] = j[1] /\ i[2] <= j[2])

(* The router of Fastify: static before parametric, in any order. *)
Router(rs, m, path) ==
  CHOOSE i \in Candidates(rs, m, path) :
    \A j \in Candidates(rs, m, path) \ {i} : MoreStatic(rs[i].p, rs[j].p)

Filled(p) == [i \in DOMAIN p |-> IF p[i] = ":id" THEN "1" ELSE p[i]]

(* The route that a request for each route of each controller reaches. *)
Reached == [k \in DOMAIN Apis |-> LET rs == Mounted(Apis[k]) IN
  [i \in DOMAIN rs |-> AllRoutes[Router(AllRoutes, rs[i].m, Filled(rs[i].p))]]]

Misrouted == {k \in DOMAIN Apis : Reached[k] # Mounted(Apis[k])}

Holds(key, need) == key # NoKey /\ (Star \in key \/ need \in key)

(* Variant: any permission will do. *)
AdmitsAnyKey(key, need) ==
  need \in {Authorize, PermissionOptional} \/ key # NoKey

(* The guard, of a caller whose session it accepts (AuthSession). *)
Admits(key, need) ==
  \/ need \in {Authorize, PermissionOptional}
  \/ key # NoKey /\ (need = AnyPerms \/ Holds(key, need))

Answer(c) == call' = [call EXCEPT ![c] = NoCall]

(* where: queryObj, of a query that asks for the column's values in want: all,  *)
(* or the one.  The pages of dict/type have no filter.                      *)
Wants(a)          == IF a = DictType THEN {BOOLEAN} ELSE {BOOLEAN, {TRUE}}
Matching(t, want) == {i \in DOMAIN t : t[i] \in want}

(* The guard admits a request and its handler begins.  The handlers that     *)
(* only read once (one row, all of them, a sheet of them) are left out.     *)
Request(c, i) ==
  LET r     == Reached[api][i]
      ids   == IF r.op \in {"edit", "remove"} THEN 1..MaxRows ELSE {0}
      wants == IF r.op = "page" THEN Wants(Apis[api]) ELSE {BOOLEAN}
  IN
  /\ call[c].pc = "idle"
  /\ r.op \in {"page", "create", "edit", "remove"}
  /\ Admits(perms, r.need)
  /\ \E id \in ids, want \in wants : call' = [call EXCEPT ![c] = [NoCall EXCEPT
       !.pc = "run", !.route = r, !.id = id, !.held = Holds(perms, r.need),
       !.want = want, !.page = IF r.op = "page" THEN 1 ELSE 0,
       !.alive = IF r.op = "page" THEN Matching(rows, want) ELSE {}]]
  /\ UNCHANGED <<api, rows, made, perms>>

Running(c, op) == call[c].pc = "run" /\ call[c].route.op = op

(* What it is to the clients that read the table that its rows are t now: the  *)
(* rows that are theirs all the time; whether one of theirs went (cut), or   *)
(* one came that was not theirs and is not new (pushed).                    *)
Readers(t) ==
  [d \in Calls |->
     LET before == Matching(rows, call[d].want)
         after  == Matching(t, call[d].want)
     IN IF call[d].page = 0 THEN call[d]
        ELSE [call[d] EXCEPT !.alive = @ \cap after, !.cut = @ \/ ~(before \subseteq after),
                !.pushed = @ \/ ~(after \cap DOMAIN rows \subseteq before)]]

(* The handler of c makes t of the table's rows, and answers. *)
Writes(c, t) ==
  /\ rows' = t
  /\ call' = [Readers(t) EXCEPT ![c] = NoCall]
  /\ UNCHANGED <<api, perms>>

CreateRow(c) ==
  /\ Running(c, "create")
  /\ made < MaxRows
  /\ made' = made + 1
  /\ \E v \in BOOLEAN :
       Writes(c, [i \in DOMAIN rows \cup {made + 1} |-> IF i = made + 1 THEN v ELSE rows[i]])

(* updateMany of a body that names no id is of all rows. *)
EditRow(c) ==
  /\ Running(c, "edit")
  /\ \E v \in BOOLEAN,
        ids \in {{call[c].id}} \cup (IF Apis[api].many THEN {DOMAIN rows} ELSE {}) :
       Writes(c, [i \in DOMAIN rows |-> IF i \in ids THEN v ELSE rows[i]])
  /\ UNCHANGED made

RemoveRow(c) ==
  LET i == call[c].id IN
  /\ Running(c, "remove")
  /\ i \in DOMAIN rows \/ Apis[api].many
  /\ Writes(c, [j \in DOMAIN rows \ {i} |-> rows[j]])
  /\ UNCHANGED made

(* Rejected by Prisma: an absent row, a value the column cannot take. *)
Rejected(c) ==
  /\ call[c].pc = "run"
  /\ Answer(c)
  /\ UNCHANGED <<api, rows, made, perms>>

(* The place of i among the rows in S. *)
Rank(i, S) == Cardinality({j \in S : j <= i})

(* Variant: skip counts pages from one. *)
OnPageFromOne(S, n) ==
  {i \in S : n * PageSize < Rank(i, S) /\ Rank(i, S) <= (n + 1) * PageSize}

OnPage(S, n) ==
  {i \in S : (n - 1) * PageSize < Rank(i, S) /\ Rank(i, S) <= n * PageSize}

PageRows(c) ==
  LET got == OnPage(Matching(rows, call[c].want), call[c].page) IN
  /\ Running(c, "page")
  /\ call' = [call EXCEPT ![c].pc = "count", ![c].seen = @ \cup got,
                          ![c].twice = @ \/ call[c].seen \cap got # {}]
  /\ UNCHANGED <<api, rows, made, perms>>

(* The number of rows; the client has them all or asks for the next page,    *)
(* which the guard may refuse.                                             *)
PageCount(c) ==
  LET total == Cardinality(Matching(rows, call[c].want))
      more  == Cardinality(call[c].seen) < total /\ call[c].page * PageSize < total
  IN
  /\ call[c].pc = "count"
  /\ IF more THEN IF Admits(perms, call[c].route.need)
                  THEN call' = [call EXCEPT ![c].pc = "run", ![c].page = @ + 1]
                  ELSE Answer(c)
     ELSE call' = [call EXCEPT ![c].pc = "done"]
  /\ UNCHANGED <<api, rows, made, perms>>

AllRead(c) ==
  /\ call[c].pc = "done"
  /\ Answer(c)
  /\ UNCHANGED <<api, rows, made, perms>>

(* A login, a copy of permissions or a logout writes the caller's key. *)
PermsChange ==
  /\ perms' \in Keys(Apis[api]) \ {perms}
  /\ UNCHANGED <<api, rows, made, call>>

ApiNext ==
  \/ \E c \in Calls :
       \/ \E i \in DOMAIN Apis[api].routes : Request(c, i)
       \/ CreateRow(c) \/ EditRow(c) \/ RemoveRow(c)
       \/ Rejected(c) \/ PageRows(c) \/ PageCount(c) \/ AllRead(c)
  \/ PermsChange

ApiSpec == ApiInit /\ [][ApiNext]_apiVars

----------------------------------------------------------------------------
(* Types of the table and of the slots. *)
ApiTypeOK ==
  /\ api \in DOMAIN Tables /\ made \in 0..MaxRows
  /\ DOMAIN rows \subseteq 1..made /\ rows \in [DOMAIN rows -> BOOLEAN]
  /\ \A c \in Calls :
       /\ call[c].pc \in {"idle", "run", "count", "done"}
       /\ call[c].seen \cup call[c].alive \subseteq 1..made

(* A client that reads page after page, all rows or those that its query     *)
(* asks for, while rows are added and edited has, at the end, every row that *)
(* was among them all the time: the rows and their number are read at two   *)
(* instants, and still none is left out.  Only a row that goes, deleted or   *)
(* edited out of the filter, moves others to a page that was read before;   *)
(* and only a row that is edited into it moves one to a second page.        *)
WalkComplete ==
  \A c \in Calls :
    /\ call[c].twice => call[c].pushed
    /\ call[c].pc = "done" /\ ~call[c].cut => call[c].alive \subseteq call[c].seen

(* A request reaches the handler it is meant for, also where a pattern with   *)
(* a parameter is declared before it ('menu/:id' before 'menu/treeselect'). *)
HandlersReached ==
  \A k \in Misrouted : k # api /\ k \in DOMAIN Tables

(* The table changes only by a handler that writes, for a caller who held     *)
(* that very permission when the guard looked, where the route asks for one. *)
GuardedChange ==
  [][rows' # rows =>
       \E c \in Calls : LET r == call[c].route IN
         /\ call[c].pc = "run" /\ call'[c].pc = "idle"
         /\ r.need = AnyPerms \/
              /\ call[c].held
              /\ \/ r.op = "create" /\ r.need[2] = "add"
                 \/ r.op \in {"edit", "remove"} /\ r.need[2] = r.op]_apiVars

=============================================================================
