------------------------------ MODULE MenuTree ------------------------------
(***************************************************************************)
(* The tree that sys_menu.parentId makes: menus are created, moved and      *)
(* deleted one at a time without a look at their parents or children, and   *)
(* the older controller deletes a menu with all that is below it, reading   *)
(* one level per statement while others change the tree.  The queries that  *)
(* make trees of the rows are operators, compared with what a tree is.      *)
(*                                                                         *)
(* A walk is the set of menus whose children are still to be read: the      *)
(* order in which findChildMenus reads them is left open.                   *)
(***************************************************************************)
EXTENDS Integers, FiniteSets

CONSTANTS
  Menus,      \* ids of menus, positive
  Builtin,    \* those up to FORBIDDEN_OP_MENU_ID_INDEX
  Walks,      \* slots for the deletions being processed
  MaxMoves    \* bound: changes of a menu's row

ASSUME MenusAssumption ==
  Menus \subseteq Nat \ {0} /\ IsFiniteSet(Menus) /\ Builtin \subseteq Menus

VARIABLES
  menu,       \* [ids in the table -> [parent, on]]
  granted,    \* the menus of one role in sys_role_menu
  walk,       \* the deletion in each slot
  moves       \* changes so far

treeVars == <<menu, granted, walk, moves>>

Parents == Menus \cup {0}

(* findChildMenus: what is still to be read, what was found; and whether     *)
(* another request has put a menu somewhere since it began.                 *)
NoWalk == [pc |-> "idle", todo |-> {}, got |-> {}, moved |-> FALSE]

(* Any table and any choice: create and update take any parent.             *)
TreeInit ==
  /\ \E ids \in SUBSET Menus : menu \in [ids -> [parent : Parents, on : BOOLEAN]]
  /\ granted \in SUBSET Menus
  /\ walk  = [w \in Walks |-> NoWalk]
  /\ moves = 0

----------------------------------------------------------------------------
(* Trees.  t is the rows of a query: [ids -> [parent, on]].                  *)
Kids(t, p) == {m \in DOMAIN t : t[m].parent = p}

(* Variant: buildTree is not called for the children. *)
TransDataFlat(t) == Kids(t, 0) \cup UNION {Kids(t, m) : m \in Kids(t, 0)}

(* transData: the rows whose parent is 0, and by buildTree what hangs below. *)
(* Every service has its own copy; departments are a tree of the same kind.  *)
TransData(t) ==
  LET level[n \in 0..Cardinality(DOMAIN t)] ==
        IF n = 0 THEN Kids(t, 0) ELSE UNION {Kids(t, m) : m \in level[n - 1]}
  IN UNION {level[n] : n \in DOMAIN level}

RoleTransData(t) == TransData(t)
UserTransData(t) == TransData(t)

(* The menus and directories a role opens; a button is never on here. *)
GetMenus(t, sel) == [m \in {x \in DOMAIN t : t[x].on /\ x \in sel} |-> t[m]]

(* transData of the routers: the children it pushes have no id, so the       *)
(* children of undefined are looked for below them.                         *)
RouterData(t) ==
  LET undefined == -1
      childs    == UNION {Kids(t, m) : m \in Kids(t, 0)}
  IN Kids(t, 0) \cup childs \cup UNION {Kids(t, undefined) : m \in childs}

GetRouters(t, sel) == RouterData(GetMenus(t, sel))

(* Variant: the menus that are parents, not those that are none. *)
CheckedKeysInner(t, sel) == {m \in DOMAIN t \cap sel : \E x \in DOMAIN t \cap sel : t[x].parent = m}

(* The keys of the tree control that are checked: the chosen rows that are   *)
(* no chosen row's parent; the control checks the parents itself.  (The      *)
(* column may be NULL, and with one NULL among the chosen rows' parents the   *)
(* query's NOT IN finds no key; no row of the model has it.)                 *)
CheckedKeys(t, sel) ==
  {m \in DOMAIN t \cap sel : \A x \in DOMAIN t \cap sel : t[x].parent # m}

RoleMenuTreeselect(t, sel) == [menus |-> TransData(t), keys |-> CheckedKeys(t, sel)]

(* The role's choice of departments: on here is del_flag '0', which the       *)
(* query of the tree asks for, the one of the keys does not.                *)
RoleDeptTree(t, sel) ==
  [depts       |-> RoleTransData([m \in {x \in DOMAIN t : t[x].on} |-> t[m]]),
   checkedKeys |-> CheckedKeys(t, sel)]
UserDeptTree(t) == UserTransData(t)

----------------------------------------------------------------------------
Moved == [w \in Walks |-> [walk[w] EXCEPT !.moved = walk[w].pc = "walk"]]

Change == moves < MaxMoves /\ moves' = moves + 1

(* create and update take any parent, also one that is absent or below. *)
MenuCreate(m, p, on) ==
  /\ m \notin DOMAIN menu
  /\ Change
  /\ menu' = [x \in DOMAIN menu \cup {m} |->
                IF x = m THEN [parent |-> p, on |-> on] ELSE menu[x]]
  /\ walk' = Moved
  /\ UNCHANGED granted

MenuUpdate(m, p, on) ==
  /\ m \in DOMAIN menu
  /\ Change
  /\ menu' = [menu EXCEPT ![m] = [parent |-> p, on |-> on]]
  /\ walk' = IF p = menu[m].parent THEN walk ELSE Moved
  /\ UNCHANGED granted

MenuRemove(m) ==
  /\ m \in DOMAIN menu
  /\ Change
  /\ menu' = [x \in DOMAIN menu \ {m} |-> menu[x]]
  /\ UNCHANGED <<granted, walk>>

(* POST menuBack/delete; 10016 for a built-in menu. *)
DeleteTree(w, m) ==
  /\ walk[w].pc = "idle"
  /\ m \notin Builtin
  /\ walk' = [walk EXCEPT ![w] = [NoWalk EXCEPT !.pc = "walk", !.todo = {m}, !.got = {m}]]
  /\ UNCHANGED <<menu, granted, moves>>

(* Variants: one level only; the same menu is read again. *)
FindKidsOnly(w, m) ==
  /\ m \in walk[w].todo
  /\ walk' = [walk EXCEPT ![w].todo = @ \ {m}, ![w].got = @ \cup Kids(menu, m)]
  /\ UNCHANGED <<menu, granted, moves>>

FindAgain(w, m) ==
  /\ m \in walk[w].todo
  /\ walk' = [walk EXCEPT ![w].todo = @ \cup Kids(menu, m), ![w].got = @ \cup Kids(menu, m)]
  /\ UNCHANGED <<menu, granted, moves>>

(* One statement of findChildMenus. *)
FindChildMenus(w, m) ==
  /\ m \in walk[w].todo
  /\ walk' = [walk EXCEPT ![w].todo = (@ \ {m}) \cup Kids(menu, m),
                          ![w].got  = @ \cup Kids(menu, m)]
  /\ UNCHANGED <<menu, granted, moves>>

DeleteMenuItem(w) ==
  /\ walk[w].pc = "walk"
  /\ walk[w].todo = {}
  /\ menu' = [x \in DOMAIN menu \ walk[w].got |-> menu[x]]
  /\ walk' = [walk EXCEPT ![w] = NoWalk]
  /\ UNCHANGED <<granted, moves>>

WalkStep(w) == (\E m \in Menus : FindChildMenus(w, m)) \/ DeleteMenuItem(w)

TreeNext ==
  \/ \E m \in Menus :
       \/ \E p \in Parents, on \in BOOLEAN : MenuCreate(m, p, on) \/ MenuUpdate(m, p, on)
       \/ MenuRemove(m)
  \/ \E w \in Walks : (\E m \in Menus : DeleteTree(w, m)) \/ WalkStep(w)

TreeSpec == TreeInit /\ [][TreeNext]_treeVars

(* The statements of a deletion are answered. *)
TreeFairness == \A w \in Walks : WF_treeVars(WalkStep(w))

----------------------------------------------------------------------------
(* The reference: m's ancestors, and whether they lead to the top. *)
Ancestors(t, m) ==
  LET up[n \in 0..Cardinality(DOMAIN t)] ==
        IF n = 0 THEN {m}
        ELSE up[n - 1] \cup {t[x].parent : x \in up[n - 1] \cap DOMAIN t}
  IN up[Cardinality(DOMAIN t)]

(* m is below itself. *)
Cyclic(t) == \E m \in DOMAIN t :
  t[m].parent = m \/ (t[m].parent \in DOMAIN t /\ m \in Ancestors(t, t[m].parent))

(* The menus a role opens: its parents up to the top are there, enabled and    *)
(* the role's, and so is it.                                               *)
Opened == {m \in DOMAIN menu :
  /\ 0 \in Ancestors(menu, m)
  /\ \A x \in Ancestors(menu, m) \ {0} : x \in granted /\ menu[x].on}

(* The trees the queries return hold exactly the rows whose parents lead to   *)
(* the top: transData ends and loses none of them, also when rows below     *)
(* make a cycle or hang from a row that is gone.  The departments a role is   *)
(* offered are those that are not deleted, nor anything above them.  The    *)
(* routers hold nothing that the role does not open: no menu below one that *)
(* is disabled or not granted.                                             *)
TreeShowsAll ==
  LET shown == {m \in DOMAIN menu : 0 \in Ancestors(menu, m)} IN
  /\ RoleMenuTreeselect(menu, granted).menus = shown
  /\ UserDeptTree(menu) = shown
  /\ RoleDeptTree(menu, granted).depts =
       {m \in shown : \A x \in Ancestors(menu, m) \ {0} : menu[x].on}
  /\ GetRouters(menu, granted) \subseteq Opened

(* What login.service.ts:72-73 says: the children of the children are fetched  *)
(* too, recursively; so the routers hold every menu the role opens.         *)
RoutersShowAll == Opened \subseteq GetRouters(menu, granted)

(* The checked keys say all of a role's choice: where every chosen menu's     *)
(* parents are chosen too, the keys and their ancestors are the choice.     *)
CheckedKeysRebuild ==
  LET chosen == DOMAIN menu \cap granted
      keys   == RoleMenuTreeselect(menu, granted).keys
  IN (\A m \in chosen : 0 \in Ancestors(menu, m) /\ Ancestors(menu, m) \ {0} \subseteq chosen)
       => (UNION {Ancestors(menu, m) : m \in keys}) \ {0} = chosen

(* A deletion with all below leaves no menu below what it has deleted, unless *)
(* a menu was created or moved since it began to read.                      *)
NoOrphansLeft ==
  [][\A w \in Walks :
       walk[w].pc = "walk" /\ walk'[w].pc = "idle" /\ ~walk[w].moved =>
         \A m \in DOMAIN menu' : menu'[m].parent \notin walk[w].got]_treeVars

(* findChildMenus ends, unless the tree has a cycle (menu.service.ts:141). *)
WalksEnd == \A w \in Walks : walk[w].pc = "walk" ~> walk[w].pc = "idle" \/ Cyclic(menu)

=============================================================================
