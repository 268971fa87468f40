----------------------------- MODULE ApiRoutes -----------------------------
(***************************************************************************)
(* The routes of the controllers, in the order of their declaration, with   *)
(* the permission each requires and what its handler does to the table of   *)
(* its controller: "page", "all", "one" and "export" read it, "create",     *)
(* "edit" and "remove" change its rows; "tables" changes other state and    *)
(* "read" reads it, as the modules of those components say.                 *)
(***************************************************************************)
EXTENDS Integers, Sequences, FiniteSets

(* Routes without a permission of their own: @Authorize (no session is       *)
(* needed), @PermissionOptional (a session), neither (a session with a      *)
(* permission key).  The permission 'system:dict:list' is                   *)
(* <<"dict", "list">>.                                                      *)
Authorize          == <<"Authorize">>
PermissionOptional == <<"PermissionOptional">>
AnyPerms           == <<"AnyPerms">>
Star               == <<"*", "*">>

Get(p, need, op)    == [m |-> "GET",    p |-> p, need |-> need, op |-> op]
Post(p, need, op)   == [m |-> "POST",   p |-> p, need |-> need, op |-> op]
Put(p, need, op)    == [m |-> "PUT",    p |-> p, need |-> need, op |-> op]
Delete(p, need, op) == [m |-> "DELETE", p |-> p, need |-> need, op |-> op]

DictTypeRoutes == <<
  Get(<<"list">>, <<"dict", "list">>, "page"),
  Post(<<"export">>, <<"dict", "export">>, "export"),
  Get(<<":id">>, <<"dict", "query">>, "one"),
  Post(<<>>, <<"dict", "add">>, "create"),
  Put(<<>>, <<"dict", "edit">>, "edit"),
  Delete(<<":id">>, <<"dict", "remove">>, "remove"),
  Get(<<"optionselect">>, AnyPerms, "all") >>

DictDataRoutes == <<
  Get(<<"list">>, <<"dict", "list">>, "page"),
  Post(<<"export">>, <<"dict", "export">>, "export"),
  Get(<<":id">>, <<"dict", "query">>, "one"),
  Get(<<"type", ":id">>, AnyPerms, "all"),
  Post(<<>>, <<"dict", "add">>, "create"),
  Put(<<>>, <<"dict", "edit">>, "edit"),
  Delete(<<":id">>, <<"dict", "remove">>, "remove") >>

DeptRoutes == <<
  Get(<<"list">>, <<"dept", "list">>, "all"),
  Get(<<"list", "exclude", ":id">>, <<"dept", "list">>, "all"),
  Get(<<":id">>, <<"dept", "query">>, "one"),
  Post(<<>>, <<"dept", "add">>, "create"),
  Put(<<>>, <<"dept", "edit">>, "edit"),
  Delete(<<":id">>, <<"dept", "remove">>, "remove") >>

PostRoutes == <<
  Get(<<"list">>, <<"post", "list">>, "page"),
  Post(<<"export">>, <<"post", "export">>, "export"),
  Get(<<":id">>, <<"post", "query">>, "one"),
  Post(<<>>, <<"post", "add">>, "create"),
  Put(<<>>, <<"post", "edit">>, "edit"),
  Delete(<<":id">>, <<"post", "remove">>, "remove") >>

ConfigRoutes == <<
  Get(<<"list">>, <<"config", "list">>, "page"),
  Post(<<"export">>, <<"config", "export">>, "export"),
  Get(<<":id">>, AnyPerms, "one"),
  Post(<<>>, <<"config", "add">>, "create"),
  Put(<<>>, <<"config", "edit">>, "edit"),
  Delete(<<":id">>, <<"config", "remove">>, "remove") >>

NoticeRoutes == <<
  Get(<<"list">>, <<"notice", "list">>, "page"),
  Get(<<":id">>, <<"notice", "query">>, "one"),
  Post(<<>>, <<"notice", "add">>, "create"),
  Put(<<>>, <<"notice", "edit">>, "edit"),
  Delete(<<":id">>, <<"notice", "remove">>, "remove") >>

OperlogRoutes == <<
  Get(<<"list">>, <<"operlog", "list">>, "page"),
  Delete(<<":id">>, <<"operlog", "remove">>, "remove"),
  Get(<<":id">>, AnyPerms, "one"),
  Put(<<>>, AnyPerms, "edit"),
  Post(<<>>, AnyPerms, "create") >>

LogininforRoutes == <<
  Get(<<"list">>, <<"logininfor", "list">>, "page"),
  Get(<<":id">>, AnyPerms, "one"),
  Delete(<<":id">>, AnyPerms, "remove"),
  Put(<<>>, AnyPerms, "edit"),
  Post(<<>>, AnyPerms, "create") >>

JobRoutes == <<
  Get(<<"list">>, AnyPerms, "page"),
  Get(<<":id">>, AnyPerms, "one"),
  Delete(<<":id">>, AnyPerms, "remove"),
  Put(<<>>, AnyPerms, "edit"),
  Post(<<>>, AnyPerms, "create") >>

MenuRoutes == <<
  Get(<<"list">>, <<"menu", "list">>, "all"),
  Get(<<":id">>, <<"menu", "query">>, "one"),
  Get(<<"treeselect">>, AnyPerms, "all"),
  Get(<<"roleMenuTreeselect", ":id">>, AnyPerms, "all"),
  Post(<<>>, <<"menu", "add">>, "create"),
  Put(<<>>, <<"menu", "edit">>, "edit"),
  Delete(<<":id">>, <<"menu", "remove">>, "remove"),
  Get(<<"list", "exclude", ":id">>, AnyPerms, "all"),
  Get(<<"page">>, AnyPerms, "page") >>

UserRoutes == <<
  Get(<<"list">>, <<"user", "list">>, "page"),
  Post(<<"export">>, <<"user", "export">>, "export"),
  Put(<<"resetPwd">>, <<"user", "edit">>, "tables"),
  Get(<<"authRole", ":id">>, <<"user", "query">>, "one"),
  Put(<<"authRole">>, <<"user", "edit">>, "tables"),
  Get(<<"deptTree">>, <<"user", "list">>, "read"),
  Get(<<":id">>, <<"user", "query">>, "one"),
  Post(<<>>, <<"user", "add">>, "create"),
  Put(<<>>, <<"user", "edit">>, "edit"),
  Delete(<<":id">>, <<"user", "remove">>, "remove"),
  Post(<<"page">>, AnyPerms, "read"),
  Post(<<"password">>, AnyPerms, "tables") >>

RoleRoutes == <<
  Get(<<"list">>, <<"role", "list">>, "all"),
  Post(<<"export">>, <<"role", "export">>, "export"),
  Get(<<":id">>, <<"role", "query">>, "one"),
  Post(<<>>, <<"role", "add">>, "create"),
  Put(<<>>, <<"role", "edit">>, "edit"),
  Delete(<<":id">>, <<"role", "remove">>, "remove"),
  Put(<<"dataScope">>, <<"role", "edit">>, "edit"),
  Get(<<"authUser", "allocatedList">>, <<"role", "list">>, "read"),
  Get(<<"authUser", "unallocatedList">>, <<"role", "list">>, "read") >>

(* The rest of the role controller. *)
RoleMoreRoutes == <<
  Put(<<"authUser", "cancel">>, <<"role", "edit">>, "tables"),
  Put(<<"authUser", "cancelAll">>, <<"role", "edit">>, "tables"),
  Put(<<"authUser", "selectAll">>, <<"role", "edit">>, "tables"),
  Get(<<"deptTree", ":id">>, <<"role", "query">>, "read"),
  Post(<<"update">>, AnyPerms, "edit"),
  Get(<<"page">>, AnyPerms, "page"),
  Post(<<"delete">>, AnyPerms, "remove"),
  Get(<<"info">>, AnyPerms, "one") >>

MenuBackRoutes == <<
  Get(<<"list">>, AnyPerms, "read"),
  Post(<<"add">>, AnyPerms, "tables"),
  Post(<<"update">>, AnyPerms, "tables"),
  Post(<<"delete">>, AnyPerms, "tables"),
  Get(<<"info">>, AnyPerms, "read") >>

TaskRoutes == <<
  Get(<<"page">>, AnyPerms, "page"),
  Post(<<"add">>, AnyPerms, "tables"),
  Post(<<"update">>, AnyPerms, "tables"),
  Get(<<"info">>, AnyPerms, "one"),
  Post(<<"once">>, AnyPerms, "tables"),
  Post(<<"stop">>, AnyPerms, "tables"),
  Post(<<"start">>, AnyPerms, "tables"),
  Post(<<"delete">>, AnyPerms, "remove") >>

AccountRoutes == <<
  Get(<<"info">>, PermissionOptional, "read"),
  Get(<<"getInfo">>, PermissionOptional, "read"),
  Post(<<"update">>, PermissionOptional, "tables"),
  Post(<<"password">>, PermissionOptional, "tables"),
  Post(<<"logout">>, PermissionOptional, "tables"),
  Get(<<"permmenu">>, PermissionOptional, "read"),
  Get(<<"getRouters">>, PermissionOptional, "read") >>

LoginRoutes == <<
  Get(<<"captchaImage">>, Authorize, "tables"),
  Post(<<"login">>, Authorize, "tables") >>

OnlineRoutes == <<
  Get(<<"list">>, AnyPerms, "read"),
  Post(<<"kick">>, AnyPerms, "tables") >>

LogRoutes == <<
  Get(<<"login", "page">>, AnyPerms, "read"),
  Get(<<"task", "page">>, AnyPerms, "read") >>

ServeRoutes == << Get(<<"stat">>, PermissionOptional, "read") >>
=============================================================================
