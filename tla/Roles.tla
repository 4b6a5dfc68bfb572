--------------------------------- MODULE Roles ---------------------------------
(***************************************************************************)
(* Roles (internal/api/roles.go) and the permissions of an account         *)
(* (internal/managers/account.go, internal/perms).                         *)
(*                                                                         *)
(* A request looks at the caches first and writes later; unique indexes    *)
(* and foreign keys of the database decide.  A role stands for its name.   *)
(* There is one user, whose status may change at any time.  Rows of        *)
(* account_roles are edges from the user.                                  *)
(***************************************************************************)
EXTENDS Naturals, FiniteSets

CONSTANTS
    RoleNames,        \* names that roles may have
    BuiltInRoles,     \* those that are permissions
    StatusRole,       \* status of the user: the name of its role
    TheUser,          \* the user
    RoleClients,      \* requests that change roles
    MaxRoleOps        \* bound on these requests

ASSUME RoleAssumption ==
    /\ BuiltInRoles \subseteq RoleNames /\ \A s \in DOMAIN StatusRole : StatusRole[s] \in RoleNames
    /\ "blocked" \in DOMAIN StatusRole /\ TheUser \notin RoleNames /\ MaxRoleOps \in Nat

VARIABLES
    role,             \* roles that exist
    roleEdge,         \* rows of role_edges and account_roles: [id, from, child]
    userStatus,       \* status of the user
    roleClient,       \* requests
    walk,             \* the computation of a context
    roleOps

roleVars == <<role, roleEdge, userStatus, roleClient, walk, roleOps>>

Edge(id, from, child) == [id |-> id, from |-> from, child |-> child]
NoRoleRequest == [pc |-> "idle", op |-> "none", edge |-> Edge(0, "", "")]
NoWalk == [pc |-> "idle", status |-> "", frontier |-> {}, visited |-> {}, permissions |-> {}, changed |-> FALSE]

RoleInit ==
    /\ role = RoleNames
    /\ \E e \in SUBSET (RoleNames \X RoleNames) : roleEdge = {Edge(0, p[1], p[2]) : p \in e}
    /\ userStatus \in DOMAIN StatusRole
    /\ roleClient = [c \in RoleClients |-> NoRoleRequest] /\ walk = NoWalk /\ roleOps = 0

--------------------------------------------------------------------------------
(* Requests: the checks, then the write *)

\* what a walk in progress has read may be old now
RolesChange == walk' = [walk EXCEPT !.changed = @ \/ walk.pc = "level"]
RoleClientAt(c, v) == roleClient' = [roleClient EXCEPT ![c] = v]
FindEdge(from, child) == {e \in roleEdge : e.from = from /\ e.child = child}
FindRole(c, op, edge) ==
    /\ roleClient[c].pc = "idle" /\ roleOps < MaxRoleOps /\ roleOps' = roleOps + 1
    /\ RoleClientAt(c, [pc |-> "write", op |-> op, edge |-> edge])
    /\ UNCHANGED <<role, roleEdge, userStatus, walk>>
FindCreateRole(c, r) == r \notin role /\ FindRole(c, "create role", Edge(0, "", r))
FindDeleteRole(c, r) == r \in role \ BuiltInRoles /\ FindRole(c, "delete role", Edge(0, "", r))
\* extractRole, extractChildRole or extractUser, and findRoleEdge or findAccountRole
FindCreateEdge(c, from, child) ==
    /\ {from, child} \subseteq role \cup {TheUser} /\ FindEdge(from, child) = {}
    /\ FindRole(c, "create edge", Edge(roleOps + 1, from, child))
FindDeleteEdge(c, from, child) == \E e \in FindEdge(from, child) : FindRole(c, "delete edge", e)

WriteRole(c, op, ok) ==
    /\ roleClient[c].pc = "write" /\ roleClient[c].op = op /\ ok
    /\ RoleClientAt(c, NoRoleRequest) /\ RolesChange /\ UNCHANGED <<userStatus, roleOps>>
CreateRole(c) ==
    LET r == roleClient[c].edge.child IN
    WriteRole(c, "create role", r \notin role) /\ role' = role \cup {r} /\ UNCHANGED roleEdge
\* edges keep their roles
DeleteRole(c) ==
    LET r == roleClient[c].edge.child IN
    /\ WriteRole(c, "delete role", r \in role /\ \A e \in roleEdge : r \notin {e.from, e.child})
    /\ role' = role \ {r} /\ UNCHANGED roleEdge
HasRoles(e) == {e.from, e.child} \subseteq role \cup {TheUser}
EdgeAllowedTwice(e) == HasRoles(e)
\* the foreign keys and the unique index of an edge
EdgeAllowed(e) == HasRoles(e) /\ FindEdge(e.from, e.child) = {}
CreateEdge(c, e) == WriteRole(c, "create edge", EdgeAllowed(e)) /\ roleEdge' = roleEdge \cup {e} /\ UNCHANGED role
DeleteEdge(c, e) == WriteRole(c, "delete edge", e \in roleEdge) /\ roleEdge' = roleEdge \ {e} /\ UNCHANGED role
CreateRoleRole(c) == LET e == roleClient[c].edge IN e.from /= TheUser /\ CreateEdge(c, e)
DeleteRoleRole(c) == LET e == roleClient[c].edge IN e.from /= TheUser /\ DeleteEdge(c, e)
CreateUserRole(c) == LET e == roleClient[c].edge IN e.from = TheUser /\ CreateEdge(c, e)
DeleteUserRole(c) == LET e == roleClient[c].edge IN e.from = TheUser /\ DeleteEdge(c, e)
\* the database refuses
RoleRefused(c) ==
    LET q == roleClient[c] IN
    /\ q.pc = "write"
    /\ CASE q.op = "create role" -> q.edge.child \in role
         [] q.op = "delete role" -> ~(q.edge.child \in role /\ \A e \in roleEdge : q.edge.child \notin {e.from, e.child})
         [] q.op = "create edge" -> ~EdgeAllowed(q.edge)
         [] q.op = "delete edge" -> q.edge \notin roleEdge
    /\ RoleClientAt(c, NoRoleRequest) /\ UNCHANGED <<role, roleEdge, userStatus, walk, roleOps>>
ChangeStatus(s) ==
    /\ roleOps < MaxRoleOps /\ roleOps' = roleOps + 1 /\ s /= userStatus /\ userStatus' = s
    /\ UNCHANGED <<role, roleEdge, roleClient, walk>>

--------------------------------------------------------------------------------
(* MakeContext of the user: the role of its status, its own roles unless it *)
(* is blocked, and everything below, one level of edges after another.      *)

AccountRolesAlways(status) == {StatusRole[status]} \cup {e.child : e \in {f \in roleEdge : f.from = TheUser}}
AccountRoles(status) ==
    {StatusRole[status]} \cup
        (IF status = "blocked" THEN {} ELSE {e.child : e \in {f \in roleEdge : f.from = TheUser}})
MakeContext ==
    LET roles == AccountRoles(userStatus) IN
    /\ walk.pc \in {"idle", "done", "failed"}
    /\ walk' = [pc |-> IF StatusRole[userStatus] \in role THEN "level" ELSE "failed", status |-> userStatus,
                frontier |-> roles, visited |-> roles, permissions |-> {}, changed |-> FALSE]
    /\ UNCHANGED <<role, roleEdge, userStatus, roleClient, roleOps>>
NextLevelAgain(frontier, visited) == {e.child : e \in {f \in roleEdge : f.from \in frontier}}
NextLevel(frontier, visited) == {e.child : e \in {f \in roleEdge : f.from \in frontier}} \ visited
\* one turn of the loop of getRecursivePermissions
GetRecursivePermissions ==
    LET next == NextLevel(walk.frontier, walk.visited) IN
    /\ walk.pc = "level"
    /\ walk' = IF walk.frontier \subseteq role
               THEN [pc |-> IF next = {} THEN "done" ELSE "level", status |-> walk.status,
                     frontier |-> next, visited |-> walk.visited \cup next,
                     permissions |-> walk.permissions \cup (walk.frontier \cap BuiltInRoles), changed |-> walk.changed]
               ELSE [walk EXCEPT !.pc = "failed", !.permissions = {}]
    /\ UNCHANGED <<role, roleEdge, userStatus, roleClient, roleOps>>

RoleWrite(c) ==
    \/ CreateRole(c) \/ DeleteRole(c) \/ CreateRoleRole(c) \/ DeleteRoleRole(c)
    \/ CreateUserRole(c) \/ DeleteUserRole(c) \/ RoleRefused(c)
RoleNext ==
    \/ \E c \in RoleClients :
        \/ \E r \in RoleNames : FindCreateRole(c, r) \/ FindDeleteRole(c, r)
        \/ \E from \in RoleNames \cup {TheUser}, child \in RoleNames :
                FindCreateEdge(c, from, child) \/ FindDeleteEdge(c, from, child)
        \/ RoleWrite(c)
    \/ \E s \in DOMAIN StatusRole : ChangeStatus(s)
    \/ MakeContext \/ GetRecursivePermissions
RoleSpec == RoleInit /\ [][RoleNext]_roleVars

--------------------------------------------------------------------------------
(* Properties *)

\* Roles reachable from some roles by the edges there are now, found without
\* levels: the smallest closed set.
Closure(roles) ==
    LET Closed(s) == \A e \in roleEdge : e.from \in s => e.child \in s
    IN  {r \in RoleNames : \A s \in SUBSET RoleNames : roles \subseteq s /\ Closed(s) => r \in s}

PermissionsExact ==
    walk.pc = "level" /\ walk'.pc /= "level" /\ ~walk.changed =>
        LET own == {e.child : e \in {f \in roleEdge : f.from = TheUser /\ walk.status /= "blocked"}}
        IN  walk'.pc = "done" /\ walk'.permissions = BuiltInRoles \cap Closure(own \cup {StatusRole[walk.status]})

\* Making a context ends, also when edges are added while the graph is walked
\* (the roles that getRecursivePermissions has seen are never visited again).
WalkEnds == walk.pc = "level" ~> walk.pc /= "level"

RevokedRoleIsGone ==
    \A e \in roleEdge : e \notin roleEdge' => \A f \in roleEdge' : <<f.from, f.child>> /= <<e.from, e.child>>

\* A context that is made while roles do not change has exactly the permissions
\* that the roles of the user reach, for every graph of roles, cycles included; a
\* blocked user has those of its status alone, whatever roles it was given
\* (MakeContext, getRecursivePermissions).  Once a role is taken from the user, or
\* from another role, no edge to it is left, although two requests may have granted
\* it at the same time (deleteUserRole and deleteRoleRole delete the one row they
\* have found).
RolesExact == [][PermissionsExact /\ RevokedRoleIsGone]_roleVars

================================================================================
