-------------------------------- MODULE Groups --------------------------------
(***************************************************************************)
(* Groups and their members (internal/api/groups.go), scopes and their     *)
(* users (internal/api/scopes.go).  Each of them, like a user, is an       *)
(* account with a row of its own table under the same ID.                  *)
(*                                                                         *)
(* A request reads, from caches that may lag, and writes later; titles and *)
(* passwords are not distinguished.                                        *)
(***************************************************************************)
EXTENDS Accounts

CONSTANTS
    GroupClients, ScopeLogins,
    MaxMember, MaxGroupRequest         \* bounds on members and requests

ASSUME GroupAssumption == {MaxMember, MaxGroupRequest} \subseteq Nat

VARIABLES
    object,              \* rows of groups, scopes and scope users, by ID
    member, members,     \* rows: [id, group, account, kind]; rows created so far
    groupClient, groupRequests

groupVars == <<object, member, members, groupClient, groupRequests>>

NoObject == [kind |-> "none", owner |-> 0, scope |-> 0, login |-> ""]
NoMember == [id |-> 0, group |-> 0, account |-> 0, kind |-> "none"]
NoGroupRequest == [pc |-> "idle", op |-> "none", id |-> 0, row |-> NoObject, member |-> NoMember, found |-> {}, left |-> {}]

GroupInit ==
    /\ object = [i \in AccountIds |-> NoObject] /\ member = {} /\ members = 0
    /\ groupClient = [c \in GroupClients |-> NoGroupRequest] /\ groupRequests = 0

ObjectIds(kinds) == {i \in AccountIds : object[i].kind \in kinds}
\* An account that something refers to: its rows of other tables are not these.
ReferencedBySessions(i) == \E s \in session : s.account = i
Referenced(i) ==
    \/ \E s \in session : s.account = i
    \/ \E m \in member : i \in {m.group, m.account}
    \/ \E j \in AccountIds : i \in {object[j].owner, object[j].scope}
Exists(i) == i = 0 \/ HasAccount(i)

--------------------------------------------------------------------------------
(* The first half of a request *)

GroupReads(c, op, i, row, m) ==
    /\ groupClient[c].pc = "idle" /\ groupRequests < MaxGroupRequest /\ groupRequests' = groupRequests + 1
    /\ groupClient' = [groupClient EXCEPT ![c] =
           [pc |-> "write", op |-> op, id |-> i, row |-> row, member |-> m, found |-> {}, left |-> {}]]
    /\ UNCHANGED <<accountVars, object, member, members>>
\* the owner is the account of the session
ReadCreateOwned(c, kind, owner) ==
    GroupReads(c, "create", 0, [kind |-> kind, owner |-> owner, scope |-> 0, login |-> ""], NoMember)
ReadCreateScopeUser(c, i, login) ==
    GroupReads(c, "create", 0, [kind |-> "scope user", owner |-> 0, scope |-> i, login |-> login], NoMember)
\* without a new owner, or with one that is a user
ReadUpdateOwned(c, i, owner) ==
    /\ owner = object[i].owner \/ account[owner] = "user"
    /\ GroupReads(c, "update", i, [object[i] EXCEPT !.owner = owner], NoMember)
ReadUpdateScopeUser(c, i, login) == GroupReads(c, "update", i, [object[i] EXCEPT !.login = login], NoMember)
ReadDeleteObject(c, i) == GroupReads(c, "delete", i, object[i], NoMember)
ReadCreateGroupMember(c, i, j, kind) ==
    /\ account[j] = "user"
    /\ GroupReads(c, "create member", i, object[i], [id |-> 0, group |-> i, account |-> j, kind |-> kind])
ReadUpdateGroupMember(c, m, kind) == GroupReads(c, "update member", m.group, object[m.group], [m EXCEPT !.kind = kind])
ReadDeleteGroupMember(c, m) == GroupReads(c, "delete member", m.group, object[m.group], m)
ReadScopeUserAuth(c, i) == GroupReads(c, "login", i, object[i], NoMember)
ReadLogoutScopeUser(c, i) == GroupReads(c, "logout", i, object[i], NoMember)

--------------------------------------------------------------------------------
(* The second half: the transaction, which foreign keys and unique indexes may refuse *)

GroupWrites(c, op) == groupClient[c].pc = "write" /\ groupClient[c].op = op /\ UNCHANGED <<cleanup, groupRequests>>
GroupEnds(c) == groupClient' = [groupClient EXCEPT ![c] = NoGroupRequest]
ObjectAllowed(i, row) ==
    /\ Exists(row.owner) /\ row.scope \in {0} \cup ObjectIds({"scope"})
    /\ row.kind = "scope user" =>
           \A j \in AccountIds \ {i} : object[j].scope /= row.scope \/ object[j].login /= row.login
CreateObject(c) ==
    LET q == groupClient[c] IN
    /\ GroupWrites(c, "create") /\ ObjectAllowed(0, q.row) /\ CreateAccount(q.row.kind)
    /\ object' = [object EXCEPT ![NewAccount] = q.row] /\ GroupEnds(c)
    /\ UNCHANGED <<session, sessions, member, members>>
UpdateObject(c) ==
    LET q == groupClient[c] IN
    /\ GroupWrites(c, "update") /\ object[q.id] /= NoObject /\ ObjectAllowed(q.id, q.row)
    /\ object' = [object EXCEPT ![q.id] = q.row] /\ GroupEnds(c)
    /\ UNCHANGED <<account, session, sessions, member, members>>
DeleteObject(c) ==
    LET i == groupClient[c].id IN
    /\ GroupWrites(c, "delete") /\ object[i] /= NoObject /\ ~Referenced(i)
    /\ object' = [object EXCEPT ![i] = NoObject] /\ DeleteAccount(i) /\ GroupEnds(c)
    /\ UNCHANGED <<session, sessions, member, members>>
MemberTwice(m) == object[m.group].kind = "group" /\ HasAccount(m.account)
MemberAllowed(m) ==
    /\ object[m.group].kind = "group" /\ HasAccount(m.account)
    /\ \A n \in member : n.group /= m.group \/ n.account /= m.account
CreateGroupMember(c) ==
    LET m == groupClient[c].member IN
    /\ GroupWrites(c, "create member") /\ members < MaxMember /\ members' = members + 1
    /\ MemberAllowed(m)
    /\ member' = member \cup {[m EXCEPT !.id = members']} /\ GroupEnds(c)
    /\ UNCHANGED <<account, session, sessions, object>>
StoredMember(m) == {n \in member : n.id = m.id}
UpdateGroupMember(c) ==
    LET m == groupClient[c].member IN
    /\ GroupWrites(c, "update member") /\ StoredMember(m) /= {}
    /\ member' = (member \ StoredMember(m)) \cup {m} /\ GroupEnds(c)
    /\ UNCHANGED <<account, session, sessions, object, members>>
DeleteGroupMember(c) ==
    LET m == groupClient[c].member IN
    /\ GroupWrites(c, "delete member") /\ StoredMember(m) /= {}
    /\ member' = member \ StoredMember(m) /\ GroupEnds(c)
    /\ UNCHANGED <<account, session, sessions, object, members>>
LoginScopeUser(c) ==
    /\ GroupWrites(c, "login") /\ CreateSession(groupClient[c].id) /\ GroupEnds(c)
    /\ UNCHANGED <<account, object, member, members>>

\* logoutScopeUser: the sessions the cache knows, the newest may be missing; then
\* one after the other; one that is gone already ends the request with an error
LogoutAt(c, found, left) ==
    groupClient' = [groupClient EXCEPT ![c] =
        [pc |-> "logout", op |-> "logout", id |-> @.id, row |-> @.row, member |-> @.member, found |-> found, left |-> left]]
FindSessions(c) ==
    \E upto \in 0..MaxSession :
        LET found == {id \in SessionIds(groupClient[c].id) : id <= upto} IN
        GroupWrites(c, "logout") /\ LogoutAt(c, found, found) /\ UNCHANGED <<account, session, sessions, object, member, members>>
LogoutSkips(c) ==
    \E id \in groupClient[c].left :
        /\ groupClient[c].pc = "logout" /\ session' \in {session, {s \in session : s.id /= id}}
        /\ LogoutAt(c, groupClient[c].found, groupClient[c].left \ {id})
        /\ UNCHANGED <<account, sessions, cleanup, object, member, members, groupRequests>>
LogoutDeletes(c) ==
    \E id \in groupClient[c].left :
        /\ groupClient[c].pc = "logout" /\ id \in SessionIds(groupClient[c].id) /\ RemoveSession(id)
        /\ LogoutAt(c, groupClient[c].found, groupClient[c].left \ {id})
        /\ UNCHANGED <<account, sessions, cleanup, object, member, members, groupRequests>>
LogoutScopeUser(c) ==
    /\ groupClient[c].pc = "logout" /\ groupClient[c].left = {} /\ GroupEnds(c)
    /\ UNCHANGED <<accountVars, object, member, members, groupRequests>>
\* refused, or the process ends
GroupRequestFails(c) ==
    /\ groupClient[c].pc /= "idle" /\ GroupEnds(c)
    /\ UNCHANGED <<accountVars, object, member, members, groupRequests>>

GroupRead(c) ==
    \/ \E kind \in {"group", "scope"}, owner \in AccountIds : HasAccount(owner) /\ ReadCreateOwned(c, kind, owner)
    \/ \E i \in ObjectIds({"group", "scope"}), owner \in AccountIds : ReadUpdateOwned(c, i, owner)
    \/ \E i \in ObjectIds({"scope"}), login \in ScopeLogins : ReadCreateScopeUser(c, i, login)
    \/ \E i \in ObjectIds({"scope user"}) :
        (\E login \in ScopeLogins : ReadUpdateScopeUser(c, i, login)) \/ ReadScopeUserAuth(c, i) \/ ReadLogoutScopeUser(c, i)
    \/ \E i \in ObjectIds({"group", "scope", "scope user"}) : ReadDeleteObject(c, i)
    \/ \E kind \in {"regular", "manager"} :
        \/ \E i \in ObjectIds({"group"}), j \in AccountIds : ReadCreateGroupMember(c, i, j, kind)
        \/ \E m \in member : ReadUpdateGroupMember(c, m, kind)
    \/ \E m \in member : ReadDeleteGroupMember(c, m)
GroupWrite(c) ==
    \/ CreateObject(c) \/ UpdateObject(c) \/ DeleteObject(c)
    \/ CreateGroupMember(c) \/ UpdateGroupMember(c) \/ DeleteGroupMember(c) \/ LoginScopeUser(c)
    \/ FindSessions(c) \/ LogoutDeletes(c) \/ LogoutScopeUser(c) \/ GroupRequestFails(c)
GroupNext == \E c \in GroupClients : GroupRead(c) \/ GroupWrite(c)

--------------------------------------------------------------------------------
(* Properties *)

\* No row refers to an account that is gone or of another kind, and every account
\* has its row, although a request may delete what another one has just read
\* (deleteGroup, deleteScope, deleteScopeUser, createGroupMember).
NoDanglingRows ==
    /\ \A i \in AccountIds : account[i] /= "user" => object[i].kind = (IF HasAccount(i) THEN account[i] ELSE "none")
    /\ \A i \in AccountIds : Exists(object[i].owner) /\ (object[i].scope /= 0 => account[object[i].scope] = "scope")
    /\ \A m \in member : account[m.group] = "group" /\ account[m.account] = "user"
    /\ \A s \in session : HasAccount(s.account)

\* An account is a member of a group once, so that its kind there is one, also
\* when two requests add it at the same time (createGroupMember).
OneMembership == \A m, n \in member : m.group = n.group /\ m.account = n.account => m = n

\* When a scope user is logged out with success, each session that was found has
\* ended, although others end sessions at the same time (logoutScopeUser).
LogoutEndsSessions ==
    [][\A c \in GroupClients : LogoutScopeUser(c) =>
          \A s \in session' : s.id \notin groupClient[c].found]_<<accountVars, groupVars>>

================================================================================
