------------------------------- MODULE Accounts -------------------------------
(***************************************************************************)
(* Accounts and their sessions (internal/models/account.go, session.go,    *)
(* internal/api/sessions.go), with the daemon that removes expired         *)
(* sessions (internal/api/daemons.go).  Modules that extend this one give  *)
(* accounts their objects: users, groups, scopes and scope users.          *)
(***************************************************************************)
EXTENDS Naturals, FiniteSets, FiniteSetsExt

CONSTANTS MaxAccount, MaxSession     \* bounds on accounts and sessions

ASSUME AccountAssumption == {MaxAccount, MaxSession} \subseteq Nat

VARIABLES
    account,        \* the kind of an account, by ID; "gone" when it is deleted
    session,        \* rows: [id, account, expired]
    sessions,       \* sessions created so far
    cleanup         \* IDs of sessions the daemon is about to delete

accountVars == <<account, session, sessions, cleanup>>

AccountIds == 1..MaxAccount
HasAccount(i) == i \in AccountIds /\ account[i] \notin {"none", "gone"}

\* some users may exist already
AccountInit(users) ==
    /\ account = [i \in AccountIds |-> IF i <= users THEN "user" ELSE "none"] /\ session = {} /\ sessions = 0 /\ cleanup = {}

FreeIds == {i \in AccountIds : account[i] = "none"}
NewAccount == Min(FreeIds)
CreateAccount(kind) == FreeIds /= {} /\ account' = [account EXCEPT ![NewAccount] = kind]
DeleteAccount(i) == account' = [account EXCEPT ![i] = "gone"]

\* loginAccount: a foreign key refuses the session of an account that is gone
CreateSession(i) ==
    /\ HasAccount(i) /\ sessions < MaxSession /\ sessions' = sessions + 1
    /\ session' = session \cup {[id |-> sessions', account |-> i, expired |-> FALSE]}
SessionIds(i) == {s.id : s \in {t \in session : t.account = i}}
RemoveSession(id) == session' = {s \in session : s.id /= id}

SessionExpires(s) ==
    /\ s \in session /\ ~s.expired
    /\ session' = (session \ {s}) \cup {[s EXCEPT !.expired = TRUE]}
    /\ UNCHANGED <<account, sessions, cleanup>>
CleanupFindsLive == {s.id : s \in {t \in session : ~t.expired}}
CleanupFinds == {s.id : s \in {t \in session : t.expired}}
\* one run of the task; a row that is gone already is only logged
CleanupFind == cleanup = {} /\ cleanup' = CleanupFinds /\ UNCHANGED <<account, session, sessions>>
CleanupDelete ==
    \E id \in cleanup : cleanup' = cleanup \ {id} /\ RemoveSession(id) /\ UNCHANGED <<account, sessions>>
\* the query fails or the daemon stops: it starts again later
CleanupFails == cleanup /= {} /\ cleanup' = {} /\ UNCHANGED <<account, session, sessions>>
SessionCleanup == CleanupFind \/ CleanupDelete
AccountNext == SessionCleanup \/ CleanupFails \/ \E s \in session : SessionExpires(s)

\* An expired session is removed in the end, which alone ends its use: a request
\* with its cookie is not checked against the time (sessionCleanupDaemon,
\* sessionAuth).  The daemon runs as long as some server runs.
ExpiredSessionsGo ==
    \A i \in 1..MaxSession : (\E s \in session : s.id = i /\ s.expired) ~> (\A s \in session : s.id /= i)

================================================================================
