---- MODULE MCRequests ----
(* TLC instance of the requests that only write: one part of the system moves in a behaviour. *)
EXTENDS FileRequests, Users, Migrations
\* the part of the system that moves in a behaviour
VARIABLE part
MCContent == [A |-> [st |-> "1", rs |-> "1"], B |-> [rs |-> "2"]]
vars == <<fileVars, packageVars, postVars, accountVars, userVars, migrationVars, part>>
MCInit ==
    /\ FileInit /\ PackageInit /\ PostInit /\ AccountInit(0) /\ UserInit /\ MigrationInit
    /\ part \in {"packages", "package reader", "posts", "post reader", "users", "migrations"}
    /\ part /= "users" => smtp
    /\ part /= "migrations" => schema = {}
MCNext ==
    /\ UNCHANGED part
    /\ \/ part \in {"packages", "package reader"} /\ PackageNext /\ UNCHANGED <<postVars, accountVars, userVars, migrationVars>>
       \/ part \in {"posts", "post reader"} /\ PostNext /\ UNCHANGED <<packageVars, accountVars, userVars, migrationVars>>
       \/ part \in {"package reader", "post reader"} /\ FileNext /\ UNCHANGED <<packageVars, postVars, accountVars, userVars, migrationVars>>
       \/ part = "migrations" /\ MigrationNext /\ UNCHANGED <<fileVars, packageVars, postVars, accountVars, userVars>>
       \/ part = "users" /\ UsersNext /\ UNCHANGED <<fileVars, packageVars, postVars, migrationVars>>
    /\ part \in {"packages", "posts"} => reader' = reader
    /\ part \in {"package reader", "post reader"} => requests' + postRequests' <= 1
MCSpec == MCInit /\ [][MCNext]_vars
\* authors, posters and clients are the same set
Sym == Permutations(Authors) \cup Permutations(Builders) \cup Permutations(Logins)
====
