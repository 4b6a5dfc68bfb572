------------------------------ MODULE Migrations ------------------------------
(***************************************************************************)
(* The migrations of the database (internal/db/migrations.go), the schema  *)
(* they create (internal/migrations/s001_initial.go) and the rows they     *)
(* insert (d001, d002, d003), driven by the commands "migrate" and         *)
(* "migrate-data".                                                         *)
(*                                                                         *)
(* A migration is one transaction: its operations and the row of the       *)
(* history commit together, or none of them does.  Columns are abstracted  *)
(* to the foreign keys and to the indexes they are in.                     *)
(***************************************************************************)
EXTENDS Naturals, Sequences, FiniteSets

CONSTANTS
    MaxMigrate,          \* bound on the commands that are run
    MaxMigrateFaults     \* bound on failed statements and crashes

ASSUME MigrateAssumption == MaxMigrate \in Nat /\ MaxMigrateFaults \in Nat

--------------------------------------------------------------------------------
(* Operations of a schema.  A table is its name and whether it holds events. *)

ObjectTable(name) == [name |-> name, event |-> FALSE]
EventTable(name) == [name |-> name, event |-> TRUE]
CreateTable(table, refs) == [kind |-> "table", table |-> table, refs |-> {ObjectTable(r) : r \in refs}, columns |-> <<>>]
CreateIndex(table, columns) == [kind |-> "index", table |-> table, refs |-> {}, columns |-> columns]

PlainTable(name, refs, indexes) ==
    <<CreateTable(ObjectTable(name), refs)>>
        \o [i \in DOMAIN indexes |-> CreateIndex(ObjectTable(name), indexes[i])]
\* a table with the log of its events, which is indexed by object
Stored(name, refs, indexes) ==
    PlainTable(name, refs, indexes)
        \o <<CreateTable(EventTable(name), {}), CreateIndex(EventTable(name), <<"id", "event_id">>)>>

CommonTables ==
    Stored("setting", {}, <<<<"key">>>>) \o Stored("task", {}, <<<<"status">>>>)
        \o PlainTable("lock", {}, <<<<"name">>>>) \o Stored("file", {}, <<<<"path">>>>)
RoleTables ==
    Stored("role", {}, <<<<"name">>>>)
        \o Stored("role_edge", {"role"}, <<<<"role_id", "child_id">>>>)
        \o Stored("account", {}, <<>>)
        \o Stored("account_role", {"account", "role"}, <<<<"account_id", "role_id">>>>)
UserTables ==
    Stored("session", {"account"}, <<<<"expire_time">>>>) \o Stored("token", {"account"}, <<>>)
        \o Stored("user", {"account"}, <<<<"lower login">>, <<"lower email">>>>)
GroupTables ==
    Stored("scope", {"account"}, <<>>)
        \o Stored("scope_user", {"account", "scope"}, <<<<"scope_id", "lower login">>>>)
        \o Stored("group", {"account"}, <<>>)
        \o Stored("group_member", {"group", "account"}, <<<<"group_id", "account_id">>, <<"account_id">>>>)
ProblemTables ==
    Stored("contest", {"account"}, <<>>)
        \o Stored("compiler", {"account", "file"}, <<<<"name">>>>)
        \o Stored("problem", {"account", "file"}, <<>>)
        \o Stored("problem_resource", {"problem", "file"}, <<>>)
SolutionTables ==
    Stored("solution", {"problem", "compiler", "account", "file"}, <<>>)
        \o Stored("contest_problem", {"contest", "problem"}, <<<<"contest_id", "problem_id">>, <<"contest_id", "code">>>>)
        \o Stored("contest_participant", {"contest", "account"}, <<<<"contest_id", "account_id", "kind">>>>)
ContestTables ==
    Stored("contest_solution", {"solution", "contest", "contest_participant", "contest_problem"}, <<>>)
        \o Stored("contest_message",
                  {"contest", "contest_participant", "account", "contest_message", "contest_problem"}, <<>>)
PostTables ==
    PlainTable("contest_fake_participant", {"contest"}, <<<<"contest_id", "external_id">>>>)
        \o PlainTable("contest_fake_solution", {"contest", "contest_fake_participant", "contest_problem"},
                 <<<<"contest_id", "external_id">>>>)
        \o Stored("post", {"account"}, <<<<"owner_id", "id">>>>)
        \o Stored("post_file", {"post", "file"}, <<<<"post_id", "name">>>>)
        \o PlainTable("visit", {}, <<>>)
InitialSchema ==
    CommonTables \o RoleTables \o UserTables \o GroupTables \o ProblemTables
        \o SolutionTables \o ContestTables \o PostTables

--------------------------------------------------------------------------------
(* Groups of migrations.  A data migration inserts the rows that are not   *)
(* there yet; its Unapply does nothing.                                    *)

MigrationGroups == {"solve", "solve_data"}
GroupMigrations(g) == IF g = "solve" THEN <<"s001">> ELSE <<"d001", "d002", "d003">>
Migrations == {"s001", "d001", "d002", "d003"}
InsertRows(table, rows) ==
    [kind |-> "rows", table |-> ObjectTable(table), refs |-> {}, columns |-> <<rows>>]
CreateRoles == <<InsertRows("role", "roles"), InsertRows("role_edge", "groups")>>
CreateRuLocalizations == <<InsertRows("setting", "localization.ru")>>
CreateRuWebLocalizations == <<InsertRows("setting", "localization.ru.web")>>
Operations(m) ==
    CASE m = "s001" -> InitialSchema
      [] m = "d001" -> CreateRoles
      [] m = "d002" -> CreateRuLocalizations
      [] m = "d003" -> CreateRuWebLocalizations

VARIABLES
    schema,        \* the operations in force, as committed: tables, indexes and inserted rows
    history,       \* migrations: the number of their rows in solve_db_migration
    command,       \* the command that runs, or NoCommand
    migrateRuns, migrateFaults

migrationVars == <<schema, history, command, migrateRuns, migrateFaults>>

NoCommand == [todo |-> <<>>, known |-> {}, applied |-> {}, back |-> FALSE, next |-> 0, tx |-> {}]

\* an empty database, or one that has all the migrations
MigrationInit ==
    /\ command = NoCommand
    /\ \E migrated \in {{}, Migrations} :
        /\ history = [m \in Migrations |-> IF m \in migrated THEN 1 ELSE 0]
        /\ schema = UNION {{Operations(m)[i] : i \in DOMAIN Operations(m)} : m \in migrated}
    /\ migrateRuns = 0 /\ migrateFaults = 0

(* What the database accepts: a foreign key and an index need their tables; *)
(* a table that others refer to is not dropped.                             *)
TableExists(table, s) == \E o \in s : o.kind = "table" /\ o.table = table
BuildApply(o, s) ==
    IF o.kind = "table" THEN \A r \in o.refs : r = o.table \/ TableExists(r, s)
                        ELSE TableExists(o.table, s)
BuildUnapply(o, s) ==
    o.kind = "table" => \A p \in s : o.table \in p.refs => p = o
\* DROP TABLE takes the indexes and the rows of the table along
WithoutOp(o, s) ==
    CASE o.kind = "table" -> {p \in s : p.table /= o.table}
      [] o.kind = "index" -> s \ {o}
      [] o.kind = "rows" -> s

\* the migrations the binary knows and those that are recorded, by name
GetState(g, known) ==
    LET all == GroupMigrations(g)
        places == {i \in DOMAIN all : all[i] \in known \/ history[all[i]] > 0}
    IN  {[i \in DOMAIN p |-> all[p[i]]] : p \in
            {q \in UNION {[1..n -> places] : n \in 0..Len(all)} :
                places = {q[i] : i \in DOMAIN q} /\ \A i, j \in DOMAIN q : i < j => q[i] < q[j]}}

\* manager.Apply: from the last applied migration, or the one of --from (here
\* its position), to the target; backwards when that is before
ApplyMigrations(g, known, from, target) ==
    \E state \in GetState(g, known) :
        LET applied == {i \in DOMAIN state : history[state[i]] > 0}
            last == IF applied = {} THEN 0 ELSE CHOOSE i \in applied : \A j \in applied : j <= i
            begin == IF from = 0 THEN last ELSE from - 1
        IN  /\ from <= Len(state) /\ target <= Len(state) /\ target /= begin
            /\ command' = [todo |-> IF target < begin THEN [i \in 1..(begin - target) |-> state[begin + 1 - i]]
                                    ELSE [i \in 1..(target - begin) |-> state[begin + i]],
                           known |-> known, applied |-> {state[i] : i \in applied},
                           back |-> target < begin, next |-> 1, tx |-> schema]

\* one of the commands, with its options; an older binary knows fewer migrations
Migrate ==
    /\ command = NoCommand /\ migrateRuns < MaxMigrate
    /\ \E g \in MigrationGroups : LET n == Len(GroupMigrations(g)) IN
        \E known \in 1..n, from \in 0..n, target \in 0..n :
            ApplyMigrations(g, {GroupMigrations(g)[i] : i \in 1..known}, from, target)
    /\ migrateRuns' = migrateRuns + 1
    /\ UNCHANGED <<schema, history, migrateFaults>>

CurrentMigration == Head(command.todo)
MayMigrateKnown == CurrentMigration \in command.known
\* the row that applyBackward looks for, and GetMigration of the group
MayMigrate == CurrentMigration \in command.known /\ (command.back => CurrentMigration \in command.applied)
StatementInOrder == Operations(CurrentMigration)[command.next]
Statement ==
    LET ops == Operations(CurrentMigration)
    IN  ops[IF command.back THEN Len(ops) + 1 - command.next ELSE command.next]
HasStatement == command /= NoCommand /\ command.next <= Len(Operations(CurrentMigration))
Accepted ==
    IF command.back THEN BuildUnapply(Statement, command.tx) ELSE BuildApply(Statement, command.tx)

CommandAt(todo, next, tx) ==
    command' = [todo |-> todo, known |-> command.known, applied |-> command.applied,
                back |-> command.back, next |-> next, tx |-> tx]
\* simpleMigration.Apply and Unapply: one statement of the transaction
ExecStatement ==
    /\ HasStatement /\ MayMigrate /\ Accepted
    /\ CommandAt(command.todo, command.next + 1,
                 IF command.back THEN WithoutOp(Statement, command.tx) ELSE command.tx \cup {Statement})
    /\ UNCHANGED <<schema, history, migrateRuns, migrateFaults>>

\* the command goes on with the next migration, in a new transaction, or ends
CommitMigration ==
    /\ command /= NoCommand /\ MayMigrate /\ ~HasStatement
    /\ schema' = command.tx
    /\ IF Len(command.todo) = 1 THEN command' = NoCommand ELSE CommandAt(Tail(command.todo), 1, command.tx)
    /\ UNCHANGED <<migrateRuns, migrateFaults>>

ApplyForwardAlways ==
    /\ ~command.back /\ CommitMigration
    /\ history' = [history EXCEPT ![CurrentMigration] = @ + 1]
\* a migration that is repeated keeps its row
ApplyForward ==
    /\ ~command.back /\ CommitMigration
    /\ history' = IF CurrentMigration \in command.applied THEN history
                  ELSE [history EXCEPT ![CurrentMigration] = @ + 1]
ApplyBackward ==
    /\ command.back /\ CommitMigration
    /\ history' = [history EXCEPT ![CurrentMigration] = @ - 1]

\* an unknown migration, one that is not applied or a refused statement ends the command
MigrationRefused ==
    /\ command /= NoCommand /\ (MayMigrate => HasStatement /\ ~Accepted)
    /\ command' = NoCommand
    /\ UNCHANGED <<schema, history, migrateRuns, migrateFaults>>

MigrationFaultCommits ==
    /\ command /= NoCommand /\ migrateFaults < MaxMigrateFaults
    /\ command' = NoCommand /\ migrateFaults' = migrateFaults + 1 /\ schema' = command.tx
    /\ UNCHANGED <<history, migrateRuns>>
\* the statement fails or the process dies: the transaction is rolled back
MigrationFault ==
    /\ command /= NoCommand /\ migrateFaults < MaxMigrateFaults
    /\ command' = NoCommand /\ migrateFaults' = migrateFaults + 1
    /\ UNCHANGED <<schema, history, migrateRuns>>
MigrationNext ==
    \/ Migrate \/ ExecStatement \/ ApplyForward \/ ApplyBackward \/ MigrationRefused \/ MigrationFault
MigrationSpec == MigrationInit /\ [][MigrationNext]_migrationVars

--------------------------------------------------------------------------------
(* Properties *)

\* The history never counts below zero, that is, only what was applied is reversed,
\* and a manager runs migrations of its group only (manager.Apply, applyBackward).
MigrationTypeOK ==
    /\ history \in [Migrations -> Nat] /\ command.back \in BOOLEAN
    /\ \A i \in DOMAIN command.todo : command.todo[i] \in Migrations
    /\ migrateRuns \in 0..MaxMigrate /\ migrateFaults \in 0..MaxMigrateFaults

Declared == {InitialSchema[i] : i \in DOMAIN InitialSchema}

\* The schema is the one the history says: every table and index of an applied
\* migration is there and nothing of one that is not, whatever statement failed
\* and however often migrations were repeated or reversed (applyForward and
\* applyBackward keep the schema and its row in one transaction).
SchemaMatchesHistory ==
    {o \in schema : o.kind /= "rows"} = IF history["s001"] > 0 THEN Declared ELSE {}

\* No migration is recorded twice, so that reversing it once takes its row away
\* (the check of mgr.Applied in applyForward).
RecordedOnce == \A m \in Migrations : history[m] <= 1

\* The database accepts every statement of the schema: no table refers to one
\* that is created later, and the reverse order drops no table that another
\* still refers to (the order of s001 and the loop of Unapply).
SchemaIsAccepted == HasStatement /\ CurrentMigration = "s001" => Accepted

\* History and schema in all (manager.Apply).
SchemaInv == MigrationTypeOK /\ SchemaMatchesHistory /\ RecordedOnce /\ SchemaIsAccepted

===============================================================================
