# Formal models of Solve

Solve (`src/`) is a contest and judging system in Go: servers answer an HTTP
API from in-memory caches of the database's tables, and invokers take tasks from
a queue in the database, run them in a sandbox and write the results back.
Several processes share one database and nothing else. This directory holds TLA+
models of its concurrent core and of the requests, managers, tasks and daemons
built on it, TLC runs on small instances, and TLAPS proofs for every instance of
the event log's consumer, the leased locks, the task queue, the resource cache,
the cached store, users with their tokens, and files with all that refers to them.

Run `tlc -config X.cfg M` for a run of `PROJECT.json`, `tlapm MProofs.tla` for
the proofs.

## 1. Inventory

| component | state | operations | why it is hard |
|---|---|---|---|
| event log consumer (`internal/db/event_consumer.go`, `event_store.go`) | sorted ranges of event IDs not seen yet | `ConsumeEvents`, `LoadEvents`, `CreateEvent` | IDs are taken before commits, commits come in any order, rollbacks leave holes, callbacks fail halfway |
| cached stores (`internal/models/cached_store.go`, `btree_index.go`, `base.go`) | map of objects, indexes, `syncTime`, consumer | `Init`, `Sync`, `TrySync`, `Get`, `Create`/`Update`/`Delete` | two processes write and read, `Init` reads events and objects at different times, a reader must see its own writes |
| store loops (`internal/core/stores.go`) | one goroutine per store | `Init` once, `Sync` on a ticker | failing syncs, abort of the core |
| locks and unique daemons (`internal/models/lock.go`, `internal/core/core.go`) | rows with a token and an expiry; guards | `Acquire*`, `Ping`, `Release`, `StartUniqueDaemon` | leases, lost answers, late updates, crashes |
| resource cache (`internal/pkg/cache/cache.go`, `problems/cache`, `compilers/cache`) | maps of resources and futures, reference counters | `Load`, `LoadSync`, `Get`, `Delete`, `Release` | races of the last release with loads, cancellation, failing and panicking loads |
| task queue (`internal/models/task.go`) | rows with status, state, expiry | `PopQueued`, `Update` | two workers popping, order of the queue |
| invoker workers (`internal/invoker/tasks.go`, `invoker.go`) | guard, pinger, contexts | `runDaemonTick`, `Ping`, `SetStatus`, `SetDeferredState`, `Close` | a worker and its pinger share a guard; leases; shutdown and crashes |
| judging of solutions (`invoker/judge_solution.go`, `testlib.go`) | the report that grows: verdict, points, tests | compile, run tests of every set, points of groups, write the report | every step may fail; rules of groups meet runs that end early |
| problem packages (`invoker/update_problem_package.go`, `api/problems.go`) | problem row, resources, compiled package, tasks | requests that create, update, rebuild, delete; the task | requests and tasks write whole rows they read earlier; files are uploaded before the transaction |
| file manager (`managers/file.go`, `api/files.go`) | pending and available rows, storage | upload, confirm, wait, download | two stores, expiry, polling with a timer |
| posts and compilers (`api/posts.go`, `api/compilers.go`) | rows with files and images | create, update, delete, content | several rows and several uploads per request |
| contest manager (`managers/contest.go`) | permissions and stage of a participant | `BuildContext` | time boundaries, virtual participation, rows of groups |
| contest requests (`api/contests.go`, `contest_messages.go`) | problems, participants, solutions, messages of a contest | change, register, submit, ask, answer, rejudge | what a request was permitted may have changed when it writes |
| standings (`managers/contest_standings.go`) | rows and cells; a cache of built boards | `BuildStandings` | freezing, penalties, ties, fake participants; one build for many viewers |
| accounts, sessions (`models/account.go`, `api/sessions.go`) | accounts of four kinds, sessions | create, delete, login, logout, expiry | one ID in two tables |
| users and tokens (`api/users.go`, `api/tokens.go`) | users, tokens | register, change, mail and consume a token | limits counted before the write, stale rows |
| groups and scopes (`api/groups.go`, `api/scopes.go`) | groups, members, scope users | create, change, delete, logout | what one request reads another deletes |
| roles (`managers/account.go`, `api/roles.go`, `perms`) | roles, edges, roles of accounts | handlers, `MakeContext` | cycles, a walk while edges change |
| migrations and their scripts (`db/migrations.go`, `migrations/`) | history, schema, rows | apply, reverse, `--from` and target | order, partial failure, crash between statements |
| lists with pages (`api/accounts.go`, `posts.go`, `solutions.go`, `contests.go`) | the position of the next page | observe | rows come and go between two pages |
| core (`core/core.go`) | contexts, waiter | `Start`, `Stop`, `StartTask` | order of shutdown |
| visits and cleanup daemons (`api/daemons.go`) | channel of visits | write, drain, clean up | bounded channel, shutdown, failed deletion |
| settings and locales, CCS feed (`api/`) | rows | one row per request; a feed | not modelled, but for one setting of contests |
| sandbox, archives, clients, configuration | – | – | operating system and pure I/O: not modelled |

Components interact in three ways. Stores of different processes meet in the
database: tables, event tables, lock rows, task rows. Inside a process, goroutines
share a store (read-write mutex, consumer mutex), a guard (mutex) or a
`cache.Manager` (mutex and atomic counters). Shutdown travels through contexts:
`Core.Stop` cancels `taskContext`, whose children are the workers, the pingers
and the unique daemons.

`PROJECT.json` lists the hazards met while reading, each with its line and the
properties aimed at it.

## 2. Modules

```
EventFeed  <--refines-- EventConsumer --proofs--> EventConsumerProofs
    ^ contract used by
CachedStore   --proofs--> CachedStoreProofs
UniqueDaemon  --proofs--> UniqueDaemonProofs
ResourceCache --proofs--> ResourceCacheProofs
TaskQueue     --proofs--> TaskQueueProofs
FileManager <-- ProblemPackages, Posts          ("<--": is extended by)
FileRequests = ProblemPackages, Posts --proofs--> FileRequestsProofs
Accounts <-- Users, Groups
ContestManager <-- Contests, Standings
Contests --proofs--> ContestsProofs
Services = Groups, Standings (cache), Visits
Users, Services, Roles, Paging, Migrations --proofs--> ServerProofs
Judging
MC<module>: instances for TLC
MCRequests  = FileRequests, Users, Migrations
MCContests  = Contests, Standings
MCServices  = Services, Roles, Judging, Paging
```

Definitions keep the names of the code where they can; `map` in `PROJECT.json`
gives the lines of each. An operator introduced by "Mutant", or named after another one just before it, is a plausible
bug of the definition that follows and is used by no specification: each is substituted in turn to
show that a property notices. A property that is a conjunction of named parts has a mutant for each of them.

### EventConsumer and EventFeed

`EventFeed` is what the rest of the system may rely on: events become visible in
any order, each is handed over at most once, or given up on for good.
`EventConsumer` is the code: `ranges` is the list of half open ranges (end 0: no
limit), `batch` the rows of the running `ConsumeEvents` that are not read yet,
`it` its cursor. `LoadEvents` takes a snapshot, `ConsumeEvent` splits the range
under the cursor, `CallbackError` leaves in the middle, `CompactStep`
is one round of `removeEmptyRanges`, `SkipGaps` the gap window. Writers
take IDs, commit and roll back at any moment. `Init` is any table a process may
find when it starts (`initEvents` of the cached store: a window before the last
event).

### CachedStore

One store, one table with its event table, writers (`WriteObject`,
`CreateEvent`, `Commit`, `Rollback`: row locks are held to the end of a
transaction), the store loop and requests. A row is a version and an indexed key.
`InitEvents` and `InitObjects` are two steps because the transaction is read
committed. Readers take `WithSync`, decide by `syncTime` in `TrySync` and then
`Get`. The consumer is taken by its contract `EventFeed`, with its mutex
(`holder`). A restart is a new `InitEvents` over whatever the tables hold.

### UniqueDaemon

Nodes that run `StartUniqueDaemon` for one lock. Every update of the row is sent,
executed and answered in separate steps: the answer may be lost, and a request
the caller has given up on may still be executed (`late`). `guard` is
`LockGuard.lock`, `op`/`st`/`want` the update in progress. `Cancel` is any end
of the context, `TaskReturns` the end of `task(ctx)`, and the release comes after
both it and the pinger. A crash forgets everything but the row. Tokens are
random 63 bit numbers in the code and never repeat in the model; nodes share one
clock, which the code assumes as well (`time.Now().Unix()` on both sides).

### ResourceCache

`cache` and `futures` are the two maps, `counter` the atomic reference
counter of each resource ever created, `loader` the goroutine that loads it.
`LoadFast` is the section under the read lock and `LoadSlow` the one under the
write lock, which looks again. `Wake`/`CancelWait` are the two ways out of the
wait; `Release` and `Free` are separate since the decrement and
`Storage.Release` are. `LoadPanic` closes the future without `updateCache`, as the
deferred function does.

### TaskQueue

Rows with status and reported stage; workers grouped in invoker processes. A
pop takes `popTaskMutex` and, except on SQLite, the table lock, reads, writes and
commits. Afterwards a worker and its pinger share `guard`; `call` is the
update in flight, and the guard's mutex is held while there is one. Updates write
the row whole, by its ID, and the guard takes the new task over only when the update
returned without error. `PingTick` models the three outcomes of a tick, among
them `t.Close()` called by the pinger itself. `Stop` cancels every context of a
process, `Crash` loses its memory and rolls its transactions back. What a task
computes is reduced to the stages it reports and its result. `dialect`
is the configured database: `task_queue` starts on Postgres with two invokers, or on
SQLite, which has no table lock, with one.

### How requests are modelled

A handler reads first: the rows of its `extract*` middlewares, its form, its
permissions, all from caches. It writes later, in one transaction that unique
indexes and foreign keys may still refuse. Each request is therefore two steps
(`Read...`/`Begin...`/`Request`, then a step named after the handler) with what was
read kept in between, so that any number of other requests, tasks and daemons may
come between them. Rows are written whole, as `Update` of a store does. A request
may fail instead of writing (`...Fails`): its transaction is then rolled back,
uploaded files stay pending. Requests that a form or a permission refuses change
nothing and are not steps.

### FileManager, ProblemPackages, Posts

A file is a pending row, then its content, then the confirmation in
the transaction that refers to it; `FileExpires` makes a pending file unusable.
Readers (`ObserveFileContent`, `WaitFile*`, `DownloadFile`) wait for pending files
with the timer of the code. `ProblemPackages` is one problem with its resources:
requests upload a package and create a task, `StartBuild` reads the rows,
`Events` compares them with the package, `BuildUpload*` upload one resource after the
other and `CommitBuild` writes resources, problem and files at once. `Posts` is a post with
files and a compiler with its image. `FileRequests` lets all of them and the readers run
together: they share the rows of files.

### Accounts, Users, Groups, Roles

`Accounts` has the table of accounts, sessions and the cleanup daemon. `Users` adds
users and tokens: mails are sent after the token is committed and confirmed by
`ConsumeToken`, which writes the user and deletes the token in one transaction. `Groups`
adds groups, members, scopes and scope users. `Roles` is a graph of roles with one
user; `GetRecursivePermissions` visits one level of the graph per step while
handlers change the edges.

### ContestManager, Contests, Standings

`ContestManager` has no state: it is `BuildContext` with the stages and permissions,
as operators, which both other modules use. The list of participants that the code builds is a set of candidates
with their positions; who comes first is asked where the code asks it (`Comes`, `FirstOf`). Permissions begin with those that
the account has from its roles (`AccountPermissions`). `Contests` has the rows of one contest, the setting
`contests.disable_upsolving` and the clock; `SyncSolutions` are the store loops that bring new solutions to the caches the
quota is looked at in (`cached`), and each solution keeps, as history, what was `cached` when the quota let it through (`seen`). `SaveParticipant` is the transaction that makes a registration, or a participant that
exists only through a group, a row. `Standings` computes the board as the code does, a fold over the attempts
of each cell, and is checked against declarative definitions (`CellsFollowRules`,
`PlaceIsRank`); its second half is the cache of boards with builders and waiters.

### Judging, Migrations, Paging, Visits

`Judging` is one task from compilation to the report, with each outcome of the
sandbox and of testlib. `Migrations` has the whole schema of `s001_initial.go`, table by
table and index by index, executes it statement by statement in the transaction of
the migration, and the data migrations as the rows they insert. `Paging` is a client that follows
`next_begin_id` while rows change. `Visits` is the channel and its daemon.

## 3. Runs

| run | shows |
|---|---|
| `event_consumer` | through splits, failed callbacks and compactions the ranges stay sorted and disjoint, each row of a batch is found by the cursor (no "invalid event ID"), a gap is skipped only after a full window, and the consumer refines `EventFeed`; a committed event is delivered or given up on, however late it commits |
| `cached_store` | the event log replays to the table for every order of commits; a cache that has seen all events equals the table; its index has exactly its objects; `Get` under `WithSync` sees all that was committed before, whichever goroutine did the sync it relied on; every write reaches the cache although syncs fail |
| `unique_daemon` | never two live holders; locks are not stolen; released after the task only; a lock abandoned by a crash or a lost answer comes back |
| `resource_cache` | counters are exact; no use after release, no double release, no leak, one load per key; whoever waits for a load is woken, also by a failure or panic |
| `task_queue` | no task has two workers, on Postgres by the table lock and on SQLite by the mutex of the process; final statuses and stages are not overwritten by a racing ping, unless an answer of the database was lost; the lease is kept while the database answers |
| `task_queue_live` | supported tasks are finished although unsupported ones are ahead of them; `Stop` ends |
| `requests` | `FilesAvailable`: rows refer to available files only and readers get whole content; `BuildIsWhole`: a build sets exactly the resources of its package, together with the compiled package; `PostKeepsItsFiles`: a post changes with its files as one; `ActiveEmailIsConfirmed`; `UsersInv`: tokens are used once, their number is bounded while they expire in the order of their IDs, logins are unique; `SchemaInv`: schema and history agree after every partial migration, forwards and backwards |
| `contests` | `SubmitIsUsable`: who is shown that he may submit has a participant to do it with; `ContestInv`: rows of a contest stay consistent, askers see their answers, a judged solution has a report, the quota is exceeded only by requests let through before an earlier solution was in the caches; `StartedKeepsTime`: a participant that has started keeps its time; `FreezeHides`: scores on a frozen board depend on nothing that is hidden; `BoardFollowsRules`: cells and places follow the rules |
| `services` | `ServicesInv`: no row refers to an account that is gone, one membership per group, one build per board, visits in order; `LogoutEndsSessions`; `RolesExact`: permissions are those reachable in the graph, cycles included, and a revoked role is gone; `ReportIsExact`: verdicts and points agree with the tests; `PagesComplete`; `EveryoneIsServed`: cleanup, the walk over roles, waiting viewers, lists and visits all come to their end |
| `resource_cache_panic`, `task_queue_stuck`, `task_queue_crash` | violated: see below |

The last three passing runs hold several small systems that share no state. A variable `part` says
which of them moves in a behaviour; it never changes, so the run is the union of the parts and
not their product. The parts also choose instances: few attempts with many configurations, or the
reverse.

### Where the code and its comments disagree

* `resource_cache_panic`: after a panic in `storage.Load` the finished future stays
  in `m.futures` and answers every later `Load` of the key with the old error.
* `task_queue_stuck`: a pinger that finds its lease expired calls `t.Close()`, which
  waits for the pinger itself; the worker hangs in its own `Close` and pops no
  more tasks.
* `task_queue_crash`: nothing looks at the expiry of a running task, so a task whose
  invoker died stays running. `AbandonedIsTaken` says that it does not, where no call fails; the counterexample is a
  behaviour in which the invoker comes back and its worker pops for ever and finds nothing.

### What the code does not promise

These were met while stating properties. They contradict no comment or test, so
they are exceptions of a property, or notes of a hazard, rather than findings.

* Task queue: when the final `SetStatus` is committed but reported as
  failed, a ping that follows puts `running` back (`FinalStatusStays` excepts this).
* Rows are written whole as they were read: a change of a problem's title may write
  back the compiled package of before a build, a change of a name the status of a user who was
  blocked in the meantime.
* Limits are counted before the write: `TokensBounded` (a part of `UsersInv`) allows one more
  for each other request that had counted before. `GetCountTokens` looks at as many of the newest IDs as the limit. The expiry is computed when
  a request begins and the ID is taken when it writes, so a token may expire before one with a lower ID; it then hides that
  one from the count, and the limit does not hold (`outrun` marks such accounts and kinds).
* The quota of solutions is looked at in caches that lag by up to a second, so requests of one user may pass it one after
  the other. `QuotaRespected` (a part of `ContestInv`) says that nothing else exceeds it: among more solutions than the quota within one
  window, one was let through without an earlier one being known. A quota of 0 lets one solution through.
* While `contests.disable_upsolving` is set, an account that could only upsolve is shown that it may submit, and its
  submission is answered with "Participant not found."; so is that of an account that has the permission from its roles
  alone (`SubmitIsUsable` excepts both).
* A solution judged again while it is being judged has the report of whichever task
  writes last (`JudgedHasReport`, a part of `ContestInv`, says only that it has one).
* A server that is stopped writes one of the queued visits and loses the others.
* `waitFileAvailable` creates its timer once: a file still pending at the second look is
  waited for until the request ends.
* The answer to a request for a pending file with an empty `If-None-Match` is 304, since its MD5 is empty.
* A migration with `--from` beyond the last one applied leaves out those in between.
* The cache of standings does not distinguish viewers who may see full standings from
  others with the same key.

### Bounds

* EventConsumer: 6 event IDs, a gap window of 2 ranges (5000 in the code) and an
  initial window of 3 (25000). Three holes in a row of six events exceed the
  window of two; the windows differ as in the code.
* CachedStore: 2 objects, 2 keys, 2 writers, 3 events: an object is created,
  updated and deleted, two transactions commit against the order of
  their IDs, and `Init` overlaps both. The part "reads" has a reader and
  the loop, 2 writers of one object and a clock of 2 values: a sync of the loop can
  begin before and end after the reader's `WithSync`, in the same second.
* UniqueDaemon: 2 nodes, 3 tokens, one fault, a lease of 2 within 5 seconds: a lock
  is taken, expires and is taken by the other with a late update still
  pending. The safety properties are proved without these bounds.
  `LockComesBack` excepts behaviours that use up the tokens or the time of the instance.
* ResourceCache: 3 clients, one key, 3 loads: a key deleted during its load can be
  loaded twice more. Keys share nothing but the mutex of the manager.
* TaskQueue: 2 workers, 2 tasks, a lease of 2 seconds with pings from half of it
  (20 seconds, with a tick every second, in the code), one mishap (a failed or
  slow call, a lost answer or a crash). A limit of 1 or 2 rows stands for the 10 of `PopQueued`; the live
  run has 3 tasks of which one is unsupported.
* `requests`: 2 requests at a time and 3 in all (4 of users), 2 workers, 2 packages that have
  different contents of one key, a file, and one of them a text besides, 6 files, 3 builds: a build is overtaken by one of a newer
  package, or uploads a file that expires. One fault each. 2 users of 2 logins and emails with a token limit of 1:
  the limit is reached, and two registrations compete. 3 commands for 4 migrations, on an empty
  database (apply, apply again after a fault, go back) or on one that has them all (go back, apply again). A reader runs against one request at a time. Requests of one kind and logins are symmetric.
* `contests`: in "contexts" all participants of at most 3 rows of an account and its group, for 48 configurations,
  at times 1 to 5: before, at the beginning of, during, at the end of and after a contest of
  duration 2, with upsolving disabled or not and switched at any time; one account has the permission to submit from its roles. In the other parts,
  2 requests at a time and 3 in all, on one contest that may be moved. With a quota of 1 in a window of 1, and 3 values of the clock,
  2 solutions come in one window by a race or a cache that lags, and others a window apart; caches lag in this part only. The boards have
  up to 3 participants of different kinds, 3 attempts (2 with fake participants) and 3 kinds of reports: ties and an attempt
  between two others occur, and the clock passes the freeze and its end.
* `services`: 3 accounts and 2 sessions; every graph over 3 roles and the user for the walk, graphs of at most 3 edges
  for walks during a change and no edge for walks during 2, 3 changes of 2 requests at the same time otherwise; 2 viewers, 4 reads and a cache time of 2 (15 seconds);
  2 test sets with both policies and a test outside any group; lists of 3 rows read with a limit of 1 or 2, so
  that a page ends before, at and after the last row; a channel of 2 (100) for 3 visits.

Clock, tokens, loads, tasks and requests are bounded, so all models but the event consumer and the
cached store come to a halt at their bounds: their configurations do not check for deadlock. Waiting for
ever is covered by the liveness runs instead.

### Fairness

* Store loops: tickers fire and goroutines are scheduled (weak fairness). A sync that
  fails is tried again, and a database that fails for ever aborts the core
  (`storeLoop`), hence strong fairness for the steps that a failure can interrupt.
* Unique daemons: time passes, requests are executed, tickers fire. Nothing is
  assumed of the task except that it returns once its context is cancelled.
* Resource cache: loads end; clients need not do anything again.
* Task queue: calls of the database end one way or the other, `Execute` returns
  (what it runs has time limits), and who waits for the table's lock or for the
  guard's mutex gets it eventually (strong fairness: both queue their waiters).
  Nothing is assumed about new tasks, time, stops or crashes.
* Services: the goroutine of a request or a daemon goes on (weak fairness of the walk, of a viewer, of the next page and of the
  visits daemon). The cleanup daemon runs on some server; a failed deletion makes it start over at
  its next tick, hence strong fairness of the deletion: not all of them fail. Nothing is assumed about requests
  that come in, expiry or shutdown.

## 4. Proofs

**EventConsumerProofs**, from `EventAssumption` and `WindowAssumption` (bound and
windows are positive). Inductive invariant:
`TypeOK /\ RangesSorted /\ NothingSeenIsAskedAgain /\ CursorFound /\ Bookkeeping`.
The parts need one another: a split keeps the ranges sorted only when the event
is inside the range under the cursor (`CursorFound`), and the cursor is found
only since ranges are sorted and rows are read in order. `Bookkeeping` adds that
visible events were drawn from the sequence and that no rows are left outside a call.
The lemmas `ConsumeProperties`, `DropProperties` and `NewestProperties` say what each
change of the list does to the set of IDs in it and to its order, and are used for both
the invariants and the refinement. `SeenSince`, which is inductive beside the rest, says that from the first range on
whatever is in no range was handed over. Two ranges never touch, so each pair of neighbours has an event between them that was;
a range that the end of a compaction leaves out has `GapWindow` of them behind it, one for each range that is kept
(`GapsAreSeen`, `GrowingNumbers`). Proved for every bound and window: type
correctness, `RangesSorted`, `NothingSeenIsAskedAgain`, `CursorFound`,
`ImplementsFeed`, `SkipAfterWindow`.

**UniqueDaemonProofs**, from `LeaseAssumption` (natural numbers), for any set
of nodes, with any number of faults. The invariant adds to `TypeOK` and
`LiveGuardOwnsRow`:
`Control` (which operation belongs to which stage), `Requests` (what an operation
in progress may write), `Bounded` (tokens were drawn, leases are no longer
than `Lease`), `Distinct` (no token belongs to two nodes), `GrantedOwnsRow` (an
update that was executed is still in the row while its answer is on its way) and
`LateIsHarmless` (an abandoned update takes an expired lock, extends one, or
frees one nobody holds). The last two are what mutual exclusion needs when
answers are lost. Proved: type correctness, `LiveGuardOwnsRow`, `AtMostOneLive`,
`NoStealing`, `ReleasedAfterTask`.

**TaskQueueProofs**, from `QueueAssumption`: any workers, invokers and tasks, a lease of at
least 2 seconds (a ping from half of the lease needs one second to be left; it is 20 in the
code), either database, any number of faults, lost answers and crashes. The invariant is
`TypeOK`, `Locks` (who pops holds the mutex and, but for SQLite, the table),
`OneWorkerPerTask`, and for each worker
`ControlOf` (what it has at which stage), `CallsOf` (whose update is in flight and what it
writes), `RowsOf` (a task that is being popped is queued, one that was popped never is
again), `RowFollowsGuardOf` (the guard knows the row's status unless an answer was lost),
`PingerAliveOf` and `LeaseKeptOf`. `OneWorkerPerTask` alone is not inductive: a second worker
is kept away by the status of the row in one half of a task's life and by the locks in the other.
Proved: `QueueInv`, `PromptPingsKeepLease`, `FinalStatusStays`, `StageNeverGoesBack`.

**ResourceCacheProofs**, from `CacheAssumption`, for any clients, keys and number of loads. The
invariant says for each key what its two map entries refer to (`KeyInv`), for each
resource how its load, value and release go together (`ResourceInv`), for each client what it
refers to (`ClientInv`), that one client frees (`OneFrees`), and `Counted`: the
counter is the number of clients plus one each for the entry and for the load. The lemmas on cardinalities say
what one client more or less does to that number; every step is then one of "a client
comes", "a client goes", "an entry goes" or a hand-over between load and entry.
Proved: `ReferencesExact`, `NoUseAfterRelease`, `OneLoadPerKey`.

**CachedStoreProofs**, from `StoreAssumption`, for any objects, keys, transactions, readers
and events. Three layers. `DBInv`: what a transaction knows of the row it has locked
(`TxOf`, `OneWriter`), the log as the history of each object (`LogInv`), the row as its last event
(`RowOf`). `CacheInv`: events of one object arrive in order (`FeedInv`), one goroutine applies them
(`SyncInv`), an object in the cache is some version not older than the events delivered
(`ObjectOf`: `Init` may have read a later one) and an index entry too many has its event still to
come (`IndexInv`). `ReaderInv`: for each reader, each sync that began after its `WithSync`
has delivered, or has in its batch, all it knows of. The last one speaks of pairs of
a reader and a goroutine that syncs, since either may stamp `syncTime` for the other.
Proved: `LogReplaysToTable`, `CacheIsExact`, `ReadYourWrites`.

**ServerProofs** has the theorems about what the server keeps of its accounts and how it shows and stores it.

*Users*, for `UsersSpec` from `UserAssumption`: any number of accounts, requests, logins and
emails, and a finite, nonempty set of clients. A request carries a row and a
token ID from its first half to its second; `ClientInv` says what is still true of them when it
writes. `TokenInv` and `ExpiryInv` say that IDs are not used again and that, but for what is in `outrun`, tokens expire in their order.
`LimitInv` counts live tokens together with the requests about to create one, which is the
form of `TokensBounded` that is inductive; `CountIsExact` shows that what the
code counts is the number of live tokens where that order was kept. Proved: `ActiveEmailIsConfirmed`, `UsersInv`.

*Services*, for `ServicesSpec` from the assumptions on `Accounts`, `Groups`, `Standings` and `Visits` (bounds are natural
numbers): any clients, accounts, groups, members, sessions, viewers and visits. `GroupRowsInv`
says which account a row belongs to and what kind that account has; `PendingGroupRequest` says what a request that has read
an account, a member or a list of sessions still knows when it writes: rows may have gone meanwhile, but those that are left
have kept their ID and what they refer to (`UsersStay`, `KindsStay`, `MembersStay`, `SessionsStay` say it of each step), and that is
why a request that lost a race is refused by the foreign keys rather than leaving a row of nobody. `PendingLogout` is the heart of
`LogoutEndsSessions`: each session that was found has ended or is still to come in the list, whatever the other
requests and the cleanup daemon delete. `CacheIInv` says that only one viewer builds and that its entry is not done. `VisitsIInv`
orders what was written, what is being written and what waits in the channel. Proved: `ServicesInv`, `LogoutEndsSessions`.

*Migrations*, for `MigrationSpec` from `MigrateAssumption`, for any number of commands and faults; the schema is the one in the
source. `WellBuilt(s, B, N)` says of a list of statements that, where the tables `B` exist, it makes the tables `N` and their
events, each once, after what it refers to and before its indexes. It is shown for each table and, by
concatenation, for the whole schema; from it follow both halves of `SchemaIsAccepted`: each statement is accepted after
those before it, and each is undone after those behind it. `MigrationsIInv` ties the history to the tables (`HistoryOK`),
the list of what is left to do to the history (`TodoOK`: no migration twice, in order, and undone only after those behind it) and
the tables inside a transaction to the statements that were run in it (`TxOK`), which is what a fault
between two statements rolls back. Proved: `SchemaInv`.

*Roles*, for `RoleSpec` from `RoleAssumption` (built-in roles and those of statuses are roles): any set of roles, any graph and any racing
requests. The walk of `getRecursivePermissions` is related to the least closed set: while no edge has changed since it began
(`WalkIsExact`), what it has visited is inside the closure, and holds all that the visited roles lead to
except what is led to from the frontier; when the frontier is empty both are the same (`ClosureIsLeast`). `EdgesDiffer` (the unique index) is
what makes the deletion of one row take the role away. Proved: `RolesExact`.

*Lists*, for `PagingSpec` from `PagingAssumption` (limits are positive, 0 asks for the default): any limits and any rows
that come and go. `SeenInOrder` says that what was given is in order and before `begin`, `SeenAll` that it contains every
row before `begin` that is wanted and was there all the time. The step is `LookAhead`: the query asks for one row more than a
page looks at, so when the answer was cut short the page stops within it, and a row that is not in the answer is not newer than the row the next
page begins at (`ReverseAllReaches`). A look-ahead of none, the mutant `ReverseAllAtLimit`, would end the list too early.
Proved: `PagesComplete`.

**FileRequestsProofs**, for `FilesSpec` from the assumptions on `FileManager`, `ProblemPackages` and `Posts`
(bounds are natural numbers, a package has finitely many resources, and keys and names are distinct from the
two names the models reserve), for any number of requests of each kind, tasks, readers, files and packages. Besides types:
`AvailableIsWhole`; `OwnerInv`: a file that is being written is pending and no other request or task
holds it, so none can confirm it; `RowsInv`: rows refer to available files; and for each request, task and reader that
the rows it has read, and will write whole later, are still good, and that its finished
uploads have their contents (`AuthorInv`, `BuilderInv`, `PosterInv`, `ReaderInv`). Available files never
change (`FilesGrow`), which is why a row that was read before an upload may be written after it; `StepOf` bounds what one actor's step does to files,
and one lemma per kind of actor derives that the others keep their invariants.
For builds `BuildsInv` adds what a task knows while others work: its row is running and no other task of a worker, and
its events still turn the rows it has read into those of its package (`Planned`), where a row that is not updated
refers to an available file with that content already (`UpdatedOrSame`), which `FilesGrow` keeps true.
IDs of resources are unique (`UniqueIds`), although rows may be replaced between the reading and the commit:
`CommitUnique` shows it for rows that stay, are updated and are created, and
`CommitSets` that these have each key of the package once when nobody has intervened.
Proved: `FilesAvailable`, `PostKeepsItsFiles`, `BuildIsWhole`.

**ContestsProofs**, for `ContestSpec` from `ContestAssumption` (an account is a user or a group, times are natural
numbers, and the set of clients is finite and not empty): any contests, accounts, groups, problems, requests and quotas, and any rows left by
earlier requests with at most one solution for each participant (`OldRows`). The invariant types the rows and says of
each pending request what it still has in common with the rows it has read (`RequestOK`): its participant keeps account
and kind, its time once it is set (`KnowsBegin`), and a regular one that submits has been pinned, which is why
`SubmittedHasBegun` holds and a change of the contest moves nobody who has submitted. `QuestionsKeepAsker` covers
deleted participants, `WrittenIsReported` tasks that race with a request to judge again. `QuotaRespected` is about sets
of solutions and not inductive: `SolutionsWithin` says of each solution, and `RequestsWithin` of each request that was let through, that fewer
than the quota (or none) of those it has seen were recent, which no later step changes (`WithinKept`); that too many solutions within a window cannot all
have been seen by the last of them is then a matter of counting (`WithinIsRespected`). Steps are first reduced to what they do to a table (a row is added, removed or
replaced by one with its ID). `SubmitIsUsable` needs no more of the rows than their types and that groups have no time of their
own; its proof is about `BuildContext`: which candidate comes first, and what a member may do compared with its group.
Proved: `ContestInv`, `SubmitIsUsable`, `StartedKeepsTime`.

Each inductive invariant was checked with TLC before it was proved.
`TypeOK`, `NothingSeenIsAskedAgain` and `LiveGuardOwnsRow` are proved without being checked in a run.

Only model-checked:

* liveness under fairness (and anything with `ENABLED`): out of this prover's reach;
* what folds and recursive definitions compute for every input would need induction over data, also
  out of reach: `FreezeHides` and `BoardFollowsRules` (folds over attempts), `ReportIsExact` (sums over
  tests). No module declares a RECURSIVE operator.

## 5. Left out, and assumed

* Postgres semantics: a statement sees what was committed when it began, row locks
  last to the end of the transaction, `LOCK TABLE` excludes writers. SQLite is
  modelled for the queue only, in a single process.
* `db.RO` is taken to be the primary: with a replica that lags, `ReadYourWrites` would
  not hold.
* In CachedStore transactions change one object of one store each; the modules of requests take a
  transaction with several rows as one step, and a cache as the rows at the time of the read, which any later
  write makes stale.
* `TrySync` inside a transaction never syncs; `WithSync` is used outside of transactions only, and the model has it there only.
* The quota and its window do not change. Contest requests go to one server: where several answer one user, each looks at
  its own caches, which lag alike.
* Read locks that iterators of the indexes hold are not modelled.
* An update of a task that returned an error is not executed later (the transaction
  is rolled back with its context); one that was committed may be reported as failed.
  Lock updates are not even given this much.
* Clocks of processes agree.

Not modelled:

* `api/client.go` and the commands: remote calls and output for a terminal.
* The sandbox (`pkg/safeexec`), pipes of interactive runs, unpacking of archives and the formats of packages: their
  outcomes are choices of the models.
* The CCS event feed, CRUD of settings (except that `contests.disable_upsolving` is switched) and locales, configuration and logging.
* Handlers that only format what they read, except contents of files, pages and standings.
* Of contests: creation and deletion, creation of fake participants, the quota of questions, and the query parameter that
  chooses a participant (`SetEffectiveParticipant`). `DeleteFile` has no callers.
* Columns of the schema apart from foreign keys and indexes; texts, and validation of forms.

## 6. Plan

The suite is kept to a dozen runs: where the bounds allow it, one run checks the safety
and the liveness of a component, and small runs are merged when a new component
needs one.

Done: event consumer, cached store, unique daemons, resource cache, task queue, files, packages, posts, users,
groups, roles, contests, standings, judging, migrations, pages, visits. Left, in this order:

1. `IndexIterators`: read locks held by open rows of several stores; deadlock freedom.
2. The two caches that `MakeContext` reads, advancing apart.
3. The order of events in the CCS feed.

Theorems worth proving next: that verdicts of `Judging` follow the tests, for reports of a fixed number of
tests, where no induction is needed.
