------------------------------ MODULE CachedStore ------------------------------
(***************************************************************************)
(* A cached store of internal/models (cached_store.go, btree_index.go) over *)
(* its object table and its event table, kept up to date by the store loop *)
(* of internal/core (stores.go).                                           *)
(*                                                                         *)
(* A writer changes one row and inserts the matching event in the same     *)
(* transaction.  The store loads the events that exist, then the objects,  *)
(* and from then on replays the events it has not seen into its map of     *)
(* objects and its index.  Its consumer is used through the contract       *)
(* EventFeed states: the IDs not in delivered are the ones it will ask for; *)
(* the gap window is the subject of EventConsumer and never closes here.   *)
(*                                                                         *)
(* A row is [ver, key]: ver counts the writes to the object and stands for *)
(* its content, key is what the index is built on, NoKey when the object   *)
(* does not exist.  A restarted process begins again at InitEvents, over   *)
(* whatever the tables hold by then.                                       *)
(***************************************************************************)
EXTENDS Naturals, FiniteSets

CONSTANTS
    Objects,         \* object IDs
    Keys,            \* values of the indexed field
    Txs,             \* writers' transactions
    Readers,         \* requests that read under WithSync
    MaxEvent,        \* bound on the event sequence
    MaxTime,         \* bound on the clock
    Loop,            \* the goroutine that runs Init and then storeLoop
    NoKey, Nobody

ASSUME StoreAssumption ==
    /\ MaxEvent \in Nat /\ MaxTime \in Nat
    /\ NoKey \notin Keys /\ Loop \notin Readers
    /\ Nobody \notin Readers \cup {Loop}

VARIABLES
    table,           \* committed rows
    next,            \* next value of the event ID sequence
    log,             \* inserted events: [kind, obj, row]
    committed,       \* IDs of the events that are visible
    tx,              \* transactions: [state, kind, obj, row, id]
    objects,         \* cachedStore.objects
    index,           \* the btreeIndex: pairs <<key, object>>
    delivered,       \* events the consumer has seen
    syncTime,        \* cachedStore.syncTime
    holder, batch,   \* owner of the consumer's mutex, rows not read yet
    pc, start,       \* goroutines: where they are, t in Init and Sync
    since, known,    \* readers: WithSync's time; history: versions at that time
    now

tables == <<table, next, log, committed, tx>>
cache == <<objects, index, delivered>>
consumer == <<holder, batch>>
request == <<since, known>>
vars == <<tables, cache, syncTime, consumer, pc, start, request, now>>

Procs == Readers \cup {Loop}
EventIDs == 1..MaxEvent
Row == [ver : 0..MaxEvent, key : Keys \cup {NoKey}]
NoRow == [ver |-> 0, key |-> NoKey]
Kinds == {"create", "update", "delete"}
Event == [kind : Kinds, obj : Objects, row : Row]
OpenTx == [state : {"written", "logged"}, kind : Kinds, obj : Objects, row : Row,
           id : 0..MaxEvent]
NoTx == [state |-> "none"]

--------------------------------------------------------------------------------
Init ==
    /\ table = [o \in Objects |-> NoRow]
    /\ next = 1 /\ committed = {}
    /\ log = [id \in {} |-> {}]
    /\ tx = [t \in Txs |-> NoTx]
    /\ objects = table /\ index = {} /\ delivered = {}
    /\ syncTime = 0
    /\ holder = Nobody /\ batch = {}
    /\ pc = [p \in Procs |-> IF p = Loop THEN "initEvents" ELSE "idle"]
    /\ start = [p \in Procs |-> 0]
    /\ since = [p \in Readers |-> 0]
    /\ known = [p \in Readers |-> [o \in Objects |-> 0]]
    /\ now = 0

Tick ==
    /\ now < MaxTime
    /\ now' = now + 1
    /\ UNCHANGED <<tables, cache, syncTime, consumer, pc, start, request>>

--------------------------------------------------------------------------------
(* Writers: createObjectEvent inside a transaction. *)

\* A row written by an open transaction cannot be written by another one.
Locked(o) == \E t \in Txs : tx[t].state # "none" /\ tx[t].obj = o

\* What a statement of each kind needs of the row and leaves in it.
NewRow(kind, o, key) ==
    [ver |-> table[o].ver + 1, key |-> IF kind = "delete" THEN NoKey ELSE key]

\* Mutant: the statement runs outside of a transaction.
WriteUntransacted(t, kind, o, key) ==
    /\ tx[t].state = "none" /\ ~Locked(o)
    /\ next + Cardinality({u \in Txs : tx[u].state = "written"}) <= MaxEvent
    /\ (kind = "create") = (table[o].key = NoKey)
    /\ table' = [table EXCEPT ![o] = NewRow(kind, o, key)]
    /\ tx' = [tx EXCEPT ![t] = [state |-> "written", kind |-> kind, obj |-> o,
                                row |-> NewRow(kind, o, key), id |-> 0]]
    /\ UNCHANGED <<next, log, committed>>
    /\ UNCHANGED <<cache, syncTime, consumer, pc, start, request, now>>

WriteObject(t, kind, o, key) ==
    /\ tx[t].state = "none" /\ ~Locked(o)
    /\ next + Cardinality({u \in Txs : tx[u].state = "written"}) <= MaxEvent
    /\ (kind = "create") = (table[o].key = NoKey)
    /\ tx' = [tx EXCEPT ![t] = [state |-> "written", kind |-> kind, obj |-> o,
                                row |-> NewRow(kind, o, key), id |-> 0]]
    /\ UNCHANGED <<table, next, log, committed>>
    /\ UNCHANGED <<cache, syncTime, consumer, pc, start, request, now>>

CreateEvent(t) ==
    /\ tx[t].state = "written"
    /\ log' = [id \in DOMAIN log \cup {next} |->
                 IF id = next THEN [kind |-> tx[t].kind, obj |-> tx[t].obj, row |-> tx[t].row]
                 ELSE log[id]]
    /\ tx' = [tx EXCEPT ![t].state = "logged", ![t].id = next]
    /\ next' = next + 1
    /\ UNCHANGED <<table, committed>>
    /\ UNCHANGED <<cache, syncTime, consumer, pc, start, request, now>>

Commit(t) ==
    /\ tx[t].state = "logged"
    /\ table' = [table EXCEPT ![tx[t].obj] = tx[t].row]
    /\ committed' = committed \cup {tx[t].id}
    /\ tx' = [tx EXCEPT ![t] = NoTx]
    /\ UNCHANGED <<next, log>>
    /\ UNCHANGED <<cache, syncTime, consumer, pc, start, request, now>>

(* A statement fails, or the caller's transaction does. *)
Rollback(t) ==
    /\ tx[t].state # "none"
    /\ log' = [id \in DOMAIN log \ {tx[t].id} |-> log[id]]
    /\ tx' = [tx EXCEPT ![t] = NoTx]
    /\ UNCHANGED <<table, next, committed>>
    /\ UNCHANGED <<cache, syncTime, consumer, pc, start, request, now>>

--------------------------------------------------------------------------------
(* Init: events first, objects second.  The two SELECTs run in one read     *)
(* only transaction, which at the default isolation level lets the second   *)
(* one see commits the first did not.                                       *)

\* Mutant: everything up to the last event counts as seen.
InitAfterLast ==
    /\ pc[Loop] = "initEvents"
    /\ start' = [start EXCEPT ![Loop] = now]
    /\ delivered' = {id \in EventIDs : \E last \in committed : id <= last}
    /\ pc' = [pc EXCEPT ![Loop] = "initObjects"]
    /\ UNCHANGED <<tables, objects, index, syncTime, consumer, request, now>>

InitEvents ==
    /\ pc[Loop] = "initEvents"
    /\ start' = [start EXCEPT ![Loop] = now]
    /\ delivered' = committed
    /\ pc' = [pc EXCEPT ![Loop] = "initObjects"]
    /\ UNCHANGED <<tables, objects, index, syncTime, consumer, request, now>>

IndexOf(objs) == {<<objs[o].key, o>> : o \in {x \in Objects : objs[x].key # NoKey}}

InitObjects ==
    /\ pc[Loop] = "initObjects"
    /\ objects' = table /\ index' = IndexOf(table)
    /\ syncTime' = start[Loop] /\ start' = [start EXCEPT ![Loop] = 0]
    /\ pc' = [pc EXCEPT ![Loop] = "ready"]
    /\ UNCHANGED <<tables, delivered, consumer, request, now>>

--------------------------------------------------------------------------------
(* Sync, run by the store loop and by readers; the consumer's mutex lets    *)
(* one of them through at a time.                                           *)

SyncBegin(p) ==
    /\ pc[p] \in {"ready", "sync"}
    /\ start' = [start EXCEPT ![p] = now]
    /\ pc' = [pc EXCEPT ![p] = "lock"]
    /\ UNCHANGED <<tables, cache, syncTime, consumer, request, now>>

LoadEvents(p) ==
    /\ pc[p] = "lock" /\ holder = Nobody
    /\ holder' = p
    /\ batch' = committed \ delivered
    /\ pc' = [pc EXCEPT ![p] = "apply"]
    /\ UNCHANGED <<tables, cache, syncTime, start, request, now>>

\* Mutant: a deleted object is registered again.
OnDeleteRegisters(ix, ev) ==
    (ix \ {<<objects[ev.obj].key, ev.obj>>}) \cup {<<ev.row.key, ev.obj>>}

\* Mutant: an updated object keeps its old key.
OnUpdateRegisters(ix, ev) == ix \cup {<<ev.row.key, ev.obj>>}

\* onCreateObject, onDeleteObject and onUpdateObject, on the index.
OnCreateIndex(ix, ev) == ix \cup {<<ev.row.key, ev.obj>>}
OnDeleteIndex(ix, ev) == ix \ {<<objects[ev.obj].key, ev.obj>>}
OnUpdateIndex(ix, ev) == OnCreateIndex(OnDeleteIndex(ix, ev), ev)

(* consumeEvent, under the store's mutex, for the next row. *)
ConsumeEvent(p) ==
    /\ pc[p] = "apply"
    /\ \E id \in batch :
        /\ \A x \in batch : id <= x
        /\ batch' = batch \ {id}
        /\ delivered' = delivered \cup {id}
        /\ objects' = [objects EXCEPT ![log[id].obj] = log[id].row]
        /\ index' = CASE log[id].kind = "create" -> OnCreateIndex(index, log[id])
                      [] log[id].kind = "delete" -> OnDeleteIndex(index, log[id])
                      [] log[id].kind = "update" -> OnUpdateIndex(index, log[id])
    /\ UNCHANGED <<tables, syncTime, holder, pc, start, request, now>>

ConsumeEnd(p) ==
    /\ pc[p] = "apply" /\ batch = {}
    /\ holder' = Nobody
    /\ pc' = [pc EXCEPT ![p] = "stamp"]
    /\ UNCHANGED <<tables, cache, syncTime, batch, start, request, now>>

(* updateSync; Sync returns to the loop's ticker, or to Get. *)
UpdateSync(p) ==
    /\ pc[p] = "stamp"
    /\ syncTime' = start[p] /\ start' = [start EXCEPT ![p] = 0]
    /\ pc' = [pc EXCEPT ![p] = IF p = Loop THEN "ready" ELSE "read"]
    /\ UNCHANGED <<tables, cache, consumer, request, now>>

\* The request is over and its context gone.
EndRequest(p) ==
    /\ pc' = [pc EXCEPT ![p] = "idle"]
    /\ since' = [since EXCEPT ![p] = 0]
    /\ known' = [known EXCEPT ![p] = [o \in Objects |-> 0]]

\* Mutant: the ranges are advanced before the callback has accepted the row.
SyncFailAdvances(p) ==
    /\ pc[p] = "apply"
    /\ holder' = Nobody /\ batch' = {}
    /\ delivered' = delivered \cup {id \in batch : \A x \in batch : id <= x}
    /\ start' = [start EXCEPT ![p] = 0]
    /\ \/ p = Loop /\ pc' = [pc EXCEPT ![p] = "ready"] /\ UNCHANGED request
       \/ p # Loop /\ EndRequest(p)
    /\ UNCHANGED <<tables, objects, index, syncTime, now>>

(* The query or one of its rows fails: Sync and Get return the error. *)
SyncFail(p) ==
    /\ pc[p] = "apply"
    /\ holder' = Nobody /\ batch' = {}
    /\ start' = [start EXCEPT ![p] = 0]
    /\ \/ p = Loop /\ pc' = [pc EXCEPT ![p] = "ready"] /\ UNCHANGED request
       \/ p # Loop /\ EndRequest(p)
    /\ UNCHANGED <<tables, cache, syncTime, now>>

--------------------------------------------------------------------------------
(* Readers: WithSync, then Get with that context.  Requests are served once *)
(* every store has been initialised.                                        *)

Started == pc[Loop] \notin {"initEvents", "initObjects"}

WithSync(p) ==
    /\ pc[p] = "idle" /\ Started
    /\ since' = [since EXCEPT ![p] = now]
    /\ known' = [known EXCEPT ![p] = [o \in Objects |-> table[o].ver]]
    /\ pc' = [pc EXCEPT ![p] = "check"]
    /\ UNCHANGED <<tables, cache, syncTime, consumer, start, now>>

\* Mutant: Before in place of !After.
NeedSyncStrict(p) == syncTime < since[p]

\* !s.syncTime.After(t).  In a transaction TrySync never syncs; WithSync is used
\* outside of transactions only.
NeedSync(p) == syncTime <= since[p]

TrySync(p) ==
    /\ pc[p] = "check"
    /\ pc' = [pc EXCEPT ![p] = IF NeedSync(p) THEN "sync" ELSE "read"]
    /\ UNCHANGED <<tables, cache, syncTime, consumer, start, request, now>>

Get(p) ==
    /\ pc[p] = "read"
    /\ EndRequest(p)
    /\ UNCHANGED <<tables, cache, syncTime, consumer, start, now>>

Next ==
    \/ Tick
    \/ \E t \in Txs : \/ \E kind \in Kinds, o \in Objects, key \in Keys :
                            WriteObject(t, kind, o, key)
                      \/ CreateEvent(t) \/ Commit(t) \/ Rollback(t)
    \/ InitEvents \/ InitObjects
    \/ \E p \in Procs : \/ SyncBegin(p) \/ LoadEvents(p) \/ ConsumeEvent(p)
                        \/ ConsumeEnd(p) \/ UpdateSync(p) \/ SyncFail(p)
    \/ \E p \in Readers : WithSync(p) \/ TrySync(p) \/ Get(p)

Spec == Init /\ [][Next]_vars

(* The ticker of storeLoop fires for ever and goroutines are scheduled; a   *)
(* database that keeps failing aborts the core, so it recovers here.        *)
Fairness ==
    /\ WF_vars(InitEvents) /\ WF_vars(InitObjects)
    /\ \A p \in Procs : /\ WF_vars(SyncBegin(p)) /\ WF_vars(UpdateSync(p))
                        /\ SF_vars(LoadEvents(p)) /\ SF_vars(ConsumeEvent(p))
                        /\ SF_vars(ConsumeEnd(p))

FairSpec == Spec /\ Fairness

--------------------------------------------------------------------------------
(* The tables, the cache and the goroutines have their types.              *)
TypeOK ==
    /\ table \in [Objects -> Row]
    /\ next \in 1..(MaxEvent + 1)
    /\ DOMAIN log \subseteq 1..(next - 1) /\ \A id \in DOMAIN log : log[id] \in Event
    /\ committed \in SUBSET EventIDs /\ delivered \in SUBSET EventIDs
    /\ tx \in [Txs -> OpenTx \cup {NoTx}]
    /\ objects \in [Objects -> Row] /\ index \subseteq Keys \X Objects
    /\ syncTime \in 0..MaxTime /\ now \in 0..MaxTime
    /\ holder \in Procs \cup {Nobody} /\ batch \in SUBSET EventIDs
    /\ pc \in [Procs -> {"initEvents", "initObjects", "ready", "idle", "check",
                         "sync", "lock", "apply", "stamp", "read"}]
    /\ start \in [Procs -> 0..MaxTime]
    /\ since \in [Readers -> 0..MaxTime]
    /\ known \in [Readers -> [Objects -> 0..MaxEvent]]

\* The events of object o in S, and the last of them.
EventsOf(S, o) == {id \in S : log[id].obj = o}
IsLastOf(id, S, o) == id \in EventsOf(S, o) /\ \A x \in EventsOf(S, o) : x <= id

(* The event log is the table's history: the committed event of an object  *)
(* with the greatest ID carries its row.  IDs are taken before commits and *)
(* commits happen in any order, so this rests on rows being written before *)
(* their event inside one transaction.                                     *)
LogReplaysToTable ==
    \A o \in Objects :
        /\ EventsOf(committed, o) = {} => table[o] = NoRow
        /\ \A id \in committed : IsLastOf(id, committed, o) => table[o] = log[id].row

(* A store that has caught up holds exactly the rows of the table, and its *)
(* index exactly their keys, although Init read events and objects at      *)
(* different times and replays some events over newer objects.             *)
CaughtUpCacheIsExact ==
    Started /\ committed \subseteq delivered =>
        objects = table /\ index = IndexOf(table)

(* A cached object is always found under its key, and the index has another *)
(* entry for an object only while events of that object are still to come. *)
IndexFindsObjects ==
    Started =>
        /\ IndexOf(objects) \subseteq index
        /\ \A e \in index \ IndexOf(objects) :
               EventsOf(committed \ delivered, e[2]) # {}

(* The cache in all: its types, its objects when it has caught up, and     *)
(* its index at any time.                                                  *)
CacheIsExact == TypeOK /\ CaughtUpCacheIsExact /\ IndexFindsObjects

(* Get under WithSync sees every write that was committed when WithSync    *)
(* was called, or a later one: a request may skip the sync only when one   *)
(* that started after that moment has finished.                            *)
ReadYourWrites ==
    \A p \in Readers : pc[p] = "read" =>
        \A o \in Objects : objects[o].ver >= known[p][o]

(* A committed write, or a later one to the same object, reaches the cache, *)
(* whatever syncs fail on the way.                                         *)
EveryWriteIsCached ==
    \A id \in EventIDs :
        id \in committed ~>
            /\ id \in committed /\ Started
            /\ objects[log[id].obj].ver >= log[id].row.ver
================================================================================
