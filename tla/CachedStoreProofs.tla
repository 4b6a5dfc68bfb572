--------------------------- MODULE CachedStoreProofs ---------------------------
(***************************************************************************)
(* The cached store for any number of objects, keys, writers, readers and  *)
(* events.                                                                 *)
(*                                                                         *)
(* The invariant is built in three layers, each on the ones before it: the *)
(* database (what a transaction knows of the row it has locked, and the    *)
(* log as the history of the table), the cache (which version of each      *)
(* object it holds, whatever Init read and wherever a sync has stopped)    *)
(* and the readers (which events a finished sync has delivered).           *)
(***************************************************************************)
EXTENDS CachedStore, TLAPS, FiniteSetTheorems

--------------------------------------------------------------------------------
(* The database *)

\* What an open transaction knows, as long as its row is locked: the row
\* follows the one in the table, and its event follows all those of the object.
TxOf(t) ==
    tx[t].state # "none" =>
        /\ tx[t] \in OpenTx
        /\ tx[t].row.ver = table[tx[t].obj].ver + 1 /\ tx[t].row.ver <= next
        /\ tx[t].kind = "create" => table[tx[t].obj].key = NoKey
        /\ tx[t].kind = "delete" <=> tx[t].row.key = NoKey
        /\ tx[t].state = "written" => tx[t].id = 0
        /\ tx[t].state = "logged" =>
            /\ tx[t].id \in DOMAIN log /\ tx[t].id \notin committed /\ tx[t].row.ver <= tx[t].id
            /\ log[tx[t].id].kind = tx[t].kind /\ log[tx[t].id].obj = tx[t].obj
            /\ log[tx[t].id].row = tx[t].row
            /\ \A x \in committed : log[x].obj = tx[t].obj => x < tx[t].id

\* A row is locked by one transaction.
OneWriter ==
    \A t, u \in Txs :
        tx[t].state # "none" /\ tx[u].state # "none" /\ tx[t].obj = tx[u].obj => t = u

\* There is an event ID left for every row that was written.
WrittenTxs == {t \in Txs : tx[t].state = "written"}
RoomForEvents == IsFiniteSet(WrittenTxs) /\ next + Cardinality(WrittenTxs) <= MaxEvent + 1

\* The events of one object, in the order of their IDs, are its versions.
LogInv ==
    /\ committed \subseteq DOMAIN log
    /\ \A x \in committed : /\ log[x].row.ver >= 1
                            /\ log[x].kind = "delete" <=> log[x].row.key = NoKey
    /\ \A x, y \in committed :
        log[x].obj = log[y].obj /\ x < y =>
            /\ log[x].row.ver < log[y].row.ver
            /\ \/ log[y].kind = "create" => log[x].row.key = NoKey
               \/ \E z \in committed : log[z].obj = log[y].obj /\ x < z /\ z < y

\* The row of an object is that of its last event.
RowOf(o) ==
    /\ table[o].ver < next
    /\ \/ table[o] = NoRow /\ \A x \in committed : log[x].obj # o
       \/ \E x \in committed : /\ log[x].obj = o /\ log[x].row = table[o]
                               /\ \A y \in committed : log[y].obj = o => y <= x

DBInv ==
    /\ \A t \in Txs : TxOf(t)
    /\ OneWriter /\ RoomForEvents /\ LogInv
    /\ \A o \in Objects : RowOf(o)

--------------------------------------------------------------------------------
(* The cache *)

Pending == committed \ delivered

\* Events of one object are delivered in order, and a batch holds the first ones.
FeedInv ==
    /\ delivered \subseteq committed /\ batch \subseteq Pending
    /\ \A x \in Pending : \A d \in delivered : log[x].obj = log[d].obj => d < x
    /\ \A x \in Pending \ batch : \A y \in batch : log[x].obj = log[y].obj => y < x

\* One goroutine at a time replays events, and none before the store has started.
SyncInv ==
    /\ \A p \in Procs : pc[p] = "apply" <=> holder = p
    /\ holder = Nobody => batch = {}
    /\ pc[Loop] \in {"initEvents", "initObjects", "ready", "lock", "apply", "stamp"}
    /\ \A p \in Readers : pc[p] \in {"idle", "check", "sync", "lock", "apply", "stamp", "read"}
    /\ ~Started => holder = Nobody /\ \A p \in Readers : pc[p] = "idle"

\* The cache holds some version of an object that is not older than the events
\* delivered; Init may have read a later one.
ObjectOf(o) ==
    \/ objects[o] = NoRow /\ \A x \in delivered : log[x].obj # o
    \/ \E x \in committed : /\ log[x].obj = o /\ log[x].row = objects[o]
                            /\ \A d \in delivered : log[d].obj = o => d <= x

\* Another entry of the index was read by Init, and its event is to come.
IndexInv ==
    /\ \A o \in Objects : objects[o].key # NoKey => <<objects[o].key, o>> \in index
    /\ \A k \in Keys, o \in Objects :
        <<k, o>> \in index /\ objects[o].key # k =>
            \E x \in Pending : log[x].obj = o /\ log[x].row.key = k

CacheInv == FeedInv /\ SyncInv /\ (Started => IndexInv /\ \A o \in Objects : ObjectOf(o))

--------------------------------------------------------------------------------
(* The readers *)

TimeInv ==
    /\ syncTime <= now /\ \A q \in Procs : start[q] <= now
    /\ \A p \in Readers : since[p] <= now

\* The events behind the versions that p knows are delivered, or in the batch.
KnownSeen(p) == \A x \in Pending : log[x].row.ver > known[p][log[x].obj]
KnownInBatch(p) == \A x \in Pending \ batch : log[x].row.ver > known[p][log[x].obj]

ReaderInv(p) ==
    /\ pc[p] = "idle" => \A o \in Objects : known[p][o] = 0
    /\ \A o \in Objects :
        /\ known[p][o] <= table[o].ver
        /\ known[p][o] # 0 => \E x \in committed : log[x].obj = o /\ log[x].row.ver = known[p][o]
    /\ syncTime > since[p] \/ pc[p] \in {"stamp", "read"} => KnownSeen(p)
    /\ \A q \in Procs :
        /\ pc[q] = "stamp" /\ start[q] > since[p] => KnownSeen(p)
        /\ pc[q] = "apply" /\ (q = p \/ start[q] > since[p]) => KnownInBatch(p)

IInv == TypeOK /\ DBInv /\ CacheInv /\ TimeInv /\ \A p \in Readers : ReaderInv(p)

--------------------------------------------------------------------------------
(* Types, and what the invariant says of the properties *)

\* A visible event is an event of an object, with its row.
LEMMA EventType ==
  ASSUME TypeOK, LogInv, NEW x \in committed
  PROVE  /\ x \in Nat /\ x >= 1 /\ x < next /\ x \in EventIDs /\ x \in DOMAIN log
         /\ log[x] \in Event /\ log[x].kind \in Kinds
         /\ log[x].obj \in Objects /\ log[x].row \in Row
         /\ log[x].row.ver \in Nat /\ log[x].row.key \in Keys \cup {NoKey}
<1>1. x \in DOMAIN log /\ x \in EventIDs
  BY DEF TypeOK, LogInv
<1>2. log[x] \in Event
  BY <1>1 DEF TypeOK
<1>3. next \in Nat /\ x \in 1..(next - 1)
  BY <1>1, StoreAssumption DEF TypeOK
<1>4. log[x].kind \in Kinds /\ log[x].obj \in Objects /\ log[x].row \in Row
  BY <1>2 DEF Event
<1>5. log[x].row.ver \in Nat /\ log[x].row.key \in Keys \cup {NoKey}
  BY <1>4, StoreAssumption DEF Row
<1> QED BY <1>1, <1>2, <1>3, <1>4, <1>5

\* The numbers of the tables and of the clock.
LEMMA NumberType ==
  ASSUME TypeOK
  PROVE  /\ next \in Nat /\ next >= 1 /\ next <= MaxEvent + 1 /\ MaxEvent \in Nat
         /\ now \in Nat /\ syncTime \in Nat
         /\ \A p \in Procs : start[p] \in Nat
         /\ \A p \in Readers : since[p] \in Nat
         /\ \A o \in Objects : table[o].ver \in Nat /\ objects[o].ver \in Nat
         /\ \A p \in Readers : \A o \in Objects : known[p][o] \in Nat
<1>1. \A o \in Objects : table[o].ver \in Nat /\ objects[o].ver \in Nat
  BY StoreAssumption DEF TypeOK, Row
<1> QED BY <1>1, StoreAssumption DEF TypeOK

\* The table is what the log replays to.
LEMMA LogReplays ==
  ASSUME IInv
  PROVE  LogReplaysToTable
<1> USE DEF IInv, DBInv
<1> SUFFICES ASSUME NEW o \in Objects
             PROVE  /\ EventsOf(committed, o) = {} => table[o] = NoRow
                    /\ \A id \in committed : IsLastOf(id, committed, o) => table[o] = log[id].row
  BY DEF LogReplaysToTable
<1>1. RowOf(o)
  OBVIOUS
<1>2. ASSUME EventsOf(committed, o) = {} PROVE table[o] = NoRow
  BY <1>1, <1>2 DEF EventsOf, RowOf
<1>3. ASSUME NEW id \in committed, IsLastOf(id, committed, o) PROVE table[o] = log[id].row
  <2>1. log[id].obj = o /\ \A y \in committed : log[y].obj = o => y <= id
    BY <1>3 DEF IsLastOf, EventsOf
  <2>2. PICK x \in committed : /\ log[x].obj = o /\ log[x].row = table[o]
                               /\ \A y \in committed : log[y].obj = o => y <= x
    BY <1>1, <2>1 DEF RowOf
  <2>3. x \in Nat /\ id \in Nat
    BY EventType
  <2>4. x = id
    BY <2>1, <2>2, <2>3
  <2> QED BY <2>2, <2>4
<1> QED BY <1>2, <1>3

\* The index against the objects of the cache.
LEMMA IndexFinds ==
  ASSUME IInv
  PROVE  IndexFindsObjects
<1> USE DEF IInv, CacheInv
<1> SUFFICES ASSUME Started
             PROVE  /\ IndexOf(objects) \subseteq index
                    /\ \A e \in index \ IndexOf(objects) :
                           EventsOf(committed \ delivered, e[2]) # {}
  BY DEF IndexFindsObjects
<1>1. IndexOf(objects) \subseteq index
  BY DEF IndexOf, IndexInv
<1>2. ASSUME NEW e \in index \ IndexOf(objects)
      PROVE  EventsOf(committed \ delivered, e[2]) # {}
  <2>1. index \subseteq Keys \X Objects
    BY DEF TypeOK
  <2>2. PICK k \in Keys, o \in Objects : e = <<k, o>>
    BY <1>2, <2>1
  <2>3. objects[o].key # k
    <3>1. k # NoKey
      BY StoreAssumption
    <3> QED BY <1>2, <2>2, <3>1 DEF IndexOf
  <2>4. \E x \in Pending : log[x].obj = o
    BY <1>2, <2>2, <2>3 DEF IndexInv
  <2>5. e[2] = o
    BY <2>2
  <2> QED BY <2>4, <2>5 DEF Pending, EventsOf
<1> QED BY <1>1, <1>2

\* A store without pending events holds the rows of the table.
LEMMA CaughtUp ==
  ASSUME IInv
  PROVE  CaughtUpCacheIsExact
<1> USE DEF IInv, CacheInv, DBInv
<1> SUFFICES ASSUME Started, committed \subseteq delivered
             PROVE  objects = table /\ index = IndexOf(table)
  BY DEF CaughtUpCacheIsExact
<1>1. delivered = committed
  BY DEF FeedInv
<1>2. ASSUME NEW o \in Objects PROVE objects[o] = table[o]
  <2>1. RowOf(o) /\ ObjectOf(o)
    OBVIOUS
  <2>2. CASE \A x \in committed : log[x].obj # o
    BY <1>1, <2>1, <2>2 DEF RowOf, ObjectOf
  <2>3. CASE ~ \A x \in committed : log[x].obj # o
    <3>1. PICK x \in committed : /\ log[x].obj = o /\ log[x].row = table[o]
                                 /\ \A y \in committed : log[y].obj = o => y <= x
      BY <2>1, <2>3 DEF RowOf
    <3>2. PICK y \in committed : /\ log[y].obj = o /\ log[y].row = objects[o]
                                 /\ \A d \in delivered : log[d].obj = o => d <= y
      BY <1>1, <2>1, <2>3 DEF ObjectOf
    <3>3. x \in Nat /\ y \in Nat
      BY EventType
    <3>4. x = y
      BY <1>1, <3>1, <3>2, <3>3
    <3> QED BY <3>1, <3>2, <3>4
  <2> QED BY <2>2, <2>3
<1>3. objects = table
  BY <1>2 DEF TypeOK
<1>4. IndexOf(objects) \subseteq index
  BY IndexFinds DEF IndexFindsObjects
<1>5. index \subseteq IndexOf(objects)
  BY IndexFinds, <1>1 DEF IndexFindsObjects, EventsOf
<1> QED BY <1>3, <1>4, <1>5

\* A request that may read has the versions it knows.
LEMMA ReadsOwnWrites ==
  ASSUME IInv
  PROVE  ReadYourWrites
<1> USE DEF IInv, CacheInv, DBInv
<1> SUFFICES ASSUME NEW p \in Readers, pc[p] = "read", NEW o \in Objects
             PROVE  objects[o].ver >= known[p][o]
  BY DEF ReadYourWrites
<1>1. Started /\ ObjectOf(o)
  BY DEF SyncInv
<1>2. objects[o].ver \in Nat /\ known[p][o] \in Nat
  BY NumberType
<1>3. CASE known[p][o] = 0
  BY <1>2, <1>3
<1>4. CASE known[p][o] # 0
  <2>1. PICK x \in committed : log[x].obj = o /\ log[x].row.ver = known[p][o]
    BY <1>4 DEF ReaderInv
  <2>2. KnownSeen(p)
    BY DEF ReaderInv
  <2>3. x \in delivered
    BY <1>2, <2>1, <2>2 DEF KnownSeen, Pending
  <2>4. PICK y \in committed : /\ log[y].obj = o /\ log[y].row = objects[o]
                               /\ \A d \in delivered : log[d].obj = o => d <= y
    BY <1>1, <2>1, <2>3 DEF ObjectOf
  <2>5. x \in Nat /\ y \in Nat /\ x <= y
    BY <2>1, <2>3, <2>4, EventType
  <2>6. x < y => log[x].row.ver < log[y].row.ver
    BY <2>1, <2>4 DEF LogInv
  <2>7. x = y \/ log[x].row.ver < log[y].row.ver
    BY <2>5, <2>6
  <2> QED BY <1>2, <2>1, <2>4, <2>7
<1> QED BY <1>3, <1>4

--------------------------------------------------------------------------------
(* Initial states *)

\* The process starts on empty tables.
LEMMA InitInvariant == Init => IInv
<1> SUFFICES ASSUME Init PROVE IInv
  OBVIOUS
<1> USE DEF Init
<1>1. table = [o \in Objects |-> NoRow] /\ objects = table /\ NoRow \in Row
  BY StoreAssumption DEF NoRow, Row
<1>2. pc \in [Procs -> {"initEvents", "idle"}] /\ pc[Loop] = "initEvents"
      /\ \A p \in Readers : pc[p] = "idle"
  BY StoreAssumption DEF Procs
<1>3. ~Started
  BY <1>2 DEF Started
<1>4. \A t \in Txs : tx[t] = NoTx /\ tx[t].state = "none"
  BY DEF NoTx
<1>5. TypeOK
  BY <1>1, <1>2, StoreAssumption DEF TypeOK, Procs
<1>6. DBInv
  <2>1. \A t \in Txs : TxOf(t)
    BY <1>4 DEF TxOf
  <2>2. OneWriter
    BY <1>4 DEF OneWriter
  <2>3. RoomForEvents
    <3>1. WrittenTxs = {}
      BY <1>4 DEF WrittenTxs
    <3> QED BY <3>1, FS_EmptySet, StoreAssumption DEF RoomForEvents
  <2>4. LogInv
    BY DEF LogInv
  <2>5. ASSUME NEW o \in Objects PROVE RowOf(o)
    BY <1>1 DEF RowOf, NoRow
  <2> QED BY <2>1, <2>2, <2>3, <2>4, <2>5 DEF DBInv
<1>7. CacheInv
  <2>1. FeedInv
    BY DEF FeedInv, Pending
  <2>2. SyncInv
    BY <1>2, StoreAssumption DEF SyncInv, Procs
  <2> QED BY <1>3, <2>1, <2>2 DEF CacheInv
<1>8. TimeInv
  BY DEF TimeInv
<1>9. ASSUME NEW p \in Readers PROVE ReaderInv(p)
  <2>1. KnownSeen(p) /\ KnownInBatch(p)
    BY DEF KnownSeen, KnownInBatch, Pending
  <2>2. \A o \in Objects : known[p][o] = 0 /\ table[o].ver = 0
    BY <1>1 DEF NoRow
  <2> QED BY <2>1, <2>2 DEF ReaderInv
<1> QED BY <1>5, <1>6, <1>7, <1>8, <1>9 DEF IInv

--------------------------------------------------------------------------------
(* Types are kept *)

\* The number of rows written without their event yet.
LEMMA RoomFacts ==
  ASSUME RoomForEvents
  PROVE  Cardinality(WrittenTxs) \in Nat /\ (WrittenTxs # {} => Cardinality(WrittenTxs) >= 1)
BY FS_CardinalityType, FS_EmptySet DEF RoomForEvents

\* A statement writes the next version, and leaves an ID for its event.
LEMMA WrittenRow ==
  ASSUME TypeOK, DBInv, NEW t \in Txs, NEW kind \in Kinds, NEW o \in Objects, NEW key \in Keys,
         WriteObject(t, kind, o, key)
  PROVE  /\ NewRow(kind, o, key) \in Row /\ NewRow(kind, o, key).ver = table[o].ver + 1
         /\ NewRow(kind, o, key).ver <= next
         /\ (kind = "delete" <=> NewRow(kind, o, key).key = NoKey)
         /\ next + Cardinality(WrittenTxs) <= MaxEvent
         /\ tx'[t].kind = kind /\ tx'[t].obj = o /\ tx'[t].row = NewRow(kind, o, key)
         /\ tx'[t].id = 0 /\ tx'[t].state = "written" /\ tx'[t] \in OpenTx
         /\ \A u \in Txs \ {t} : tx'[u] = tx[u]
<1>1. next + Cardinality(WrittenTxs) <= MaxEvent
  BY DEF WriteObject, WrittenTxs
<1>2. Cardinality(WrittenTxs) \in Nat /\ next \in Nat /\ table[o].ver \in Nat /\ MaxEvent \in Nat
  BY RoomFacts, NumberType DEF DBInv
<1>3. table[o].ver < next
  BY DEF DBInv, RowOf
<1>4. NewRow(kind, o, key).ver = table[o].ver + 1
      /\ NewRow(kind, o, key).key = (IF kind = "delete" THEN NoKey ELSE key)
  BY DEF NewRow
<1>5. NewRow(kind, o, key) \in Row
  <2>1. table[o].ver + 1 \in 0..MaxEvent
    BY <1>1, <1>2, <1>3
  <2>2. NewRow(kind, o, key) = [ver |-> table[o].ver + 1,
                                key |-> IF kind = "delete" THEN NoKey ELSE key]
    BY DEF NewRow
  <2>3. (IF kind = "delete" THEN NoKey ELSE key) \in Keys \cup {NoKey}
    OBVIOUS
  <2> QED BY <2>1, <2>2, <2>3 DEF Row
<1>6. /\ tx'[t] = [state |-> "written", kind |-> kind, obj |-> o,
                   row |-> NewRow(kind, o, key), id |-> 0]
      /\ \A u \in Txs \ {t} : tx'[u] = tx[u]
  BY DEF WriteObject, TypeOK
<1>7. tx'[t] \in OpenTx
  <2>1. 0 \in 0..MaxEvent
    BY <1>2
  <2> QED BY <1>5, <1>6, <2>1 DEF OpenTx
<1>8. NewRow(kind, o, key).ver <= next
  BY <1>2, <1>3, <1>4
<1>9. kind = "delete" <=> NewRow(kind, o, key).key = NoKey
  BY <1>4, StoreAssumption
<1>10. /\ tx'[t].kind = kind /\ tx'[t].obj = o /\ tx'[t].row = NewRow(kind, o, key)
       /\ tx'[t].id = 0 /\ tx'[t].state = "written"
  BY <1>6
<1> QED BY <1>1, <1>4, <1>5, <1>6, <1>7, <1>8, <1>9, <1>10

\* An open transaction has its fields.
LEMMA TxType ==
  ASSUME TypeOK, NEW t \in Txs, tx[t].state # "none"
  PROVE  /\ tx[t] \in OpenTx /\ tx[t].kind \in Kinds /\ tx[t].obj \in Objects
         /\ tx[t].row \in Row /\ tx[t].row.ver \in Nat /\ tx[t].id \in Nat
         /\ tx[t].state \in {"written", "logged"}
<1>1. tx[t] \in OpenTx
  BY DEF TypeOK, NoTx
<1>2. /\ tx[t].kind \in Kinds /\ tx[t].obj \in Objects /\ tx[t].row \in Row
      /\ tx[t].id \in 0..MaxEvent /\ tx[t].state \in {"written", "logged"}
  BY <1>1 DEF OpenTx
<1>3. tx[t].row.ver \in Nat
  BY <1>2, StoreAssumption DEF Row
<1> QED BY <1>1, <1>2, <1>3, StoreAssumption

\* createEvent takes the next ID, of which there is one left.
LEMMA LoggedEvent ==
  ASSUME TypeOK, DBInv, NEW t \in Txs, CreateEvent(t)
  PROVE  /\ next \in EventIDs /\ next \notin DOMAIN log /\ next' = next + 1
         /\ DOMAIN log' = DOMAIN log \cup {next}
         /\ \A x \in DOMAIN log : log'[x] = log[x]
         /\ log'[next].kind = tx[t].kind /\ log'[next].obj = tx[t].obj
         /\ log'[next].row = tx[t].row /\ log'[next] \in Event
         /\ tx'[t] \in OpenTx /\ tx'[t].state = "logged" /\ tx'[t].id = next
         /\ tx'[t].kind = tx[t].kind /\ tx'[t].obj = tx[t].obj /\ tx'[t].row = tx[t].row
         /\ \A u \in Txs \ {t} : tx'[u] = tx[u]
<1>1. t \in WrittenTxs /\ tx[t].state = "written"
  BY DEF CreateEvent, WrittenTxs
<1>2. next \in EventIDs
  <2>1. Cardinality(WrittenTxs) \in Nat /\ Cardinality(WrittenTxs) >= 1
    BY <1>1, RoomFacts DEF DBInv
  <2> QED BY <2>1, NumberType DEF DBInv, RoomForEvents, EventIDs
<1>3. next \notin DOMAIN log
  BY NumberType DEF TypeOK
<1>4. DOMAIN log' = DOMAIN log \cup {next} /\ next' = next + 1
  BY DEF CreateEvent
<1>5. \A x \in DOMAIN log : log'[x] = log[x]
  BY <1>3 DEF CreateEvent
<1>6. log'[next] = [kind |-> tx[t].kind, obj |-> tx[t].obj, row |-> tx[t].row]
  BY DEF CreateEvent
<1>7. log'[next] \in Event
  BY <1>1, <1>6, TxType DEF Event
<1>8. /\ tx'[t] = [tx[t] EXCEPT !.state = "logged", !.id = next]
      /\ \A u \in Txs \ {t} : tx'[u] = tx[u]
  BY DEF CreateEvent, TypeOK
<1>9. tx[t] \in OpenTx
  BY <1>1, TxType
<1>10. /\ tx'[t] \in OpenTx /\ tx'[t].state = "logged" /\ tx'[t].id = next
       /\ tx'[t].kind = tx[t].kind /\ tx'[t].obj = tx[t].obj /\ tx'[t].row = tx[t].row
  <2>1. next \in 0..MaxEvent
    BY <1>2, StoreAssumption DEF EventIDs
  <2> QED BY <1>8, <1>9, <2>1 DEF OpenTx
<1>11. /\ log'[next].kind = tx[t].kind /\ log'[next].obj = tx[t].obj
       /\ log'[next].row = tx[t].row
  BY <1>6
<1> QED BY <1>2, <1>3, <1>4, <1>5, <1>7, <1>8, <1>10, <1>11

\* What the end of a transaction leaves of it.
LEMMA ClosedTx ==
  ASSUME TypeOK, NEW t \in Txs, tx' = [tx EXCEPT ![t] = NoTx]
  PROVE  /\ tx'[t] = NoTx /\ tx'[t].state = "none" /\ \A u \in Txs \ {t} : tx'[u] = tx[u]
         /\ tx' \in [Txs -> OpenTx \cup {NoTx}]
BY DEF TypeOK, NoTx

\* The event that is replayed.
LEMMA ConsumedEvent ==
  ASSUME TypeOK, DBInv, FeedInv, NEW p \in Procs, ConsumeEvent(p)
  PROVE  \E id \in batch :
           /\ id \in Pending /\ id \in committed /\ id \notin delivered
           /\ \A x \in batch : id <= x
           /\ batch' = batch \ {id} /\ delivered' = delivered \cup {id}
           /\ Pending' = Pending \ {id}
           /\ objects' = [objects EXCEPT ![log[id].obj] = log[id].row]
           /\ \/ /\ log[id].kind = "create"
                 /\ index' = index \cup {<<log[id].row.key, log[id].obj>>}
              \/ /\ log[id].kind = "delete"
                 /\ index' = index \ {<<objects[log[id].obj].key, log[id].obj>>}
              \/ /\ log[id].kind = "update"
                 /\ index' = (index \ {<<objects[log[id].obj].key, log[id].obj>>})
                               \cup {<<log[id].row.key, log[id].obj>>}
<1>1. PICK id \in batch :
           /\ \A x \in batch : id <= x
           /\ batch' = batch \ {id} /\ delivered' = delivered \cup {id}
           /\ objects' = [objects EXCEPT ![log[id].obj] = log[id].row]
           /\ index' = CASE log[id].kind = "create" -> OnCreateIndex(index, log[id])
                         [] log[id].kind = "delete" -> OnDeleteIndex(index, log[id])
                         [] log[id].kind = "update" -> OnUpdateIndex(index, log[id])
  BY DEF ConsumeEvent
<1>2. id \in Pending /\ id \in committed /\ id \notin delivered
  BY DEF FeedInv, Pending
<1>3. log[id].kind \in {"create", "update", "delete"}
  BY <1>2, EventType DEF DBInv, Kinds
<1>4. \/ log[id].kind = "create" /\ index' = OnCreateIndex(index, log[id])
      \/ log[id].kind = "delete" /\ index' = OnDeleteIndex(index, log[id])
      \/ log[id].kind = "update" /\ index' = OnUpdateIndex(index, log[id])
  BY <1>1, <1>3
<1>5. \/ /\ log[id].kind = "create"
         /\ index' = index \cup {<<log[id].row.key, log[id].obj>>}
      \/ /\ log[id].kind = "delete"
         /\ index' = index \ {<<objects[log[id].obj].key, log[id].obj>>}
      \/ /\ log[id].kind = "update"
         /\ index' = (index \ {<<objects[log[id].obj].key, log[id].obj>>})
                       \cup {<<log[id].row.key, log[id].obj>>}
  BY <1>4 DEF OnCreateIndex, OnDeleteIndex, OnUpdateIndex
<1>6. Pending' = Pending \ {id}
  BY <1>1, <1>2 DEF Pending, ConsumeEvent, tables
<1> QED BY <1>1, <1>2, <1>5, <1>6

\* What a failed sync does to its goroutine, and to the request it runs for.
LEMMA FailedSync ==
  ASSUME TypeOK, NEW p \in Procs, SyncFail(p)
  PROVE  /\ pc' = [pc EXCEPT ![p] = IF p = Loop THEN "ready" ELSE "idle"]
         /\ \A q \in Readers : q # p => since'[q] = since[q] /\ known'[q] = known[q]
         /\ p # Loop => since'[p] = 0 /\ known'[p] = [o \in Objects |-> 0]
         /\ since' \in [Readers -> 0..MaxTime] /\ known' \in [Readers -> [Objects -> 0..MaxEvent]]
<1>1. CASE p = Loop
  <2>1. pc' = [pc EXCEPT ![p] = "ready"] /\ UNCHANGED request
    BY <1>1 DEF SyncFail
  <2> QED BY <1>1, <2>1, StoreAssumption DEF request, TypeOK
<1>2. CASE p # Loop
  <2>1. p \in Readers /\ EndRequest(p)
    BY <1>2 DEF SyncFail, Procs
  <2>2. 0 \in 0..MaxTime /\ [o \in Objects |-> 0] \in [Objects -> 0..MaxEvent]
    BY StoreAssumption
  <2> QED BY <1>2, <2>1, <2>2 DEF EndRequest, TypeOK
<1> QED BY <1>1, <1>2

\* The end of a request, in Get.
LEMMA EndedRequest ==
  ASSUME TypeOK, NEW p \in Readers, EndRequest(p)
  PROVE  /\ \A q \in Readers : q # p => since'[q] = since[q] /\ known'[q] = known[q]
         /\ since'[p] = 0 /\ known'[p] = [o \in Objects |-> 0]
         /\ since' \in [Readers -> 0..MaxTime] /\ known' \in [Readers -> [Objects -> 0..MaxEvent]]
<1>1. 0 \in 0..MaxTime /\ [o \in Objects |-> 0] \in [Objects -> 0..MaxEvent]
  BY StoreAssumption
<1> QED BY <1>1 DEF EndRequest, TypeOK

\* Every step keeps the types.
LEMMA TypeStep ==
  ASSUME IInv, Next
  PROVE  TypeOK'
<1> USE DEF IInv
<1> DEFINE PCs == {"initEvents", "initObjects", "ready", "idle", "check",
                   "sync", "lock", "apply", "stamp", "read"}
<1>a. /\ MaxTime \in Nat /\ MaxEvent \in Nat /\ 0 \in 0..MaxTime
      /\ Loop \in Procs /\ Readers \subseteq Procs
  BY StoreAssumption DEF Procs
<1>1. ASSUME Tick PROVE TypeOK'
  BY <1>1, <1>a DEF Tick, TypeOK, tables, cache, consumer, request
<1>2. ASSUME NEW t \in Txs, NEW kind \in Kinds, NEW o \in Objects, NEW key \in Keys,
             WriteObject(t, kind, o, key)
      PROVE TypeOK'
  <2>1. tx'[t] \in OpenTx /\ \A u \in Txs \ {t} : tx'[u] = tx[u]
    BY <1>2, WrittenRow
  <2>2. tx' \in [Txs -> OpenTx \cup {NoTx}]
    BY <1>2, <2>1 DEF WriteObject, TypeOK
  <2> QED BY <1>2, <2>2 DEF WriteObject, TypeOK, cache, consumer, request
<1>3. ASSUME NEW t \in Txs, CreateEvent(t) PROVE TypeOK'
  <2>1. tx' \in [Txs -> OpenTx \cup {NoTx}]
    <3>1. tx'[t] \in OpenTx /\ \A u \in Txs \ {t} : tx'[u] = tx[u]
      BY <1>3, LoggedEvent
    <3> QED BY <1>3, <3>1 DEF CreateEvent, TypeOK
  <2>2. next' \in 1..(MaxEvent + 1)
    <3>1. next' = next + 1 /\ next \in 1..MaxEvent
      BY <1>3, LoggedEvent DEF EventIDs
    <3> QED BY <3>1, <1>a
  <2>3. DOMAIN log' \subseteq 1..(next' - 1)
    <3>1. DOMAIN log' = DOMAIN log \cup {next} /\ next' = next + 1 /\ next \in EventIDs
      BY <1>3, LoggedEvent
    <3> QED BY <3>1, StoreAssumption DEF EventIDs, TypeOK
  <2>4. \A id \in DOMAIN log' : log'[id] \in Event
    <3>1. /\ DOMAIN log' = DOMAIN log \cup {next} /\ log'[next] \in Event
          /\ \A x \in DOMAIN log : log'[x] = log[x]
      BY <1>3, LoggedEvent
    <3> QED BY <3>1 DEF TypeOK
  <2> QED BY <1>3, <2>1, <2>2, <2>3, <2>4 DEF CreateEvent, TypeOK, cache, consumer, request
<1>4. ASSUME NEW t \in Txs, Commit(t) PROVE TypeOK'
  <2>1. tx[t].state # "none" /\ tx[t].row \in Row /\ tx[t].obj \in Objects
    BY <1>4, TxType DEF Commit
  <2>2. tx[t].id \in EventIDs
    <3>1. tx[t].id \in DOMAIN log /\ DOMAIN log \subseteq 1..(next - 1)
      BY <1>4, <2>1 DEF Commit, DBInv, TxOf, TypeOK
    <3> QED BY <3>1, NumberType DEF EventIDs
  <2>3. tx' \in [Txs -> OpenTx \cup {NoTx}]
    BY <1>4, ClosedTx DEF Commit
  <2> QED BY <1>4, <2>1, <2>2, <2>3 DEF Commit, TypeOK, cache, consumer, request
<1>5. ASSUME NEW t \in Txs, Rollback(t) PROVE TypeOK'
  <2>1. tx' \in [Txs -> OpenTx \cup {NoTx}]
    BY <1>5, ClosedTx DEF Rollback
  <2>2. /\ DOMAIN log' = DOMAIN log \ {tx[t].id}
        /\ \A x \in DOMAIN log' : log'[x] = log[x]
    BY <1>5 DEF Rollback
  <2>3. DOMAIN log' \subseteq 1..(next - 1) /\ \A id \in DOMAIN log' : log'[id] \in Event
    BY <2>2 DEF TypeOK
  <2> QED BY <1>5, <2>1, <2>3 DEF Rollback, TypeOK, cache, consumer, request
<1>6. ASSUME InitEvents PROVE TypeOK'
  BY <1>6, <1>a DEF InitEvents, TypeOK, tables, consumer, request
<1>7. ASSUME InitObjects PROVE TypeOK'
  <2>1. IndexOf(table) \subseteq Keys \X Objects
    BY DEF IndexOf, TypeOK, Row
  <2> QED BY <1>7, <1>a, <2>1 DEF InitObjects, TypeOK, tables, consumer, request
<1>8. ASSUME NEW p \in Procs, SyncBegin(p) PROVE TypeOK'
  BY <1>8, <1>a DEF SyncBegin, TypeOK, tables, cache, consumer, request
<1>9. ASSUME NEW p \in Procs, LoadEvents(p) PROVE TypeOK'
  BY <1>9, <1>a DEF LoadEvents, TypeOK, tables, cache, request
<1>10. ASSUME NEW p \in Procs, ConsumeEvent(p) PROVE TypeOK'
  <2>1. PICK id \in batch :
           /\ id \in committed /\ batch' = batch \ {id} /\ delivered' = delivered \cup {id}
           /\ objects' = [objects EXCEPT ![log[id].obj] = log[id].row]
           /\ \/ /\ log[id].kind = "create"
                 /\ index' = index \cup {<<log[id].row.key, log[id].obj>>}
              \/ /\ log[id].kind = "delete"
                 /\ index' = index \ {<<objects[log[id].obj].key, log[id].obj>>}
              \/ /\ log[id].kind = "update"
                 /\ index' = (index \ {<<objects[log[id].obj].key, log[id].obj>>})
                               \cup {<<log[id].row.key, log[id].obj>>}
    BY <1>10, ConsumedEvent DEF CacheInv
  <2>2. /\ log[id].obj \in Objects /\ log[id].row \in Row /\ id \in EventIDs
        /\ log[id].row.key \in Keys \cup {NoKey}
    BY <2>1, EventType DEF DBInv
  <2>3. log[id].kind # "delete" => log[id].row.key \in Keys
    BY <2>1, <2>2 DEF DBInv, LogInv
  <2>4. index' \subseteq Keys \X Objects
    BY <2>1, <2>2, <2>3 DEF TypeOK
  <2>5. objects' \in [Objects -> Row]
    BY <2>1, <2>2 DEF TypeOK
  <2> QED BY <1>10, <2>1, <2>2, <2>4, <2>5 DEF ConsumeEvent, TypeOK, tables, request
<1>11. ASSUME NEW p \in Procs, ConsumeEnd(p) PROVE TypeOK'
  BY <1>11, <1>a DEF ConsumeEnd, TypeOK, tables, cache, request
<1>12. ASSUME NEW p \in Procs, UpdateSync(p) PROVE TypeOK'
  <2>1. pc' \in [Procs -> PCs]
    BY <1>12 DEF UpdateSync, TypeOK
  <2> QED BY <1>12, <1>a, <2>1 DEF UpdateSync, TypeOK, tables, cache, consumer, request
<1>13. ASSUME NEW p \in Procs, SyncFail(p) PROVE TypeOK'
  <2>1. pc' \in [Procs -> PCs]
    BY <1>13, FailedSync DEF TypeOK
  <2>2. since' \in [Readers -> 0..MaxTime] /\ known' \in [Readers -> [Objects -> 0..MaxEvent]]
    BY <1>13, FailedSync
  <2> QED BY <1>13, <1>a, <2>1, <2>2 DEF SyncFail, TypeOK, tables, cache
<1>14. ASSUME NEW p \in Readers, WithSync(p) PROVE TypeOK'
  <2>1. [o \in Objects |-> table[o].ver] \in [Objects -> 0..MaxEvent]
    BY DEF TypeOK, Row
  <2> QED BY <1>14, <1>a, <2>1 DEF WithSync, TypeOK, tables, cache, consumer
<1>15. ASSUME NEW p \in Readers, TrySync(p) PROVE TypeOK'
  <2>1. pc' \in [Procs -> PCs]
    BY <1>15 DEF TrySync, TypeOK
  <2> QED BY <1>15, <1>a, <2>1 DEF TrySync, TypeOK, tables, cache, consumer, request
<1>16. ASSUME NEW p \in Readers, Get(p) PROVE TypeOK'
  <2>1. pc' \in [Procs -> PCs]
    BY <1>16, <1>a DEF Get, EndRequest, TypeOK
  <2>2. since' \in [Readers -> 0..MaxTime] /\ known' \in [Readers -> [Objects -> 0..MaxEvent]]
    BY <1>16, EndedRequest DEF Get
  <2> QED BY <1>16, <1>a, <2>1, <2>2 DEF Get, TypeOK, tables, cache, consumer
<1> QED BY <1>1, <1>2, <1>3, <1>4, <1>5, <1>6, <1>7, <1>8, <1>9, <1>10, <1>11, <1>12,
           <1>13, <1>14, <1>15, <1>16 DEF Next

--------------------------------------------------------------------------------
(* The database: transactions, log and table *)

\* Nothing about the database changes without its tables.
LEMMA TablesFrame ==
  ASSUME DBInv, UNCHANGED tables
  PROVE  DBInv'
<1>1. \A t \in Txs : TxOf(t)'
  BY DEF DBInv, tables, TxOf
<1>2. OneWriter' /\ RoomForEvents'
  BY DEF DBInv, tables, OneWriter, RoomForEvents, WrittenTxs
<1>3. LogInv'
  BY DEF DBInv, tables, LogInv
<1>4. \A o \in Objects : RowOf(o)'
  BY DEF DBInv, tables, RowOf
<1> QED BY <1>1, <1>2, <1>3, <1>4 DEF DBInv

\* A transaction keeps what it knows while its row, its event and the events
\* before it stay.
LEMMA TxFrame ==
  ASSUME TypeOK, DBInv, NEW u \in Txs, tx'[u] = tx[u], next' \in Nat, next <= next',
         tx[u].state # "none" => table'[tx[u].obj] = table[tx[u].obj],
         tx[u].state = "logged" =>
            /\ tx[u].id \in DOMAIN log' /\ tx[u].id \notin committed'
            /\ log'[tx[u].id] = log[tx[u].id]
            /\ \A x \in committed' :
                 log'[x].obj = tx[u].obj => x \in committed /\ log[x].obj = tx[u].obj
  PROVE  TxOf(u)'
<1> SUFFICES ASSUME tx[u].state # "none" PROVE TxOf(u)'
  BY DEF TxOf
<1>1. TxOf(u)
  BY DEF DBInv
<1>2. tx[u].row.ver \in Nat /\ tx[u].row.ver <= next' /\ next \in Nat
  BY <1>1, TxType, NumberType DEF TxOf
<1>3. /\ tx[u] \in OpenTx
      /\ tx[u].row.ver = table'[tx[u].obj].ver + 1
      /\ (tx[u].kind = "create" => table'[tx[u].obj].key = NoKey)
      /\ (tx[u].kind = "delete" <=> tx[u].row.key = NoKey)
      /\ (tx[u].state = "written" => tx[u].id = 0)
  BY <1>1 DEF TxOf
<1>4. tx[u].state = "logged" =>
        /\ tx[u].id \in DOMAIN log' /\ tx[u].id \notin committed' /\ tx[u].row.ver <= tx[u].id
        /\ log'[tx[u].id].kind = tx[u].kind /\ log'[tx[u].id].obj = tx[u].obj
        /\ log'[tx[u].id].row = tx[u].row
        /\ \A x \in committed' : log'[x].obj = tx[u].obj => x < tx[u].id
  BY <1>1 DEF TxOf
<1> QED BY <1>2, <1>3, <1>4 DEF TxOf

\* What is visible stays, in a step inside a transaction.
PrivateStep ==
    /\ committed' = committed /\ table' = table /\ next' \in Nat /\ next <= next'
    /\ committed \subseteq DOMAIN log' /\ \A x \in committed : log'[x] = log[x]

\* Then so does the history of the table.
LEMMA HistoryFrame ==
  ASSUME TypeOK, DBInv, PrivateStep
  PROVE  LogInv' /\ \A o \in Objects : RowOf(o)'
<1>1. LogInv'
  BY DEF DBInv, LogInv, PrivateStep
<1>2. ASSUME NEW o \in Objects PROVE RowOf(o)'
  <2>1. table[o].ver < next' /\ table[o].ver \in Nat
    BY NumberType DEF PrivateStep, DBInv, RowOf
  <2> QED BY <2>1 DEF DBInv, RowOf, PrivateStep
<1> QED BY <1>1, <1>2

\* A row is written: it was not locked, and its event still has an ID.
LEMMA WriteObjectDB ==
  ASSUME IInv, NEW t \in Txs, NEW kind \in Kinds, NEW o \in Objects, NEW key \in Keys,
         WriteObject(t, kind, o, key)
  PROVE  DBInv' /\ PrivateStep
<1> USE DEF IInv
<1>1. PrivateStep
  BY NumberType DEF WriteObject, PrivateStep, DBInv, LogInv
<1>2. ASSUME NEW u \in Txs PROVE TxOf(u)'
  <2>1. CASE u = t
    <3>1. /\ tx'[t].kind = kind /\ tx'[t].obj = o /\ tx'[t].row = NewRow(kind, o, key)
          /\ tx'[t].id = 0 /\ tx'[t].state = "written" /\ tx'[t] \in OpenTx
      BY WrittenRow
    <3>2. kind = "create" => table[o].key = NoKey
      BY DEF WriteObject
    <3>3. table' = table /\ next' = next
      BY DEF WriteObject
    <3> QED BY <2>1, <3>1, <3>2, <3>3, WrittenRow DEF TxOf
  <2>2. CASE u # t
    <3>1. tx'[u] = tx[u] /\ next' = next /\ next \in Nat
      BY <2>2, WrittenRow, NumberType DEF WriteObject
    <3>2. table' = table /\ log' = log /\ committed' = committed
      BY DEF WriteObject
    <3>3. tx[u].state = "logged" => tx[u].id \in DOMAIN log /\ tx[u].id \notin committed
      BY DEF DBInv, TxOf
    <3> QED BY <3>1, <3>2, <3>3, TxFrame
  <2> QED BY <2>1, <2>2
<1>3. OneWriter'
  <2>1. \A u \in Txs : tx[u].state # "none" => tx[u].obj # o
    BY DEF WriteObject, Locked
  <2>2. tx'[t].obj = o /\ \A u \in Txs \ {t} : tx'[u] = tx[u]
    BY WrittenRow
  <2> QED BY <2>1, <2>2 DEF DBInv, OneWriter
<1>4. RoomForEvents'
  <2>1. tx[t].state = "none" /\ tx'[t].state = "written" /\ \A u \in Txs \ {t} : tx'[u] = tx[u]
    BY WrittenRow DEF WriteObject
  <2>2. t \notin WrittenTxs /\ WrittenTxs' = WrittenTxs \cup {t}
    BY <2>1 DEF WrittenTxs
  <2>3. IsFiniteSet(WrittenTxs)
    BY DEF DBInv, RoomForEvents
  <2>4. IsFiniteSet(WrittenTxs') /\ Cardinality(WrittenTxs') = Cardinality(WrittenTxs) + 1
    BY <2>2, <2>3, FS_AddElement
  <2>5. next + Cardinality(WrittenTxs) <= MaxEvent /\ Cardinality(WrittenTxs) \in Nat
        /\ next \in Nat /\ MaxEvent \in Nat /\ next' = next
    BY WrittenRow, RoomFacts, NumberType DEF DBInv, WriteObject
  <2> QED BY <2>4, <2>5 DEF RoomForEvents
<1> QED BY <1>1, <1>2, <1>3, <1>4, HistoryFrame DEF DBInv

\* An event is inserted: it follows every visible one.
LEMMA CreateEventDB ==
  ASSUME IInv, NEW t \in Txs, CreateEvent(t)
  PROVE  DBInv' /\ PrivateStep
<1> USE DEF IInv
<1>a. /\ next \in Nat /\ next' = next + 1 /\ table' = table /\ committed' = committed
      /\ DOMAIN log' = DOMAIN log \cup {next} /\ \A x \in DOMAIN log : log'[x] = log[x]
  BY LoggedEvent, NumberType DEF CreateEvent
<1>b. committed \subseteq DOMAIN log /\ tx[t].state = "written"
  BY DEF DBInv, LogInv, CreateEvent
<1>1. PrivateStep
  BY <1>a, <1>b DEF PrivateStep
<1>2. ASSUME NEW u \in Txs PROVE TxOf(u)'
  <2>1. CASE u = t
    <3>1. TxOf(t) /\ tx[t].row.ver \in Nat
      BY <1>b, TxType DEF DBInv
    <3>2. /\ tx'[t] \in OpenTx /\ tx'[t].state = "logged" /\ tx'[t].id = next
          /\ tx'[t].kind = tx[t].kind /\ tx'[t].obj = tx[t].obj /\ tx'[t].row = tx[t].row
      BY LoggedEvent
    <3>3. /\ log'[next].kind = tx[t].kind /\ log'[next].obj = tx[t].obj
          /\ log'[next].row = tx[t].row /\ next \notin DOMAIN log
      BY LoggedEvent
    <3>4. \A x \in committed : x < next
      BY EventType DEF DBInv
    <3>5. /\ tx[t].row.ver = table[tx[t].obj].ver + 1 /\ tx[t].row.ver <= next
          /\ (tx[t].kind = "create" => table[tx[t].obj].key = NoKey)
          /\ (tx[t].kind = "delete" <=> tx[t].row.key = NoKey)
      BY <1>b, <3>1 DEF TxOf
    <3>6. tx[t].row.ver <= next'
      BY <1>a, <3>1, <3>5
    <3> QED BY <1>a, <1>b, <2>1, <3>2, <3>3, <3>4, <3>5, <3>6 DEF TxOf
  <2>2. CASE u # t
    <3>1. tx'[u] = tx[u]
      BY <2>2, LoggedEvent
    <3>2. tx[u].state = "logged" => tx[u].id \in DOMAIN log /\ tx[u].id \notin committed
      BY DEF DBInv, TxOf
    <3>3. next' \in Nat /\ next <= next'
      BY <1>a
    <3> QED BY <1>a, <1>b, <3>1, <3>2, <3>3, TxFrame
  <2> QED BY <2>1, <2>2
<1>3. OneWriter'
  <2>1. tx[t].state # "none" /\ tx'[t].obj = tx[t].obj /\ \A u \in Txs \ {t} : tx'[u] = tx[u]
    BY <1>b, LoggedEvent
  <2> QED BY <2>1 DEF DBInv, OneWriter
<1>4. RoomForEvents'
  <2>1. tx'[t].state = "logged" /\ \A u \in Txs \ {t} : tx'[u] = tx[u]
    BY LoggedEvent
  <2>2. t \in WrittenTxs /\ WrittenTxs' = WrittenTxs \ {t}
    BY <1>b, <2>1 DEF WrittenTxs
  <2>3. IsFiniteSet(WrittenTxs) /\ next + Cardinality(WrittenTxs) <= MaxEvent + 1
    BY DEF DBInv, RoomForEvents
  <2>4. IsFiniteSet(WrittenTxs') /\ Cardinality(WrittenTxs') = Cardinality(WrittenTxs) - 1
    BY <2>2, <2>3, FS_RemoveElement
  <2>5. Cardinality(WrittenTxs) \in Nat /\ MaxEvent \in Nat
    BY RoomFacts, NumberType DEF DBInv
  <2> QED BY <1>a, <2>3, <2>4, <2>5 DEF RoomForEvents
<1> QED BY <1>1, <1>2, <1>3, <1>4, HistoryFrame DEF DBInv

\* A rolled back event was never visible.
LEMMA RollbackDB ==
  ASSUME IInv, NEW t \in Txs, Rollback(t)
  PROVE  DBInv' /\ PrivateStep
<1> USE DEF IInv
<1>a. /\ next' = next /\ next \in Nat /\ table' = table /\ committed' = committed
      /\ DOMAIN log' = DOMAIN log \ {tx[t].id}
      /\ \A x \in DOMAIN log \ {tx[t].id} : log'[x] = log[x]
  BY NumberType DEF Rollback
<1>b. /\ tx[t].state \in {"written", "logged"} /\ tx'[t].state = "none"
      /\ \A u \in Txs \ {t} : tx'[u] = tx[u]
  BY TxType, ClosedTx DEF Rollback
<1>c. 0 \notin DOMAIN log
  BY NumberType DEF TypeOK
<1>d. tx[t].id \notin committed
  BY <1>b, <1>c DEF DBInv, TxOf, LogInv
<1>1. PrivateStep
  BY <1>a, <1>d DEF PrivateStep, DBInv, LogInv
<1>2. ASSUME NEW u \in Txs PROVE TxOf(u)'
  <2>1. CASE u = t
    BY <1>b, <2>1 DEF TxOf
  <2>2. CASE u # t
    <3>1. tx[u].state = "logged" =>
            tx[u].id \in DOMAIN log /\ tx[u].id \notin committed /\ log[tx[u].id].obj = tx[u].obj
      BY DEF DBInv, TxOf
    <3>2. tx[u].state = "logged" => tx[u].id # tx[t].id
      <4>1. tx[t].state = "logged" => log[tx[t].id].obj = tx[t].obj
        BY DEF DBInv, TxOf
      <4>2. tx[t].state = "written" => tx[t].id = 0
        BY DEF DBInv, TxOf
      <4>3. tx[u].state = "logged" => tx[u].obj # tx[t].obj
        BY <1>b, <2>2 DEF DBInv, OneWriter
      <4> QED BY <1>b, <1>c, <3>1, <4>1, <4>2, <4>3
    <3>3. \A x \in committed : log'[x] = log[x]
      BY <1>1 DEF PrivateStep
    <3>4. tx[u].state = "logged" => tx[u].id \in DOMAIN log' /\ log'[tx[u].id] = log[tx[u].id]
      BY <1>a, <3>1, <3>2
    <3>5. next' \in Nat /\ next <= next' /\ tx'[u] = tx[u]
      BY <1>a, <1>b, <2>2
    <3> QED BY <1>a, <3>1, <3>3, <3>4, <3>5, TxFrame
  <2> QED BY <2>1, <2>2
<1>3. OneWriter'
  BY <1>b DEF DBInv, OneWriter
<1>4. RoomForEvents'
  <2>1. WrittenTxs' = WrittenTxs \ {t}
    BY <1>b DEF WrittenTxs
  <2>2. IsFiniteSet(WrittenTxs) /\ next + Cardinality(WrittenTxs) <= MaxEvent + 1
    BY DEF DBInv, RoomForEvents
  <2>3. Cardinality(WrittenTxs) \in Nat /\ MaxEvent \in Nat
    BY RoomFacts, NumberType DEF DBInv
  <2>4. CASE t \in WrittenTxs
    <3>1. IsFiniteSet(WrittenTxs') /\ Cardinality(WrittenTxs') = Cardinality(WrittenTxs) - 1
      BY <2>1, <2>2, <2>4, FS_RemoveElement
    <3> QED BY <1>a, <2>2, <2>3, <3>1 DEF RoomForEvents
  <2>5. CASE t \notin WrittenTxs
    <3>1. WrittenTxs' = WrittenTxs
      BY <2>1, <2>5
    <3> QED BY <1>a, <2>2, <3>1 DEF RoomForEvents
  <2> QED BY <2>4, <2>5
<1> QED BY <1>1, <1>2, <1>3, <1>4, HistoryFrame DEF DBInv

\* The table holds the latest version of a row.
LEMMA LatestVersion ==
  ASSUME TypeOK, DBInv, NEW o \in Objects, NEW x \in committed, log[x].obj = o
  PROVE  /\ log[x].row.ver <= table[o].ver
         /\ \/ log[x].row = table[o]
            \/ \E z \in committed : log[z].obj = o /\ x < z
<1>1. PICK y \in committed : /\ log[y].obj = o /\ log[y].row = table[o]
                             /\ \A z \in committed : log[z].obj = o => z <= y
  BY DEF DBInv, RowOf
<1>2. x \in Nat /\ y \in Nat /\ log[x].row.ver \in Nat /\ log[y].row.ver \in Nat /\ x <= y
  BY <1>1, EventType DEF DBInv
<1>3. x < y => log[x].row.ver < log[y].row.ver
  BY <1>1 DEF DBInv, LogInv
<1>4. CASE x = y
  BY <1>1, <1>2, <1>4
<1>5. CASE x < y
  BY <1>1, <1>2, <1>3, <1>5
<1> QED BY <1>2, <1>4, <1>5

\* A commit makes one event visible, the last of its object, and its row.
LEMMA CommittedEvent ==
  ASSUME TypeOK, DBInv, NEW t \in Txs, Commit(t)
  PROVE  \E e \in EventIDs, b \in Objects :
           /\ b = tx[t].obj /\ e \in DOMAIN log /\ e \notin committed /\ e < next
           /\ committed' = committed \cup {e} /\ log' = log /\ next' = next
           /\ log[e].obj = b /\ log[e].row \in Row /\ table' = [table EXCEPT ![b] = log[e].row]
           /\ log[e].row.ver = table[b].ver + 1 /\ log[e].row.ver <= e
           /\ (log[e].kind = "create" => table[b].key = NoKey)
           /\ (log[e].kind = "delete" <=> log[e].row.key = NoKey)
           /\ \A x \in committed : log[x].obj = b => x < e
<1>1. tx[t].state = "logged" /\ TxOf(t)
  BY DEF Commit, DBInv
<1>2. tx[t].obj \in Objects /\ tx[t].row \in Row
  BY <1>1, TxType
<1>3. tx[t].id \in DOMAIN log /\ tx[t].id \notin committed /\ log[tx[t].id].obj = tx[t].obj
      /\ log[tx[t].id].row = tx[t].row /\ log[tx[t].id].kind = tx[t].kind
      /\ \A x \in committed : log[x].obj = tx[t].obj => x < tx[t].id
  BY <1>1 DEF TxOf
<1>4. tx[t].id \in EventIDs /\ tx[t].id < next
  <2>1. DOMAIN log \subseteq 1..(next - 1) /\ next \in Nat /\ next <= MaxEvent + 1
    BY NumberType DEF TypeOK
  <2> QED BY <1>3, <2>1, StoreAssumption DEF EventIDs
<1>5. /\ tx[t].row.ver = table[tx[t].obj].ver + 1 /\ tx[t].row.ver <= tx[t].id
      /\ (tx[t].kind = "create" => table[tx[t].obj].key = NoKey)
      /\ (tx[t].kind = "delete" <=> tx[t].row.key = NoKey)
  BY <1>1 DEF TxOf
<1>6. /\ committed' = committed \cup {tx[t].id} /\ log' = log /\ next' = next
      /\ table' = [table EXCEPT ![tx[t].obj] = tx[t].row]
  BY DEF Commit
<1> QED BY <1>2, <1>3, <1>4, <1>5, <1>6

\* The commit extends the history of its object.
LEMMA CommitDB ==
  ASSUME IInv, NEW t \in Txs, Commit(t)
  PROVE  DBInv'
<1> USE DEF IInv
<1>1. PICK e \in EventIDs, b \in Objects :
           /\ b = tx[t].obj /\ e \in DOMAIN log /\ e \notin committed /\ e < next
           /\ committed' = committed \cup {e} /\ log' = log /\ next' = next
           /\ log[e].obj = b /\ log[e].row \in Row /\ table' = [table EXCEPT ![b] = log[e].row]
           /\ log[e].row.ver = table[b].ver + 1 /\ log[e].row.ver <= e
           /\ (log[e].kind = "create" => table[b].key = NoKey)
           /\ (log[e].kind = "delete" <=> log[e].row.key = NoKey)
           /\ \A x \in committed : log[x].obj = b => x < e
  BY CommittedEvent
<1>2. /\ tx[t].state = "logged" /\ tx'[t].state = "none"
      /\ \A u \in Txs \ {t} : tx'[u] = tx[u]
  BY ClosedTx DEF Commit
<1>3. /\ table[b].ver \in Nat /\ log[e].row.ver \in Nat /\ e \in Nat /\ next \in Nat
      /\ \A x \in committed : x \in Nat /\ log[x].row.ver \in Nat
  <2>1. table[b].ver \in Nat /\ next \in Nat /\ e \in Nat
    BY NumberType, StoreAssumption DEF EventIDs
  <2>2. log[e].row.ver \in Nat
    BY <1>1, <2>1
  <2> QED BY <2>1, <2>2, EventType DEF DBInv
<1>4. table'[b] = log[e].row /\ \A o \in Objects \ {b} : table'[o] = table[o]
  BY <1>1 DEF TypeOK
<1>5. ASSUME NEW u \in Txs PROVE TxOf(u)'
  <2>1. CASE u = t
    BY <1>2, <2>1 DEF TxOf
  <2>2. CASE u # t /\ tx[u].state # "none"
    <3>1. tx[u].obj # b /\ tx[u].obj \in Objects
      BY <1>1, <1>2, <2>2, TxType DEF DBInv, OneWriter
    <3>2. tx[u].state = "logged" =>
            tx[u].id \in DOMAIN log /\ tx[u].id \notin committed /\ log[tx[u].id].obj = tx[u].obj
      BY DEF DBInv, TxOf
    <3>3. tx[u].state = "logged" => tx[u].id # e
      BY <1>1, <3>1, <3>2
    <3>4. tx'[u] = tx[u] /\ next' \in Nat /\ next <= next'
      BY <1>1, <1>2, <1>3, <2>2
    <3>5. table'[tx[u].obj] = table[tx[u].obj]
      BY <1>4, <3>1
    <3>6. \A x \in committed' : log'[x].obj = tx[u].obj => x \in committed /\ log[x].obj = tx[u].obj
      BY <1>1, <3>1
    <3> QED BY <1>1, <3>2, <3>3, <3>4, <3>5, <3>6, TxFrame
  <2>3. CASE u # t /\ tx[u].state = "none"
    BY <1>2, <2>3 DEF TxOf
  <2> QED BY <2>1, <2>2, <2>3
<1>6. OneWriter'
  BY <1>2 DEF DBInv, OneWriter
<1>7. RoomForEvents'
  <2>1. WrittenTxs' = WrittenTxs
    BY <1>2 DEF WrittenTxs
  <2> QED BY <1>1, <2>1 DEF DBInv, RoomForEvents
<1>8. LogInv'
  <2>1. committed' \subseteq DOMAIN log'
    BY <1>1 DEF DBInv, LogInv
  <2>2. \A x \in committed' : /\ log'[x].row.ver >= 1
                              /\ log'[x].kind = "delete" <=> log'[x].row.key = NoKey
    <3>1. log[e].row.ver >= 1
      BY <1>1, <1>3
    <3> QED BY <1>1, <3>1 DEF DBInv, LogInv
  <2>3. ASSUME NEW x \in committed', NEW y \in committed', log'[x].obj = log'[y].obj, x < y
        PROVE  /\ log'[x].row.ver < log'[y].row.ver
               /\ \/ log'[y].kind = "create" => log'[x].row.key = NoKey
                  \/ \E z \in committed' : log'[z].obj = log'[y].obj /\ x < z /\ z < y
    <3>1. CASE x \in committed /\ y \in committed
      BY <1>1, <2>3, <3>1 DEF DBInv, LogInv
    <3>2. CASE x \in committed /\ y = e
      <4>1. log[x].obj = b /\ log[x].row.ver <= table[b].ver
            /\ (log[x].row = table[b] \/ \E z \in committed : log[z].obj = b /\ x < z)
        BY <1>1, <2>3, <3>2, LatestVersion
      <4>2. log[x].row.ver < log[e].row.ver
        BY <1>1, <1>3, <3>2, <4>1
      <4>3. CASE log[x].row = table[b]
        BY <1>1, <3>2, <4>2, <4>3
      <4>4. CASE \E z \in committed : log[z].obj = b /\ x < z
        <5>1. PICK z \in committed : log[z].obj = b /\ x < z
          BY <4>4
        <5>2. z < e /\ z \in committed'
          BY <1>1, <5>1
        <5> QED BY <1>1, <3>2, <4>2, <5>1, <5>2
      <4> QED BY <4>1, <4>3, <4>4
    <3>3. CASE x = e
      <4>1. y \in committed /\ log[y].obj = b
        BY <1>1, <1>3, <2>3, <3>3
      <4>2. y < e
        BY <1>1, <4>1
      <4> QED BY <1>3, <2>3, <3>3, <4>1, <4>2
    <3> QED BY <1>1, <3>1, <3>2, <3>3
  <2> QED BY <2>1, <2>2, <2>3 DEF LogInv
<1>9. ASSUME NEW o \in Objects PROVE RowOf(o)'
  <2>1. CASE o = b
    <3>1. table'[o].ver < next'
      BY <1>1, <1>3, <1>4, <2>1
    <3>2. \A y \in committed' : log'[y].obj = o => y <= e
      BY <1>1, <1>3, <2>1
    <3>3. e \in committed' /\ log'[e].obj = o /\ log'[e].row = table'[o]
      BY <1>1, <1>4, <2>1
    <3> QED BY <3>1, <3>2, <3>3 DEF RowOf
  <2>2. CASE o # b
    <3>1. table'[o] = table[o] /\ RowOf(o)
      BY <1>4, <2>2 DEF DBInv
    <3>2. \A x \in committed' : log'[x].obj = o => x \in committed
      BY <1>1, <2>2
    <3> QED BY <1>1, <3>1, <3>2 DEF RowOf
  <2> QED BY <2>1, <2>2
<1> QED BY <1>5, <1>6, <1>7, <1>8, <1>9 DEF DBInv

--------------------------------------------------------------------------------
(* What writers and the clock do to the store and to its readers *)

\* The store and its goroutines do not move.
StoreStays ==
    /\ UNCHANGED <<objects, index, delivered, syncTime, holder, batch, pc, start, since, known>>
    /\ now \in Nat /\ now' \in Nat /\ now <= now'

\* The history only grows, by events that are younger than those of their object.
HistoryGrows ==
    /\ committed \subseteq committed' /\ \A x \in committed : log'[x] = log[x]
    /\ \A e \in committed' \ committed :
        /\ \A x \in committed : log[x].obj = log'[e].obj => x < e
        /\ log'[e].obj \in Objects /\ log'[e].row.ver \in Nat
        /\ log'[e].row.ver > table[log'[e].obj].ver
    /\ \A o \in Objects : table'[o].ver \in Nat /\ table[o].ver <= table'[o].ver

\* Such a step leaves the store and the readers as they should be.
LEMMA WriterFrame ==
  ASSUME IInv, StoreStays, HistoryGrows
  PROVE  CacheInv' /\ TimeInv' /\ \A p \in Readers : ReaderInv(p)'
<1> USE DEF IInv
<1>a. delivered \subseteq committed /\ Pending \subseteq committed /\ batch \subseteq Pending
  BY DEF CacheInv, FeedInv, Pending
<1>b. /\ Pending \subseteq Pending'
      /\ \A x \in Pending' : x \in Pending \/ x \in committed' \ committed
  BY <1>a DEF Pending, StoreStays, HistoryGrows
<1>1. FeedInv'
  <2>1. delivered' \subseteq committed' /\ batch' \subseteq Pending'
    BY <1>a, <1>b DEF StoreStays, HistoryGrows
  <2>2. ASSUME NEW x \in Pending', NEW d \in delivered', log'[x].obj = log'[d].obj PROVE d < x
    BY <1>a, <1>b, <2>2 DEF StoreStays, HistoryGrows, CacheInv, FeedInv
  <2>3. ASSUME NEW x \in Pending' \ batch', NEW y \in batch', log'[x].obj = log'[y].obj
        PROVE  y < x
    BY <1>a, <1>b, <2>3 DEF StoreStays, HistoryGrows, CacheInv, FeedInv
  <2> QED BY <2>1, <2>2, <2>3 DEF FeedInv
<1>2. SyncInv' /\ (Started' <=> Started)
  BY DEF SyncInv, Started, StoreStays, CacheInv
<1>3. ASSUME Started PROVE IndexInv'
  BY <1>a, <1>b, <1>3 DEF CacheInv, IndexInv, StoreStays, HistoryGrows
<1>4. ASSUME Started, NEW o \in Objects PROVE ObjectOf(o)'
  <2>1. ObjectOf(o)
    BY <1>4 DEF CacheInv
  <2> QED BY <1>a, <2>1 DEF ObjectOf, StoreStays, HistoryGrows
<1>5. CacheInv'
  BY <1>1, <1>2, <1>3, <1>4 DEF CacheInv
<1>6. TimeInv'
  BY NumberType DEF TimeInv, StoreStays
<1>7. ASSUME NEW p \in Readers PROVE ReaderInv(p)'
  <2>1. ReaderInv(p)
    OBVIOUS
  <2>2. \A o \in Objects : known'[p][o] <= table'[o].ver
    <3> SUFFICES ASSUME NEW o \in Objects PROVE known[p][o] <= table'[o].ver
      BY DEF StoreStays
    <3>1. known[p][o] <= table[o].ver /\ table[o].ver <= table'[o].ver /\ table'[o].ver \in Nat
          /\ known[p][o] \in Nat /\ table[o].ver \in Nat
      BY <2>1, NumberType DEF ReaderInv, HistoryGrows
    <3> QED BY <3>1
  <2>3. \A o \in Objects :
          known'[p][o] # 0 =>
            \E x \in committed' : log'[x].obj = o /\ log'[x].row.ver = known'[p][o]
    BY <2>1 DEF ReaderInv, StoreStays, HistoryGrows
  <2>4. ASSUME NEW e \in committed' \ committed PROVE log'[e].row.ver > known[p][log'[e].obj]
    <3>1. /\ log'[e].obj \in Objects /\ log'[e].row.ver > table[log'[e].obj].ver
          /\ log'[e].row.ver \in Nat
      BY DEF HistoryGrows
    <3>2. /\ known[p][log'[e].obj] <= table[log'[e].obj].ver
          /\ known[p][log'[e].obj] \in Nat /\ table[log'[e].obj].ver \in Nat
      BY <2>1, <3>1, NumberType DEF ReaderInv
    <3> QED BY <3>1, <3>2
  <2>5. KnownSeen(p) => KnownSeen(p)'
    BY <1>a, <1>b, <2>4 DEF KnownSeen, StoreStays, HistoryGrows
  <2>6. KnownInBatch(p) => KnownInBatch(p)'
    BY <1>a, <1>b, <2>4 DEF KnownInBatch, StoreStays, HistoryGrows
  <2> QED BY <2>1, <2>2, <2>3, <2>5, <2>6 DEF ReaderInv, StoreStays
<1> QED BY <1>5, <1>6, <1>7

\* The steps of the clock and of the writers.
LEMMA WriterStep ==
  ASSUME IInv,
         \/ Tick
         \/ \E t \in Txs : \/ \E kind \in Kinds, o \in Objects, key \in Keys :
                                 WriteObject(t, kind, o, key)
                           \/ CreateEvent(t) \/ Commit(t) \/ Rollback(t)
  PROVE  DBInv' /\ CacheInv' /\ TimeInv' /\ \A p \in Readers : ReaderInv(p)'
<1> USE DEF IInv
<1>a. now \in Nat
  BY NumberType
<1>b. ASSUME PrivateStep PROVE HistoryGrows
  BY <1>b, NumberType DEF PrivateStep, HistoryGrows
<1>1. CASE Tick
  <2>1. StoreStays /\ HistoryGrows /\ UNCHANGED tables
    BY <1>1, <1>a, NumberType
       DEF Tick, StoreStays, HistoryGrows, tables, cache, consumer, request
  <2> QED BY <2>1, TablesFrame, WriterFrame
<1>2. ASSUME NEW t \in Txs, NEW kind \in Kinds, NEW o \in Objects, NEW key \in Keys,
             WriteObject(t, kind, o, key)
      PROVE  DBInv' /\ StoreStays /\ HistoryGrows
  <2>1. DBInv' /\ PrivateStep
    BY <1>2, WriteObjectDB
  <2>2. StoreStays
    BY <1>2, <1>a DEF WriteObject, StoreStays, cache, consumer, request
  <2> QED BY <1>b, <2>1, <2>2
<1>3. ASSUME NEW t \in Txs, CreateEvent(t) PROVE DBInv' /\ StoreStays /\ HistoryGrows
  <2>1. DBInv' /\ PrivateStep
    BY <1>3, CreateEventDB
  <2>2. StoreStays
    BY <1>3, <1>a DEF CreateEvent, StoreStays, cache, consumer, request
  <2> QED BY <1>b, <2>1, <2>2
<1>4. ASSUME NEW t \in Txs, Rollback(t) PROVE DBInv' /\ StoreStays /\ HistoryGrows
  <2>1. DBInv' /\ PrivateStep
    BY <1>4, RollbackDB
  <2>2. StoreStays
    BY <1>4, <1>a DEF Rollback, StoreStays, cache, consumer, request
  <2> QED BY <1>b, <2>1, <2>2
<1>5. ASSUME NEW t \in Txs, Commit(t) PROVE DBInv' /\ StoreStays /\ HistoryGrows
  <2>1. PICK e \in EventIDs, b \in Objects :
           /\ e \notin committed /\ committed' = committed \cup {e} /\ log' = log
           /\ log[e].obj = b /\ table' = [table EXCEPT ![b] = log[e].row]
           /\ log[e].row.ver = table[b].ver + 1
           /\ \A x \in committed : log[x].obj = b => x < e
    BY <1>5, CommittedEvent
  <2>2. \A o \in Objects : table[o].ver \in Nat
    BY NumberType
  <2>3. \A o \in Objects : table'[o].ver \in Nat /\ table[o].ver <= table'[o].ver
    BY <2>1, <2>2 DEF TypeOK
  <2>4. HistoryGrows
    BY <2>1, <2>2, <2>3 DEF HistoryGrows
  <2>5. StoreStays
    BY <1>5, <1>a DEF Commit, StoreStays, cache, consumer, request
  <2> QED BY <1>5, <2>4, <2>5, CommitDB
<1> QED BY <1>1, <1>2, <1>3, <1>4, <1>5, WriterFrame

--------------------------------------------------------------------------------
(* Init, and the syncs of the store loop and of requests *)

\* What a request knows depends on its own fields and on the events to come.
LEMMA KnownFrame ==
  ASSUME NEW p \in Readers, known'[p] = known[p], UNCHANGED tables, delivered' = delivered
  PROVE  /\ KnownSeen(p)' <=> KnownSeen(p)
         /\ batch' = batch => (KnownInBatch(p)' <=> KnownInBatch(p))
BY DEF KnownSeen, KnownInBatch, Pending, tables

\* A request keeps its versions while the tables stay.
LEMMA VersionsFrame ==
  ASSUME NEW p \in Readers, ReaderInv(p), known'[p] = known[p], UNCHANGED tables
  PROVE  \A o \in Objects :
           /\ known'[p][o] <= table'[o].ver
           /\ known'[p][o] # 0 =>
                \E x \in committed' : log'[x].obj = o /\ log'[x].row.ver = known'[p][o]
BY DEF ReaderInv, tables

\* A request that is over.
LEMMA IdleReader ==
  ASSUME TypeOK', DBInv', NEW p \in Readers, pc'[p] = "idle",
         \A o \in Objects : known'[p][o] = 0
  PROVE  ReaderInv(p)'
<1>1. KnownSeen(p)' /\ KnownInBatch(p)'
  <2>1. \A x \in committed' : log'[x].row.ver > known'[p][log'[x].obj]
    <3> SUFFICES ASSUME NEW x \in committed' PROVE log'[x].row.ver > known'[p][log'[x].obj]
      OBVIOUS
    <3>1. x \in DOMAIN log' /\ log'[x].row.ver >= 1
      BY DEF DBInv, LogInv
    <3>2. log'[x] \in Event
      BY <3>1 DEF TypeOK
    <3>3. log'[x].row \in Row /\ log'[x].obj \in Objects
      BY <3>2 DEF Event
    <3>4. log'[x].row.ver \in Nat
      BY <3>3, StoreAssumption DEF Row
    <3> QED BY <3>1, <3>3, <3>4
  <2> QED BY <2>1 DEF KnownSeen, KnownInBatch, Pending
<1>2. \A o \in Objects : 0 <= table'[o].ver
  BY StoreAssumption DEF TypeOK, Row
<1> QED BY <1>1, <1>2 DEF ReaderInv

\* The batch and the pending events, while the feed stays.
LEMMA FeedFrame ==
  ASSUME FeedInv, UNCHANGED tables, UNCHANGED <<delivered, batch>>
  PROVE  FeedInv' /\ Pending' = Pending
BY DEF FeedInv, Pending, tables

\* The objects and the index, while the cache stays.
LEMMA CacheFrame ==
  ASSUME CacheInv, Started, UNCHANGED tables, UNCHANGED cache, FeedInv', SyncInv'
  PROVE  CacheInv'
<1>1. IndexInv /\ \A o \in Objects : ObjectOf(o)
  BY DEF CacheInv
<1>2. IndexInv'
  BY <1>1 DEF IndexInv, Pending, tables, cache
<1>3. \A o \in Objects : ObjectOf(o)'
  BY <1>1 DEF ObjectOf, tables, cache
<1> QED BY <1>2, <1>3 DEF CacheInv

\* Init loads the events: nothing is pending, and nobody reads yet.
LEMMA InitEventsStep ==
  ASSUME IInv, InitEvents, TypeOK', DBInv'
  PROVE  CacheInv' /\ TimeInv' /\ \A p \in Readers : ReaderInv(p)'
<1> USE DEF IInv
<1>a. Loop \in Procs /\ Loop \notin Readers /\ Readers \subseteq Procs
  BY StoreAssumption DEF Procs
<1>b. pc'[Loop] = "initObjects" /\ \A p \in Procs \ {Loop} : pc'[p] = pc[p]
  BY <1>a DEF InitEvents, TypeOK
<1>c. ~Started /\ ~Started' /\ holder = Nobody /\ batch = {} /\ \A p \in Readers : pc[p] = "idle"
  BY <1>b DEF Started, InitEvents, CacheInv, SyncInv
<1>d. holder' = Nobody /\ batch' = {} /\ delivered' = committed /\ committed' = committed
  BY <1>c DEF InitEvents, consumer, tables
<1>1. FeedInv'
  BY <1>d DEF FeedInv, Pending
<1>2. SyncInv'
  <2>1. \A p \in Procs : pc'[p] # "apply" /\ p # Nobody
    BY <1>a, <1>b, <1>c, StoreAssumption DEF Procs
  <2> QED BY <1>a, <1>b, <1>c, <1>d, <2>1 DEF SyncInv
<1>3. CacheInv'
  BY <1>1, <1>2, <1>c DEF CacheInv
<1>4. TimeInv'
  <2>1. \A q \in Procs : start'[q] = now \/ start'[q] = start[q]
    BY DEF InitEvents, TypeOK
  <2> QED BY <1>a, <2>1, NumberType DEF TimeInv, InitEvents, request
<1>5. ASSUME NEW p \in Readers PROVE ReaderInv(p)'
  <2>1. pc'[p] = "idle" /\ \A o \in Objects : known'[p][o] = 0
    BY <1>a, <1>b, <1>c DEF ReaderInv, InitEvents, request
  <2> QED BY <2>1, IdleReader
<1> QED BY <1>3, <1>4, <1>5

\* Init loads the objects, as late as it may: they are not older than the events.
LEMMA InitObjectsStep ==
  ASSUME IInv, InitObjects, TypeOK', DBInv'
  PROVE  CacheInv' /\ TimeInv' /\ \A p \in Readers : ReaderInv(p)'
<1> USE DEF IInv
<1>a. Loop \in Procs /\ Loop \notin Readers /\ Readers \subseteq Procs
  BY StoreAssumption DEF Procs
<1>b. pc'[Loop] = "ready" /\ \A p \in Procs \ {Loop} : pc'[p] = pc[p]
  BY <1>a DEF InitObjects, TypeOK
<1>c. ~Started /\ Started' /\ holder = Nobody /\ \A p \in Readers : pc[p] = "idle"
  BY <1>b DEF Started, InitObjects, CacheInv, SyncInv
<1>d. UNCHANGED tables /\ UNCHANGED <<delivered, batch, holder>> /\ objects' = table
      /\ index' = IndexOf(table)
  BY DEF InitObjects, consumer
<1>1. FeedInv'
  BY <1>d, FeedFrame DEF CacheInv
<1>2. SyncInv'
  <2>1. \A p \in Procs : pc'[p] # "apply" /\ p # Nobody
    BY <1>a, <1>b, <1>c, StoreAssumption DEF Procs
  <2>2. holder' = Nobody /\ batch' = {}
    BY <1>c, <1>d DEF CacheInv, SyncInv
  <2> QED BY <1>a, <1>b, <1>c, <2>1, <2>2 DEF SyncInv
<1>3. IndexInv'
  BY <1>d DEF IndexInv, IndexOf
<1>4. ASSUME NEW o \in Objects PROVE ObjectOf(o)'
  <2>1. RowOf(o) /\ delivered \subseteq committed
    BY DEF DBInv, CacheInv, FeedInv
  <2> QED BY <1>d, <2>1 DEF RowOf, ObjectOf, tables
<1>5. CacheInv'
  BY <1>1, <1>2, <1>3, <1>4 DEF CacheInv
<1>6. TimeInv'
  <2>1. \A q \in Procs : start'[q] = 0 \/ start'[q] = start[q]
    BY DEF InitObjects, TypeOK
  <2> QED BY <1>a, <2>1, NumberType DEF TimeInv, InitObjects, request
<1>7. ASSUME NEW p \in Readers PROVE ReaderInv(p)'
  <2>1. pc'[p] = "idle" /\ \A o \in Objects : known'[p][o] = 0
    BY <1>a, <1>b, <1>c DEF ReaderInv, InitObjects, request
  <2> QED BY <2>1, IdleReader
<1> QED BY <1>5, <1>6, <1>7

\* Sync notes the time.
LEMMA SyncBeginStep ==
  ASSUME IInv, NEW p \in Procs, SyncBegin(p)
  PROVE  CacheInv' /\ TimeInv' /\ \A r \in Readers : ReaderInv(r)'
<1> USE DEF IInv
<1>a. Loop \in Procs /\ Loop \notin Readers /\ Readers \subseteq Procs
  BY StoreAssumption DEF Procs
<1>b. /\ pc'[p] = "lock" /\ pc[p] \in {"ready", "sync"}
      /\ \A q \in Procs \ {p} : pc'[q] = pc[q] /\ start'[q] = start[q]
      /\ start'[p] = now
  BY DEF SyncBegin, TypeOK
<1>c. UNCHANGED tables /\ UNCHANGED cache /\ UNCHANGED <<delivered, batch, holder>>
  BY DEF SyncBegin, consumer, cache
<1>d. Started /\ Started'
  BY <1>a, <1>b DEF Started, CacheInv, SyncInv, Procs
<1>1. SyncInv'
  <2>1. SyncInv
    BY DEF CacheInv
  <2>2. \A q \in Procs : pc'[q] = "apply" <=> holder' = q
    BY <1>b, <1>c, <2>1 DEF SyncInv
  <2>3. pc'[Loop] \in {"initEvents", "initObjects", "ready", "lock", "apply", "stamp"}
    BY <1>a, <1>b, <2>1 DEF SyncInv
  <2>4. \A q \in Readers : pc'[q] \in {"idle", "check", "sync", "lock", "apply", "stamp", "read"}
    BY <1>a, <1>b, <2>1 DEF SyncInv
  <2> QED BY <1>c, <1>d, <2>1, <2>2, <2>3, <2>4 DEF SyncInv
<1>2. CacheInv'
  BY <1>1, <1>c, <1>d, FeedFrame, CacheFrame DEF CacheInv
<1>3. TimeInv'
  BY <1>b, NumberType DEF TimeInv, SyncBegin, request
<1>4. ASSUME NEW r \in Readers PROVE ReaderInv(r)'
  <2>1. since'[r] = since[r] /\ known'[r] = known[r] /\ syncTime' = syncTime /\ ReaderInv(r)
    BY DEF SyncBegin, request
  <2>2. (KnownSeen(r)' <=> KnownSeen(r)) /\ (KnownInBatch(r)' <=> KnownInBatch(r))
    BY <1>c, <2>1, KnownFrame
  <2>3. pc'[r] = "idle" => \A o \in Objects : known'[r][o] = 0
    BY <1>a, <1>b, <2>1 DEF ReaderInv
  <2>4. syncTime' > since'[r] \/ pc'[r] \in {"stamp", "read"} => KnownSeen(r)'
    BY <1>a, <1>b, <2>1, <2>2 DEF ReaderInv
  <2>5. \A q \in Procs :
          /\ pc'[q] = "stamp" /\ start'[q] > since'[r] => KnownSeen(r)'
          /\ pc'[q] = "apply" /\ (q = r \/ start'[q] > since'[r]) => KnownInBatch(r)'
    BY <1>b, <2>1, <2>2 DEF ReaderInv
  <2> QED BY <1>c, <2>1, <2>3, <2>4, <2>5, VersionsFrame DEF ReaderInv
<1> QED BY <1>2, <1>3, <1>4

\* The consumer queries what is visible and not delivered.
LEMMA LoadEventsStep ==
  ASSUME IInv, NEW p \in Procs, LoadEvents(p)
  PROVE  CacheInv' /\ TimeInv' /\ \A r \in Readers : ReaderInv(r)'
<1> USE DEF IInv
<1>a. Loop \in Procs /\ Loop \notin Readers /\ Readers \subseteq Procs /\ Nobody \notin Procs
  BY StoreAssumption DEF Procs
<1>b. /\ pc'[p] = "apply" /\ pc[p] = "lock" /\ holder = Nobody /\ holder' = p
      /\ \A q \in Procs \ {p} : pc'[q] = pc[q] /\ start'[q] = start[q]
  BY DEF LoadEvents, TypeOK
<1>c. UNCHANGED tables /\ UNCHANGED cache /\ delivered' = delivered /\ batch' = Pending
  BY DEF LoadEvents, cache, Pending
<1>d. Started /\ Started'
  BY <1>a, <1>b DEF Started, CacheInv, SyncInv, Procs
<1>e. Pending' = Pending
  BY <1>c DEF Pending, tables
<1>1. SyncInv'
  <2>1. SyncInv
    BY DEF CacheInv
  <2>2. \A q \in Procs : pc'[q] = "apply" <=> holder' = q
    BY <1>a, <1>b, <2>1 DEF SyncInv
  <2>3. pc'[Loop] \in {"initEvents", "initObjects", "ready", "lock", "apply", "stamp"}
    BY <1>a, <1>b, <2>1 DEF SyncInv
  <2>4. \A q \in Readers : pc'[q] \in {"idle", "check", "sync", "lock", "apply", "stamp", "read"}
    BY <1>a, <1>b, <2>1 DEF SyncInv
  <2> QED BY <1>a, <1>b, <1>d, <2>2, <2>3, <2>4 DEF SyncInv
<1>2. FeedInv'
  BY <1>c, <1>e DEF CacheInv, FeedInv, tables
<1>3. CacheInv'
  BY <1>1, <1>2, <1>c, <1>d, CacheFrame
<1>4. TimeInv'
  BY DEF TimeInv, LoadEvents, request
<1>5. ASSUME NEW r \in Readers PROVE ReaderInv(r)'
  <2>1. /\ since'[r] = since[r] /\ known'[r] = known[r] /\ syncTime' = syncTime
        /\ start' = start /\ ReaderInv(r)
    BY DEF LoadEvents, request
  <2>2. (KnownSeen(r)' <=> KnownSeen(r))
    BY <1>c, <2>1, KnownFrame
  <2>3. KnownInBatch(r)'
    BY <1>c, <1>e DEF KnownInBatch
  <2>4. pc'[r] = "idle" => \A o \in Objects : known'[r][o] = 0
    BY <1>a, <1>b, <2>1 DEF ReaderInv
  <2>5. syncTime' > since'[r] \/ pc'[r] \in {"stamp", "read"} => KnownSeen(r)'
    BY <1>a, <1>b, <2>1, <2>2 DEF ReaderInv
  <2>6. \A q \in Procs : pc'[q] = "stamp" /\ start'[q] > since'[r] => KnownSeen(r)'
    BY <1>b, <2>1, <2>2 DEF ReaderInv
  <2> QED BY <1>c, <2>1, <2>3, <2>4, <2>5, <2>6, VersionsFrame DEF ReaderInv
<1> QED BY <1>3, <1>4, <1>5

\* A key that the index loses or keeps while an event is replayed: another entry
\* than the new one is of an event that is still to come.
LEMMA ReplayIndex ==
  ASSUME IInv, Started, NEW p \in Procs, ConsumeEvent(p)
  PROVE  IndexInv'
<1> USE DEF IInv
<1>1. PICK id \in batch :
           /\ id \in Pending /\ id \in committed /\ id \notin delivered
           /\ \A x \in batch : id <= x
           /\ batch' = batch \ {id} /\ delivered' = delivered \cup {id}
           /\ Pending' = Pending \ {id}
           /\ objects' = [objects EXCEPT ![log[id].obj] = log[id].row]
           /\ \/ /\ log[id].kind = "create"
                 /\ index' = index \cup {<<log[id].row.key, log[id].obj>>}
              \/ /\ log[id].kind = "delete"
                 /\ index' = index \ {<<objects[log[id].obj].key, log[id].obj>>}
              \/ /\ log[id].kind = "update"
                 /\ index' = (index \ {<<objects[log[id].obj].key, log[id].obj>>})
                               \cup {<<log[id].row.key, log[id].obj>>}
  BY ConsumedEvent DEF CacheInv
<1> DEFINE b == log[id].obj
           row == log[id].row
<1>a. b \in Objects /\ row \in Row /\ id \in Nat /\ log' = log
  BY <1>1, EventType DEF DBInv, ConsumeEvent, tables
<1>b. objects'[b] = row /\ \A o \in Objects \ {b} : objects'[o] = objects[o]
  BY <1>1, <1>a DEF TypeOK
<1>c. log[id].kind = "delete" <=> row.key = NoKey
  BY <1>1 DEF DBInv, LogInv
<1>d. IndexInv /\ ObjectOf(b) /\ FeedInv
  BY <1>a DEF CacheInv
<1>2. ASSUME NEW o \in Objects, objects'[o].key # NoKey
      PROVE  <<objects'[o].key, o>> \in index'
  <2>1. CASE o = b
    BY <1>1, <1>b, <1>c, <1>2, <2>1
  <2>2. CASE o # b
    <3>1. <<objects[o].key, o>> \in index /\ objects'[o].key = objects[o].key
      BY <1>b, <1>d, <1>2, <2>2 DEF IndexInv
    <3>2. <<objects[o].key, o>> # <<objects[b].key, b>>
      BY <2>2
    <3> QED BY <1>1, <3>1, <3>2
  <2> QED BY <2>1, <2>2
<1>3. ASSUME NEW k \in Keys, NEW o \in Objects, <<k, o>> \in index', objects'[o].key # k
      PROVE  \E x \in Pending' : log'[x].obj = o /\ log'[x].row.key = k
  <2>1. CASE o # b
    <3>1. <<k, o>> # <<row.key, b>>
      BY <2>1
    <3>2. <<k, o>> \in index /\ objects[o].key # k
      BY <1>1, <1>b, <1>3, <2>1, <3>1
    <3>3. PICK x \in Pending : log[x].obj = o /\ log[x].row.key = k
      BY <1>d, <3>2 DEF IndexInv
    <3>4. x # id
      BY <2>1, <3>3
    <3> QED BY <1>1, <1>a, <3>3, <3>4
  <2>2. CASE o = b /\ objects[b].key # k
    <3>1. row.key # k
      BY <1>b, <1>3, <2>2
    <3>2. <<k, b>> # <<row.key, b>>
      BY <3>1
    <3>3. <<k, b>> \in index
      BY <1>1, <1>3, <2>2, <3>2
    <3>4. PICK x \in Pending : log[x].obj = b /\ log[x].row.key = k
      BY <1>a, <1>d, <2>2, <3>3 DEF IndexInv
    <3>5. x # id
      BY <3>1, <3>4
    <3> QED BY <1>1, <1>a, <2>2, <3>4, <3>5
  <2>3. CASE o = b /\ objects[b].key = k
    <3>1. row.key # k /\ k # NoKey
      BY <1>b, <1>3, <2>3, StoreAssumption
    <3>2. <<k, b>> # <<row.key, b>>
      BY <3>1
    <3>3. log[id].kind = "create"
      BY <1>1, <1>3, <2>3, <3>2
    <3>4. PICK x \in committed : /\ log[x].obj = b /\ log[x].row = objects[b]
                                 /\ \A d \in delivered : log[d].obj = b => d <= x
      BY <1>d, <2>3, <3>1 DEF ObjectOf, NoRow
    <3>5. x \in Nat /\ x # id /\ log[x].row.key = k
      BY <2>3, <3>1, <3>4, EventType DEF DBInv
    <3>6. ~ (x < id)
      <4> SUFFICES ASSUME x < id PROVE FALSE
        OBVIOUS
      <4>1. PICK z \in committed : log[z].obj = b /\ x < z /\ z < id
        BY <1>1, <3>1, <3>3, <3>4, <3>5 DEF DBInv, LogInv
      <4>2. z \in Nat
        BY EventType DEF DBInv
      <4>3. CASE z \in delivered
        BY <3>4, <3>5, <4>1, <4>2, <4>3
      <4>4. CASE z \in batch
        BY <1>1, <1>a, <4>1, <4>2, <4>4
      <4>5. CASE z \in Pending \ batch
        <5>1. id < z
          BY <1>1, <1>d, <4>1, <4>5 DEF FeedInv
        <5> QED BY <1>a, <4>1, <4>2, <5>1
      <4> QED BY <4>3, <4>4, <4>5 DEF Pending
    <3>7. id < x
      BY <1>a, <3>5, <3>6
    <3>8. x \notin delivered
      <4>1. x \in delivered => x < id
        BY <1>1, <1>d, <3>4 DEF FeedInv
      <4> QED BY <3>6, <4>1
    <3>9. x \in Pending'
      BY <1>1, <3>4, <3>5, <3>8 DEF Pending
    <3> QED BY <1>a, <2>3, <3>4, <3>5, <3>9
  <2> QED BY <2>1, <2>2, <2>3
<1> QED BY <1>2, <1>3 DEF IndexInv

\* An event is replayed: it is the first one pending for its object.
LEMMA ConsumeEventStep ==
  ASSUME IInv, NEW p \in Procs, ConsumeEvent(p)
  PROVE  CacheInv' /\ TimeInv' /\ \A r \in Readers : ReaderInv(r)'
<1> USE DEF IInv
<1>a. Loop \in Procs /\ Loop \notin Readers /\ Readers \subseteq Procs /\ Nobody \notin Procs
  BY StoreAssumption DEF Procs
<1>b. pc[p] = "apply" /\ UNCHANGED tables /\ UNCHANGED <<holder, pc, start, syncTime, request, now>>
  BY DEF ConsumeEvent
<1>c. holder = p /\ Started /\ Started'
  BY <1>a, <1>b DEF Started, CacheInv, SyncInv, Procs
<1>1. PICK id \in batch :
           /\ id \in Pending /\ id \in committed /\ id \notin delivered
           /\ \A x \in batch : id <= x
           /\ batch' = batch \ {id} /\ delivered' = delivered \cup {id}
           /\ Pending' = Pending \ {id}
           /\ objects' = [objects EXCEPT ![log[id].obj] = log[id].row]
  BY ConsumedEvent DEF CacheInv
<1>2. id \in Nat /\ log[id].obj \in Objects /\ log' = log /\ committed' = committed
  BY <1>1, <1>b, EventType DEF DBInv, tables
<1>3. FeedInv'
  <2>1. FeedInv
    BY DEF CacheInv
  <2>2. delivered' \subseteq committed' /\ batch' \subseteq Pending'
    BY <1>1, <1>2, <2>1 DEF FeedInv
  <2>3. ASSUME NEW x \in Pending', NEW d \in delivered', log[x].obj = log[d].obj PROVE d < x
    <3>1. x \in Pending /\ x # id
      BY <1>1
    <3>2. CASE d \in delivered
      BY <2>1, <2>3, <3>1, <3>2 DEF FeedInv
    <3>3. CASE d = id
      <4>1. CASE x \in batch
        <5>1. x \in Nat /\ id <= x
          BY <1>1, <3>1, <4>1, EventType DEF DBInv, Pending
        <5> QED BY <1>2, <3>1, <3>3, <5>1
      <4>2. CASE x \notin batch
        BY <1>1, <2>1, <2>3, <3>1, <3>3, <4>2 DEF FeedInv
      <4> QED BY <4>1, <4>2
    <3> QED BY <1>1, <3>2, <3>3
  <2>4. ASSUME NEW x \in Pending' \ batch', NEW y \in batch', log[x].obj = log[y].obj
        PROVE  y < x
    BY <1>1, <2>1, <2>4 DEF FeedInv
  <2> QED BY <1>2, <2>2, <2>3, <2>4 DEF FeedInv
<1>4. SyncInv'
  BY <1>a, <1>b, <1>c DEF SyncInv, Started, CacheInv
<1>5. ASSUME NEW o \in Objects PROVE ObjectOf(o)'
  <2>1. CASE o = log[id].obj
    <3>1. objects'[o] = log[id].row
      BY <1>1, <1>2, <2>1 DEF TypeOK
    <3>2. \A d \in delivered' : log[d].obj = o => d <= id
      <4>1. \A d \in delivered : log[d].obj = o => d < id /\ d \in Nat
        BY <1>1, <2>1, EventType DEF CacheInv, FeedInv, DBInv
      <4> QED BY <1>1, <1>2, <4>1
    <3> QED BY <1>1, <1>2, <2>1, <3>1, <3>2 DEF ObjectOf
  <2>2. CASE o # log[id].obj
    <3>1. objects'[o] = objects[o] /\ ObjectOf(o)
      BY <1>1, <1>c, <2>2 DEF TypeOK, CacheInv
    <3>2. \A d \in delivered' : log[d].obj = o => d \in delivered
      BY <1>1, <2>2
    <3>3. delivered \subseteq delivered'
      BY <1>1
    <3> QED BY <1>2, <3>1, <3>2, <3>3 DEF ObjectOf
  <2> QED BY <2>1, <2>2
<1>6. CacheInv'
  BY <1>3, <1>4, <1>5, <1>c, ReplayIndex DEF CacheInv
<1>7. TimeInv'
  BY <1>b DEF TimeInv, request
<1>8. ASSUME NEW r \in Readers PROVE ReaderInv(r)'
  <2>1. since' = since /\ known' = known /\ ReaderInv(r) /\ pc' = pc /\ start' = start
        /\ syncTime' = syncTime
    BY <1>b DEF request
  <2>2. KnownSeen(r) => KnownSeen(r)'
    BY <1>1, <1>2, <2>1 DEF KnownSeen
  <2>3. Pending' \ batch' \subseteq Pending \ batch
    BY <1>1
  <2>4. KnownInBatch(r) => KnownInBatch(r)'
    BY <1>2, <2>1, <2>3 DEF KnownInBatch
  <2>5. \A o \in Objects :
           /\ known'[r][o] <= table'[o].ver
           /\ known'[r][o] # 0 =>
                \E x \in committed' : log'[x].obj = o /\ log'[x].row.ver = known'[r][o]
    BY <1>b, <2>1, VersionsFrame
  <2> QED BY <2>1, <2>2, <2>4, <2>5 DEF ReaderInv
<1> QED BY <1>6, <1>7, <1>8

\* The rows are read and the consumer's mutex is released.
LEMMA ConsumeEndStep ==
  ASSUME IInv, NEW p \in Procs, ConsumeEnd(p)
  PROVE  CacheInv' /\ TimeInv' /\ \A r \in Readers : ReaderInv(r)'
<1> USE DEF IInv
<1>a. Loop \in Procs /\ Loop \notin Readers /\ Readers \subseteq Procs /\ Nobody \notin Procs
  BY StoreAssumption DEF Procs
<1>b. /\ pc'[p] = "stamp" /\ pc[p] = "apply" /\ batch = {} /\ holder' = Nobody
      /\ \A q \in Procs \ {p} : pc'[q] = pc[q]
  BY DEF ConsumeEnd, TypeOK
<1>c. UNCHANGED tables /\ UNCHANGED cache /\ UNCHANGED <<delivered, batch>>
  BY DEF ConsumeEnd, cache
<1>d. holder = p /\ Started /\ Started'
  BY <1>a, <1>b DEF Started, CacheInv, SyncInv, Procs
<1>1. SyncInv'
  <2>1. SyncInv
    BY DEF CacheInv
  <2>2. \A q \in Procs : pc'[q] = "apply" <=> holder' = q
    BY <1>a, <1>b, <1>d, <2>1 DEF SyncInv
  <2>3. pc'[Loop] \in {"initEvents", "initObjects", "ready", "lock", "apply", "stamp"}
    BY <1>a, <1>b, <2>1 DEF SyncInv
  <2>4. \A q \in Readers : pc'[q] \in {"idle", "check", "sync", "lock", "apply", "stamp", "read"}
    BY <1>a, <1>b, <2>1 DEF SyncInv
  <2> QED BY <1>b, <1>c, <1>d, <2>2, <2>3, <2>4 DEF SyncInv
<1>2. CacheInv'
  <2>1. FeedInv'
    BY <1>c, FeedFrame DEF CacheInv
  <2> QED BY <1>1, <1>c, <1>d, <2>1, CacheFrame
<1>3. TimeInv'
  BY DEF TimeInv, ConsumeEnd, request
<1>4. ASSUME NEW r \in Readers PROVE ReaderInv(r)'
  <2>1. /\ since'[r] = since[r] /\ known'[r] = known[r] /\ syncTime' = syncTime
        /\ start' = start /\ ReaderInv(r)
    BY DEF ConsumeEnd, request
  <2>2. (KnownSeen(r)' <=> KnownSeen(r)) /\ (KnownInBatch(r)' <=> KnownInBatch(r))
    BY <1>c, <2>1, KnownFrame
  <2>3. KnownInBatch(r) => KnownSeen(r)
    BY <1>b DEF KnownInBatch, KnownSeen
  <2>4. pc'[r] = "idle" => \A o \in Objects : known'[r][o] = 0
    BY <1>a, <1>b, <2>1 DEF ReaderInv
  <2>5. p = r \/ start[p] > since[r] => KnownSeen(r)
    BY <1>b, <2>1, <2>3 DEF ReaderInv
  <2>6. syncTime' > since'[r] \/ pc'[r] \in {"stamp", "read"} => KnownSeen(r)'
    BY <1>a, <1>b, <2>1, <2>2, <2>5 DEF ReaderInv
  <2>7. \A q \in Procs :
          /\ pc'[q] = "stamp" /\ start'[q] > since'[r] => KnownSeen(r)'
          /\ pc'[q] = "apply" /\ (q = r \/ start'[q] > since'[r]) => KnownInBatch(r)'
    BY <1>b, <2>1, <2>2, <2>5 DEF ReaderInv
  <2> QED BY <1>c, <2>1, <2>4, <2>6, <2>7, VersionsFrame DEF ReaderInv
<1> QED BY <1>2, <1>3, <1>4

\* The sync is stamped with the time it began.
LEMMA UpdateSyncStep ==
  ASSUME IInv, NEW p \in Procs, UpdateSync(p)
  PROVE  CacheInv' /\ TimeInv' /\ \A r \in Readers : ReaderInv(r)'
<1> USE DEF IInv
<1>a. Loop \in Procs /\ Loop \notin Readers /\ Readers \subseteq Procs /\ Nobody \notin Procs
  BY StoreAssumption DEF Procs
<1>b. /\ pc'[p] = (IF p = Loop THEN "ready" ELSE "read") /\ pc[p] = "stamp"
      /\ syncTime' = start[p] /\ start'[p] = 0
      /\ \A q \in Procs \ {p} : pc'[q] = pc[q] /\ start'[q] = start[q]
  BY DEF UpdateSync, TypeOK
<1>c. UNCHANGED tables /\ UNCHANGED cache /\ UNCHANGED <<delivered, batch, holder>>
  BY DEF UpdateSync, cache, consumer
<1>d. Started /\ Started'
  BY <1>a, <1>b DEF Started, CacheInv, SyncInv, Procs
<1>1. SyncInv'
  <2>1. SyncInv
    BY DEF CacheInv
  <2>2. \A q \in Procs : pc'[q] = "apply" <=> holder' = q
    BY <1>b, <1>c, <2>1 DEF SyncInv
  <2>3. pc'[Loop] \in {"initEvents", "initObjects", "ready", "lock", "apply", "stamp"}
    BY <1>a, <1>b, <2>1 DEF SyncInv
  <2>4. \A q \in Readers : pc'[q] \in {"idle", "check", "sync", "lock", "apply", "stamp", "read"}
    BY <1>a, <1>b, <2>1 DEF SyncInv
  <2> QED BY <1>c, <1>d, <2>1, <2>2, <2>3, <2>4 DEF SyncInv
<1>2. CacheInv'
  <2>1. FeedInv'
    BY <1>c, FeedFrame DEF CacheInv
  <2> QED BY <1>1, <1>c, <1>d, <2>1, CacheFrame
<1>3. TimeInv'
  BY <1>b, NumberType DEF TimeInv, UpdateSync, request
<1>4. ASSUME NEW r \in Readers PROVE ReaderInv(r)'
  <2>1. since'[r] = since[r] /\ known'[r] = known[r] /\ ReaderInv(r)
    BY DEF UpdateSync, request
  <2>2. (KnownSeen(r)' <=> KnownSeen(r)) /\ (KnownInBatch(r)' <=> KnownInBatch(r))
    BY <1>c, <2>1, KnownFrame
  <2>3. pc'[r] = "idle" => \A o \in Objects : known'[r][o] = 0
    BY <1>a, <1>b, <2>1 DEF ReaderInv
  <2>4. p = r \/ start[p] > since[r] => KnownSeen(r)
    BY <1>b, <2>1 DEF ReaderInv
  <2>5. syncTime' > since'[r] \/ pc'[r] \in {"stamp", "read"} => KnownSeen(r)'
    BY <1>a, <1>b, <2>1, <2>2, <2>4 DEF ReaderInv
  <2>6. \A q \in Procs :
          /\ pc'[q] = "stamp" /\ start'[q] > since'[r] => KnownSeen(r)'
          /\ pc'[q] = "apply" /\ (q = r \/ start'[q] > since'[r]) => KnownInBatch(r)'
    BY <1>b, <2>1, <2>2 DEF ReaderInv
  <2> QED BY <1>c, <2>1, <2>3, <2>5, <2>6, VersionsFrame DEF ReaderInv
<1> QED BY <1>2, <1>3, <1>4

\* A failed sync leaves what it has not read pending, and ends its request.
LEMMA SyncFailStep ==
  ASSUME IInv, NEW p \in Procs, SyncFail(p), TypeOK', DBInv'
  PROVE  CacheInv' /\ TimeInv' /\ \A r \in Readers : ReaderInv(r)'
<1> USE DEF IInv
<1>a. Loop \in Procs /\ Loop \notin Readers /\ Readers \subseteq Procs /\ Nobody \notin Procs
  BY StoreAssumption DEF Procs
<1>b. /\ pc'[p] = (IF p = Loop THEN "ready" ELSE "idle") /\ pc[p] = "apply"
      /\ \A q \in Procs \ {p} : pc'[q] = pc[q]
  <2>1. pc' = [pc EXCEPT ![p] = IF p = Loop THEN "ready" ELSE "idle"]
    BY FailedSync
  <2>2. pc[p] = "apply"
    BY DEF SyncFail
  <2> QED BY <2>1, <2>2 DEF TypeOK
<1>c. /\ UNCHANGED tables /\ UNCHANGED cache /\ delivered' = delivered /\ batch' = {}
      /\ holder' = Nobody /\ syncTime' = syncTime /\ now' = now /\ start'[p] = 0
      /\ \A q \in Procs \ {p} : start'[q] = start[q]
  BY DEF SyncFail, cache, TypeOK
<1>d. holder = p /\ Started /\ Started'
  BY <1>a, <1>b DEF Started, CacheInv, SyncInv, Procs
<1>1. SyncInv'
  <2>1. SyncInv
    BY DEF CacheInv
  <2>2. \A q \in Procs : pc'[q] = "apply" <=> holder' = q
    BY <1>a, <1>b, <1>c, <1>d, <2>1 DEF SyncInv
  <2>3. pc'[Loop] \in {"initEvents", "initObjects", "ready", "lock", "apply", "stamp"}
    BY <1>a, <1>b, <2>1 DEF SyncInv
  <2>4. \A q \in Readers : pc'[q] \in {"idle", "check", "sync", "lock", "apply", "stamp", "read"}
    BY <1>a, <1>b, <2>1 DEF SyncInv
  <2> QED BY <1>c, <1>d, <2>2, <2>3, <2>4 DEF SyncInv
<1>2. CacheInv'
  <2>1. FeedInv'
    BY <1>c DEF FeedInv, CacheInv, Pending, tables
  <2> QED BY <1>1, <1>c, <1>d, <2>1, CacheFrame
<1>3. TimeInv'
  <2>1. \A r \in Readers : since'[r] = 0 \/ since'[r] = since[r]
    BY FailedSync, <1>a
  <2> QED BY <1>c, <2>1, NumberType DEF TimeInv
<1>4. ASSUME NEW r \in Readers, r = p PROVE ReaderInv(r)'
  BY <1>a, <1>b, <1>4, FailedSync, IdleReader
<1>5. ASSUME NEW r \in Readers, r # p PROVE ReaderInv(r)'
  <2>1. since'[r] = since[r] /\ known'[r] = known[r] /\ ReaderInv(r) /\ pc'[r] = pc[r]
    BY <1>a, <1>b, <1>5, FailedSync
  <2>2. KnownSeen(r)' <=> KnownSeen(r)
    BY <1>c, <2>1, KnownFrame
  <2>3. \A q \in Procs : pc'[q] # "apply"
    BY <1>1, <1>a, <1>c DEF SyncInv
  <2>4. \A q \in Procs : pc'[q] = "stamp" /\ start'[q] > since'[r] => KnownSeen(r)'
    BY <1>b, <1>c, <2>1, <2>2 DEF ReaderInv
  <2>5. syncTime' > since'[r] \/ pc'[r] \in {"stamp", "read"} => KnownSeen(r)'
    BY <1>c, <2>1, <2>2 DEF ReaderInv
  <2>6. pc'[r] = "idle" => \A o \in Objects : known'[r][o] = 0
    BY <2>1 DEF ReaderInv
  <2> QED BY <1>c, <2>1, <2>3, <2>4, <2>5, <2>6, VersionsFrame DEF ReaderInv
<1> QED BY <1>2, <1>3, <1>4, <1>5

--------------------------------------------------------------------------------
(* Requests *)

\* The steps of a request leave the cache alone.
LEMMA RequestFrame ==
  ASSUME IInv, Started, NEW p \in Readers, UNCHANGED tables, UNCHANGED cache,
         UNCHANGED <<holder, batch>>, pc[p] # "apply",
         pc'[p] \in {"idle", "check", "sync", "read"}, \A q \in Procs \ {p} : pc'[q] = pc[q]
  PROVE  CacheInv'
<1> USE DEF IInv
<1>a. Loop \in Procs /\ Loop \notin Readers /\ Readers \subseteq Procs /\ Nobody \notin Procs
  BY StoreAssumption DEF Procs
<1>b. Started' /\ SyncInv /\ FeedInv /\ delivered' = delivered
  BY <1>a DEF Started, CacheInv, cache
<1>1. \A q \in Procs : pc'[q] = "apply" <=> holder' = q
  BY <1>a, <1>b DEF SyncInv
<1>2. pc'[Loop] \in {"initEvents", "initObjects", "ready", "lock", "apply", "stamp"}
  BY <1>a, <1>b DEF SyncInv
<1>3. \A q \in Readers : pc'[q] \in {"idle", "check", "sync", "lock", "apply", "stamp", "read"}
  BY <1>a, <1>b DEF SyncInv
<1>4. SyncInv'
  BY <1>b, <1>1, <1>2, <1>3 DEF SyncInv
<1> QED BY <1>4, <1>b, FeedFrame, CacheFrame

\* Another request keeps what it knows.
LEMMA OtherReader ==
  ASSUME IInv, NEW p \in Readers, NEW r \in Readers, r # p, UNCHANGED tables, UNCHANGED cache,
         UNCHANGED <<batch, start, syncTime>>, since'[r] = since[r], known'[r] = known[r],
         pc'[p] \in {"idle", "check", "sync", "read"}, \A q \in Procs \ {p} : pc'[q] = pc[q]
  PROVE  ReaderInv(r)'
<1>1. ReaderInv(r) /\ pc'[r] = pc[r] /\ p \in Procs
  BY DEF IInv, Procs
<1>2. (KnownSeen(r)' <=> KnownSeen(r)) /\ (KnownInBatch(r)' <=> KnownInBatch(r))
  BY KnownFrame DEF cache
<1>3. \A q \in Procs :
        /\ pc'[q] = "stamp" /\ start'[q] > since'[r] => KnownSeen(r)'
        /\ pc'[q] = "apply" /\ (q = r \/ start'[q] > since'[r]) => KnownInBatch(r)'
  BY <1>1, <1>2 DEF ReaderInv
<1>4. syncTime' > since'[r] \/ pc'[r] \in {"stamp", "read"} => KnownSeen(r)'
  BY <1>1, <1>2 DEF ReaderInv
<1>5. pc'[r] = "idle" => \A o \in Objects : known'[r][o] = 0
  BY <1>1 DEF ReaderInv
<1> QED BY <1>1, <1>3, <1>4, <1>5, VersionsFrame DEF ReaderInv

\* WithSync: no sync that has begun is late enough for the new request.
LEMMA WithSyncStep ==
  ASSUME IInv, NEW p \in Readers, WithSync(p)
  PROVE  CacheInv' /\ TimeInv' /\ \A r \in Readers : ReaderInv(r)'
<1> USE DEF IInv
<1>a. /\ p \in Procs /\ pc[p] = "idle" /\ pc'[p] = "check" /\ Started
      /\ \A q \in Procs \ {p} : pc'[q] = pc[q]
  BY DEF WithSync, TypeOK, Procs
<1>b. /\ UNCHANGED tables /\ UNCHANGED cache /\ UNCHANGED <<holder, batch, start, syncTime, now>>
      /\ since'[p] = now /\ \A o \in Objects : known'[p][o] = table[o].ver
      /\ \A r \in Readers \ {p} : since'[r] = since[r] /\ known'[r] = known[r]
  BY DEF WithSync, TypeOK, consumer
<1>1. CacheInv'
  BY <1>a, <1>b, RequestFrame
<1>2. TimeInv'
  BY <1>b, NumberType DEF TimeInv
<1>3. ReaderInv(p)'
  <2>1. \A o \in Objects :
           /\ known'[p][o] <= table'[o].ver
           /\ known'[p][o] # 0 =>
                \E x \in committed' : log'[x].obj = o /\ log'[x].row.ver = known'[p][o]
    <3> SUFFICES ASSUME NEW o \in Objects
                 PROVE  /\ table[o].ver <= table[o].ver
                        /\ table[o].ver # 0 =>
                             \E x \in committed : log[x].obj = o /\ log[x].row.ver = table[o].ver
      BY <1>b DEF tables
    <3>1. RowOf(o) /\ table[o].ver \in Nat
      BY NumberType DEF DBInv
    <3> QED BY <3>1 DEF RowOf, NoRow
  <2>2. ~ (syncTime' > since'[p])
    BY <1>b, NumberType DEF TimeInv
  <2>3. \A q \in Procs : ~ (start'[q] > since'[p])
    BY <1>b, NumberType DEF TimeInv
  <2> QED BY <1>a, <2>1, <2>2, <2>3 DEF ReaderInv
<1>4. ASSUME NEW r \in Readers, r # p PROVE ReaderInv(r)'
  BY <1>a, <1>b, <1>4, OtherReader
<1> QED BY <1>1, <1>2, <1>3, <1>4

\* trySync: a sync that began after WithSync has finished, or the request runs its own.
LEMMA TrySyncStep ==
  ASSUME IInv, NEW p \in Readers, TrySync(p)
  PROVE  CacheInv' /\ TimeInv' /\ \A r \in Readers : ReaderInv(r)'
<1> USE DEF IInv
<1>a. /\ p \in Procs /\ pc[p] = "check"
      /\ pc'[p] = (IF NeedSync(p) THEN "sync" ELSE "read")
      /\ \A q \in Procs \ {p} : pc'[q] = pc[q]
  BY DEF TrySync, TypeOK, Procs
<1>b. /\ UNCHANGED tables /\ UNCHANGED cache /\ UNCHANGED <<holder, batch, start, syncTime, now>>
      /\ since' = since /\ known' = known
  BY DEF TrySync, consumer, request
<1>c. pc'[p] \in {"idle", "check", "sync", "read"}
  BY <1>a
<1>d. Started
  BY <1>a DEF CacheInv, SyncInv
<1>1. CacheInv'
  BY <1>a, <1>b, <1>c, <1>d, RequestFrame
<1>2. TimeInv'
  BY <1>b DEF TimeInv
<1>3. ReaderInv(p)'
  <2>1. (KnownSeen(p)' <=> KnownSeen(p)) /\ (KnownInBatch(p)' <=> KnownInBatch(p))
    BY <1>b, KnownFrame DEF cache
  <2>2. pc'[p] = "read" => syncTime > since[p]
    BY <1>a, NumberType DEF NeedSync
  <2>3. syncTime' > since'[p] \/ pc'[p] \in {"stamp", "read"} => KnownSeen(p)'
    BY <1>b, <1>c, <2>1, <2>2 DEF ReaderInv
  <2>4. \A q \in Procs :
          /\ pc'[q] = "stamp" /\ start'[q] > since'[p] => KnownSeen(p)'
          /\ pc'[q] = "apply" /\ (q = p \/ start'[q] > since'[p]) => KnownInBatch(p)'
    BY <1>a, <1>b, <1>c, <2>1 DEF ReaderInv
  <2>5. pc'[p] # "idle"
    BY <1>a
  <2> QED BY <1>b, <2>3, <2>4, <2>5, VersionsFrame DEF ReaderInv
<1>4. ASSUME NEW r \in Readers, r # p PROVE ReaderInv(r)'
  BY <1>a, <1>b, <1>c, <1>4, OtherReader
<1> QED BY <1>1, <1>2, <1>3, <1>4

\* Get ends the request.
LEMMA GetStep ==
  ASSUME IInv, NEW p \in Readers, Get(p), TypeOK', DBInv'
  PROVE  CacheInv' /\ TimeInv' /\ \A r \in Readers : ReaderInv(r)'
<1> USE DEF IInv
<1>a. /\ p \in Procs /\ pc[p] = "read" /\ pc'[p] = "idle"
      /\ \A q \in Procs \ {p} : pc'[q] = pc[q]
  BY DEF Get, EndRequest, TypeOK, Procs
<1>b. /\ UNCHANGED tables /\ UNCHANGED cache /\ UNCHANGED <<holder, batch, start, syncTime, now>>
      /\ since'[p] = 0 /\ \A o \in Objects : known'[p][o] = 0
      /\ \A r \in Readers \ {p} : since'[r] = since[r] /\ known'[r] = known[r]
  BY EndedRequest DEF Get, consumer
<1>c. Started
  BY <1>a DEF CacheInv, SyncInv
<1>1. CacheInv'
  BY <1>a, <1>b, <1>c, RequestFrame
<1>2. TimeInv'
  BY <1>b, NumberType DEF TimeInv
<1>3. ReaderInv(p)'
  BY <1>a, <1>b, IdleReader
<1>4. ASSUME NEW r \in Readers, r # p PROVE ReaderInv(r)'
  BY <1>a, <1>b, <1>4, OtherReader
<1> QED BY <1>1, <1>2, <1>3, <1>4

--------------------------------------------------------------------------------
(* The invariant and what follows from it *)

\* Every step of the specification, one lemma per action.
LEMMA StepInvariant == IInv /\ [Next]_vars => IInv'
<1> SUFFICES ASSUME IInv, [Next]_vars PROVE IInv'
  OBVIOUS
<1>1. CASE UNCHANGED vars
  <2>1. TypeOK' /\ TimeInv'
    BY <1>1 DEF IInv, TypeOK, TimeInv, vars, tables, cache, consumer, request
  <2>2. DBInv'
    BY <1>1, TablesFrame DEF IInv, vars
  <2>3. StoreStays /\ HistoryGrows
    BY <1>1, NumberType
       DEF IInv, StoreStays, HistoryGrows, vars, tables, cache, consumer, request
  <2> QED BY <2>1, <2>2, <2>3, WriterFrame DEF IInv
<1>2. CASE Next
  <2>1. TypeOK'
    BY <1>2, TypeStep
  <2>2. CASE \/ Tick
             \/ \E t \in Txs : \/ \E kind \in Kinds, o \in Objects, key \in Keys :
                                     WriteObject(t, kind, o, key)
                               \/ CreateEvent(t) \/ Commit(t) \/ Rollback(t)
    BY <2>1, <2>2, WriterStep DEF IInv
  <2>3. CASE InitEvents \/ InitObjects
    <3>1. DBInv'
      BY <2>3, TablesFrame DEF IInv, InitEvents, InitObjects
    <3> QED BY <2>1, <2>3, <3>1, InitEventsStep, InitObjectsStep DEF IInv
  <2>4. ASSUME NEW p \in Procs,
               \/ SyncBegin(p) \/ LoadEvents(p) \/ ConsumeEvent(p)
               \/ ConsumeEnd(p) \/ UpdateSync(p) \/ SyncFail(p)
        PROVE  IInv'
    <3>1. UNCHANGED tables
      BY <2>4 DEF SyncBegin, LoadEvents, ConsumeEvent, ConsumeEnd, UpdateSync, SyncFail
    <3>2. DBInv'
      BY <3>1, TablesFrame DEF IInv
    <3> QED BY <2>1, <2>4, <3>2, SyncBeginStep, LoadEventsStep, ConsumeEventStep,
               ConsumeEndStep, UpdateSyncStep, SyncFailStep DEF IInv
  <2>5. ASSUME NEW p \in Readers, WithSync(p) \/ TrySync(p) \/ Get(p)
        PROVE  IInv'
    <3>1. UNCHANGED tables
      BY <2>5 DEF WithSync, TrySync, Get
    <3>2. DBInv'
      BY <3>1, TablesFrame DEF IInv
    <3> QED BY <2>1, <2>5, <3>2, WithSyncStep, TrySyncStep, GetStep DEF IInv
  <2> QED BY <1>2, <2>2, <2>3, <2>4, <2>5 DEF Next
<1> QED BY <1>1, <1>2

\* The invariant, for every number of objects, keys, transactions and requests.
THEOREM Invariant == Spec => []IInv
<1>1. Init => IInv
  BY InitInvariant
<1>2. IInv /\ [Next]_vars => IInv'
  BY StepInvariant
<1> QED BY <1>1, <1>2, PTL DEF Spec

\* In whatever order transactions take their event IDs, commit and roll back, the
\* visible event of an object with the greatest ID carries its row: replaying the
\* log by ID, as the stores do, gives the table.
THEOREM LogIsHistory == Spec => []LogReplaysToTable
<1>1. IInv => LogReplaysToTable
  BY LogReplays
<1> QED BY <1>1, Invariant, PTL

\* A store that has caught up holds exactly the table and its index exactly the
\* keys, and at any time an extra entry of the index is of an event to come:
\* although Init read the events before the objects, and syncs fail half way.
THEOREM CacheFollowsTable == Spec => []CacheIsExact
<1>1. IInv => CacheIsExact
  BY CaughtUp, IndexFinds DEF CacheIsExact, IInv
<1> QED BY <1>1, Invariant, PTL

\* What was committed when WithSync was called is in the cache when Get reads it,
\* whoever has synced in between and whatever has failed.
THEOREM RequestsReadWrites == Spec => []ReadYourWrites
<1>1. IInv => ReadYourWrites
  BY ReadsOwnWrites
<1> QED BY <1>1, Invariant, PTL
================================================================================
