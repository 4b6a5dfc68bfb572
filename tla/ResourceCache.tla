----------------------------- MODULE ResourceCache -----------------------------
(***************************************************************************)
(* The reference counted cache of internal/pkg/cache (cache.go), with the  *)
(* storages the invoker puts under it: problem packages and compiler       *)
(* images unpacked into a directory of their own (problems/cache and       *)
(* compilers/cache, manager.go).                                           *)
(*                                                                         *)
(* A load creates a resource with two references, the caller's and the     *)
(* loader's; the loader's becomes the cache's when the load succeeds.      *)
(* Every atomic operation on a counter and every section under the         *)
(* manager's mutex is one step.                                            *)
(***************************************************************************)
EXTENDS Naturals, FiniteSets

CONSTANTS
    Keys,
    Clients,         \* goroutines that load, use, release and delete
    MaxLoads,        \* bound on the loads started
    Panics,          \* TRUE: storage.Load may panic
    NoKey

ASSUME CacheAssumption ==
    MaxLoads \in Nat /\ Panics \in BOOLEAN /\ NoKey \notin Keys

VARIABLES
    cache, futures,  \* manager.cache and manager.futures: key -> resource or 0
    loads,           \* resources created so far
    keyOf,           \* resources: the key they were loaded for
    counter,         \* resources: counter
    storage,         \* resources: what Storage.Load returned, and if it was released
    loader,          \* resources: the goroutine that loads it
    old,             \* resources: what its updateCache returned, or 0
    failed,          \* resources: resourceFuture.err is set
    pc, key, ref     \* clients: where they are, the key, the reference held

mapVars == <<cache, futures>>
resVars == <<loads, keyOf, counter, storage, loader, old, failed>>
clientVars == <<pc, key, ref>>
vars == <<mapVars, resVars, clientVars>>

Resources == 1..MaxLoads

Init ==
    /\ cache = [k \in Keys |-> 0] /\ futures = [k \in Keys |-> 0]
    /\ loads = 0
    /\ keyOf = [r \in Resources |-> NoKey] /\ counter = [r \in Resources |-> 0]
    /\ storage = [r \in Resources |-> "none"] /\ loader = [r \in Resources |-> "none"]
    /\ old = [r \in Resources |-> 0]
    /\ failed = [r \in Resources |-> FALSE]
    /\ pc = [c \in Clients |-> "idle"] /\ key = [c \in Clients |-> NoKey]
    /\ ref = [c \in Clients |-> 0]

--------------------------------------------------------------------------------
(* References. *)

At(c, p) == pc' = [pc EXCEPT ![c] = p]

\* Mutant of Acquire: the counter is left alone.
AcquireForgets(c, r) ==
    /\ ref' = [ref EXCEPT ![c] = r]
    /\ UNCHANGED counter

\* resource.acquire, by a client that found r in one of the maps.
Acquire(c, r) ==
    /\ counter' = [counter EXCEPT ![r] = @ + 1]
    /\ ref' = [ref EXCEPT ![c] = r]

\* What a client does with a resource it found in the cache or among the futures.
Found(c, k) ==
    \/ cache[k] # 0 /\ Acquire(c, cache[k]) /\ At(c, "use")
    \/ cache[k] = 0 /\ futures[k] # 0 /\ Acquire(c, futures[k]) /\ At(c, "wait")

--------------------------------------------------------------------------------
(* Clients: Load or LoadSync, Get, Release; Delete. *)

(* loadFast, under the read lock. *)
LoadFast(c, k) ==
    /\ pc[c] = "idle"
    /\ key' = [key EXCEPT ![c] = k]
    /\ \/ Found(c, k)
       \/ cache[k] = 0 /\ futures[k] = 0 /\ At(c, "slow") /\ UNCHANGED <<counter, ref>>
    /\ UNCHANGED <<mapVars, loads, keyOf, storage, loader, old, failed>>

\* Mutant of StartLoad: only the caller's reference is counted.
StartLoadSingle(c, k) ==
    /\ loads < MaxLoads /\ loads' = loads + 1
    /\ keyOf' = [keyOf EXCEPT ![loads'] = k]
    /\ counter' = [counter EXCEPT ![loads'] = 1]
    /\ loader' = [loader EXCEPT ![loads'] = "load"]
    /\ futures' = [futures EXCEPT ![k] = loads']
    /\ ref' = [ref EXCEPT ![c] = loads']
    /\ At(c, "wait")

\* loadSlow starts a load of its own.
StartLoad(c, k) ==
    /\ loads < MaxLoads /\ loads' = loads + 1
    /\ keyOf' = [keyOf EXCEPT ![loads'] = k]
    /\ counter' = [counter EXCEPT ![loads'] = 2]
    /\ loader' = [loader EXCEPT ![loads'] = "load"]
    /\ futures' = [futures EXCEPT ![k] = loads']
    /\ ref' = [ref EXCEPT ![c] = loads']
    /\ At(c, "wait")

\* Mutant of LoadSlow: it trusts what loadFast saw.
LoadSlowBlind(c) ==
    /\ pc[c] = "slow"
    /\ StartLoad(c, key[c])
    /\ UNCHANGED <<cache, storage, old, failed, key>>

(* loadSlow, under the write lock: it looks again first. *)
LoadSlow(c) ==
    /\ pc[c] = "slow"
    /\ \/ Found(c, key[c]) /\ UNCHANGED <<futures, loads, keyOf, loader>>
       \/ cache[key[c]] = 0 /\ futures[key[c]] = 0 /\ StartLoad(c, key[c])
    /\ UNCHANGED <<cache, storage, old, failed, key>>

\* done is closed when the loader's goroutine ends.
IsDone(r) == loader[r] = "done"

(* The future is done: its value is used, or its error returned. *)
Wake(c) ==
    /\ pc[c] = "wait" /\ IsDone(ref[c])
    /\ At(c, IF failed[ref[c]] THEN "drop" ELSE "use")
    /\ UNCHANGED <<mapVars, resVars, key, ref>>

(* The client's context ends before the future is done. *)
CancelWait(c) ==
    /\ pc[c] = "wait"
    /\ At(c, "drop")
    /\ UNCHANGED <<mapVars, resVars, key, ref>>

(* The client has finished with the value. *)
EndUse(c) ==
    /\ pc[c] = "use"
    /\ At(c, "drop")
    /\ UNCHANGED <<mapVars, resVars, key, ref>>

\* Mutant of Delete: the entry stays in the cache.
DeleteKeeps(c, k) ==
    /\ pc[c] = "idle" /\ cache[k] # 0
    /\ ref' = [ref EXCEPT ![c] = cache[k]]
    /\ key' = [key EXCEPT ![c] = k]
    /\ At(c, "drop")
    /\ UNCHANGED <<mapVars, resVars>>

(* Delete, under the write lock: the client takes over the cache's reference. *)
Delete(c, k) ==
    /\ pc[c] = "idle" /\ cache[k] # 0
    /\ cache' = [cache EXCEPT ![k] = 0]
    /\ ref' = [ref EXCEPT ![c] = cache[k]]
    /\ key' = [key EXCEPT ![c] = k]
    /\ At(c, "drop")
    /\ UNCHANGED <<futures, resVars>>

\* The client lets go of its reference; last says if it was the last one.
Drop(c, last) ==
    /\ pc[c] = "drop"
    /\ counter' = [counter EXCEPT ![ref[c]] = @ - 1]
    /\ \/ /\ last /\ storage[ref[c]] # "none"
          /\ At(c, "free") /\ UNCHANGED <<key, ref>>
       \/ /\ ~last \/ storage[ref[c]] = "none"
          /\ At(c, "idle")
          /\ key' = [key EXCEPT ![c] = NoKey] /\ ref' = [ref EXCEPT ![c] = 0]
    /\ UNCHANGED <<mapVars, loads, keyOf, storage, loader, old, failed>>

\* Mutants of Release: it tests the counter before the decrement, and it
\* releases when one reference is left.
ReleaseLate(c) == Drop(c, counter[ref[c]] = 0)
ReleaseEarly(c) == Drop(c, counter[ref[c]] - 1 <= 1)

(* Release: the counter is decremented; the one who reaches zero goes on   *)
(* to release what the storage returned.                                   *)
Release(c) == Drop(c, counter[ref[c]] - 1 = 0)

(* deletePackage and deleteImage remove the directory. *)
Free(c) ==
    /\ pc[c] = "free"
    /\ storage' = [storage EXCEPT ![ref[c]] = "released"]
    /\ At(c, "idle")
    /\ key' = [key EXCEPT ![c] = NoKey] /\ ref' = [ref EXCEPT ![c] = 0]
    /\ UNCHANGED <<mapVars, loads, keyOf, counter, loader, old, failed>>

--------------------------------------------------------------------------------
(* The loader's goroutine. *)

Go(r, p) == loader' = [loader EXCEPT ![r] = p]

(* Storage.Load: a package is downloaded and unpacked. *)
LoadOK(r) ==
    /\ loader[r] = "load"
    /\ storage' = [storage EXCEPT ![r] = "live"]
    /\ Go(r, "update")
    /\ UNCHANGED <<mapVars, loads, keyOf, counter, old, failed, clientVars>>

(* It fails, or the context of the client that started it ends; a package  *)
(* that was begun has been removed.                                        *)
LoadError(r) ==
    /\ loader[r] = "load"
    /\ failed' = [failed EXCEPT ![r] = TRUE]
    /\ Go(r, "update")
    /\ UNCHANGED <<mapVars, loads, keyOf, counter, storage, old, clientVars>>

(* It panics: the deferred function records that and closes done. *)
LoadPanic(r) ==
    /\ Panics /\ loader[r] = "load"
    /\ failed' = [failed EXCEPT ![r] = TRUE]
    /\ Go(r, "done")
    /\ UNCHANGED <<mapVars, loads, keyOf, counter, storage, old, clientVars>>

\* Mutant of UpdateCache: it returns the loaded resource, never the replaced one.
UpdateReturnsLoaded(r) ==
    LET k == keyOf[r] IN
    /\ loader[r] = "update"
    /\ futures' = IF futures[k] = r THEN [futures EXCEPT ![k] = 0] ELSE futures
    /\ cache' = IF failed[r] THEN cache ELSE [cache EXCEPT ![k] = r]
    /\ old' = [old EXCEPT ![r] = r]
    /\ Go(r, "drop")
    /\ UNCHANGED <<loads, keyOf, counter, storage, failed, clientVars>>

(* updateCache, under the write lock: it returns the resource that did not *)
(* get into the cache or the one that was replaced there.                  *)
UpdateCache(r) ==
    LET k == keyOf[r] IN
    /\ loader[r] = "update"
    /\ futures' = IF futures[k] = r THEN [futures EXCEPT ![k] = 0] ELSE futures
    /\ cache' = IF failed[r] THEN cache ELSE [cache EXCEPT ![k] = r]
    /\ old' = [old EXCEPT ![r] = IF failed[r] THEN r ELSE cache[k]]
    /\ Go(r, IF old'[r] = 0 THEN "close" ELSE "drop")
    /\ UNCHANGED <<loads, keyOf, counter, storage, failed, clientVars>>

(* The loader releases what updateCache returned. *)
DropOld(r) ==
    LET o == old[r] IN
    /\ loader[r] = "drop"
    /\ counter' = [counter EXCEPT ![o] = @ - 1]
    /\ storage' = [storage EXCEPT ![o] = IF counter[o] = 1 /\ @ = "live" THEN "released" ELSE @]
    /\ Go(r, "close")
    /\ UNCHANGED <<mapVars, loads, keyOf, old, failed, clientVars>>

\* Mutant of CloseDone: done is closed after a successful load only.
CloseOnSuccess(r) ==
    /\ loader[r] = "close" /\ ~failed[r]
    /\ Go(r, "done")
    /\ UNCHANGED <<mapVars, loads, keyOf, counter, storage, old, failed, clientVars>>

(* The deferred function: whoever waits for the future is woken. *)
CloseDone(r) ==
    /\ loader[r] = "close"
    /\ Go(r, "done")
    /\ UNCHANGED <<mapVars, loads, keyOf, counter, storage, old, failed, clientVars>>

ClientStep(c) ==
    \/ \E k \in Keys : LoadFast(c, k) \/ Delete(c, k)
    \/ LoadSlow(c) \/ Wake(c) \/ CancelWait(c) \/ EndUse(c) \/ Release(c) \/ Free(c)

LoaderStep(r) ==
    LoadOK(r) \/ LoadError(r) \/ LoadPanic(r) \/ UpdateCache(r) \/ DropOld(r) \/ CloseDone(r)

Next == (\E c \in Clients : ClientStep(c)) \/ (\E r \in Resources : LoaderStep(r))

Spec == Init /\ [][Next]_vars

(* Goroutines are scheduled, loads end, and values are used for a while    *)
(* only; a client need not load again, delete or be cancelled.             *)
FairSpec ==
    /\ Spec
    /\ \A c \in Clients : /\ WF_vars(LoadSlow(c)) /\ WF_vars(Wake(c)) /\ WF_vars(EndUse(c))
                          /\ WF_vars(Release(c)) /\ WF_vars(Free(c))
    /\ \A r \in Resources : WF_vars(LoaderStep(r))

--------------------------------------------------------------------------------
(* The maps, the counters (never negative) and the goroutines have their   *)
(* types.                                                                  *)
TypeOK ==
    /\ cache \in [Keys -> 0..MaxLoads] /\ futures \in [Keys -> 0..MaxLoads]
    /\ loads \in 0..MaxLoads
    /\ keyOf \in [Resources -> Keys \cup {NoKey}]
    /\ counter \in [Resources -> Nat]
    /\ storage \in [Resources -> {"none", "live", "released"}]
    /\ loader \in [Resources -> {"none", "load", "update", "drop", "close", "done"}]
    /\ old \in [Resources -> 0..MaxLoads]
    /\ failed \in [Resources -> BOOLEAN]
    /\ pc \in [Clients -> {"idle", "slow", "wait", "use", "drop", "free"}]
    /\ key \in [Clients -> Keys \cup {NoKey}] /\ ref \in [Clients -> 0..MaxLoads]

\* The loaders that count on r: its own until updateCache has run, which a
\* panic prevents for ever, and the one about to release it.
Loaders(r) ==
    {s \in Resources :
        \/ s = r /\ loader[s] \in {"load", "update"}
        \/ s = r /\ loader[s] = "done" /\ futures[keyOf[s]] = s
        \/ loader[s] = "drop" /\ old[s] = r}

\* The clients and the entries of the cache that refer to r.
Users(r) == {c \in Clients : ref[c] = r /\ pc[c] # "free"}
Entries(r) == {k \in Keys : cache[k] = r}

\* All the references to r there are.
References(r) == Cardinality(Users(r)) + Cardinality(Entries(r)) + Cardinality(Loaders(r))

(* The counter of a resource is the number of its references, at every     *)
(* moment and whoever was cancelled, deleted or failed.                    *)
CounterIsExact == \A r \in Resources : counter[r] = References(r)

(* A value is never used after the storage has released it, nor released   *)
(* twice: the directory of a package or image is there for as long as      *)
(* somebody works in it, and until the one Storage.Release.                *)
NoUseAfterRelease == \A c \in Clients : pc[c] \in {"use", "free"} => storage[ref[c]] = "live"

(* What the maps hand out still has a reference of its own: acquire never  *)
(* panics with "cannot acquire released resource".                         *)
MapsHoldReferences ==
    \A k \in Keys : \A r \in {cache[k], futures[k]} \ {0} : counter[r] >= 1

(* A key is loaded by one goroutine at a time and never while it is        *)
(* cached: a package is not downloaded twice, and updateCache never        *)
(* replaces a resource in the cache.                                       *)
OneLoadPerKey ==
    \A r \in Resources :
        loader[r] \in {"load", "update"} => futures[keyOf[r]] = r /\ cache[keyOf[r]] = 0

(* A resource nobody refers to has been released, or its release is under  *)
(* way: no directory is left behind, whoever came last.                    *)
NothingLeaks ==
    \A r \in Resources :
        storage[r] = "live" =>
            References(r) > 0 \/ \E c \in Clients : pc[c] = "free" /\ ref[c] = r

(* References and counters in all: each is counted, what a map holds has   *)
(* one, and what has none is released.                                     *)
ReferencesExact == TypeOK /\ CounterIsExact /\ MapsHoldReferences /\ NothingLeaks

(* A client that waits gets its value or an error.                         *)
WaitersWake == \A c \in Clients : pc[c] = "wait" ~> pc[c] # "wait"

(* Load "loads resource with the given key, or reuses a cached resource":  *)
(* a future is handed out to later callers only while its load goes on.    *)
FuturesAreLoading ==
    \A k \in Keys : futures[k] # 0 => loader[futures[k]] # "done"
================================================================================
