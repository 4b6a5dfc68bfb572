-------------------------- MODULE ResourceCacheProofs --------------------------
(***************************************************************************)
(* The reference counted cache for any number of clients, keys and loads,  *)
(* with loads that fail or panic.                                          *)
(***************************************************************************)
EXTENDS ResourceCache, TLAPS, FiniteSetTheorems

\* What a map refers to is a resource of its key; what is cached was loaded.
KeyInv(k) ==
    /\ cache[k] # 0 => /\ cache[k] <= loads /\ keyOf[cache[k]] = k /\ ~failed[cache[k]]
                       /\ loader[cache[k]] \in {"close", "done"}
    /\ futures[k] # 0 => /\ futures[k] <= loads /\ keyOf[futures[k]] = k /\ cache[k] = 0
                         /\ \/ loader[futures[k]] \in {"load", "update"}
                            \/ loader[futures[k]] = "done" /\ failed[futures[k]]

\* The life of a resource: its load, its value and its release.
ResourceInv(r) ==
    /\ r > loads => loader[r] = "none" /\ counter[r] = 0
    /\ r <= loads => loader[r] # "none" /\ keyOf[r] \in Keys
    /\ loader[r] \in {"load", "update"} => futures[keyOf[r]] = r
    /\ loader[r] = "drop" => failed[r]
    /\ old[r] \in {0, r} /\ (loader[r] = "drop" => old[r] = r)
    /\ loader[r] \in {"none", "load"} \/ failed[r] => storage[r] = "none"
    /\ loader[r] \in {"none", "load"} => ~failed[r]
    /\ loader[r] \notin {"none", "load"} /\ ~failed[r] => storage[r] # "none"
    /\ storage[r] = "released" => counter[r] = 0
    /\ storage[r] = "live" /\ counter[r] = 0 => \E c \in Clients : pc[c] = "free" /\ ref[c] = r

\* A client refers to a resource from its Load to its Release.
ClientInv(c) ==
    /\ pc[c] \in {"idle", "slow"} <=> ref[c] = 0
    /\ pc[c] = "slow" => key[c] \in Keys
    /\ ref[c] <= loads
    /\ pc[c] = "use" => loader[ref[c]] \in {"close", "done"} /\ ~failed[ref[c]]
    /\ pc[c] = "free" => storage[ref[c]] = "live" /\ counter[ref[c]] = 0

\* One client releases what the storage returned.
OneFrees ==
    \A c, d \in Clients : pc[c] = "free" /\ pc[d] = "free" /\ ref[c] = ref[d] => c = d

\* A resource has at most one entry and counts on at most one loader, its own.
Entry(r) == IF \E k \in Keys : cache[k] = r THEN 1 ELSE 0
Loading(r) ==
    IF loader[r] \in {"load", "update", "drop"} \/ \E k \in Keys : futures[k] = r THEN 1 ELSE 0

\* The counter of r, with finitely many clients to count.
Counted(r) ==
    IsFiniteSet(Users(r)) /\ counter[r] = Cardinality(Users(r)) + Entry(r) + Loading(r)

IInv ==
    /\ TypeOK /\ OneFrees
    /\ \A k \in Keys : KeyInv(k)
    /\ \A r \in Resources : ResourceInv(r) /\ Counted(r)
    /\ \A c \in Clients : ClientInv(c)

--------------------------------------------------------------------------------
(* Types and counting *)

\* What is in a map or in the hands of a client is a resource, or nothing.
LEMMA MapType ==
  ASSUME TypeOK, NEW k \in Keys
  PROVE  /\ cache[k] \in Nat /\ (cache[k] # 0 => cache[k] \in Resources)
         /\ futures[k] \in Nat /\ (futures[k] # 0 => futures[k] \in Resources)
BY CacheAssumption DEF TypeOK, Resources

\* So is what a client refers to.
LEMMA ClientType ==
  ASSUME TypeOK, NEW c \in Clients
  PROVE  ref[c] \in Nat /\ (ref[c] # 0 => ref[c] \in Resources)
BY CacheAssumption DEF TypeOK, Resources

\* Resources are numbered from 1.
LEMMA ResourceType ==
  ASSUME TypeOK, NEW r \in Resources
  PROVE  r \in Nat /\ r # 0 /\ loads \in Nat /\ counter[r] \in Nat /\ Resources \subseteq Nat
BY CacheAssumption DEF TypeOK, Resources

\* A number of users, and of users once more with c, or without it.
LEMMA UsersCount ==
  ASSUME NEW r, IsFiniteSet(Users(r))
  PROVE  /\ Cardinality(Users(r)) \in Nat
         /\ (Cardinality(Users(r)) = 0 <=> Users(r) = {})
BY FS_CardinalityType, FS_EmptySet

\* One more user.
LEMMA UsersAdd ==
  ASSUME NEW r, NEW c, IsFiniteSet(Users(r)), c \notin Users(r), Users(r)' = Users(r) \cup {c}
  PROVE  IsFiniteSet(Users(r)') /\ Cardinality(Users(r)') = Cardinality(Users(r)) + 1
BY FS_AddElement

\* One user less.
LEMMA UsersRemove ==
  ASSUME NEW r, NEW c, IsFiniteSet(Users(r)), c \in Users(r), Users(r)' = Users(r) \ {c}
  PROVE  IsFiniteSet(Users(r)') /\ Cardinality(Users(r)') = Cardinality(Users(r)) - 1
BY FS_RemoveElement

\* Whoever is counted keeps the counter above zero.
LEMMA CountIsPositive ==
  ASSUME TypeOK, NEW r \in Resources, Counted(r),
         Users(r) # {} \/ Entry(r) = 1 \/ Loading(r) = 1
  PROVE  counter[r] \in Nat /\ counter[r] >= 1
<1>1. Entry(r) \in {0, 1} /\ Loading(r) \in {0, 1}
  BY DEF Entry, Loading
<1> QED BY <1>1, UsersCount DEF Counted

\* The sets the counter stands for are those of the specification.
LEMMA EntriesCount ==
  ASSUME NEW r \in Resources, TypeOK, \A k \in Keys : KeyInv(k)
  PROVE  Cardinality(Entries(r)) = Entry(r)
<1>1. CASE \E k \in Keys : cache[k] = r
  <2>1. PICK k \in Keys : cache[k] = r
    BY <1>1
  <2>2. Entries(r) = {k}
    BY <2>1, ResourceType DEF Entries, KeyInv
  <2> QED BY <1>1, <2>2, FS_Singleton DEF Entry
<1>2. CASE ~ \E k \in Keys : cache[k] = r
  <2>1. Entries(r) = {}
    BY <1>2 DEF Entries
  <2> QED BY <1>2, <2>1, FS_EmptySet DEF Entry
<1> QED BY <1>1, <1>2

\* A loader counts for its own resource only: updateCache never replaces one.
LEMMA LoadersCount ==
  ASSUME NEW r \in Resources, IInv
  PROVE  Cardinality(Loaders(r)) = Loading(r)
<1> USE DEF IInv
<1>1. \A s \in Loaders(r) : s = r
  BY ResourceType DEF Loaders, ResourceInv
<1>2. r \in Loaders(r) <=> \/ loader[r] \in {"load", "update", "drop"}
                           \/ loader[r] = "done" /\ futures[keyOf[r]] = r
  BY DEF Loaders, ResourceInv
<1>3. ASSUME loader[r] = "done", futures[keyOf[r]] = r
      PROVE  \E k \in Keys : futures[k] = r
  <2>1. r <= loads
    BY <1>3, ResourceType DEF ResourceInv
  <2> QED BY <1>3, <2>1 DEF ResourceInv
<1>4. ASSUME NEW k \in Keys, futures[k] = r
      PROVE  \/ loader[r] \in {"load", "update", "drop"}
             \/ loader[r] = "done" /\ futures[keyOf[r]] = r
  BY <1>4, ResourceType DEF KeyInv
<1>5. r \in Loaders(r) <=> Loading(r) = 1
  BY <1>2, <1>3, <1>4 DEF Loading
<1>6. CASE r \in Loaders(r)
  <2>1. Loaders(r) = {r}
    BY <1>1, <1>6
  <2> QED BY <1>5, <1>6, <2>1, FS_Singleton
<1>7. CASE r \notin Loaders(r)
  <2>1. Loaders(r) = {}
    BY <1>1, <1>7
  <2>2. Loading(r) = 0
    BY <1>5, <1>7 DEF Loading
  <2> QED BY <2>1, <2>2, FS_EmptySet
<1> QED BY <1>6, <1>7

\* The properties follow from the invariant.
LEMMA InvImplies == IInv => ReferencesExact /\ NoUseAfterRelease /\ OneLoadPerKey
<1> SUFFICES ASSUME IInv PROVE ReferencesExact /\ NoUseAfterRelease /\ OneLoadPerKey
  OBVIOUS
<1> USE DEF IInv
<1>1. \A r \in Resources : counter[r] = References(r)
  BY EntriesCount, LoadersCount DEF Counted, References
<1>2. MapsHoldReferences
  <2> SUFFICES ASSUME NEW k \in Keys, NEW r \in {cache[k], futures[k]}, r # 0 PROVE counter[r] >= 1
    BY DEF MapsHoldReferences
  <2>1. r \in Resources
    BY MapType
  <2>2. Entry(r) = 1 \/ Loading(r) = 1
    BY DEF Entry, Loading
  <2> QED BY <2>1, <2>2, CountIsPositive
<1>3. NothingLeaks
  <2> SUFFICES ASSUME NEW r \in Resources, storage[r] = "live"
               PROVE  References(r) > 0 \/ \E c \in Clients : pc[c] = "free" /\ ref[c] = r
    BY DEF NothingLeaks
  <2>1. counter[r] \in Nat /\ counter[r] = References(r)
    BY <1>1, ResourceType
  <2>2. counter[r] # 0 \/ \E c \in Clients : pc[c] = "free" /\ ref[c] = r
    BY DEF ResourceInv
  <2> QED BY <2>1, <2>2
<1>4. ASSUME NEW c \in Clients, pc[c] \in {"use", "free"} PROVE storage[ref[c]] = "live"
  <2>1. CASE pc[c] = "free"
    BY <2>1 DEF ClientInv
  <2>2. CASE pc[c] = "use"
    <3>1. ref[c] \in Resources /\ c \in Users(ref[c])
      BY <2>2, ClientType DEF ClientInv, Users
    <3>2. counter[ref[c]] >= 1 /\ counter[ref[c]] \in Nat
      BY <3>1, CountIsPositive
    <3>3. storage[ref[c]] # "released"
      BY <3>1, <3>2 DEF ResourceInv
    <3>4. storage[ref[c]] # "none"
      BY <2>2, <3>1 DEF ResourceInv, ClientInv
    <3> QED BY <3>1, <3>3, <3>4 DEF TypeOK
  <2> QED BY <1>4, <2>1, <2>2
<1>5. OneLoadPerKey
  <2> SUFFICES ASSUME NEW r \in Resources, loader[r] \in {"load", "update"}
               PROVE  futures[keyOf[r]] = r /\ cache[keyOf[r]] = 0
    BY DEF OneLoadPerKey
  <2>1. futures[keyOf[r]] = r /\ keyOf[r] \in Keys
    BY ResourceType DEF ResourceInv
  <2> QED BY <2>1, ResourceType DEF KeyInv
<1> QED BY <1>1, <1>2, <1>3, <1>4, <1>5 DEF ReferencesExact, CounterIsExact, NoUseAfterRelease

--------------------------------------------------------------------------------
(* Frames: what a step that is about something else leaves true *)

\* A key, when its resources stay as they are.
LEMMA KeyFrame ==
  ASSUME TypeOK, NEW k \in Keys, KeyInv(k), cache'[k] = cache[k], futures'[k] = futures[k],
         loads \in Nat, loads' \in Nat, loads' >= loads,
         \A r \in {cache[k], futures[k]} \ {0} :
             keyOf'[r] = keyOf[r] /\ failed'[r] = failed[r] /\ loader'[r] = loader[r]
  PROVE  KeyInv(k)'
BY MapType DEF KeyInv

\* The same for a resource, as long as its future stays where it is.
LEMMA ResourceFrame ==
  ASSUME NEW r \in Resources, ResourceInv(r), loads' = loads, keyOf'[r] = keyOf[r],
         loader'[r] = loader[r], old'[r] = old[r], failed'[r] = failed[r],
         storage'[r] = storage[r], counter'[r] = counter[r],
         loader[r] \in {"load", "update"} => futures'[keyOf[r]] = futures[keyOf[r]],
         \A c \in Clients : pc[c] = "free" /\ ref[c] = r => pc'[c] = "free" /\ ref'[c] = r
  PROVE  ResourceInv(r)'
BY DEF ResourceInv

\* The same for a client.
LEMMA ClientFrame ==
  ASSUME NEW c \in Clients, ClientInv(c), pc'[c] = pc[c], key'[c] = key[c], ref'[c] = ref[c],
         loads \in Nat, loads' \in Nat, ref[c] \in Nat, loads' >= loads,
         pc[c] = "use" => loader'[ref[c]] \in {"close", "done"} /\ ~failed'[ref[c]],
         pc[c] = "free" => storage'[ref[c]] = storage[ref[c]] /\ counter'[ref[c]] = counter[ref[c]]
  PROVE  ClientInv(c)'
BY DEF ClientInv

\* Two sets of users are the same when the same clients refer to r.
LEMMA UsersFrame ==
  ASSUME NEW r,
         \A c \in Clients : (ref'[c] = r /\ pc'[c] # "free") <=> (ref[c] = r /\ pc[c] # "free")
  PROVE  Users(r)' = Users(r)
BY DEF Users

\* The same for a counter.
LEMMA CountedFrame ==
  ASSUME NEW r \in Resources, Counted(r), counter'[r] = counter[r], Users(r)' = Users(r),
         Entry(r)' = Entry(r), Loading(r)' = Loading(r)
  PROVE  Counted(r)'
BY DEF Counted

\* The resources that a key's maps hold are counted, and were created.
LEMMA InMaps ==
  ASSUME IInv, NEW k \in Keys, NEW r \in Resources, cache[k] = r \/ futures[k] = r
  PROVE  counter[r] \in Nat /\ counter[r] >= 1 /\ r <= loads /\ storage[r] # "released"
<1>1. Entry(r) = 1 \/ Loading(r) = 1
  BY DEF Entry, Loading
<1>2. counter[r] \in Nat /\ counter[r] >= 1
  BY <1>1, CountIsPositive DEF IInv
<1>3. r <= loads
  BY ResourceType DEF IInv, KeyInv
<1>4. storage[r] # "released"
  BY <1>2 DEF IInv, ResourceInv
<1> QED BY <1>2, <1>3, <1>4

\* So is what a client refers to, unless it is releasing it.
LEMMA InUse ==
  ASSUME IInv, NEW c \in Clients, ref[c] # 0, pc[c] # "free"
  PROVE  /\ ref[c] \in Resources /\ c \in Users(ref[c])
         /\ counter[ref[c]] \in Nat /\ counter[ref[c]] >= 1 /\ storage[ref[c]] # "released"
<1>1. ref[c] \in Resources /\ c \in Users(ref[c])
  BY ClientType DEF IInv, Users
<1>2. counter[ref[c]] \in Nat /\ counter[ref[c]] >= 1
  BY <1>1, CountIsPositive DEF IInv
<1>3. storage[ref[c]] # "released"
  BY <1>1, <1>2 DEF IInv, ResourceInv
<1> QED BY <1>1, <1>2, <1>3

--------------------------------------------------------------------------------
(* The steps of the clients *)

\* The cache starts empty.
LEMMA InitInvariant == Init => IInv
<1> SUFFICES ASSUME Init PROVE IInv
  OBVIOUS
<1>1. TypeOK
  BY CacheAssumption DEF Init, TypeOK, Resources
<1>2. OneFrees /\ \A k \in Keys : KeyInv(k)
  BY DEF Init, OneFrees, KeyInv
<1>3. ASSUME NEW r \in Resources PROVE ResourceInv(r)
  BY CacheAssumption DEF Init, ResourceInv, Resources
<1>4. ASSUME NEW r \in Resources PROVE Counted(r)
  <2>1. r # 0
    BY DEF Resources
  <2>2. Users(r) = {} /\ Entry(r) = 0 /\ Loading(r) = 0
    BY <2>1 DEF Init, Users, Entry, Loading
  <2> QED BY <2>2, FS_EmptySet DEF Counted, Init
<1>5. ASSUME NEW c \in Clients PROVE ClientInv(c)
  BY DEF Init, ClientInv
<1> QED BY <1>1, <1>2, <1>3, <1>4, <1>5 DEF IInv

\* A reference to what is in a map is one more, and never the first.
LEMMA AcquireInvariant ==
  ASSUME IInv, NEW c \in Clients, NEW r \in Resources, NEW k \in Keys, NEW p \in {"use", "wait"},
         ref[c] = 0, cache[k] = r \/ futures[k] = r, p = "use" => cache[k] = r,
         Acquire(c, r), At(c, p), key' \in [Clients -> Keys \cup {NoKey}],
         \A d \in Clients \ {c} : key'[d] = key[d],
         UNCHANGED <<mapVars, loads, keyOf, storage, loader, old, failed>>
  PROVE  IInv'
<1> USE DEF IInv
<1>1. UNCHANGED <<cache, futures, loads, keyOf, storage, loader, old, failed>>
  BY DEF mapVars
<1>2. /\ pc'[c] = p /\ ref'[c] = r /\ pc[c] \in {"idle", "slow"}
      /\ \A d \in Clients \ {c} : pc'[d] = pc[d] /\ ref'[d] = ref[d]
  BY DEF Acquire, At, TypeOK, ClientInv
<1>3. counter'[r] = counter[r] + 1 /\ \A s \in Resources \ {r} : counter'[s] = counter[s]
  BY DEF Acquire, TypeOK
<1>4. counter[r] \in Nat /\ counter[r] >= 1 /\ r <= loads /\ storage[r] # "released"
  BY InMaps
<1>5. r \in Nat /\ r # 0 /\ loads \in Nat
  BY ResourceType
<1>6. TypeOK'
  <2>1. counter' \in [Resources -> Nat]
    BY <1>4 DEF TypeOK, Acquire
  <2>2. ref' \in [Clients -> 0..MaxLoads]
    BY CacheAssumption DEF TypeOK, Acquire, Resources
  <2>3. pc' \in [Clients -> {"idle", "slow", "wait", "use", "drop", "free"}]
    BY DEF TypeOK, At
  <2> QED BY <1>1, <2>1, <2>2, <2>3 DEF TypeOK
<1>7. OneFrees'
  BY <1>2 DEF OneFrees
<1>8. \A j \in Keys : KeyInv(j)'
  BY <1>1 DEF KeyInv
<1>9. ASSUME NEW s \in Resources PROVE ResourceInv(s)'
  <2>1. CASE s # r
    BY <1>1, <1>2, <1>3, <2>1, ResourceFrame
  <2>2. CASE s = r
    BY <1>1, <1>3, <1>4, <1>5, <2>2 DEF ResourceInv
  <2> QED BY <2>1, <2>2
<1>10. ASSUME NEW s \in Resources PROVE Counted(s)'
  <2>1. Entry(s)' = Entry(s) /\ Loading(s)' = Loading(s)
    BY <1>1 DEF Entry, Loading
  <2>2. CASE s # r
    <3>1. Users(s)' = Users(s)
      BY <1>2, <2>2, ResourceType, UsersFrame
    <3> QED BY <1>3, <2>1, <2>2, <3>1, CountedFrame
  <2>3. CASE s = r
    <3>1. c \notin Users(r) /\ Users(r)' = Users(r) \cup {c}
      BY <1>2, <1>5 DEF Users
    <3>2. IsFiniteSet(Users(r)') /\ Cardinality(Users(r)') = Cardinality(Users(r)) + 1
      BY <3>1, UsersAdd DEF Counted
    <3>3. Entry(s) \in {0, 1} /\ Loading(s) \in {0, 1}
      BY DEF Entry, Loading
    <3>4. Cardinality(Users(r)) \in Nat
      BY UsersCount DEF Counted
    <3> QED BY <1>3, <2>1, <2>3, <3>2, <3>3, <3>4 DEF Counted
  <2> QED BY <2>2, <2>3
<1>11. ASSUME NEW d \in Clients PROVE ClientInv(d)'
  <2>1. CASE d # c
    <3>1. pc[d] = "free" => ref[d] # r /\ ref[d] \in Resources
      BY <1>4, ClientType DEF ClientInv
    <3> QED BY <1>1, <1>2, <1>3, <1>5, <2>1, <3>1, ClientType, ClientFrame DEF ClientInv
  <2>2. CASE d = c
    <3>1. p = "use" => loader[r] \in {"close", "done"} /\ ~failed[r]
      BY <1>5 DEF KeyInv
    <3> QED BY <1>1, <1>2, <1>4, <1>5, <2>2, <3>1 DEF ClientInv
  <2> QED BY <2>1, <2>2
<1> QED BY <1>6, <1>7, <1>8, <1>9, <1>10, <1>11

\* A client that keeps its reference changes nothing that counts.
LEMMA MoveInvariant ==
  ASSUME IInv, NEW c \in Clients, NEW p \in {"slow", "use", "drop"},
         pc[c] # "free", At(c, p), ref' = ref, key' \in [Clients -> Keys \cup {NoKey}],
         \A d \in Clients \ {c} : key'[d] = key[d],
         p = "slow" => ref[c] = 0 /\ key'[c] \in Keys, p # "slow" => ref[c] # 0,
         p = "use" => loader[ref[c]] \in {"close", "done"} /\ ~failed[ref[c]],
         UNCHANGED <<mapVars, resVars>>
  PROVE  IInv'
<1> USE DEF IInv
<1>1. UNCHANGED <<cache, futures, loads, keyOf, counter, storage, loader, old, failed>>
  BY DEF mapVars, resVars
<1>2. /\ pc'[c] = p /\ ref'[c] = ref[c]
      /\ \A d \in Clients \ {c} : pc'[d] = pc[d] /\ ref'[d] = ref[d]
  BY DEF At, TypeOK
<1>3. loads \in Nat
  BY CacheAssumption DEF TypeOK
<1>4. TypeOK'
  BY <1>1 DEF TypeOK, At
<1>5. OneFrees'
  BY <1>2 DEF OneFrees
<1>6. \A j \in Keys : KeyInv(j)'
  BY <1>1 DEF KeyInv
<1>7. \A s \in Resources : ResourceInv(s)'
  BY <1>1, <1>2, ResourceFrame
<1>8. ASSUME NEW s \in Resources PROVE Counted(s)'
  <2>1. Entry(s)' = Entry(s) /\ Loading(s)' = Loading(s)
    BY <1>1 DEF Entry, Loading
  <2>2. Users(s)' = Users(s)
    BY <1>2, UsersFrame
  <2> QED BY <1>1, <2>1, <2>2, CountedFrame
<1>9. ASSUME NEW d \in Clients PROVE ClientInv(d)'
  <2>1. CASE d # c
    BY <1>1, <1>2, <1>3, <2>1, ClientType, ClientFrame DEF ClientInv
  <2>2. CASE d = c
    BY <1>1, <1>2, <2>2 DEF ClientInv
  <2> QED BY <2>1, <2>2
<1> QED BY <1>4, <1>5, <1>6, <1>7, <1>8, <1>9

\* A client finds what it looks for, or will look again under the write lock.
LEMMA LoadFastInvariant ==
  ASSUME IInv, NEW c \in Clients, NEW k \in Keys, LoadFast(c, k)
  PROVE  IInv'
<1>1. /\ ref[c] = 0 /\ pc[c] = "idle" /\ key' \in [Clients -> Keys \cup {NoKey}] /\ key'[c] = k
      /\ \A d \in Clients \ {c} : key'[d] = key[d]
  BY DEF IInv, TypeOK, ClientInv, LoadFast
<1>2. CASE cache[k] # 0 /\ Acquire(c, cache[k]) /\ At(c, "use")
  <2>1. cache[k] \in Resources
    BY <1>2, MapType DEF IInv
  <2> QED BY <1>1, <1>2, <2>1, AcquireInvariant DEF LoadFast
<1>3. CASE cache[k] = 0 /\ futures[k] # 0 /\ Acquire(c, futures[k]) /\ At(c, "wait")
  <2>1. futures[k] \in Resources
    BY <1>3, MapType DEF IInv
  <2> QED BY <1>1, <1>3, <2>1, AcquireInvariant DEF LoadFast
<1>4. CASE At(c, "slow") /\ UNCHANGED <<counter, ref>>
  <2>1. UNCHANGED <<mapVars, resVars>>
    BY <1>4 DEF LoadFast, resVars
  <2> QED BY <1>1, <1>4, <2>1, MoveInvariant
<1> QED BY <1>2, <1>3, <1>4 DEF LoadFast, Found

\* A load of its own: the resource is new, with the references of the client
\* and of the loader.
LEMMA StartLoadInvariant ==
  ASSUME IInv, NEW c \in Clients, NEW k \in Keys, pc[c] = "slow", cache[k] = 0, futures[k] = 0,
         StartLoad(c, k), UNCHANGED <<cache, storage, old, failed, key>>
  PROVE  IInv'
<1> USE DEF IInv
<1> DEFINE n == loads + 1
<1>1. /\ loads \in Nat /\ MaxLoads \in Nat /\ loads' = n /\ n \in Resources /\ n \in Nat /\ n # 0
      /\ n > loads /\ ref[c] = 0
  BY CacheAssumption DEF TypeOK, StartLoad, Resources, ClientInv
<1>2. /\ keyOf'[n] = k /\ counter'[n] = 2 /\ loader'[n] = "load"
      /\ \A s \in Resources \ {n} : /\ keyOf'[s] = keyOf[s] /\ counter'[s] = counter[s]
                                    /\ loader'[s] = loader[s]
  BY <1>1 DEF TypeOK, StartLoad
<1>3. futures'[k] = n /\ \A j \in Keys \ {k} : futures'[j] = futures[j]
  BY <1>1 DEF TypeOK, StartLoad
<1>4. /\ pc'[c] = "wait" /\ ref'[c] = n
      /\ \A d \in Clients \ {c} : pc'[d] = pc[d] /\ ref'[d] = ref[d] /\ key'[d] = key[d]
  BY <1>1 DEF TypeOK, StartLoad, At
<1>5. loader[n] = "none" /\ storage[n] = "none" /\ ~failed[n] /\ old[n] \in {0, n}
  BY <1>1 DEF ResourceInv
<1>6. \A j \in Keys : cache[j] # n /\ futures[j] # n
  BY <1>1, MapType DEF KeyInv
<1>7. \A d \in Clients : ref[d] # n /\ ref[d] \in Nat
  BY <1>1, ClientType DEF ClientInv
<1>8. TypeOK'
  <2>1. loads' \in 0..MaxLoads /\ n \in 0..MaxLoads
    BY <1>1 DEF Resources
  <2>2. futures' \in [Keys -> 0..MaxLoads] /\ ref' \in [Clients -> 0..MaxLoads]
    BY <1>1, <2>1 DEF TypeOK, StartLoad
  <2>3. keyOf' \in [Resources -> Keys \cup {NoKey}] /\ counter' \in [Resources -> Nat]
    BY <1>1 DEF TypeOK, StartLoad
  <2>4. loader' \in [Resources -> {"none", "load", "update", "drop", "close", "done"}]
    BY DEF TypeOK, StartLoad
  <2>5. pc' \in [Clients -> {"idle", "slow", "wait", "use", "drop", "free"}]
    BY DEF TypeOK, StartLoad, At
  <2> QED BY <2>1, <2>2, <2>3, <2>4, <2>5 DEF TypeOK
<1>9. OneFrees'
  BY <1>4 DEF OneFrees
<1>10. ASSUME NEW j \in Keys PROVE KeyInv(j)'
  <2>1. CASE j = k
    BY <1>1, <1>2, <1>3, <2>1 DEF KeyInv
  <2>2. CASE j # k
    <3>1. \A r \in {cache[j], futures[j]} \ {0} : r \in Resources /\ r # n
      BY <1>6, MapType
    <3> QED BY <1>1, <1>2, <1>3, <2>2, <3>1, KeyFrame
  <2> QED BY <2>1, <2>2
<1>11. ASSUME NEW s \in Resources PROVE ResourceInv(s)'
  <2>1. CASE s = n
    BY <1>1, <1>2, <1>3, <1>5, <2>1 DEF ResourceInv
  <2>2. CASE s # n
    <3>1. s \in Nat /\ (s > n <=> s > loads) /\ (s <= n <=> s <= loads)
      BY <1>1, <2>2, ResourceType
    <3>2. loader[s] \in {"load", "update"} => futures'[keyOf[s]] = futures[keyOf[s]]
      <4>1. loader[s] \in {"load", "update"} => s <= loads
        BY <1>1, <3>1 DEF ResourceInv
      <4> QED BY <1>3, <4>1, ResourceType DEF ResourceInv
    <3>3. \A d \in Clients : pc[d] = "free" /\ ref[d] = s => pc'[d] = "free" /\ ref'[d] = s
      BY <1>4
    <3> QED BY <1>1, <1>2, <2>2, <3>1, <3>2, <3>3 DEF ResourceInv
  <2> QED BY <2>1, <2>2
<1>12. ASSUME NEW s \in Resources PROVE Counted(s)'
  <2>1. Entry(s)' = Entry(s)
    BY DEF Entry
  <2>2. CASE s = n
    <3>1. Users(s)' = {c}
      BY <1>1, <1>4, <1>7, <2>2 DEF Users
    <3>2. Entry(s) = 0 /\ Loading(s)' = 1
      BY <1>2, <1>6, <2>2 DEF Entry, Loading
    <3>3. IsFiniteSet(Users(s)') /\ Cardinality(Users(s)') = 1
      BY <3>1, FS_Singleton
    <3> QED BY <1>2, <2>1, <2>2, <3>2, <3>3 DEF Counted
  <2>3. CASE s # n
    <3>1. Users(s)' = Users(s)
      BY <1>1, <1>4, <2>3, ResourceType, UsersFrame
    <3>2. (\E j \in Keys : futures'[j] = s) <=> (\E j \in Keys : futures[j] = s)
      BY <1>3, <2>3, ResourceType
    <3>3. Loading(s)' = Loading(s)
      BY <1>2, <2>3, <3>2 DEF Loading
    <3> QED BY <1>2, <2>1, <2>3, <3>1, <3>3, CountedFrame
  <2> QED BY <2>2, <2>3
<1>13. ASSUME NEW d \in Clients PROVE ClientInv(d)'
  <2>1. CASE d = c
    BY <1>1, <1>4, <2>1 DEF ClientInv
  <2>2. CASE d # c
    <3>1. pc[d] \in {"use", "free"} => ref[d] \in Resources
      BY ClientType DEF ClientInv
    <3> QED BY <1>1, <1>2, <1>4, <1>7, <2>2, <3>1, ClientFrame DEF ClientInv
  <2> QED BY <2>1, <2>2
<1> QED BY <1>8, <1>9, <1>10, <1>11, <1>12, <1>13

\* It looks again before it starts a load.
LEMMA LoadSlowInvariant ==
  ASSUME IInv, NEW c \in Clients, LoadSlow(c)
  PROVE  IInv'
<1> DEFINE k == key[c]
<1>1. k \in Keys /\ ref[c] = 0 /\ pc[c] = "slow" /\ key' = key
  BY DEF IInv, ClientInv, LoadSlow
<1>2. key' \in [Clients -> Keys \cup {NoKey}]
  BY <1>1 DEF IInv, TypeOK
<1>3. CASE /\ cache[k] # 0 /\ Acquire(c, cache[k]) /\ At(c, "use")
           /\ UNCHANGED <<futures, loads, keyOf, loader>>
  <2>1. cache[k] \in Resources
    BY <1>1, <1>3, MapType DEF IInv
  <2>2. UNCHANGED <<mapVars, loads, keyOf, storage, loader, old, failed>>
    BY <1>3 DEF LoadSlow, mapVars
  <2> QED BY <1>1, <1>2, <1>3, <2>1, <2>2, AcquireInvariant
<1>4. CASE /\ cache[k] = 0 /\ futures[k] # 0 /\ Acquire(c, futures[k]) /\ At(c, "wait")
           /\ UNCHANGED <<futures, loads, keyOf, loader>>
  <2>1. futures[k] \in Resources
    BY <1>1, <1>4, MapType DEF IInv
  <2>2. UNCHANGED <<mapVars, loads, keyOf, storage, loader, old, failed>>
    BY <1>4 DEF LoadSlow, mapVars
  <2> QED BY <1>1, <1>2, <1>4, <2>1, <2>2, AcquireInvariant
<1>5. CASE cache[k] = 0 /\ futures[k] = 0 /\ StartLoad(c, k)
  BY <1>1, <1>5, StartLoadInvariant DEF LoadSlow
<1> QED BY <1>3, <1>4, <1>5 DEF LoadSlow, Found

\* Wake, CancelWait and EndUse.
LEMMA WakeInvariant ==
  ASSUME IInv, NEW c \in Clients, Wake(c) \/ CancelWait(c) \/ EndUse(c)
  PROVE  IInv'
<1>1. /\ pc[c] \in {"wait", "use"} /\ ref[c] # 0 /\ UNCHANGED <<mapVars, resVars, key, ref>>
      /\ \/ At(c, "drop")
         \/ At(c, "use") /\ loader[ref[c]] = "done" /\ ~failed[ref[c]]
  BY DEF IInv, ClientInv, Wake, CancelWait, EndUse, IsDone
<1>2. key' \in [Clients -> Keys \cup {NoKey}]
  BY <1>1 DEF IInv, TypeOK
<1>3. CASE At(c, "drop")
  BY <1>1, <1>2, <1>3, MoveInvariant
<1>4. CASE At(c, "use") /\ loader[ref[c]] = "done" /\ ~failed[ref[c]]
  BY <1>1, <1>2, <1>4, MoveInvariant
<1> QED BY <1>1, <1>3, <1>4

\* The client takes over the reference of the cache.
LEMMA DeleteInvariant ==
  ASSUME IInv, NEW c \in Clients, NEW k \in Keys, Delete(c, k)
  PROVE  IInv'
<1> USE DEF IInv
<1> DEFINE r == cache[k]
<1>1. UNCHANGED <<futures, loads, keyOf, counter, storage, loader, old, failed>>
  BY DEF Delete, resVars
<1>2. r \in Resources /\ r \in Nat /\ r # 0 /\ pc[c] = "idle" /\ ref[c] = 0
  BY MapType DEF Delete, ClientInv
<1>3. cache'[k] = 0 /\ \A j \in Keys \ {k} : cache'[j] = cache[j]
  BY DEF TypeOK, Delete
<1>4. /\ pc'[c] = "drop" /\ ref'[c] = r
      /\ \A d \in Clients \ {c} : pc'[d] = pc[d] /\ ref'[d] = ref[d] /\ key'[d] = key[d]
  BY DEF TypeOK, Delete, At
<1>5. loads \in Nat /\ r <= loads
  BY <1>2, InMaps, ResourceType
<1>6. TypeOK'
  <2>1. cache' \in [Keys -> 0..MaxLoads] /\ ref' \in [Clients -> 0..MaxLoads]
    BY CacheAssumption DEF TypeOK, Delete
  <2>2. key' \in [Clients -> Keys \cup {NoKey}]
    BY DEF TypeOK, Delete
  <2>3. pc' \in [Clients -> {"idle", "slow", "wait", "use", "drop", "free"}]
    BY DEF TypeOK, Delete, At
  <2> QED BY <1>1, <2>1, <2>2, <2>3 DEF TypeOK
<1>7. OneFrees'
  BY <1>4 DEF OneFrees
<1>8. ASSUME NEW j \in Keys PROVE KeyInv(j)'
  BY <1>1, <1>3 DEF KeyInv
<1>9. \A s \in Resources : ResourceInv(s)'
  BY <1>1, <1>2, <1>4, ResourceFrame
<1>10. ASSUME NEW s \in Resources PROVE Counted(s)'
  <2>1. Loading(s)' = Loading(s)
    BY <1>1 DEF Loading
  <2>2. CASE s # r
    <3>1. Users(s)' = Users(s)
      BY <1>2, <1>4, <2>2, ResourceType, UsersFrame
    <3>2. Entry(s)' = Entry(s)
      BY <1>3, <2>2, ResourceType DEF Entry
    <3> QED BY <1>1, <2>1, <3>1, <3>2, CountedFrame
  <2>3. CASE s = r
    <3>1. c \notin Users(s) /\ Users(s)' = Users(s) \cup {c}
      BY <1>2, <1>4, <2>3 DEF Users
    <3>2. IsFiniteSet(Users(s)') /\ Cardinality(Users(s)') = Cardinality(Users(s)) + 1
      BY <1>2, <3>1, UsersAdd DEF Counted
    <3>3. \A j \in Keys \ {k} : cache[j] # r
      BY <1>2 DEF KeyInv
    <3>4. Entry(s) = 1
      BY <2>3 DEF Entry
    <3>5. Entry(s)' = 0
      BY <1>2, <1>3, <2>3, <3>3 DEF Entry
    <3>6. Cardinality(Users(s)) \in Nat /\ Loading(s) \in {0, 1}
      BY <1>2, UsersCount DEF Counted, Loading
    <3> QED BY <1>1, <2>1, <2>3, <3>2, <3>4, <3>5, <3>6 DEF Counted
  <2> QED BY <2>2, <2>3
<1>11. ASSUME NEW d \in Clients PROVE ClientInv(d)'
  <2>1. CASE d = c
    BY <1>1, <1>2, <1>4, <1>5, <2>1 DEF ClientInv
  <2>2. CASE d # c
    BY <1>1, <1>4, <1>5, <2>2, ClientType, ClientFrame DEF ClientInv
  <2> QED BY <2>1, <2>2
<1> QED BY <1>6, <1>7, <1>8, <1>9, <1>10, <1>11

\* The reference is gone; the client that had the last one, and no other, goes
\* on to release the value.
LEMMA ReleaseInvariant ==
  ASSUME IInv, NEW c \in Clients, Release(c)
  PROVE  IInv'
<1> USE DEF IInv
<1>1. UNCHANGED <<cache, futures, loads, keyOf, storage, loader, old, failed>> /\ pc[c] = "drop"
  BY DEF Release, Drop, mapVars
<1>2. PICK r \in Resources : ref[c] = r
  BY <1>1, InUse DEF ClientInv
<1>3. /\ counter[r] \in Nat /\ counter[r] >= 1 /\ storage[r] # "released" /\ r # 0 /\ loads \in Nat
      /\ c \in Users(r)
  BY <1>1, <1>2, InUse, ResourceType
<1>4. counter'[r] = counter[r] - 1 /\ \A s \in Resources \ {r} : counter'[s] = counter[s]
  BY <1>2 DEF TypeOK, Release, Drop
<1>5. \A d \in Clients \ {c} : pc'[d] = pc[d] /\ ref'[d] = ref[d] /\ key'[d] = key[d]
  BY DEF TypeOK, Release, Drop, At
<1>6. \/ pc'[c] = "free" /\ ref'[c] = r /\ counter[r] = 1 /\ storage[r] = "live"
      \/ pc'[c] = "idle" /\ ref'[c] = 0 /\ (counter[r] # 1 \/ storage[r] = "none")
  <2>1. storage[r] \in {"none", "live"}
    BY <1>3 DEF TypeOK
  <2> QED BY <1>2, <1>3, <2>1 DEF TypeOK, Release, Drop, At
<1>7. TypeOK'
  <2>1. counter' \in [Resources -> Nat]
    BY <1>2, <1>3 DEF TypeOK, Release, Drop
  <2>2. ref' \in [Clients -> 0..MaxLoads] /\ key' \in [Clients -> Keys \cup {NoKey}]
    BY CacheAssumption DEF TypeOK, Release, Drop
  <2>3. pc' \in [Clients -> {"idle", "slow", "wait", "use", "drop", "free"}]
    BY DEF TypeOK, Release, Drop, At
  <2> QED BY <1>1, <2>1, <2>2, <2>3 DEF TypeOK
<1>8. \A d \in Clients : pc[d] = "free" => d # c /\ ref[d] # r /\ ref[d] \in Resources
  BY <1>1, <1>3, ClientType DEF ClientInv
<1>9. OneFrees'
  BY <1>5, <1>6, <1>8 DEF OneFrees
<1>10. \A j \in Keys : KeyInv(j)'
  BY <1>1 DEF KeyInv
<1>11. ASSUME NEW s \in Resources PROVE ResourceInv(s)'
  <2>1. CASE s # r
    BY <1>1, <1>4, <1>5, <1>8, <2>1, ResourceFrame
  <2>2. CASE s = r
    <3>1. ResourceInv(r) /\ r \in Nat /\ r <= loads
      BY <1>2, ResourceType DEF ClientInv
    <3> QED BY <1>1, <1>3, <1>4, <1>6, <2>2, <3>1 DEF ResourceInv
  <2> QED BY <2>1, <2>2
<1>12. ASSUME NEW s \in Resources PROVE Counted(s)'
  <2>1. Entry(s)' = Entry(s) /\ Loading(s)' = Loading(s)
    BY <1>1 DEF Entry, Loading
  <2>2. CASE s # r
    <3>1. Users(s)' = Users(s)
      BY <1>2, <1>5, <1>6, <2>2, ResourceType, UsersFrame
    <3> QED BY <1>4, <2>1, <2>2, <3>1, CountedFrame
  <2>3. CASE s = r
    <3>1. Users(s)' = Users(s) \ {c}
      BY <1>3, <1>5, <1>6, <2>3 DEF Users
    <3>2. IsFiniteSet(Users(s)') /\ Cardinality(Users(s)') = Cardinality(Users(s)) - 1
      BY <1>3, <2>3, <3>1, UsersRemove DEF Counted
    <3>3. Entry(s) \in {0, 1} /\ Loading(s) \in {0, 1} /\ Cardinality(Users(s)) \in Nat
      BY UsersCount DEF Counted, Entry, Loading
    <3> QED BY <1>4, <2>1, <2>3, <3>2, <3>3 DEF Counted
  <2> QED BY <2>2, <2>3
<1>13. ASSUME NEW d \in Clients PROVE ClientInv(d)'
  <2>1. CASE d # c
    BY <1>1, <1>3, <1>4, <1>5, <1>8, <2>1, ClientType, ClientFrame DEF ClientInv
  <2>2. CASE d = c
    BY <1>1, <1>2, <1>3, <1>4, <1>6, <2>2 DEF ClientInv
  <2> QED BY <2>1, <2>2
<1> QED BY <1>7, <1>9, <1>10, <1>11, <1>12, <1>13

\* The value is released once.
LEMMA FreeInvariant ==
  ASSUME IInv, NEW c \in Clients, Free(c)
  PROVE  IInv'
<1> USE DEF IInv
<1>1. UNCHANGED <<cache, futures, loads, keyOf, counter, loader, old, failed>> /\ pc[c] = "free"
  BY DEF Free, mapVars
<1>2. PICK r \in Resources : ref[c] = r
  BY <1>1, ClientType DEF ClientInv
<1>3. storage[r] = "live" /\ counter[r] = 0 /\ r # 0 /\ loads \in Nat
  BY <1>1, <1>2, ResourceType DEF ClientInv
<1>4. storage'[r] = "released" /\ \A s \in Resources \ {r} : storage'[s] = storage[s]
  BY <1>2 DEF TypeOK, Free
<1>5. /\ pc'[c] = "idle" /\ ref'[c] = 0
      /\ \A d \in Clients \ {c} : pc'[d] = pc[d] /\ ref'[d] = ref[d] /\ key'[d] = key[d]
  BY DEF TypeOK, Free, At
<1>6. \A d \in Clients \ {c} : pc[d] = "free" => ref[d] # r /\ ref[d] \in Resources
  BY <1>1, <1>2, ClientType DEF OneFrees, ClientInv
<1>7. TypeOK'
  <2>1. storage' \in [Resources -> {"none", "live", "released"}]
    BY DEF TypeOK, Free
  <2>2. ref' \in [Clients -> 0..MaxLoads] /\ key' \in [Clients -> Keys \cup {NoKey}]
    BY CacheAssumption DEF TypeOK, Free
  <2>3. pc' \in [Clients -> {"idle", "slow", "wait", "use", "drop", "free"}]
    BY DEF TypeOK, Free, At
  <2> QED BY <1>1, <2>1, <2>2, <2>3 DEF TypeOK
<1>8. OneFrees'
  BY <1>5 DEF OneFrees
<1>9. \A j \in Keys : KeyInv(j)'
  BY <1>1 DEF KeyInv
<1>10. ASSUME NEW s \in Resources PROVE ResourceInv(s)'
  <2>1. CASE s # r
    BY <1>1, <1>2, <1>4, <1>5, <2>1, ResourceFrame
  <2>2. CASE s = r
    BY <1>1, <1>3, <1>4, <2>2 DEF ResourceInv
  <2> QED BY <2>1, <2>2
<1>11. ASSUME NEW s \in Resources PROVE Counted(s)'
  <2>1. Entry(s)' = Entry(s) /\ Loading(s)' = Loading(s)
    BY <1>1 DEF Entry, Loading
  <2>2. Users(s)' = Users(s)
    BY <1>1, <1>5, ResourceType, UsersFrame
  <2> QED BY <1>1, <2>1, <2>2, CountedFrame
<1>12. ASSUME NEW d \in Clients PROVE ClientInv(d)'
  <2>1. CASE d # c
    BY <1>1, <1>3, <1>4, <1>5, <1>6, <2>1, ClientType, ClientFrame DEF ClientInv
  <2>2. CASE d = c
    BY <1>1, <1>3, <1>5, <2>2 DEF ClientInv
  <2> QED BY <2>1, <2>2
<1> QED BY <1>7, <1>8, <1>9, <1>10, <1>11, <1>12

--------------------------------------------------------------------------------
(* The steps of the loader *)

\* LoadOK, LoadError and LoadPanic: no client uses r before its load has ended.
LEMMA LoadEndsInvariant ==
  ASSUME IInv, NEW r \in Resources, LoadOK(r) \/ LoadError(r) \/ LoadPanic(r)
  PROVE  IInv'
<1> USE DEF IInv
<1>1. UNCHANGED <<cache, futures, loads, keyOf, counter, old, pc, key, ref>> /\ loader[r] = "load"
  BY DEF LoadOK, LoadError, LoadPanic, mapVars, clientVars
<1>2. \A s \in Resources \ {r} : /\ storage'[s] = storage[s] /\ failed'[s] = failed[s]
                                 /\ loader'[s] = loader[s]
  BY DEF TypeOK, LoadOK, LoadError, LoadPanic, Go
<1>3. \/ storage'[r] = "live" /\ ~failed'[r] /\ loader'[r] = "update"
      \/ storage'[r] = "none" /\ failed'[r] /\ loader'[r] \in {"update", "done"}
  BY <1>1 DEF TypeOK, LoadOK, LoadError, LoadPanic, Go, ResourceInv
<1>4. /\ r # 0 /\ r \in Nat /\ loads \in Nat /\ r <= loads /\ keyOf[r] \in Keys
      /\ futures[keyOf[r]] = r
  BY <1>1, ResourceType DEF ResourceInv
<1>5. counter[r] \in Nat /\ counter[r] >= 1
  BY <1>4, InMaps
<1>6. TypeOK'
  <2>1. /\ storage' \in [Resources -> {"none", "live", "released"}]
        /\ failed' \in [Resources -> BOOLEAN]
    BY DEF TypeOK, LoadOK, LoadError, LoadPanic
  <2>2. loader' \in [Resources -> {"none", "load", "update", "drop", "close", "done"}]
    BY DEF TypeOK, LoadOK, LoadError, LoadPanic, Go
  <2> QED BY <1>1, <2>1, <2>2 DEF TypeOK
<1>7. OneFrees'
  BY <1>1 DEF OneFrees
<1>8. ASSUME NEW j \in Keys PROVE KeyInv(j)'
  <2>1. CASE futures[j] = r
    BY <1>1, <1>3, <1>4, <2>1 DEF KeyInv
  <2>2. CASE futures[j] # r
    <3>1. cache[j] # r
      BY <1>1, <1>4 DEF KeyInv
    <3> QED BY <1>1, <1>2, <1>4, <2>2, <3>1, MapType, KeyFrame
  <2> QED BY <2>1, <2>2
<1>9. ASSUME NEW s \in Resources PROVE ResourceInv(s)'
  <2>1. CASE s # r
    BY <1>1, <1>2, <2>1, ResourceFrame
  <2>2. CASE s = r
    BY <1>1, <1>3, <1>4, <1>5, <2>2 DEF ResourceInv
  <2> QED BY <2>1, <2>2
<1>10. ASSUME NEW s \in Resources PROVE Counted(s)'
  <2>1. Entry(s)' = Entry(s) /\ Users(s)' = Users(s)
    BY <1>1 DEF Entry, Users
  <2>2. Loading(s)' = Loading(s)
    BY <1>1, <1>2, <1>4 DEF Loading
  <2> QED BY <1>1, <2>1, <2>2, CountedFrame
<1>11. ASSUME NEW d \in Clients PROVE ClientInv(d)'
  <2>1. pc[d] \in {"use", "free"} => ref[d] # r /\ ref[d] \in Resources
    BY <1>1, <1>5, ClientType DEF ClientInv
  <2> QED BY <1>1, <1>2, <1>4, <2>1, ClientType, ClientFrame DEF ClientInv
<1> QED BY <1>6, <1>7, <1>8, <1>9, <1>10, <1>11

\* The loader's reference becomes the cache's, or is about to be dropped.
LEMMA UpdateCacheInvariant ==
  ASSUME IInv, NEW r \in Resources, UpdateCache(r)
  PROVE  IInv'
<1> USE DEF IInv
<1>1. UNCHANGED <<loads, keyOf, counter, storage, failed, pc, key, ref>> /\ loader[r] = "update"
  BY DEF UpdateCache, clientVars
<1>2. /\ r # 0 /\ r \in Nat /\ loads \in Nat /\ r <= loads /\ keyOf[r] \in Keys
      /\ futures[keyOf[r]] = r /\ storage[r] # "released"
  BY <1>1, ResourceType, InMaps DEF ResourceInv
<1>3. PICK k \in Keys : keyOf[r] = k
  BY <1>2
<1>4. cache[k] = 0 /\ futures[k] = r
  BY <1>2, <1>3 DEF KeyInv
<1>5. /\ futures'[k] = 0 /\ cache'[k] = (IF failed[r] THEN 0 ELSE r)
      /\ \A j \in Keys \ {k} : futures'[j] = futures[j] /\ cache'[j] = cache[j]
  BY <1>3, <1>4 DEF TypeOK, UpdateCache
<1>6. old'[r] = (IF failed[r] THEN r ELSE 0) /\ \A s \in Resources \ {r} : old'[s] = old[s]
  BY <1>3, <1>4 DEF TypeOK, UpdateCache
<1>7. /\ loader'[r] = (IF failed[r] THEN "drop" ELSE "close")
      /\ \A s \in Resources \ {r} : loader'[s] = loader[s]
  BY <1>2, <1>6 DEF TypeOK, UpdateCache, Go
<1>8. \A j \in Keys \ {k} : cache[j] # r /\ futures[j] # r
  BY <1>2, <1>3 DEF KeyInv
<1>9. TypeOK'
  <2>1. cache' \in [Keys -> 0..MaxLoads] /\ futures' \in [Keys -> 0..MaxLoads]
    <3>1. 0 \in 0..MaxLoads /\ r \in 0..MaxLoads
      BY CacheAssumption DEF Resources
    <3> QED BY <1>3, <1>4, <3>1 DEF TypeOK, UpdateCache
  <2>2. old' \in [Resources -> 0..MaxLoads]
    BY <1>3, CacheAssumption DEF TypeOK, UpdateCache, Resources
  <2>3. loader' \in [Resources -> {"none", "load", "update", "drop", "close", "done"}]
    BY DEF TypeOK, UpdateCache, Go
  <2> QED BY <1>1, <2>1, <2>2, <2>3 DEF TypeOK
<1>10. OneFrees'
  BY <1>1 DEF OneFrees
<1>11. ASSUME NEW j \in Keys PROVE KeyInv(j)'
  <2>1. CASE j = k
    BY <1>1, <1>2, <1>3, <1>5, <1>7, <2>1 DEF KeyInv
  <2>2. CASE j # k
    BY <1>1, <1>2, <1>5, <1>7, <1>8, <2>2, MapType, KeyFrame
  <2> QED BY <2>1, <2>2
<1>12. ASSUME NEW s \in Resources PROVE ResourceInv(s)'
  <2>1. CASE s # r
    <3>1. loader[s] \in {"load", "update"} => keyOf[s] \in Keys \ {k}
      BY <1>4, <2>1, ResourceType DEF ResourceInv
    <3> QED BY <1>1, <1>5, <1>6, <1>7, <2>1, <3>1, ResourceFrame
  <2>2. CASE s = r
    BY <1>1, <1>2, <1>6, <1>7, <2>2 DEF ResourceInv
  <2> QED BY <2>1, <2>2
<1>13. ASSUME NEW s \in Resources PROVE Counted(s)'
  <2>1. Users(s)' = Users(s)
    BY <1>1 DEF Users
  <2>2. CASE s # r
    <3>1. Entry(s)' = Entry(s) /\ Loading(s)' = Loading(s)
      BY <1>4, <1>5, <1>7, <2>2, ResourceType DEF Entry, Loading
    <3> QED BY <1>1, <2>1, <3>1, CountedFrame
  <2>3. CASE s = r
    <3>1. Entry(s) = 0 /\ Loading(s) = 1
      BY <1>2, <1>4, <1>8, <2>3 DEF Entry, Loading
    <3>2. Entry(s)' = (IF failed[r] THEN 0 ELSE 1)
      BY <1>2, <1>5, <1>8, <2>3 DEF Entry
    <3>3. Loading(s)' = (IF failed[r] THEN 1 ELSE 0)
      BY <1>2, <1>5, <1>7, <1>8, <2>3 DEF Loading
    <3>4. Cardinality(Users(s)) \in Nat
      BY UsersCount DEF Counted
    <3> QED BY <1>1, <2>1, <3>1, <3>2, <3>3, <3>4 DEF Counted
  <2> QED BY <2>2, <2>3
<1>14. ASSUME NEW d \in Clients PROVE ClientInv(d)'
  <2>1. pc[d] = "use" => ref[d] # r /\ ref[d] \in Resources
    BY <1>1, ClientType DEF ClientInv
  <2> QED BY <1>1, <1>2, <1>7, <2>1, ClientType, ClientFrame DEF ClientInv
<1> QED BY <1>9, <1>10, <1>11, <1>12, <1>13, <1>14

\* What the loader drops is its own failed resource, which has no value.
LEMMA DropOldInvariant ==
  ASSUME IInv, NEW r \in Resources, DropOld(r)
  PROVE  IInv'
<1> USE DEF IInv
<1>1. /\ UNCHANGED <<cache, futures, loads, keyOf, old, failed, pc, key, ref>>
      /\ loader[r] = "drop" /\ old[r] = r /\ failed[r] /\ storage[r] = "none"
  BY DEF DropOld, mapVars, clientVars, ResourceInv
<1>2. Loading(r) = 1 /\ counter[r] \in Nat /\ counter[r] >= 1 /\ loads \in Nat /\ r \in Nat /\ r # 0
  BY <1>1, CountIsPositive, ResourceType DEF Loading
<1>3. counter'[r] = counter[r] - 1 /\ \A s \in Resources \ {r} : counter'[s] = counter[s]
  BY <1>1 DEF TypeOK, DropOld
<1>4. storage' = storage
  BY <1>1 DEF TypeOK, DropOld
<1>5. loader'[r] = "close" /\ \A s \in Resources \ {r} : loader'[s] = loader[s]
  BY DEF TypeOK, DropOld, Go
<1>6. \A j \in Keys : cache[j] # r /\ futures[j] # r
  BY <1>1, <1>2 DEF KeyInv
<1>7. TypeOK'
  <2>1. counter' \in [Resources -> Nat]
    BY <1>1, <1>2 DEF TypeOK, DropOld
  <2>2. loader' \in [Resources -> {"none", "load", "update", "drop", "close", "done"}]
    BY DEF TypeOK, DropOld, Go
  <2> QED BY <1>1, <1>4, <2>1, <2>2 DEF TypeOK
<1>8. OneFrees'
  BY <1>1 DEF OneFrees
<1>9. ASSUME NEW j \in Keys PROVE KeyInv(j)'
  BY <1>1, <1>2, <1>5, <1>6, MapType, KeyFrame
<1>10. ASSUME NEW s \in Resources PROVE ResourceInv(s)'
  <2>1. CASE s # r
    BY <1>1, <1>3, <1>4, <1>5, <2>1, ResourceFrame
  <2>2. CASE s = r
    BY <1>1, <1>2, <1>4, <1>5, <2>2 DEF ResourceInv
  <2> QED BY <2>1, <2>2
<1>11. ASSUME NEW s \in Resources PROVE Counted(s)'
  <2>1. Entry(s)' = Entry(s) /\ Users(s)' = Users(s)
    BY <1>1 DEF Entry, Users
  <2>2. CASE s # r
    <3>1. Loading(s)' = Loading(s)
      BY <1>1, <1>5, <2>2 DEF Loading
    <3> QED BY <1>3, <2>1, <2>2, <3>1, CountedFrame
  <2>3. CASE s = r
    <3>1. Loading(s)' = 0
      BY <1>1, <1>5, <1>6, <2>3 DEF Loading
    <3>2. Cardinality(Users(s)) \in Nat /\ Entry(s) \in {0, 1}
      BY UsersCount DEF Counted, Entry
    <3> QED BY <1>2, <1>3, <2>1, <2>3, <3>1, <3>2 DEF Counted
  <2> QED BY <2>2, <2>3
<1>12. ASSUME NEW d \in Clients PROVE ClientInv(d)'
  <2>1. pc[d] \in {"use", "free"} => ref[d] # r /\ ref[d] \in Resources
    BY <1>1, ClientType DEF ClientInv
  <2> QED BY <1>1, <1>2, <1>3, <1>4, <1>5, <2>1, ClientType, ClientFrame DEF ClientInv
<1> QED BY <1>7, <1>8, <1>9, <1>10, <1>11, <1>12

\* The future is done, and no map holds it.
LEMMA CloseDoneInvariant ==
  ASSUME IInv, NEW r \in Resources, CloseDone(r)
  PROVE  IInv'
<1> USE DEF IInv
<1>1. /\ UNCHANGED <<cache, futures, loads, keyOf, counter, storage, old, failed, pc, key, ref>>
      /\ loader[r] = "close" /\ loads \in Nat
  BY ResourceType DEF CloseDone, mapVars, clientVars
<1>2. loader'[r] = "done" /\ \A s \in Resources \ {r} : loader'[s] = loader[s]
  BY DEF TypeOK, CloseDone, Go
<1>3. TypeOK'
  BY <1>1 DEF TypeOK, CloseDone, Go
<1>4. OneFrees'
  BY <1>1 DEF OneFrees
<1>5. ASSUME NEW j \in Keys PROVE KeyInv(j)'
  <2>1. futures[j] # r
    BY <1>1, ResourceType DEF KeyInv
  <2>2. CASE cache[j] = r
    BY <1>1, <1>2, <2>2, ResourceType DEF KeyInv
  <2>3. CASE cache[j] # r
    BY <1>1, <1>2, <2>1, <2>3, MapType, KeyFrame
  <2> QED BY <2>2, <2>3
<1>6. ASSUME NEW s \in Resources PROVE ResourceInv(s)'
  <2>1. CASE s # r
    BY <1>1, <1>2, <2>1, ResourceFrame
  <2>2. CASE s = r
    BY <1>1, <1>2, <2>2 DEF ResourceInv
  <2> QED BY <2>1, <2>2
<1>7. ASSUME NEW s \in Resources PROVE Counted(s)'
  <2>1. Entry(s)' = Entry(s) /\ Users(s)' = Users(s) /\ Loading(s)' = Loading(s)
    BY <1>1, <1>2 DEF Entry, Users, Loading
  <2> QED BY <1>1, <2>1, CountedFrame
<1>8. ASSUME NEW d \in Clients PROVE ClientInv(d)'
  <2>1. pc[d] = "use" => ref[d] \in Resources
    BY ClientType DEF ClientInv
  <2> QED BY <1>1, <1>2, <2>1, ClientType, ClientFrame DEF ClientInv
<1> QED BY <1>3, <1>4, <1>5, <1>6, <1>7, <1>8

--------------------------------------------------------------------------------
(* What is proved *)

\* Every step of the specification keeps the invariant.
LEMMA NextInvariant == IInv /\ [Next]_vars => IInv'
<1> SUFFICES ASSUME IInv, [Next]_vars PROVE IInv'
  OBVIOUS
<1>1. CASE UNCHANGED vars
  <2>1. UNCHANGED <<cache, futures, loads, keyOf, counter, storage, loader, old, failed,
                    pc, key, ref>>
    BY <1>1 DEF vars, mapVars, resVars, clientVars
  <2>2. TypeOK' /\ OneFrees' /\ \A k \in Keys : KeyInv(k)'
    BY <2>1 DEF IInv, TypeOK, OneFrees, KeyInv
  <2>3. \A r \in Resources : ResourceInv(r)' /\ Counted(r)'
    BY <2>1 DEF IInv, ResourceInv, Counted, Users, Entry, Loading
  <2>4. \A c \in Clients : ClientInv(c)'
    BY <2>1 DEF IInv, ClientInv
  <2> QED BY <2>2, <2>3, <2>4 DEF IInv
<1>2. ASSUME NEW c \in Clients, ClientStep(c) PROVE IInv'
  BY <1>2, LoadFastInvariant, DeleteInvariant, LoadSlowInvariant, WakeInvariant, ReleaseInvariant,
     FreeInvariant DEF ClientStep
<1>3. ASSUME NEW r \in Resources, LoaderStep(r) PROVE IInv'
  BY <1>3, LoadEndsInvariant, UpdateCacheInvariant, DropOldInvariant, CloseDoneInvariant
     DEF LoaderStep
<1> QED BY <1>1, <1>2, <1>3 DEF Next

\* In every reachable state the invariant holds.
THEOREM Invariant == Spec => []IInv
BY InitInvariant, NextInvariant, PTL DEF Spec

(* The counter of a resource is the number of its references, what a map   *)
(* holds has one (so that acquire never panics), and a value without       *)
(* references is released: for any interleaving of Load, Get, Release,     *)
(* Delete and the loaders, whatever fails, panics or is cancelled.         *)
THEOREM ReferencesAreExact == Spec => []ReferencesExact
BY Invariant, InvImplies, PTL

(* Nobody uses a package or an image that was released, and it is released *)
(* once.                                                                   *)
THEOREM ValuesOutliveUsers == Spec => []NoUseAfterRelease
BY Invariant, InvImplies, PTL

(* A key has one load at a time, and none while it is cached.              *)
THEOREM KeysLoadOnce == Spec => []OneLoadPerKey
BY Invariant, InvImplies, PTL
================================================================================
