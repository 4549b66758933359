----------------------------- MODULE TenantPool -----------------------------
(***************************************************************************)
(* The connection pools of the tenants (TenantDBManager): requests and     *)
(* background jobs that take and release the pool of a tenant's database,  *)
(* the singleflight that opens it, the evictions and Remove.  Each action  *)
(* is one critical section of m.mu or of the flight group.                 *)
(*                                                                         *)
(* lastUsed is not kept: which of the unused pools is the oldest, or older *)
(* than the idle TTL, is any of them.  A close that runs in a goroutine of *)
(* its own takes effect at once.                                           *)
(***************************************************************************)
EXTENDS Integers, FiniteSets

CONSTANTS
  Names,       \* databases of tenants
  Requests,    \* callers of GetTenantDB
  Leakers,     \* requests whose handler never calls ReleaseTenantDB
  Background,  \* callers of GetTenantDBBackground
  Removers,    \* callers of RemoveTenantFromPool
  Handles,     \* connection pools (*gorm.DB), the bound on those referred to
  MaxPools,    \* TenantPoolMaxActive; 0 is no limit
  None

Users   == Requests \cup Background
Threads == Users \cup Removers

ASSUME PoolAssumption ==
  /\ Requests \cap Background = {} /\ Users \cap Removers = {}
  /\ Leakers \subseteq Requests
  /\ None \notin Names \cup Handles \cup Threads
  /\ MaxPools \in Nat
ASSUME PoolFinite == IsFiniteSet(Names) /\ IsFiniteSet(Threads)

VARIABLES
  pools,   \* m.pools: the entry of each name, NoEntry when there is none
  open,    \* handles that are open
  leader,  \* m.sf: the request that opens the database of a name
  pc, name, handle,  \* per thread: next step, database, *gorm.DB it has got
  shared,  \* per thread: the flight's result went to several callers
  several, \* history: handles a flight gave to several callers
  forced   \* history: names that Remove closed while in use

poolVars == <<pools, open, leader, pc, name, handle, shared, several, forced>>
threadVars == <<pc, name, handle, shared>>

NoEntry == [db |-> None, inUse |-> 0]

Pooled == {n \in Names : pools[n] # NoEntry}

Unused == {n \in Pooled : pools[n].inUse = 0}

\* Handles that something still refers to.
Referred == {pools[n].db : n \in Names} \cup {handle[t] : t \in Threads}

PoolInit ==
  /\ pools = [n \in Names |-> NoEntry]
  /\ open = {} /\ several = {} /\ forced = {}
  /\ leader = [n \in Names |-> None]
  /\ pc = [t \in Threads |-> "idle"]
  /\ name = [t \in Threads |-> None]
  /\ handle = [t \in Threads |-> None]
  /\ shared = [t \in Threads |-> FALSE]

Becomes(t, label, n, h) ==
  /\ pc' = [pc EXCEPT ![t] = label]
  /\ name' = [name EXCEPT ![t] = n]
  /\ handle' = [handle EXCEPT ![t] = h]

-----------------------------------------------------------------------------
\* acquire and acquireBackground find the database in the map.
Hit(t) ==
  /\ pc[t] = "idle"
  /\ \E n \in Pooled :
       /\ pools' = [pools EXCEPT ![n].inUse = @ + 1]
       /\ Becomes(t, "using", n, pools[n].db)
  /\ UNCHANGED <<open, leader, shared, several, forced>>

\* They do not, and let go of m.mu.
Miss(t) ==
  /\ pc[t] = "idle"
  /\ \E n \in Names \ Pooled : Becomes(t, "miss", n, None)
  /\ UNCHANGED <<pools, open, leader, shared, several, forced>>

\* singleflight.Do: the first caller opens, the others wait for its result.
Join(t) ==
  /\ pc[t] = "miss" /\ t \in Requests
  /\ IF leader[name[t]] = None
       THEN /\ leader' = [leader EXCEPT ![name[t]] = t]
            /\ pc' = [pc EXCEPT ![t] = "opening"]
       ELSE /\ pc' = [pc EXCEPT ![t] = "waiting"]
            /\ UNCHANGED leader
  /\ UNCHANGED <<pools, open, name, handle, shared, several, forced>>

Waiting(n) == {t \in Requests : pc[t] = "waiting" /\ name[t] = n}

\* openTenantDB succeeds: the flight ends and hands the same handle to all.
Opened(t) ==
  /\ pc[t] = "opening"
  /\ \E h \in Handles \ (open \cup Referred) :
       LET callers == {t} \cup Waiting(name[t])
       IN /\ open' = open \cup {h}
          /\ handle' = [u \in Threads |-> IF u \in callers THEN h ELSE handle[u]]
          /\ shared' = [u \in Threads |-> IF u \in callers THEN callers # {t} ELSE shared[u]]
          /\ pc' = [u \in Threads |-> IF u \in callers THEN "opened" ELSE pc[u]]
          /\ several' = IF callers # {t} THEN several \cup {h} ELSE several \ {h}
  /\ leader' = [leader EXCEPT ![name[t]] = None]
  /\ UNCHANGED <<pools, name, forced>>

\* openTenantDB fails: every caller of the flight gets the error.
OpenFails(t) ==
  /\ pc[t] = "opening"
  /\ LET callers == {t} \cup Waiting(name[t])
     IN /\ pc' = [u \in Threads |-> IF u \in callers THEN "idle" ELSE pc[u]]
        /\ name' = [u \in Threads |-> IF u \in callers THEN None ELSE name[u]]
  /\ leader' = [leader EXCEPT ![name[t]] = None]
  /\ UNCHANGED <<pools, open, handle, shared, several, forced>>

\* Mutant of CloseOwn: acquire forgets the handle it does not need.
CloseNothing(t) == {}

\* The handle acquire closes when another one is already in the map.
CloseOwn(t) == IF shared[t] THEN {} ELSE {handle[t]}

\* acquire after the flight: another request has stored the database.
AlreadyStored(t) ==
  /\ pc[t] = "opened" /\ name[t] \in Pooled
  /\ open' = open \ CloseOwn(t)
  /\ pools' = [pools EXCEPT ![name[t]].inUse = @ + 1]
  /\ Becomes(t, "using", name[t], pools[name[t]].db)
  /\ shared' = [shared EXCEPT ![t] = FALSE]
  /\ UNCHANGED <<leader, several, forced>>

\* Mutant of LruVictims: evict without looking at inUse.
LruOfAll == IF MaxPools > 0 /\ Cardinality(Pooled) >= MaxPools THEN Pooled ELSE {}

\* Mutant of LruVictims: off by one.
LruLater == IF MaxPools > 0 /\ Cardinality(Pooled) > MaxPools THEN Unused ELSE {}

\* The pools evictLRULocked chooses from when a new one is stored.
LruVictims == IF MaxPools > 0 /\ Cardinality(Pooled) >= MaxPools THEN Unused ELSE {}

\* Mutant of NewEntry: the request that stores it is not counted.
UncountedEntry(h) == [db |-> h, inUse |-> 0]

\* The entry of a database that has just been opened, with one user.
NewEntry(h) == [db |-> h, inUse |-> 1]

\* acquire after the flight: the request stores the database, evicting one.
Store(t) ==
  /\ pc[t] = "opened" /\ name[t] \notin Pooled
  /\ \E victims \in SUBSET LruVictims :
       /\ Cardinality(victims) = IF LruVictims = {} THEN 0 ELSE 1
       /\ open' = open \ {pools[n].db : n \in victims}
       /\ pools' = [n \in Names |->
                      IF n = name[t] THEN NewEntry(handle[t])
                      ELSE IF n \in victims THEN NoEntry ELSE pools[n]]
  /\ pc' = [pc EXCEPT ![t] = "using"]
  /\ shared' = [shared EXCEPT ![t] = FALSE]
  /\ UNCHANGED <<leader, name, handle, several, forced>>

\* acquireBackground misses: a connection of its own, outside the map.
OpenPrivate(t) ==
  /\ pc[t] = "miss" /\ t \in Background
  /\ \E h \in Handles \ (open \cup Referred) :
       /\ open' = open \cup {h}
       /\ several' = several \ {h}
       /\ Becomes(t, "private", name[t], h)
  /\ UNCHANGED <<pools, leader, shared, forced>>

\* Its openTenantDB fails.
PrivateFails(t) ==
  /\ pc[t] = "miss" /\ t \in Background
  /\ Becomes(t, "idle", None, None)
  /\ UNCHANGED <<pools, open, leader, shared, several, forced>>

ClosePrivate(t) ==
  /\ pc[t] = "private"
  /\ open' = open \ {handle[t]}
  /\ Becomes(t, "idle", None, None)
  /\ UNCHANGED <<pools, leader, shared, several, forced>>

\* The reference count after a release: never below zero.
LessOne(k) == IF k > 0 THEN k - 1 ELSE k

\* release goes by name, whatever the entry of that name is now.
Release(t) ==
  /\ pc[t] = "using" /\ t \notin Leakers
  /\ pools' = [n \in Names |-> IF n = name[t] /\ n \in Pooled
                               THEN [pools[n] EXCEPT !.inUse = LessOne(@)] ELSE pools[n]]
  /\ Becomes(t, "idle", None, None)
  /\ UNCHANGED <<open, leader, shared, several, forced>>

\* A handler that never releases ends.
Forget(t) ==
  /\ pc[t] = "using" /\ t \in Leakers
  /\ pc' = [pc EXCEPT ![t] = "gone"]
  /\ UNCHANGED <<pools, open, leader, name, handle, shared, several, forced>>

-----------------------------------------------------------------------------
\* The pools of S are closed and deleted.
Drop(S) ==
  /\ pools' = [n \in Names |-> IF n \in S THEN NoEntry ELSE pools[n]]
  /\ open' = open \ {pools[n].db : n \in S}

\* evictIdle: the unused pools that are older than the idle TTL.
EvictIdle(S) ==
  /\ S # {} /\ S \subseteq Unused
  /\ Drop(S)
  /\ UNCHANGED <<leader, threadVars, several, forced>>

\* Remove begins to wait for the pool of a name.
BeginRemove(r) ==
  /\ pc[r] = "idle"
  /\ \E n \in Names : Becomes(r, "removing", n, None)
  /\ UNCHANGED <<pools, open, leader, shared, several, forced>>

\* Remove's poll: the pool is not there, or nobody uses it.
RemovePoll(r) ==
  /\ pc[r] = "removing"
  /\ name[r] \in Pooled => name[r] \in Unused
  /\ Drop({name[r]} \cap Pooled)
  /\ Becomes(r, "idle", None, None)
  /\ UNCHANGED <<leader, shared, several, forced>>

\* The 30 s are over: Remove closes the pool whoever uses it.
RemoveForced(r) ==
  /\ pc[r] = "removing"
  /\ Drop({name[r]} \cap Pooled)
  /\ forced' = forced \cup ({name[r]} \cap (Pooled \ Unused))
  /\ Becomes(r, "idle", None, None)
  /\ UNCHANGED <<leader, shared, several>>

PoolNext ==
  \/ \E t \in Users : Hit(t) \/ Miss(t) \/ Release(t) \/ Forget(t)
  \/ \E t \in Requests :
       Join(t) \/ Opened(t) \/ OpenFails(t) \/ AlreadyStored(t) \/ Store(t)
  \/ \E t \in Background : OpenPrivate(t) \/ PrivateFails(t) \/ ClosePrivate(t)
  \/ \E S \in SUBSET Names : EvictIdle(S)
  \/ \E r \in Removers : BeginRemove(r) \/ RemovePoll(r) \/ RemoveForced(r)

PoolSpec == PoolInit /\ [][PoolNext]_poolVars

-----------------------------------------------------------------------------
PoolTypeOK ==
  /\ pools \in [Names -> [db : Handles \cup {None}, inUse : Nat]]
  /\ open \subseteq Handles /\ several \subseteq Handles /\ forced \subseteq Names
  /\ leader \in [Names -> Requests \cup {None}]
  /\ pc \in [Threads -> {"idle", "miss", "opening", "waiting", "opened", "using",
                         "private", "gone", "removing"}]
  /\ name \in [Threads -> Names \cup {None}]
  /\ handle \in [Threads -> Handles \cup {None}]
  /\ shared \in [Threads -> BOOLEAN]

\* The callers that hold a reference to the pool of a name, those that have
\* ended without releasing it included.
Holders(n) == {t \in Users : pc[t] \in {"using", "gone"} /\ name[t] = n}

\* The reference count is the number of holders, although releases go by name
\* and pools come and go: eviction relies on it.  Only after Remove has closed
\* a pool in use do late releases count against its successor.
UsesCounted ==
  \A n \in Names \ forced : pools[n].inUse = Cardinality(Holders(n))

\* No eviction, close or Remove leaves a request with a closed handle
\* (tenant_release.go: "evita use-after-close"), but for a name that was
\* removed by force and for a handle a flight gave to several callers, whose
\* last one may store it after the others have finished with it.
UsersHaveOpenHandles ==
  \A t \in Users :
    pc[t] = "using" => handle[t] \in open \/ name[t] \in forced \/ handle[t] \in several

\* No connection stays open that nothing can close: what is open is in the
\* map, or in the hands of a caller, or came from a flight of several callers.
OpenHandlesAreKept == open \subseteq Referred \cup several

\* The limit is exceeded only while every pool is in use.
LimitExceededWhenBusy ==
  [][Cardinality(Pooled') > Cardinality(Pooled) /\ MaxPools > 0
       => Cardinality(Pooled') <= MaxPools \/ Unused = {}]_poolVars
=============================================================================
