-------------------------- MODULE TenantPoolProofs --------------------------
(***************************************************************************)
(* Proofs about TenantPool for any set of tenants, requests and limits:    *)
(* the reference counts are exact and no user is left with a closed        *)
(* handle, but for the two cases the properties name.                      *)
(***************************************************************************)
EXTENDS TenantPool, FiniteSetTheorems, TLAPS

\* An entry without a handle is no entry.
EntryInv == \A n \in Names : pools[n].db = None => pools[n].inUse = 0

\* Who holds a reference holds the handle of the map.
UserInv ==
  \A t \in Users : pc[t] \in {"using", "gone"} =>
    /\ name[t] \in Names
    /\ name[t] \notin forced => handle[t] # None /\ handle[t] = pools[name[t]].db

\* The handles of the map are open, but for those of shared flights.
PoolsOpen ==
  \A n \in Names : pools[n].db # None => pools[n].db \in open \cup several

\* No two tenants have the same handle.
OwnHandle ==
  \A n, m \in Names : pools[n].db = pools[m].db /\ pools[n].db # None => n = m

\* Nothing else refers to the handle of t.
Exclusive(t) ==
  /\ \A n \in Names : pools[n].db # handle[t]
  /\ \A u \in Threads : u # t => handle[u] # handle[t]

\* Between the end of the flight and the map, a caller's handle is for its own
\* tenant only, and nobody else's when the flight had no other caller.
OpenedInv ==
  \A t \in Users : pc[t] = "opened" =>
    /\ name[t] \in Names /\ handle[t] # None
    /\ \A n \in Names : pools[n].db = handle[t] => n = name[t]
    /\ \A u \in Users : pc[u] = "opened" /\ handle[u] = handle[t] => name[u] = name[t]
    /\ shared[t] => handle[t] \in several
    /\ ~shared[t] => handle[t] \in open /\ Exclusive(t)

\* A background job's own connection is its own.
PrivateInv == \A t \in Users : pc[t] = "private" => handle[t] # None /\ Exclusive(t)

\* A thread on its way to the database knows its name and has no handle.
WayInv ==
  \A t \in Threads :
    /\ pc[t] \in {"miss", "opening", "waiting"} => name[t] \in Names
    /\ pc[t] \in {"idle", "miss", "opening", "waiting", "removing"} => handle[t] = None

PoolInv ==
  /\ PoolTypeOK /\ EntryInv /\ UserInv /\ PoolsOpen /\ OwnHandle /\ OpenedInv
  /\ PrivateInv /\ WayInv /\ UsesCounted

-----------------------------------------------------------------------------
\* A name is in the map when its entry has a handle.
LEMMA PooledDb ==
  ASSUME PoolTypeOK, EntryInv, NEW n \in Names
  PROVE  /\ n \in Pooled <=> pools[n].db # None
         /\ n \notin Pooled <=> pools[n] = NoEntry
BY DEF PoolTypeOK, EntryInv, Pooled, NoEntry

\* Holders are finitely many, so they can be counted.
LEMMA HoldersFinite ==
  ASSUME NEW n PROVE IsFiniteSet(Holders(n)) /\ Cardinality(Holders(n)) \in Nat
<1>1. Holders(n) \subseteq Threads
  BY DEF Holders, Threads
<1>2. QED
  BY <1>1, PoolFinite, FS_Subset, FS_CardinalityType

\* Nobody holds an unused pool.
LEMMA UnusedFree ==
  ASSUME PoolInv, NEW n \in Names \ forced, pools[n].inUse = 0
  PROVE  Holders(n) = {}
<1>1. Cardinality(Holders(n)) = 0
  BY DEF PoolInv, UsesCounted
<1>2. QED
  BY <1>1, HoldersFinite, FS_EmptySet

-----------------------------------------------------------------------------
\* One lemma per action, with one step per conjunct of PoolInv.

\* A caller does not find its database.
LEMMA MissKeeps ==
  ASSUME PoolInv, NEW t \in Users, Miss(t)
  PROVE  PoolInv'
<1>1. PoolTypeOK'
  BY ZenonT(60) DEF PoolInv, PoolTypeOK, Miss, Becomes, Users
<1>2. EntryInv'
  BY DEF PoolInv, EntryInv, Miss
<1>3. UserInv'
  BY DEF PoolInv, UserInv, Miss, Becomes
<1>4. PoolsOpen'
  BY DEF PoolInv, PoolsOpen, Miss
<1>5. OwnHandle'
  BY DEF PoolInv, OwnHandle, Miss
<1>6. OpenedInv'
  BY DEF PoolInv, OpenedInv, Exclusive, Miss, Becomes
<1>7. PrivateInv'
  BY DEF PoolInv, PrivateInv, Exclusive, Miss, Becomes
<1>8. WayInv'
  BY DEF PoolInv, WayInv, PoolTypeOK, Miss, Becomes
<1>9. \A n \in Names : Holders(n)' = Holders(n)
  BY DEF Holders, Miss, Becomes
<1>10. UsesCounted'
  BY <1>9 DEF PoolInv, UsesCounted, Miss
<1> QED
  BY <1>1, <1>2, <1>3, <1>4, <1>5, <1>6, <1>7, <1>8, <1>10 DEF PoolInv

\* A caller begins or joins a flight.
LEMMA JoinKeeps ==
  ASSUME PoolInv, NEW t \in Requests, Join(t)
  PROVE  PoolInv'
<1>1. PoolTypeOK'
  BY DEF PoolInv, PoolTypeOK, Join
<1>2. EntryInv'
  BY DEF PoolInv, EntryInv, Join
<1>3. UserInv'
  BY DEF PoolInv, UserInv, PoolTypeOK, Join, Threads
<1>4. PoolsOpen'
  BY DEF PoolInv, PoolsOpen, Join
<1>5. OwnHandle'
  BY DEF PoolInv, OwnHandle, Join
<1>6. OpenedInv'
  BY DEF PoolInv, OpenedInv, Exclusive, PoolTypeOK, Join, Threads
<1>7. PrivateInv'
  BY DEF PoolInv, PrivateInv, Exclusive, PoolTypeOK, Join, Threads
<1>8. WayInv'
  BY DEF PoolInv, WayInv, PoolTypeOK, Join
<1>9. \A n \in Names : Holders(n)' = Holders(n)
  BY DEF PoolInv, PoolTypeOK, Holders, Join, Threads
<1>10. UsesCounted'
  BY <1>9 DEF PoolInv, UsesCounted, Join
<1> QED
  BY <1>1, <1>2, <1>3, <1>4, <1>5, <1>6, <1>7, <1>8, <1>10 DEF PoolInv

\* A flight fails for all its callers.
LEMMA OpenFailsKeeps ==
  ASSUME PoolInv, NEW t \in Requests, OpenFails(t)
  PROVE  PoolInv'
<1>1. PoolTypeOK'
  BY DEF PoolInv, PoolTypeOK, OpenFails
<1>2. EntryInv'
  BY DEF PoolInv, EntryInv, OpenFails
<1>3. UserInv'
  BY DEF PoolInv, UserInv, OpenFails, Threads
<1>4. PoolsOpen'
  BY DEF PoolInv, PoolsOpen, OpenFails
<1>5. OwnHandle'
  BY DEF PoolInv, OwnHandle, OpenFails
<1>6. OpenedInv'
  BY DEF PoolInv, OpenedInv, Exclusive, OpenFails, Threads
<1>7. PrivateInv'
  BY DEF PoolInv, PrivateInv, Exclusive, OpenFails, Threads
<1>8. WayInv'
  BY DEF PoolInv, WayInv, OpenFails, Waiting
<1>9. \A n \in Names : Holders(n)' = Holders(n)
  BY DEF Holders, OpenFails, Waiting, Threads
<1>10. UsesCounted'
  BY <1>9 DEF PoolInv, UsesCounted, OpenFails
<1> QED
  BY <1>1, <1>2, <1>3, <1>4, <1>5, <1>6, <1>7, <1>8, <1>10 DEF PoolInv

\* A job's own connection cannot be opened.
LEMMA PrivateFailsKeeps ==
  ASSUME PoolInv, NEW t \in Background, PrivateFails(t)
  PROVE  PoolInv'
<1>1. PoolTypeOK'
  BY DEF PoolInv, PoolTypeOK, PrivateFails, Becomes
<1>2. EntryInv'
  BY DEF PoolInv, EntryInv, PrivateFails
<1>3. UserInv'
  BY DEF PoolInv, UserInv, PrivateFails, Becomes
<1>4. PoolsOpen'
  BY DEF PoolInv, PoolsOpen, PrivateFails
<1>5. OwnHandle'
  BY DEF PoolInv, OwnHandle, PrivateFails
<1>6. OpenedInv'
  BY DEF PoolInv, OpenedInv, Exclusive, PrivateFails, Becomes
<1>7. PrivateInv'
  BY DEF PoolInv, PrivateInv, Exclusive, PrivateFails, Becomes
<1>8. WayInv'
  BY DEF PoolInv, WayInv, PoolTypeOK, PrivateFails, Becomes
<1>9. \A n \in Names : Holders(n)' = Holders(n)
  BY DEF Holders, PrivateFails, Becomes
<1>10. UsesCounted'
  BY <1>9 DEF PoolInv, UsesCounted, PrivateFails
<1> QED
  BY <1>1, <1>2, <1>3, <1>4, <1>5, <1>6, <1>7, <1>8, <1>10 DEF PoolInv

\* A user ends without releasing and stays a holder.
LEMMA ForgetKeeps ==
  ASSUME PoolInv, NEW t \in Users, Forget(t)
  PROVE  PoolInv'
<1>1. PoolTypeOK'
  BY DEF PoolInv, PoolTypeOK, Forget
<1>2. EntryInv'
  BY DEF PoolInv, EntryInv, Forget
<1>3. UserInv'
  BY DEF PoolInv, UserInv, Forget
<1>4. PoolsOpen'
  BY DEF PoolInv, PoolsOpen, Forget
<1>5. OwnHandle'
  BY DEF PoolInv, OwnHandle, Forget
<1>6. OpenedInv'
  BY DEF PoolInv, OpenedInv, Exclusive, Forget
<1>7. PrivateInv'
  BY DEF PoolInv, PrivateInv, Exclusive, Forget
<1>8. WayInv'
  BY DEF PoolInv, WayInv, Forget
<1>9. \A n \in Names : Holders(n)' = Holders(n)
  BY DEF Holders, Forget
<1>10. UsesCounted'
  BY <1>9 DEF PoolInv, UsesCounted, Forget
<1> QED
  BY <1>1, <1>2, <1>3, <1>4, <1>5, <1>6, <1>7, <1>8, <1>10 DEF PoolInv

\* Remove begins to wait.
LEMMA BeginRemoveKeeps ==
  ASSUME PoolInv, NEW t \in Removers, BeginRemove(t)
  PROVE  PoolInv'
<1>1. PoolTypeOK'
  BY ZenonT(60) DEF PoolInv, PoolTypeOK, BeginRemove, Becomes, Users
<1>2. EntryInv'
  BY DEF PoolInv, EntryInv, BeginRemove
<1>3. UserInv'
  BY DEF PoolInv, UserInv, BeginRemove, Becomes
<1>4. PoolsOpen'
  BY DEF PoolInv, PoolsOpen, BeginRemove
<1>5. OwnHandle'
  BY DEF PoolInv, OwnHandle, BeginRemove
<1>6. OpenedInv'
  BY DEF PoolInv, OpenedInv, Exclusive, BeginRemove, Becomes
<1>7. PrivateInv'
  BY DEF PoolInv, PrivateInv, Exclusive, BeginRemove, Becomes
<1>8. WayInv'
  BY DEF PoolInv, WayInv, BeginRemove, Becomes
<1>9. \A n \in Names : Holders(n)' = Holders(n)
  BY DEF Holders, BeginRemove, Becomes
<1>10. UsesCounted'
  BY <1>9 DEF PoolInv, UsesCounted, BeginRemove
<1> QED
  BY <1>1, <1>2, <1>3, <1>4, <1>5, <1>6, <1>7, <1>8, <1>10 DEF PoolInv

\* A caller finds its database: one more holder, one more use.
LEMMA HitKeeps ==
  ASSUME PoolInv, NEW t \in Users, Hit(t)
  PROVE  PoolInv'
<1>n. PICK n \in Pooled : /\ pools' = [pools EXCEPT ![n].inUse = @ + 1]
                          /\ Becomes(t, "using", n, pools[n].db)
  BY DEF Hit
<1>d. n \in Names /\ pools[n].db # None
  BY <1>n, PooledDb DEF PoolInv, Pooled
<1>1. PoolTypeOK'
  BY <1>n, <1>d DEF PoolInv, PoolTypeOK, Hit, Becomes, Threads
<1>2. EntryInv'
  BY <1>n, <1>d DEF PoolInv, EntryInv
<1>3. UserInv'
  BY <1>n, <1>d DEF PoolInv, UserInv, PoolTypeOK, Hit, Becomes
<1>4. PoolsOpen'
  BY <1>n DEF PoolInv, PoolsOpen, Hit
<1>5. OwnHandle'
  BY <1>n DEF PoolInv, OwnHandle
<1>6. OpenedInv'
  BY <1>n, <1>d DEF PoolInv, OpenedInv, Exclusive, Hit, Becomes
<1>7. PrivateInv'
  BY <1>n, <1>d DEF PoolInv, PrivateInv, Exclusive, PoolTypeOK, Becomes
<1>8. WayInv'
  BY <1>n DEF PoolInv, WayInv, PoolTypeOK, Becomes
<1>10. UsesCounted'
  <2>1. t \notin Holders(n) /\ Holders(n)' = Holders(n) \cup {t}
    BY <1>n DEF PoolInv, PoolTypeOK, Holders, Hit, Becomes, Threads
  <2>2. Cardinality(Holders(n))' = Cardinality(Holders(n)) + 1
    BY <2>1, HoldersFinite, FS_AddElement
  <2>3. \A m \in Names \ {n} : Holders(m)' = Holders(m)
    BY <1>n DEF PoolInv, PoolTypeOK, Holders, Hit, Becomes
  <2>4. QED
    BY <2>2, <2>3, <1>n, <1>d, HoldersFinite DEF PoolInv, UsesCounted, PoolTypeOK, Hit
<1> QED
  BY <1>1, <1>2, <1>3, <1>4, <1>5, <1>6, <1>7, <1>8, <1>10 DEF PoolInv

\* A caller finds its database stored by another and closes its own handle
\* only if no other caller of the flight has it.
LEMMA AlreadyStoredKeeps ==
  ASSUME PoolInv, NEW t \in Requests, AlreadyStored(t)
  PROVE  PoolInv'
<1>d. name[t] \in Names /\ pools[name[t]].db # None
  BY PooledDb DEF PoolInv, Pooled, AlreadyStored
<1>1. PoolTypeOK'
  BY <1>d DEF PoolInv, PoolTypeOK, AlreadyStored, Becomes, Users, Threads
<1>2. EntryInv'
  BY <1>d DEF PoolInv, EntryInv, AlreadyStored
<1>3. UserInv'
  BY <1>d DEF PoolInv, UserInv, PoolTypeOK, AlreadyStored, Becomes
<1>4. PoolsOpen'
  BY DEF PoolInv, PoolsOpen, OpenedInv, Exclusive, AlreadyStored, CloseOwn, Users
<1>5. OwnHandle'
  BY DEF PoolInv, OwnHandle, AlreadyStored
<1>6. OpenedInv'
  BY DEF PoolInv, OpenedInv, Exclusive, PoolTypeOK, AlreadyStored, CloseOwn, Becomes, Users, Threads
<1>7. PrivateInv'
  BY <1>d DEF PoolInv, PrivateInv, Exclusive, AlreadyStored, Becomes
<1>8. WayInv'
  BY DEF PoolInv, WayInv, AlreadyStored, Becomes
<1>10. UsesCounted'
  <2>1. t \notin Holders(name[t]) /\ Holders(name[t])' = Holders(name[t]) \cup {t}
    BY DEF PoolInv, PoolTypeOK, Holders, AlreadyStored, Becomes, Users, Threads
  <2>2. Cardinality(Holders(name[t]))' = Cardinality(Holders(name[t])) + 1
    BY <2>1, HoldersFinite, FS_AddElement
  <2>3. \A m \in Names \ {name[t]} : Holders(m)' = Holders(m)
    BY DEF Holders, AlreadyStored, Becomes
  <2>4. QED
    BY <2>2, <2>3, <1>d, HoldersFinite DEF PoolInv, UsesCounted, PoolTypeOK, AlreadyStored, Becomes
<1> QED
  BY <1>1, <1>2, <1>3, <1>4, <1>5, <1>6, <1>7, <1>8, <1>10 DEF PoolInv

\* A flight gives all its callers a handle that nothing else refers to.
LEMMA OpenedKeeps ==
  ASSUME PoolInv, NEW t \in Requests, Opened(t)
  PROVE  PoolInv'
<1> DEFINE callers == {t} \cup Waiting(name[t])
<1>c. /\ t \in callers /\ callers \subseteq Requests /\ name[t] \in Names
      /\ \A u \in callers : name[u] = name[t] /\ handle[u] = None
  BY DEF Waiting, PoolInv, WayInv, Opened, Users, Threads
<1>h. PICK h \in Handles \ (open \cup Referred) :
         /\ open' = open \cup {h}
         /\ handle' = [u \in Threads |-> IF u \in callers THEN h ELSE handle[u]]
         /\ shared' = [u \in Threads |-> IF u \in callers THEN callers # {t} ELSE shared[u]]
         /\ pc' = [u \in Threads |-> IF u \in callers THEN "opened" ELSE pc[u]]
         /\ several' = IF callers # {t} THEN several \cup {h} ELSE several \ {h}
  BY DEF Opened
<1>s. /\ UNCHANGED <<pools, name, forced>>
      /\ leader' = [leader EXCEPT ![name[t]] = None]
  BY DEF Opened
<1>f. /\ h # None
      /\ \A n \in Names : pools[n].db # h
      /\ \A u \in Threads : handle[u] # h
  BY <1>h, PoolAssumption DEF Referred
<1> HIDE DEF callers
<1>1. PoolTypeOK'
  BY <1>c, <1>h, <1>s DEF PoolInv, PoolTypeOK
<1>2. EntryInv'
  BY <1>s DEF PoolInv, EntryInv
<1>3. UserInv'
  BY <1>c, <1>h, <1>s DEF PoolInv, UserInv, Threads
<1>4. PoolsOpen'
  BY <1>h, <1>s, <1>f DEF PoolInv, PoolsOpen
<1>5. OwnHandle'
  BY <1>s DEF PoolInv, OwnHandle
<1>6. OpenedInv'
  <2> SUFFICES ASSUME NEW u \in Users, pc'[u] = "opened"
                PROVE  /\ name'[u] \in Names /\ handle'[u] # None
                       /\ \A n \in Names : pools'[n].db = handle'[u] => n = name'[u]
                       /\ \A v \in Users : pc'[v] = "opened" /\ handle'[v] = handle'[u]
                                           => name'[v] = name'[u]
                       /\ shared'[u] => handle'[u] \in several'
                       /\ ~shared'[u] => handle'[u] \in open' /\ Exclusive(u)'
    BY DEF OpenedInv
  <2>1. CASE u \in callers
    <3>1. shared'[u] = (callers # {t}) /\ handle'[u] = h /\ name'[u] = name[t]
      BY <2>1, <1>c, <1>h, <1>s DEF Threads
    <3>2. \A v \in Threads : handle'[v] = h <=> v \in callers
      BY <1>c, <1>h, <1>f
    <3>3. callers = {t} => Exclusive(u)'
      BY <2>1, <3>1, <3>2, <1>f, <1>s DEF Exclusive
    <3>4. QED
      BY <3>1, <3>2, <3>3, <1>c, <1>h, <1>f, <1>s DEF Threads
  <2>2. CASE u \notin callers
    <3>1. pc[u] = "opened" /\ handle'[u] = handle[u] /\ shared'[u] = shared[u]
      BY <2>2, <1>h DEF Threads
    <3>2. handle[u] # h /\ handle[u] # None
      BY <1>f, <3>1 DEF PoolInv, OpenedInv, Threads
    <3>3. \A v \in Threads :
            handle'[v] = handle[u] =>
              v \notin callers /\ handle[v] = handle[u] /\ pc'[v] = pc[v]
      BY <3>2, <1>h
    <3>4. ~shared[u] => Exclusive(u)'
      BY <3>1, <3>2, <3>3, <1>s DEF PoolInv, OpenedInv, Exclusive
    <3>5. QED
      BY <3>1, <3>2, <3>3, <3>4, <1>h, <1>s DEF PoolInv, OpenedInv, Threads
  <2>3. QED
    BY <2>1, <2>2
<1>7. PrivateInv'
  BY <1>c, <1>h, <1>s, <1>f DEF PoolInv, PrivateInv, Exclusive, Threads
<1>8. WayInv'
  BY <1>c, <1>h, <1>s DEF PoolInv, WayInv
<1>10. UsesCounted'
  <2>1. \A n \in Names : Holders(n)' = Holders(n)
    BY <1>c, <1>h, <1>s DEF Holders, Threads, Waiting, Opened
  <2>2. QED
    BY <2>1, <1>s DEF PoolInv, UsesCounted
<1> QED
  BY <1>1, <1>2, <1>3, <1>4, <1>5, <1>6, <1>7, <1>8, <1>10 DEF PoolInv

\* A job opens a handle that nothing else refers to.
LEMMA OpenPrivateKeeps ==
  ASSUME PoolInv, NEW t \in Background, OpenPrivate(t)
  PROVE  PoolInv'
<1>1. PoolTypeOK'
  BY DEF PoolInv, PoolTypeOK, OpenPrivate, Becomes, Users, Threads
<1>2. EntryInv'
  BY DEF PoolInv, EntryInv, OpenPrivate
<1>3. UserInv'
  BY DEF PoolInv, UserInv, OpenPrivate, Becomes
<1>4. PoolsOpen'
  BY DEF PoolInv, PoolsOpen, OpenPrivate
<1>5. OwnHandle'
  BY DEF PoolInv, OwnHandle, OpenPrivate
<1>6. OpenedInv'
  BY DEF PoolInv, OpenedInv, Exclusive, OpenPrivate, Referred, Becomes, Threads
<1>7. PrivateInv'
  BY PoolAssumption DEF PoolInv, PrivateInv, Exclusive, PoolTypeOK, OpenPrivate, Referred,
                       Becomes, Threads
<1>8. WayInv'
  BY DEF PoolInv, WayInv, PoolTypeOK, OpenPrivate, Becomes
<1>9. \A n \in Names : Holders(n)' = Holders(n)
  BY DEF Holders, OpenPrivate, Becomes
<1>10. UsesCounted'
  BY <1>9 DEF PoolInv, UsesCounted, OpenPrivate
<1> QED
  BY <1>1, <1>2, <1>3, <1>4, <1>5, <1>6, <1>7, <1>8, <1>10 DEF PoolInv

\* A job closes a handle that nothing else refers to.
LEMMA ClosePrivateKeeps ==
  ASSUME PoolInv, NEW t \in Background, ClosePrivate(t)
  PROVE  PoolInv'
<1>1. PoolTypeOK'
  BY DEF PoolInv, PoolTypeOK, ClosePrivate, Becomes
<1>2. EntryInv'
  BY DEF PoolInv, EntryInv, ClosePrivate
<1>3. UserInv'
  BY DEF PoolInv, UserInv, ClosePrivate, Becomes
<1>4. PoolsOpen'
  BY DEF PoolInv, PoolsOpen, PrivateInv, Exclusive, ClosePrivate, Users
<1>5. OwnHandle'
  BY DEF PoolInv, OwnHandle, ClosePrivate
<1>6. OpenedInv'
  BY DEF PoolInv, OpenedInv, Exclusive, ClosePrivate, Becomes, Users, Threads
<1>7. PrivateInv'
  BY DEF PoolInv, PrivateInv, Exclusive, PoolTypeOK, ClosePrivate, Becomes
<1>8. WayInv'
  BY DEF PoolInv, WayInv, PoolTypeOK, ClosePrivate, Becomes
<1>9. \A n \in Names : Holders(n)' = Holders(n)
  BY DEF Holders, ClosePrivate, Becomes
<1>10. UsesCounted'
  BY <1>9 DEF PoolInv, UsesCounted, ClosePrivate
<1> QED
  BY <1>1, <1>2, <1>3, <1>4, <1>5, <1>6, <1>7, <1>8, <1>10 DEF PoolInv

\* Closing pools keeps the invariant if they are unused or were removed by
\* force: nobody else refers to their handles.
LEMMA DropKeeps ==
  ASSUME PoolInv, NEW S \in SUBSET Pooled, Drop(S),
         UNCHANGED <<leader, handle, shared, several>>,
         \A u \in Users : pc'[u] = pc[u] /\ name'[u] = name[u],
         forced \subseteq forced', \A n \in S : n \in Unused \/ n \in forced',
         PoolTypeOK', WayInv'
  PROVE  PoolInv'
<1>1. /\ \A n \in Names : n \notin S => pools'[n] = pools[n]
      /\ \A n \in S : n \in Names /\ pools'[n] = NoEntry /\ pools[n].db # None
  BY PooledDb DEF Drop, PoolInv, Pooled
<1>2. \A n \in S : n \notin forced' => Holders(n) = {}
  BY <1>1, UnusedFree DEF Unused
<1>3. \A n \in Names : Holders(n)' = Holders(n)
  BY DEF Holders
<1>4. \A h \in open : h \notin open' => \E n \in S : h = pools[n].db
  BY DEF Drop
<1>5. EntryInv'
  BY <1>1 DEF PoolInv, EntryInv, NoEntry
<1>6. UserInv'
  <2> SUFFICES ASSUME NEW u \in Users, pc'[u] \in {"using", "gone"}
               PROVE  /\ name'[u] \in Names
                      /\ name'[u] \notin forced' =>
                           handle'[u] # None /\ handle'[u] = pools'[name'[u]].db
    BY DEF UserInv
  <2>1. name[u] \in Names /\ u \in Holders(name[u])
    BY DEF PoolInv, UserInv, Holders
  <2>2. name[u] \notin forced' => name[u] \notin S
    BY <2>1, <1>2
  <2>3. QED
    BY <2>1, <2>2, <1>1 DEF PoolInv, UserInv
<1>7. PoolsOpen' /\ OwnHandle'
  BY <1>1, <1>4 DEF PoolInv, PoolsOpen, OwnHandle, NoEntry
<1>8. OpenedInv' /\ PrivateInv'
  <2>1. \A n \in Names : pools'[n].db = pools[n].db \/ pools'[n].db = None
    BY <1>1 DEF NoEntry
  <2>2. PrivateInv'
    BY <2>1 DEF PoolInv, PrivateInv, Exclusive
  <2>3. ASSUME NEW u \in Users, pc'[u] = "opened", ~shared'[u]
        PROVE  handle'[u] \in open' /\ Exclusive(u)'
    <3>1. handle[u] \in open /\ handle[u] # None /\ Exclusive(u)
      BY <2>3 DEF PoolInv, OpenedInv
    <3>2. QED
      BY <3>1, <2>1, <1>1, <1>4 DEF Exclusive
  <2>4. OpenedInv'
    BY <2>1, <2>3 DEF PoolInv, OpenedInv
  <2>5. QED
    BY <2>2, <2>4
<1>9. UsesCounted'
  <2> SUFFICES ASSUME NEW n \in Names \ forced'
               PROVE  pools'[n].inUse = Cardinality(Holders(n))'
    BY DEF UsesCounted
  <2>1. CASE n \in S
    BY <2>1, <1>1, <1>2, <1>3, HoldersFinite, FS_EmptySet DEF NoEntry
  <2>2. CASE n \notin S
    BY <2>2, <1>1, <1>3 DEF PoolInv, UsesCounted
  <2>3. QED
    BY <2>1, <2>2
<1> QED
  BY <1>5, <1>6, <1>7, <1>8, <1>9 DEF PoolInv

\* The eviction of idle pools closes unused ones.
LEMMA EvictIdleKeeps ==
  ASSUME PoolInv, NEW S \in SUBSET Names, EvictIdle(S)
  PROVE  PoolInv'
<1>1. /\ S \in SUBSET Pooled /\ S \subseteq Unused /\ Drop(S)
      /\ UNCHANGED <<leader, pc, name, handle, shared, several, forced>>
  BY DEF EvictIdle, Unused, threadVars
<1>2. PoolTypeOK'
  BY <1>1 DEF PoolInv, PoolTypeOK, Drop, NoEntry
<1>3. WayInv'
  BY <1>1 DEF PoolInv, WayInv
<1>4. QED
  BY <1>1, <1>2, <1>3, DropKeeps

\* What the two ways in which Remove ends have in common.
LEMMA RemoveKeeps ==
  ASSUME PoolInv, NEW r \in Removers, pc[r] = "removing",
         Drop({name[r]} \cap Pooled), Becomes(r, "idle", None, None),
         UNCHANGED <<leader, shared, several>>,
         forced \subseteq forced', forced' \subseteq Names,
         \A n \in {name[r]} \cap Pooled : n \in Unused \/ n \in forced'
  PROVE  PoolInv'
<1>1. handle[r] = None /\ r \in Threads /\ r \notin Users
  BY PoolAssumption DEF PoolInv, WayInv, Threads
<1>2. handle' = handle /\ \A u \in Users : pc'[u] = pc[u] /\ name'[u] = name[u]
  BY <1>1 DEF PoolInv, PoolTypeOK, Becomes
<1>3. PoolTypeOK'
  BY <1>1 DEF PoolInv, PoolTypeOK, Becomes, Drop, NoEntry
<1>4. WayInv'
  BY <1>1 DEF PoolInv, WayInv, Becomes
<1>5. QED
  BY <1>2, <1>3, <1>4, DropKeeps

\* Remove closes an unused pool, or marks it as closed by force.
LEMMA RemovesKeep ==
  ASSUME PoolInv, NEW r \in Removers, RemovePoll(r) \/ RemoveForced(r)
  PROVE  PoolInv'
<1>1. CASE RemovePoll(r)
  BY <1>1, RemoveKeeps DEF RemovePoll, PoolInv, PoolTypeOK
<1>2. CASE RemoveForced(r)
  BY <1>2, RemoveKeeps DEF RemoveForced, Pooled, PoolInv, PoolTypeOK
<1>3. QED
  BY <1>1, <1>2

\* A release takes the caller and one use away; by force-removed names it may
\* take another's.
LEMMA ReleaseKeeps ==
  ASSUME PoolInv, NEW t \in Users, Release(t)
  PROVE  PoolInv'
<1>n. PICK n \in Names : n = name[t]
  BY DEF PoolInv, UserInv, Release
<1>1. /\ t \in Holders(n) /\ t \in Threads
      /\ n \notin forced => n \in Pooled
  BY <1>n, PooledDb DEF PoolInv, UserInv, Release, Holders, Threads
<1>2. /\ \A m \in Names : pools'[m].db = pools[m].db
      /\ \A m \in Names : m # n => pools'[m] = pools[m]
      /\ n \in Pooled => pools'[n].inUse = LessOne(pools[n].inUse)
      /\ n \notin Pooled => pools'[n] = pools[n]
  BY <1>n DEF Release
<1>3. /\ \A u \in Threads : u # t => pc'[u] = pc[u] /\ name'[u] = name[u] /\ handle'[u] = handle[u]
      /\ pc'[t] = "idle" /\ name'[t] = None /\ handle'[t] = None
      /\ UNCHANGED <<open, leader, shared, several, forced>>
  BY <1>1 DEF Release, Becomes, PoolInv, PoolTypeOK
<1>4. PoolTypeOK'
  BY <1>1 DEF PoolInv, PoolTypeOK, Release, Becomes, LessOne
<1>5. EntryInv'
  BY <1>2, PooledDb DEF PoolInv, EntryInv
<1>6. UserInv'
  BY <1>2, <1>3 DEF PoolInv, UserInv, Threads
<1>7. PoolsOpen' /\ OwnHandle'
  BY <1>2, <1>3 DEF PoolInv, PoolsOpen, OwnHandle
<1>8. OpenedInv'
  BY <1>2, <1>3 DEF PoolInv, OpenedInv, Exclusive, Threads
<1>9. PrivateInv'
  BY <1>2, <1>3 DEF PoolInv, PrivateInv, Exclusive, Threads
<1>10. WayInv'
  BY <1>3 DEF PoolInv, WayInv
<1>11. UsesCounted'
  <2>1. Holders(n)' = Holders(n) \ {t}
    BY <1>1, <1>3 DEF Holders, Threads
  <2>2. \A m \in Names : m # n => Holders(m)' = Holders(m)
    BY <1>n, <1>3 DEF Holders, Threads
  <2>3. Cardinality(Holders(n))' = Cardinality(Holders(n)) - 1
    BY <2>1, <1>1, HoldersFinite, FS_RemoveElement
  <2>4. Cardinality(Holders(n)) # 0
    BY <1>1, HoldersFinite, FS_EmptySet
  <2>5. n \notin forced => pools'[n].inUse = Cardinality(Holders(n))'
    BY <2>3, <2>4, <1>1, <1>2, HoldersFinite DEF PoolInv, UsesCounted, LessOne
  <2>6. QED
    BY <2>2, <2>5, <1>2, <1>3 DEF PoolInv, UsesCounted
<1> QED
  BY <1>4, <1>5, <1>6, <1>7, <1>8, <1>9, <1>10, <1>11 DEF PoolInv

\* A caller stores its handle as the first holder of its database and closes
\* an unused one.
LEMMA StoreKeeps ==
  ASSUME PoolInv, NEW t \in Requests, Store(t)
  PROVE  PoolInv'
<1>n. PICK n \in Names : n = name[t]
  BY DEF PoolInv, OpenedInv, Store, Users
<1>v. PICK victims \in SUBSET LruVictims :
        /\ open' = open \ {pools[m].db : m \in victims}
        /\ pools' = [m \in Names |-> IF m = name[t] THEN NewEntry(handle[t])
                                     ELSE IF m \in victims THEN NoEntry ELSE pools[m]]
  BY DEF Store
<1>1. /\ victims \subseteq Names /\ n \notin Pooled /\ n \notin victims
      /\ \A m \in victims : pools[m].db # None /\ pools[m].inUse = 0
      /\ pools[n] = NoEntry
  BY <1>n, PooledDb DEF LruVictims, Unused, Pooled, Store, PoolInv
<1>2. /\ pools'[n] = [db |-> handle[t], inUse |-> 1]
      /\ \A m \in victims : pools'[m] = NoEntry
      /\ \A m \in Names : m # n /\ m \notin victims => pools'[m] = pools[m]
  BY <1>n, <1>v, <1>1 DEF NewEntry
<1>3. /\ t \in Threads /\ t \in Users /\ pc[t] = "opened" /\ pc'[t] = "using"
      /\ \A u \in Threads : u # t => pc'[u] = pc[u] /\ shared'[u] = shared[u]
      /\ UNCHANGED <<leader, name, handle, several, forced>>
  BY DEF Store, PoolInv, PoolTypeOK, Users, Threads
<1>4. /\ handle[t] # None /\ handle[t] \in Handles
      /\ \A m \in Names : pools[m].db # handle[t]
      /\ handle[t] \in open \cup several
  BY <1>n, <1>1, <1>3 DEF PoolInv, OpenedInv, PoolTypeOK, NoEntry
<1>5. \A m \in victims : m \notin forced => Holders(m) = {}
  BY <1>1, UnusedFree
<1>6. \A h \in open : h \notin open' => \E m \in victims : h = pools[m].db
  BY <1>v
<1>7. PoolTypeOK'
  <2>1. pools' \in [Names -> [db : Handles \cup {None}, inUse : Nat]]
    BY <1>v, <1>3, <1>4 DEF PoolInv, PoolTypeOK, NewEntry, NoEntry
  <2>2. open' \subseteq Handles
    BY <1>v DEF PoolInv, PoolTypeOK
  <2>3. QED
    BY <2>1, <2>2, <1>3 DEF PoolInv, PoolTypeOK, Store
<1>8. EntryInv'
  BY <1>2, <1>4 DEF PoolInv, EntryInv, NoEntry
<1>9. UserInv'
  <2> SUFFICES ASSUME NEW u \in Users, pc'[u] \in {"using", "gone"}
               PROVE  /\ name[u] \in Names
                      /\ name[u] \notin forced =>
                           handle[u] # None /\ handle[u] = pools'[name[u]].db
    BY <1>3 DEF UserInv
  <2>1. CASE u = t
    BY <2>1, <1>n, <1>2, <1>4
  <2>2. CASE u # t
    <3>1. u \in Holders(name[u]) /\ name[u] \in Names
      BY <2>2, <1>3 DEF PoolInv, UserInv, Holders, Threads
    <3>2. name[u] \notin forced => name[u] # n /\ name[u] \notin victims
      BY <3>1, <1>1, <1>5 DEF PoolInv, UserInv, Holders, NoEntry
    <3>3. QED
      BY <3>1, <3>2, <1>2 DEF PoolInv, UserInv, Holders
  <2>3. QED
    BY <2>1, <2>2
<1>10. PoolsOpen' /\ OwnHandle'
  BY <1>1, <1>2, <1>3, <1>4, <1>6 DEF PoolInv, PoolsOpen, OwnHandle, NoEntry
<1>11. \A m \in Names : pools'[m].db \in {pools[m].db, None} \/ (m = n /\ pools'[m].db = handle[t])
  BY <1>2 DEF NoEntry
<1>12. ASSUME NEW u \in Users, u # t, handle[u] # None, Exclusive(u)
       PROVE  Exclusive(u)'
  BY <1>12, <1>3, <1>11 DEF Exclusive
<1>13. OpenedInv'
  <2> SUFFICES ASSUME NEW u \in Users, pc'[u] = "opened"
               PROVE  /\ name[u] \in Names /\ handle[u] # None
                      /\ \A m \in Names : pools'[m].db = handle[u] => m = name[u]
                      /\ \A w \in Users : pc'[w] = "opened" /\ handle[w] = handle[u]
                                          => name[w] = name[u]
                      /\ shared'[u] => handle[u] \in several
                      /\ ~shared'[u] => handle[u] \in open' /\ Exclusive(u)'
    BY <1>3 DEF OpenedInv
  <2>1. u # t /\ pc[u] = "opened" /\ shared'[u] = shared[u]
    BY <1>3 DEF Threads
  <2>2. \A w \in Users : pc'[w] = "opened" => pc[w] = "opened"
    BY <1>3 DEF Threads
  <2>3. handle[t] = handle[u] => name[u] = n
    BY <2>1, <1>n, <1>3 DEF PoolInv, OpenedInv
  <2>4. ~shared[u] => handle[u] \in open'
    BY <2>1, <1>1, <1>6 DEF PoolInv, OpenedInv, Exclusive
  <2>5. QED
    BY <2>1, <2>2, <2>3, <2>4, <1>11, <1>12 DEF PoolInv, OpenedInv
<1>14. PrivateInv'
  <2>1. \A u \in Users : pc'[u] = "private" => u # t /\ pc[u] = "private"
    BY <1>3 DEF Threads
  <2>2. QED
    BY <2>1, <1>3, <1>12 DEF PoolInv, PrivateInv
<1>15. WayInv'
  BY <1>3 DEF PoolInv, WayInv
<1>16. UsesCounted'
  <2> SUFFICES ASSUME NEW m \in Names \ forced
               PROVE  pools'[m].inUse = Cardinality(Holders(m)')
    BY <1>3 DEF UsesCounted
  <2>1. CASE m = n
    <3>1. Holders(m) = {}
      BY <2>1, <1>1, UnusedFree DEF NoEntry
    <3>2. Holders(m)' = {t}
      BY <3>1, <2>1, <1>n, <1>3 DEF Holders, Threads
    <3>3. Cardinality({t}) = 1
      BY FS_Singleton
    <3>4. pools'[m].inUse = 1
      BY <2>1, <1>2
    <3>5. QED
      BY <3>2, <3>3, <3>4
  <2>2. CASE m # n
    <3>1. Holders(m)' = Holders(m)
      BY <2>2, <1>n, <1>3 DEF Holders, Threads
    <3>2. CASE m \in victims
      BY <3>1, <3>2, <1>2, <1>5, HoldersFinite, FS_EmptySet DEF NoEntry
    <3>3. CASE m \notin victims
      BY <3>1, <3>3, <2>2, <1>2 DEF PoolInv, UsesCounted
    <3>4. QED
      BY <3>2, <3>3
  <2>3. QED
    BY <2>1, <2>2
<1> QED
  BY <1>7, <1>8, <1>9, <1>10, <1>13, <1>14, <1>15, <1>16 DEF PoolInv

-----------------------------------------------------------------------------
\* There are no pools and no users at first.
LEMMA PoolInitHolds == PoolInit => PoolInv
<1> SUFFICES ASSUME PoolInit PROVE PoolInv
  OBVIOUS
<1>1. PoolTypeOK
  BY DEF PoolInit, PoolTypeOK, NoEntry
<1>2. EntryInv /\ UserInv /\ PoolsOpen /\ OwnHandle
  BY DEF PoolInit, EntryInv, UserInv, PoolsOpen, OwnHandle, NoEntry, Threads
<1>3. OpenedInv /\ PrivateInv /\ WayInv
  BY DEF PoolInit, OpenedInv, PrivateInv, WayInv, Threads
<1>4. \A n \in Names : Holders(n) = {} /\ pools[n].inUse = 0
  BY DEF PoolInit, Holders, Threads, NoEntry
<1>5. UsesCounted
  BY <1>4, HoldersFinite, FS_EmptySet DEF UsesCounted
<1>6. QED
  BY <1>1, <1>2, <1>3, <1>5 DEF PoolInv

\* Every step keeps the invariant.
LEMMA PoolStepKeeps == PoolInv /\ [PoolNext]_poolVars => PoolInv'
<1> SUFFICES ASSUME PoolInv, [PoolNext]_poolVars PROVE PoolInv'
  OBVIOUS
<1>1. ASSUME NEW t \in Users, Hit(t) \/ Miss(t) \/ Release(t) \/ Forget(t)
      PROVE  PoolInv'
  BY <1>1, HitKeeps, MissKeeps, ReleaseKeeps, ForgetKeeps
<1>2. ASSUME NEW t \in Requests,
             Join(t) \/ Opened(t) \/ OpenFails(t) \/ AlreadyStored(t) \/ Store(t)
      PROVE  PoolInv'
  BY <1>2, JoinKeeps, OpenedKeeps, OpenFailsKeeps, AlreadyStoredKeeps, StoreKeeps
<1>3. ASSUME NEW t \in Background, OpenPrivate(t) \/ PrivateFails(t) \/ ClosePrivate(t)
      PROVE  PoolInv'
  BY <1>3, OpenPrivateKeeps, PrivateFailsKeeps, ClosePrivateKeeps
<1>4. ASSUME NEW S \in SUBSET Names, EvictIdle(S)
      PROVE  PoolInv'
  BY <1>4, EvictIdleKeeps
<1>5. ASSUME NEW r \in Removers, BeginRemove(r) \/ RemovePoll(r) \/ RemoveForced(r)
      PROVE  PoolInv'
  BY <1>5, BeginRemoveKeeps, RemovesKeep
<1>6. CASE UNCHANGED poolVars
  <2>1. \A n \in Names : Holders(n)' = Holders(n)
    BY <1>6 DEF Holders, poolVars
  <2>2. UsesCounted'
    BY <1>6, <2>1 DEF PoolInv, UsesCounted, poolVars
  <2>3. QED
    BY <1>6, <2>2 DEF PoolInv, PoolTypeOK, EntryInv, UserInv, PoolsOpen, OwnHandle,
                      OpenedInv, Exclusive, PrivateInv, WayInv, poolVars
<1>7. QED
  BY <1>1, <1>2, <1>3, <1>4, <1>5, <1>6 DEF PoolNext

\* PoolInv is an invariant of the pools.
THEOREM PoolInvariant == PoolSpec => []PoolInv
<1>1. QED
  BY PoolInitHolds, PoolStepKeeps, PTL DEF PoolSpec

\* The map, the flights and the callers keep their types: no reference count
\* goes below zero, because whoever releases was counted (release_registry.go).
THEOREM PoolTypeCorrect == PoolSpec => []PoolTypeOK
<1>1. PoolInv => PoolTypeOK
  BY DEF PoolInv
<1>2. QED
  BY <1>1, PoolInvariant, PTL

\* For any tenants, requests, jobs and limit: the reference count that
\* eviction trusts is the number of holders, until Remove closes the pool by
\* force (release_registry.go, tenant_manager.go).
THEOREM UsesAreCounted == PoolSpec => []UsesCounted
<1>1. PoolInv => UsesCounted
  BY DEF PoolInv
<1>2. QED
  BY <1>1, PoolInvariant, PTL

\* For any tenants, requests, jobs and limit: no eviction, no close of a
\* handle that was not needed and no Remove leaves a request with a closed
\* handle, but for a forced Remove and the handles of shared flights.
THEOREM UsersKeepOpenHandles == PoolSpec => []UsersHaveOpenHandles
<1>1. PoolInv => UsersHaveOpenHandles
  BY DEF PoolInv, UserInv, PoolsOpen, UsersHaveOpenHandles
<1>2. QED
  BY <1>1, PoolInvariant, PTL

-----------------------------------------------------------------------------
\* Whoever holds a reference has the handle of the map, or one that is closed
\* (its pool was removed by force), or one that other callers have too.
HolderKept ==
  \A t \in Users : pc[t] \in {"using", "gone"} /\ handle[t] \in open =>
    handle[t] \in several \/ \E n \in Names : pools[n].db = handle[t]

KeptInv == HolderKept /\ OpenHandlesAreKept

\* Closing the pools of S leaves no other handle behind.
LEMMA DropForgetsNone ==
  ASSUME PoolInv, KeptInv, NEW S \in SUBSET Names, Drop(S),
         UNCHANGED <<handle, several>>, \A u \in Users : pc'[u] = pc[u]
  PROVE  KeptInv'
<1>1. /\ open' = open \ {pools[n].db : n \in S}
      /\ \A n \in Names \ S : pools'[n].db = pools[n].db
  BY DEF Drop
<1>2. \A n \in Names : pools[n].db \in open' => pools'[n].db = pools[n].db
  BY <1>1
<1>3. HolderKept'
  BY <1>1, <1>2 DEF KeptInv, HolderKept
<1>4. OpenHandlesAreKept'
  BY <1>1, <1>2 DEF KeptInv, OpenHandlesAreKept, Referred
<1>5. QED
  BY <1>3, <1>4 DEF KeptInv

\* A step of a thread that opens nothing, keeps the handles of the map and
\* changes its own handle only if that was closed, or in the map, or shared.
LEMMA ThreadForgetsNone ==
  ASSUME PoolInv, KeptInv, NEW t \in Threads,
         open' \subseteq open, several' = several,
         \A n \in Names : pools[n].db \in open' => pools'[n].db = pools[n].db,
         \A u \in Threads : u # t => handle'[u] = handle[u] /\ pc'[u] = pc[u],
         \/ handle'[t] = handle[t]
         \/ handle[t] \notin open' \/ handle[t] \in several
         \/ \E n \in Names : pools[n].db = handle[t],
         t \in Users /\ pc'[t] \in {"using", "gone"} =>
           \/ pc[t] \in {"using", "gone"} /\ handle'[t] = handle[t]
           \/ \E n \in Names : pools'[n].db = handle'[t]
  PROVE  KeptInv'
<1>1. HolderKept'
  BY DEF KeptInv, HolderKept, Threads
<1>2. ASSUME NEW h \in open', h \notin several
      PROVE  h \in Referred'
  <2>1. h \in Referred
    BY <1>2 DEF KeptInv, OpenHandlesAreKept
  <2>2. CASE \E n \in Names : pools[n].db = h
    BY <2>2, <1>2 DEF Referred
  <2>3. CASE \E u \in Threads : handle[u] = h
    BY <2>2, <2>3, <1>2 DEF Referred
  <2>4. QED
    BY <2>1, <2>2, <2>3 DEF Referred
<1>3. OpenHandlesAreKept'
  BY <1>2 DEF OpenHandlesAreKept
<1>4. QED
  BY <1>1, <1>3 DEF KeptInv

\* A caller takes a reference, looks, or lets go.
LEMMA UserForgetsNone ==
  ASSUME PoolInv, KeptInv, NEW t \in Users, Hit(t) \/ Miss(t) \/ Release(t) \/ Forget(t)
  PROVE  KeptInv'
<1>t. t \in Threads
  BY DEF Threads
<1>1. CASE Hit(t)
  <2>n. PICK n \in Pooled : /\ pools' = [pools EXCEPT ![n].inUse = @ + 1]
                            /\ Becomes(t, "using", n, pools[n].db)
    BY <1>1 DEF Hit
  <2>1. n \in Names /\ \A m \in Names : pools'[m].db = pools[m].db
    BY <2>n DEF Pooled, PoolInv, PoolTypeOK
  <2>2. /\ pc'[t] = "using" /\ handle'[t] = pools'[n].db
        /\ \A u \in Threads : u # t => handle'[u] = handle[u] /\ pc'[u] = pc[u]
    BY <1>t, <2>n, <2>1 DEF Becomes, PoolInv, PoolTypeOK
  <2>3. handle[t] \notin open /\ UNCHANGED <<open, several>>
    BY <1>1, <1>t, PoolAssumption DEF Hit, PoolInv, PoolTypeOK, WayInv
  <2>4. QED
    BY <1>t, <2>1, <2>2, <2>3, ThreadForgetsNone
<1>2. CASE Miss(t)
  <2>1. /\ pc'[t] = "miss" /\ handle[t] = handle'[t] /\ UNCHANGED <<open, several, pools>>
        /\ \A u \in Threads : u # t => handle'[u] = handle[u] /\ pc'[u] = pc[u]
    BY <1>2, <1>t DEF Miss, Becomes, PoolInv, PoolTypeOK, WayInv
  <2>2. QED
    BY <1>t, <2>1, ThreadForgetsNone
<1>3. CASE Release(t)
  <2>1. /\ pc'[t] = "idle" /\ UNCHANGED <<open, several>>
        /\ \A u \in Threads : u # t => handle'[u] = handle[u] /\ pc'[u] = pc[u]
    BY <1>3, <1>t DEF Release, Becomes, PoolInv, PoolTypeOK
  <2>2. \A n \in Names : pools'[n].db = pools[n].db
    BY <1>3 DEF Release
  <2>3. handle[t] \in open => handle[t] \in several \/ \E n \in Names : pools[n].db = handle[t]
    BY <1>3 DEF Release, KeptInv, HolderKept
  <2>4. QED
    BY <1>t, <2>1, <2>2, <2>3, ThreadForgetsNone
<1>4. CASE Forget(t)
  <2>1. /\ pc[t] = "using" /\ UNCHANGED <<open, several, pools, handle>>
        /\ \A u \in Threads : u # t => pc'[u] = pc[u]
    BY <1>4, <1>t DEF Forget, PoolInv, PoolTypeOK
  <2>2. QED
    BY <1>t, <2>1, ThreadForgetsNone
<1>5. QED
  BY <1>1, <1>2, <1>3, <1>4

\* What is opened is in the hands of whoever opened it.
LEMMA OpeningKeeps ==
  ASSUME PoolInv, KeptInv, NEW h \in Handles \ (open \cup Referred),
         open' = open \cup {h}, several' \in {several \cup {h}, several \ {h}},
         pools' = pools, \E t \in Threads : handle'[t] = h,
         \A t \in Threads : handle[t] \in Handles => handle'[t] = handle[t],
         \A t \in Users : pc'[t] \in {"using", "gone"} =>
            pc[t] \in {"using", "gone"} /\ handle'[t] = handle[t]
  PROVE  KeptInv'
<1>1. \A t \in Threads : handle[t] # h
  BY DEF Referred
<1>2. \A t \in Users : pc'[t] \in {"using", "gone"} => handle'[t] # h
  BY <1>1 DEF Threads
<1>3. HolderKept'
  BY <1>2 DEF KeptInv, HolderKept
<1>4. ASSUME NEW g \in open', g \notin several'
      PROVE  g \in Referred'
  <2>1. CASE g = h
    BY <2>1 DEF Referred
  <2>2. CASE g # h
    <3>1. g \in open /\ g \in Referred
      BY <1>4, <2>2 DEF KeptInv, OpenHandlesAreKept
    <3>2. g \in Handles
      BY <3>1 DEF PoolInv, PoolTypeOK
    <3>3. QED
      BY <3>1, <3>2 DEF Referred
  <2>3. QED
    BY <2>1, <2>2
<1>5. OpenHandlesAreKept'
  BY <1>4 DEF OpenHandlesAreKept
<1>6. QED
  BY <1>3, <1>5 DEF KeptInv

\* A flight ends, or its callers take their places in the map.
LEMMA FlightForgetsNone ==
  ASSUME PoolInv, KeptInv, NEW t \in Requests,
         Join(t) \/ Opened(t) \/ OpenFails(t) \/ AlreadyStored(t) \/ Store(t)
  PROVE  KeptInv'
<1>t. t \in Threads /\ t \in Users
  BY DEF Threads, Users
<1>1. CASE Join(t)
  <2>1. /\ pc'[t] \in {"opening", "waiting"} /\ UNCHANGED <<open, several, pools, handle>>
        /\ \A u \in Threads : u # t => pc'[u] = pc[u]
    BY <1>1, <1>t DEF Join, PoolInv, PoolTypeOK
  <2>2. QED
    BY <1>t, <2>1, ThreadForgetsNone
<1>2. CASE Opened(t)
  <2> DEFINE callers == {t} \cup Waiting(name[t])
  <2>h. PICK h \in Handles \ (open \cup Referred) :
         /\ open' = open \cup {h}
         /\ handle' = [u \in Threads |-> IF u \in callers THEN h ELSE handle[u]]
         /\ pc' = [u \in Threads |-> IF u \in callers THEN "opened" ELSE pc[u]]
         /\ several' = IF callers # {t} THEN several \cup {h} ELSE several \ {h}
    BY <1>2 DEF Opened
  <2>1. \A u \in callers : handle[u] = None
    BY <1>2, <1>t DEF Waiting, PoolInv, WayInv, Opened, Users, Threads
  <2>2. t \in callers
    OBVIOUS
  <2> HIDE DEF callers
  <2>3. pools' = pools
    BY <1>2 DEF Opened
  <2>4. \A u \in Threads : handle[u] \in Handles => handle'[u] = handle[u]
    BY <2>h, <2>1, PoolAssumption
  <2>5. \A u \in Users : pc'[u] \in {"using", "gone"} =>
          pc[u] \in {"using", "gone"} /\ handle'[u] = handle[u]
    BY <2>h DEF Threads
  <2>6. handle'[t] = h
    BY <2>h, <2>2, <1>t
  <2>7. QED
    BY <2>h, <2>3, <2>4, <2>5, <2>6, <1>t, OpeningKeeps
<1>3. CASE OpenFails(t)
  <2>1. /\ UNCHANGED <<open, several, pools, handle>>
        /\ \A u \in Users : pc'[u] \in {"using", "gone"} => pc[u] = pc'[u]
    BY <1>3 DEF OpenFails, Threads
  <2>2. QED
    BY <2>1 DEF KeptInv, HolderKept, OpenHandlesAreKept, Referred
<1>4. CASE AlreadyStored(t)
  <2>n. PICK n \in Names : n = name[t] /\ pc'[t] = "using" /\ handle'[t] = pools[n].db
    BY <1>4, <1>t DEF AlreadyStored, Becomes, Pooled, PoolInv, PoolTypeOK
  <2>1. /\ \A m \in Names : pools'[m].db = pools[m].db
        /\ \A u \in Threads : u # t => handle'[u] = handle[u] /\ pc'[u] = pc[u]
    BY <1>4, <1>t DEF AlreadyStored, Becomes, PoolInv, PoolTypeOK
  <2>2. open' = open \ CloseOwn(t) /\ several' = several
    BY <1>4 DEF AlreadyStored
  <2>3. handle[t] \notin open' \/ handle[t] \in several
    BY <1>4, <1>t, <2>2 DEF AlreadyStored, CloseOwn, PoolInv, OpenedInv
  <2>4. QED
    BY <1>t, <2>n, <2>1, <2>2, <2>3, ThreadForgetsNone
<1>5. CASE Store(t)
  <2>n. PICK n \in Names : n = name[t]
    BY <1>5, <1>t DEF Store, PoolInv, OpenedInv
  <2>v. PICK victims \in SUBSET LruVictims :
          /\ open' = open \ {pools[m].db : m \in victims}
          /\ pools' = [m \in Names |-> IF m = n THEN NewEntry(handle[t])
                                       ELSE IF m \in victims THEN NoEntry ELSE pools[m]]
    BY <1>5, <2>n DEF Store
  <2>1. pools[n].db = None /\ None \notin open
    BY <1>5, <2>n, PoolAssumption, PooledDb DEF Store, PoolInv, PoolTypeOK
  <2>2. \A m \in Names : pools[m].db \in open' => pools'[m].db = pools[m].db
    BY <2>v, <2>1
  <2>3. pc'[t] = "using" /\ pools'[n].db = handle'[t]
    BY <1>5, <1>t, <2>n, <2>v DEF Store, NewEntry, PoolInv, PoolTypeOK
  <2>4. /\ handle' = handle /\ several' = several
        /\ \A u \in Threads : u # t => pc'[u] = pc[u]
    BY <1>5, <1>t DEF Store, PoolInv, PoolTypeOK
  <2>5. QED
    BY <1>t, <2>v, <2>2, <2>3, <2>4, ThreadForgetsNone
<1>6. QED
  BY <1>1, <1>2, <1>3, <1>4, <1>5

\* A background job opens and closes its own connection.
LEMMA JobForgetsNone ==
  ASSUME PoolInv, KeptInv, NEW t \in Background,
         OpenPrivate(t) \/ PrivateFails(t) \/ ClosePrivate(t)
  PROVE  KeptInv'
<1>t. t \in Threads /\ t \in Users
  BY DEF Threads, Users
<1>1. CASE OpenPrivate(t)
  <2>h. PICK h \in Handles \ (open \cup Referred) :
          /\ open' = open \cup {h} /\ several' = several \ {h}
          /\ Becomes(t, "private", name[t], h)
    BY <1>1 DEF OpenPrivate
  <2>1. handle[t] = None /\ pools' = pools
    BY <1>1, <1>t DEF OpenPrivate, PoolInv, WayInv
  <2>2. /\ handle'[t] = h /\ pc'[t] = "private"
        /\ \A u \in Threads : u # t => handle'[u] = handle[u] /\ pc'[u] = pc[u]
    BY <2>h, <1>t DEF Becomes, PoolInv, PoolTypeOK
  <2>3. \A u \in Threads : handle[u] \in Handles => handle'[u] = handle[u]
    BY <2>1, <2>2, PoolAssumption
  <2>4. \A u \in Users : pc'[u] \in {"using", "gone"} =>
          pc[u] \in {"using", "gone"} /\ handle'[u] = handle[u]
    BY <2>2 DEF Threads
  <2>5. QED
    BY <2>h, <2>1, <2>2, <2>3, <2>4, <1>t, OpeningKeeps
<1>2. CASE PrivateFails(t)
  <2>1. /\ pc'[t] = "idle" /\ UNCHANGED <<open, several, pools>>
        /\ \A u \in Threads : u # t => handle'[u] = handle[u] /\ pc'[u] = pc[u]
    BY <1>2, <1>t DEF PrivateFails, Becomes, PoolInv, PoolTypeOK
  <2>2. handle[t] \notin open
    BY <1>2, <1>t, PoolAssumption DEF PrivateFails, PoolInv, PoolTypeOK, WayInv
  <2>3. QED
    BY <1>t, <2>1, <2>2, ThreadForgetsNone
<1>3. CASE ClosePrivate(t)
  <2>1. /\ pc'[t] = "idle" /\ UNCHANGED <<several, pools>> /\ open' = open \ {handle[t]}
        /\ \A u \in Threads : u # t => handle'[u] = handle[u] /\ pc'[u] = pc[u]
    BY <1>3, <1>t DEF ClosePrivate, Becomes, PoolInv, PoolTypeOK
  <2>2. QED
    BY <1>t, <2>1, ThreadForgetsNone
<1>4. QED
  BY <1>1, <1>2, <1>3

\* A Remove has no handle, and closes what it takes from the map.
LEMMA RemoveForgetsNone ==
  ASSUME PoolInv, KeptInv, NEW r \in Removers,
         BeginRemove(r) \/ RemovePoll(r) \/ RemoveForced(r)
  PROVE  KeptInv'
<1>1. r \in Threads /\ r \notin Users
  BY PoolAssumption DEF Threads
<1>2. handle' = handle /\ \A u \in Users : pc'[u] = pc[u]
  <2>1. pc[r] \in {"idle", "removing"} /\ \E label, n : Becomes(r, label, n, None)
    BY DEF BeginRemove, RemovePoll, RemoveForced
  <2>2. handle[r] = None
    BY <1>1, <2>1 DEF PoolInv, WayInv
  <2>3. QED
    BY <1>1, <2>1, <2>2 DEF Becomes, PoolInv, PoolTypeOK
<1>3. CASE BeginRemove(r)
  BY <1>2, <1>3 DEF BeginRemove, KeptInv, HolderKept, OpenHandlesAreKept, Referred
<1>4. CASE RemovePoll(r) \/ RemoveForced(r)
  <2>1. {name[r]} \cap Pooled \in SUBSET Names /\ several' = several
        /\ Drop({name[r]} \cap Pooled)
    BY <1>4 DEF RemovePoll, RemoveForced, Pooled
  <2>2. QED
    BY <1>2, <2>1, DropForgetsNone
<1>5. QED
  BY <1>3, <1>4

\* For any tenants, requests, jobs and limit: no connection stays open that
\* nothing can close.  Every handle that leaves the map is closed, and a caller
\* that lets its own go has closed it, or it is in the map, or came from a
\* flight of several callers (tenant_manager.go, tenant_release.go).
THEOREM OpenHandlesKept == PoolSpec => []OpenHandlesAreKept
<1>1. PoolInit => KeptInv
  BY DEF PoolInit, KeptInv, HolderKept, OpenHandlesAreKept
<1>2. ASSUME PoolInv, KeptInv, [PoolNext]_poolVars
      PROVE  KeptInv'
  <2>1. CASE UNCHANGED poolVars
    BY <2>1, <1>2 DEF KeptInv, HolderKept, OpenHandlesAreKept, Referred, poolVars
  <2>2. ASSUME NEW S \in SUBSET Names, EvictIdle(S)
        PROVE  KeptInv'
    BY <1>2, <2>2, DropForgetsNone DEF EvictIdle, threadVars
  <2>3. QED
    BY <1>2, <2>1, <2>2, UserForgetsNone, FlightForgetsNone, JobForgetsNone,
       RemoveForgetsNone DEF PoolNext
<1>3. KeptInv => OpenHandlesAreKept
  BY DEF KeptInv
<1>4. QED
  BY <1>1, <1>2, <1>3, PoolInvariant, PTL DEF PoolSpec

-----------------------------------------------------------------------------
\* The pools are finitely many.
LEMMA PooledFinite == IsFiniteSet(Pooled) /\ Cardinality(Pooled) \in Nat
<1>1. Pooled \subseteq Names
  BY DEF Pooled
<1>2. QED
  BY <1>1, PoolFinite, FS_Subset, FS_CardinalityType

\* Whoever takes pools away, or only looks, leaves no more than there were.
LEMMA FewerPools ==
  ASSUME IsFiniteSet(Pooled), Pooled' \subseteq Pooled
  PROVE  ~ Cardinality(Pooled') > Cardinality(Pooled)
<1>1. /\ Cardinality(Pooled') <= Cardinality(Pooled)
      /\ Cardinality(Pooled') \in Nat /\ Cardinality(Pooled) \in Nat
  BY FS_Subset, FS_CardinalityType
<1>2. QED
  BY <1>1

\* Storing a database at the limit replaces an unused pool, if there is one.
LEMMA StoreReplaces ==
  ASSUME PoolInv, NEW t \in Requests, Store(t), MaxPools > 0, Unused # {}
  PROVE  \/ Cardinality(Pooled') <= MaxPools
         \/ ~ Cardinality(Pooled') > Cardinality(Pooled)
<1>n. PICK n \in Names : n = name[t]
  BY DEF PoolInv, OpenedInv, Store, Users
<1>v. PICK victims \in SUBSET LruVictims :
        /\ Cardinality(victims) = IF LruVictims = {} THEN 0 ELSE 1
        /\ pools' = [m \in Names |-> IF m = n THEN NewEntry(handle[t])
                                     ELSE IF m \in victims THEN NoEntry ELSE pools[m]]
  BY <1>n DEF Store
<1>1. Pooled' = (Pooled \ victims) \cup {n} /\ n \notin Pooled \ victims
  BY <1>n, <1>v DEF Pooled, NewEntry, NoEntry, LruVictims, Unused, Store
<1>2. victims \subseteq Pooled
  BY DEF LruVictims, Unused
<1>3. IsFiniteSet(Pooled \ victims) /\ IsFiniteSet(victims)
  BY <1>2, PooledFinite, FS_Subset
<1>4. Cardinality(Pooled') = Cardinality(Pooled \ victims) + 1
  BY <1>1, <1>3, FS_AddElement
<1>5. Cardinality(Pooled \ victims) = Cardinality(Pooled) - Cardinality(victims)
  <2>1. Cardinality(Pooled \ victims) = Cardinality(Pooled) - Cardinality(Pooled \cap victims)
    BY PooledFinite, FS_Difference
  <2>2. Pooled \cap victims = victims
    BY <1>2
  <2>3. QED
    BY <2>1, <2>2
<1>6. CASE LruVictims = {}
  <2>1. victims = {} /\ Cardinality(Pooled) < MaxPools
    BY <1>6, PooledFinite, PoolAssumption DEF LruVictims
  <2>2. Pooled \ victims = Pooled
    BY <2>1
  <2>3. QED
    BY <1>4, <2>1, <2>2, PooledFinite, PoolAssumption
<1>7. CASE LruVictims # {}
  <2>1. Cardinality(victims) = 1 /\ Pooled \cap victims = victims
    BY <1>7, <1>v, <1>2
  <2>2. QED
    BY <1>4, <1>5, <2>1, PooledFinite
<1>8. QED
  BY <1>6, <1>7

\* Only storing a database adds a pool.
LEMMA OnlyStoreAdds ==
  ASSUME PoolInv, [PoolNext]_poolVars, \A t \in Requests : ~ Store(t)
  PROVE  Pooled' \subseteq Pooled
<1>1. CASE UNCHANGED poolVars
  BY <1>1 DEF Pooled, poolVars
<1>2. ASSUME NEW t \in Users, Hit(t) \/ Miss(t) \/ Release(t) \/ Forget(t)
      PROVE  Pooled' \subseteq Pooled
  BY <1>2 DEF Pooled, Hit, Miss, Release, Forget, PoolInv, PoolTypeOK
<1>3. ASSUME NEW t \in Requests, Join(t) \/ Opened(t) \/ OpenFails(t) \/ AlreadyStored(t)
      PROVE  Pooled' \subseteq Pooled
  BY <1>3 DEF Pooled, Join, Opened, OpenFails, AlreadyStored, PoolInv, PoolTypeOK
<1>4. ASSUME NEW t \in Background, OpenPrivate(t) \/ PrivateFails(t) \/ ClosePrivate(t)
      PROVE  Pooled' \subseteq Pooled
  BY <1>4 DEF Pooled, OpenPrivate, PrivateFails, ClosePrivate
<1>5. ASSUME NEW S \in SUBSET Names, EvictIdle(S)
      PROVE  Pooled' \subseteq Pooled
  BY <1>5 DEF Pooled, EvictIdle, Drop
<1>6. ASSUME NEW r \in Removers, BeginRemove(r) \/ RemovePoll(r) \/ RemoveForced(r)
      PROVE  Pooled' \subseteq Pooled
  BY <1>6 DEF Pooled, BeginRemove, RemovePoll, RemoveForced, Drop
<1>7. QED
  BY <1>1, <1>2, <1>3, <1>4, <1>5, <1>6 DEF PoolNext

\* For any tenants, requests, jobs and limit: the map grows beyond the limit
\* only at a moment when every pool is in use (evictLRULocked).
THEOREM LimitYieldsToUse == PoolSpec => LimitExceededWhenBusy
<1>1. ASSUME PoolInv, [PoolNext]_poolVars
      PROVE  [Cardinality(Pooled') > Cardinality(Pooled) /\ MaxPools > 0
                => Cardinality(Pooled') <= MaxPools \/ Unused = {}]_poolVars
  <2>1. CASE \A t \in Requests : ~ Store(t)
    BY <1>1, <2>1, OnlyStoreAdds, FewerPools, PooledFinite
  <2>2. CASE \E t \in Requests : Store(t)
    BY <1>1, <2>2, StoreReplaces
  <2>3. QED
    BY <2>1, <2>2
<1>2. QED
  BY <1>1, PoolInvariant, PTL DEF PoolSpec, LimitExceededWhenBusy
=============================================================================
