-------------------------- MODULE FiscalLockProofs --------------------------
(***************************************************************************)
(* Proofs about FiscalLock, for any set of operations and any assignment   *)
(* of sources.                                                             *)
(***************************************************************************)
EXTENDS FiscalLock, TLAPS

\* LockInv is inductive: every step of the protocol preserves it.
LEMMA LockInvInductive == LockInv /\ [LockNext]_lockVars => LockInv'
<1> SUFFICES ASSUME LockInv, [LockNext]_lockVars PROVE LockInv'
  OBVIOUS
<1> USE SourceAssumption, NoneAssumption DEF LockInv, LockTypeOK, Phases, Inside
<1>1. ASSUME NEW o \in Ops, Acquire(o) PROVE LockInv'
  BY <1>1 DEF Acquire
<1>2. ASSUME NEW o \in Ops, Refuse(o) PROVE LockInv'
  BY <1>2 DEF Refuse
<1>3. ASSUME NEW o \in Ops, Release(o) PROVE LockInv'
  BY <1>3 DEF Release, DelIfOwner, RobbedBy
<1>4. ASSUME NEW o \in Ops, NestedRefusal(o) PROVE LockInv'
  BY <1>4 DEF NestedRefusal, DelIfOwner, RobbedBy
<1>5. ASSUME NEW o \in Ops, NestedAcquire(o) PROVE LockInv'
  BY <1>5 DEF NestedAcquire
<1>6. ASSUME NEW o \in Ops, NestedRelease(o) PROVE LockInv'
  BY <1>6 DEF NestedRelease, DelIfOwner, RobbedBy
<1>7. ASSUME NEW S \in SUBSET Ops, Abandon(S) PROVE LockInv'
  BY <1>7 DEF Abandon
<1>8. CASE Expire
  BY <1>8 DEF Expire
<1>9. CASE UNCHANGED lockVars
  BY <1>9 DEF lockVars
<1> QED
  BY <1>1, <1>2, <1>3, <1>4, <1>5, <1>6, <1>7, <1>8, <1>9 DEF LockNext

\* The inductive invariant holds of every behaviour.
THEOREM LockInvariant == LockSpec => []LockInv
<1>1. LockInit => LockInv
  BY NoneAssumption DEF LockInit, LockInv, LockTypeOK, Phases, Inside
<1> QED
  BY <1>1, LockInvInductive, PTL DEF LockSpec

\* Type correctness of the lock and its history variables.
THEOREM LockTypeCorrect == LockSpec => []LockTypeOK
<1>1. LockInv => LockTypeOK
  BY DEF LockInv
<1> QED
  BY <1>1, LockInvariant, PTL

\* Of the operations inside PrepareFiscalOperation's critical section, at most
\* one still owns the Redis key, whatever expires, crashes or shares sources.
THEOREM OneOwner == LockSpec => []OneOwnerInside
<1>1. LockInv => OneOwnerInside
  BY DEF LockInv, OneOwnerInside
<1> QED
  BY <1>1, LockInvariant, PTL

\* With distinct sources and no operation outliving the TTL, no operation
\* ever loses its key ...
LEMMA NobodyRobbed ==
  ASSUME DistinctSources, ~MayExpire, LockInv, robbed = {}, [LockNext]_lockVars
  PROVE  robbed' = {}
<1> USE SourceAssumption, NoneAssumption DEF LockInv, LockTypeOK, Phases, Inside
<1>1. ASSUME NEW o \in Ops, RobbedBy(o) \ {o} = robbed' PROVE robbed' = {}
  BY <1>1 DEF RobbedBy, DistinctSources
<1>2. ASSUME NEW o \in Ops,
             Acquire(o) \/ Refuse(o) \/ Release(o) \/ NestedRefusal(o)
               \/ NestedAcquire(o) \/ NestedRelease(o)
      PROVE  robbed' = {}
  BY <1>1, <1>2 DEF Acquire, Refuse, Release, NestedRefusal, NestedAcquire, NestedRelease
<1>3. ASSUME NEW S \in SUBSET Ops, Abandon(S) PROVE robbed' = {}
  BY <1>3 DEF Abandon
<1>4. CASE Expire
  BY <1>4 DEF Expire
<1>5. CASE UNCHANGED lockVars
  BY <1>5 DEF lockVars
<1> QED
  BY <1>2, <1>3, <1>4, <1>5 DEF LockNext

\* ... so the critical section is exclusive.
THEOREM Exclusion == LockSpec => []MutualExclusion
<1> DEFINE Safe == DistinctSources /\ ~MayExpire => robbed = {}
<1>1. LockInit => Safe
  BY DEF LockInit
<1>2. LockInv /\ Safe /\ [LockNext]_lockVars => Safe'
  BY NobodyRobbed DEF DistinctSources
<1>3. LockInv /\ Safe => MutualExclusion
  BY DEF LockInv, MutualExclusion
<1> HIDE DEF Safe
<1> QED
  BY <1>1, <1>2, <1>3, LockInvariant, PTL DEF LockSpec
=============================================================================
