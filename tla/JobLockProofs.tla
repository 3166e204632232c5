--------------------------- MODULE JobLockProofs ---------------------------
(***************************************************************************)
(* Proofs about JobLock, for every set of runs and tenants and every TTL.  *)
(***************************************************************************)
EXTENDS JobLock, TLAPS

(* A run that has not started has not aged.                                *)
IdleIsFresh == \A r \in Runs : pc[r] = "idle" => age[r] = 0

LockInv == TypeOK /\ HoldsWhileYoung /\ IdleIsFresh

(* Nothing is worked before the listing, nothing is left after the loop,   *)
(* and only listed tenants are worked, each of them once.                  *)
LoopInv ==
    \A r \in Runs :
        /\ pc[r] \in {"idle", "listing", "skipped"}
              => listed[r] = {} /\ done[r] = {} /\ failed[r] = {}
        /\ pc[r] \in {"releasing", "ended"} => listed[r] = done[r] \cup failed[r]
        /\ done[r] \cup failed[r] \subseteq listed[r]
        /\ done[r] \cap failed[r] = {}

(* Every variable keeps its type, whatever the runs do.                    *)
THEOREM TypeCorrect == Spec => []TypeOK
<1>1. Init => TypeOK
  BY TTLAssumption DEF Init, TypeOK, PCs
<1>2. TypeOK /\ [Next]_vars => TypeOK'
  <2> SUFFICES ASSUME TypeOK, [Next]_vars PROVE TypeOK'
    OBVIOUS
  <2> USE TTLAssumption DEF TypeOK, PCs
  <2>1. ASSUME NEW r \in Runs, Step(r) PROVE TypeOK'
    <3>1. CASE Acquire(r)
      BY <3>1 DEF Acquire
    <3>2. CASE Skip(r)
      BY <3>2 DEF Skip
    <3>3. CASE ListActiveTenants(r) \/ ListFails(r)
      BY <3>3 DEF ListActiveTenants, ListFails
    <3>4. ASSUME NEW t \in Tenants, TenantDone(r, t) \/ TenantFailed(r, t)
          PROVE  TypeOK'
      BY <3>4 DEF TenantDone, TenantFailed
    <3>5. CASE LoopEnds(r)
      BY <3>5 DEF LoopEnds
    <3>6. CASE Release(r) \/ ReleaseLost(r)
      BY <3>6 DEF Release, ReleaseLost
    <3> QED
      BY <2>1, <3>1, <3>2, <3>3, <3>4, <3>5, <3>6 DEF Step
  <2>2. ASSUME NEW r \in Runs, WorkerDies(r) PROVE TypeOK'
    BY <2>2 DEF WorkerDies
  <2>3. ASSUME NEW t \in Tenants, TenantStatusChanges(t) PROVE TypeOK'
    BY <2>3 DEF TenantStatusChanges
  <2>4. CASE Tick
    BY <2>4 DEF Tick
  <2>5. CASE UNCHANGED vars
    BY <2>5 DEF vars
  <2> QED
    BY <2>1, <2>2, <2>3, <2>4, <2>5 DEF Next
<1> QED
  BY <1>1, <1>2, PTL DEF Spec

(* The lock invariant: a run inside the task that is younger than the TTL  *)
(* holds the lock with the time it has left.                               *)
LEMMA LockInvariant == Spec => []LockInv
<1>1. Init => LockInv
  BY TTLAssumption
  DEF Init, LockInv, TypeOK, PCs, HoldsWhileYoung, IdleIsFresh, Inside
<1>2. LockInv /\ TypeOK' /\ [Next]_vars => LockInv'
  <2> SUFFICES ASSUME LockInv, TypeOK', [Next]_vars
               PROVE  HoldsWhileYoung' /\ IdleIsFresh'
    BY DEF LockInv
  <2> USE TTLAssumption, NobodyAssumption
      DEF LockInv, TypeOK, PCs, HoldsWhileYoung, IdleIsFresh, Inside
  <2>1. ASSUME NEW r \in Runs, Step(r) PROVE HoldsWhileYoung' /\ IdleIsFresh'
    <3>1. CASE Acquire(r)
      BY <3>1 DEF Acquire
    <3>2. CASE Skip(r)
      BY <3>2 DEF Skip
    <3>3. CASE ListActiveTenants(r) \/ ListFails(r)
      BY <3>3 DEF ListActiveTenants, ListFails
    <3>4. ASSUME NEW t \in Tenants, TenantDone(r, t) \/ TenantFailed(r, t)
          PROVE  HoldsWhileYoung' /\ IdleIsFresh'
      BY <3>4 DEF TenantDone, TenantFailed
    <3>5. CASE LoopEnds(r)
      BY <3>5 DEF LoopEnds
    <3>6. CASE Release(r)
      BY <3>6 DEF Release
    <3>7. CASE ReleaseLost(r)
      BY <3>7 DEF ReleaseLost
    <3> QED
      BY <2>1, <3>1, <3>2, <3>3, <3>4, <3>5, <3>6, <3>7 DEF Step
  <2>2. ASSUME NEW r \in Runs, WorkerDies(r)
        PROVE  HoldsWhileYoung' /\ IdleIsFresh'
    BY <2>2 DEF WorkerDies
  <2>3. ASSUME NEW t \in Tenants, TenantStatusChanges(t)
        PROVE  HoldsWhileYoung' /\ IdleIsFresh'
    BY <2>3 DEF TenantStatusChanges
  <2>4. CASE Tick
    BY <2>4 DEF Tick
  <2>5. CASE UNCHANGED vars
    BY <2>5 DEF vars
  <2> QED
    BY <2>1, <2>2, <2>3, <2>4, <2>5 DEF Next
<1> QED
  BY <1>1, <1>2, TypeCorrect, PTL DEF Spec

(* A run inside the task that is younger than the TTL holds the lock.      *)
THEOREM YoungRunHoldsLock == Spec => []HoldsWhileYoung
<1>1. LockInv => HoldsWhileYoung
  BY DEF LockInv
<1> QED
  BY <1>1, LockInvariant, PTL

(* Two executions of one task overlap only past the TTL: the promise of    *)
(* scheduler/locks.py, for any number of workers.                          *)
THEOREM OverlapOnlyPastTTL == Spec => []NoOverlapWithinTTL
<1>1. LockInv => NoOverlapWithinTTL
  <2> SUFFICES ASSUME LockInv, NEW r1 \in Runs, NEW r2 \in Runs, r1 # r2,
                      pc[r1] \in Inside, pc[r2] \in Inside,
                      age[r1] # TTL, age[r2] # TTL
               PROVE  FALSE
    BY DEF NoOverlapWithinTTL
  <2>1. age[r1] < TTL /\ age[r2] < TTL
    BY TTLAssumption DEF LockInv, TypeOK
  <2>2. owner = r1 /\ owner = r2
    BY <2>1 DEF LockInv, HoldsWhileYoung
  <2> QED
    BY <2>2
<1> QED
  BY <1>1, LockInvariant, PTL

(* No step but its own release takes the lock from a run with time left.   *)
THEOREM LockIsNotStolen == Spec => NobodyElseReleases
<1>1. LockInv /\ [Next]_vars
        => \A r \in Runs :
             pc[r] \in Inside /\ pc'[r] \in Inside /\ owner = r /\ ttl > 1
                => owner' = r
  <2> SUFFICES ASSUME LockInv, [Next]_vars, NEW r \in Runs,
                      pc[r] \in Inside, pc'[r] \in Inside, owner = r, ttl > 1
               PROVE  owner' = r
    OBVIOUS
  <2> USE NobodyAssumption DEF LockInv, TypeOK, Inside
  <2>1. ASSUME NEW q \in Runs, Step(q) PROVE owner' = r
    BY <2>1 DEF Step, Acquire, Skip, ListActiveTenants, ListFails,
                TenantDone, TenantFailed, LoopEnds, Release, ReleaseLost
  <2>2. CASE Tick
    BY <2>2 DEF Tick
  <2>3. CASE ~Tick /\ ~(\E q \in Runs : Step(q))
    BY <2>3 DEF Next, WorkerDies, TenantStatusChanges, vars
  <2> QED
    BY <2>1, <2>2, <2>3
<1> QED
  BY <1>1, LockInvariant, PTL DEF Spec, NobodyElseReleases

(* A failing tenant never hides another: at the end of a run every tenant  *)
(* it listed was worked, and none is both a result and a failure.          *)
THEOREM RunAccountsForTenants == Spec => []EveryTenantAccounted
<1>1. Init => LoopInv
  BY DEF Init, LoopInv
<1>2. LoopInv /\ TypeOK /\ [Next]_vars => LoopInv'
  <2> SUFFICES ASSUME LoopInv, TypeOK, [Next]_vars PROVE LoopInv'
    OBVIOUS
  <2> USE DEF LoopInv, TypeOK, PCs
  <2>1. ASSUME NEW r \in Runs, Step(r) PROVE LoopInv'
    <3>1. CASE Acquire(r) \/ Skip(r)
      BY <3>1 DEF Acquire, Skip
    <3>2. CASE ListActiveTenants(r)
      BY <3>2 DEF ListActiveTenants
    <3>3. ASSUME NEW t \in Tenants, TenantDone(r, t) PROVE LoopInv'
      BY <3>3 DEF TenantDone, Todo
    <3>4. ASSUME NEW t \in Tenants, TenantFailed(r, t) PROVE LoopInv'
      BY <3>4 DEF TenantFailed, Todo
    <3>5. CASE LoopEnds(r) \/ ListFails(r)
      BY <3>5 DEF LoopEnds, ListFails, Todo
    <3>6. CASE Release(r) \/ ReleaseLost(r)
      BY <3>6 DEF Release, ReleaseLost
    <3> QED
      BY <2>1, <3>1, <3>2, <3>3, <3>4, <3>5, <3>6 DEF Step
  <2>2. ASSUME NEW r \in Runs, WorkerDies(r) PROVE LoopInv'
    BY <2>2 DEF WorkerDies, Inside
  <2>3. CASE Tick \/ (\E t \in Tenants : TenantStatusChanges(t)) \/ UNCHANGED vars
    BY <2>3 DEF Tick, TenantStatusChanges, vars
  <2> QED
    BY <2>1, <2>2, <2>3 DEF Next
<1>3. LoopInv => EveryTenantAccounted
  BY DEF LoopInv, EveryTenantAccounted
<1> QED
  BY <1>1, <1>2, <1>3, TypeCorrect, PTL DEF Spec
=============================================================================
