------------------------------ MODULE JobLock ------------------------------
(***************************************************************************)
(* The non-overlap guard of the Celery jobs: the Redis lock of             *)
(* scheduler/locks.py taken by every scheduled task, and the loop of       *)
(* scheduler/runner.py that the lock protects, which gives every active    *)
(* tenant a session of its own.                                            *)
(*                                                                         *)
(* A member of Runs is one execution of one task: it draws its lock token  *)
(* when it starts (uuid4), so the run itself stands for its token.  Time   *)
(* is the time the lock has left; a Tick is a unit of it.                  *)
(***************************************************************************)
EXTENDS Naturals, FiniteSets

CONSTANTS
    Runs,       \* executions of one task, each with a token of its own
    Tenants,    \* the tenants the platform knows
    TTL,        \* the lock's time to live, lock_ttl_for(cadence), in ticks
    Nobody      \* no run

ASSUME TTLAssumption == TTL \in Nat \ {0}
ASSUME NobodyAssumption == Nobody \notin Runs

VARIABLES
    owner,      \* the token stored under the task's key, or Nobody
    ttl,        \* how long Redis keeps the key
    age,        \* ticks since a run took the lock, counted up to TTL
    pc,         \* where each run is
    listed,     \* the tenants a run read as active
    failed,     \* TenantRunReport.failed: tenants whose work raised
    done,       \* TenantRunReport.results: tenants whose work returned
    active      \* tenants in status ACTIVE

vars == <<owner, ttl, age, pc, listed, failed, done, active>>

PCs == {"idle", "listing", "working", "releasing", "skipped", "ended", "dead"}

(* Between the SET that answered OK and the release: the body of task_lock. *)
Inside == {"listing", "working", "releasing"}

TypeOK ==
    /\ owner \in Runs \cup {Nobody}
    /\ ttl \in 0 .. TTL
    /\ age \in [Runs -> 0 .. TTL]
    /\ pc \in [Runs -> PCs]
    /\ listed \in [Runs -> SUBSET Tenants]
    /\ failed \in [Runs -> SUBSET Tenants]
    /\ done \in [Runs -> SUBSET Tenants]
    /\ active \in SUBSET Tenants

Init ==
    /\ owner = Nobody
    /\ ttl = 0
    /\ age = [r \in Runs |-> 0]
    /\ pc = [r \in Runs |-> "idle"]
    /\ listed = [r \in Runs |-> {}]
    /\ failed = [r \in Runs |-> {}]
    /\ done = [r \in Runs |-> {}]
    /\ active = Tenants

(* Faulty variants of the definition that follows each of them; only the   *)
(* mutation runs use them.                                                 *)
BugAcquireOverwrites(r) ==      \* SET without NX
    /\ pc[r] = "idle"
    /\ owner' = r
    /\ ttl' = TTL
    /\ pc' = [pc EXCEPT ![r] = "listing"]
    /\ UNCHANGED <<age, listed, failed, done, active>>

BugNoExpiry(r) ==             \* SET without PX
    /\ pc[r] = "idle"
    /\ owner = Nobody
    /\ owner' = r
    /\ ttl' = 0
    /\ pc' = [pc EXCEPT ![r] = "listing"]
    /\ UNCHANGED <<age, listed, failed, done, active>>

(* SET key token NX PX ttl answered OK. *)
Acquire(r) ==
    /\ pc[r] = "idle"
    /\ owner = Nobody
    /\ owner' = r
    /\ ttl' = TTL
    /\ pc' = [pc EXCEPT ![r] = "listing"]
    /\ UNCHANGED <<age, listed, failed, done, active>>

(* The key existed: the run reports skipped_locked and never works. *)
Skip(r) ==
    /\ pc[r] = "idle"
    /\ owner # Nobody
    /\ pc' = [pc EXCEPT ![r] = "skipped"]
    /\ UNCHANGED <<owner, ttl, age, listed, failed, done, active>>

(* list_active_tenants: one read, the list is not refreshed afterwards. *)
ListActiveTenants(r) ==
    /\ pc[r] = "listing"
    /\ listed' = [listed EXCEPT ![r] = active]
    /\ pc' = [pc EXCEPT ![r] = "working"]
    /\ UNCHANGED <<owner, ttl, age, failed, done, active>>

(* The tenants the loop of run_for_every_tenant has not reached. *)
Todo(r) == listed[r] \ (done[r] \cup failed[r])

(* run_in_marked_session, the work returned. *)
TenantDone(r, t) ==
    /\ pc[r] = "working"
    /\ t \in Todo(r)
    /\ done' = [done EXCEPT ![r] = @ \cup {t}]
    /\ UNCHANGED <<owner, ttl, age, pc, listed, failed, active>>

BugFailureEndsLoop(r, t) ==     \* the exception leaves the loop
    /\ pc[r] = "working"
    /\ t \in Todo(r)
    /\ failed' = [failed EXCEPT ![r] = @ \cup {t}]
    /\ pc' = [pc EXCEPT ![r] = "releasing"]
    /\ UNCHANGED <<owner, ttl, age, listed, done, active>>

(* run_in_marked_session, the work raised: rolled back, counted, next one. *)
TenantFailed(r, t) ==
    /\ pc[r] = "working"
    /\ t \in Todo(r)
    /\ failed' = [failed EXCEPT ![r] = @ \cup {t}]
    /\ UNCHANGED <<owner, ttl, age, pc, listed, done, active>>

(* The loop is over; the finally of task_lock is next. *)
LoopEnds(r) ==
    /\ pc[r] = "working"
    /\ Todo(r) = {}
    /\ pc' = [pc EXCEPT ![r] = "releasing"]
    /\ UNCHANGED <<owner, ttl, age, listed, failed, done, active>>

(* list_active_tenants raised: nothing was worked, the finally still runs. *)
ListFails(r) ==
    /\ pc[r] = "listing"
    /\ pc' = [pc EXCEPT ![r] = "releasing"]
    /\ UNCHANGED <<owner, ttl, age, listed, failed, done, active>>

(* The _RELEASE script: delete the key only while it still holds our token. *)
Release(r) ==
    /\ pc[r] = "releasing"
    /\ pc' = [pc EXCEPT ![r] = "ended"]
    /\ IF owner = r
         THEN owner' = Nobody /\ ttl' = 0
         ELSE UNCHANGED <<owner, ttl>>
    /\ UNCHANGED <<age, listed, failed, done, active>>

(* Redis did not answer the release: logged and swallowed, the TTL is left. *)
ReleaseLost(r) ==
    /\ pc[r] = "releasing"
    /\ pc' = [pc EXCEPT ![r] = "ended"]
    /\ UNCHANGED <<owner, ttl, age, listed, failed, done, active>>

(* The worker process dies inside the lock. *)
WorkerDies(r) ==
    /\ pc[r] \in Inside
    /\ pc' = [pc EXCEPT ![r] = "dead"]
    /\ UNCHANGED <<owner, ttl, age, listed, failed, done, active>>

(* Time passes; Redis drops the key when its time is over.  A key without  *)
(* a time (ttl = 0) would stay.                                            *)
Tick ==
    /\ \/ owner # Nobody
       \/ \E r \in Runs : pc[r] \in Inside /\ age[r] < TTL
    /\ ttl' = IF ttl = 0 THEN 0 ELSE ttl - 1
    /\ owner' = IF ttl = 1 THEN Nobody ELSE owner
    /\ age' = [r \in Runs |-> IF pc[r] \in Inside /\ age[r] < TTL
                                THEN age[r] + 1 ELSE age[r]]
    /\ UNCHANGED <<pc, listed, failed, done, active>>

(* A tenant is suspended or reactivated while runs go on. *)
TenantStatusChanges(t) ==
    /\ active' = IF t \in active THEN active \ {t} ELSE active \cup {t}
    /\ UNCHANGED <<owner, ttl, age, pc, listed, failed, done>>

Step(r) ==
    \/ Acquire(r) \/ Skip(r) \/ ListActiveTenants(r) \/ ListFails(r)
    \/ \E t \in Tenants : TenantDone(r, t) \/ TenantFailed(r, t)
    \/ LoopEnds(r) \/ Release(r) \/ ReleaseLost(r)

Next ==
    \/ \E r \in Runs : Step(r) \/ WorkerDies(r)
    \/ \E t \in Tenants : TenantStatusChanges(t)
    \/ Tick

Spec == Init /\ [][Next]_vars

(* Time passes and a worker that is alive goes on with its run.            *)
FairSpec == Spec /\ WF_vars(Tick) /\ \A r \in Runs : WF_vars(Step(r))

-----------------------------------------------------------------------------
(* A run that has not outlived its lock still holds it, with exactly the   *)
(* time it has left: nobody else's release or acquire has touched the key. *)
HoldsWhileYoung ==
    \A r \in Runs : pc[r] \in Inside /\ age[r] < TTL
                        => owner = r /\ ttl = TTL - age[r]

(* Two executions of a task are inside it together only if one of them has *)
(* outlived its TTL (three cadences): the overlap the lock allows.         *)
NoOverlapWithinTTL ==
    \A r1, r2 \in Runs :
        r1 # r2 /\ pc[r1] \in Inside /\ pc[r2] \in Inside
            => age[r1] = TTL \/ age[r2] = TTL

(* A run that ended worked every tenant it listed, exactly once: one       *)
(* tenant's failure neither stops the others nor is counted as a result.   *)
EveryTenantAccounted ==
    \A r \in Runs :
        /\ done[r] \cap failed[r] = {}
        /\ pc[r] = "ended" => listed[r] = done[r] \cup failed[r]

(* No step takes the lock away from a run that is inside the task and has  *)
(* time left, except the run's own release or its worker's death.          *)
NobodyElseReleases ==
    [][\A r \in Runs :
         pc[r] \in Inside /\ pc'[r] \in Inside /\ owner = r /\ ttl > 1
            => owner' = r]_vars

(* A held lock is eventually free again, also when the worker died holding *)
(* it or the release was lost: a dead worker does not block the task.      *)
LockIsFreedAgain == \A r \in Runs : owner = r ~> owner # r
=============================================================================
