----------------------------- MODULE TenantOwners -----------------------------
(***************************************************************************)
(* The administration of a tenant's users.  A request that changes a role  *)
(* or a status first takes the lock of the tenant's row, then reads the    *)
(* user and counts the other active owners, and only then writes: with     *)
(* nobody left who could appoint one, a tenant without an active owner     *)
(* would stay without.                                                     *)
(*                                                                         *)
(* Requests that name neither column write neither (apply_changes writes   *)
(* the columns it is given), so they are left out; INACTIVE is merged with *)
(* SUSPENDED, which the rules never tell apart.                            *)
(***************************************************************************)
EXTENDS Naturals, FiniteSets

CONSTANTS
    Users,
    Admins,     \* the administrative requests that may be going on at once
    Founder     \* the owner the tenant is created with

ASSUME OwnersAssumption == Founder \in Users

VARIABLES
    role,       \* the committed rows of users
    status,
    tenantLock, \* the requests that hold the tenant's row
    apc,        \* where each request is
    asked       \* what it wants: the target, and the role and status it names

ownersVars == <<role, status, tenantLock, apc, asked>>

Roles == {"TENANT_OWNER", "OTHER"}
UserStatuses == {"ABSENT", "ACTIVE", "SUSPENDED"}
AsBefore == "KEPT"
Requests ==
    [target : Users, role : Roles \cup {AsBefore}, status : {"ACTIVE", "SUSPENDED", AsBefore}]

IsOwner(r, s) == r = "TENANT_OWNER" /\ s = "ACTIVE"
ActiveOwners == {u \in Users : IsOwner(role[u], status[u])}

OwnersTypeOK ==
    /\ role \in [Users -> Roles]
    /\ status \in [Users -> UserStatuses]
    /\ tenantLock \subseteq Admins
    /\ apc \in [Admins -> {"idle", "waiting", "locked", "counted"}]
    /\ asked \in [Admins -> SUBSET Requests]
    /\ \A a \in Admins :
         /\ a \in tenantLock <=> apc[a] \in {"locked", "counted"}
         /\ Cardinality(asked[a]) = IF apc[a] = "idle" THEN 0 ELSE 1
         /\ \A q \in asked[a] : status[q.target] # "ABSENT"

OwnersInit ==
    /\ role = [u \in Users |-> IF u = Founder THEN "TENANT_OWNER" ELSE "OTHER"]
    /\ status = [u \in Users |-> IF u = Founder THEN "ACTIVE" ELSE "ABSENT"]
    /\ tenantLock = {}
    /\ apc = [a \in Admins |-> "idle"]
    /\ asked = [a \in Admins |-> {}]
-----------------------------------------------------------------------------
(* CreateUserUseCase: no lock, for nobody loses anything. *)
CreateUser(u, r) ==
    /\ ActiveOwners # {}
    /\ status[u] = "ABSENT"
    /\ role' = [role EXCEPT ![u] = r]
    /\ status' = [status EXCEPT ![u] = "ACTIVE"]
    /\ UNCHANGED <<tenantLock, apc, asked>>

(* An active owner sends the request.  It may change what it likes, but    *)
(* neither its own role nor its own status.                                *)
Ask(a, q) ==
    /\ apc[a] = "idle"
    /\ status[q.target] # "ABSENT" /\ <<q.role, q.status>> # <<AsBefore, AsBefore>>
    /\ \E actor \in ActiveOwners : actor # q.target
    /\ asked' = [asked EXCEPT ![a] = {q}]
    /\ apc' = [apc EXCEPT ![a] = "waiting"]
    /\ UNCHANGED <<role, status, tenantLock>>

Locks(a) ==
    /\ apc[a] = "waiting"
    /\ tenantLock' = tenantLock \cup {a}
    /\ apc' = [apc EXCEPT ![a] = "locked"]
    /\ UNCHANGED <<role, status, asked>>

BugLockDoesNotWait(a) == Locks(a)

(* lock_tenant_for_admin: SELECT ... FOR UPDATE on the tenant's row. *)
LockTenant(a) == tenantLock = {} /\ Locks(a)

EndsWith(a, lock) ==
    /\ tenantLock' = lock
    /\ apc' = [apc EXCEPT ![a] = "idle"]
    /\ asked' = [asked EXCEPT ![a] = {}]

BugKeepsTheLock(a) == EndsWith(a, tenantLock)

(* The request ends, and its transaction with it. *)
EndsRequest(a) == EndsWith(a, tenantLock \ {a})

NewRole(q) == IF q.role = AsBefore THEN role[q.target] ELSE q.role
NewStatus(q) == IF q.status = AsBefore THEN status[q.target] ELSE q.status

(* assert_tenant_keeps_an_owner, on what the request would leave. *)
Refused(q) ==
    /\ q.target \in ActiveOwners
    /\ ~IsOwner(NewRole(q), NewStatus(q))
    /\ ActiveOwners \ {q.target} = {}

CountOwners(a) ==
    /\ apc[a] = "locked"
    /\ IF \E q \in asked[a] : Refused(q)
         THEN EndsRequest(a) /\ UNCHANGED <<role, status>>
         ELSE /\ apc' = [apc EXCEPT ![a] = "counted"]
              /\ UNCHANGED <<role, status, tenantLock, asked>>

(* apply_changes and the commit. *)
Apply(a, q) ==
    /\ apc[a] = "counted" /\ q \in asked[a]
    /\ role' = [role EXCEPT ![q.target] = NewRole(q)]
    /\ status' = [status EXCEPT ![q.target] = NewStatus(q)]
    /\ EndsRequest(a)

(* The request fails or its process dies: the database rolls it back. *)
RollBack(a) ==
    /\ apc[a] # "idle"
    /\ EndsRequest(a)
    /\ UNCHANGED <<role, status>>

Administer(a) ==
    \/ LockTenant(a) \/ CountOwners(a) \/ RollBack(a)
    \/ \E q \in Requests : Ask(a, q) \/ Apply(a, q)

OwnersNext ==
    \/ \E u \in Users, r \in Roles : CreateUser(u, r)
    \/ \E a \in Admins : Administer(a)

OwnersSpec == OwnersInit /\ [][OwnersNext]_ownersVars
-----------------------------------------------------------------------------
(* Whatever requests run at once, the tenant keeps an active owner: two    *)
(* owners who suspend each other do not both succeed, for the second one   *)
(* counts after the first one wrote.                                       *)
TenantKeepsAnOwner == ActiveOwners # {}
=============================================================================
