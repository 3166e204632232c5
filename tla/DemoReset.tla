------------------------------- MODULE DemoReset -------------------------------
(***************************************************************************)
(* The demonstration tenant and the command that resets it.  A run first   *)
(* recreates the administrators' accounts and commits; then, in one        *)
(* transaction under the lock of the tenant's row, it notes which accounts *)
(* and which objects there are, empties the tenant, restores the accounts  *)
(* and seeds the dataset again, photos included; and after the commit it   *)
(* deletes the objects of the rows it has emptied.  Meanwhile visitors     *)
(* rename and change the accounts and upload photos.                       *)
(*                                                                         *)
(* Whatever a visitor commits writes an audit row that refers to the       *)
(* tenant, so it waits for the lock too.  The store of the tenant is taken *)
(* not to change, and the login locks and the purge of the audit trail,    *)
(* which come last, are left out.                                          *)
(***************************************************************************)
EXTENDS Naturals, FiniteSets

CONSTANTS
    Administrators, \* addresses bootstrap creates: the owner's, the manager's
    FieldStaff,     \* addresses the seed creates: the cleaner's, the technician's
    Objects,        \* keys of objects in the store
    Resets,         \* runs of the command that may overlap
    Uploads,        \* uploads of visitors that may be going on at once
    DemoPhotos      \* how many photos the seed uploads

ASSUME DemoAssumption ==
    DemoPhotos \in Nat /\ Administrators \cap FieldStaff = {}

VARIABLES
    account,    \* the account at each published address
    visitors,   \* accounts of the tenant at other addresses?
    dataset,    \* the dataset of some run is there
    photographs,\* the committed rows of photos, by the key of their object
    stored,     \* the objects in the store
    reset,      \* what each run is doing
    upload,     \* what each upload is doing
    stranded    \* history: objects a failure has left behind

demoVars == <<account, visitors, dataset, photographs, stored, reset, upload, stranded>>

Addresses == Administrators \cup FieldStaff
Accounts == {a \in Addresses : account[a] # "ABSENT"}

(* A run: the staff it has resolved, the keys it has to sweep, and the     *)
(* objects it has put.                                                     *)
DemoRuns ==
    [at : {"bootstrapped", "locked", "seeding", "sweeping"},
     staff : SUBSET FieldStaff, keys : SUBSET Objects, put : SUBSET Objects]

DemoUploads == [key : Objects, parent : BOOLEAN]

DemoTypeOK ==
    /\ account \in [Addresses -> {"ABSENT", "DECLARED", "ALTERED"}]
    /\ visitors \in BOOLEAN /\ dataset \in BOOLEAN
    /\ photographs \subseteq Objects /\ stored \subseteq Objects /\ stranded \subseteq Objects
    /\ reset \in [Resets -> SUBSET DemoRuns]
    /\ upload \in [Uploads -> SUBSET DemoUploads]
    /\ \A r \in Resets : \A k, j \in reset[r] : k = j
    /\ \A u \in Uploads : \A k, j \in upload[u] : k = j

DemoInit ==
    /\ account = [a \in Addresses |-> "ABSENT"]
    /\ visitors = FALSE /\ dataset = FALSE
    /\ photographs = {} /\ stored = {} /\ stranded = {}
    /\ reset = [r \in Resets |-> {}]
    /\ upload = [u \in Uploads |-> {}]

Inside(k) == k.at \in {"locked", "seeding"}

BugNobodyLocks == TRUE

(* lock_tenant_for_admin: nobody is in the transaction of a reset. *)
TenantIsFree == \A r \in Resets : \A k \in reset[r] : ~Inside(k)

Keeping(r) == UNION {k.keys \cup k.put : k \in reset[r]}
Holding(u) == {k.key : k \in upload[u]}
InHand == UNION ({Keeping(r) : r \in Resets} \cup {Holding(u) : u \in Uploads})

(* Keys are made of fresh identifiers. *)
Fresh(k) == k \notin photographs \cup stored \cup stranded \cup InHand
-----------------------------------------------------------------------------
(* Visitors                                                                *)

(* PATCH of an address. *)
RenameAccount(a) ==
    /\ TenantIsFree /\ account[a] # "ABSENT"
    /\ account' = [account EXCEPT ![a] = "ABSENT"]
    /\ visitors' = TRUE
    /\ UNCHANGED <<dataset, photographs, stored, reset, upload, stranded>>

(* Any other change of an account, or a new one at an address left free. *)
ChangeAccount(a) ==
    /\ TenantIsFree /\ (Accounts # {} \/ visitors) /\ account[a] # "ALTERED"
    /\ account' = [account EXCEPT ![a] = "ALTERED"]
    /\ UNCHANGED <<visitors, dataset, photographs, stored, reset, upload, stranded>>

(* An upload puts its object first. *)
PutUpload(u, k) ==
    /\ dataset /\ upload[u] = {} /\ Fresh(k)
    /\ stored' = stored \cup {k}
    /\ upload' = [upload EXCEPT ![u] = {[key |-> k, parent |-> TRUE]}]
    /\ UNCHANGED <<account, visitors, dataset, photographs, reset, stranded>>

(* Then its row, while what it belongs to is still there. *)
AddPhotograph(u) ==
    /\ TenantIsFree
    /\ \E k \in upload[u] : k.parent /\ photographs' = photographs \cup {k.key}
    /\ upload' = [upload EXCEPT ![u] = {}]
    /\ UNCHANGED <<account, visitors, dataset, stored, reset, stranded>>

(* The insert or the commit fails, and the object is deleted again: unless *)
(* the store refuses, or the process is gone.                              *)
UploadRollsBack(u) ==
    /\ upload[u] # {}
    /\ \/ stored' = stored \ Holding(u) /\ UNCHANGED stranded
       \/ stranded' = stranded \cup Holding(u) /\ UNCHANGED stored
    /\ upload' = [upload EXCEPT ![u] = {}]
    /\ UNCHANGED <<account, visitors, dataset, photographs, reset>>
-----------------------------------------------------------------------------
(* The command                                                             *)

RunIs(r, k) == reset' = [reset EXCEPT ![r] = {k}]

(* bootstrap.apply_plan creates the administrators that are missing, which *)
(* waits for the lock, and commits.                                        *)
Bootstrap(r) ==
    /\ reset[r] = {}
    /\ Administrators \subseteq Accounts \/ TenantIsFree
    /\ account' = [a \in Addresses |->
           IF a \in Administrators \ Accounts THEN "DECLARED" ELSE account[a]]
    /\ RunIs(r, [at |-> "bootstrapped", staff |-> {}, keys |-> {}, put |-> {}])
    /\ UNCHANGED <<visitors, dataset, photographs, stored, upload, stranded>>

(* The scope phase: the lock, then the seed's accounts and the keys. *)
Scope(r) ==
    /\ TenantIsFree
    /\ \E k \in reset[r] :
         /\ k.at = "bootstrapped"
         /\ RunIs(r, [k EXCEPT !.at = "locked", !.staff = FieldStaff \cap Accounts,
                               !.keys = photographs])
    /\ UNCHANGED <<account, visitors, dataset, photographs, stored, upload, stranded>>

(* seed_demo.apply_plan goes on only with an owner and a manager, of which *)
(* the delete phase leaves those at the published addresses; and the       *)
(* cleaning and the incident take the staff it resolved, or it fails.      *)
StartSeed(r) ==
    /\ \E k \in reset[r] :
         /\ k.at = "locked"
         /\ Administrators \subseteq Accounts /\ k.staff \subseteq Accounts
         /\ RunIs(r, [k EXCEPT !.at = "seeding"])
    /\ UNCHANGED <<account, visitors, dataset, photographs, stored, upload, stranded>>

PutDemoPhoto(r, o) ==
    /\ \E k \in reset[r] :
         /\ k.at = "seeding" /\ Cardinality(k.put) < DemoPhotos
         /\ RunIs(r, [k EXCEPT !.put = @ \cup {o}])
    /\ Fresh(o)
    /\ stored' = stored \cup {o}
    /\ UNCHANGED <<account, visitors, dataset, photographs, upload, stranded>>

(* converge_the_demo_passwords restores the accounts that are there, and   *)
(* _seed_accounts creates the staff that was not there at the scope phase. *)
Restored(k) ==
    [a \in Addresses |-> IF a \in Accounts \cup (FieldStaff \ k.staff)
                         THEN "DECLARED" ELSE account[a]]

(* The only commit of the delete, converge and seed phases; the first of   *)
(* them has deleted the accounts at other addresses.                       *)
CommitReset(r) ==
    /\ \E k \in reset[r] :
         /\ k.at = "seeding" /\ Cardinality(k.put) = DemoPhotos
         /\ account' = Restored(k)
         /\ photographs' = k.put
         /\ RunIs(r, [k EXCEPT !.at = "sweeping", !.put = {}])
    /\ visitors' = FALSE /\ dataset' = TRUE
    /\ upload' = [u \in Uploads |-> {[k EXCEPT !.parent = FALSE] : k \in upload[u]}]
    /\ UNCHANGED <<stored, stranded>>

(* A phase fails, or the process dies, before the commit: the rows come    *)
(* back, and the objects stay.                                             *)
ResetFails(r) ==
    /\ \E k \in reset[r] : k.at # "sweeping" /\ stranded' = stranded \cup k.put
    /\ reset' = [reset EXCEPT ![r] = {}]
    /\ UNCHANGED <<account, visitors, dataset, photographs, stored, upload>>

BugSweepBeforeTheCommit(k) == k.at # "bootstrapped"

(* sweep_storage comes after the commit. *)
MaySweep(k) == k.at = "sweeping"

(* One key of the sweep: its object goes, or the store refuses. *)
SweepObject(r, o) ==
    /\ \E k \in reset[r] :
         MaySweep(k) /\ o \in k.keys /\ RunIs(r, [k EXCEPT !.keys = @ \ {o}])
    /\ \/ stored' = stored \ {o} /\ UNCHANGED stranded
       \/ stranded' = stranded \cup {o} /\ UNCHANGED stored
    /\ UNCHANGED <<account, visitors, dataset, photographs, upload>>

(* The run ends, or dies with keys left, which nobody knows any more. *)
ResetEnds(r) ==
    /\ \E k \in reset[r] : k.at = "sweeping" /\ stranded' = stranded \cup k.keys
    /\ reset' = [reset EXCEPT ![r] = {}]
    /\ UNCHANGED <<account, visitors, dataset, photographs, stored, upload>>

DemoNext ==
    \/ \E a \in Addresses : RenameAccount(a) \/ ChangeAccount(a)
    \/ \E u \in Uploads :
         (\E k \in Objects : PutUpload(u, k)) \/ AddPhotograph(u) \/ UploadRollsBack(u)
    \/ \E r \in Resets :
         \/ Bootstrap(r) \/ Scope(r) \/ StartSeed(r) \/ CommitReset(r)
         \/ ResetFails(r) \/ ResetEnds(r)
         \/ \E o \in Objects : PutDemoPhoto(r, o) \/ SweepObject(r, o)

DemoSpec == DemoInit /\ [][DemoNext]_demoVars
-----------------------------------------------------------------------------
(* Whatever fails and whoever uploads meanwhile, a row of a photo has its  *)
(* object, and an object has its row, is in the hands of a run or an upload*)
(* under way, or is known to be left behind by a failure.                  *)
PhotographsMatchTheStore ==
    /\ photographs \subseteq stored
    /\ stored \subseteq photographs \cup stranded \cup InHand

(* A run that commits leaves the four accounts as they are declared and no *)
(* other, whatever visitors did to them, and when: a rename that would get *)
(* in its way makes it fail instead.                                       *)
ResetRestoresTheAccounts ==
    [][\A r \in Resets : CommitReset(r) =>
           /\ \A a \in Addresses : account'[a] = "DECLARED"
           /\ ~visitors']_demoVars
=============================================================================
