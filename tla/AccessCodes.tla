------------------------------ MODULE AccessCodes ------------------------------
(***************************************************************************)
(* The access records of the stays.  Nothing tells this component that a   *)
(* stay was agreed or called off: a sweep looks for live stays without a   *)
(* live record and for cancelled stays with one, every few minutes.        *)
(* Operators move a record on from a copy they loaded.  Every write of a   *)
(* record also writes the stay's access_status, which is what is shown.    *)
(*                                                                         *)
(* A record expires only once valid_to has passed, and nothing writes that *)
(* column; the legal status the sweep initialises with a record, and the   *)
(* mail with the code, are left out.                                       *)
(***************************************************************************)
EXTENDS Naturals, FiniteSets

CONSTANTS
    Bookings,
    Operators,      \* requests of operators that may be going on at once
    MaxBookingMoves \* bound on the changes of each stay's status

ASSUME AccessAssumption == MaxBookingMoves \in Nat

VARIABLES
    booking,    \* the status of each stay
    moves,      \* how often it changed
    record,     \* the committed rows of access_records, by stay and number
    shown,      \* reservations.access_status
    spc,        \* where the sweep is
    missing,    \* the stays it found without a record, as it read them
    revoking,   \* the records it is about to revoke
    operator,   \* the record each operator has loaded, and what becomes of it
    crossed     \* history: stays with a record saved over its revocation

accessVars == <<booking, moves, record, shown, spc, missing, revoking, operator, crossed>>

BookingStatuses == {"PENDING", "CONFIRMED", "CANCELLED"}
LiveRecords == {"PENDING", "MANUAL_ADDED", "CREATED_EXTERNAL", "DELIVERED"}
RecordStatuses == LiveRecords \cup {"REVOKED"}
(* A sweep adds at most one record to a stay, and none for want of a live  *)
(* one unless it was revoked: by a cancellation.                           *)
Numbers == 1..(MaxBookingMoves + 2)
Records == Bookings \X Numbers

Exists(r) == record[r] # "ABSENT"
Live(r) == record[r] \in LiveRecords
RecordsOf(b) == {b} \X Numbers
Projected(status) == IF status = "REVOKED" THEN "NOT_REQUIRED" ELSE status

AccessTypeOK ==
    /\ booking \in [Bookings -> BookingStatuses]
    /\ moves \in [Bookings -> 0..MaxBookingMoves]
    /\ record \in [Records -> RecordStatuses \cup {"ABSENT"}]
    /\ shown \in [Bookings -> LiveRecords \cup {"NOT_REQUIRED"}]
    /\ spc \in {"idle", "adding", "revoking"}
    /\ missing \subseteq Bookings \X BOOLEAN
    /\ revoking \subseteq Records
    /\ crossed \subseteq Bookings
    /\ operator \in [Operators -> SUBSET (Records \X RecordStatuses)]
    /\ spc = "idle" => missing = {} /\ revoking = {}
    /\ \A r \in revoking : Exists(r) \/ <<r[1], FALSE>> \in missing
    /\ \A b \in Bookings, n \in Numbers \ {1} : Exists(<<b, n>>) => Exists(<<b, n - 1>>)

AccessInit ==
    /\ booking = [b \in Bookings |-> "PENDING"]
    /\ moves = [b \in Bookings |-> 0]
    /\ record = [r \in Records |-> "ABSENT"]
    /\ shown = [b \in Bookings |-> "PENDING"]
    /\ spc = "idle"
    /\ missing = {}
    /\ revoking = {}
    /\ operator = [o \in Operators |-> {}]
    /\ crossed = {}
-----------------------------------------------------------------------------
(* The status of a stay is edited by hand and by imports, in any direction.*)
BookingMoves(b, to) ==
    /\ booking[b] # to /\ moves[b] < MaxBookingMoves
    /\ booking' = [booking EXCEPT ![b] = to]
    /\ moves' = [moves EXCEPT ![b] = @ + 1]
    /\ UNCHANGED <<record, shown, spc, missing, revoking, operator, crossed>>

(* _ALLOWED_FROM, for what operators do *)
AllowedFrom ==
    [MANUAL_ADDED |-> {"PENDING"}, CREATED_EXTERNAL |-> {"PENDING"},
     DELIVERED |-> {"MANUAL_ADDED", "CREATED_EXTERNAL"}]

LoadRecord(o, r, to) ==
    /\ operator[o] = {}
    /\ record[r] \in AllowedFrom[to]
    /\ operator' = [operator EXCEPT ![o] = {<<r, to>>}]
    /\ UNCHANGED <<booking, moves, record, shown, spc, missing, revoking, crossed>>

(* save, whatever the row has become since, and _project. *)
SaveRecord(o, r, to) ==
    /\ <<r, to>> \in operator[o]
    /\ record' = [record EXCEPT ![r] = to]
    /\ shown' = [shown EXCEPT ![r[1]] = Projected(to)]
    /\ operator' = [operator EXCEPT ![o] = {}]
    /\ crossed' = IF record[r] = "REVOKED" THEN crossed \cup {r[1]} ELSE crossed
    /\ UNCHANGED <<booking, moves, spc, missing, revoking>>
-----------------------------------------------------------------------------
(* ProvisionAccessRecordsUseCase, one transaction                          *)

(* A live stay needs a live record, a cancelled stay any record at all.    *)
Missing(b, counts(_)) ==
    \/ booking[b] = "CONFIRMED" /\ \A r \in RecordsOf(b) : ~counts(r)
    \/ booking[b] = "CANCELLED" /\ \A r \in RecordsOf(b) : ~Exists(r)

ListsMissing(counts(_)) ==
    /\ spc = "idle"
    /\ missing' = {<<b, booking[b] = "CANCELLED">> : b \in {x \in Bookings : Missing(x, counts)}}
    /\ spc' = "adding"
    /\ UNCHANGED <<booking, moves, record, shown, revoking, operator, crossed>>

BugAnyRecordWillDo == ListsMissing(Exists)

ListMissing == ListsMissing(Live)

NextNumber(b) == CHOOSE n \in Numbers :
    /\ ~Exists(<<b, n>>)
    /\ \A m \in Numbers : m < n => Exists(<<b, m>>)
Added(b) == <<b, NextNumber(b)>>

(* Having added what is missing, it reads what is to be revoked: also its  *)
(* own records, of stays that were called off in between.                  *)
ListRevocable ==
    /\ spc = "adding"
    /\ revoking' = {r \in Records : Live(r) /\ booking[r[1]] = "CANCELLED"}
           \cup {Added(m[1]) : m \in {x \in missing : ~x[2] /\ booking[x[1]] = "CANCELLED"}}
    /\ spc' = "revoking"
    /\ UNCHANGED <<booking, moves, record, shown, missing, operator, crossed>>

(* What the records it adds and revokes are after its commit. *)
Written ==
    [r \in Records |->
       IF r \in revoking THEN "REVOKED"
       ELSE IF \E m \in missing : r = Added(m[1])
         THEN IF <<r[1], TRUE>> \in missing THEN "REVOKED" ELSE "PENDING"
       ELSE "ABSENT"]

CommitSweep ==
    /\ spc = "revoking"
    /\ record' = [r \in Records |-> IF Written[r] # "ABSENT" THEN Written[r] ELSE record[r]]
    /\ shown' = [b \in Bookings |->
           IF \E r \in RecordsOf(b) : Written[r] = "REVOKED" THEN "NOT_REQUIRED"
           ELSE IF \E r \in RecordsOf(b) : Written[r] = "PENDING" THEN "PENDING"
           ELSE shown[b]]
    /\ spc' = "idle"
    /\ missing' = {}
    /\ revoking' = {}
    /\ UNCHANGED <<booking, moves, operator, crossed>>

Sweep == ListMissing \/ ListRevocable \/ CommitSweep

AccessNext ==
    \/ \E b \in Bookings, to \in BookingStatuses : BookingMoves(b, to)
    \/ \E o \in Operators, r \in Records :
         \/ \E to \in DOMAIN AllowedFrom : LoadRecord(o, r, to)
         \/ \E to \in RecordStatuses : SaveRecord(o, r, to)
    \/ Sweep

AccessSpec == AccessInit /\ [][AccessNext]_accessVars

(* Beat starts the sweep every few minutes. *)
AccessFairness == WF_accessVars(Sweep)
-----------------------------------------------------------------------------
(* Once a stay no longer changes, its access follows, whatever came before *)
(* and whatever operators still save: a stay that is on has a record that  *)
(* can be used and shows one, and one that is off has none and shows none. *)
(* What the code does not rule out: that an operator brings a revoked      *)
(* record back to life under a sweep, and the stay then shows the wrong    *)
(* one.                                                                    *)
Settles(b) ==
    \/ /\ booking[b] = "CONFIRMED"
       /\ \E r \in RecordsOf(b) : Live(r) /\ (shown[b] = record[r] \/ b \in crossed)
    \/ /\ booking[b] = "CANCELLED"
       /\ \A r \in RecordsOf(b) : ~Live(r)
       /\ shown[b] = "NOT_REQUIRED"
    \/ booking[b] = "PENDING"

AccessSettlesWithTheStay == \A b \in Bookings : <>[]Settles(b)
=============================================================================
