------------------------- MODULE PropertyLifecycle -------------------------
(***************************************************************************)
(* One flat, and everything that moves its operational state: the clock    *)
(* jobs of the properties component, the reservations they read, the       *)
(* cleaning tasks and the incidents of the flat.  An action is one handler *)
(* or job run, from its first read to its commit; a handler that answers   *)
(* 409 rolls back, so it is an action that is not enabled.                 *)
(***************************************************************************)
EXTENDS PropertyStateMachine

CONSTANTS
    Reservations,   \* identifiers of stays
    Tasks,          \* identifiers of cleaning tasks
    Incidents,      \* identifiers of incidents
    Cleaners,       \* the tenant's active cleaners
    NoStay,         \* a task without a reservation
    Nobody,         \* a task without a cleaner
    Stays,          \* the bounds <<start, end>> a stay may be given
    Statuses,       \* the statuses an edit or a feed row may give a stay
    Severities,     \* the severities an incident may be given
    BadTimes,       \* the bounds whose local time cannot be resolved
    Provisioned,    \* stays whose checkout creates a task: auto_create_-
                    \* cleaning_task, cleaning_required, one template
    CheckinWindow,  \* checkin_window_hours_before
    LookAhead,      \* CANDIDATE_LOOKAHEAD, in days
    LookBehind,     \* CANDIDATE_LOOKBEHIND, in days
    MaxTime         \* bound of the clock

VARIABLES
    now,        \* the instant
    flat,       \* Property.current_operational_state
    res,        \* the reservations of the flat
    task,       \* its cleaning tasks
    inc         \* its incidents

vars == <<now, flat, res, task, inc>>

StayStatuses ==
    { "PENDING", "CONFIRMED", "CHECKED_IN_ESTIMATED", "CHECKED_OUT_ESTIMATED",
      "COMPLETED", "CANCELLED", "NO_SHOW" }
LiveStatuses == {"CREATED", "ASSIGNED", "ACCEPTED", "IN_PROGRESS"}
TaskStatuses == LiveStatuses \cup {"REJECTED", "COMPLETED", "CANCELLED"}
(* CLASSIFIED stands for every active status after OPEN. *)
IncidentStatuses == {"OPEN", "CLASSIFIED"} \cup ClosedIncident
(* MEDIUM stands for LOW too: neither of them moves a flat. *)
IncidentSeverities == {"MEDIUM", "HIGH", "CRITICAL"}

ASSUME LifecycleAssumption ==
    /\ NoStay \notin Reservations /\ Nobody \notin Cleaners
    /\ Stays \subseteq Nat \X Nat /\ BadTimes \subseteq Stays
    /\ Statuses \subseteq StayStatuses /\ Severities \subseteq IncidentSeverities
    /\ Provisioned \subseteq Reservations
    /\ MaxTime \in Nat /\ CheckinWindow \in Nat
    /\ LookAhead \in Nat /\ LookBehind \in Nat

Existing(table) == {x \in DOMAIN table : table[x].status # "none"}
Fresh(table) == DOMAIN table \ Existing(table)

TypeOK ==
    /\ now \in 0 .. MaxTime
    /\ flat \in States
    /\ res \in [Reservations ->
           [id : Reservations, status : StayStatuses \cup {"none"},
            start : Nat, end : Nat, ok : BOOLEAN]]
    /\ task \in [Tasks ->
           [status : TaskStatuses \cup {"none"},
            stay : Reservations \cup {NoStay},
            cleaner : Cleaners \cup {Nobody}]]
    /\ inc \in [Incidents ->
           [status : IncidentStatuses \cup {"none"},
            severity : IncidentSeverities]]

Init ==
    /\ now = 0
    /\ flat = "VACANT_READY"
    /\ res = [r \in Reservations |-> [id |-> r, status |-> "none",
                 start |-> 0, end |-> 0, ok |-> TRUE]]
    /\ task = [t \in Tasks |->
                 [status |-> "none", stay |-> NoStay, cleaner |-> Nobody]]
    /\ inc = [i \in Incidents |-> [status |-> "none", severity |-> "MEDIUM"]]

Tick ==
    /\ now < MaxTime
    /\ now' = now + 1
    /\ UNCHANGED <<flat, res, task, inc>>

(* The stays the candidate window fetches from a table of reservations. *)
Windowed(table) ==
    {s \in {table[r] : r \in Existing(table)} :
        /\ Day(s.start) <= Day(now) + LookAhead
        /\ Day(s.end) + LookBehind >= Day(now)}

(* The flat after an evaluation: where it was, when that was refused. *)
FlatAfter(outcome) == IF outcome \in States THEN outcome ELSE flat
-----------------------------------------------------------------------------
(* The clock jobs: AdvancePropertyStatesUseCase. *)

(* The stays of the table that the machine accepts for the trigger. *)
Accepted(table, trigger) ==
    {s \in Windowed(table) :
        /\ trigger = "CHECKIN_WINDOW_OPENED"
             => s.ok /\ OpensCheckinWindow(s, now, CheckinWindow)
        /\ EvaluateStay(flat, trigger, s, now) \in States}

(* _advance_one moves the flat only when exactly one stay is accepted.     *)
(* Whether that stay's transition was applied before is never asked.       *)
AdvancesOn(table, trigger, stay) == Accepted(table, trigger) = {stay}

check_checkin_windows ==
    \E s \in Windowed(res) :
        /\ AdvancesOn(res, "CHECKIN_WINDOW_OPENED", s)
        /\ flat' = EvaluateStay(flat, "CHECKIN_WINDOW_OPENED", s, now)
        /\ UNCHANGED <<now, res, task, inc>>

mark_occupied_estimated ==
    \E s \in Windowed(res) :
        /\ AdvancesOn(res, "CHECKIN_TIME_REACHED", s)
        /\ flat' = EvaluateStay(flat, "CHECKIN_TIME_REACHED", s, now)
        /\ UNCHANGED <<now, res, task, inc>>

BugAssignedNotLive(r) ==
    {t \in Tasks : task[t].status \in {"CREATED", "IN_PROGRESS"}
                     /\ task[t].stay = r}

LiveTasksOf(r) ==
    {t \in Tasks : task[t].status \in LiveStatuses /\ task[t].stay = r}

(* resolve_auto_assignee: the only active cleaner, unless they rejected a  *)
(* task of this stay.                                                      *)
AutoAssignees(r) ==
    IF Cardinality(Cleaners) = 1
      THEN Cleaners \ {task[t].cleaner : t \in
                         {u \in Tasks : task[u].status = "REJECTED"
                                          /\ task[u].stay = r}}
      ELSE {}

NewTask(status, r, c) == [status |-> status, stay |-> r, cleaner |-> c]

(* provision_for_checkout, in the transaction of the transition that left  *)
(* the flat in state left.                                                 *)
ProvisionForCheckout(r, left) ==
    \E t \in Fresh(task) :
        \/ /\ AutoAssignees(r) = {}
           /\ task' = [task EXCEPT ![t] = NewTask("CREATED", r, Nobody)]
           /\ flat' = left
        \/ \E c \in AutoAssignees(r) :
             LET assigned ==
                   EvaluateCleaning(left, "CLEANER_ASSIGNED", "ASSIGNED", {}, {}, now)
             IN  /\ task' = [task EXCEPT ![t] = NewTask("ASSIGNED", r, c)]
                 /\ flat' = IF assigned \in States THEN assigned ELSE left

process_checkouts ==
    \E s \in Windowed(res) :
        LET left == EvaluateStay(flat, "CHECKOUT_TIME_REACHED", s, now)
        IN  /\ AdvancesOn(res, "CHECKOUT_TIME_REACHED", s)
            /\ IF s.id \in Provisioned /\ LiveTasksOf(s.id) = {}
                 THEN ProvisionForCheckout(s.id, left)
                 ELSE flat' = left /\ task' = task
            /\ UNCHANGED <<now, res, inc>>
-----------------------------------------------------------------------------
(* Reservations: none of the manual operations touches the flat. *)

StayWith(r, status, bounds) ==
    [id |-> r, status |-> status, start |-> bounds[1], end |-> bounds[2],
     ok |-> bounds \notin BadTimes]

(* CreateReservationUseCase: PENDING, whatever day it is. *)
CreateReservation(r, bounds) ==
    /\ r \in Fresh(res)
    /\ res' = [res EXCEPT ![r] = StayWith(r, "PENDING", bounds)]
    /\ UNCHANGED <<now, flat, task, inc>>

(* UpdateReservationUseCase: any status to any other, and new bounds. *)
UpdateReservation(r, status, bounds) ==
    /\ r \in Existing(res)
    /\ res[r] # StayWith(r, status, bounds)
    /\ res' = [res EXCEPT ![r] = StayWith(r, status, bounds)]
    /\ UNCHANGED <<now, flat, task, inc>>

CancelReservation(r) ==
    /\ r \in Existing(res)
    /\ res[r].status # "CANCELLED"
    /\ res' = [res EXCEPT ![r].status = "CANCELLED"]
    /\ UNCHANGED <<now, flat, task, inc>>

(* ReservationIngestor.ingest of a feed row for a stay it does not know. *)
IngestNew(r, status, bounds) ==
    /\ r \in Fresh(res)
    /\ res' = [res EXCEPT ![r] = StayWith(r, status, bounds)]
    /\ UNCHANGED <<now, flat, task, inc>>

(* ReservationIngestor.ingest of a row for a known stay.  A row that newly *)
(* cancels it runs the cancellation trigger over the tenant's flats in the *)
(* same transaction, whichever stay the flat was waiting for.              *)
IngestKnown(r, status, bounds) ==
    /\ r \in Existing(res)
    /\ res[r] # StayWith(r, status, bounds)
    /\ res' = [res EXCEPT ![r] = StayWith(r, status, bounds)]
    /\ LET trigger == "RESERVATION_CANCELLED_BEFORE_CHECKIN"
           moved == {s \in Windowed(res') : AdvancesOn(res', trigger, s)}
       IN  IF status = "CANCELLED" /\ res[r].status # "CANCELLED" /\ moved # {}
             THEN \E s \in moved : flat' = EvaluateStay(flat, trigger, s, now)
             ELSE flat' = flat
    /\ UNCHANGED <<now, task, inc>>
-----------------------------------------------------------------------------
(* Cleaning tasks. *)

(* CreateCleaningTaskUseCase: the partial unique index refuses a second    *)
(* live task of a reservation.  The state of the flat is not read.         *)
CreateCleaningTask(t, r) ==
    /\ t \in Fresh(task)
    /\ r \in Existing(res) \cup {NoStay}
    /\ r # NoStay => LiveTasksOf(r) = {}
    /\ task' = [task EXCEPT ![t] = NewTask("CREATED", r, Nobody)]
    /\ UNCHANGED <<now, flat, res, inc>>

BugRefusalSwallowed(outcome) == flat' = FlatAfter(outcome)

(* _transition: the flat moves with the task or the whole step is undone.  *)
MovesFlat(outcome) == outcome \in States /\ flat' = outcome

(* Only a first assignment moves the flat; a reassignment keeps it. *)
AssignCleaningTask(t, c) ==
    /\ task[t].status \in {"CREATED", "ASSIGNED"}
    /\ task' = [task EXCEPT ![t] = NewTask("ASSIGNED", task[t].stay, c)]
    /\ IF task[t].status = "CREATED"
         THEN MovesFlat(EvaluateCleaning(flat, "CLEANER_ASSIGNED", "ASSIGNED",
                                         {}, {}, now))
         ELSE flat' = flat
    /\ UNCHANGED <<now, res, inc>>

AcceptCleaningTask(t) ==
    /\ task[t].status = "ASSIGNED"
    /\ task' = [task EXCEPT ![t].status = "ACCEPTED"]
    /\ UNCHANGED <<now, flat, res, inc>>

(* The rejection creates the task that replaces the rejected one. *)
RejectCleaningTask(t, replacement) ==
    /\ task[t].status \in {"ASSIGNED", "ACCEPTED"}
    /\ replacement \in Fresh(task)
    /\ MovesFlat(EvaluateCleaning(flat, "CLEANER_REJECTED", "REJECTED", {}, {}, now))
    /\ task' = [task EXCEPT ![t].status = "REJECTED",
                            ![replacement] = NewTask("CREATED", task[t].stay, Nobody)]
    /\ UNCHANGED <<now, res, inc>>

StartCleaningTask(t) ==
    /\ task[t].status = "ACCEPTED"
    /\ task' = [task EXCEPT ![t].status = "IN_PROGRESS"]
    /\ MovesFlat(EvaluateCleaning(flat, "CLEANING_STARTED", "IN_PROGRESS", {}, {}, now))
    /\ UNCHANGED <<now, res, inc>>

ActiveIncidents == {i \in Incidents : inc[i].status \in {"OPEN", "CLASSIFIED"}}

(* Checklist and photos are complete; an unresolved CRITICAL incident of   *)
(* the flat blocks the completion.                                         *)
CompleteCleaningTask(t) ==
    /\ task[t].status = "IN_PROGRESS"
    /\ \A i \in ActiveIncidents : inc[i].severity # "CRITICAL"
    /\ task' = [task EXCEPT ![t].status = "COMPLETED"]
    /\ MovesFlat(EvaluateCleaning(flat, "CLEANING_COMPLETED", "COMPLETED",
                                  {}, Windowed(res), now))
    /\ UNCHANGED <<now, res, inc>>

(* _replacement_for: nobody is inside and the stay has no other live task. *)
NeedsReplacement(t) ==
    /\ ~StaysUnclear(Windowed(res), now)
    /\ ActiveStays(Windowed(res), now) = {}
    /\ task[t].stay # NoStay => LiveTasksOf(task[t].stay) \subseteq {t}

(* CancelCleaningTaskUseCase: the context it gives the machine holds the   *)
(* cancelled task and its replacement, and no other task of the flat.      *)
CancelCleaningTask(t) ==
    LET others == IF NeedsReplacement(t) THEN {"CREATED"} ELSE {}
        outcome == EvaluateCleaning(flat, "CLEANING_CANCELLED", "CANCELLED",
                                    others, Windowed(res), now)
        cancelled == [task EXCEPT ![t].status = "CANCELLED"]
    IN  /\ task[t].status \in LiveStatuses
        /\ outcome \in States \cup {"no_change"}
        /\ flat' = FlatAfter(outcome)
        /\ IF NeedsReplacement(t)
             THEN \E u \in Fresh(task) :
                    task' = [cancelled EXCEPT
                               ![u] = NewTask("CREATED", task[t].stay, Nobody)]
             ELSE task' = cancelled
        /\ UNCHANGED <<now, res, inc>>
-----------------------------------------------------------------------------
(* Incidents. *)

ReportIncident(i) ==
    /\ i \in Fresh(inc)
    /\ inc' = [inc EXCEPT ![i] = [status |-> "OPEN", severity |-> "MEDIUM"]]
    /\ UNCHANGED <<now, flat, res, task>>

(* _fire_trigger's context: the active incidents and this one, the stays   *)
(* of the window, the live tasks.                                          *)
IncidentOutcome(table, i, trigger) ==
    LET incidents == {table[j] : j \in
                        {k \in Incidents :
                            k = i \/ table[k].status \in {"OPEN", "CLASSIFIED"}}}
        live == {task[t].status : t \in Tasks} \cap LiveStatuses
    IN  EvaluateIncident(flat, trigger, table[i], incidents, live, Windowed(res), now)

(* A refusal is logged and swallowed, except for                           *)
(* IncompatibleTransitionContextError, which undoes the step.              *)
FireTrigger(i, trigger) ==
    LET outcome == IncidentOutcome(inc', i, trigger)
    IN  outcome # "incompatible" /\ flat' = FlatAfter(outcome)

(* ClassifyIncidentUseCase with enough confidence, or a triage that gives  *)
(* an OPEN incident both its category and its severity.                    *)
ClassifyIncident(i, severity) ==
    /\ inc[i].status = "OPEN"
    /\ inc' = [inc EXCEPT ![i] = [status |-> "CLASSIFIED", severity |-> severity]]
    /\ CASE severity = "HIGH" -> FireTrigger(i, "INCIDENT_HIGH")
         [] severity = "CRITICAL" -> FireTrigger(i, "INCIDENT_CRITICAL")
         [] OTHER -> flat' = flat
    /\ UNCHANGED <<now, res, task>>

(* TriageIncidentUseCase when it does not classify: no trigger is fired. *)
TriageIncident(i, severity) ==
    /\ i \in ActiveIncidents
    /\ severity # inc[i].severity
    /\ inc' = [inc EXCEPT ![i].severity = severity]
    /\ UNCHANGED <<now, flat, res, task>>

(* ResolveIncidentUseCase without a pending approval. *)
ResolveIncident(i) ==
    /\ inc[i].status = "CLASSIFIED"
    /\ inc' = [inc EXCEPT ![i].status = "RESOLVED"]
    /\ FireTrigger(i, "INCIDENT_RESOLVED")
    /\ UNCHANGED <<now, res, task>>

(* CancelIncidentUseCase, or the owner rejecting the expense. *)
CancelIncident(i) ==
    /\ i \in ActiveIncidents
    /\ inc' = [inc EXCEPT ![i].status = "CANCELLED"]
    /\ FireTrigger(i, "INCIDENT_RESOLVED")
    /\ UNCHANGED <<now, res, task>>
-----------------------------------------------------------------------------
ClockJob == check_checkin_windows \/ mark_occupied_estimated \/ process_checkouts

ReservationStep ==
    \E r \in Reservations, bounds \in Stays :
        \/ CreateReservation(r, bounds)
        \/ CancelReservation(r)
        \/ \E status \in Statuses :
             \/ UpdateReservation(r, status, bounds)
             \/ IngestNew(r, status, bounds)
             \/ IngestKnown(r, status, bounds)

CleaningStep ==
    \E t \in Tasks :
        \/ \E r \in Reservations \cup {NoStay} : CreateCleaningTask(t, r)
        \/ \E c \in Cleaners : AssignCleaningTask(t, c)
        \/ AcceptCleaningTask(t)
        \/ \E u \in Tasks : RejectCleaningTask(t, u)
        \/ StartCleaningTask(t)
        \/ CompleteCleaningTask(t)
        \/ CancelCleaningTask(t)

IncidentStep ==
    \E i \in Incidents :
        \/ ReportIncident(i)
        \/ \E severity \in Severities :
             ClassifyIncident(i, severity) \/ TriageIncident(i, severity)
        \/ ResolveIncident(i)
        \/ CancelIncident(i)

Next == Tick \/ ClockJob \/ ReservationStep \/ CleaningStep \/ IncidentStep

Spec == Init /\ [][Next]_vars
-----------------------------------------------------------------------------
(* A flat that says it is being cleaned has a task that says so too: a     *)
(* scheduled one has an assigned or accepted task, one in progress a       *)
(* started task, whatever incidents and cancellations came in between.     *)
CleaningIsBacked ==
    /\ flat = "CLEANING_SCHEDULED"
         => \E t \in Tasks : task[t].status \in {"ASSIGNED", "ACCEPTED"}
    /\ flat = "CLEANING_IN_PROGRESS"
         => \E t \in Tasks : task[t].status = "IN_PROGRESS"

(* Where every checkout provisions its cleaning, a flat never waits for a  *)
(* cleaning nobody has a task for: rejections and cancellations replace.   *)
AwaitingCleaningIsCovered ==
    Provisioned = Reservations /\ flat = "AWAITING_CLEANING"
        => \E t \in Tasks : task[t].status \in LiveStatuses

(* Every state of a flat that speaks of a cleaning has its task.           *)
CleaningStatesAreBacked == CleaningIsBacked /\ AwaitingCleaningIsCovered

(* No stay ever has two live cleaning tasks: the checks of provisioning    *)
(* and cancellation, and the order of the rejection, never meet the unique *)
(* index that would refuse them.                                           *)
OneLiveCleaningPerStay ==
    \A t, u \in Tasks :
        /\ task[t].status \in LiveStatuses /\ task[u].status \in LiveStatuses
        /\ task[t].stay = task[u].stay /\ task[t].stay # NoStay
        => t = u

(* A flat out of order for an incident has an incident that is not closed: *)
(* closing the last one always brings the flat back.                       *)
IncidentStateIsBacked == flat \in IncidentStates => ActiveIncidents # {}

UrgentIncidents ==
    {i \in ActiveIncidents : inc[i].severity \in {"HIGH", "CRITICAL"}}

(* A flat leaves the incident states only when no incident of HIGH or      *)
(* CRITICAL severity is still active, and is downgraded from the critical  *)
(* one only when no CRITICAL incident is, whichever was closed or found.   *)
UrgentIncidentHoldsTheFlat ==
    [][/\ (flat \in IncidentStates /\ flat' \notin IncidentStates)
            => UrgentIncidents' = {}
       /\ (flat = "CRITICAL_INCIDENT" /\ flat' # "CRITICAL_INCIDENT")
            => \A i \in UrgentIncidents' : inc'[i].severity # "CRITICAL"]_vars

(* A flat is out of order while its incidents justify it: neither longer   *)
(* than one of them is active nor shorter than an urgent one is.           *)
IncidentsHoldTheFlat == []IncidentStateIsBacked /\ UrgentIncidentHoldsTheFlat

FreeStates == {"VACANT_READY", "READY_FOR_NEXT_GUEST", "AWAITING_CHECKIN"}

(* Finishing or cancelling a cleaning and closing an incident never        *)
(* declare the flat free for the next guest while a stay is running in it. *)
NoReleaseOverAGuest ==
    [][(flat \notin FreeStates /\ flat' \in FreeStates)
         => ActiveStays(Windowed(res), now) = {}]_vars
-----------------------------------------------------------------------------
(* What the documents say and the code does not do.                        *)

(* A flat that awaits its cleaning is one whose guest has left (PRD 3.1): *)
(* no checkout takes a flat out of OCCUPIED_ESTIMATED while a stay that    *)
(* holds it is running.                                                    *)
CheckoutMeansDeparted ==
    [][flat = "OCCUPIED_ESTIMATED"
         /\ flat' \in {"AWAITING_CLEANING", "CLEANING_SCHEDULED"}
         => ActiveStays(Windowed(res), now) = {}]_vars

(* A cancellation releases the flat that waits for precisely that stay     *)
(* (ingest.md): not one with another confirmed stay entering today.        *)
OtherCancellationKeepsTheFlat ==
    [][flat = "AWAITING_CHECKIN" /\ flat' = "VACANT_READY"
         => ~\E s \in Windowed(res) :
               /\ s.status = "CONFIRMED" /\ s.ok /\ res'[s.id] = s
               /\ Day(s.start) = Day(now) /\ now < s.start]_vars
=============================================================================
