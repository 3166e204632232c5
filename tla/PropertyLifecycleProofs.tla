----------------------- MODULE PropertyLifecycleProofs -----------------------
(***************************************************************************)
(* Proofs about PropertyLifecycle, for every number of stays, tasks,       *)
(* incidents and cleaners and every choice of bounds.  First what each     *)
(* handler does to the flat, then the invariants, one step per action.     *)
(***************************************************************************)
EXTENDS PropertyLifecycle, PropertyStateMachineProofs

(* A clock job only moves the flat to a state of the machine.              *)
LEMMA AdvanceMoves ==
    ASSUME NEW table, NEW trigger, NEW s, AdvancesOn(table, trigger, s)
    PROVE  EvaluateStay(flat, trigger, s, now) \in States
BY DEF AdvancesOn, Accepted

LEMMA WindowedStays ==
    ASSUME TypeOK, NEW s \in Windowed(res)
    PROVE  s.id \in Reservations
BY DEF TypeOK, Windowed, Existing

(* What the clock jobs do: open the window, seat the guest, or see the     *)
(* guest out, with a cleaning task when the stay has none.                 *)
LEMMA ClockMoves ==
    ASSUME TypeOK, ClockJob
    PROVE  /\ UNCHANGED <<now, res, inc>>
           /\ \/ /\ flat \in {"VACANT_READY", "READY_FOR_NEXT_GUEST"}
                 /\ flat' = "AWAITING_CHECKIN" /\ task' = task
              \/ /\ flat = "AWAITING_CHECKIN"
                 /\ flat' = "OCCUPIED_ESTIMATED" /\ task' = task
              \/ /\ flat = "OCCUPIED_ESTIMATED"
                 /\ flat' = "AWAITING_CLEANING" /\ task' = task
                 /\ \E r \in Reservations :
                      r \notin Provisioned \/ LiveTasksOf(r) # {}
              \/ /\ flat = "OCCUPIED_ESTIMATED"
                 /\ \E r \in Reservations, t \in Fresh(task) :
                      /\ LiveTasksOf(r) = {}
                      /\ \/ /\ flat' = "AWAITING_CLEANING"
                            /\ task' = [task EXCEPT ![t] = NewTask("CREATED", r, Nobody)]
                         \/ /\ flat' \in {"AWAITING_CLEANING", "CLEANING_SCHEDULED"}
                            /\ \E c \in Cleaners :
                                 task' = [task EXCEPT ![t] = NewTask("ASSIGNED", r, c)]
<1>1. CASE check_checkin_windows
  BY <1>1, AdvanceMoves, StayTable DEF check_checkin_windows
<1>2. CASE mark_occupied_estimated
  BY <1>2, AdvanceMoves, StayTable DEF mark_occupied_estimated
<1>3. CASE process_checkouts
  <2> DEFINE left(s) == EvaluateStay(flat, "CHECKOUT_TIME_REACHED", s, now)
  <2>1. PICK s \in Windowed(res) :
          /\ AdvancesOn(res, "CHECKOUT_TIME_REACHED", s)
          /\ IF s.id \in Provisioned /\ LiveTasksOf(s.id) = {}
               THEN ProvisionForCheckout(s.id, left(s))
               ELSE flat' = left(s) /\ task' = task
          /\ UNCHANGED <<now, res, inc>>
    BY <1>3 DEF process_checkouts
  <2>2. left(s) = "AWAITING_CLEANING" /\ flat = "OCCUPIED_ESTIMATED"
    BY <2>1, AdvanceMoves, StayTable
  <2>3. s.id \in Reservations
    BY WindowedStays
  <2> HIDE DEF left
  <2>4. CASE s.id \in Provisioned /\ LiveTasksOf(s.id) = {}
    <3> DEFINE assigned == EvaluateCleaning("AWAITING_CLEANING", "CLEANER_ASSIGNED",
                                            "ASSIGNED", {}, {}, now)
    <3>1. PICK t \in Fresh(task) :
            \/ /\ flat' = "AWAITING_CLEANING"
               /\ task' = [task EXCEPT ![t] = NewTask("CREATED", s.id, Nobody)]
            \/ \E c \in AutoAssignees(s.id) :
                 /\ task' = [task EXCEPT ![t] = NewTask("ASSIGNED", s.id, c)]
                 /\ flat' = IF assigned \in States THEN assigned
                                                   ELSE "AWAITING_CLEANING"
      BY <2>1, <2>2, <2>4 DEF ProvisionForCheckout
    <3>2. "AWAITING_CLEANING" \in States
      BY DEF States, ContextualStates, CancellationStates
    <3>3. assigned \in States => assigned = "CLEANING_SCHEDULED"
      BY <3>2, CleaningTable
    <3>4. AutoAssignees(s.id) \subseteq Cleaners
      BY DEF AutoAssignees
    <3> HIDE DEF assigned
    <3> QED
      BY <2>1, <2>2, <2>3, <2>4, <3>1, <3>3, <3>4
  <2>5. CASE ~(s.id \in Provisioned /\ LiveTasksOf(s.id) = {})
    BY <2>1, <2>2, <2>3, <2>5
  <2> QED
    BY <2>4, <2>5
<1> QED
  BY <1>1, <1>2, <1>3 DEF ClockJob

(* What the reservations do: at most release the flat that waits.          *)
LEMMA ReservationMoves ==
    ASSUME ReservationStep
    PROVE  /\ UNCHANGED <<now, task, inc>>
           /\ \/ flat' = flat
              \/ flat = "AWAITING_CHECKIN" /\ flat' = "VACANT_READY"
<1>1. PICK r \in Reservations, bounds \in Stays :
        \/ CreateReservation(r, bounds)
        \/ CancelReservation(r)
        \/ \E status \in Statuses :
             \/ UpdateReservation(r, status, bounds)
             \/ IngestNew(r, status, bounds)
             \/ IngestKnown(r, status, bounds)
  BY DEF ReservationStep
<1>2. CASE CreateReservation(r, bounds) \/ CancelReservation(r)
  BY <1>2 DEF CreateReservation, CancelReservation
<1>3. ASSUME NEW status \in Statuses,
             UpdateReservation(r, status, bounds) \/ IngestNew(r, status, bounds)
      PROVE  UNCHANGED <<now, task, inc>> /\ flat' = flat
  BY <1>3 DEF UpdateReservation, IngestNew
<1>4. ASSUME NEW status \in Statuses, IngestKnown(r, status, bounds)
      PROVE  /\ UNCHANGED <<now, task, inc>>
             /\ \/ flat' = flat
                \/ flat = "AWAITING_CHECKIN" /\ flat' = "VACANT_READY"
  <2> DEFINE trigger == "RESERVATION_CANCELLED_BEFORE_CHECKIN"
             moved == {s \in Windowed(res') : AdvancesOn(res', trigger, s)}
  <2>1. \/ flat' = flat
        \/ \E s \in moved : flat' = EvaluateStay(flat, trigger, s, now)
    BY <1>4 DEF IngestKnown
  <2>2. ASSUME NEW s \in moved, flat' = EvaluateStay(flat, trigger, s, now)
        PROVE  flat = "AWAITING_CHECKIN" /\ flat' = "VACANT_READY"
    <3>1. EvaluateStay(flat, trigger, s, now) \in States
      BY AdvanceMoves
    <3> QED
      BY <2>2, <3>1, StayTable
  <2>3. UNCHANGED <<now, task, inc>>
    BY <1>4 DEF IngestKnown
  <2> QED
    BY <2>1, <2>2, <2>3
<1> QED
  BY <1>1, <1>2, <1>3, <1>4

(* What each cleaning handler does to the flat.                            *)
LEMMA AssignMoves ==
    ASSUME TypeOK, NEW t \in Tasks, NEW c \in Cleaners, AssignCleaningTask(t, c)
    PROVE  flat' = flat \/ (flat = "AWAITING_CLEANING" /\ flat' = "CLEANING_SCHEDULED")
BY CleaningTable DEF AssignCleaningTask, MovesFlat, TypeOK

LEMMA RejectMoves ==
    ASSUME TypeOK, NEW t \in Tasks, NEW u \in Tasks, RejectCleaningTask(t, u)
    PROVE  flat = "CLEANING_SCHEDULED" /\ flat' = "AWAITING_CLEANING"
BY CleaningTable DEF RejectCleaningTask, MovesFlat, TypeOK

LEMMA StartMoves ==
    ASSUME TypeOK, NEW t \in Tasks, StartCleaningTask(t)
    PROVE  flat = "CLEANING_SCHEDULED" /\ flat' = "CLEANING_IN_PROGRESS"
BY CleaningTable DEF StartCleaningTask, MovesFlat, TypeOK

LEMMA CompleteMoves ==
    ASSUME TypeOK, NEW t \in Tasks, CompleteCleaningTask(t)
    PROVE  /\ flat = "CLEANING_IN_PROGRESS" /\ flat' \in FreeStates
           /\ ActiveStays(Windowed(res), now) = {}
<1>1. /\ flat' = EvaluateCleaning(flat, "CLEANING_COMPLETED", "COMPLETED",
                                  {}, Windowed(res), now)
      /\ flat' \in States /\ flat \in States
  BY DEF CompleteCleaningTask, MovesFlat, TypeOK
<1>2. /\ flat = "CLEANING_IN_PROGRESS"
      /\ flat' = after_cleaning_completion(Windowed(res), now)
      /\ flat' \in FreeStates
  BY <1>1, CompletionTable DEF FreeStates
<1> QED
  BY <1>2, CompletionRungs DEF FreeStates

LEMMA CancelMoves ==
    ASSUME TypeOK, NEW t \in Tasks, CancelCleaningTask(t)
    PROVE  /\ flat' \in States
           /\ flat \in {"AWAITING_CLEANING", "CLEANING_SCHEDULED", "CLEANING_IN_PROGRESS"}
           /\ flat' \notin {"CLEANING_SCHEDULED", "CLEANING_IN_PROGRESS"} \cup IncidentStates
           /\ flat' = "AWAITING_CLEANING" => NeedsReplacement(t)
           /\ flat' \in FreeStates => ActiveStays(Windowed(res), now) = {}
<1> DEFINE others == IF NeedsReplacement(t) THEN {"CREATED"} ELSE {}
           seen == {"CANCELLED"} \cup others
           to == EvaluateCleaning(flat, "CLEANING_CANCELLED", "CANCELLED",
                                  others, Windowed(res), now)
           found == after_cleaning_cancellation(Windowed(res), seen, now)
<1>1. to \in States \cup {"no_change"} /\ flat' = FlatAfter(to) /\ flat \in States
  BY DEF CancelCleaningTask, TypeOK
<1>2. /\ "IN_PROGRESS" \notin seen
      /\ seen \cap {"CREATED", "ASSIGNED", "ACCEPTED"} # {} => NeedsReplacement(t)
  OBVIOUS
<1>3. "no_change" \notin States
  BY DEF States, ContextualStates, CancellationStates, IncidentStates
<1>4. /\ flat \in {"AWAITING_CLEANING", "CLEANING_SCHEDULED", "CLEANING_IN_PROGRESS"}
      /\ to \in States => to = found
      /\ to = "no_change" => found = flat
  BY <1>1, CancellationTable
<1>5. flat' = found /\ flat' \in States
  BY <1>1, <1>3, <1>4 DEF FlatAfter
<1> HIDE DEF seen, found, to
<1>6. /\ found # "CLEANING_IN_PROGRESS" /\ found # "CLEANING_SCHEDULED"
      /\ found = "AWAITING_CLEANING" => NeedsReplacement(t)
      /\ found \in FreeStates => ActiveStays(Windowed(res), now) = {}
  BY <1>2, CancellationRungs DEF found, FreeStates
<1>7. found \notin IncidentStates
  BY ResolverRange DEF found, CancellationStates, IncidentStates
<1> QED
  BY <1>4, <1>5, <1>6, <1>7

(* What an incident does to the flat: report and triage leave it, a        *)
(* classification puts it out of order, a closed incident sends it where   *)
(* the rungs below say once no urgent incident is left.                    *)
LiveTaskStatuses == {task[t].status : t \in Tasks} \cap LiveStatuses

LEMMA ClassifyMoves ==
    ASSUME TypeOK, NEW i \in Incidents, NEW severity \in Severities,
           ClassifyIncident(i, severity)
    PROVE  \/ flat' = flat
           \/ /\ flat' \in IncidentStates
              /\ flat = "CRITICAL_INCIDENT" /\ flat' # "CRITICAL_INCIDENT" =>
                   \A j \in Incidents : inc'[j].status \in {"OPEN", "CLASSIFIED"}
                                           => inc'[j].severity # "CRITICAL"
<1> DEFINE seen == {inc'[j] : j \in
                      {k \in Incidents :
                         k = i \/ inc'[k].status \in {"OPEN", "CLASSIFIED"}}}
           to(trigger) == EvaluateIncident(flat, trigger, inc'[i], seen,
                                           LiveTaskStatuses, Windowed(res), now)
<1>1. inc'[i] \in seen /\ flat \in States
  BY DEF TypeOK
<1>2. \A j \in Incidents : inc'[j].status \in {"OPEN", "CLASSIFIED"}
         => inc'[j] \in seen /\ inc'[j].status \notin ClosedIncident
  BY DEF ClosedIncident
<1>3. \/ flat' = flat
      \/ \E trigger \in {"INCIDENT_HIGH", "INCIDENT_CRITICAL"} :
            flat' = to(trigger) /\ to(trigger) \in States
  <2>1. CASE severity = "HIGH"
    BY <2>1 DEF ClassifyIncident, FireTrigger, IncidentOutcome, FlatAfter, LiveTaskStatuses
  <2>2. CASE severity = "CRITICAL"
    BY <2>2 DEF ClassifyIncident, FireTrigger, IncidentOutcome, FlatAfter, LiveTaskStatuses
  <2>3. CASE severity \notin {"HIGH", "CRITICAL"}
    BY <2>3 DEF ClassifyIncident
  <2> QED
    BY <2>1, <2>2, <2>3
<1>4. ASSUME NEW trigger \in {"INCIDENT_HIGH", "INCIDENT_CRITICAL"},
             flat' = to(trigger), to(trigger) \in States
      PROVE  /\ flat' \in IncidentStates
             /\ flat = "CRITICAL_INCIDENT" /\ flat' # "CRITICAL_INCIDENT" =>
                  \A x \in seen : x.status \notin ClosedIncident => x.severity # "CRITICAL"
  <2> HIDE DEF seen
  <2> QED
    BY <1>1, <1>4, UrgentTable
<1> HIDE DEF seen, to
<1> QED
  BY <1>2, <1>3, <1>4

LEMMA CloseMoves ==
    ASSUME TypeOK, NEW i \in Incidents, ResolveIncident(i) \/ CancelIncident(i)
    PROVE  /\ UNCHANGED <<now, res, task>> /\ flat' \in States
           /\ flat' \in IncidentStates => ActiveIncidents' # {}
           /\ flat \in IncidentStates /\ flat' \notin IncidentStates =>
                /\ UrgentIncidents' = {}
                /\ flat' = after_cleaning_cancellation(Windowed(res), LiveTaskStatuses, now)
           /\ flat = "CRITICAL_INCIDENT" /\ flat' # "CRITICAL_INCIDENT" =>
                \A j \in ActiveIncidents' : inc'[j].severity # "CRITICAL"
           /\ flat' # flat => flat \in IncidentStates
<1> DEFINE seen == {inc'[j] : j \in
                      {k \in Incidents :
                         k = i \/ inc'[k].status \in {"OPEN", "CLASSIFIED"}}}
           to == EvaluateIncident(flat, "INCIDENT_RESOLVED", inc'[i], seen,
                                  LiveTaskStatuses, Windowed(res), now)
           found == after_incident_resolution(Windowed(res), LiveTaskStatuses, seen, now)
<1>1. inc'[i] \in seen /\ flat \in States
  BY DEF TypeOK
<1>2. /\ UNCHANGED <<now, res, task>>
      /\ inc'[i].status \in ClosedIncident
      /\ inc' \in [Incidents -> [status : IncidentStatuses \cup {"none"},
                                 severity : IncidentSeverities]]
      /\ \A j \in Incidents \ {i} : inc'[j] = inc[j]
  BY DEF ResolveIncident, CancelIncident, TypeOK, ClosedIncident, IncidentStatuses
<1>3. to # "incompatible" /\ flat' = FlatAfter(to)
  BY DEF ResolveIncident, CancelIncident, FireTrigger, IncidentOutcome, LiveTaskStatuses
<1>4. \A x \in seen : x.status \notin ClosedIncident
         => \E j \in ActiveIncidents' : x = inc'[j]
  BY <1>2 DEF ActiveIncidents, ClosedIncident
<1>5. \A j \in ActiveIncidents' : inc'[j] \in seen /\ inc'[j].status \notin ClosedIncident
  BY DEF ActiveIncidents, ClosedIncident
<1> HIDE DEF seen, to, found
<1>6. /\ to \in States \cup {"no_policy", "no_change"}
      /\ to = "no_policy" => flat \notin IncidentStates
      /\ to \in States => flat \in IncidentStates /\ to = found
      /\ to = "no_change" => found = flat
  BY <1>1, <1>2, <1>3, ResolvedTable DEF to, found
<1>7. "no_policy" \notin States /\ "no_change" \notin States
  BY DEF States, ContextualStates, CancellationStates, IncidentStates
<1>8. /\ flat' \in States
      /\ flat \in IncidentStates => flat' = found
      /\ flat \notin IncidentStates => flat' = flat
  BY <1>1, <1>3, <1>6, <1>7 DEF FlatAfter
<1>9. /\ found = "CRITICAL_INCIDENT" <=>
           \E x \in seen : x.status \notin ClosedIncident /\ x.severity = "CRITICAL"
      /\ found = "MAINTENANCE_REQUIRED" =>
           \E x \in seen : x.status \notin ClosedIncident /\ x.severity = "HIGH"
      /\ found \notin IncidentStates =>
           /\ found = after_cleaning_cancellation(Windowed(res), LiveTaskStatuses, now)
           /\ \A x \in seen : x.status \notin ClosedIncident
                => x.severity \notin {"HIGH", "CRITICAL"}
  BY IncidentRungs DEF found
<1>10. found \in IncidentStates => ActiveIncidents' # {}
  BY <1>4, <1>9 DEF IncidentStates
<1>11. found \notin IncidentStates => UrgentIncidents' = {}
  BY <1>5, <1>9 DEF UrgentIncidents
<1>12. found # "CRITICAL_INCIDENT" =>
         \A j \in ActiveIncidents' : inc'[j].severity # "CRITICAL"
  BY <1>5, <1>9
<1>13. "CRITICAL_INCIDENT" \in IncidentStates
  BY DEF IncidentStates
<1> QED
  BY <1>2, <1>8, <1>9, <1>10, <1>11, <1>12, <1>13
-----------------------------------------------------------------------------
(* Every variable keeps its type: no handler leaves a state off the        *)
(* machine or a status off its lifecycle.                                  *)
THEOREM TypeCorrect == Spec => []TypeOK
<1>1. Init => TypeOK
  BY LifecycleAssumption
  DEF Init, TypeOK, States, ContextualStates, CancellationStates,
      IncidentSeverities
<1>2. TypeOK /\ [Next]_vars => TypeOK'
  <2> SUFFICES ASSUME TypeOK, [Next]_vars PROVE TypeOK'
    OBVIOUS
  <2>0. {"AWAITING_CHECKIN", "VACANT_READY", "OCCUPIED_ESTIMATED", "AWAITING_CLEANING",
         "CLEANING_SCHEDULED", "CLEANING_IN_PROGRESS"}
           \cup FreeStates \cup IncidentStates \subseteq States
    BY DEF States, ContextualStates, CancellationStates, FreeStates
  <2> DEFINE TaskType == [status : TaskStatuses \cup {"none"},
                          stay : Reservations \cup {NoStay},
                          cleaner : Cleaners \cup {Nobody}]
             FlatOK == flat \in States
             TaskOK == task \in [Tasks -> TaskType]
             IncOK == inc \in [Incidents -> [status : IncidentStatuses \cup {"none"},
                                            severity : IncidentSeverities]]
             ResOK == res \in [Reservations ->
                         [id : Reservations, status : StayStatuses \cup {"none"},
                          start : Nat, end : Nat, ok : BOOLEAN]]
             NowOK == now \in 0 .. MaxTime
  <2>1. NowOK /\ FlatOK /\ ResOK /\ TaskOK /\ IncOK
    BY DEF TypeOK
  <2>2. NowOK' /\ FlatOK' /\ ResOK' /\ TaskOK' /\ IncOK' => TypeOK'
    BY DEF TypeOK
  <2>3. \A r \in Reservations \cup {NoStay}, c \in Cleaners \cup {Nobody},
            status \in LiveStatuses : NewTask(status, r, c) \in TaskType
    BY DEF NewTask, TaskStatuses
  <2>4. {"CREATED", "ASSIGNED", "ACCEPTED", "IN_PROGRESS"} \subseteq LiveStatuses
        /\ {"REJECTED", "COMPLETED", "CANCELLED"} \cup LiveStatuses \subseteq TaskStatuses
    BY DEF LiveStatuses, TaskStatuses
  <2>5. Fresh(task) \subseteq Tasks
    BY <2>1 DEF Fresh, Existing
  <2>6. \A r \in Reservations, status \in Statuses \cup {"PENDING"}, bounds \in Stays :
          StayWith(r, status, bounds)
            \in [id : Reservations, status : StayStatuses \cup {"none"},
                 start : Nat, end : Nat, ok : BOOLEAN]
    BY LifecycleAssumption DEF StayWith, StayStatuses
  <2>7. CASE Tick
    BY <2>1, <2>2, <2>7, LifecycleAssumption DEF Tick
  <2>8. CASE ClockJob
    <3>1. NowOK' /\ ResOK' /\ IncOK' /\ FlatOK'
      BY <2>0, <2>1, <2>8, ClockMoves
    <3>2. task' = task \/ \E t \in Tasks, r \in Reservations, c \in Cleaners \cup {Nobody},
                              status \in LiveStatuses :
                            task' = [task EXCEPT ![t] = NewTask(status, r, c)]
      BY <2>4, <2>5, <2>8, ClockMoves
    <3>3. ASSUME NEW t \in Tasks, NEW new \in TaskType, task' = [task EXCEPT ![t] = new]
          PROVE  TaskOK'
      <4> HIDE DEF TaskType
      <4> QED
        BY <2>1, <3>3
    <3>4. TaskOK'
      BY <2>1, <2>3, <3>2, <3>3
    <3> QED
      BY <2>2, <3>1, <3>4
  <2>9. CASE ReservationStep
    <3>1. NowOK' /\ TaskOK' /\ IncOK' /\ FlatOK'
      BY <2>0, <2>1, <2>9, ReservationMoves
    <3>2. ASSUME NEW r \in Reservations, CancelReservation(r)
          PROVE  ResOK'
      BY <2>1, <3>2 DEF CancelReservation, StayStatuses
    <3>3. ASSUME NEW r \in Reservations, NEW bounds \in Stays,
                 NEW status \in Statuses \cup {"PENDING"},
                 res' = [res EXCEPT ![r] = StayWith(r, status, bounds)]
          PROVE  ResOK'
      <4> DEFINE new == StayWith(r, status, bounds)
      <4>1. new \in [id : Reservations, status : StayStatuses \cup {"none"},
                     start : Nat, end : Nat, ok : BOOLEAN]
        BY <2>6
      <4> HIDE DEF new
      <4> QED
        BY <2>1, <3>3, <4>1 DEF new
    <3>4. ResOK'
      BY <2>9, <3>2, <3>3
      DEF ReservationStep, CreateReservation, UpdateReservation, IngestNew, IngestKnown
    <3> QED
      BY <2>2, <3>1, <3>4
  <2>10. CASE CleaningStep
    <3>1. PICK t \in Tasks :
            \/ \E r \in Reservations \cup {NoStay} : CreateCleaningTask(t, r)
            \/ \E c \in Cleaners : AssignCleaningTask(t, c)
            \/ AcceptCleaningTask(t)
            \/ \E u \in Tasks : RejectCleaningTask(t, u)
            \/ StartCleaningTask(t)
            \/ CompleteCleaningTask(t)
            \/ CancelCleaningTask(t)
      BY <2>10 DEF CleaningStep
    <3>2. ASSUME NEW r \in Reservations \cup {NoStay}, CreateCleaningTask(t, r)
          PROVE  TypeOK'
      <4>1. task' = [task EXCEPT ![t] = NewTask("CREATED", r, Nobody)]
        BY <3>2 DEF CreateCleaningTask
      <4>2. TaskOK'
        BY <2>1, <2>3, <2>4, <4>1
      <4> QED
        BY <2>1, <2>2, <3>2, <4>2 DEF CreateCleaningTask
    <3>3. ASSUME NEW c \in Cleaners, AssignCleaningTask(t, c)
          PROVE  TypeOK'
      <4> DEFINE new == NewTask("ASSIGNED", task[t].stay, c)
      <4>0. new \in TaskType /\ task' = [task EXCEPT ![t] = new]
        BY <2>1, <2>3, <2>4, <3>3 DEF AssignCleaningTask
      <4> HIDE DEF new
      <4>1. TaskOK'
        BY <2>1, <4>0
      <4> QED
        BY <2>0, <2>1, <2>2, <3>3, <4>1, AssignMoves DEF AssignCleaningTask
    <3>4. CASE AcceptCleaningTask(t)
      <4>1. TaskOK'
        BY <2>1, <2>4, <3>4 DEF AcceptCleaningTask
      <4> QED
        BY <2>1, <2>2, <3>4, <4>1 DEF AcceptCleaningTask
    <3>5. ASSUME NEW u \in Tasks, RejectCleaningTask(t, u)
          PROVE  TypeOK'
      <4> DEFINE new == NewTask("CREATED", task[t].stay, Nobody)
      <4>1. new \in TaskType
        BY <2>1, <2>3, <2>4
      <4>2. task' = [task EXCEPT ![t].status = "REJECTED", ![u] = new]
        BY <3>5 DEF RejectCleaningTask
      <4> HIDE DEF new
      <4>3. TaskOK'
        BY <2>1, <2>4, <4>1, <4>2
      <4> QED
        BY <2>0, <2>1, <2>2, <3>5, <4>3, RejectMoves DEF RejectCleaningTask
    <3>6. CASE StartCleaningTask(t)
      <4>1. TaskOK'
        BY <2>1, <2>4, <3>6 DEF StartCleaningTask
      <4> QED
        BY <2>0, <2>1, <2>2, <3>6, <4>1, StartMoves DEF StartCleaningTask
    <3>7. CASE CompleteCleaningTask(t)
      <4>1. TaskOK'
        BY <2>1, <2>4, <3>7 DEF CompleteCleaningTask
      <4> QED
        BY <2>0, <2>1, <2>2, <3>7, <4>1, CompleteMoves DEF CompleteCleaningTask
    <3>8. CASE CancelCleaningTask(t)
      <4> DEFINE cancelled == [task EXCEPT ![t].status = "CANCELLED"]
                 new == NewTask("CREATED", task[t].stay, Nobody)
      <4>0. new \in TaskType
        BY <2>1, <2>3, <2>4
      <4>1. cancelled \in [Tasks -> TaskType]
        BY <2>1, <2>4
      <4>2. \/ task' = cancelled
            \/ \E u \in Fresh(task) : task' = [cancelled EXCEPT ![u] = new]
        BY <3>8 DEF CancelCleaningTask
      <4> HIDE DEF cancelled, new
      <4>3. TaskOK'
        BY <2>5, <4>0, <4>1, <4>2
      <4> QED
        BY <2>1, <2>2, <3>8, <4>3, CancelMoves DEF CancelCleaningTask
    <3> QED
      BY <3>1, <3>2, <3>3, <3>4, <3>5, <3>6, <3>7, <3>8
  <2>11. CASE IncidentStep
    <3>1. PICK i \in Incidents :
            \/ ReportIncident(i)
            \/ \E severity \in Severities :
                 ClassifyIncident(i, severity) \/ TriageIncident(i, severity)
            \/ ResolveIncident(i)
            \/ CancelIncident(i)
      BY <2>11 DEF IncidentStep
    <3>2. IncOK' /\ NowOK' /\ ResOK' /\ TaskOK'
      BY <2>1, <3>1, LifecycleAssumption
      DEF ReportIncident, ClassifyIncident, TriageIncident, ResolveIncident,
          CancelIncident, IncidentStatuses, IncidentSeverities, ClosedIncident
    <3>3. CASE ReportIncident(i)
      BY <2>1, <2>2, <3>2, <3>3 DEF ReportIncident
    <3>4. ASSUME NEW severity \in Severities, ClassifyIncident(i, severity)
          PROVE  TypeOK'
      BY <2>0, <2>1, <2>2, <3>2, <3>4, ClassifyMoves
    <3>5. ASSUME NEW severity \in Severities, TriageIncident(i, severity)
          PROVE  TypeOK'
      BY <2>1, <2>2, <3>2, <3>5 DEF TriageIncident
    <3>6. CASE ResolveIncident(i) \/ CancelIncident(i)
      BY <2>2, <3>2, <3>6, CloseMoves
    <3> QED
      BY <3>1, <3>3, <3>4, <3>5, <3>6
  <2>12. CASE UNCHANGED vars
    BY <2>12 DEF TypeOK, vars
  <2> QED
    BY <2>7, <2>8, <2>9, <2>10, <2>11, <2>12 DEF Next
<1> QED
  BY <1>1, <1>2, PTL DEF Spec
-----------------------------------------------------------------------------
(* What the status of a task can become in a cleaning step, for the tasks  *)
(* the step does not name.                                                 *)
LEMMA OtherTasks ==
    ASSUME TypeOK, NEW t \in Tasks, NEW v \in Tasks, v # t,
           \/ \E c \in Cleaners : AssignCleaningTask(t, c)
           \/ AcceptCleaningTask(t)
           \/ StartCleaningTask(t)
           \/ CompleteCleaningTask(t)
    PROVE  task'[v] = task[v]
BY DEF TypeOK, AssignCleaningTask, AcceptCleaningTask, StartCleaningTask,
       CompleteCleaningTask

(* A task that is created takes an identifier no task had.                 *)
LEMMA FreshTasks ==
    ASSUME TypeOK
    PROVE  /\ Fresh(task) \subseteq Tasks
           /\ \A t \in Fresh(task) : task[t].status = "none"
BY DEF TypeOK, Fresh, Existing

(* The flat is never scheduled or in cleaning without a task that is: the  *)
(* triggers that enter those states come with the task, and every handler  *)
(* that ends such a task moves the flat out of them.                       *)
THEOREM CleaningAlwaysBacked == Spec => []CleaningIsBacked
<1>1. Init => CleaningIsBacked
  BY DEF Init, CleaningIsBacked
<1>2. TypeOK /\ TypeOK' /\ CleaningIsBacked /\ [Next]_vars => CleaningIsBacked'
  <2> SUFFICES ASSUME TypeOK, TypeOK', CleaningIsBacked, [Next]_vars
               PROVE  CleaningIsBacked'
    OBVIOUS
  <2>1. CASE Tick \/ UNCHANGED vars
    BY <2>1 DEF Tick, vars, CleaningIsBacked
  <2>2. CASE ClockJob
    <3>1. CASE flat' \notin {"CLEANING_SCHEDULED", "CLEANING_IN_PROGRESS"}
      BY <3>1 DEF CleaningIsBacked
    <3>2. CASE flat' \in {"CLEANING_SCHEDULED", "CLEANING_IN_PROGRESS"}
      <4>1. /\ flat' = "CLEANING_SCHEDULED"
            /\ \E r \in Reservations, t \in Fresh(task), c \in Cleaners :
                  task' = [task EXCEPT ![t] = NewTask("ASSIGNED", r, c)]
        BY <2>2, <3>2, ClockMoves
      <4>2. PICK t \in Tasks : task'[t].status = "ASSIGNED"
        BY <4>1, FreshTasks DEF TypeOK, NewTask
      <4> QED
        BY <4>1, <4>2 DEF CleaningIsBacked
    <3> QED
      BY <3>1, <3>2
  <2>3. CASE ReservationStep
    BY <2>3, ReservationMoves DEF CleaningIsBacked
  <2>4. CASE CleaningStep
    <3>1. PICK t \in Tasks :
            \/ \E r \in Reservations \cup {NoStay} : CreateCleaningTask(t, r)
            \/ \E c \in Cleaners : AssignCleaningTask(t, c)
            \/ AcceptCleaningTask(t)
            \/ \E u \in Tasks : RejectCleaningTask(t, u)
            \/ StartCleaningTask(t)
            \/ CompleteCleaningTask(t)
            \/ CancelCleaningTask(t)
      BY <2>4 DEF CleaningStep
    <3>2. ASSUME NEW r \in Reservations \cup {NoStay}, CreateCleaningTask(t, r)
          PROVE  CleaningIsBacked'
      <4>1. flat' = flat /\ task[t].status = "none"
             /\ \A v \in Tasks \ {t} : task'[v] = task[v]
        BY <3>2, FreshTasks DEF CreateCleaningTask, TypeOK
      <4> QED
        BY <4>1 DEF CleaningIsBacked
    <3>3. ASSUME NEW c \in Cleaners, AssignCleaningTask(t, c)
          PROVE  CleaningIsBacked'
      <4>1. task'[t].status = "ASSIGNED" /\ task[t].status # "IN_PROGRESS"
        BY <3>3 DEF AssignCleaningTask, NewTask, TypeOK
      <4> QED
        BY <3>3, <4>1, AssignMoves, OtherTasks DEF CleaningIsBacked
    <3>4. CASE AcceptCleaningTask(t)
      <4>1. flat' = flat /\ task'[t].status = "ACCEPTED" /\ task[t].status = "ASSIGNED"
        BY <3>4 DEF AcceptCleaningTask, TypeOK
      <4> QED
        BY <3>4, <4>1, OtherTasks DEF CleaningIsBacked
    <3>5. ASSUME NEW u \in Tasks, RejectCleaningTask(t, u)
          PROVE  CleaningIsBacked'
      BY <3>5, RejectMoves DEF CleaningIsBacked
    <3>6. CASE StartCleaningTask(t)
      <4>1. task'[t].status = "IN_PROGRESS"
        BY <3>6 DEF StartCleaningTask, TypeOK
      <4> QED
        BY <3>6, <4>1, StartMoves DEF CleaningIsBacked
    <3>7. CASE CompleteCleaningTask(t)
      BY <3>7, CompleteMoves DEF CleaningIsBacked, FreeStates
    <3>8. CASE CancelCleaningTask(t)
      BY <3>8, CancelMoves DEF CleaningIsBacked
    <3> QED
      BY <3>1, <3>2, <3>3, <3>4, <3>5, <3>6, <3>7, <3>8
  <2>5. CASE IncidentStep
    <3>1. PICK i \in Incidents :
            \/ ReportIncident(i)
            \/ \E severity \in Severities :
                 ClassifyIncident(i, severity) \/ TriageIncident(i, severity)
            \/ ResolveIncident(i)
            \/ CancelIncident(i)
      BY <2>5 DEF IncidentStep
    <3>2. ASSUME NEW severity \in Severities, 
                 \/ ReportIncident(i) \/ TriageIncident(i, severity)
                 \/ ClassifyIncident(i, severity)
          PROVE  task' = task /\ (flat' = flat \/ flat' \in IncidentStates)
      BY <3>2, ClassifyMoves DEF ReportIncident, TriageIncident, ClassifyIncident
    <3>3. CASE ResolveIncident(i) \/ CancelIncident(i)
      <4>1. task' = task
        BY <3>3, CloseMoves
      <4>2. \/ flat' = flat
            \/ flat' \in IncidentStates
            \/ flat' = after_cleaning_cancellation(Windowed(res), LiveTaskStatuses, now)
        BY <3>3, CloseMoves
      <4>3. ASSUME flat' = after_cleaning_cancellation(Windowed(res), LiveTaskStatuses, now)
            PROVE  CleaningIsBacked'
        <5>1. /\ flat' = "CLEANING_IN_PROGRESS" <=> "IN_PROGRESS" \in LiveTaskStatuses
              /\ flat' # "CLEANING_SCHEDULED"
          BY <4>3, CancellationRungs
        <5> QED
          BY <4>1, <5>1 DEF CleaningIsBacked, LiveTaskStatuses
      <4> QED
        BY <4>1, <4>2, <4>3 DEF CleaningIsBacked, IncidentStates
    <3>4. CASE ReportIncident(i)
      BY <3>4 DEF ReportIncident, CleaningIsBacked
    <3> QED
      BY <3>1, <3>2, <3>3, <3>4 DEF CleaningIsBacked, IncidentStates
  <2> QED
    BY <2>1, <2>2, <2>3, <2>4, <2>5 DEF Next
<1> QED
  BY <1>1, <1>2, TypeCorrect, PTL DEF Spec

(* A flat out of order for an incident always has an incident that is not  *)
(* closed, so that closing it can bring the flat back.                     *)
THEOREM IncidentStateAlwaysBacked == Spec => []IncidentStateIsBacked
<1>1. Init => IncidentStateIsBacked
  BY DEF Init, IncidentStateIsBacked, IncidentStates
<1>2. TypeOK /\ TypeOK' /\ IncidentStateIsBacked /\ [Next]_vars
        => IncidentStateIsBacked'
  <2> SUFFICES ASSUME TypeOK, TypeOK', IncidentStateIsBacked, [Next]_vars
               PROVE  IncidentStateIsBacked'
    OBVIOUS
  <2>1. CASE Tick \/ UNCHANGED vars
    BY <2>1 DEF Tick, vars, IncidentStateIsBacked, ActiveIncidents
  <2>2. CASE ClockJob
    BY <2>2, ClockMoves DEF IncidentStateIsBacked, IncidentStates
  <2>3. CASE ReservationStep
    BY <2>3, ReservationMoves DEF IncidentStateIsBacked, IncidentStates,
                                  ActiveIncidents
  <2>4. CASE CleaningStep
    <3>1. inc' = inc
      BY <2>4 DEF CleaningStep, CreateCleaningTask, AssignCleaningTask,
                  AcceptCleaningTask, RejectCleaningTask, StartCleaningTask,
                  CompleteCleaningTask, CancelCleaningTask
    <3>2. flat' = flat \/ flat' \notin IncidentStates
      BY <2>4, AssignMoves, RejectMoves, StartMoves, CompleteMoves, CancelMoves
      DEF CleaningStep, CreateCleaningTask, AcceptCleaningTask, FreeStates,
          IncidentStates
    <3> QED
      BY <3>1, <3>2 DEF IncidentStateIsBacked, ActiveIncidents
  <2>5. CASE IncidentStep
    <3>1. PICK i \in Incidents :
            \/ ReportIncident(i)
            \/ \E severity \in Severities :
                 ClassifyIncident(i, severity) \/ TriageIncident(i, severity)
            \/ ResolveIncident(i)
            \/ CancelIncident(i)
      BY <2>5 DEF IncidentStep
    <3>2. CASE \E severity \in Severities :
                 ClassifyIncident(i, severity) \/ TriageIncident(i, severity)
      <4>1. inc'[i].status \in {"OPEN", "CLASSIFIED"}
        BY <3>2 DEF ClassifyIncident, TriageIncident, ActiveIncidents, TypeOK
      <4> QED
        BY <4>1 DEF IncidentStateIsBacked, ActiveIncidents
    <3>3. CASE ReportIncident(i)
      <4>1. inc'[i].status = "OPEN"
        BY <3>3 DEF ReportIncident, TypeOK
      <4> QED
        BY <4>1 DEF IncidentStateIsBacked, ActiveIncidents
    <3>4. CASE ResolveIncident(i) \/ CancelIncident(i)
      BY <3>4, CloseMoves DEF IncidentStateIsBacked
    <3> QED
      BY <3>1, <3>2, <3>3, <3>4
  <2> QED
    BY <2>1, <2>2, <2>3, <2>4, <2>5 DEF Next
<1> QED
  BY <1>1, <1>2, TypeCorrect, PTL DEF Spec

(* Two ways a step keeps the live tasks of a stay to one: it makes none    *)
(* live, or it makes one live for a stay that had no other.                *)
LEMMA NoNewLiveTask ==
    ASSUME OneLiveCleaningPerStay,
           \A v \in Tasks : task'[v].status \in LiveStatuses =>
               task[v].status \in LiveStatuses /\ task'[v].stay = task[v].stay
    PROVE  OneLiveCleaningPerStay'
BY DEF OneLiveCleaningPerStay

LEMMA OneNewLiveTask ==
    ASSUME OneLiveCleaningPerStay, NEW u \in Tasks, NEW r,
           task'[u].stay = r,
           \A v \in Tasks \ {u} : task'[v].status \in LiveStatuses =>
               /\ task[v].status \in LiveStatuses /\ task'[v].stay = task[v].stay
               /\ r # NoStay => task[v].stay # r
    PROVE  OneLiveCleaningPerStay'
BY DEF OneLiveCleaningPerStay

(* No stay has two live cleanings: provisioning, creation, rejection and   *)
(* cancellation agree, so the unique index never has to refuse one.        *)
THEOREM AlwaysOneLiveCleaning == Spec => []OneLiveCleaningPerStay
<1>1. Init => OneLiveCleaningPerStay
  BY DEF Init, OneLiveCleaningPerStay, LiveStatuses
<1>2. TypeOK /\ TypeOK' /\ OneLiveCleaningPerStay /\ [Next]_vars
        => OneLiveCleaningPerStay'
  <2> SUFFICES ASSUME TypeOK, TypeOK', OneLiveCleaningPerStay, [Next]_vars
               PROVE  OneLiveCleaningPerStay'
    OBVIOUS
  <2>0. {"CREATED", "ASSIGNED", "ACCEPTED", "IN_PROGRESS"} = LiveStatuses
        /\ {"REJECTED", "COMPLETED", "CANCELLED", "none"} \cap LiveStatuses = {}
    BY DEF LiveStatuses
  <2>1. ASSUME task' = task PROVE OneLiveCleaningPerStay'
    BY <2>1 DEF OneLiveCleaningPerStay
  <2>2. CASE ClockJob
    <3>1. CASE task' = task
      BY <2>1, <3>1
    <3>2. CASE task' # task
      <4>1. PICK r \in Reservations, t \in Fresh(task) :
              /\ LiveTasksOf(r) = {}
              /\ \E status \in LiveStatuses, c \in Cleaners \cup {Nobody} :
                   task' = [task EXCEPT ![t] = NewTask(status, r, c)]
        BY <2>0, <2>2, <3>2, ClockMoves
      <4>2. /\ t \in Tasks /\ task'[t].stay = r
            /\ \A v \in Tasks \ {t} : task'[v] = task[v]
        BY <4>1, FreshTasks DEF TypeOK, NewTask
      <4> QED
        BY <4>1, <4>2, OneNewLiveTask DEF LiveTasksOf
    <3> QED
      BY <3>1, <3>2
  <2>3. CASE Tick \/ ReservationStep \/ IncidentStep \/ UNCHANGED vars
    <3>1. task' = task
      BY <2>3, ReservationMoves
      DEF Tick, vars, IncidentStep, ReportIncident, ClassifyIncident, TriageIncident,
          ResolveIncident, CancelIncident
    <3> QED
      BY <2>1, <3>1
  <2>4. CASE CleaningStep
    <3>1. PICK t \in Tasks :
            \/ \E r \in Reservations \cup {NoStay} : CreateCleaningTask(t, r)
            \/ \E c \in Cleaners : AssignCleaningTask(t, c)
            \/ AcceptCleaningTask(t)
            \/ \E u \in Tasks : RejectCleaningTask(t, u)
            \/ StartCleaningTask(t)
            \/ CompleteCleaningTask(t)
            \/ CancelCleaningTask(t)
      BY <2>4 DEF CleaningStep
    <3>2. ASSUME NEW r \in Reservations \cup {NoStay}, CreateCleaningTask(t, r)
          PROVE  OneLiveCleaningPerStay'
      <4>1. /\ task'[t].stay = r
            /\ r # NoStay => LiveTasksOf(r) = {}
            /\ \A v \in Tasks \ {t} : task'[v] = task[v]
        BY <3>2 DEF CreateCleaningTask, TypeOK, NewTask
      <4> QED
        BY <4>1, OneNewLiveTask DEF LiveTasksOf
    <3>3. ASSUME NEW c \in Cleaners, AssignCleaningTask(t, c)
          PROVE  OneLiveCleaningPerStay'
      <4>1. task[t].status \in LiveStatuses /\ task'[t].stay = task[t].stay
        BY <2>0, <3>3 DEF AssignCleaningTask, TypeOK, NewTask
      <4> QED
        BY <3>3, <4>1, OtherTasks, NoNewLiveTask
    <3>4. CASE AcceptCleaningTask(t) \/ StartCleaningTask(t) \/ CompleteCleaningTask(t)
      <4>1. task[t].status \in LiveStatuses /\ task'[t].stay = task[t].stay
        BY <2>0, <3>4 DEF AcceptCleaningTask, StartCleaningTask, CompleteCleaningTask, TypeOK
      <4> QED
        BY <3>4, <4>1, OtherTasks, NoNewLiveTask
    <3>5. ASSUME NEW u \in Tasks, RejectCleaningTask(t, u)
          PROVE  OneLiveCleaningPerStay'
      <4> DEFINE r == task[t].stay
      <4>1. task[t].status \in LiveStatuses /\ u # t
        BY <2>0, <3>5, FreshTasks DEF RejectCleaningTask
      <4>2. /\ task'[u].stay = r /\ task'[t].status \notin LiveStatuses
            /\ \A v \in Tasks \ {t, u} : task'[v] = task[v]
        BY <2>0, <3>5, <4>1 DEF RejectCleaningTask, TypeOK, NewTask
      <4>3. \A v \in Tasks \ {t} :
               task[v].status \in LiveStatuses /\ r # NoStay => task[v].stay # r
        BY <4>1 DEF OneLiveCleaningPerStay
      <4> QED
        BY <4>2, <4>3, OneNewLiveTask
    <3>6. CASE CancelCleaningTask(t)
      <4> DEFINE r == task[t].stay
      <4>1. CASE ~NeedsReplacement(t)
        <5>1. /\ task'[t].status \notin LiveStatuses
              /\ \A v \in Tasks \ {t} : task'[v] = task[v]
          BY <2>0, <3>6, <4>1 DEF CancelCleaningTask, TypeOK
        <5> QED
          BY <5>1, NoNewLiveTask
      <4>2. CASE NeedsReplacement(t)
        <5>1. PICK u \in Fresh(task) :
                task' = [[task EXCEPT ![t].status = "CANCELLED"]
                           EXCEPT ![u] = NewTask("CREATED", task[t].stay, Nobody)]
          BY <3>6, <4>2 DEF CancelCleaningTask
        <5>2. u # t /\ u \in Tasks
          BY <2>0, <3>6, FreshTasks DEF CancelCleaningTask
        <5>3. /\ task'[u].stay = r /\ task'[t].status \notin LiveStatuses
              /\ \A v \in Tasks \ {t, u} : task'[v] = task[v]
          BY <2>0, <5>1, <5>2 DEF TypeOK, NewTask
        <5>4. \A v \in Tasks \ {t} :
                 task[v].status \in LiveStatuses /\ r # NoStay => task[v].stay # r
          BY <4>2 DEF NeedsReplacement, LiveTasksOf
        <5> QED
          BY <5>2, <5>3, <5>4, OneNewLiveTask
      <4> QED
        BY <4>1, <4>2
    <3> QED
      BY <3>1, <3>2, <3>3, <3>4, <3>5, <3>6
  <2> QED
    BY <2>2, <2>3, <2>4 DEF Next
<1> QED
  BY <1>1, <1>2, TypeCorrect, PTL DEF Spec

(* A flat out of order only leaves when no urgent incident is active, and  *)
(* is only downgraded when no critical one is.                             *)
THEOREM UrgentIncidentAlwaysHolds == Spec => UrgentIncidentHoldsTheFlat
<1>1. TypeOK /\ TypeOK' /\ [Next]_vars =>
        [/\ (flat \in IncidentStates /\ flat' \notin IncidentStates)
              => UrgentIncidents' = {}
         /\ (flat = "CRITICAL_INCIDENT" /\ flat' # "CRITICAL_INCIDENT")
              => \A i \in UrgentIncidents' : inc'[i].severity # "CRITICAL"]_vars
  <2> SUFFICES ASSUME TypeOK, TypeOK', Next
               PROVE  /\ (flat \in IncidentStates /\ flat' \notin IncidentStates)
                            => UrgentIncidents' = {}
                      /\ (flat = "CRITICAL_INCIDENT" /\ flat' # "CRITICAL_INCIDENT")
                            => \A i \in UrgentIncidents' : inc'[i].severity # "CRITICAL"
    OBVIOUS
  <2>1. "CRITICAL_INCIDENT" \in IncidentStates /\ UrgentIncidents' \subseteq ActiveIncidents'
    BY DEF IncidentStates, UrgentIncidents
  <2>2. CASE Tick \/ ClockJob \/ ReservationStep \/ CleaningStep
    <3>1. flat' = flat \/ flat \notin IncidentStates
      BY <2>2, ClockMoves, ReservationMoves, AssignMoves, RejectMoves, StartMoves,
         CompleteMoves, CancelMoves
      DEF Tick, CleaningStep, CreateCleaningTask, AcceptCleaningTask, IncidentStates
    <3> QED
      BY <2>1, <3>1
  <2>3. ASSUME NEW i \in Incidents, ResolveIncident(i) \/ CancelIncident(i)
        PROVE  /\ (flat \in IncidentStates /\ flat' \notin IncidentStates)
                     => UrgentIncidents' = {}
               /\ (flat = "CRITICAL_INCIDENT" /\ flat' # "CRITICAL_INCIDENT")
                     => \A j \in UrgentIncidents' : inc'[j].severity # "CRITICAL"
    BY <2>1, <2>3, CloseMoves
  <2>4. ASSUME NEW i \in Incidents, NEW severity \in Severities,
               ClassifyIncident(i, severity)
        PROVE  /\ ~(flat \in IncidentStates /\ flat' \notin IncidentStates)
               /\ (flat = "CRITICAL_INCIDENT" /\ flat' # "CRITICAL_INCIDENT")
                     => \A j \in UrgentIncidents' : inc'[j].severity # "CRITICAL"
    BY <2>4, ClassifyMoves DEF UrgentIncidents, ActiveIncidents
  <2>5. ASSUME NEW i \in Incidents,
               \/ ReportIncident(i)
               \/ \E severity \in Severities : TriageIncident(i, severity)
        PROVE  flat' = flat
    BY <2>5 DEF ReportIncident, TriageIncident
  <2> QED
    BY <2>1, <2>2, <2>3, <2>4, <2>5 DEF Next, IncidentStep
<1> QED
  BY <1>1, TypeCorrect, PTL DEF Spec, UrgentIncidentHoldsTheFlat

(* Nothing that ends a cleaning or an incident declares the flat free      *)
(* while a stay is running in it.                                          *)
THEOREM NeverReleasedOverAGuest == Spec => NoReleaseOverAGuest
<1>1. TypeOK /\ TypeOK' /\ [Next]_vars =>
        [(flat \notin FreeStates /\ flat' \in FreeStates)
           => ActiveStays(Windowed(res), now) = {}]_vars
  <2> SUFFICES ASSUME TypeOK, TypeOK', Next, flat \notin FreeStates, flat' \in FreeStates
               PROVE  ActiveStays(Windowed(res), now) = {}
    OBVIOUS
  <2>1. ~Tick /\ ~ClockJob /\ ~ReservationStep
    BY ClockMoves, ReservationMoves DEF Tick, FreeStates
  <2>2. CASE CleaningStep
    BY <2>2, AssignMoves, RejectMoves, StartMoves, CompleteMoves, CancelMoves
    DEF CleaningStep, CreateCleaningTask, AcceptCleaningTask, FreeStates
  <2>3. ASSUME NEW i \in Incidents, ResolveIncident(i) \/ CancelIncident(i)
        PROVE  ActiveStays(Windowed(res), now) = {}
    <3>1. flat' = after_cleaning_cancellation(Windowed(res), LiveTaskStatuses, now)
      BY <2>3, CloseMoves DEF FreeStates, IncidentStates
    <3> QED
      BY <3>1, CancellationRungs DEF FreeStates
  <2>4. ~\E i \in Incidents :
            \/ ReportIncident(i)
            \/ \E severity \in Severities :
                 ClassifyIncident(i, severity) \/ TriageIncident(i, severity)
    BY ClassifyMoves DEF ReportIncident, TriageIncident, FreeStates, IncidentStates
  <2> QED
    BY <2>1, <2>2, <2>3, <2>4 DEF Next, IncidentStep
<1> QED
  BY <1>1, TypeCorrect, PTL DEF Spec, NoReleaseOverAGuest

(* Where every checkout provisions its cleaning, a flat that awaits one    *)
(* always has a live task: the rejection and the cancellation replace it.  *)
THEOREM AwaitingAlwaysCovered == Spec => []AwaitingCleaningIsCovered
<1>1. Init => AwaitingCleaningIsCovered
  BY DEF Init, AwaitingCleaningIsCovered
<1>2. TypeOK /\ TypeOK' /\ AwaitingCleaningIsCovered /\ [Next]_vars
        => AwaitingCleaningIsCovered'
  <2> SUFFICES ASSUME TypeOK, TypeOK', AwaitingCleaningIsCovered, [Next]_vars,
                      Provisioned = Reservations, flat' = "AWAITING_CLEANING"
               PROVE  \E v \in Tasks : task'[v].status \in LiveStatuses
    BY DEF AwaitingCleaningIsCovered
  <2>0. {"CREATED", "ASSIGNED", "ACCEPTED", "IN_PROGRESS"} = LiveStatuses
    BY DEF LiveStatuses
  <2>1. ASSUME flat' = flat PROVE \E v \in Tasks : task[v].status \in LiveStatuses
    BY <2>1 DEF AwaitingCleaningIsCovered
  <2>2. CASE Tick \/ ReservationStep \/ UNCHANGED vars
    BY <2>1, <2>2, ReservationMoves DEF Tick, vars
  <2>3. CASE ClockJob
    <3>1. CASE task' = task
      <4>1. \E r \in Reservations : LiveTasksOf(r) # {}
        <5>1. \/ \E r \in Reservations : r \notin Provisioned \/ LiveTasksOf(r) # {}
              \/ \E r \in Reservations, t \in Fresh(task) :
                    \/ task' = [task EXCEPT ![t] = NewTask("CREATED", r, Nobody)]
                    \/ \E c \in Cleaners :
                          task' = [task EXCEPT ![t] = NewTask("ASSIGNED", r, c)]
          BY <2>3, ClockMoves
        <5>2. ASSUME NEW r \in Reservations, NEW t \in Fresh(task),
                     NEW c \in Cleaners \cup {Nobody}, NEW status \in LiveStatuses,
                     task' = [task EXCEPT ![t] = NewTask(status, r, c)]
              PROVE  FALSE
          <6>1. t \in Tasks /\ task[t].status = "none" /\ task'[t].status = status
            BY <5>2, FreshTasks DEF TypeOK, NewTask
          <6> QED
            BY <3>1, <6>1 DEF LiveStatuses
        <5> QED
          BY <2>0, <5>1, <5>2
      <4> QED
        BY <3>1, <4>1 DEF LiveTasksOf
    <3>2. CASE task' # task
      <4>1. PICK t \in Fresh(task), status \in LiveStatuses, r \in Reservations,
                 c \in Cleaners \cup {Nobody} :
              task' = [task EXCEPT ![t] = NewTask(status, r, c)]
        BY <2>0, <2>3, <3>2, ClockMoves
      <4>2. t \in Tasks /\ task'[t].status = status
        BY <4>1, FreshTasks DEF TypeOK, NewTask
      <4> QED
        BY <4>2
    <3> QED
      BY <3>1, <3>2
  <2>4. CASE CleaningStep
    <3>1. PICK t \in Tasks :
            \/ \E r \in Reservations \cup {NoStay} : CreateCleaningTask(t, r)
            \/ \E c \in Cleaners : AssignCleaningTask(t, c)
            \/ AcceptCleaningTask(t)
            \/ \E u \in Tasks : RejectCleaningTask(t, u)
            \/ StartCleaningTask(t)
            \/ CompleteCleaningTask(t)
            \/ CancelCleaningTask(t)
      BY <2>4 DEF CleaningStep
    <3>2. CASE \/ \E r \in Reservations \cup {NoStay} : CreateCleaningTask(t, r)
               \/ \E c \in Cleaners : AssignCleaningTask(t, c)
               \/ AcceptCleaningTask(t)
      <4>1. task'[t].status \in LiveStatuses
        BY <2>0, <3>2
        DEF CreateCleaningTask, AssignCleaningTask, AcceptCleaningTask, TypeOK, NewTask
      <4> QED
        BY <4>1
    <3>3. ASSUME NEW u \in Tasks, RejectCleaningTask(t, u)
          PROVE  task'[u].status \in LiveStatuses
      BY <2>0, <3>3 DEF RejectCleaningTask, TypeOK, NewTask
    <3>4. ~StartCleaningTask(t) /\ ~CompleteCleaningTask(t)
      BY StartMoves, CompleteMoves DEF FreeStates
    <3>5. ASSUME CancelCleaningTask(t)
          PROVE  \E u \in Tasks : task'[u].status \in LiveStatuses
      <4>1. NeedsReplacement(t)
        BY <3>5, CancelMoves
      <4>2. PICK u \in Fresh(task) :
              task' = [[task EXCEPT ![t].status = "CANCELLED"]
                         EXCEPT ![u] = NewTask("CREATED", task[t].stay, Nobody)]
        BY <3>5, <4>1 DEF CancelCleaningTask
      <4>3. u \in Tasks /\ task'[u].status = "CREATED"
        BY <4>2, FreshTasks DEF TypeOK, NewTask
      <4> QED
        BY <2>0, <4>3
    <3> QED
      BY <3>1, <3>2, <3>3, <3>4, <3>5
  <2>5. CASE IncidentStep
    <3>1. PICK i \in Incidents :
            \/ ReportIncident(i)
            \/ \E severity \in Severities :
                 ClassifyIncident(i, severity) \/ TriageIncident(i, severity)
            \/ ResolveIncident(i)
            \/ CancelIncident(i)
      BY <2>5 DEF IncidentStep
    <3>2. task' = task
      BY <3>1 DEF ReportIncident, ClassifyIncident, TriageIncident, ResolveIncident,
                  CancelIncident
    <3>3. CASE flat' = flat
      BY <2>1, <3>2, <3>3
    <3>4. CASE flat' # flat
      <4>1. "AWAITING_CLEANING" \notin IncidentStates
        BY DEF IncidentStates
      <4>2. flat' = after_cleaning_cancellation(Windowed(res), LiveTaskStatuses, now)
        BY <3>1, <3>4, <4>1, ClassifyMoves, CloseMoves DEF ReportIncident, TriageIncident
      <4>3. LiveTaskStatuses \cap {"CREATED", "ASSIGNED", "ACCEPTED"} # {}
        BY <4>2, CancellationRungs
      <4> QED
        BY <3>2, <4>3 DEF LiveTaskStatuses
    <3> QED
      BY <3>3, <3>4
  <2> QED
    BY <2>2, <2>3, <2>4, <2>5 DEF Next
<1> QED
  BY <1>1, <1>2, TypeCorrect, PTL DEF Spec
-----------------------------------------------------------------------------
(* Every state of a flat that speaks of a cleaning has its task: one that  *)
(* is scheduled, one that is started, or one that still can be.            *)
THEOREM CleaningStatesAlwaysBacked == Spec => []CleaningStatesAreBacked
  BY CleaningAlwaysBacked, AwaitingAlwaysCovered, PTL DEF CleaningStatesAreBacked

(* A flat is out of order while its incidents justify it: one of them is   *)
(* active, and no urgent one is when it comes back.                        *)
THEOREM IncidentsAlwaysHold == Spec => IncidentsHoldTheFlat
  BY IncidentStateAlwaysBacked, UrgentIncidentAlwaysHolds, PTL DEF IncidentsHoldTheFlat
=============================================================================
