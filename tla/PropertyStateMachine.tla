------------------------ MODULE PropertyStateMachine ------------------------
(***************************************************************************)
(* The pure core of the properties component: the transition policy of a   *)
(* flat's operational state (state_machine.py), the resolver that reads    *)
(* the state a flat should be in off its stays, cleanings and incidents    *)
(* (state_resolution.py), and the check-in window (clock_triggers.py).     *)
(*                                                                         *)
(* Instants are naturals and a local day is SlotsPerDay of them.  A stay   *)
(* is a record [id, status, start, end, ok]; ok is FALSE when its local    *)
(* time does not exist or is ambiguous, which every reader of its bounds   *)
(* answers with IncompatibleTransitionContextError.  Of the cleaning tasks *)
(* the resolver reads the set of their statuses, of the incidents the set  *)
(* of their [status, severity].  An evaluation is the state the flat moves *)
(* to, or the refusal that stands for the exception raised.                *)
(***************************************************************************)
EXTENDS Naturals, FiniteSets

CONSTANT SlotsPerDay        \* instants of a local day

ASSUME SlotsAssumption == SlotsPerDay \in Nat \ {0}

Day(t) == t \div SlotsPerDay

(* PropertyOperationalState *)
CancellationStates ==
    { "CLEANING_IN_PROGRESS", "AWAITING_CLEANING", "OCCUPIED_ESTIMATED",
      "AWAITING_CHECKIN", "READY_FOR_NEXT_GUEST", "VACANT_READY" }
IncidentStates == {"CRITICAL_INCIDENT", "MAINTENANCE_REQUIRED"}
ContextualStates == CancellationStates \cup IncidentStates
States ==
    ContextualStates
        \cup {"CLEANING_SCHEDULED", "BLOCKED_BY_OWNER", "OUT_OF_SERVICE"}

(* PropertyStateTrigger *)
ClockTriggers ==
    {"CHECKIN_WINDOW_OPENED", "CHECKIN_TIME_REACHED", "CHECKOUT_TIME_REACHED"}
ReservationTriggers ==
    ClockTriggers \cup {"RESERVATION_CANCELLED_BEFORE_CHECKIN"}
CleaningTriggers ==
    { "CLEANER_ASSIGNED", "CLEANER_REJECTED", "CLEANING_STARTED",
      "CLEANING_COMPLETED", "CLEANING_CANCELLED" }
IncidentTriggers == {"INCIDENT_HIGH", "INCIDENT_CRITICAL", "INCIDENT_RESOLVED"}
ManualTriggers ==
    { "OWNER_BLOCKED", "PROPERTY_MARKED_OUT_OF_SERVICE",
      "OWNER_MANAGER_UNBLOCKED", "PROPERTY_REACTIVATED" }
Triggers ==
    ReservationTriggers \cup CleaningTriggers \cup IncidentTriggers
        \cup ManualTriggers

(* InvalidStateTransitionError without a policy entry and with one,        *)
(* IncompatibleTransitionContextError, NoOperationalStateChangeError.      *)
Refusals == {"no_policy", "not_allowed", "incompatible", "no_change"}

(* source_states_for: the states with a policy entry for the trigger. *)
SourceStates(trigger) ==
    CASE trigger = "CHECKIN_WINDOW_OPENED" ->
           {"VACANT_READY", "READY_FOR_NEXT_GUEST"}
      [] trigger \in {"CHECKIN_TIME_REACHED",
                      "RESERVATION_CANCELLED_BEFORE_CHECKIN"} ->
           {"AWAITING_CHECKIN"}
      [] trigger = "CHECKOUT_TIME_REACHED" -> {"OCCUPIED_ESTIMATED"}
      [] trigger = "CLEANER_ASSIGNED" -> {"AWAITING_CLEANING"}
      [] trigger \in {"CLEANER_REJECTED", "CLEANING_STARTED"} ->
           {"CLEANING_SCHEDULED"}
      [] trigger = "CLEANING_COMPLETED" -> {"CLEANING_IN_PROGRESS"}
      [] trigger = "CLEANING_CANCELLED" ->
           {"AWAITING_CLEANING", "CLEANING_SCHEDULED", "CLEANING_IN_PROGRESS"}
      [] trigger = "INCIDENT_HIGH" ->
           (ContextualStates \cup {"CLEANING_SCHEDULED"})
               \ {"MAINTENANCE_REQUIRED"}
      [] trigger = "INCIDENT_CRITICAL" ->
           (ContextualStates \cup {"CLEANING_SCHEDULED"})
               \ {"CRITICAL_INCIDENT"}
      [] trigger = "INCIDENT_RESOLVED" -> IncidentStates
      [] trigger = "OWNER_BLOCKED" ->
           IncidentStates \cup {"VACANT_READY", "AWAITING_CHECKIN",
                                "AWAITING_CLEANING", "READY_FOR_NEXT_GUEST"}
      [] trigger = "PROPERTY_MARKED_OUT_OF_SERVICE" -> {"VACANT_READY"}
      [] trigger = "OWNER_MANAGER_UNBLOCKED" -> {"BLOCKED_BY_OWNER"}
      [] trigger = "PROPERTY_REACTIVATED" -> {"OUT_OF_SERVICE"}

(* The single destination of the triggers whose policy rows name one. *)
FixedDestination(trigger) ==
    CASE trigger = "CHECKIN_WINDOW_OPENED" -> "AWAITING_CHECKIN"
      [] trigger = "CHECKIN_TIME_REACHED" -> "OCCUPIED_ESTIMATED"
      [] trigger \in {"CHECKOUT_TIME_REACHED", "CLEANER_REJECTED"} ->
           "AWAITING_CLEANING"
      [] trigger \in {"RESERVATION_CANCELLED_BEFORE_CHECKIN",
                      "PROPERTY_REACTIVATED"} -> "VACANT_READY"
      [] trigger = "CLEANER_ASSIGNED" -> "CLEANING_SCHEDULED"
      [] trigger = "CLEANING_STARTED" -> "CLEANING_IN_PROGRESS"
      [] trigger = "INCIDENT_HIGH" -> "MAINTENANCE_REQUIRED"
      [] trigger = "INCIDENT_CRITICAL" -> "CRITICAL_INCIDENT"
      [] trigger = "OWNER_BLOCKED" -> "BLOCKED_BY_OWNER"
      [] trigger = "PROPERTY_MARKED_OUT_OF_SERVICE" -> "OUT_OF_SERVICE"

(* Faulty variants, here and in the modules that extend this one, stand    *)
(* before the definition they mutate; only the mutation runs use them.     *)
BugRowIncomplete(current, trigger) ==   \* no early check-in after a cleaning
    CASE trigger = "CLEANING_COMPLETED" -> {"READY_FOR_NEXT_GUEST", "VACANT_READY"}
      [] trigger = "CLEANING_CANCELLED" -> CancellationStates \ {current}
      [] trigger = "INCIDENT_RESOLVED" -> ContextualStates \ {current}
      [] trigger = "OWNER_MANAGER_UNBLOCKED" -> States \ {current}
      [] OTHER -> {FixedDestination(trigger)}

(* _POLICY[(current, trigger)], for a source state: no row names its own   *)
(* source state as a destination.                                          *)
Allowed(current, trigger) ==
    CASE trigger = "CLEANING_COMPLETED" ->
           {"READY_FOR_NEXT_GUEST", "AWAITING_CHECKIN", "VACANT_READY"}
      [] trigger = "CLEANING_CANCELLED" -> CancellationStates \ {current}
      [] trigger = "INCIDENT_RESOLVED" -> ContextualStates \ {current}
      [] trigger = "OWNER_MANAGER_UNBLOCKED" -> States \ {current}
      [] OTHER -> {FixedDestination(trigger)}
-----------------------------------------------------------------------------
(* ContextualStateResolver *)

StayHolds == {"CONFIRMED", "CHECKED_IN_ESTIMATED"}

(* The stays running at now, bounds readable. *)
ActiveStays(stays, now) ==
    {s \in stays : s.status \in StayHolds /\ s.ok
                     /\ s.start <= now /\ now < s.end}

(* _active_reservations raises: a stay that could be running has no        *)
(* readable bounds, or two are running at once.                            *)
StaysUnclear(stays, now) ==
    \/ \E s \in stays : s.status \in StayHolds /\ ~s.ok
    \/ \E s, t \in ActiveStays(stays, now) : s.id # t.id

(* _next_reservations, and the day of its first member. *)
NextStays(stays, now) ==
    {s \in stays : s.status = "CONFIRMED" /\ Day(s.start) >= Day(now)}

UntilNextStay(stays, now) ==
    IF \E s \in NextStays(stays, now) : Day(s.start) = Day(now)
      THEN "AWAITING_CHECKIN"
      ELSE IF NextStays(stays, now) # {}
             THEN "READY_FOR_NEXT_GUEST"
             ELSE "VACANT_READY"

BugCompletionIgnoresStays(stays, now) ==
    IF StaysUnclear(stays, now) THEN "incompatible" ELSE UntilNextStay(stays, now)

after_cleaning_completion(stays, now) ==
    IF StaysUnclear(stays, now) \/ ActiveStays(stays, now) # {}
      THEN "incompatible"
      ELSE UntilNextStay(stays, now)

(* _contextual_reservation_cleaning; tasks is a set of statuses. *)
after_cleaning_cancellation(stays, tasks, now) ==
    IF "IN_PROGRESS" \in tasks THEN "CLEANING_IN_PROGRESS"
    ELSE IF tasks \cap {"CREATED", "ASSIGNED", "ACCEPTED"} # {}
      THEN "AWAITING_CLEANING"
    ELSE IF StaysUnclear(stays, now) THEN "incompatible"
    ELSE IF ActiveStays(stays, now) # {} THEN "OCCUPIED_ESTIMATED"
    ELSE UntilNextStay(stays, now)

ClosedIncident == {"RESOLVED", "CANCELLED"}

BugHighForgotten(stays, tasks, incidents, now) ==
    IF \E i \in incidents : /\ i.status \notin ClosedIncident
                            /\ i.severity = "CRITICAL"
      THEN "CRITICAL_INCIDENT"
      ELSE after_cleaning_cancellation(stays, tasks, now)

after_incident_resolution(stays, tasks, incidents, now) ==
    LET severities == {i.severity : i \in
                          {j \in incidents : j.status \notin ClosedIncident}}
    IN  IF "CRITICAL" \in severities THEN "CRITICAL_INCIDENT"
        ELSE IF "HIGH" \in severities THEN "MAINTENANCE_REQUIRED"
        ELSE after_cleaning_cancellation(stays, tasks, now)
-----------------------------------------------------------------------------
(* PropertyStateMachine.evaluate, one operator per kind of source entity.  *)

(* The last checks of evaluate: a destination that is where the flat       *)
(* already is, or one the policy row does not name.                        *)
Checked(current, trigger, destination) ==
    IF destination = "incompatible" THEN "incompatible"
    ELSE IF destination = current THEN "no_change"
    ELSE IF destination \notin Allowed(current, trigger) THEN "not_allowed"
    ELSE destination

(* _validate_trigger_preconditions for a reservation. *)
StayDue(trigger, stay, now) ==
    /\ stay.ok
    /\ CASE trigger = "CHECKIN_WINDOW_OPENED" ->
              stay.status = "CONFIRMED" /\ Day(stay.start) = Day(now)
         [] trigger = "CHECKIN_TIME_REACHED" ->
              /\ stay.status \in StayHolds
              /\ stay.start <= now /\ now < stay.end
         [] trigger = "CHECKOUT_TIME_REACHED" ->
              stay.status \in StayHolds /\ now >= stay.end
         [] trigger = "RESERVATION_CANCELLED_BEFORE_CHECKIN" ->
              stay.status = "CANCELLED" /\ now < stay.start

EvaluateStay(current, trigger, stay, now) ==
    IF current \notin SourceStates(trigger) THEN "no_policy"
    ELSE IF ~StayDue(trigger, stay, now) THEN "incompatible"
    ELSE Checked(current, trigger, FixedDestination(trigger))

(* The status a task must have reached for each cleaning trigger. *)
StatusFor(trigger) ==
    CASE trigger = "CLEANER_ASSIGNED" -> "ASSIGNED"
      [] trigger = "CLEANER_REJECTED" -> "REJECTED"
      [] trigger = "CLEANING_STARTED" -> "IN_PROGRESS"
      [] trigger = "CLEANING_COMPLETED" -> "COMPLETED"
      [] trigger = "CLEANING_CANCELLED" -> "CANCELLED"

(* _destination of a cleaning trigger, tasks the statuses in the context. *)
CleaningDestination(trigger, tasks, stays, now) ==
    CASE trigger = "CLEANING_COMPLETED" -> after_cleaning_completion(stays, now)
      [] trigger = "CLEANING_CANCELLED" ->
           after_cleaning_cancellation(stays, tasks, now)
      [] OTHER -> FixedDestination(trigger)

(* status is the source task's, others the statuses of the other tasks the *)
(* caller put in the context.                                              *)
EvaluateCleaning(current, trigger, status, others, stays, now) ==
    IF current \notin SourceStates(trigger) THEN "no_policy"
    ELSE IF status # StatusFor(trigger) THEN "incompatible"
    ELSE Checked(current, trigger,
                 CleaningDestination(trigger, {status} \cup others, stays, now))

IncidentMatches(trigger, incident) ==
    CASE trigger = "INCIDENT_HIGH" ->
           incident.status \notin ClosedIncident /\ incident.severity = "HIGH"
      [] trigger = "INCIDENT_CRITICAL" ->
           /\ incident.status \notin ClosedIncident
           /\ incident.severity = "CRITICAL"
      [] trigger = "INCIDENT_RESOLVED" -> incident.status \in ClosedIncident

(* _destination of an incident trigger. *)
IncidentDestination(current, trigger, incidents, tasks, stays, now) ==
    IF \/ trigger = "INCIDENT_RESOLVED"
       \/ trigger = "INCIDENT_HIGH" /\ current = "CRITICAL_INCIDENT"
      THEN after_incident_resolution(stays, tasks, incidents, now)
      ELSE FixedDestination(trigger)

BugPolicyNotAsked(current, trigger, incident, incidents, tasks, stays, now) ==
    IF ~IncidentMatches(trigger, incident) THEN "incompatible"
    ELSE Checked(current, trigger,
                 IncidentDestination(current, trigger, incidents, tasks, stays, now))

EvaluateIncident(current, trigger, incident, incidents, tasks, stays, now) ==
    IF current \notin SourceStates(trigger) THEN "no_policy"
    ELSE IF ~IncidentMatches(trigger, incident) THEN "incompatible"
    ELSE Checked(current, trigger,
                 IncidentDestination(current, trigger, incidents, tasks, stays, now))

(* validate_explicit_target: the state the owner asks for when unblocking. *)
ExplicitTargetFits(target, incidents, tasks, stays, now) ==
    LET contextual ==
          after_incident_resolution(stays, {t.status : t \in tasks}, incidents, now)
        scheduled == {t \in tasks : t.status \in {"ASSIGNED", "ACCEPTED"}}
    IN  /\ contextual # "incompatible"
        /\ target \in ContextualStates => target = contextual
        /\ target = "CLEANING_SCHEDULED" =>
             contextual = "AWAITING_CLEANING" /\ Cardinality(scheduled) = 1

(* The manual triggers, with a USER actor and a reason. *)
EvaluateManual(current, trigger, requested, incidents, tasks, stays, now) ==
    IF current \notin SourceStates(trigger) THEN "no_policy"
    ELSE IF trigger = "OWNER_MANAGER_UNBLOCKED"
      THEN IF ExplicitTargetFits(requested, incidents, tasks, stays, now)
             THEN Checked(current, trigger, requested)
             ELSE "incompatible"
      ELSE Checked(current, trigger, FixedDestination(trigger))
-----------------------------------------------------------------------------
(* clock_triggers.opens_checkin_window *)
OpensCheckinWindow(stay, now, window) ==
    Day(now) = Day(stay.start) /\ now + window >= stay.start
=============================================================================
