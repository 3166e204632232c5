--------------------- MODULE PropertyStateMachineProofs ---------------------
(***************************************************************************)
(* What the transition policy and the contextual resolver guarantee for    *)
(* every context a caller can build: where each trigger may take a flat.   *)
(***************************************************************************)
EXTENDS PropertyStateMachine, TLAPS

(* The resolver answers with a contextual state or a refusal, and never    *)
(* with an incident state when it only looks at stays and cleanings.       *)
LEMMA ResolverRange ==
    ASSUME NEW stays, NEW tasks, NEW t
    PROVE  /\ UntilNextStay(stays, t) \in
                {"AWAITING_CHECKIN", "READY_FOR_NEXT_GUEST", "VACANT_READY"}
           /\ after_cleaning_completion(stays, t) \in
                {"incompatible", "AWAITING_CHECKIN", "READY_FOR_NEXT_GUEST",
                 "VACANT_READY"}
           /\ after_cleaning_cancellation(stays, tasks, t) \in
                CancellationStates \cup {"incompatible"}
<1>1. UntilNextStay(stays, t) \in
         {"AWAITING_CHECKIN", "READY_FOR_NEXT_GUEST", "VACANT_READY"}
  BY DEF UntilNextStay
<1> QED
  BY <1>1 DEF after_cleaning_completion, after_cleaning_cancellation,
              CancellationStates

(* The incident rungs come first: the resolver only looks past them when   *)
(* no active incident is HIGH or CRITICAL.                                 *)
LEMMA IncidentRungs ==
    ASSUME NEW stays, NEW tasks, NEW incidents, NEW t,
           NEW to, to = after_incident_resolution(stays, tasks, incidents, t)
    PROVE  /\ to = "CRITICAL_INCIDENT" <=>
                \E i \in incidents : /\ i.status \notin ClosedIncident
                                     /\ i.severity = "CRITICAL"
           /\ to = "MAINTENANCE_REQUIRED" =>
                \E i \in incidents : /\ i.status \notin ClosedIncident
                                     /\ i.severity = "HIGH"
           /\ to \notin IncidentStates =>
                /\ to = after_cleaning_cancellation(stays, tasks, t)
                /\ \A i \in incidents : i.status \notin ClosedIncident
                     => i.severity \notin {"HIGH", "CRITICAL"}
<1> DEFINE severities == {i.severity : i \in
                            {j \in incidents : j.status \notin ClosedIncident}}
<1>1. to = IF "CRITICAL" \in severities THEN "CRITICAL_INCIDENT"
           ELSE IF "HIGH" \in severities THEN "MAINTENANCE_REQUIRED"
           ELSE after_cleaning_cancellation(stays, tasks, t)
  BY DEF after_incident_resolution
<1>2. \A s : s \in severities <=>
         \E i \in incidents : i.status \notin ClosedIncident /\ i.severity = s
  OBVIOUS
<1>3. after_cleaning_cancellation(stays, tasks, t)
         \in CancellationStates \cup {"incompatible"}
  BY ResolverRange
<1> HIDE DEF severities
<1>4. after_cleaning_cancellation(stays, tasks, t) \notin IncidentStates
  BY <1>3 DEF CancellationStates, IncidentStates
<1>5. CASE "CRITICAL" \in severities
  BY <1>1, <1>2, <1>5 DEF IncidentStates
<1>6. CASE "CRITICAL" \notin severities /\ "HIGH" \in severities
  BY <1>1, <1>2, <1>6 DEF IncidentStates
<1>7. CASE "CRITICAL" \notin severities /\ "HIGH" \notin severities
  BY <1>1, <1>2, <1>4, <1>7 DEF IncidentStates
<1> QED
  BY <1>5, <1>6, <1>7

(* A stay moves the flat only by its trigger's row, to its destination.    *)
LEMMA StayMoves ==
    ASSUME NEW current, NEW trigger \in ReservationTriggers, NEW stay, NEW t
    PROVE  /\ EvaluateStay(current, trigger, stay, t) \in
                {"no_policy", "incompatible", "no_change", FixedDestination(trigger)}
           /\ EvaluateStay(current, trigger, stay, t) \in States
                => current \in SourceStates(trigger)
<1>1. Allowed(current, trigger) = {FixedDestination(trigger)}
  BY DEF Allowed, ReservationTriggers, ClockTriggers
<1>2. {"no_policy", "incompatible", "no_change", "not_allowed"} \cap States = {}
  BY DEF States, ContextualStates, CancellationStates, IncidentStates
<1>3. FixedDestination(trigger) # "incompatible"
  BY DEF FixedDestination, ReservationTriggers, ClockTriggers
<1> QED
  BY <1>1, <1>2, <1>3 DEF EvaluateStay, Checked

(* A cleaning moves the flat only out of its trigger's source states: to   *)
(* the fixed destination, or to the one its resolver found.                *)
LEMMA CleaningMoves ==
    ASSUME NEW current \in States, NEW trigger \in CleaningTriggers,
           NEW status, NEW others, NEW stays, NEW t,
           NEW to, to = EvaluateCleaning(current, trigger, status, others, stays, t)
    PROVE  /\ to \in States \cup {"no_policy", "incompatible", "no_change"}
           /\ to \notin {"no_policy", "incompatible"} =>
                /\ current \in SourceStates(trigger)
                /\ status = StatusFor(trigger)
                /\ LET found == CleaningDestination(trigger, {status} \cup others, stays, t)
                   IN  /\ to \in States => to = found
                       /\ to = "no_change" => found = current
<1> DEFINE found == CleaningDestination(trigger, {status} \cup others, stays, t)
<1>1. to = IF current \notin SourceStates(trigger) THEN "no_policy"
           ELSE IF status # StatusFor(trigger) THEN "incompatible"
           ELSE Checked(current, trigger, found)
  BY DEF EvaluateCleaning
<1>2. found = "incompatible" \/ found = current
        \/ (found \in Allowed(current, trigger) /\ found \in States)
  <2>1. CASE trigger = "CLEANING_COMPLETED"
    BY <2>1, ResolverRange
       DEF CleaningDestination, Allowed, States, ContextualStates, CancellationStates
  <2>2. CASE trigger = "CLEANING_CANCELLED"
    BY <2>2, ResolverRange
       DEF CleaningDestination, Allowed, States, ContextualStates
  <2>3. CASE trigger \in {"CLEANER_ASSIGNED", "CLEANER_REJECTED", "CLEANING_STARTED"}
    BY <2>3 DEF CleaningDestination, Allowed, FixedDestination, States,
                ContextualStates, CancellationStates
  <2> QED
    BY <2>1, <2>2, <2>3 DEF CleaningTriggers
<1>3. Refusals \cap States = {} /\ Refusals = {"no_policy", "not_allowed", "incompatible", "no_change"}
  BY DEF Refusals, States, ContextualStates, CancellationStates, IncidentStates
<1> HIDE DEF found
<1>4. /\ to \in States \cup {"no_policy", "incompatible", "no_change"}
      /\ to \notin {"no_policy", "incompatible"} =>
           /\ current \in SourceStates(trigger)
           /\ status = StatusFor(trigger)
           /\ to \in States => to = found
           /\ to = "no_change" => found = current
  BY <1>1, <1>2, <1>3 DEF Checked
<1> QED
  BY <1>4 DEF found

(* An incident moves the flat to its severity's state, or to where the     *)
(* resolver puts it when the incident is closed or does not rank first.    *)
LEMMA IncidentMoves ==
    ASSUME NEW current \in States, NEW trigger \in IncidentTriggers,
           NEW incidents, NEW incident \in incidents,
           NEW tasks, NEW stays, NEW t,
           NEW to, to = EvaluateIncident(current, trigger, incident, incidents,
                                         tasks, stays, t)
    PROVE  /\ to \in States \cup {"no_policy", "incompatible", "no_change"}
           /\ to \notin {"no_policy", "incompatible"} =>
                /\ current \in SourceStates(trigger)
                /\ IncidentMatches(trigger, incident)
                /\ LET found ==
                         IncidentDestination(current, trigger, incidents, tasks, stays, t)
                   IN  /\ to \in States => to = found
                       /\ to = "no_change" => found = current
<1> DEFINE resolved == after_incident_resolution(stays, tasks, incidents, t)
           found == IncidentDestination(current, trigger, incidents, tasks, stays, t)
<1>1. to = IF current \notin SourceStates(trigger) THEN "no_policy"
           ELSE IF ~IncidentMatches(trigger, incident) THEN "incompatible"
           ELSE Checked(current, trigger, found)
  BY DEF EvaluateIncident
<1>2. resolved \in ContextualStates \cup {"incompatible"}
  BY IncidentRungs, ResolverRange DEF ContextualStates, IncidentStates
<1>3. ASSUME trigger = "INCIDENT_HIGH", IncidentMatches(trigger, incident)
      PROVE  resolved \in IncidentStates
  <2>1. incident.status \notin ClosedIncident /\ incident.severity = "HIGH"
    BY <1>3 DEF IncidentMatches
  <2> QED
    BY <2>1, IncidentRungs
<1>4. IncidentMatches(trigger, incident) =>
        \/ found = "incompatible" \/ found = current
        \/ (found \in Allowed(current, trigger) /\ found \in States)
  <2>1. CASE trigger = "INCIDENT_RESOLVED"
    BY <2>1, <1>2 DEF IncidentDestination, Allowed, States
  <2>2. CASE trigger = "INCIDENT_HIGH" /\ current = "CRITICAL_INCIDENT"
    BY <2>2, <1>3 DEF IncidentDestination, Allowed, FixedDestination,
                      IncidentStates, States, ContextualStates
  <2>3. CASE \/ trigger = "INCIDENT_HIGH" /\ current # "CRITICAL_INCIDENT"
             \/ trigger = "INCIDENT_CRITICAL"
    BY <2>3 DEF IncidentDestination, Allowed, FixedDestination, IncidentStates,
                States, ContextualStates
  <2> QED
    BY <2>1, <2>2, <2>3 DEF IncidentTriggers
<1>5. Refusals \cap States = {} /\ Refusals = {"no_policy", "not_allowed", "incompatible", "no_change"}
  BY DEF Refusals, States, ContextualStates, CancellationStates, IncidentStates
<1> HIDE DEF found
<1>6. /\ to \in States \cup {"no_policy", "incompatible", "no_change"}
      /\ to \notin {"no_policy", "incompatible"} =>
           /\ current \in SourceStates(trigger)
           /\ IncidentMatches(trigger, incident)
           /\ to \in States => to = found
           /\ to = "no_change" => found = current
  BY <1>1, <1>4, <1>5 DEF Checked
<1> QED
  BY <1>6 DEF found

(* A user's request moves the flat to the state of its row, or to the one  *)
(* the user asked for.                                                     *)
LEMMA ManualMoves ==
    ASSUME NEW current \in States, NEW trigger \in ManualTriggers,
           NEW requested \in States,
           NEW incidents, NEW tasks, NEW stays, NEW t,
           NEW to, to = EvaluateManual(current, trigger, requested, incidents,
                                       tasks, stays, t)
    PROVE  to \in States \cup {"no_policy", "incompatible", "no_change"}
<1>1. CASE trigger = "OWNER_MANAGER_UNBLOCKED"
  BY <1>1 DEF EvaluateManual, Checked, Allowed
<1>2. CASE trigger \in ManualTriggers \ {"OWNER_MANAGER_UNBLOCKED"}
  BY <1>2 DEF EvaluateManual, Checked, Allowed, FixedDestination, ManualTriggers,
              States, ContextualStates, CancellationStates
<1> QED
  BY <1>1, <1>2

(* The rows of the clock jobs and of the cancellation before check-in.     *)
LEMMA StayTable ==
    ASSUME NEW current, NEW stay, NEW t
    PROVE  /\ EvaluateStay(current, "CHECKIN_WINDOW_OPENED", stay, t) \in States =>
                /\ EvaluateStay(current, "CHECKIN_WINDOW_OPENED", stay, t) = "AWAITING_CHECKIN"
                /\ current \in {"VACANT_READY", "READY_FOR_NEXT_GUEST"}
           /\ EvaluateStay(current, "CHECKIN_TIME_REACHED", stay, t) \in States =>
                /\ EvaluateStay(current, "CHECKIN_TIME_REACHED", stay, t) = "OCCUPIED_ESTIMATED"
                /\ current = "AWAITING_CHECKIN"
           /\ EvaluateStay(current, "CHECKOUT_TIME_REACHED", stay, t) \in States =>
                /\ EvaluateStay(current, "CHECKOUT_TIME_REACHED", stay, t) = "AWAITING_CLEANING"
                /\ current = "OCCUPIED_ESTIMATED"
           /\ EvaluateStay(current, "RESERVATION_CANCELLED_BEFORE_CHECKIN", stay, t) \in States =>
                /\ EvaluateStay(current, "RESERVATION_CANCELLED_BEFORE_CHECKIN", stay, t)
                      = "VACANT_READY"
                /\ current = "AWAITING_CHECKIN"
<1>1. {"no_policy", "incompatible", "no_change"} \cap States = {}
  BY DEF States, ContextualStates, CancellationStates, IncidentStates
<1>2. /\ FixedDestination("CHECKIN_WINDOW_OPENED") = "AWAITING_CHECKIN"
      /\ FixedDestination("CHECKIN_TIME_REACHED") = "OCCUPIED_ESTIMATED"
      /\ FixedDestination("CHECKOUT_TIME_REACHED") = "AWAITING_CLEANING"
      /\ FixedDestination("RESERVATION_CANCELLED_BEFORE_CHECKIN") = "VACANT_READY"
  BY DEF FixedDestination
<1>3. /\ SourceStates("CHECKIN_WINDOW_OPENED") = {"VACANT_READY", "READY_FOR_NEXT_GUEST"}
      /\ SourceStates("CHECKIN_TIME_REACHED") = {"AWAITING_CHECKIN"}
      /\ SourceStates("CHECKOUT_TIME_REACHED") = {"OCCUPIED_ESTIMATED"}
      /\ SourceStates("RESERVATION_CANCELLED_BEFORE_CHECKIN") = {"AWAITING_CHECKIN"}
  BY DEF SourceStates
<1>4. {"CHECKIN_WINDOW_OPENED", "CHECKIN_TIME_REACHED", "CHECKOUT_TIME_REACHED",
       "RESERVATION_CANCELLED_BEFORE_CHECKIN"} \subseteq ReservationTriggers
  BY DEF ReservationTriggers, ClockTriggers
<1>5. EvaluateStay(current, "CHECKIN_WINDOW_OPENED", stay, t) \in States =>
        /\ EvaluateStay(current, "CHECKIN_WINDOW_OPENED", stay, t) = "AWAITING_CHECKIN"
        /\ current \in {"VACANT_READY", "READY_FOR_NEXT_GUEST"}
  BY <1>1, <1>2, <1>3, <1>4, StayMoves
<1>6. EvaluateStay(current, "CHECKIN_TIME_REACHED", stay, t) \in States =>
        /\ EvaluateStay(current, "CHECKIN_TIME_REACHED", stay, t) = "OCCUPIED_ESTIMATED"
        /\ current = "AWAITING_CHECKIN"
  BY <1>1, <1>2, <1>3, <1>4, StayMoves
<1>7. EvaluateStay(current, "CHECKOUT_TIME_REACHED", stay, t) \in States =>
        /\ EvaluateStay(current, "CHECKOUT_TIME_REACHED", stay, t) = "AWAITING_CLEANING"
        /\ current = "OCCUPIED_ESTIMATED"
  BY <1>1, <1>2, <1>3, <1>4, StayMoves
<1>8. EvaluateStay(current, "RESERVATION_CANCELLED_BEFORE_CHECKIN", stay, t) \in States =>
        /\ EvaluateStay(current, "RESERVATION_CANCELLED_BEFORE_CHECKIN", stay, t)
              = "VACANT_READY"
        /\ current = "AWAITING_CHECKIN"
  BY <1>1, <1>2, <1>3, <1>4, StayMoves
<1> QED
  BY <1>5, <1>6, <1>7, <1>8

(* The rows of the cleaning triggers, whose destination is fixed.          *)
LEMMA CleaningTable ==
    ASSUME NEW current \in States, NEW status, NEW others, NEW stays, NEW t
    PROVE  /\ EvaluateCleaning(current, "CLEANER_ASSIGNED", status, others, stays, t) \in States =>
                /\ EvaluateCleaning(current, "CLEANER_ASSIGNED", status, others, stays, t)
                      = "CLEANING_SCHEDULED"
                /\ current = "AWAITING_CLEANING"
           /\ EvaluateCleaning(current, "CLEANER_REJECTED", status, others, stays, t) \in States =>
                /\ EvaluateCleaning(current, "CLEANER_REJECTED", status, others, stays, t)
                      = "AWAITING_CLEANING"
                /\ current = "CLEANING_SCHEDULED"
           /\ EvaluateCleaning(current, "CLEANING_STARTED", status, others, stays, t) \in States =>
                /\ EvaluateCleaning(current, "CLEANING_STARTED", status, others, stays, t)
                      = "CLEANING_IN_PROGRESS"
                /\ current = "CLEANING_SCHEDULED"
<1>1. {"no_policy", "incompatible", "no_change"} \cap States = {}
  BY DEF States, ContextualStates, CancellationStates, IncidentStates
<1>2. /\ SourceStates("CLEANER_ASSIGNED") = {"AWAITING_CLEANING"}
      /\ SourceStates("CLEANER_REJECTED") = {"CLEANING_SCHEDULED"}
      /\ SourceStates("CLEANING_STARTED") = {"CLEANING_SCHEDULED"}
  BY DEF SourceStates
<1>3. \A tasks :
      /\ CleaningDestination("CLEANER_ASSIGNED", tasks, stays, t) = "CLEANING_SCHEDULED"
      /\ CleaningDestination("CLEANER_REJECTED", tasks, stays, t) = "AWAITING_CLEANING"
      /\ CleaningDestination("CLEANING_STARTED", tasks, stays, t) = "CLEANING_IN_PROGRESS"
  BY DEF CleaningDestination, FixedDestination
<1>4. {"CLEANER_ASSIGNED", "CLEANER_REJECTED", "CLEANING_STARTED"} \subseteq CleaningTriggers
  BY DEF CleaningTriggers
<1>5. \A trigger \in CleaningTriggers :
         EvaluateCleaning(current, trigger, status, others, stays, t) \in States =>
           /\ current \in SourceStates(trigger)
           /\ EvaluateCleaning(current, trigger, status, others, stays, t)
                = CleaningDestination(trigger, {status} \cup others, stays, t)
  <2> SUFFICES ASSUME NEW trigger \in CleaningTriggers,
                      EvaluateCleaning(current, trigger, status, others, stays, t) \in States
               PROVE  /\ current \in SourceStates(trigger)
                      /\ EvaluateCleaning(current, trigger, status, others, stays, t)
                           = CleaningDestination(trigger, {status} \cup others, stays, t)
    OBVIOUS
  <2> QED
    BY <1>1, CleaningMoves
<1> QED
  BY <1>2, <1>3, <1>4, <1>5

(* The rows whose destination the resolver finds: it is reached only from  *)
(* a flat that is being cleaned or waits for it.                           *)
LEMMA CompletionTable ==
    ASSUME NEW current \in States, NEW status, NEW others, NEW stays, NEW t,
           NEW to, to = EvaluateCleaning(current, "CLEANING_COMPLETED", status,
                                         others, stays, t),
           to \in States
    PROVE  /\ current = "CLEANING_IN_PROGRESS"
           /\ to = after_cleaning_completion(stays, t)
           /\ to \in {"AWAITING_CHECKIN", "READY_FOR_NEXT_GUEST", "VACANT_READY"}
<1>1. to \notin {"no_policy", "incompatible"}
  BY DEF States, ContextualStates, CancellationStates, IncidentStates
<1>2. "CLEANING_COMPLETED" \in CleaningTriggers
      /\ SourceStates("CLEANING_COMPLETED") = {"CLEANING_IN_PROGRESS"}
  BY DEF CleaningTriggers, SourceStates
<1>3. CleaningDestination("CLEANING_COMPLETED", {status} \cup others, stays, t)
        = after_cleaning_completion(stays, t)
  BY DEF CleaningDestination
<1> QED
  BY <1>1, <1>2, <1>3, CleaningMoves, ResolverRange

LEMMA CancellationTable ==
    ASSUME NEW current \in States, NEW status, NEW others, NEW stays, NEW t,
           NEW to, to = EvaluateCleaning(current, "CLEANING_CANCELLED", status,
                                         others, stays, t),
           to \in States \cup {"no_change"}
    PROVE  /\ current \in {"AWAITING_CLEANING", "CLEANING_SCHEDULED",
                           "CLEANING_IN_PROGRESS"}
           /\ status = "CANCELLED"
           /\ LET found == after_cleaning_cancellation(stays, {status} \cup others, t)
              IN  /\ to \in States => to = found
                  /\ to = "no_change" => found = current
<1>1. to \notin {"no_policy", "incompatible"}
  BY DEF States, ContextualStates, CancellationStates, IncidentStates
<1>2. /\ "CLEANING_CANCELLED" \in CleaningTriggers
      /\ StatusFor("CLEANING_CANCELLED") = "CANCELLED"
      /\ SourceStates("CLEANING_CANCELLED") =
            {"AWAITING_CLEANING", "CLEANING_SCHEDULED", "CLEANING_IN_PROGRESS"}
  BY DEF CleaningTriggers, SourceStates, StatusFor
<1>3. CleaningDestination("CLEANING_CANCELLED", {status} \cup others, stays, t)
        = after_cleaning_cancellation(stays, {status} \cup others, t)
  BY DEF CleaningDestination
<1> QED
  BY <1>1, <1>2, <1>3, CleaningMoves

(* The rungs below the incidents: a task in progress, a live task, a stay  *)
(* that is running.                                                        *)
LEMMA CancellationRungs ==
    ASSUME NEW stays, NEW tasks, NEW t,
           NEW to, to = after_cleaning_cancellation(stays, tasks, t)
    PROVE  /\ to = "CLEANING_IN_PROGRESS" <=> "IN_PROGRESS" \in tasks
           /\ to = "AWAITING_CLEANING" =>
                tasks \cap {"CREATED", "ASSIGNED", "ACCEPTED"} # {}
           /\ to # "CLEANING_SCHEDULED"
           /\ to \in {"AWAITING_CHECKIN", "READY_FOR_NEXT_GUEST", "VACANT_READY"} =>
                ActiveStays(stays, t) = {}
BY ResolverRange DEF after_cleaning_cancellation

LEMMA CompletionRungs ==
    ASSUME NEW stays, NEW t, after_cleaning_completion(stays, t) # "incompatible"
    PROVE  ActiveStays(stays, t) = {}
BY DEF after_cleaning_completion

(* An urgent incident moves the flat to an incident state, and away from   *)
(* the critical one only when no CRITICAL incident of the context is open. *)
LEMMA UrgentTable ==
    ASSUME NEW current \in States, NEW trigger \in {"INCIDENT_HIGH", "INCIDENT_CRITICAL"},
           NEW incidents, NEW incident \in incidents,
           NEW tasks, NEW stays, NEW t,
           NEW to, to = EvaluateIncident(current, trigger, incident, incidents,
                                         tasks, stays, t),
           to \in States
    PROVE  /\ to \in IncidentStates
           /\ current = "CRITICAL_INCIDENT" /\ to # "CRITICAL_INCIDENT" =>
                \A i \in incidents : i.status \notin ClosedIncident
                                        => i.severity # "CRITICAL"
<1>1. trigger \in IncidentTriggers /\ to \notin {"no_policy", "incompatible"}
  BY DEF IncidentTriggers, States, ContextualStates, CancellationStates,
         IncidentStates
<1>2. /\ current \in SourceStates(trigger)
      /\ IncidentMatches(trigger, incident)
      /\ to = IncidentDestination(current, trigger, incidents, tasks, stays, t)
  BY <1>1, IncidentMoves
<1>3. CASE trigger = "INCIDENT_HIGH" /\ current = "CRITICAL_INCIDENT"
  <2>1. to = after_incident_resolution(stays, tasks, incidents, t)
    BY <1>2, <1>3 DEF IncidentDestination
  <2>2. incident.status \notin ClosedIncident /\ incident.severity = "HIGH"
    BY <1>2, <1>3 DEF IncidentMatches
  <2> QED
    BY <2>1, <2>2, IncidentRungs DEF IncidentStates
<1>4. CASE trigger = "INCIDENT_HIGH" /\ current # "CRITICAL_INCIDENT"
  BY <1>2, <1>4 DEF IncidentDestination, FixedDestination, IncidentStates
<1>5. CASE trigger = "INCIDENT_CRITICAL"
  BY <1>2, <1>5 DEF IncidentDestination, FixedDestination, IncidentStates
<1> QED
  BY <1>3, <1>4, <1>5

(* A closed incident moves a flat out of order to where the resolver says, *)
(* and leaves any other flat where it is.                                  *)
LEMMA ResolvedTable ==
    ASSUME NEW current \in States, NEW incidents, NEW incident \in incidents,
           incident.status \in ClosedIncident,
           NEW tasks, NEW stays, NEW t,
           NEW to, to = EvaluateIncident(current, "INCIDENT_RESOLVED", incident,
                                         incidents, tasks, stays, t),
           to # "incompatible"
    PROVE  /\ to \in States \cup {"no_policy", "no_change"}
           /\ to = "no_policy" => current \notin IncidentStates
           /\ LET found == after_incident_resolution(stays, tasks, incidents, t)
              IN  /\ to \in States => current \in IncidentStates /\ to = found
                  /\ to = "no_change" => found = current
<1>1. /\ "INCIDENT_RESOLVED" \in IncidentTriggers
      /\ SourceStates("INCIDENT_RESOLVED") = IncidentStates
  BY DEF IncidentTriggers, SourceStates
<1>2. IncidentDestination(current, "INCIDENT_RESOLVED", incidents, tasks, stays, t)
        = after_incident_resolution(stays, tasks, incidents, t)
  BY DEF IncidentDestination
<1>3. IncidentMatches("INCIDENT_RESOLVED", incident)
  BY DEF IncidentMatches
<1>4. "no_policy" \notin States /\ "no_change" \notin States
  BY DEF States, ContextualStates, CancellationStates, IncidentStates
<1>5. to = "no_policy" => current \notin IncidentStates
  <2>1. Checked(current, "INCIDENT_RESOLVED",
                after_incident_resolution(stays, tasks, incidents, t)) # "no_policy"
    BY IncidentRungs, ResolverRange
       DEF Checked, CancellationStates, IncidentStates
  <2> QED
    BY <1>1, <1>2, <1>3, <2>1 DEF EvaluateIncident
<1>6. /\ to \in States \cup {"no_policy", "incompatible", "no_change"}
      /\ to \notin {"no_policy", "incompatible"} =>
           /\ current \in IncidentStates
           /\ to \in States =>
                to = after_incident_resolution(stays, tasks, incidents, t)
           /\ to = "no_change" =>
                after_incident_resolution(stays, tasks, incidents, t) = current
  BY <1>1, <1>2, IncidentMoves
<1> QED
  BY <1>4, <1>5, <1>6
=============================================================================
