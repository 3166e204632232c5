-------------------------- MODULE StateMachineWalk --------------------------
(***************************************************************************)
(* A flat taken through every evaluation PropertyStateMachine.evaluate can *)
(* be asked for: any trigger, in any state, with any context of the given  *)
(* sets.  The triggers no handler fires yet (the owner's and the           *)
(* manager's) are here too.                                                *)
(***************************************************************************)
EXTENDS PropertyStateMachine

CONSTANTS
    StayRecords,        \* stays a trigger may come from
    StaySets,           \* the stays a context may hold
    TaskRecords,        \* cleaning tasks a trigger may come from, [id, status]
    TaskSets,           \* the cleaning tasks a context may hold
    IncidentRecords,    \* incidents of a context, [status, severity]
    Instants            \* reference instants

VARIABLES
    flat,       \* Property.current_operational_state
    trigger,    \* the trigger of the last evaluation
    outcome     \* its result: the new state or the refusal

vars == <<flat, trigger, outcome>>

TypeOK ==
    /\ flat \in States
    /\ trigger \in Triggers
    /\ outcome \in States \cup Refusals

Init ==
    /\ flat = "VACANT_READY"
    /\ trigger = "PROPERTY_REACTIVATED"
    /\ outcome = "VACANT_READY"

(* A result moves the flat, an exception leaves it. *)
Evaluated(on, result) ==
    /\ trigger' = on
    /\ outcome' = result
    /\ flat' = IF result \in States THEN result ELSE flat

EvaluateForStay ==
    \E on \in ReservationTriggers, s \in StayRecords, t \in Instants :
        Evaluated(on, EvaluateStay(flat, on, s, t))

EvaluateForCleaning ==
    \E on \in CleaningTriggers, source \in TaskRecords,
       others \in TaskSets, stays \in StaySets, t \in Instants :
        Evaluated(on, EvaluateCleaning(flat, on, source.status,
                                       {u.status : u \in others}, stays, t))

(* _source_incident: the context holds the incident itself. *)
EvaluateForIncident ==
    \E on \in IncidentTriggers, source \in IncidentRecords,
       others \in SUBSET IncidentRecords, tasks \in TaskSets,
       stays \in StaySets, t \in Instants :
        Evaluated(on, EvaluateIncident(flat, on, source, others \cup {source},
                                       {u.status : u \in tasks}, stays, t))

EvaluateForUser ==
    \E on \in ManualTriggers, requested \in States,
       incidents \in SUBSET IncidentRecords, tasks \in TaskSets,
       stays \in StaySets, t \in Instants :
        Evaluated(on, EvaluateManual(flat, on, requested, incidents, tasks, stays, t))

Next ==
    \/ EvaluateForStay \/ EvaluateForCleaning
    \/ EvaluateForIncident \/ EvaluateForUser

Spec == Init /\ [][Next]_vars
-----------------------------------------------------------------------------
(* The resolver and the policy are two tables in two files, and evaluate   *)
(* refuses a resolved destination the policy row does not list: that       *)
(* refusal never happens, whatever the context, so no handler is answered  *)
(* with a conflict because the two tables disagree.                        *)
PolicyCoversResolver == outcome # "not_allowed"

(* A flat blocked by its owner or out of service is moved by nobody but a  *)
(* user: no clock job, cleaning or incident brings it back.                *)
OnlyUsersReleaseBlocked ==
    [][(flat \in {"BLOCKED_BY_OWNER", "OUT_OF_SERVICE"} /\ flat' # flat)
         => trigger' \in {"OWNER_MANAGER_UNBLOCKED", "PROPERTY_REACTIVATED"}]_vars
=============================================================================
