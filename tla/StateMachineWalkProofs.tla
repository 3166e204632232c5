----------------------- MODULE StateMachineWalkProofs -----------------------
(***************************************************************************)
(* Proofs about StateMachineWalk: the policy and the resolver agree, for   *)
(* every set of stays, tasks and incidents and every instant.              *)
(***************************************************************************)
EXTENDS StateMachineWalk, PropertyStateMachineProofs

WalkInv == TypeOK /\ PolicyCoversResolver

(* The results evaluate can have: never a destination off the policy.      *)
Admissible == States \cup {"no_policy", "incompatible", "no_change"}

LEMMA EvaluatedKeepsInv ==
    ASSUME TypeOK, NEW on \in Triggers, NEW result \in Admissible,
           Evaluated(on, result)
    PROVE  WalkInv'
<1>1. "not_allowed" \notin Admissible
  BY DEF Admissible, States, ContextualStates, CancellationStates, IncidentStates
<1> QED
  BY <1>1 DEF WalkInv, TypeOK, PolicyCoversResolver, Evaluated, Admissible, Refusals

LEMMA WalkInvariant == Spec => []WalkInv
<1>1. Init => WalkInv
  BY DEF Init, WalkInv, TypeOK, PolicyCoversResolver, States, ContextualStates,
         CancellationStates, Triggers, ManualTriggers
<1>2. WalkInv /\ [Next]_vars => WalkInv'
  <2> SUFFICES ASSUME WalkInv, [Next]_vars PROVE WalkInv'
    OBVIOUS
  <2>0. TypeOK /\ flat \in States
    BY DEF WalkInv, TypeOK
  <2>1. CASE EvaluateForStay
    <3>1. PICK on \in ReservationTriggers, s \in StayRecords, t \in Instants :
             Evaluated(on, EvaluateStay(flat, on, s, t))
      BY <2>1 DEF EvaluateForStay
    <3>2. FixedDestination(on) \in States
      BY DEF FixedDestination, ReservationTriggers, ClockTriggers, States,
             ContextualStates, CancellationStates
    <3>3. EvaluateStay(flat, on, s, t) \in Admissible
      BY <3>2, StayMoves DEF Admissible
    <3> QED
      BY <2>0, <3>1, <3>3, EvaluatedKeepsInv DEF Triggers
  <2>2. CASE EvaluateForCleaning
    <3>1. PICK on \in CleaningTriggers, source \in TaskRecords, others \in TaskSets,
               stays \in StaySets, t \in Instants :
             Evaluated(on, EvaluateCleaning(flat, on, source.status,
                                            {u.status : u \in others}, stays, t))
      BY <2>2 DEF EvaluateForCleaning
    <3> DEFINE statuses == {u.status : u \in others}
    <3> HIDE DEF statuses
    <3>2. EvaluateCleaning(flat, on, source.status, statuses, stays, t) \in Admissible
      BY <2>0, CleaningMoves DEF Admissible
    <3> QED
      BY <2>0, <3>1, <3>2, EvaluatedKeepsInv DEF Triggers, statuses
  <2>3. CASE EvaluateForIncident
    <3>1. PICK on \in IncidentTriggers, source \in IncidentRecords,
               others \in SUBSET IncidentRecords, tasks \in TaskSets,
               stays \in StaySets, t \in Instants :
             Evaluated(on, EvaluateIncident(flat, on, source, others \cup {source},
                                            {u.status : u \in tasks}, stays, t))
      BY <2>3 DEF EvaluateForIncident
    <3> DEFINE statuses == {u.status : u \in tasks}
               incidents == others \cup {source}
    <3>2. source \in incidents
      OBVIOUS
    <3> HIDE DEF statuses, incidents
    <3>3. EvaluateIncident(flat, on, source, incidents, statuses, stays, t)
             \in Admissible
      BY <2>0, <3>2, IncidentMoves DEF Admissible
    <3> QED
      BY <2>0, <3>1, <3>3, EvaluatedKeepsInv DEF Triggers, statuses, incidents
  <2>4. CASE EvaluateForUser
    <3>1. PICK on \in ManualTriggers, requested \in States,
               incidents \in SUBSET IncidentRecords, tasks \in TaskSets,
               stays \in StaySets, t \in Instants :
             Evaluated(on, EvaluateManual(flat, on, requested, incidents, tasks,
                                          stays, t))
      BY <2>4 DEF EvaluateForUser
    <3>2. EvaluateManual(flat, on, requested, incidents, tasks, stays, t) \in Admissible
      BY <2>0, ManualMoves DEF Admissible
    <3> QED
      BY <2>0, <3>1, <3>2, EvaluatedKeepsInv DEF Triggers
  <2>5. CASE UNCHANGED vars
    BY <2>5 DEF WalkInv, TypeOK, PolicyCoversResolver, vars
  <2> QED
    BY <2>1, <2>2, <2>3, <2>4, <2>5 DEF Next
<1> QED
  BY <1>1, <1>2, PTL DEF Spec

(* The state of the flat is always one of the machine's.                   *)
THEOREM WalkTypeCorrect == Spec => []TypeOK
<1>1. WalkInv => TypeOK
  BY DEF WalkInv
<1> QED
  BY <1>1, WalkInvariant, PTL

(* evaluate never refuses a destination the resolver found: the policy     *)
(* lists everything after_cleaning_completion, after_cleaning_cancellation *)
(* and after_incident_resolution can answer.                               *)
THEOREM PolicyAndResolverAgree == Spec => []PolicyCoversResolver
<1>1. WalkInv => PolicyCoversResolver
  BY DEF WalkInv
<1> QED
  BY <1>1, WalkInvariant, PTL

(* A flat its owner blocked, or out of service, moves for a user only: no  *)
(* other trigger has a row out of those states.                            *)
THEOREM BlockedFlatWaitsForUser == Spec => OnlyUsersReleaseBlocked
<1> DEFINE Blocked == {"BLOCKED_BY_OWNER", "OUT_OF_SERVICE"}
           Release == {"OWNER_MANAGER_UNBLOCKED", "PROPERTY_REACTIVATED"}
<1>1. \A on \in Triggers \ Release : SourceStates(on) \cap Blocked = {}
  BY DEF Triggers, ReservationTriggers, ClockTriggers, CleaningTriggers,
         IncidentTriggers, ManualTriggers, SourceStates, ContextualStates,
         CancellationStates, IncidentStates
<1>2. WalkInv /\ [Next]_vars =>
        [(flat \in Blocked /\ flat' # flat) => trigger' \in Release]_vars
  <2> SUFFICES ASSUME TypeOK, Next, flat \in Blocked, trigger' \notin Release
               PROVE  flat' = flat
    BY DEF WalkInv
  <2>0. "no_policy" \notin States
    BY DEF States, ContextualStates, CancellationStates, IncidentStates
  <2>1. trigger' \in Triggers => flat \notin SourceStates(trigger')
    BY <1>1
  <2>2. CASE EvaluateForStay
    BY <2>0, <2>1, <2>2 DEF EvaluateForStay, Evaluated, EvaluateStay, Triggers
  <2>3. CASE EvaluateForCleaning
    BY <2>0, <2>1, <2>3 DEF EvaluateForCleaning, Evaluated, EvaluateCleaning, Triggers
  <2>4. CASE EvaluateForIncident
    BY <2>0, <2>1, <2>4 DEF EvaluateForIncident, Evaluated, EvaluateIncident, Triggers
  <2>5. CASE EvaluateForUser
    BY <2>0, <2>1, <2>5 DEF EvaluateForUser, Evaluated, EvaluateManual, Triggers
  <2> QED
    BY <2>2, <2>3, <2>4, <2>5 DEF Next
<1> QED
  BY <1>2, WalkInvariant, PTL DEF Spec, OnlyUsersReleaseBlocked
=============================================================================
