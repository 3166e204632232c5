------------------------- MODULE MCStateMachineWalk -------------------------
(* Small contexts for StateMachineWalk: a stay today, one tomorrow and one *)
(* whose hour does not exist, a task of each kind the resolver tells apart,*)
(* an open and a closed incident of each severity.                         *)
EXTENDS StateMachineWalk

Stay(id, status, start, end, ok) ==
    [id |-> id, status |-> status, start |-> start, end |-> end, ok |-> ok]

MCStaySets ==
    { {},
      {Stay(1, "CONFIRMED", 1, 2, TRUE)},
      {Stay(1, "CONFIRMED", 1, 2, TRUE), Stay(2, "CONFIRMED", 3, 4, TRUE)},
      {Stay(1, "CHECKED_IN_ESTIMATED", 1, 4, TRUE), Stay(2, "CONFIRMED", 1, 2, TRUE)},
      {Stay(1, "CANCELLED", 1, 2, TRUE), Stay(2, "CONFIRMED", 3, 4, FALSE)} }
MCStayRecords == UNION MCStaySets
Task(id, status) == [id |-> id, status |-> status]

MCTaskSets ==
    { {},
      {Task(1, "CREATED")},
      {Task(1, "ACCEPTED"), Task(2, "CANCELLED")},
      {Task(1, "ASSIGNED"), Task(2, "ASSIGNED")},
      {Task(1, "IN_PROGRESS"), Task(2, "CREATED")},
      {Task(1, "COMPLETED"), Task(2, "REJECTED")} }
MCTaskRecords == UNION MCTaskSets
MCIncidentRecords ==
    [status : {"OPEN", "RESOLVED"}, severity : {"HIGH", "CRITICAL"}]
MCInstants == {0, 1}
=============================================================================
