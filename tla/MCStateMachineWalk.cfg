SPECIFICATION Spec
CONSTANTS
    StayRecords <- MCStayRecords
    StaySets <- MCStaySets
    TaskRecords <- MCTaskRecords
    TaskSets <- MCTaskSets
    IncidentRecords <- MCIncidentRecords
    Instants <- MCInstants
    SlotsPerDay = 2
INVARIANT PolicyCoversResolver
PROPERTY OnlyUsersReleaseBlocked
