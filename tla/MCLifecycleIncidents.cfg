\* One stay, two cleaners (so nobody is assigned automatically) and two incidents of any severity.
SPECIFICATION Spec
CONSTANTS
    Reservations = {r1}
    Tasks = {t1, t2}
    Incidents = {i1, i2}
    Cleaners = {c1, c2}
    NoStay = NoStay
    Nobody = Nobody
    Stays <- OneNight
    Statuses <- Confirming
    Severities <- AllSeverities
    BadTimes = {}
    Provisioned = {r1}
    SlotsPerDay = 2
    CheckinWindow = 1
    LookAhead = 2
    LookBehind = 30
    MaxTime = 3
SYMMETRY SymmetryWithIncidents
PROPERTIES IncidentsHoldTheFlat
