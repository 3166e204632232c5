\* Two stays that may overlap or follow each other, one hour that does not exist, one cleaner.
SPECIFICATION Spec
CONSTANTS
    Reservations = {r1, r2}
    Tasks = {t1, t2, t3}
    Incidents = {}
    Cleaners = {c1}
    NoStay = NoStay
    Nobody = Nobody
    Stays <- Overlapping
    Statuses <- Confirming
    Severities = {}
    BadTimes <- NoSuchHour
    Provisioned = {r1, r2}
    SlotsPerDay = 2
    CheckinWindow = 1
    LookAhead = 2
    LookBehind = 30
    MaxTime = 4
SYMMETRY Symmetry
INVARIANTS CleaningStatesAreBacked OneLiveCleaningPerStay
PROPERTIES NoReleaseOverAGuest
