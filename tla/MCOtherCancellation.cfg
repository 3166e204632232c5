\* A feed row cancels a later stay while the flat waits for one entering today.
SPECIFICATION Spec
CONSTANTS
    Reservations = {r1, r2}
    Tasks = {}
    Incidents = {}
    Cleaners = {c1}
    NoStay = NoStay
    Nobody = Nobody
    Stays <- TwoNights
    Statuses <- Confirming
    Severities = {}
    BadTimes = {}
    Provisioned = {r1, r2}
    SlotsPerDay = 2
    CheckinWindow = 1
    LookAhead = 2
    LookBehind = 30
    MaxTime = 4
PROPERTIES OtherCancellationKeepsTheFlat
