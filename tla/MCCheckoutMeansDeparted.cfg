\* Two back-to-back stays: the second check-in, with the first stay still CONFIRMED.
SPECIFICATION Spec
CONSTANTS
    Reservations = {r1, r2}
    Tasks = {t1, t2}
    Incidents = {}
    Cleaners = {c1}
    NoStay = NoStay
    Nobody = Nobody
    Stays <- TwoNights
    Statuses <- Confirming
    Severities = {}
    BadTimes = {}
    Provisioned = {r1, r2}
    SlotsPerDay = 2
    CheckinWindow = 1
    LookAhead = 2
    LookBehind = 30
    MaxTime = 4
SYMMETRY Symmetry
PROPERTIES CheckoutMeansDeparted
