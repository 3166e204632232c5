SPECIFICATION Spec
CONSTANTS
    o1 = o1
    d1 = d1
    d2 = d2
    e1 = e1
    u1 = u1
    u2 = u2
    a1 = a1
    a2 = a2
    i1 = i1
    i2 = i2
    m1 = m1
    c1 = c1
    g1 = g1
    p1 = p1
    b1 = b1
    k1 = k1
    in1 = in1
    in2 = in2
    s1 = s1
    none = none
    x1 = x1
    w1 = w1
    j1 = j1
    j2 = j2
    n1 = n1
    n2 = n2
    h1 = h1
    f1 = f1
    bk = bk
    r1 = r1
    r2 = r2
    it1 = it1
    t1 = t1
    q1 = q1
    q2 = q2
    inc = inc
    tx1 = tx1
    tx2 = tx2
    pn1 = pn1
    tn1 = tn1
    tn2 = tn2
    ph1 = ph1
    fl1 = fl1
    Originals = {o1}
    Tracked = {o1}
    WithEscalation = {o1}
    Dispatchers = {d1, d2}
    Escalators = {e1}
    OutboxAttempts = 2
    MaxStops = 1
    MaxOverlaps = 1
    Users = {u1, u2}
    Admins = {a1, a2}
    Founder = u1
    Items = {i1, i2}
    Months = {m1}
    Due = {m1}
    Clerks = {c1}
    Generators = {g1}
    Threshold = 1
    MaxAmount = 2
    MaxApprovals = 1
    InboxSize = 2
    People = {p1}
    TickSize = 2
    Bookings = {b1}
    Operators = {k1}
    MaxBookingMoves = 6
    Deliveries = {in1, in2}
    Staff = {s1}
    Sheets <- MCSheets
    NoSheet = none
    Occupancies = {0}
    Whole = 4
    HorizonDays = 2
    MaxToday = 1
    MaxSweeps = 2
    MaxOpen = 1
    PmsBookings = {x1}
    NoBooking = none
    Emails = {w1}
    NoEmail = none
    Imports = {j1, j2}
    Feeds <- MCFeeds
    MaxEdits = 1
    CheckIns = {n1, n2}
    Managers = {h1}
    Filers = {f1}
    Booker = bk
    NoGuest = none
    MaxReports = 2
    Callers = {r1, r2}
    ChecklistItems = {it1}
    Pictures = {q1, q2}
    PhotoTypes = {t1}
    RequiredTypes = {t1}
    ForIncident = inc
    KindOf <- MCKindOf
    MaxVisits = 3
    SlotsInDay = 2
    Zone = 1
    LongLead = 2
    ShortLead = 1
    FirstDay = 2
    Nights = 1
    CheckInHour = 0
    CheckOutHour = 1
    FirstSlot = 1
    LastSlot = 8
    MaxChanges = 2
    Texts = {tx1, tx2}
    PhoneNumbers = {pn1}
    Tenants = {tn1, tn2}
    Phones = {ph1}
    Flats = {fl1}
    Receivers = {rc1}
    Workers = {wk1, wk2}
    WrittenTo <- MCWrittenTo
    WrittenBy <- MCWrittenBy
    MaxCopies = 2
    Unheld = none
    Links = {l1, l2}
    Askers = {as1, as2, as3}
    Administrators = {adm}
    FieldStaff = {fld}
    Objects = {ob1, ob2, ob3}
    Resets = {rs1, rs2}
    Uploads = {up1, up2}
    DemoPhotos = 1
INVARIANTS
    DesksTypeOK
    SendsAreBounded
    BreachIsEscalatedOnce
    TenantKeepsAnOwner
    StatementAddsUp
    UrgentMessagesReachAPerson
    HorizonIsCoherent
    OneGuestPerEmail
    CancellationToldOnce
    DocumentStaysWithTheStay
    FiledOnce
    StoreMatchesTheRows
    CompletedWithItsEvidence
    RemindedInTime
    LastLinkWorks
    MailedLinkIsKept
    PhotographsMatchTheStore
PROPERTIES
    DecidedPriceStands
    FiledAsPromised
    ResetRestoresTheAccounts
    BreachesAreAnswered
    DeliversAsPromised
    AnswersArrive
    ReviewsAreClassified
    AccessSettles
CHECK_DEADLOCK FALSE
