CONSTANTS
    Schools = {s1, s2}
    SignIns = {r1, r2}
    Links = {l1}
    Passwords = {w1, w2}
    MaxAttempts = 2
    MaxWrong = 3
    RequireVerification = TRUE
    NoValue = NoValue
    Tabs = {t1, t2}
    Requests = {q1, q2, q3}
    q1 = q1
    q2 = q2
    q3 = q3
    t1 = t1
    t2 = t2
    TabOf <- TwoTabs
    MaxTokens = 3
    ParentSchools = {p1, p2}
    Codes = {c1, c2}
    Verifications = {v1, v2}
    Spellings = {"lower", "mixed"}
    Stored = "lower"
    MaxSwitchings = 1
    NoCode = NoCode
    Concessions = {d1, d2}
    Deciders = {f1, f2}
    MaxRestarts = 1
    Uploads = {u1, u2}
    CodeSpellings = {"Main", "main"}
    JwtSpelling = "Main"
    Admissions = {a1, a2}
    Terms = {k1, k2}
    Emails = {e1}
    EmailOf <- OneFamily
    MaxRows = 2
    Children = {b1, b2}
    Addresses = {g1, g2}
    Editors = {x1, x2}
    MaxEdits = 3
    MaxInterventions = 1
    NoAddress = NoAddress
    n1 = n1
    n2 = n2
    y1 = y1
    y2 = y2
    Persons = {n1, n2}
    SchoolYears = {y1, y2}
    Enrolments <- ThreeRows
    Backfills = {h1, h2}
    Forms = {m1}
    MaxIdentities = 2
    Years = {ya, yb, yc}
    Catalog = {ya, yb}
    Newest = yb
    YearEditors = {ra, rb}
    MaxYearEdits = 4
    Templates = {ta, tb}
    TemplateEditors = {te, tf}
    MaxTemplateEdits = 3
    NoTemplate = NoTemplate
    Members = {o1, o2}
    Calls = {i1, i2}
    Emojis = {j1, j2}
    MaxMessages = 3
    PageLimit = 2
    MaxCalls = 2
    Conversations = {z1, z2}
    ListLimit = 1
    MaxChanges = 2
    MaxSwitches = 2
    MaxLoads = 2
    MaxDrops = 1
    MaxUnderWay = 3
    NoneOpen = NoneOpen
    Announcements = {aa}
    Announcers = {pa, pb}
    Readers = {ra1}
    MaxAnnouncing = 4
    MaxNotices = 2
    NoAnnouncement = NoAnnouncement
SPECIFICATION Spec
CHECK_DEADLOCK FALSE
INVARIANTS
    SchoolTypeOK
    FailuresCounted
    ResetEndsSessions
    QueueIsServed
    LogoutLasts
    OnlyRevocationThrowsOut
    LatestCodeWorks
    RowTellsLedger
    BilledOnceIfSpelledAlike
    ContactsCanSignIn
    FailsOnlyInCompany
    SiblingsStayApart
    OneCurrentYear
    DefaultIsPicked
    PreviewShowsLatest
    UnshownIsUnread
    LivePageIsCurrent
    PublicationIsTold
PROPERTIES
    ResetReachesEverySchool
    CodeDiesWithItsUse
    DecidesLikeDesk
    BackfilledTogether
    CallsKeepOthersWork
