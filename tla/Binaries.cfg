SPECIFICATION Spec

CONSTANTS
    p1 = p1
    p2 = p2
    r1 = r1
    r2 = r2
    s1 = s1
    s2 = s2
    Restorer = {r1, r2}
    Session = {s1, s2}
    Capture <- MCCapture
    Origin <- MCOrigin
    Workplace <- MCWorkplace
    Tracked <- MCTracked
    NoOrigin = NoOrigin
    Absent = Absent
    MaxRestores = 3
    MaxMishaps = 1
    Proc = {p1, p2}
    Lines <- MCLines
    Value = {"0", "7", "90"}
    Number <- MCNumber
    MaxAge = 1
    MaxClock = 2
    MaxTroubles = 1
    Missing = Missing
    Torn = Torn
    top = top
    link = link
    usr = usr
    ours = ours
    shared = shared
    new = new
    new2 = new2
    Slash = top
    Node = {top, link, usr, ours, shared, new, new2}
    Name = {"usr", "var", "spool", "objects"}
    Owner <- MCOwner
    ModeOf <- MCMode
    Target <- MCTarget
    Entries <- MCEntries
    RootPath <- MCRoot
    Child = "objects"
    Fresh = {new, new2}
    MaxLinks = 2
    MaxSwaps = 2
    Free = Free

SYMMETRY MCSymmetry

CHECK_DEADLOCK FALSE

INVARIANTS
    TypeOK
    TranscriptsAreWhole
    RestoredWhereItRan
    AnswersAreHonest
    IndexStaysWithItsObjects
PROPERTY
    HealthyMeansSwept
