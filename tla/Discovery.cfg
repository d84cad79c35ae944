SPECIFICATION Spec

CONSTANTS
    claude = claude
    codex = codex
    notes = notes
    own = own
    ancestor = ancestor
    Absent = Absent
    File = {claude, codex, notes}
    Session = {claude, codex, notes, own, ancestor}
    Format <- MCFormat
    Script <- MCScript
    Limit = 4
    t1 = t1
    t2 = t2
    t3 = t3
    t4 = t4
    Thread = {t1, t2, t3, t4}
    Order <- MCOrder
    MaxThreads = 2
    PruneAt = 3
    MaxBytes = 2
    ThreadLimit = 2
    Initially <- MCInitially
    MaxEdits = 1
    Gone = Gone

CHECK_DEADLOCK FALSE
INVARIANTS
    TypeOK
    EnvelopesAreHonest
    QuietFilesAreTaken
    PruningKeepsTheNewest
    EditsAreNoticed

PROPERTY
    IdentityIsStable
