SPECIFICATION FairSpec

CONSTANTS
    None = None
    p1 = p1
    p2 = p2
    record = record
    publish = publish
    c1 = c1
    c2 = c2
    here = here
    there = there
    Process = {p1, p2}
    Operation = {record, publish}
    Publication = {publish}
    Content = {c1, c2}
    Destination = {here, there}
    Limit = 1
    MaxAttempts = 4
    MaxTrouble = 2

INVARIANTS
    TypeOK
    AcknowledgedIsRemote
    NothingReachesAnotherStore

PROPERTIES
    EvidenceSettles
    ImplementsQueue
