SPECIFICATION FairSpec

CONSTANTS
    None = None
    p1 = p1
    p2 = p2
    e1 = e1
    e2 = e2
    e3 = e3
    Process = {p1, p2}
    Envelope = {e1, e2, e3}
    Large = {e3}
    PageSize = 1
    MaxSequence = 4
    MaxTrouble = 2

INVARIANTS
    TypeOK
    IndexedBodiesAreReadable
    FinishedSweepIsIndexed
    TraversalIsExact

PROPERTIES
    EveryEnvelopeIsIndexed
    ImplementsLog
