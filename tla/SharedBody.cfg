SPECIFICATION Spec

CONSTANTS
    None = None
    p1 = p1
    p2 = p2
    k1 = k1
    k2 = k2
    o1 = o1
    o2 = o2
    h1 = h1
    Proc = {p1, p2}
    Key = {k1, k2}
    Hash = {h1}
    Object = {o1}
    HashOf <- OneObject
    Capture <- SharedCaptures
    Legacy <- FirstCapture
    DeletionRequests <- AllRevs
    ExternalDeletions <- NoRevs
    RevRank <- SharedRank
    Limit = 1
    Budget <- OneDamage

SYMMETRY ProcSymmetry

INVARIANTS
    NeededBodyIsKept
    NoSilentCancel
    OnlyDamageIsSetAside
    ErasedMeansGone
