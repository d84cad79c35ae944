SPECIFICATION DeliverySpec

CONSTANTS
    None = None
    p1 = p1
    p2 = p2
    k1 = k1
    k2 = k2
    o1 = o1
    o2 = o2
    h1 = h1
    Proc = {p1, p2}
    Key = {k1, k2}
    Hash = {h1}
    Object = {o1}
    HashOf <- OneObject
    Capture <- SharedCaptures
    Legacy <- NoCaptures
    DeletionRequests <- AllRevs
    ExternalDeletions <- NoRevs
    RevRank <- SharedRank
    Limit = 2
    Budget <- OneCrash

PROPERTIES
    EverythingSettles
    DeletedBodiesLeave
