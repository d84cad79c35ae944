SPECIFICATION FairSpec

CONSTANTS
    u1 = u1
    u2 = u2
    u3 = u3
    u4 = u4
    d1 = d1
    d2 = d2
    d3 = d3
    Sequence <- MCSequence
    KeyOrder <- MCKeyOrder
    Upload = {u1, u2, u3, u4}
    Deletion = {d1, d2, d3}
    Hopeless = {u1, u2, d1}
    Unreadable = {u3}
    Limit = 2
    MaxGap = 2
    MaxTrouble = 1

INVARIANTS
    TypeOK

PROPERTY
    EveryRowGetsItsTurn
