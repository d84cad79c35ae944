SPECIFICATION Spec

CONSTANTS
    e1 = e1
    e2 = e2
    grows = grows
    poison = poison
    here = here
    Torn = Torn
    Exporter = {e1, e2}
    Path = {grows, poison}
    Config = {here}
    Session = {grows, poison}
    Place <- MCPlace
    SessionOf <- MCSession
    Poison = {poison}
    Longest <- MCShort
    MaxEnvelope = 2
    BatchSize = 2
    Budget = 2
    MaxTrouble = 1

SYMMETRY MCSymmetry

INVARIANTS
    RecordedIsHeld
    CleanSweepIsHeld
