SPECIFICATION Spec

CONSTANTS
    e1 = e1
    grows = grows
    poison = poison
    here = here
    Torn = Torn
    Exporter = {e1}
    Path = {grows, poison}
    Config = {here}
    Session = {grows}
    Place <- MCPlace
    SessionOf <- MCSame
    Poison = {}
    Longest <- MCShort
    MaxEnvelope = 2
    BatchSize = 2
    Budget = 2
    MaxTrouble = 1

INVARIANT
    RecordedIsHeld
