SPECIFICATION FairSpec

CONSTANTS
    e1 = e1
    grows = grows
    poison = poison
    here = here
    there = there
    Torn = Torn
    Exporter = {e1}
    Path = {grows, poison}
    Config = {here, there}
    Session = {grows, poison}
    Place <- MCPlace
    SessionOf <- MCSession
    Poison = {poison}
    Longest <- MCLongest
    MaxEnvelope = 3
    BatchSize = 2
    Budget = 2
    MaxTrouble = 1

PROPERTY
    EverythingIsHeld
