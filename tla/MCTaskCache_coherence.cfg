SPECIFICATION Spec
CONSTANTS
    Client = {c1, c2, c3}
    Writer = {w1, w2}
    None = None
    TTL = 2
    MaxFaults = 2
INVARIANTS
    TypeOK
    StaleOnlyByRace
PROPERTY EventuallyCoherent
