SPECIFICATION Spec
CONSTANTS
    Client = {c1, c2}
    Writer = {w1, w2}
    None = None
    TTL = 2
    MaxFaults = 0
INVARIANT DeletedNotCached
