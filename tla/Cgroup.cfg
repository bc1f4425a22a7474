CONSTANTS
    b1 = b1
    b2 = b2
    k1 = k1
    k2 = k2
    Kinds = {1}
    MaxTries = 2
    NoCmd = NoCmd
    Subsystems <- MCSubsystems
    BaseProcs = {b1, b2}
    Kids = {k1, k2}
    MaxCrashes = 1
SPECIFICATION CgFairSpec
INVARIANTS Contained StartHasGroup
PROPERTIES BaseLeftEmpty HandshakeEnds KidsDie ImplementsProvider
