SPECIFICATION Spec
CONSTANTS
    Conns = {c1, c2}
    Gens = {1, 2}
    Features = {f}
    Settings = {h, a}
    ManualModes = {h}
    Home = h
    Agc = agc
    ReuseConnection = TRUE
    FailAt = {0, 3, 6}
    MaxSequence = 2
SYMMETRY ConnSymmetry
INVARIANTS
    TypeOK
    OneWorker
    CancelSeesLiveBuffer
    CancelReachesRefill
    RestorationOwed
    RepliesTruthful
    NoPartialFiles
    NoUseAfterExit
PROPERTY
    SnapshotKept
    ImplementsOwnership
