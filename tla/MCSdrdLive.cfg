SPECIFICATION FairSpec
CONSTANTS
    Conns = {c1, c2}
    Gens = {1, 2}
    Features = {f}
    Settings = {h, a}
    ManualModes = {h}
    Home = a
    Agc = agc
    ReuseConnection = FALSE
    FailAt = {3}
    MaxSequence = 1
INVARIANT CancelCorrelated
PROPERTIES
    RequestAnswered
    Shutdown
