SPECIFICATION Spec
CONSTANTS
    t1 = t1
    t2 = t2
    NoTask = NoTask
    Tasks = {t1, t2}
    Payloads = {1, 2}
    MaxSeq = 3
    MaxFaults = 2
    MaxEpoch = 2
SYMMETRY Symmetry
INVARIANTS SessionSync NoLostExecution ReplayReleases IInv
PROPERTY AtMostOnceSpec
