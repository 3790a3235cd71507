SPECIFICATION FairSpec
CONSTANTS
    t1 = t1
    t2 = t2
    NoTask = NoTask
    Tasks = {t1, t2}
    Payloads = {1}
    MaxSeq = 2
    MaxFaults = 2
    MaxEpoch = 2
PROPERTIES CallsReturn PendingResolves
