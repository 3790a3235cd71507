SPECIFICATION Spec
CONSTANTS
    Tabs = {t1, t2}
    Starters = {t1}
    MaxRuns = 2
    MaxRecords = 2
    MaxFaults = 1
INVARIANTS
    RunningIsTheOneRunner
    StoreIsTheRunsLog
    ViewFollowsTheLogs
PROPERTIES
    PagesCatchUp
