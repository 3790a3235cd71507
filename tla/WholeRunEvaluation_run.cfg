\* Two servers with a worker each, two runs in each of two conditions.
CONSTANTS
    NumPorts = 2
    NumRuns = 2
    Concurrency = 2
    NumConditions = 2
    MaxDecisions = 2
    MaxFloor = 1
    MaxCrashes = 2
    MaxStrangers = 1
    MaxInterrupts = 2
    Stubborn = TRUE
SPECIFICATION Spec
INVARIANTS
    NothingIsLeft
    RunsAccounted
PROPERTY EvaluationEnds
