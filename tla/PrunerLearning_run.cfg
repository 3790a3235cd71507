CONSTANTS
    Paths = {p1, p2}
    Logs = {l1, l2}
    OracleRecords = {o1, o2}
    Archived = {o1}
    Null = Null
    MaxTrajectories = 1
    MaxSeeds = 2
    MaxLearns = 2
    MaxCopies = 1
    MaxFailures = 1
SPECIFICATION Spec
INVARIANTS
    OnPolicy
    MetricsAreOwn
    IngestIsTrue
SYMMETRY Symmetry
