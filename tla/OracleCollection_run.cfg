SPECIFICATION Spec
CONSTANTS
    MaxEpisodes = 3
    MaxPoints = 4
    MaxDecisions = 2
    CollectorFits = TRUE
INVARIANTS
    EpisodeIsAtomic
    LoadedTrajectoryWasPlayed
