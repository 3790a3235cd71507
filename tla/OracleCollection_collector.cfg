SPECIFICATION Spec
CONSTANTS
    MaxEpisodes = 1
    MaxPoints = 2
    MaxDecisions = 2
    CollectorFits = FALSE
INVARIANT CollectsWhenAllGoesWell
