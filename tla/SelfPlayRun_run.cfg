SPECIFICATION Spec
CONSTANTS
    MaxPoints = 4
    MaxDecisions = 2
INVARIANTS
    BranchesHaveAnOwner
    ReplayIsNotRaced
    LabelledRunIsComplete
    EventChoiceSurvives

