\* One teacher's search of at most five candidates, from a stable root and from an
\* interactive choice, with and without an exhaustive root.
CONSTANTS
    BeamWidth = 2
    RootActions = 2
    TopK = 2
    MaxDepth = 2
    MaxCont = 1
    Scores = {1, 2}
    MaxIds = 5
SPECIFICATION Spec
INVARIANTS
    NoLabelAboveAFault
    LabelsAgree
    NoSelfImitation
    LabelledUnlessLost
