\* Every case of the pure algorithms: rankings, turns, choices, screens,
\* frontiers, training targets and combat states.
SPECIFICATION CaseSpec
CONSTANTS
  None = None
  Missing = Missing
  NoTarget = NoTarget
  TerminalWeight = 2
  BootstrapWeight = 1
  Refused = Refused
  MaxRanked = 3
  MaxFrontier = 3
  BlockPerEnergy = 5
  TurnAttrition = 1
  DamagePrior = 6
  MinDamagePerEnergy = 1
  PriorTurns = 1
INVARIANTS
  BranchesAreKept
  UrgentActionsLead
  SelectorIsSafe
  RecordedStepIsAccepted
  OfflineSelectsAsRuntime
  PairsTeachSelection
  MoreIsNeverWorse
  ClosedFormsAreMinima
\* A behaviour ends with the answer to its case.
CHECK_DEADLOCK FALSE
