SPECIFICATION Spec
CONSTANTS
  MaxBatch = 2
  BeamWidth = 2
  TopK = 2
  MaxDepth = 2
  MaxCont = 1
  MaxAttempts = 2
  Setups <- Searches
  MaxIds = 16
INVARIANTS BooksAgree NeededIsHeld LeavesComparable NothingLeaks
PROPERTY Terminates
