-------------------------- MODULE MCTrainingClient --------------------------
EXTENDS TrainingClientInv, TLC
Symmetry == Permutations(Tasks)
=============================================================================
