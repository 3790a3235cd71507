--------------------------- MODULE MCPrunerLearning ---------------------------
EXTENDS PrunerLearning, TLC
Symmetry == Permutations(Paths) \cup Permutations(Logs)
===============================================================================
