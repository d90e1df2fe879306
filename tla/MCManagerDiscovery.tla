--------------------------- MODULE MCManagerDiscovery ---------------------------
EXTENDS ManagerDiscovery, TLC

Symmetry == Permutations(Calls) \cup Permutations(Runs)
=============================================================================
