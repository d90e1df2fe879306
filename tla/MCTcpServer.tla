------------------------------ MODULE MCTcpServer ------------------------------
EXTENDS TcpServer, TLC

Symmetry == Permutations(Runs) \cup Permutations(Peers)
=============================================================================
