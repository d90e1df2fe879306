------------------------------ MODULE MCTcpClient ------------------------------
(* TcpClient for TLC: the runs are interchangeable. *)
EXTENDS TcpClient, TLC

Symmetry == Permutations(Runs)
=============================================================================
