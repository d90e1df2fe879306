--------------------------- MODULE MCServiceLifeCycle ---------------------------
(* ServiceLifeCycle for TLC: concurrent calls are interchangeable. *)
EXTENDS ServiceLifeCycle, TLC

Symmetry == Permutations(Calls)
=============================================================================
