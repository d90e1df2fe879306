--------------------------- MODULE MCServiceManager ---------------------------
(* ServiceManager for TLC: concurrent calls are interchangeable. *)
EXTENDS ServiceManager, TLC

Symmetry == Permutations(Calls)
=============================================================================
