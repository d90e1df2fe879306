----------------------------- MODULE MCRpcExchange -----------------------------
(* RpcExchange for TLC: the calls are interchangeable. *)
EXTENDS RpcExchange, TLC

Symmetry == Permutations(Requests)
=============================================================================
