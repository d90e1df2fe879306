-------------------------------- MODULE RpcCall --------------------------------
(***************************************************************************)
(* What a remote call is to its caller: it is asked, executed at most once *)
(* by the helper, and resolved at most once and only after the execution.  *)
(* It may also stay unresolved for ever.  RpcExchange implements it.       *)
(***************************************************************************)
CONSTANT Requests

VARIABLES
    asked,     \* calls a caller waits for
    executed,  \* calls the helper has executed
    resolved   \* calls whose promise has been resolved

vars == <<asked, executed, resolved>>

Init == asked = {} /\ executed = {} /\ resolved = {}

Ask(r) == r \notin asked /\ asked' = asked \cup {r} /\ UNCHANGED <<executed, resolved>>

Execute(r) ==
    r \in asked \ executed /\ executed' = executed \cup {r} /\ UNCHANGED <<asked, resolved>>

Resolve(r) ==
    r \in executed \ resolved /\ resolved' = resolved \cup {r} /\ UNCHANGED <<asked, executed>>

Next == \E r \in Requests : Ask(r) \/ Execute(r) \/ Resolve(r)

Spec == Init /\ [][Next]_vars
=============================================================================
