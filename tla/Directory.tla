-------------------------------- MODULE Directory --------------------------------
(***************************************************************************)
(* What the discovery of managers promises a provider: a discovery learns  *)
(* only what a manager has announced, though it may be out of date, and it *)
(* learns it once.  ManagerDiscovery implements it.                        *)
(***************************************************************************)
CONSTANTS Calls, Infos

VARIABLES
    announced,  \* the information managers have listened with
    known       \* what each discovery has returned

vars == <<announced, known>>

Init == announced = {} /\ known = [c \in Calls |-> {}]

Announce(i) == announced' = announced \cup {i} /\ UNCHANGED known

\* One answer may serve several discoveries.
Learn(cs, i) ==
    /\ i \in announced /\ \A c \in cs : known[c] = {}
    /\ known' = [c \in Calls |-> IF c \in cs THEN {i} ELSE known[c]]
    /\ UNCHANGED announced

Next ==
    \/ \E i \in Infos : Announce(i)
    \/ \E cs \in SUBSET Calls, i \in Infos : Learn(cs, i)

Spec == Init /\ [][Next]_vars
=============================================================================
