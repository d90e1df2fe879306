------------------------------- MODULE Connection -------------------------------
(***************************************************************************)
(* What the owner of a network task relies on, be it a client or a server: *)
(* the part of ServiceLifeCycle's state that concerns one task of the map. *)
(* A start() is pending from its call until its promise settles; one that  *)
(* a stop() has cut off may settle late or never.  TcpClient implements it.*)
(***************************************************************************)
CONSTANTS Runs,  \* start() calls
          NoRun

VARIABLES
    status,  \* "down", "starting" or "up"
    owner,   \* the start() that is bringing the task up
    pending  \* start() calls that have not settled

vars == <<status, owner, pending>>

Init == status = "down" /\ owner = NoRun /\ pending = {}

Start(r) ==
    /\ status = "down" /\ r \notin pending
    /\ status' = "starting" /\ owner' = r /\ pending' = pending \cup {r}

\* Only the start() that brought the task up, or failed to, settles with it.
Up(r) ==
    /\ status = "starting" /\ owner = r
    /\ status' = "up" /\ owner' = NoRun /\ pending' = pending \ {r}

GiveUp(r) ==
    /\ status = "starting" /\ owner = r
    /\ status' = "down" /\ owner' = NoRun /\ pending' = pending \ {r}

\* stop(), or the loss of the connection.
Down ==
    /\ status \in {"starting", "up"}
    /\ status' = "down" /\ owner' = NoRun /\ UNCHANGED pending

\* The start() that a stop() has cut off returns.
LateReturn(r) ==
    /\ r \in pending /\ r # owner
    /\ pending' = pending \ {r} /\ UNCHANGED <<status, owner>>

Next ==
    \/ \E r \in Runs : Start(r) \/ Up(r) \/ GiveUp(r) \/ LateReturn(r)
    \/ Down

Spec == Init /\ [][Next]_vars
=============================================================================
