---------------------------- MODULE ProviderService ----------------------------
(***************************************************************************)
(* What a service provider promises to whoever drives it one life-cycle    *)
(* call at a time: the states of ExecutionState (types/basal-protocol.ts)  *)
(* it goes through, and when its API listener is open.  ServiceLifeCycle   *)
(* implements it.                                                          *)
(***************************************************************************)

VARIABLES
    state,  \* the execution state the provider shows
    open    \* its API listener is bound or being bound

vars == <<state, open>>

Init == state = "Stopped" /\ open = FALSE

\* A first start allocates resources, a later one finds them allocated.
Initialize == state = "Stopped" /\ state' = "Initializing" /\ UNCHANGED open

\* The listener is opened before the provider says it is running.
BeginStart ==
    /\ state \in {"Stopped", "Initializing"} /\ ~open
    /\ state' = "Starting" /\ open' = TRUE

EndStart == state = "Starting" /\ open /\ state' = "Running" /\ UNCHANGED open

BeginStop == state = "Running" /\ open /\ state' = "Stopping" /\ UNCHANGED open

CloseApi == state = "Stopping" /\ open' = FALSE /\ UNCHANGED state

EndStop == state = "Stopping" /\ ~open /\ state' = "Stopped" /\ UNCHANGED open

Halt == state = "Running" /\ state' = "Halt" /\ open' = FALSE

Activate == state = "Halt" /\ state' = "Running" /\ open' = TRUE

Next == Initialize \/ BeginStart \/ EndStart \/ BeginStop \/ CloseApi \/ EndStop
        \/ Halt \/ Activate

Spec == Init /\ [][Next]_vars
=============================================================================
