----------------------------- MODULE BroadcastServer -----------------------------
(***************************************************************************)
(* The BroadcastUdpServer of a service manager                             *)
(* (network/broadcast-udp-server.ts), the UdpServer it extends             *)
(* (network/udp-server.ts) and the RetryScheduler of its binds.            *)
(*                                                                         *)
(* A run is one call of start().  The owner awaits stop() before its next  *)
(* call; the rejection of an aborted wait and the close event of a socket  *)
(* come later still.                                                       *)
(***************************************************************************)
EXTENDS Naturals

CONSTANTS
    Runs,        \* the start() calls, the bound of the model
    NoRun,
    Infos,       \* what setManagerInfo() is given
    NoInfo,
    MaxRetries,  \* core configuration retry.max_retries, 0 for no limit
    MaxAttempts  \* the bound on the attempts of one run

VARIABLES
    state,    \* UdpServer._state
    socket,   \* the run whose last attempt made _socket
    pc,       \* where each run is
    attempt,  \* RetryScheduler._attempt of each run
    conn,     \* the socket of each run's last attempt
    result,   \* how each start() has settled
    info,     \* _managerInfo
    buffer    \* _responseBuffer, NoInfo when it is empty

vars == <<state, socket, pc, attempt, conn, result, info, buffer>>

ExecutionState == {"Error", "Listening", "Retrying", "Starting", "Stopped"}

\* In "finishing" UdpServer.start() has returned to that of BroadcastUdpServer; a
\* "closing" run has its socket closed while it binds, and is "hung" when the
\* close event does not reject the bind either.
Places == {"idle", "binding", "sleeping", "aborting", "closing", "finishing", "hung", "done"}

Init ==
    /\ state = "Stopped" /\ socket = NoRun
    /\ pc = [r \in Runs |-> "idle"]
    /\ attempt = [r \in Runs |-> 0]
    /\ conn = [r \in Runs |-> "none"]
    /\ result = [r \in Runs |-> "none"]
    /\ info = NoInfo /\ buffer = NoInfo

-----------------------------------------------------------------------------
\* Microtasks run before the close event, and that before any other event.
Drained == \A r \in Runs : pc[r] \notin {"aborting", "finishing"}
Quiescent == Drained /\ \A r \in Runs : pc[r] # "closing"

Goto(r, place) == pc' = [pc EXCEPT ![r] = place]

Settle(r, how) ==
    /\ Goto(r, "done")
    /\ result' = [result EXCEPT ![r] = how]

SetManagerInfo(i) ==
    /\ info' = i
    /\ UNCHANGED <<state, socket, pc, attempt, conn, result, buffer>>

\* start(): it binds, or has nothing to do but its continuation.  The owner is
\* taken not to begin a bind while another, its state lost, is in flight.
Start(r) ==
    /\ pc[r] = "idle"
    /\ IF state = "Stopped"
       THEN /\ \A q \in Runs : pc[q] \notin {"binding", "sleeping"}
            /\ state' = "Starting" /\ socket' = r
            /\ attempt' = [attempt EXCEPT ![r] = 1]
            /\ conn' = [conn EXCEPT ![r] = "binding"]
            /\ Goto(r, "binding")
       ELSE Goto(r, "finishing") /\ UNCHANGED <<state, socket, attempt, conn>>
    /\ UNCHANGED <<result, info, buffer>>

\* handleBindSuccess: the scheduler in place is reset.
Bound(r) ==
    /\ Quiescent /\ pc[r] = "binding"
    /\ state' = "Listening"
    /\ attempt' = [attempt EXCEPT ![r] = 0]
    /\ conn' = [conn EXCEPT ![r] = "bound"]
    /\ Goto(r, "finishing")
    /\ UNCHANGED <<socket, result, info, buffer>>

Exhausted(r) == MaxRetries > 0 /\ attempt[r] >= MaxRetries

\* The attempt fails and its socket is closed, but stays in _socket.  Whatever the
\* error the scheduler goes on: what an Error event throws is caught.
BindFails(r) ==
    /\ Quiescent /\ pc[r] = "binding"
    /\ conn' = [conn EXCEPT ![r] = "closed"]
    /\ IF Exhausted(r)
       THEN state' = "Error" /\ Settle(r, "rejected")
       ELSE state' = "Retrying" /\ Goto(r, "sleeping") /\ UNCHANGED result
    /\ UNCHANGED <<socket, attempt, info, buffer>>

\* The wait of _waitWithAbort is over: the next _attemptBind.
Wake(r) ==
    /\ Quiescent /\ pc[r] = "sleeping" /\ attempt[r] < MaxAttempts
    /\ attempt' = [attempt EXCEPT ![r] = @ + 1]
    /\ socket' = r
    /\ conn' = [conn EXCEPT ![r] = "binding"]
    /\ Goto(r, "binding")
    /\ UNCHANGED <<state, result, info, buffer>>

\* UdpServer.stop() in a state other than Stopped, after which the runs are at
\* places: the scheduler is aborted and the socket closed.
Halted(places) ==
    /\ state' = "Stopped"
    /\ socket' = NoRun /\ conn' = [conn EXCEPT ![socket] = "closed"]
    /\ pc' = [r \in Runs |-> IF r = socket /\ places[r] = "binding" THEN "closing" ELSE places[r]]

\* stop() of BroadcastUdpServer.  To close a socket that a failed bind has closed
\* throws, and the information is kept.
Close(places) ==
    IF state # "Stopped" /\ conn[socket] = "closed"
    THEN /\ state' = "Stopped"
         /\ pc' = [r \in Runs |-> IF places[r] = "sleeping" THEN "aborting" ELSE places[r]]
         /\ UNCHANGED <<socket, conn, info, buffer>>
    ELSE /\ IF state = "Stopped" THEN pc' = places /\ UNCHANGED <<state, socket, conn>>
            ELSE Halted(places)
         /\ info' = NoInfo /\ buffer' = NoInfo

Stop == Close(pc) /\ UNCHANGED <<attempt, result>>

\* Mutant: the information is not looked for.
FinishUnchecked(r) ==
    /\ pc[r] = "finishing"
    /\ Settle(r, "resolved")
    /\ buffer' = info
    /\ UNCHANGED <<state, socket, attempt, conn, info>>

\* The continuation of start(): without information it stops the server and rejects.
Finish(r) ==
    /\ pc[r] = "finishing"
    /\ IF info # NoInfo
       THEN /\ Settle(r, "resolved")
            /\ buffer' = info
            /\ UNCHANGED <<state, socket, conn, info>>
       ELSE /\ Close([pc EXCEPT ![r] = "done"])
            /\ result' = [result EXCEPT ![r] = "rejected"]
    /\ UNCHANGED attempt

\* The aborted wait rejects, and UdpServer.start() returns.
AbortSettle(r) ==
    /\ pc[r] = "aborting"
    /\ state' = "Stopped"
    /\ Goto(r, "finishing")
    /\ UNCHANGED <<socket, attempt, conn, result, info, buffer>>

\* onStartupClose.  When the server has been started again meanwhile, the old run
\* takes the close for a failure: it gives up, or finds its wait aborted.
CloseEvent(r) ==
    /\ Drained /\ pc[r] = "closing"
    /\ \/ /\ state = "Stopped"
          /\ Goto(r, "hung") /\ UNCHANGED <<state, result>>
       \/ /\ state # "Stopped" /\ Exhausted(r)
          /\ state' = "Error" /\ Settle(r, "rejected")
       \/ /\ state # "Stopped" /\ ~Exhausted(r)
          /\ state' = "Stopped" /\ Goto(r, "finishing") /\ UNCHANGED result
    /\ UNCHANGED <<socket, attempt, conn, info, buffer>>

Next ==
    \/ \E i \in Infos : SetManagerInfo(i)
    \/ \E r \in Runs :
        \/ Start(r) \/ Bound(r) \/ BindFails(r) \/ Wake(r)
        \/ Finish(r) \/ AbortSettle(r) \/ CloseEvent(r)
    \/ Stop

Spec == Init /\ [][Next]_vars

-----------------------------------------------------------------------------
\* Properties.

\* Every variable has its type.
TypeOK ==
    /\ state \in ExecutionState
    /\ socket \in Runs \cup {NoRun}
    /\ pc \in [Runs -> Places]
    /\ attempt \in [Runs -> Nat]
    /\ conn \in [Runs -> {"none", "binding", "bound", "closed"}]
    /\ result \in [Runs -> {"none", "resolved", "rejected"}]
    /\ info \in Infos \cup {NoInfo} /\ buffer \in Infos \cup {NoInfo}

\* Whenever a datagram can arrive on a socket, the server can answer it: it is
\* Listening, the socket is its own and the answer is not empty, however start(),
\* stop() and setManagerInfo() overlap.  handleMessage throws out of the event
\* otherwise, which ends the process, or answers with nothing.
Answerable ==
    Quiescent => \A r \in Runs :
        conn[r] = "bound" => state = "Listening" /\ socket = r /\ buffer # NoInfo
=============================================================================
