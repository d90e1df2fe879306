------------------------------- MODULE TcpClient -------------------------------
(***************************************************************************)
(* One TcpClient (network/tcp-client.ts) and the RetryScheduler            *)
(* (common/retry.ts) each of its start() calls runs.                       *)
(*                                                                         *)
(* A run is one accepted start().  Between two awaits nothing else runs;   *)
(* the wait of a run that is aborted rejects a few microtasks later, before*)
(* any event of a socket or timer but not before its caller, so that the   *)
(* caller of stop() may start() again first.  Halt, which the scheduler    *)
(* shows between its last failure and Error, is never seen by an event.    *)
(***************************************************************************)
EXTENDS Naturals, FiniteSets

CONSTANTS
    Runs,        \* the start() calls the client accepts, the bound of the model
    NoRun,
    MaxRetries,  \* core configuration retry.max_retries, 0 for no limit
    MaxAttempts  \* the bound on the attempts of one run

ASSUME RunsAssumption == NoRun \notin Runs /\ IsFiniteSet(Runs)
ASSUME RetriesAssumption == MaxRetries \in Nat /\ MaxAttempts \in Nat

VARIABLES
    state,    \* TcpClient._state
    socket,   \* the run whose last attempt made _socket
    current,  \* the run whose _retryScheduler and _abortController are held
    pc,       \* where each run is
    attempt,  \* RetryScheduler._attempt of each run
    aborted,  \* runs whose controller is aborted and whose scheduler is stopped
    conn,     \* the socket of each run's last attempt
    result,   \* how each start() has settled
    listened, \* the owner listens to the client's Error event
    crashed,  \* an Error event has been thrown out of a callback
    active,   \* what the client has added to the active_connections metric
    doubled   \* history: a start() was accepted while an earlier one was in flight

vars == <<state, socket, current, pc, attempt, aborted, conn, result, listened, crashed,
          active, doubled>>

ExecutionState == {"Error", "Retrying", "Running", "Starting", "Stopped"}

\* "hung" is the await of a connect whose socket was destroyed: a destroyed
\* socket emits neither "connect" nor "error".
Places == {"idle", "connecting", "sleeping", "aborting", "hung", "done"}
Sockets == {"none", "connecting", "open", "destroyed", "closing", "closed"}
Results == {"none", "connected", "aborted", "rejected"}

Init ==
    /\ state = "Stopped" /\ socket = NoRun /\ current = NoRun
    /\ pc = [r \in Runs |-> "idle"]
    /\ attempt = [r \in Runs |-> 0]
    /\ aborted = {}
    /\ conn = [r \in Runs |-> "none"]
    /\ result = [r \in Runs |-> "none"]
    /\ listened \in BOOLEAN /\ crashed = FALSE /\ active = 0
    /\ doubled = FALSE

-----------------------------------------------------------------------------
Settle(r, how) ==
    /\ pc' = [pc EXCEPT ![r] = "done"]
    /\ result' = [result EXCEPT ![r] = how]

\* start() awaits an attempt or the time until the next.
InFlight(r) == pc[r] \in {"connecting", "sleeping"}

\* Sockets and timers are served once no microtask is left.
Quiescent == \A r \in Runs : pc[r] # "aborting"

\* Mutant: a connected client may be started again.
StartAcceptsRunning == state # "Starting"

StartAccepts == state \notin {"Running", "Starting"}

\* start() up to its first await: a scheduler and a controller of its own and the
\* first _attemptConnect.  An earlier start() that is retrying, or that a late
\* abort has hidden behind Stopped, goes on beside it, out of reach of stop().
Start(r) ==
    /\ pc[r] = "idle" /\ StartAccepts
    /\ doubled' = (doubled \/ \E q \in Runs : InFlight(q))
    /\ state' = "Starting"
    /\ current' = r /\ socket' = r
    /\ attempt' = [attempt EXCEPT ![r] = 1]
    /\ conn' = [conn EXCEPT ![r] = "connecting"]
    /\ pc' = [pc EXCEPT ![r] = "connecting"]
    /\ UNCHANGED <<aborted, result, listened, crashed, active>>

\* The socket connects: handleConnectSuccess, and start() resolves.
Connect(r) ==
    /\ Quiescent /\ conn[r] = "connecting"
    /\ state' = "Running"
    /\ conn' = [conn EXCEPT ![r] = "open"]
    /\ active' = active + 1
    /\ Settle(r, "connected")
    /\ UNCHANGED <<socket, current, attempt, aborted, listened, crashed, doubled>>

\* Mutant: off by one.
ExhaustedLate(r) == MaxRetries > 0 /\ attempt[r] > MaxRetries

Exhausted(r) == MaxRetries > 0 /\ attempt[r] >= MaxRetries

\* Mutant: a NetworkRetryable error is swallowed before the attempt is rejected.
ConnectFailsSilently(r, retryable) ==
    /\ Quiescent /\ conn[r] = "connecting"
    /\ conn' = [conn EXCEPT ![r] = "destroyed"]
    /\ state' = "Error"
    /\ IF retryable \/ ~listened THEN UNCHANGED <<pc, result>> ELSE Settle(r, "rejected")
    /\ crashed' = (~retryable /\ ~listened)
    /\ UNCHANGED <<socket, current, attempt, aborted, listened, active, doubled>>

\* The attempt fails.  An error that is not NetworkRetryable is emitted first,
\* which throws when nobody listens and leaves the attempt unsettled; the
\* scheduler retries after either kind, or gives up.
ConnectFails(r, retryable) ==
    /\ Quiescent /\ conn[r] = "connecting"
    /\ conn' = [conn EXCEPT ![r] = "destroyed"]
    /\ \/ /\ ~retryable /\ ~listened
          /\ state' = "Error" /\ crashed' = TRUE
          /\ pc' = [pc EXCEPT ![r] = "hung"]
          /\ UNCHANGED result
       \/ /\ (retryable \/ listened) /\ Exhausted(r)
          /\ state' = "Error"
          /\ Settle(r, "rejected")
          /\ UNCHANGED crashed
       \/ /\ (retryable \/ listened) /\ ~Exhausted(r)
          /\ state' = "Retrying"
          /\ pc' = [pc EXCEPT ![r] = "sleeping"]
          /\ UNCHANGED <<result, crashed>>
    /\ UNCHANGED <<socket, current, attempt, aborted, listened, active, doubled>>

\* The wait of _waitWithAbort is over: the scheduler makes the next attempt.
Wake(r) ==
    /\ Quiescent /\ pc[r] = "sleeping" /\ attempt[r] < MaxAttempts
    /\ attempt' = [attempt EXCEPT ![r] = @ + 1]
    /\ IF state = "Stopped"
       THEN Settle(r, "aborted") /\ UNCHANGED <<socket, conn>>
       ELSE /\ pc' = [pc EXCEPT ![r] = "connecting"]
            /\ socket' = r
            /\ conn' = [conn EXCEPT ![r] = "connecting"]
            /\ UNCHANGED result
    /\ UNCHANGED <<state, current, aborted, listened, crashed, active, doubled>>

\* Mutant: a client that was never started may be stopped.
StopAcceptsAll == TRUE

StopAccepts == state # "Stopped"

\* The effect of Socket.destroy() on the socket of run r.
Destroy(r) ==
    [conn EXCEPT ![r] = CASE @ = "connecting" -> "destroyed"
                          [] @ = "open" -> "closing"
                          [] OTHER -> @]

\* Mutant: the socket is forgotten and not destroyed.
StopKeepsSocket ==
    /\ StopAccepts
    /\ state' = "Stopped"
    /\ aborted' = aborted \cup {current}
    /\ socket' = NoRun
    /\ pc' = [r \in Runs |-> IF r = current /\ pc[r] = "sleeping" THEN "aborting" ELSE pc[r]]
    /\ UNCHANGED <<current, attempt, conn, result, listened, crashed, active, doubled>>

\* Mutant: the wait between two attempts does not see the abort signal.
StopUnheard ==
    /\ StopAccepts
    /\ state' = "Stopped"
    /\ aborted' = aborted \cup {current}
    /\ socket' = NoRun
    /\ conn' = IF socket \in Runs THEN Destroy(socket) ELSE conn
    /\ pc' = [r \in Runs |-> IF r = socket /\ pc[r] = "connecting" THEN "hung" ELSE pc[r]]
    /\ UNCHANGED <<current, attempt, result, listened, crashed, active, doubled>>

\* A stop() in state Stopped does nothing.
Stop ==
    /\ IF ~StopAccepts
       THEN UNCHANGED <<state, socket, aborted, conn, pc>>
       ELSE /\ state' = "Stopped"
            /\ aborted' = aborted \cup {current}
            /\ socket' = NoRun
            /\ conn' = IF socket \in Runs THEN Destroy(socket) ELSE conn
            /\ pc' = [r \in Runs |->
                        IF r = socket /\ pc[r] = "connecting" THEN "hung"
                        ELSE IF r = current /\ pc[r] = "sleeping" THEN "aborting"
                        ELSE pc[r]]
    /\ UNCHANGED <<current, attempt, result, listened, crashed, active, doubled>>

\* The aborted wait rejects, and start() resolves after all.
AbortSettle(r) ==
    /\ pc[r] = "aborting"
    /\ state' = "Stopped"
    /\ Settle(r, "aborted")
    /\ UNCHANGED <<socket, current, attempt, aborted, conn, listened, crashed, active, doubled>>

\* The peer closes the connection: handleClose changes no state.
RemoteClose(r) ==
    /\ Quiescent /\ conn[r] = "open"
    /\ conn' = [conn EXCEPT ![r] = "closed"]
    /\ active' = active - 1
    /\ UNCHANGED <<state, socket, current, pc, attempt, aborted, result, listened, crashed,
                   doubled>>

\* Mutant: the error counts the connection as closed already.
SocketErrorCounted(r) ==
    /\ Quiescent /\ conn[r] = "open"
    /\ state' = "Error"
    /\ conn' = [conn EXCEPT ![r] = "closing"]
    /\ crashed' = ~listened
    /\ active' = active - 1
    /\ UNCHANGED <<socket, current, pc, attempt, aborted, result, listened, doubled>>

\* handleError; the close event follows.
SocketError(r) ==
    /\ Quiescent /\ conn[r] = "open"
    /\ state' = "Error"
    /\ conn' = [conn EXCEPT ![r] = "closing"]
    /\ crashed' = ~listened
    /\ UNCHANGED <<socket, current, pc, attempt, aborted, result, listened, active, doubled>>

Closed(r) ==
    /\ Quiescent /\ conn[r] = "closing"
    /\ conn' = [conn EXCEPT ![r] = "closed"]
    /\ active' = active - 1
    /\ UNCHANGED <<state, socket, current, pc, attempt, aborted, result, listened, crashed,
                   doubled>>

\* Every socket that is connecting or connected is the one the client holds.
Owned == \A r \in Runs : conn[r] \in {"connecting", "open"} => socket = r

\* A second loop has replaced a live socket.  From then on the callbacks of one
\* socket work on the other (cleanup, onError, _setupSocketListeners), and the
\* client is followed no further.
Lost == doubled /\ ~Owned

Followed == ~crashed /\ ~Lost

Next ==
    \/ /\ Followed
       /\ \/ \E r \in Runs :
              \/ Start(r) \/ Connect(r) \/ Wake(r) \/ AbortSettle(r)
              \/ \E retryable \in BOOLEAN : ConnectFails(r, retryable)
              \/ RemoteClose(r) \/ SocketError(r) \/ Closed(r)
          \/ Stop
    \/ ~Followed /\ UNCHANGED vars

Spec == Init /\ [][Next]_vars

\* An attempt ends one way or the other, timers fire and microtasks run.
Fairness ==
    \A r \in Runs :
        /\ WF_vars(Followed /\ (Connect(r) \/ \E b \in BOOLEAN : ConnectFails(r, b)))
        /\ WF_vars(Followed /\ Wake(r))
        /\ WF_vars(Followed /\ AbortSettle(r))

FairSpec == Spec /\ Fairness

-----------------------------------------------------------------------------
\* Properties.

\* Every variable has its type; for active, ConnectionsCounted says more.
TypeOK ==
    /\ state \in ExecutionState
    /\ socket \in Runs \cup {NoRun} /\ current \in Runs \cup {NoRun}
    /\ pc \in [Runs -> Places]
    /\ attempt \in [Runs -> Nat]
    /\ aborted \subseteq Runs
    /\ conn \in [Runs -> Sockets]
    /\ result \in [Runs -> Results]
    /\ listened \in BOOLEAN /\ crashed \in BOOLEAN
    /\ doubled \in BOOLEAN

\* As long as no start() is called while an earlier one is in flight, no second
\* socket is connecting or connected, and the live one is the one that stop() would
\* destroy and write() would use: however stop() and its late aborts come between
\* the attempts, none leaks.  The code accepts such a start() in Retrying, and then
\* one does: Owned by itself is violated.
OneSocket == ~doubled => Owned

\* start() rejects only once max_retries attempts have failed, whatever stop() or
\* other start() comes between them, and makes no attempt beyond them.
GivesUpLast ==
    \A r \in Runs :
        /\ MaxRetries > 0 => attempt[r] <= MaxRetries
        /\ result[r] = "rejected" => MaxRetries > 0 /\ attempt[r] = MaxRetries

\* The active_connections metric is the number of connections made and not yet
\* closed, whichever of stop(), the peer and an error ends them: each is taken off
\* once, also when it fails first and closes then (handleError, handleClose).
ConnectionsCounted ==
    active = Cardinality({r \in Runs : conn[r] \in {"open", "closing"}})

\* A run that was stopped makes no further attempt and opens no connection,
\* whatever is started after it.
AbortIsFinal ==
    [][\A r \in aborted : attempt'[r] = attempt[r] /\ (conn'[r] = "open" => conn[r] = "open")]_vars

\* A start() settles, unless a stop() cuts its attempt off, the process dies or a
\* second loop replaces a live socket.
StartSettles ==
    \A r \in Runs :
        pc[r] \in {"connecting", "sleeping", "aborting"}
            ~> pc[r] \in {"done", "hung"} \/ ~Followed

\* The client is what ServiceLifeCycle takes a task to be, as long as no start() is
\* called while an earlier one is in flight.
status ==
    IF \E r \in Runs : conn[r] = "open" THEN "up"
    ELSE IF \E r \in Runs : InFlight(r) THEN "starting"
    ELSE "down"
owner == IF status = "starting" THEN CHOOSE r \in Runs : InFlight(r) ELSE NoRun
pending == {r \in Runs : pc[r] \in {"connecting", "sleeping", "aborting", "hung"}}

Link == INSTANCE Connection
ImplementsConnection == Link!Init /\ [][doubled' \/ Link!Next]_(Link!vars)

=============================================================================
