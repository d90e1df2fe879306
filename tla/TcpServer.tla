------------------------------- MODULE TcpServer -------------------------------
(***************************************************************************)
(* One TcpServer (network/tcp-server.ts) and the RetryScheduler            *)
(* (common/retry.ts) each of its start() calls runs.                       *)
(*                                                                         *)
(* A run is one accepted start(), a peer one connection.  As in TcpClient  *)
(* an aborted wait rejects after its caller goes on; the close event of a  *)
(* server that a stop() closes comes after that, and before other events.  *)
(***************************************************************************)
EXTENDS Naturals, FiniteSets

CONSTANTS
    Runs,        \* the start() calls the server accepts, the bound of the model
    NoRun,
    Peers,       \* the connections made to it
    MaxRetries,  \* core configuration retry.max_retries, 0 for no limit
    MaxAttempts  \* the bound on the attempts of one run

ASSUME RunsAssumption == NoRun \notin Runs /\ IsFiniteSet(Peers)
ASSUME RetriesAssumption == MaxRetries \in Nat /\ MaxAttempts \in Nat

VARIABLES
    state,     \* TcpServer._state
    server,    \* the run whose last attempt made _server
    pc,        \* where each run is
    attempt,   \* RetryScheduler._attempt of each run
    conn,      \* the server of each run's last attempt
    sockets,   \* TcpServer._sockets
    accepted,  \* the server's end of each connection
    home,      \* the run whose server accepted it
    stops,     \* servers whose close() a stop() awaits
    listened,  \* the owner listens to the server's Error event
    crashed,   \* an error has been thrown out of a callback
    active     \* what the server has added to the active_connections metric

vars == <<state, server, pc, attempt, conn, sockets, accepted, home, stops, listened, crashed,
          active>>

ExecutionState == {"Error", "Listening", "Retrying", "Starting", "Stopped"}

\* A "closing" run has its server closed while it binds, and is "hung" when the
\* close event does not reject the bind either.
Places == {"idle", "binding", "sleeping", "aborting", "closing", "hung", "done"}

Init ==
    /\ state = "Stopped" /\ server = NoRun
    /\ pc = [r \in Runs |-> "idle"]
    /\ attempt = [r \in Runs |-> 0]
    /\ conn = [r \in Runs |-> "none"]
    /\ sockets = {} /\ accepted = [p \in Peers |-> "none"]
    /\ home = [p \in Peers |-> NoRun]
    /\ stops = {} /\ listened \in BOOLEAN /\ crashed = FALSE /\ active = 0

-----------------------------------------------------------------------------
\* Microtasks run before the close event, and that before any other event.
Drained == \A r \in Runs : pc[r] # "aborting"
Quiescent == Drained /\ \A r \in Runs : pc[r] # "closing"

Goto(r, place) == pc' = [pc EXCEPT ![r] = place]

connVars == <<sockets, accepted, home, active>>

\* Mutant: a server that listens may be started again.
StartAcceptsListening == state \in {"Stopped", "Listening"}

StartAccepts == state = "Stopped"

\* start() up to its first await.  The owner is taken not to begin a run while
\* another, its state lost, is in flight.
Start(r) ==
    /\ pc[r] = "idle" /\ StartAccepts
    /\ \A q \in Runs : pc[q] \notin {"binding", "sleeping"}
    /\ state' = "Starting" /\ server' = r
    /\ attempt' = [attempt EXCEPT ![r] = 1]
    /\ conn' = [conn EXCEPT ![r] = "binding"]
    /\ Goto(r, "binding")
    /\ UNCHANGED <<connVars, stops, listened, crashed>>

\* onListening: the scheduler is reset, and start() resolves.
Listening(r) ==
    /\ Quiescent /\ pc[r] = "binding"
    /\ state' = "Listening"
    /\ attempt' = [attempt EXCEPT ![r] = 0]
    /\ conn' = [conn EXCEPT ![r] = "open"]
    /\ Goto(r, "done")
    /\ UNCHANGED <<server, connVars, stops, listened, crashed>>

Exhausted(r) == MaxRetries > 0 /\ attempt[r] >= MaxRetries

\* onError: an error that is not NetworkRetryable is emitted first, which throws
\* when nobody listens; the scheduler retries after either kind, or gives up.
ListenFails(r, retryable) ==
    /\ Quiescent /\ pc[r] = "binding"
    /\ conn' = [conn EXCEPT ![r] = "closed"]
    /\ crashed' = (~retryable /\ ~listened)
    /\ IF crashed' THEN state' = "Error" /\ Goto(r, "hung")
       ELSE IF Exhausted(r) THEN state' = "Error" /\ Goto(r, "done")
       ELSE state' = "Retrying" /\ Goto(r, "sleeping")
    /\ UNCHANGED <<server, attempt, connVars, stops, listened>>

\* The wait of _waitWithAbort is over: the next _attemptListen.
Wake(r) ==
    /\ Quiescent /\ pc[r] = "sleeping" /\ attempt[r] < MaxAttempts
    /\ attempt' = [attempt EXCEPT ![r] = @ + 1]
    /\ server' = r
    /\ conn' = [conn EXCEPT ![r] = "binding"]
    /\ Goto(r, "binding")
    /\ UNCHANGED <<state, connVars, stops, listened, crashed>>

\* Mutant: a server that was never started may be stopped.
StopAcceptsAll == TRUE

StopAccepts == state # "Stopped"

\* Mutant: the connections are left to their clients.
DestroyNone == UNCHANGED <<sockets, accepted>>

\* stop() destroys the connections it knows of.
Destroy ==
    /\ accepted' = [p \in Peers |-> IF p \in sockets /\ accepted[p] = "open" THEN "closing"
                                    ELSE accepted[p]]
    /\ sockets' = {}

\* Mutant: the server goes on listening.
CloseNone == UNCHANGED conn

CloseServer == conn' = [conn EXCEPT ![server] = "closed"]

\* stop(): the server accepts no more, and the promise waits until its last
\* connection is gone.
Stop ==
    /\ StopAccepts
    /\ state' = "Stopped"
    /\ CloseServer /\ Destroy
    /\ stops' = stops \cup {server}
    /\ pc' = [r \in Runs |-> IF pc[r] = "sleeping" THEN "aborting"
                             ELSE IF r = server /\ pc[r] = "binding" THEN "closing"
                             ELSE pc[r]]
    /\ UNCHANGED <<server, attempt, home, listened, crashed, active>>

\* The aborted wait rejects, and start() resolves after all.
AbortSettle(r) ==
    /\ pc[r] = "aborting"
    /\ state' = "Stopped"
    /\ Goto(r, "done")
    /\ UNCHANGED <<server, attempt, conn, connVars, stops, listened, crashed>>

\* onClose.  When the server has been started again meanwhile, the old run takes
\* the close for a failure: it gives up, or finds its wait aborted.
CloseEvent(r) ==
    /\ Drained /\ pc[r] = "closing"
    /\ \/ state = "Stopped" /\ Goto(r, "hung") /\ UNCHANGED state
       \/ state # "Stopped" /\ Exhausted(r) /\ state' = "Error" /\ Goto(r, "done")
       \/ state # "Stopped" /\ ~Exhausted(r) /\ state' = "Stopped" /\ Goto(r, "done")
    /\ UNCHANGED <<server, attempt, conn, connVars, stops, listened, crashed>>

\* The callback of close(): no connection of the server is left.
StopReturns(r) ==
    /\ Quiescent /\ r \in stops
    /\ \A p \in Peers : home[p] = r => accepted[p] = "closed"
    /\ stops' = stops \ {r}
    /\ UNCHANGED <<state, server, pc, attempt, conn, connVars, listened, crashed>>

-----------------------------------------------------------------------------
\* handleConnection.
Accept(p) ==
    /\ Quiescent /\ accepted[p] = "none"
    /\ \E r \in Runs : conn[r] = "open" /\ home' = [home EXCEPT ![p] = r]
    /\ accepted' = [accepted EXCEPT ![p] = "open"]
    /\ sockets' = sockets \cup {p}
    /\ active' = active + 1
    /\ UNCHANGED <<state, server, pc, attempt, conn, stops, listened, crashed>>

\* Mutant: the error counts the connection as closed already.
SocketErrorCounted(p) ==
    /\ Quiescent /\ accepted[p] = "open"
    /\ accepted' = [accepted EXCEPT ![p] = "closing"]
    /\ crashed' = ~listened
    /\ active' = active - 1
    /\ UNCHANGED <<state, server, pc, attempt, conn, sockets, home, stops, listened>>

\* The error of a connection: nobody listens to the server's Error event but the
\* owner, for the constructor listens to the name of the state.
SocketError(p) ==
    /\ Quiescent /\ accepted[p] = "open"
    /\ accepted' = [accepted EXCEPT ![p] = "closing"]
    /\ crashed' = ~listened
    /\ UNCHANGED <<state, server, pc, attempt, conn, sockets, home, stops, listened, active>>

\* The close event of a connection.
SocketClosed(p) ==
    /\ Quiescent /\ accepted[p] \in {"open", "closing"}
    /\ accepted' = [accepted EXCEPT ![p] = "closed"]
    /\ sockets' = sockets \ {p}
    /\ active' = active - 1
    /\ UNCHANGED <<state, server, pc, attempt, conn, home, stops, listened, crashed>>

Next ==
    \/ /\ ~crashed
       /\ \/ \E r \in Runs :
              \/ Start(r) \/ Listening(r) \/ Wake(r) \/ AbortSettle(r)
              \/ \E retryable \in BOOLEAN : ListenFails(r, retryable)
              \/ CloseEvent(r) \/ StopReturns(r)
          \/ \E p \in Peers : Accept(p) \/ SocketError(p) \/ SocketClosed(p)
          \/ Stop
    \/ crashed /\ UNCHANGED vars

Spec == Init /\ [][Next]_vars

\* Microtasks run, and what is destroyed or closed says so.
Fairness ==
    /\ \A r \in Runs :
        /\ WF_vars(~crashed /\ AbortSettle(r))
        /\ WF_vars(~crashed /\ CloseEvent(r))
        /\ WF_vars(~crashed /\ StopReturns(r))
    /\ \A p \in Peers : WF_vars(~crashed /\ accepted[p] = "closing" /\ SocketClosed(p))

FairSpec == Spec /\ Fairness

-----------------------------------------------------------------------------
\* Properties.

\* Every variable has its type; for active, ConnectionsCounted says more.
TypeOK ==
    /\ state \in ExecutionState
    /\ server \in Runs \cup {NoRun}
    /\ pc \in [Runs -> Places]
    /\ attempt \in [Runs -> Nat]
    /\ conn \in [Runs -> {"none", "binding", "open", "closed"}]
    /\ sockets \subseteq Peers
    /\ accepted \in [Peers -> {"none", "open", "closing", "closed"}]
    /\ home \in [Peers -> Runs \cup {NoRun}]
    /\ stops \subseteq Runs
    /\ listened \in BOOLEAN /\ crashed \in BOOLEAN

\* However start() and stop() overlap, what listens or is about to is the server
\* that stop() would close, and an open connection is one it would destroy: a
\* server that is Stopped with nothing under way holds neither.
OneServer ==
    /\ \A r \in Runs : conn[r] \in {"binding", "open"} => server = r
    /\ \A r \in Runs : conn[r] = "open" => state = "Listening"
    /\ \A p \in Peers : accepted[p] = "open" => p \in sockets /\ conn[home[p]] = "open"

\* The active_connections metric is the number of connections accepted and not
\* yet closed, whether the client, an error or stop() ends them.
ConnectionsCounted ==
    active = Cardinality({p \in Peers : accepted[p] \in {"open", "closing"}})

\* stop() returns although its clients would stay, unless the process dies: every
\* connection of the server is among those it destroys.
StopsReturn == \A r \in Runs : r \in stops ~> r \notin stops \/ crashed

\* The server, too, is what ServiceLifeCycle takes a task to be.
status ==
    IF \E r \in Runs : conn[r] = "open" THEN "up"
    ELSE IF \E r \in Runs : pc[r] \in {"binding", "sleeping"} THEN "starting"
    ELSE "down"
owner == IF status = "starting" THEN CHOOSE r \in Runs : pc[r] \in {"binding", "sleeping"} ELSE NoRun
pending == {r \in Runs : pc[r] \notin {"idle", "done"}}

Task == INSTANCE Connection
ImplementsConnection == Task!Spec
=============================================================================
