------------------------------ MODULE UdpDiscovery ------------------------------
(***************************************************************************)
(* One UdpDiscovery (network/udp-discovery.ts) with the UdpClient it       *)
(* extends (network/udp-client.ts) and the RetryScheduler each bind runs   *)
(* under (common/retry.ts).                                                *)
(*                                                                         *)
(* Calls are calls of discover() on the one object; they share its socket  *)
(* and its Message event.  Between two awaits nothing else runs, and what  *)
(* an event sets off is over, stop() included, before the next event; only *)
(* the wait of a call that stop() aborts rejects after its caller goes on, *)
(* who may then call discover() first.                                     *)
(***************************************************************************)
EXTENDS Naturals, FiniteSets

CONSTANTS
    Calls,       \* the discover() calls, the bound of the model
    NoCall,
    Infos,       \* what managers answer
    Noise,       \* a datagram that is no JSON, or names no provider
    Limits,      \* the values of options.maxResponses
    MaxRetries,  \* core configuration retry.max_retries, 0 for no limit
    MaxAttempts  \* the bound on the attempts of one bind

VARIABLES
    state,    \* UdpClient._state
    socket,   \* the call whose last attempt made _socket
    pc,       \* where each call is
    attempt,  \* RetryScheduler._attempt of each call that binds
    conn,     \* the socket of each call's last attempt
    uses,     \* the call that made the socket on which each call has probed
    limit,    \* options.maxResponses of each call
    found,    \* the datagrams each call has collected
    result,   \* how each discover() has settled
    crashed   \* an Error event has been thrown out of a callback

vars == <<state, socket, pc, attempt, conn, uses, limit, found, result, crashed>>

ExecutionState == {"Error", "Retrying", "Running", "Starting", "Stopped"}

\* A call in "waiting" listens on the socket and on the object; in "late" its
\* timeout has taken the first away.  In "deaf" it has neither and wants more
\* answers; "hung" is the await of a bind whose socket was closed, which emits
\* neither "listening" nor "error".
Places == {"idle", "binding", "sleeping", "aborting", "waiting", "late", "deaf", "hung", "done"}

Init ==
    /\ state = "Stopped" /\ socket = NoCall
    /\ pc = [c \in Calls |-> "idle"]
    /\ attempt = [c \in Calls |-> 0]
    /\ conn = [c \in Calls |-> "none"]
    /\ uses = [c \in Calls |-> NoCall]
    /\ limit = [c \in Calls |-> 0]
    /\ found = [c \in Calls |-> {}]
    /\ result = [c \in Calls |-> "none"]
    /\ crashed = FALSE

-----------------------------------------------------------------------------
InFlight(c) == pc[c] \in {"binding", "sleeping"}

\* Sockets and timers are served once no microtask is left.
Quiescent == \A c \in Calls : pc[c] # "aborting"

Settle(cs, how) ==
    /\ pc' = [c \in Calls |-> IF c \in cs THEN "done" ELSE pc[c]]
    /\ result' = [c \in Calls |-> IF c \in cs THEN how ELSE result[c]]

\* setBroadcast() and the probe of sendAndWait() on the socket that s made.
Probe(c, s) ==
    /\ pc' = [pc EXCEPT ![c] = "waiting"]
    /\ uses' = [uses EXCEPT ![c] = s]

\* Mutant: a client that runs is bound anew.
BindsRunning == state # "Starting"

\* The guard of UdpClient.start().
Binds == state = "Stopped"

\* discover() with maxResponses m: it binds a socket, probes on the one that is bound, or fails with
\* "not running" when start() had nothing to do and there is none.  The callers
\* are taken not to begin a bind while another, its state lost, is in flight.
Discover(c, m) ==
    /\ pc[c] = "idle"
    /\ limit' = [limit EXCEPT ![c] = m]
    /\ \/ /\ Binds /\ ~\E d \in Calls : InFlight(d)
          /\ state' = "Starting" /\ socket' = c
          /\ attempt' = [attempt EXCEPT ![c] = 1]
          /\ conn' = [conn EXCEPT ![c] = "binding"]
          /\ pc' = [pc EXCEPT ![c] = "binding"]
          /\ UNCHANGED <<uses, result>>
       \/ /\ ~Binds /\ state = "Running"
          /\ Probe(c, socket)
          /\ UNCHANGED <<state, socket, attempt, conn, result>>
       \/ /\ ~Binds /\ state # "Running"
          /\ Settle({c}, "rejected")
          /\ UNCHANGED <<state, socket, attempt, conn, uses>>
    /\ UNCHANGED <<found, crashed>>

\* handleBindSuccess; start() returns and the probe is sent.
Bound(c) ==
    /\ Quiescent /\ conn[c] = "binding"
    /\ state' = "Running"
    /\ conn' = [conn EXCEPT ![c] = "bound"]
    /\ Probe(c, socket)
    /\ UNCHANGED <<socket, attempt, limit, found, result, crashed>>

Exhausted(c) == MaxRetries > 0 /\ attempt[c] >= MaxRetries

\* The attempt fails and its socket is closed, but stays in _socket.  An error
\* that is not NetworkRetryable is emitted first, and nobody listens.
BindFails(c, retryable) ==
    /\ Quiescent /\ conn[c] = "binding"
    /\ conn' = [conn EXCEPT ![c] = "closed"]
    /\ \/ /\ ~retryable
          /\ state' = "Error" /\ crashed' = TRUE
          /\ pc' = [pc EXCEPT ![c] = "hung"]
          /\ UNCHANGED result
       \/ /\ retryable /\ Exhausted(c)
          /\ state' = "Error"
          /\ Settle({c}, "rejected")
          /\ UNCHANGED crashed
       \/ /\ retryable /\ ~Exhausted(c)
          /\ state' = "Retrying"
          /\ pc' = [pc EXCEPT ![c] = "sleeping"]
          /\ UNCHANGED <<result, crashed>>
    /\ UNCHANGED <<socket, attempt, uses, limit, found>>

\* The wait of _waitWithAbort is over: the next _attemptBind.  The state is not
\* Stopped, for a stop() would have aborted the wait.
Wake(c) ==
    /\ Quiescent /\ pc[c] = "sleeping" /\ attempt[c] < MaxAttempts
    /\ attempt' = [attempt EXCEPT ![c] = @ + 1]
    /\ pc' = [pc EXCEPT ![c] = "binding"]
    /\ socket' = c
    /\ conn' = [conn EXCEPT ![c] = "binding"]
    /\ UNCHANGED <<state, uses, limit, found, result, crashed>>

Waiting(s) == {c \in Calls : pc[c] = "waiting" /\ uses[c] = s}

\* Mutant: what names no provider is collected.
ReadableAll(d) == TRUE

\* What the onMessage of _collectResponses parses and finds a provider in.
Readable(d) == d \in Infos

\* Mutant: a discovery that has succeeded keeps its socket.
CloseAfterKept(cs) == UNCHANGED <<state, socket, conn>>

\* stop() after the discovery of cs: the socket is closed for all.
CloseAfter(cs) ==
    IF cs = {} THEN UNCHANGED <<state, socket, conn>>
    ELSE /\ state' = "Stopped" /\ socket' = NoCall
         /\ conn' = [conn EXCEPT ![socket] = "closed"]

\* A datagram arrives on the socket of s.  sendAndWait of whoever waits on it emits
\* it on the object, where every call that has not collected yet takes it, also
\* one whose timeout is over.  Each listens once: a call that wants more is deaf
\* from then on.
Receive(s, d) ==
    /\ Quiescent /\ conn[s] = "bound" /\ Waiting(s) # {}
    /\ LET takers == {c \in Calls : pc[c] \in {"waiting", "late"}}
           content == IF Readable(d) THEN {c \in takers : limit[c] <= 1} ELSE {} IN
         /\ IF Readable(d)
            THEN /\ found' = [c \in Calls |-> IF c \in takers THEN found[c] \cup {d} ELSE found[c]]
                 /\ result' = [c \in Calls |-> IF c \in content THEN "found" ELSE result[c]]
                 /\ pc' = [c \in Calls |-> IF c \in content THEN "done"
                                           ELSE IF c \in takers THEN "deaf" ELSE pc[c]]
            ELSE Settle(takers, "rejected") /\ UNCHANGED found
         /\ CloseAfter(content)
    /\ UNCHANGED <<attempt, uses, limit, crashed>>

\* The timeout of sendAndWait, which resolves it.  _collectResponses looks only at
\* what it rejects with.
Timeout(c) ==
    /\ Quiescent /\ pc[c] = "waiting"
    /\ pc' = [pc EXCEPT ![c] = "late"]
    /\ UNCHANGED <<state, socket, attempt, conn, uses, limit, found, result, crashed>>

\* The datagram cannot be sent.  The socket stays open.
SendFails(c) ==
    /\ Quiescent /\ pc[c] = "waiting"
    /\ Settle({c}, "rejected")
    /\ UNCHANGED <<state, socket, attempt, conn, uses, limit, found, crashed>>

\* An error of the bound socket rejects whoever waits on it; there is no other
\* listener.
SocketError(s) ==
    /\ Quiescent /\ conn[s] = "bound"
    /\ Settle(Waiting(s), "rejected")
    /\ crashed' = (Waiting(s) = {})
    /\ UNCHANGED <<state, socket, attempt, conn, uses, limit, found>>

\* stop() by the owner of the object.  The close event rejects whoever waits on
\* the socket; a socket that a failed bind has closed makes stop() itself reject,
\* which leaves it in place.
Stop ==
    /\ state # "Stopped"
    /\ state' = "Stopped"
    /\ IF conn[socket] = "closed" THEN UNCHANGED <<socket, conn>>
       ELSE socket' = NoCall /\ conn' = [conn EXCEPT ![socket] = "closed"]
    /\ pc' = [c \in Calls |->
                IF pc[c] = "sleeping" THEN "aborting"
                ELSE IF c = socket /\ conn[c] = "binding" THEN "hung"
                ELSE IF c \in Waiting(socket) THEN "done"
                ELSE pc[c]]
    /\ result' = [c \in Calls |-> IF c \in Waiting(socket) THEN "rejected" ELSE result[c]]
    /\ UNCHANGED <<attempt, uses, limit, found, crashed>>

\* The aborted wait rejects, start() returns, and setBroadcast() has no socket.
AbortSettle(c) ==
    /\ pc[c] = "aborting"
    /\ state' = "Stopped"
    /\ Settle({c}, "rejected")
    /\ UNCHANGED <<socket, attempt, conn, uses, limit, found, crashed>>

Next ==
    \/ /\ ~crashed
       /\ \/ \E c \in Calls :
              \/ \E m \in Limits : Discover(c, m)
              \/ Bound(c) \/ Wake(c) \/ Timeout(c) \/ SendFails(c)
              \/ AbortSettle(c) \/ SocketError(c)
              \/ \E retryable \in BOOLEAN : BindFails(c, retryable)
              \/ \E d \in Infos \cup {Noise} : Receive(c, d)
          \/ Stop
    \/ crashed /\ UNCHANGED vars

Spec == Init /\ [][Next]_vars

\* A bind ends one way or the other, timers fire and microtasks run.  Nothing is
\* promised of the network.
Fairness ==
    \A c \in Calls :
        /\ WF_vars(~crashed /\ (Bound(c) \/ \E b \in BOOLEAN : BindFails(c, b)))
        /\ WF_vars(~crashed /\ Wake(c))
        /\ WF_vars(~crashed /\ AbortSettle(c))
        /\ WF_vars(~crashed /\ Timeout(c))

FairSpec == Spec /\ Fairness

-----------------------------------------------------------------------------
\* Properties.

\* Every variable has its type; what is no answer of a manager is never collected.
TypeOK ==
    /\ state \in ExecutionState
    /\ socket \in Calls \cup {NoCall}
    /\ pc \in [Calls -> Places]
    /\ attempt \in [Calls -> Nat]
    /\ conn \in [Calls -> {"none", "binding", "bound", "closed"}]
    /\ uses \in [Calls -> Calls \cup {NoCall}]
    /\ limit \in [Calls -> Nat]
    /\ found \in [Calls -> SUBSET Infos]
    /\ result \in [Calls -> {"none", "found", "rejected"}]
    /\ crashed \in BOOLEAN

\* However calls and stop() overlap, the object has one live socket, the one that
\* stop() closes, and whoever waits listens on it: none leaks, and no call waits
\* on a socket that is gone.
OneSocket ==
    /\ \A c \in Calls : conn[c] \in {"binding", "bound"} => socket = c
    /\ \A c \in Calls : pc[c] = "waiting" => conn[uses[c]] = "bound"

\* A discovery that succeeds leaves nothing open, whatever other calls share its
\* socket; one that fails may (discover() stops the client on success alone).
FoundCloses ==
    [][(\E c \in Calls : result[c] # "found" /\ result'[c] = "found") =>
          state' = "Stopped" /\ \A c \in Calls : conn'[c] \notin {"binding", "bound"}]_vars

-----------------------------------------------------------------------------
\* udp-discovery.ts:123: discover() throws if discovery fails or times out.
TimeoutSettles == \A c \in Calls : pc[c] = "late" ~> result[c] # "none" \/ crashed
=============================================================================
