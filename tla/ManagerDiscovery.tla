---------------------------- MODULE ManagerDiscovery ----------------------------
(***************************************************************************)
(* A provider that discovers its service manager: a UdpDiscovery, the      *)
(* BroadcastServer of the manager, and the datagrams between them, which   *)
(* may be lost, delayed, duplicated and reordered.  A probe and its answer *)
(* are told apart by nothing but the socket they are sent from and to: the *)
(* answer does not carry the correlation ID of the probe.                  *)
(***************************************************************************)
EXTENDS Naturals, FiniteSets

CONSTANTS
    Calls, NoCall,  \* the provider's discover() calls
    Runs, NoRun,    \* the manager's start() calls
    Infos, NoInfo,  \* what the manager announces
    Noise,          \* what other hosts send
    Limits,         \* the values of options.maxResponses
    MaxRetries,     \* core configuration retry.max_retries, 0 for no limit
    MaxAttempts     \* the bound on the attempts of one bind

ASSUME NamesAssumption == NoCall \notin Calls /\ NoRun \notin Runs
ASSUME InfosAssumption == NoInfo \notin Infos /\ Noise \notin Infos
ASSUME BoundsAssumption == Limits \subseteq Nat /\ MaxRetries \in Nat /\ MaxAttempts \in Nat

VARIABLES
    \* the provider, see UdpDiscovery
    state, socket, pc, attempt, conn, uses, limit, found, result, crashed,
    \* the manager, see BroadcastServer
    mgrState, mgrSocket, mgrPc, mgrAttempt, mgrConn, mgrResult, mgrInfo, mgrBuffer,
    \* the network, where a datagram stays once it is sent
    probes,   \* the sockets a probe was sent from
    answers,  \* the answers sent to each socket
    announced \* history: what the manager has listened with

clientVars == <<state, socket, pc, attempt, conn, uses, limit, found, result, crashed>>
mgrVars == <<mgrState, mgrSocket, mgrPc, mgrAttempt, mgrConn, mgrResult, mgrInfo, mgrBuffer>>
vars == <<clientVars, mgrVars, probes, answers, announced>>

Client == INSTANCE UdpDiscovery

Manager == INSTANCE BroadcastServer WITH
    state <- mgrState, socket <- mgrSocket, pc <- mgrPc, attempt <- mgrAttempt,
    conn <- mgrConn, result <- mgrResult, info <- mgrInfo, buffer <- mgrBuffer

Init ==
    /\ Client!Init /\ Manager!Init
    /\ probes = {}
    /\ answers = [c \in Calls |-> {}]
    /\ announced = {}

-----------------------------------------------------------------------------
\* A call that begins to wait has sent its probe.
ProbeSent == probes' = probes \cup {uses'[c] : c \in {d \in Calls : pc'[d] = "waiting"}}

Discover(c) ==
    /\ \E m \in Limits : Client!Discover(c, m)
    /\ ProbeSent /\ UNCHANGED <<mgrVars, answers, announced>>

Bind(c) ==
    /\ Client!Bound(c) \/ \E retryable \in BOOLEAN : Client!BindFails(c, retryable)
    /\ ProbeSent /\ UNCHANGED <<mgrVars, answers, announced>>

\* The provider's timers, microtasks and socket errors.
ClientStep(c) ==
    /\ \/ Client!Wake(c) \/ Client!AbortSettle(c) \/ Client!Timeout(c)
       \/ Client!SendFails(c) \/ Client!SocketError(c)
    /\ UNCHANGED <<mgrVars, probes, answers, announced>>

\* The manager's answer arrives, or what another host sends to the socket.
Receive(c) ==
    /\ \E d \in answers[c] \cup {Noise} : Client!Receive(c, d)
    /\ UNCHANGED <<mgrVars, probes, answers, announced>>

StopClient == Client!Stop /\ UNCHANGED <<mgrVars, probes, answers, announced>>

ManagerStep ==
    /\ Manager!Next
    /\ announced' = IF mgrState' = "Listening" /\ mgrBuffer' \in Infos
                    THEN announced \cup {mgrBuffer'} ELSE announced
    /\ UNCHANGED <<clientVars, probes, answers>>

\* Mutant: the server answers with what it was told last.
AnswerLatest(c) ==
    /\ Manager!Quiescent /\ c \in probes /\ \E r \in Runs : mgrConn[r] = "bound"
    /\ answers' = [answers EXCEPT ![c] = @ \cup {mgrInfo}]
    /\ UNCHANGED <<clientVars, mgrVars, probes, announced>>

\* handleMessage of the manager's server for a probe.
Answer(c) ==
    /\ Manager!Quiescent /\ c \in probes /\ \E r \in Runs : mgrConn[r] = "bound"
    /\ answers' = [answers EXCEPT ![c] = @ \cup {mgrBuffer}]
    /\ UNCHANGED <<clientVars, mgrVars, probes, announced>>

\* Nothing is of interest once the provider's process has died.
Next ==
    \/ /\ ~crashed
       /\ \/ \E c \in Calls : Discover(c) \/ Bind(c) \/ ClientStep(c) \/ Receive(c) \/ Answer(c)
          \/ StopClient \/ ManagerStep
    \/ crashed /\ UNCHANGED vars

Spec == Init /\ [][Next]_vars

-----------------------------------------------------------------------------
\* Properties.

\* Every variable of the two has its type, and a discovery holds only what a
\* manager can announce.
TypeOK == Client!TypeOK /\ Manager!TypeOK

\* The provider's discovery leaks no socket and waits on none that is gone.
OneSocket == Client!OneSocket

\* The manager's server answers every probe that can reach it.
Answerable == Manager!Answerable

\* A discovery that succeeds leaves no socket open.
FoundCloses == Client!FoundCloses

\* Whatever the network loses, repeats and delays, and however both sides are
\* restarted meanwhile, a discovery returns what the manager has announced.
Dir == INSTANCE Directory WITH
    known <- [c \in Calls |-> IF result[c] = "found" THEN found[c] ELSE {}]
ImplementsDirectory == Dir!Spec
=============================================================================
