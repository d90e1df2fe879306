------------------------------ MODULE RpcExchange ------------------------------
(***************************************************************************)
(* Remote calls of one service provider, the requester, to one service     *)
(* manager, the helper (provider/service-provider.ts, procedure/report.ts, *)
(* procedure/register.ts, manager/service-manager.ts).  Requests travel on *)
(* the requester's Manager client.  Responses come back on a connection of *)
(* their own, which the helper opens to the requester's response channel   *)
(* and keeps in its pool.  Messages carry no length: what one data event   *)
(* brings is taken for one message, however many were written.             *)
(*                                                                         *)
(* askProviderInfo of the service manager does no I/O, so a handler runs   *)
(* to its response in one action unless it has to open the channel.        *)
(***************************************************************************)
EXTENDS Naturals, Sequences

CONSTANTS
    Requests,   \* the calls asked for
    Apis,       \* the APIs they name
    Faults,     \* "coalesce", "network": what the environment may do
    MaxPort,    \* the bound on the openings of the response channel
    MaxLosses,  \* the bound on losses of the request connection and restarts
    Keep,       \* how many reports the helper keeps of one provider, 60 in the code
    NoRequest

\* "invalid" is a register whose arguments the handler rejects, "basal" one of
\* getState and getProtocol, which no manager specification lists.
Api == {"register", "report", "basal", "invalid", "unknown"}

ASSUME RequestsAssumption == NoRequest \notin Requests
ASSUME ApisAssumption == Apis \subseteq Api /\ Faults \subseteq {"coalesce", "network"}
ASSUME BoundsAssumption == MaxPort \in Nat \ {0} /\ MaxLosses \in Nat /\ Keep \in Nat \ {0}

VARIABLES
    \* the requester
    call,       \* what the caller has of each call
    api,        \* the API it asked for
    polReqs,    \* ServiceProvider.polReqs
    port,       \* the port of the response channel, a new one each time it opens
    listening,  \* the response channel is open
    asPort,     \* the port a register has told
    \* the connections
    linked,     \* the requester's Manager client is connected
    requests,   \* written by the requester and not delivered
    strays,     \* written on a connection that is lost, and still to be delivered
    responses,  \* written by the helper and not delivered
    \* the helper
    registered, \* the port in _services, 0 when there is no entry
    reports,    \* the reports of the requester in _reports
    channel,    \* the client in chnResp
    chanPort,   \* the port it connects to
    opener,     \* the request whose handler awaits its start()
    alive,      \* no error has ended the helper's process
    \* history
    written,    \* the reports in the order they were written
    order,      \* "late" once a stray was handled after a request of the new link
    executed,   \* calls whose handler has run
    refused,    \* calls that were an error when an open channel could tell it
    forgotten,  \* calls that are lost, or that the helper is done with unanswered
    losses, releases

reqVars == <<call, api, polReqs, port, listening, asPort, written>>
chanVars == <<channel, chanPort, opener>>
histVars == <<executed, refused, forgotten>>
linkVars == <<linked, requests, strays, order>>
store == <<registered, reports>>
bounds == <<losses, releases>>
vars == <<reqVars, linkVars, responses, store, chanVars, alive, histVars, bounds>>

Init ==
    /\ call = [r \in Requests |-> "idle"] /\ api = [r \in Requests |-> "unknown"]
    /\ polReqs = {} /\ port = 1 /\ listening = TRUE
    /\ asPort = [r \in Requests |-> 0]
    /\ linked = TRUE /\ requests = <<>> /\ strays = <<>> /\ responses = <<>>
    /\ registered = 0 /\ reports = <<>> /\ written = <<>> /\ order = "kept"
    /\ channel = "none" /\ chanPort = 0 /\ opener = NoRequest /\ alive = TRUE
    /\ executed = {} /\ refused = {} /\ forgotten = {} /\ losses = 0 /\ releases = 0

Elements(s) == {s[i] : i \in DOMAIN s}

-----------------------------------------------------------------------------
\* The requester.

\* A register tells the port of the response channel, which _getSocketAddr can
\* read only while the channel is open.
Tellable(a) == a = "register" => listening

\* Mutant: the call does not enter the pool.
AskUnpooled(r, a) ==
    /\ call[r] = "idle"
    /\ Tellable(a)
    /\ api' = [api EXCEPT ![r] = a]
    /\ asPort' = [asPort EXCEPT ![r] = port]
    /\ call' = [call EXCEPT ![r] = IF ~linked THEN "failed" ELSE IF a = "report" THEN "sent" ELSE "waiting"]
    /\ requests' = IF linked THEN Append(requests, r) ELSE requests
    /\ UNCHANGED <<polReqs, port, listening, written, linked, strays, order, responses, store,
                   chanVars, alive, histVars, bounds>>

\* ask(): the message enters the pool once it is written.  That follows the callback
\* of the write as a microtask, so that no data event comes between.  A report whose write failed is asked again with its message ID.
Ask(r, a) ==
    /\ \/ call[r] = "idle"
       \/ call[r] = "failed" /\ a = "report" /\ api[r] = "report"
    /\ Tellable(a)
    /\ api' = [api EXCEPT ![r] = a]
    /\ asPort' = [asPort EXCEPT ![r] = port]
    /\ IF linked
       THEN /\ call' = [call EXCEPT ![r] = IF a = "report" THEN "sent" ELSE "waiting"]
            /\ polReqs' = polReqs \cup {r}
            /\ requests' = Append(requests, r)
            /\ written' = IF a = "report" THEN Append(written, r) ELSE written
       ELSE call' = [call EXCEPT ![r] = "failed"] /\ UNCHANGED <<polReqs, requests, written>>
    /\ UNCHANGED <<port, listening, linked, strays, order, responses, store, chanVars, alive,
                   histVars, bounds>>

\* _handleApiResponse on one data event, which brings the first n responses: the
\* header of the first is read, the rest is taken for its payload.
Answered(n) ==
    /\ listening /\ channel \notin {"connecting", "retrying"}
    /\ n \in 1..Len(responses) /\ (n = 1 \/ "coalesce" \in Faults)
    /\ LET r == Head(responses) IN
         /\ polReqs' = polReqs \ {r}
         /\ call' = IF r \in polReqs /\ call[r] = "waiting"
                    THEN [call EXCEPT ![r] = "resolved"] ELSE call
    /\ responses' = SubSeq(responses, n + 1, Len(responses))
    /\ forgotten' = forgotten \cup {responses[i] : i \in 2..n}
    /\ UNCHANGED <<api, port, listening, asPort, written, linkVars, store, chanVars, alive,
                   executed, refused, bounds>>

\* stop() of the requester closes its response channel and the connections to it.
CloseListener ==
    /\ listening
    /\ listening' = FALSE
    /\ channel' = IF channel = "up" THEN "dead" ELSE channel
    /\ responses' = IF channel = "connecting" THEN responses ELSE <<>>
    /\ forgotten' = IF channel = "connecting" THEN forgotten
                    ELSE forgotten \cup Elements(responses)
    /\ UNCHANGED <<call, api, polReqs, port, asPort, written, linkVars, store, chanPort,
                   opener, alive, executed, refused, bounds>>

\* start() opens it again on a port the system chooses.
OpenListener ==
    /\ ~listening /\ port < MaxPort
    /\ listening' = TRUE /\ port' = port + 1
    /\ UNCHANGED <<call, api, polReqs, asPort, written, linkVars, responses, store, chanVars,
                   alive, histVars, bounds>>

-----------------------------------------------------------------------------
\* The helper.

\* Mutant: a channel still connecting is not written to.
WritableLate(c) == c = "up"

\* getSocket(): the state is Running, or Starting at the first attempt.
Writable(c) == c \in {"connecting", "up"}

\* response() for the request r, executed, on a client of state c.  A TypeError
\* for an API without specification, a client that has no socket and a write
\* that fails all reject; nobody handles the rejection, which ends the process.
\* On a connection whose close is not noticed yet the response may just be lost.
Respond(r, c) ==
    \/ /\ api[r] = "report"
       /\ UNCHANGED <<responses, alive, forgotten>>
    \/ /\ api[r] = "basal"
       /\ alive' = FALSE /\ forgotten' = forgotten \cup {r} /\ UNCHANGED responses
    \/ /\ api[r] = "register" /\ Writable(c)
       /\ responses' = Append(responses, r) /\ UNCHANGED <<alive, forgotten>>
    \/ /\ api[r] = "register" /\ ~Writable(c)
       /\ forgotten' = forgotten \cup {r} /\ UNCHANGED responses
       /\ alive' \in IF c = "dead" THEN BOOLEAN ELSE {FALSE}

\* Mutant: a register is stored before its arguments are checked.
KnownUnchecked(r) ==
    IF api[r] = "register" THEN asPort[r] ELSE IF api[r] = "invalid" THEN 0 ELSE registered

\* _putProvider: what _services says of the requester once r's function has run.
Known(r) == IF api[r] = "register" THEN asPort[r] ELSE registered

\* Mutant: the newest report is dropped.
KeptFirst(s) == IF Len(s) > Keep THEN SubSeq(s, 1, Keep) ELSE s

\* gotReport keeps the last reports of a provider only.
Kept(s) == IF Len(s) > Keep THEN Tail(s) ELSE s

\* _parseRequest finds the function of the API and its specification.
Parsed(r) == api[r] # "unknown"

\* The request of one data event.  The handler's function has run by the time the
\* channel is looked for: a register finds its own entry.
Handle(r) ==
    LET runs == Parsed(r) /\ api[r] # "invalid"
        known == Known(r) IN
    /\ registered' = known
    /\ reports' = IF runs /\ api[r] = "report" THEN Kept(Append(reports, r)) ELSE reports
    /\ executed' = IF runs THEN executed \cup {r} ELSE executed
    /\ refused' = IF api[r] = "invalid" /\ channel = "up" THEN refused \cup {r} ELSE refused
    /\ IF ~Parsed(r) \/ known = 0
       THEN /\ forgotten' = forgotten \cup {r}
            /\ UNCHANGED <<responses, alive, chanVars>>
       ELSE IF channel = "none"
       THEN /\ channel' = "connecting" /\ chanPort' = known
            /\ opener' = IF runs THEN r ELSE NoRequest
            /\ forgotten' = IF runs THEN forgotten ELSE forgotten \cup {r}
            /\ UNCHANGED <<responses, alive>>
       ELSE /\ IF runs THEN Respond(r, channel)
               ELSE forgotten' = forgotten \cup {r} /\ UNCHANGED <<responses, alive>>
            /\ UNCHANGED chanVars

\* Mutant: a chunk that is no JSON is acknowledged.
ReceivedUnread(batch) ==
    IF Len(batch) = 1
    THEN Handle(Head(batch))
    ELSE /\ responses' = IF channel = "up" THEN Append(responses, Head(batch)) ELSE responses
         /\ UNCHANGED <<store, chanVars, alive, histVars>>

\* _handleApiRequest on one data event, which brings a batch of requests: more
\* than one is no JSON, and the error is only counted.
Received(batch) ==
    IF Len(batch) = 1
    THEN Handle(Head(batch))
    ELSE /\ forgotten' = forgotten \cup Elements(batch)
         /\ UNCHANGED <<responses, store, chanVars, alive, executed, refused>>

Deliver(n) ==
    /\ alive /\ n \in 1..Len(requests) /\ (n = 1 \/ "coalesce" \in Faults)
    /\ requests' = SubSeq(requests, n + 1, Len(requests))
    /\ Received(SubSeq(requests, 1, n))
    /\ order' = IF strays # <<>> /\ order = "kept" THEN "passed" ELSE order
    /\ UNCHANGED <<reqVars, linked, strays, bounds>>

\* The server has connections of its own for each client and reads them in any
\* order: what a client wrote before it was replaced may come after what its
\* successor wrote.
DeliverStray(n) ==
    /\ alive /\ n \in 1..Len(strays) /\ (n = 1 \/ "coalesce" \in Faults)
    /\ strays' = SubSeq(strays, n + 1, Len(strays))
    /\ Received(SubSeq(strays, 1, n))
    /\ order' = IF order = "passed" THEN "late" ELSE order
    /\ UNCHANGED <<reqVars, linked, requests, bounds>>

\* clearReports, called by the application.
ClearReports ==
    /\ alive /\ reports # <<>>
    /\ reports' = <<>>
    /\ UNCHANGED <<reqVars, linkVars, responses, registered, chanVars, alive, histVars, bounds>>

Reachable == listening /\ chanPort = port

\* Mutant: the handler that opened the channel is not resumed.
ChannelUpSilently ==
    /\ alive /\ channel \in {"connecting", "retrying"} /\ Reachable
    /\ channel' = "up" /\ opener' = NoRequest
    /\ UNCHANGED <<reqVars, linkVars, responses, store, chanPort, alive,
                   histVars, bounds>>

\* The channel connects: getResponseChannel returns to the handler that awaits it.
ChannelUp ==
    /\ alive /\ channel \in {"connecting", "retrying"} /\ Reachable
    /\ channel' = "up" /\ opener' = NoRequest
    /\ IF opener = NoRequest THEN UNCHANGED <<responses, alive, forgotten>>
       ELSE Respond(opener, "up")
    /\ UNCHANGED <<reqVars, linkVars, store, chanPort, executed, refused,
                   bounds>>

\* Connection refused is no NetworkRetryable error: the client emits Error, to
\* which nobody listens, out of the socket's callback.
ChannelRefused ==
    /\ alive /\ channel \in {"connecting", "retrying"} /\ ~Reachable
    /\ alive' = FALSE
    /\ UNCHANGED <<reqVars, linkVars, responses, store, chanVars, histVars,
                   bounds>>

\* A NetworkRetryable error: the client makes further attempts, and what was
\* written to it meanwhile rejects.
ChannelRetries ==
    /\ "network" \in Faults /\ alive /\ channel = "connecting"
    /\ channel' = "retrying"
    /\ responses' = <<>> /\ forgotten' = forgotten \cup Elements(responses)
    /\ alive' = (responses = <<>>)
    /\ UNCHANGED <<reqVars, linkVars, store, chanPort, opener, executed,
                   refused, bounds>>

\* The open channel fails: again an Error event to which nobody listens.
ChannelReset ==
    /\ "network" \in Faults /\ alive /\ channel = "up"
    /\ channel' = "dead" /\ alive' = FALSE
    /\ responses' = <<>> /\ forgotten' = forgotten \cup Elements(responses)
    /\ UNCHANGED <<reqVars, linkVars, store, chanPort, opener, executed,
                   refused, bounds>>

\* Mutant: the waiting handler is still recorded.
ReleaseKeepingOpener ==
    /\ alive /\ channel # "none" /\ releases < MaxLosses
    /\ releases' = releases + 1
    /\ channel' = "none" /\ responses' = <<>>
    /\ UNCHANGED <<reqVars, linkVars, store, chanPort, opener, alive,
                   histVars, losses>>

\* _releaseResponseChannels, in a restart or shutdown of the helper: the entry is
\* deleted and the client stopped.  A handler that awaits its start() is cut off,
\* or goes on with the stopped client when the stop falls between two attempts.
\* What was sent and is not received yet is lost, or has been received before.
Release ==
    /\ alive /\ channel # "none" /\ releases < MaxLosses
    /\ releases' = releases + 1
    /\ channel' = "none" /\ opener' = NoRequest
    /\ responses' = <<>>
    /\ forgotten' = forgotten \cup Elements(responses) \cup ({opener} \ {NoRequest})
    /\ alive' \in IF channel = "connecting" /\ responses # <<>> THEN {FALSE}
                  ELSE IF channel = "retrying" /\ opener # NoRequest /\ api[opener] # "report"
                  THEN BOOLEAN ELSE {TRUE}
    /\ UNCHANGED <<reqVars, linkVars, store, chanPort, executed, refused,
                   losses>>

-----------------------------------------------------------------------------
\* The request connection is lost, or closed by a stop of the helper.
\* What was written last is lost with it, the rest still comes in.
LinkLost ==
    /\ linked /\ losses < MaxLosses
    /\ linked' = FALSE /\ losses' = losses + 1
    /\ \E n \in 0..Len(requests) :
        /\ strays' = strays \o SubSeq(requests, 1, n)
        /\ forgotten' = forgotten \cup {requests[i] : i \in n + 1..Len(requests)}
    /\ requests' = <<>>
    /\ UNCHANGED <<reqVars, order, responses, store, chanVars, alive, executed, refused, releases>>

\* _discoverServiceManager connects the requester again.
Relinked ==
    /\ ~linked /\ alive
    /\ linked' = TRUE
    /\ UNCHANGED <<reqVars, requests, strays, order, responses, store, chanVars, alive, histVars,
                   bounds>>

Next ==
    \/ \E r \in Requests, a \in Apis : Ask(r, a)
    \/ \E n \in DOMAIN responses : Answered(n)
    \/ CloseListener \/ OpenListener
    \/ \E n \in DOMAIN requests : Deliver(n)
    \/ \E n \in DOMAIN strays : DeliverStray(n)
    \/ ClearReports
    \/ ChannelUp \/ ChannelRefused \/ ChannelRetries \/ ChannelReset \/ Release
    \/ LinkLost \/ Relinked

Spec == Init /\ [][Next]_vars

\* What is written is delivered, and an attempt to connect ends.
Fairness ==
    /\ WF_vars(\E n \in DOMAIN responses : Answered(n))
    /\ WF_vars(\E n \in DOMAIN requests : Deliver(n))
    /\ WF_vars(\E n \in DOMAIN strays : DeliverStray(n))
    /\ WF_vars(ChannelUp \/ ChannelRefused)

FairSpec == Spec /\ Fairness

-----------------------------------------------------------------------------
\* Properties.

\* Every variable has its type; a handler waits for a channel only while one is
\* being opened.
TypeOK ==
    /\ call \in [Requests -> {"idle", "waiting", "sent", "failed", "resolved"}]
    /\ api \in [Requests -> Api]
    /\ polReqs \subseteq Requests
    /\ port \in Nat /\ listening \in BOOLEAN /\ asPort \in [Requests -> Nat]
    /\ linked \in BOOLEAN
    /\ requests \in Seq(Requests) /\ strays \in Seq(Requests) /\ responses \in Seq(Requests)
    /\ order \in {"kept", "passed", "late"}
    /\ reports \in Seq(Requests) /\ written \in Seq(Requests)
    /\ registered \in Nat
    /\ channel \in {"none", "connecting", "retrying", "up", "dead"}
    /\ chanPort \in Nat
    /\ opener \in Requests \cup {NoRequest}
    /\ opener # NoRequest => channel \in {"connecting", "retrying"}
    /\ alive \in BOOLEAN
    /\ executed \subseteq Requests /\ refused \subseteq Requests /\ forgotten \subseteq Requests
    /\ losses \in Nat /\ releases \in Nat

\* Every response on its way finds the call it answers in the pool and its
\* caller waiting, and no call is answered twice: _handleApiResponse drops an
\* answer it has no entry for, and the caller would wait for ever.
AnswerFindsCall ==
    \A i, j \in DOMAIN responses :
        /\ responses[i] \in polReqs /\ call[responses[i]] = "waiting"
        /\ responses[i] = responses[j] => i = j

\* Once a register is resolved, the manager directs its responses to the port
\* the response channel had when it asked, or to a later one, however registers
\* and restarts of the requester overlap (registrar, _putProvider), unless what a
\* lost connection had carried is handled after what the next one carries: an
\* earlier register then takes the place of a later one.
RegisteredAfterAck ==
    \A r \in Requests :
        call[r] = "resolved" /\ api[r] = "register" => registered >= asPort[r] \/ order = "late"

\* In the sequence s, a comes before b.
Precedes(s, a, b) == \E i, j \in DOMAIN s : i < j /\ s[i] = a /\ s[j] = b

\* The manager holds the last reports of the requester that have come in, in the
\* order they were made, across retries and losses and with the same exception:
\* the last one of the list is what getLatestReport shows as the present state.
\* No report is in the list without all the later ones that have come in.
ReportsLatest ==
    LET came == executed \cap Elements(written) IN
    order # "late" =>
        /\ Len(reports) <= Keep /\ Elements(reports) \subseteq came
        /\ \A i, j \in DOMAIN reports : i < j => Precedes(written, reports[i], reports[j])
        /\ \A r \in Elements(reports), q \in came :
                Precedes(written, r, q) => q \in Elements(reports)

\* The manager's process survives as long as the requester keeps its response
\* channel open, the network is up, no restart releases the pool and only APIs
\* of the specification are called, whatever is written to a channel that is
\* still connecting (getResponseChannel puts it into the pool before it starts).
SurvivesSteady ==
    alive \/ port > 1 \/ ~listening \/ channel \in {"retrying", "dead"} \/ releases > 0
          \/ \E r \in executed : api[r] = "basal"

\* A remote call is what RpcCall says.
Call == INSTANCE RpcCall WITH
    asked <- {r \in Requests : call[r] \in {"waiting", "sent", "resolved"}},
    resolved <- {r \in Requests : call[r] = "resolved"}
ImplementsCall == Call!Spec

\* The registers that may still be answered.
Unanswered ==
    {r \in Requests : call[r] = "waiting" /\ api[r] = "register" /\ r \notin forgotten /\ alive}

\* Every register is answered unless it or its answer is lost, or the manager's
\* process ends: no handler waits for ever for a channel that nothing starts.
\* A call does not come back to this set, so with finitely many calls it runs empty.
AnswersReturn == Unanswered # {} ~> Unanswered = {}

-----------------------------------------------------------------------------
\* basal-protocol.ts:33: Error and InvalidReqData are forced to be sent if an
\* error occurs.  The handler of a request that is an error is done with it.
ErrorAnswered ==
    \A r \in refused : call[r] = "waiting" => r \in Elements(responses)
=============================================================================
