# A TLA+ model of distributedRPC.js

This directory holds specifications, model-checking configurations and
machine-checked proofs for the library in `src/`: service providers that
discover a service manager by UDP broadcast, connect to it over TCP, register
with it, call it and are called by it, and go through a life cycle that can be
driven locally or from the manager.

Every definition is translated from the code. A comment names the method it
stands for and `PROJECT.json` ("map") gives its lines.

## 1. The system

The program is TypeScript on Node.js: one thread, an event loop, promises. What
an `async` function does between two `await`s is never interrupted. What makes
the system hard is everything that runs *at* an `await`: other life-cycle calls,
the report timer, the handler of a lost connection, socket events, the abort of a
retry loop. An `await` is therefore the unit of interleaving in all models.

| Component | State | Operations | Interacts with |
|---|---|---|---|
| Provider life cycle (`procedure/life-cycle.ts`, `provider/service-provider.ts`) | provider state, `_initialized`, the `tasks` map, the manager record, bookings of discovery and registration, the report timer | activate, halt, register, reload, report, restart, shutdown, start, stop; the Error handler of the manager client | starts and stops TCP clients and servers; runs the procedures; is called by users and by the system channel |
| Discover, register, report procedures (`procedure/*.ts`) | none of their own | `execute` | called by the life cycle; use the manager client |
| RPC exchange (`provider/service-provider.ts`) | pool of pending requests `polReqs`, pool of response channels `chnResp` | `ask`, `_handleApiRequest`, `getResponseChannel`, `response`, `_handleApiResponse`, `_releaseResponseChannels` | writes to TCP clients, is called by Data events of TCP servers |
| Service manager (`manager/service-manager.ts`) | registered providers, the last reports of each, the broadcast listener | `registrar`, `gotReport`, `clearReports`, the hooks that start and stop the listener | is a provider; answers discovery |
| System channel (`procedure/life-cycle.ts`) | none of its own | `_handleTcpSysRequest`, `executeInstruction` | a message becomes a life-cycle call; its result is written back |
| TCP client (`network/tcp-client.ts`) | state, socket, abort controller, retry scheduler, the active-connections metric | start, stop, write | the peer's server; `RetryScheduler` |
| TCP server (`network/tcp-server.ts`) | state, server, accepted sockets, the active-connections metric | start, stop, broadcast | accepted peers; `RetryScheduler` |
| UDP discovery client (`network/udp-discovery.ts`, `udp-client.ts`) | state, socket, retry scheduler | discover, start, stop, send, sendAndWait | broadcast network |
| UDP broadcast server (`network/udp-server.ts`, `broadcast-udp-server.ts`) | state, socket, the announced information and its encoded buffer | setManagerInfo, start, stop, handleMessage | broadcast network; created by the manager |
| Retry and abort (`common/retry.ts`, `abort-aware.ts`) | attempt counter, signal | run, sleep | used by all four network classes |
| Network helpers, configuration, logging, identifiers | configuration values | reload | all |
| Metrics, tracing, dependency injection, `main.ts` | observers and wiring | | all |

The hard behaviours, listed one by one under "hazards" in `PROJECT.json`:

- life-cycle calls that overlap with each other, with the report timer and with
  the healer of a lost manager, and share the `tasks` map and two bookings;
- references that outlive their object: the Error handler hangs on one client
  object, the pool of channels outlives the listener it is connected to, an
  aborted `start()` sets the state of the next one;
- a `stop()` between two connection attempts, or while a server is about to listen;
- promises nobody settles, and rejections nobody handles, which end the process;
- messages without length: two that arrive together are taken for one;
- UDP answers that are late, repeated, or somebody else's, with no correlation ID.

What makes each component correct:

- life cycle: one discovery and one registration at a time; a connected manager is
  watched; handlers and timers are not duplicated by restarts; Running means an
  open API listener, Halt and Stopped a closed one; calls return; a lost manager
  is found again;
- RPC: an answer finds the call it belongs to; nobody is answered twice or
  without its handler having run; the registry follows the registers that were
  answered, and the last report kept is the latest; the manager survives;
- service manager: one that shows Running is announced once, on the port it has; one
  that has stopped is not announced;
- TCP client and server: no socket or listener leaks while one `start()` is under way;
  an abort is final; the retry limit is exact; `start()` and `stop()` settle; the metric
  counts each connection once; both are what the life cycle takes a task to be;
- discovery: what is found was announced; no socket leaks; the server never
  answers with nothing.

## 2. The modules

| Module | Models | Built on |
|---|---|---|
| `ServiceLifeCycle` | the life cycle with its procedures and tasks | |
| `ProviderService` | abstract: the states a provider shows and when its API is open | refined by `ServiceLifeCycle` |
| `ServiceLifeCycle_proofs` | theorems about `ServiceLifeCycle`, whatever calls overlap | |
| `SequentialService_proofs` | theorems about it when one call is made at a time | `ServiceLifeCycle_proofs` |
| `ServiceManager` | the life cycle of a manager with what its broadcast listeners announce | extends `ServiceLifeCycle` |
| `ServiceManager_proofs` | that a manager is a provider, and what it announces | `ServiceLifeCycle_proofs` |
| `SystemInstruction` | life-cycle calls that arrive as messages, and the answers to them | extends `ServiceLifeCycle` |
| `TcpClient` | one client object and its connection attempts | |
| `TcpServer` | one server object, its attempts and its connections | |
| `TcpClient_proofs`, `TcpServer_proofs` | theorems about the two | |
| `Connection` | abstract: what a task is to its owner | refined by `TcpClient` and `TcpServer` |
| `RpcExchange` | one requester, one manager and the two connections between them | |
| `RpcCall` | abstract: a remote call is asked, executed, then resolved | refined by `RpcExchange` |
| `RpcExchange_proofs` | theorems about `RpcExchange` | |
| `UdpDiscovery` | the discovery client | |
| `BroadcastServer` | the manager's broadcast server | |
| `ManagerDiscovery` | composes the two with an unreliable network | `INSTANCE`s both |
| `Directory` | abstract: what is found was announced | refined by `ManagerDiscovery` |
| `ManagerDiscovery_proofs` | theorems about `ManagerDiscovery` | |
| `MC*` | symmetry sets for TLC | |

`ServiceManager` and `SystemInstruction` take the actions of `ServiceLifeCycle` as they
are and say of each what it does to the variables they add.

The modules meet at three interfaces. `ServiceLifeCycle` sees a TCP client or
server only as a task that is absent, starting, up or down; `Connection` states
that view and the two detailed modules are shown to implement it.
`ServiceLifeCycle` sees discovery as a probe that is answered or fails, and
`RpcExchange` sees the life cycle as an owner that closes and opens its listener
and relinks its manager client. `BroadcastServer` sees the manager as an owner that
starts, stops and informs it; when it does so is what `ServiceManager` models.

### How state and actions correspond to the code

*ServiceLifeCycle.* `pc[p]` is the `await` at which call `p` is suspended. `Calls`
are `lifeCycle(op)` invocations, `Ticks` callbacks of the report interval,
`Heals` runs of `_handleTcpMgrError`. `tasks` is `ServiceProvider.tasks`,
`starter[t]` the call that awaits `t.start()`, `awaiting` the calls whose awaited
`start()` is not settled, `handlers` the number of Data listeners on a channel,
`discovery` and `registering` the bookings in `_procedure`, `timers` the live
intervals of which `timerRef` says whether `_reportTimer` can clear one. `fate`
records an unhandled rejection ("crashed") or a microtask loop that never yields
("starved").

*ServiceManager.* The broadcast listener of a manager is the task "Reception". `told[p]`
is the port call `p` has read from the API server for a listener it is starting,
`announced` the port that the listener of the tasks map announces, `stray` that of a
live listener which has lost its place in the map. A port is current until the API
server leaves the map; a server created anew gets another. `overlapped` is history: two
starts have been under way at once.

*SystemInstruction.* `socket[c]` is the connection the instruction behind call `c` came
from, `answer[c]` what has been written to it. The operation itself is a call of
`ServiceLifeCycle`; a stop of the system channel destroys the socket under it.

*TcpClient, TcpServer.* A run is one call of `start()`: `pc` is where it is (connecting
or listening, sleeping between attempts, aborting in the microtasks after a stop,
done), `conn` what happened to the socket or server it created, `active` the value of the
active-connections metric; `state` and
`socket` are the shared fields of the object, so that a run of an earlier life can
overwrite those of a later one as in the code. `Quiescent` orders microtasks and
the close event before other events, as Node does. `doubled` (client) is history: a
`start()` has been accepted while an earlier one was in flight. Both loops go on, and the
model follows them until one replaces a socket of the other that is connecting or
connected (`Lost`): from there the callbacks of one socket work on the other.

*RpcExchange.* `requests` and `responses` are what is written and not delivered; one Data
event may bring several messages. `polReqs` and `channel` are the two pools,
`registered` the port in the manager's registry (0 when absent), `port` changes
whenever the response channel opens again. The manager's `askProviderInfo` does no
I/O, so a handler runs to its response in one action unless the channel has to be opened.
`strays` are requests written to a connection that has been lost since, which may still
be read, after those of the next connection too; `order` says whether that has happened.
`reports` is what the manager keeps of the requester, the last `Keep` of them; `written`
is history, the reports in the order they were written. Releasing the response channels
(`Release`, a restart of the manager) and `ClearReports` happen at any time.

*UdpDiscovery, BroadcastServer, ManagerDiscovery.* Calls of `discover()` share one
object, one socket and one Message event. A datagram, once sent, stays in `probes` or
`answers`: it may be received never, late, repeatedly and in any order.

## 3. The runs

| Run | Configuration | What it shows |
|---|---|---|
| `lc_sequential` | one call at a time, seven operations, a tick and a healer, provider with API, fairness | along any sequence: handlers (`HandlersOnce`) and timers (`TimersOwned`) are not duplicated; a shutdown leaves nothing that acts by itself (`ShutdownQuiet`); `ImplementsService`; `CallsReturn`; a manager that is lost is found again (`ManagerRegained`); `TypeOK` |
| `lc_concurrent` | two overlapping calls of start, shutdown and register, a healer, probes and connections that fail | `DiscoveryExclusive`, `RegisterExclusive`, `ManagerWatched` |
| `service_manager` | two overlapping calls of five operations on a manager whose listeners may fail | halted means no API listener (`HaltCloses`); a manager that shows Running is announced on the port it has (`RunningAnnounced`), one that has stopped is not (`StoppedSilent`) |
| `tcp_client` | three runs, three attempts, retry limit two, fairness | the limit is exact (`GivesUpLast`), each connection is counted once (`ConnectionsCounted`), `AbortIsFinal`, `StartSettles`; as long as no `start()` is called while an earlier one is in flight, no socket leaks (`OneSocket`) and the client is a task (`ImplementsConnection`) |
| `tcp_server` | three runs, two peers, retry limit two, fairness | `OneServer`, `ConnectionsCounted`, `StopsReturn`, `ImplementsConnection` |
| `rpc_exchange` | three calls of four APIs, two openings of the response channel, one loss and one release, two reports kept, fairness | `AnswerFindsCall`, `RegisteredAfterAck`, `ReportsLatest`, `SurvivesSteady`, `ImplementsCall`, `AnswersReturn` |
| `udp_discovery` | two discoveries, two starts of the server, two announcements | `OneSocket`, `Answerable`, `FoundCloses`, `ImplementsDirectory` |
| `lc_stop_doc` | start and stop | violated: a stopped provider keeps its system channel |
| `lc_register_doc` | start, stop and register | violated: register retries instead of starving the process |
| `sys_instruction_doc` | local calls and instructions of four operations | violated: an instruction that succeeds is answered |
| `rpc_error_doc` | two calls, no faults | violated: an error is answered |
| `udp_timeout_doc` | two discoveries, fairness | violated: a discovery that times out settles |

Every property of the seven passing runs comes with a mutant: an operator next to
the definition it replaces, commented `Mutant:`, which changes the code the way a
plausible mistake would and makes TLC find the property violated.

### Bounds, and why they are enough

- `Limit` = 1 (life cycle): how many surplus handlers, timers and pending heals are
  allowed before nothing new is asked for. The properties say "at most one", so a
  state with two already refutes them. Past the bound `Dead` stutters.
- `lc_sequential` leaves out register and report as calls: register is in
  `lc_concurrent`, and a report is what the tick does every time it fires. With `Faults
  = {}` only the probe, connect and listen attempts are free of failures; the
  connection to the manager is lost and closed at any time.
- two calls in `service_manager`, no tick and no discovery (`ReloadModes = {"None"}`):
  what is announced depends on starts, stops and failing listeners only. stop as a
  call of its own is left out, since restart and shutdown contain it.
- two calls and one healer in `lc_concurrent`: bookings and handlers are per
  provider, so a violation needs two contenders and a third party that disturbs.
- `MaxAttempts` = 3 with `MaxRetries` = 2 (TCP): one more than the limit, so that
  a limit that is off by one shows; 2 for UDP, where the loop is the same class.
- three runs (TCP): the one whose abort is late, the one it disturbs, and the next.
- `MaxPort` = 2, `MaxLosses` = 1 (RPC): one restart of the requester, one loss of
  the request connection and one restart of the manager, in any order with three calls.
  `Keep` = 2 stands for the 60 of the code: three reports overflow it. An API that
  does not exist is in `rpc_error_doc` and left out of `rpc_exchange`.
- `Infos` = 2 (UDP): one that is current and one that is not. The manager's
  stale buffer and a late answer need no more. `Limits` (the values of
  `maxResponses`) is `{0}` in `udp_discovery` and `{0, 2}` in `udp_timeout_doc`.

Symmetry is declared only in runs without liveness properties. Deadlock is checked
except where the system may stop: in the TCP server, RPC and UDP timeout runs every
start() or call of the bound may be used up with nothing left to happen.

### Fairness

- event loop: a callback that is due and a promise that is settled run
  (`WF` of each call's steps, of ticks' and heals' continuation, of aborts, of the
  close event). Nobody is obliged to call the API, and the peer is not obliged to do
  anything.
- network: an attempt to connect, bind or listen ends one way or the other; bytes
  written to an open connection arrive (TCP). Nothing is assumed of UDP delivery.
- `lc_sequential`: the report timer fires as long as it is set and the Error handler of
  a lost client is called; the manager's server accepts a connection and one of the
  listeners comes up (`Serving`). That a probe is answered and nothing fails is what
  `Faults = {}` says; without an answer the code really does hang, which
  `udp_timeout_doc` shows one level down.

Only weak fairness is used.

## 4. Where the code and its comments disagree

1. `life-cycle.ts:322` says `_stop` leaves the system instruction channel active;
   the loop at line 343 spares only the Manager task. A stopped provider can be
   started again only locally, and then still has no system channel, because
   `_initialized` is set (`SysChannelKept`).
2. `life-cycle.ts:150` says `register` retries until successful; without a usable
   manager client the loop at line 185 never leaves the microtask queue, so that no
   timer or socket is ever served again (`RegisterRetries`).
3. `basal-protocol.ts:33` says `Error` and `InvalidReqData` are forced to be sent;
   an API handler that rejects leaves `result` empty and nothing is sent
   (`ErrorAnswered`).
4. `udp-discovery.ts:123` says `discover()` throws if discovery times out; the
   timeout of `sendAndWait` resolves, and nothing settles what `discover()` awaits
   (`TimeoutSettles`). Likewise `udp-discovery.ts:32` calls 0 unlimited while the
   code returns after the first answer; no run states that.
5. `life-cycle.ts:460` says the handler of system instructions executes the instruction
   and sends a response back. `executeInstruction` returns a boolean, and `response()`
   (`service-provider.ts:700`) makes a payload of strings and buffers only:
   `Buffer.from(true)` throws, nobody handles the rejection, and the process that has
   just been started from remote ends (`InstructionAnswered`).

Three more disagreements show in the models and have no run:

- `tcp-client.ts:292` says that the promise of `stop()` resolves when disconnected, and
  `start()` that its own resolves when connected. `start()` (line 216) refuses Running and
  Starting only, so one that is called in Retrying is accepted. It overwrites the
  controller (line 224) and the scheduler (241) of the loop that is still running, whose
  next attempt, or its own, overwrites `_socket` (562). With `Owned` as an invariant TLC
  finds two live sockets in four steps: a start, a failed attempt, the second start
  while the first loop sleeps or has just woken up, and the other loop's attempt. A
  `stop()` then destroys one socket and aborts one loop; the other may connect after
  it, when `handleConnectSuccess` finds no `_socket` and throws. The library itself
  starts a client once, where it creates it.
- `tcp-server.ts:103` says that the listener registered there prevents a crash when
  "error" is emitted and no one is listening. It is attached to the state name
  `ExecutionState.Error`, "Error", and not to the event, so an `Error` event without
  a listener of the owner does end the process (`crashed` in `TcpServer`).
- `tcp-server.ts:554` says "Fatal, do not retry." of an error that is not retryable. The
  scheduler does not look at the error and retries (`ListenFails`).

What the models record without calling it wrong, since no text promises otherwise:

- a shutdown may open a fresh system channel to detach its handler and leaves it open;
  `ShutdownQuiet` says that it has no handler, and no more;
- a start that overlaps with another may wait for the port of one API server and
  announce it after a stop has replaced the server (`overlapped`);
- tracing stays off after a restart: the tracer that was shut down is found again
  (`otel-tracing.ts:116`);
- a failed or disabled discovery keeps its booking, so later starts run without a manager;
- halt and activate on a provider without an API throw and leave Halting or Starting;
- after a stop and a start within the same microtasks, the late abort of the
  earlier `start()` shows Stopped, and the next `stop()` is refused;
- an `Error` event of a client nobody listens to (a refused response channel, a manager
  that refuses during discovery) ends the process;
- a discovery that fails leaves its socket open; reports stay in `polReqs`.

## 5. The proofs

`ServiceLifeCycle_proofs` proves, with TLAPS and for all `Calls`, `Ticks`, `Heals`,
`Ops`, `Kind`, `ReloadModes`, `Faults` and `Limit` that satisfy the three named
assumptions of `ServiceLifeCycle`:

| Theorem | Statement | Argument |
|---|---|---|
| `TypeCorrect` | `Spec => []TypeOK` | `TypeOK` alone is not inductive: clearing the timer subtracts one from `timers`, and only `TimerCounted` (the timer is counted while it is referenced) keeps it natural. `TypeInv == TypeOK /\ TimerCounted` is. |
| `DiscoveryIsExclusive` | `Spec => []DiscoveryExclusive` | `FrameStep` bounds what any step other than the four that book or give back may do to the bookings and to the sets of discovering and registering calls; the four are treated one by one. |
| `RegisterIsExclusive` | `Spec => []RegisterExclusive` | as above. |
| `ManagerIsWatched` | `Spec => []ManagerWatched` | see below. |
| `HaltIsClosed` | `Spec => []HaltCloses` | `HaltCloses` is inductive: the steps that open the API channel set another state with it, and the ones that set Halt have closed it. |

`ManagerWatched` needs three facts that are invariants of their own.
`AwaitInv`: a call that awaits the `start()` of a task is suspended where it called
it, and awaits only one; so a `start()` that rejects cannot throw its caller out of a
"discover" that is still to come. `BookedUnknown`: while discovery is booked the
manager is not recorded; so a call that skips discovery because somebody else holds
the booking leaves nobody unwatched. `WatchInv` extends `ManagerWatched` to a client
that is still starting and names only the calls about to discover. The induction step
of `WatchInv` uses the other two.

`SequentialService_proofs` is about a provider that is driven one call at a time
(`OneCall`: there is one caller, who asks again when the last call has come back), beside
any number of timer callbacks and reconnections. That is how an application drives it;
when two calls overlap, all four properties fail, and TLC finds the counterexamples with
two callers and no faults.

| Theorem | Hypotheses | Statement |
|---|---|---|
| `TimersAreOwned` | `OneCall` | `Spec => []TimersOwned` |
| `HandlersAreOnce` | `OneCall`, `Faults = {}` | `Spec => []HandlersOnce` |
| `ShutdownIsQuiet` | `OneCall`, `Faults = {}` | `Spec => []ShutdownQuiet` |
| `ServiceIsImplemented` | `OneCall`, `ServesApi`, `"listen" \notin Faults` | `Spec => ImplementsService` |

The hypotheses on `Faults` are needed: a start that fails leaves the handlers of the
channels it has opened and the next start adds its own, so `HandlersOnce` is violated with
any of the three faults; and an API that cannot be bound leaves Starting without a
listener, so `ImplementsService` is violated with "listen". With `Faults = {}` the manager
is still lost, closed and found again at any time. `ProviderService` speaks of a provider
that has an API, which is what `ServesApi` says.

`Routed` says that a call is at an `await` of the operation it was asked for, so that the
one call in progress is known by its place. `AsideStep` then splits every step: one of that
call, or something beside it (`Aside`), which touches neither state nor handlers nor
timers. `TimerInv`: no timer is referenced when a start is about to set one. `StageInv`:
the place of the call gives the state (a call that opens channels shows Initializing, one
between discovery and the end Starting), and a stop has taken every other task off.
`OpenInv` gives the API listener by the state; the refinement follows from it and
`StageInv`. `HandlerInv`: a channel about to get a handler has none, because in Stopped no
serving channel is left. `QuietInv` carries what a shutdown has cleared to its end.

`ServiceManager_proofs` begins with `ManagerIsProvider` (`ManagerSpec => Spec`): every step
of a manager is a step of a provider, so that the theorems above hold of it as well.
The calls of these theorems overlap as they like and listeners may fail:

| Theorem | Hypotheses | Statement |
|---|---|---|
| `ManagerHaltIsClosed` | | `ManagerSpec => []HaltCloses` |
| `ManagerTypeCorrect` | | `ManagerSpec => []ManagerTypeOK` |
| `RunningIsAnnounced` | `Kind = "manager"` | `ManagerSpec => []RunningAnnounced` |
| `StoppedIsSilent` | `Kind = "manager"` | `ManagerSpec => []StoppedSilent` |

`ListenInv`: a listener announces a port as long as it is live, and a call that puts one
into the map has read a port. The other three parts hold until two starts overlap.
`SoloInv`: a start in progress and a stop in progress exclude each other, and the state
tells how far each has come. `ServerInv`: while a start is past its API server, or Running
is shown, that server is in the map. `SaidInv`: what is announced (`Silent` or `Heard`) by
the state and by the place of each call.

`TcpClient_proofs` holds for all `Runs`, `MaxRetries` and `MaxAttempts` that satisfy
`RunsAssumption`, which takes `Runs` to be finite, and `RetriesAssumption`:

| Theorem | Statement |
|---|---|
| `TypeCorrect` | `Spec => []TypeOK` |
| `SocketIsOwned` (no `start()` while one is in flight) | `Spec => []OneSocket` |
| `RetriesAreExact` | `Spec => []GivesUpLast` |
| `AbortHolds` | `Spec => AbortIsFinal` |
| `MetricIsExact` | `Spec => []ConnectionsCounted` |
| `ClientIsConnection` (no `start()` while one is in flight) | `Spec => ImplementsConnection` |

The two marked ones make an exception of behaviours in which a `start()` has been called
while an earlier one was in flight (`doubled`), where both are false; the other four hold
with two loops as well, up to the step that replaces a live socket.

They share one inductive invariant, `IInv`. `Paired`: a run awaits an attempt as long
as its socket connects. `Held`: the scheduler the client holds has begun to run, so a
`stop()` in any state but Stopped has one to reach. `Single` holds until a second
`start()` joins a first, and has three parts: `Sole`, the one run in flight is that of the
scheduler held; `OpenAlone`, while a connection is open the state is Running and no run
is in flight or about to write Stopped over it, without which a late abort could let
the next `start()` in beside a live socket; and `Owned`, which `OneSocket` states.
`AbortedRest`: an aborted run is at a place that makes no attempt. `Tries`: a run that
sleeps has an attempt left, which is what makes the limit exact (the loop tests it after
an attempt and not before). The types, the places, `Single` and the attempts are
preserved by a lemma each (`TypeStep`, `PlacesStep`, `SingleStep`, `TriesStep`).

`TcpServer_proofs` holds for all `Runs`, `MaxRetries`, `MaxAttempts` and all finite
`Peers`:

| Theorem | Statement |
|---|---|
| `TypeCorrect` | `Spec => []TypeOK` |
| `ServerIsOwned` | `Spec => []OneServer` |
| `MetricIsExact` | `Spec => []ConnectionsCounted` |
| `ServerIsConnection` | `Spec => ImplementsConnection` |

Its invariant has the same `Paired`, a `Held` that says what `Sole` does, and `OpenAlone`, where
open also means that no microtask or close event is outstanding, and `ConnKnown`: an open connection
is in `_sockets` and its server is open, so the next `stop()` ends it.

The refinements are proved without unfolding the refinement mapping in every step:
`Seen` says, as a state predicate that follows from `IInv`, what `status` and `owner`
are in each state; `LinkStep` and `TaskStep` then show that every action
is a step of `Connection` or a stutter.

The metric is the cardinality of a set of connections. `CountStep` shows that a step
adds at most one connection to the set or takes one from it, and moves the metric with
it; of the client it needs that a run connects once (`MadeOnceStep`).

`RpcExchange_proofs` holds for all `Requests`, `Apis`, `Faults`, `MaxPort`, `MaxLosses`
and `Keep` that satisfy the three assumptions of `RpcExchange`; nothing is assumed of how
many calls there are:

| Theorem | Statement |
|---|---|
| `TypeCorrect` | `Spec => []TypeOK` |
| `AnswersFindCalls` | `Spec => []AnswerFindsCall` |
| `RegisterIsKnown` | `Spec => []RegisteredAfterAck` |
| `ReportsAreLatest` | `Spec => []ReportsLatest` |
| `ManagerSurvives` | `Spec => []SurvivesSteady` |
| `ExchangeIsCall` | `Spec => ImplementsCall` |

Its invariant speaks of the calls under way as sets (`Elements` of the queues). `Placed`:
a call is once in one place, on its way, or executed and perhaps being answered; so no
call is executed or answered twice. `Pooled`: every call under way is in `polReqs` and
somebody waits for it, which is what an answer needs to find. `Ports`: the queues are
sorted by the port their registers tell, the lost connection's before the present one's,
and the registry is not ahead of what is still to come; so a register that comes in can
only raise the entry. Both orders hold until a request of a lost connection is handled
after one of the next, and this is why `RegisteredAfterAck` makes its exception.
`Directed`: a response channel goes to a port the requester has had, so that a refused
connection means the listener has moved or is closed. The module begins with facts about
the sequences (`CutSeq`, `AppendSeq`, `ConcatSeq` and what they do to a sorted one).

`ReportsAreLatest` has an invariant of its own on top of that one, `OrderInv`. `Recorded`:
a report is in `written` once, from when it is sent, whatever has failed before. `InOrder`:
what is on its way is in the order of `written` (`Ordered`), and everything that has come in
was written before it (`Behind`); a lost connection's requests come between the two until
one of them is late. So a report that is handled follows all that came in (`LatestGrown`),
and the one that is dropped precedes all that are kept (`LatestTail`, which needs that the
order has no cycle, `PrecedesOnce`). `ReportsLatest` is stated by that order and not with
`SelectSeq`, whose facts need induction over the sequence.

`ManagerDiscovery_proofs` holds for all `Calls`, `Runs`, `Infos`, `Limits`, `MaxRetries`
and `MaxAttempts` that satisfy the three assumptions of `ManagerDiscovery`; these are all
the properties of the run `udp_discovery`:

| Theorem | Statement |
|---|---|
| `TypeCorrect` | `Spec => []TypeOK` |
| `SocketIsOwned` | `Spec => []OneSocket` |
| `AlwaysAnswerable` | `Spec => []Answerable` |
| `FoundStopsAll` | `Spec => FoundCloses` |
| `DiscoveryIsDirectory` | `Spec => ImplementsDirectory` |

The two objects have an invariant each, `ClientInv` and `MgrInv`, with the `Paired`,
`Held` and `OpenAlone` of the TCP server: a bound socket is the one held, and nobody is
about to write Stopped over its state. `MgrOpenAlone` adds that a bound server has an
announcement unless its `start()` is just returning. `Fresh`: a call holds an answer only
once it listens no more, so it returns one. `Heard` ties the two together: an answer under
way has been announced.

Every invariant, action property and refinement that a passing run checks is stated by one of
these theorems. Only model-checked: the liveness properties `CallsReturn`,
`ManagerRegained`, `StartSettles`, `StopsReturn` and `AnswersReturn`, since TLAPS does not
reason about `ENABLED`; and the five runs that find a violation.

## 6. Limits of what is shown

- `HandlersOnce` and `ShutdownQuiet` are shown without failing starts: one that fails
  halfway leaves its handlers, and the next doubles them. With `TimersOwned` and
  `ImplementsService` they are about one call at a time: two overlapping starts each set
  a timer.
- `RunningAnnounced` and `StoppedSilent` except behaviours in which two starts have been
  under way at once: the second may announce a server that is gone, or its listener may
  replace one that nobody stops any more. What is left open is a start that overlaps
  with halt, activate, restart or shutdown.
- `RegisteredAfterAck` and `ReportsLatest` except behaviours in which a request written to
  a lost connection was read after one of the next: the code has no sequence numbers.
- A response to a system instruction is a step after the operation has returned; several
  messages in one data event are modelled in `RpcExchange` only.
- `ManagerRegained` assumes that probes are answered and connections accepted.
- `OneSocket` and `ImplementsConnection` of the client except behaviours in which a
  `start()` is called while an earlier one is in flight, and no property of the client
  says anything after two loops have come to share a socket (`Lost`); section 4 has the
  case. The server and the discovery client start in Stopped only. What is left there is
  a run in flight whose state the late abort of an earlier one has set to Stopped: their
  callers are taken not to start again at that moment; none in the repository does, and
  a socket would leak.
- In the life cycle every `stop()` of a listener is effective. The one the server refuses
  (`tcp-server.ts:278`), after a late abort has shown Stopped over a run in flight, is left
  out (`StopServing`).
- `CallsReturn` is checked with one caller. With two, a start whose listener a concurrent
  stop cuts off never returns; TLC finds it, and no text promises otherwise.
- `Ask` of `RpcExchange` writes the request and enters it in `polReqs` in one action. The
  code awaits the callback of the write in between; the continuation is a microtask of
  that callback, and no data event is served before it.
- `RpcExchange` has one requester and one manager, and never splits a message; the
  requests of several requesters meet only in the manager's pool, one entry each.
- Node's own internals (`listen` after `close` before the name lookup is over, the
  emission order inside `net`) are taken at the granularity of their documented events.

Not modelled: the metrics other than the active connections, tracing, dependency
injection, configuration parsing, `main.ts`, identifiers, API counters, byte counters,
`broadcast()`: nothing the program does depends on them.

## 7. Plan

Done, in this order: `ServiceLifeCycle` with its proofs, `TcpClient`, `RpcExchange`,
`UdpDiscovery` with `BroadcastServer` and `ManagerDiscovery`, `TcpServer`, the
proofs of `TcpClient` and `TcpServer`; then `ServiceManager` and `SystemInstruction`, the
reports and the late requests of `RpcExchange`, connections that are closed in order, the
metric, liveness of the life cycle over all its sequences, and `HaltIsClosed`; then the
proofs of `RpcExchange` and `ManagerDiscovery`; then `SequentialService_proofs`, what a
manager announces, and `ReportsAreLatest`.

Left:

1. the sequential theorems when only calls that start a provider exclude each other;
2. several requesters of one manager, and a manager that is itself asked over the
   system channel of its providers;
3. `TcpLink`: a client and a server of this library connected to each other.
