---------------------------- MODULE ServiceLifeCycle ----------------------------
(***************************************************************************)
(* The life cycle of one service provider: LifeCycleProcedure              *)
(* (procedure/life-cycle.ts) driving the ServiceProvider that owns it      *)
(* (provider/service-provider.ts) and the discover, register and report    *)
(* procedures it runs.                                                     *)
(*                                                                         *)
(* The program is single threaded: what an async function does between two *)
(* awaits is one action, and every await on which something else may run   *)
(* is a label, the value of pc[p] while p is suspended there.  A label     *)
(* named after a method is the moment before that method's first statement.*)
(* The one microtask between the end of an awaited async function and its  *)
(* caller is not a label of its own.                                       *)
(***************************************************************************)
EXTENDS Naturals

CONSTANTS
    Calls,        \* lifeCycle(op) calls a client may have in flight
    Ticks,        \* callbacks of the report interval timer in flight
    Heals,        \* runs of _handleTcpMgrError in flight
    NoCall,       \* nobody awaits the start() of a task
    Ops,          \* the operations the calls ask for
    Kind,         \* which subclass hooks the provider has
    ReloadModes,  \* values net.sm_discovery may have after a reload
    Faults,       \* "listen", "probe", "connect": what the environment may refuse
    Limit         \* how far handlers, timers and healing are counted

LifeCycleOperation == {"activate", "halt", "register", "reload", "report",
                       "restart", "shutdown", "start", "stop"}

ASSUME ProcsAssumption ==
    /\ Calls \cap Ticks = {} /\ Calls \cap Heals = {} /\ Ticks \cap Heals = {}
    /\ NoCall \notin Calls \cup Ticks \cup Heals

ASSUME ModesAssumption ==
    /\ Ops \subseteq LifeCycleOperation
    /\ Kind \in {"plain", "api", "manager"}
    /\ ReloadModes \subseteq {"UDP", "None"}
    /\ Kind = "manager" => ReloadModes \subseteq {"None"}  \* ServiceManager.reloading
    /\ Faults \subseteq {"listen", "probe", "connect"}

ASSUME LimitAssumption == Limit \in Nat \ {0}

Procs == Calls \cup Ticks \cup Heals

\* Names of the tasks map.  Reception is ServiceManager's broadcast listener.
Channels == {"ChannelApi", "ChannelResponse", "ChannelSys"}
Tasks == Channels \cup {"Reception", "Manager"}

\* A task is absent from the map, being started, serving, or in the map but
\* stopped, failed or disconnected.
TaskStatus == {"absent", "starting", "up", "down"}

ExecutionState == {"Halt", "Halting", "Initializing", "Running", "Starting",
                   "Stopped", "Stopping"}

\* The subclass opens the API channel in its hooks, as ServiceManager does.
ServesApi == Kind # "plain"

VARIABLES
    state,        \* ProviderState.state
    initialized,  \* ServiceProvider._initialized
    mode,         \* core configuration net.sm_discovery
    tasks,        \* ServiceProvider.tasks
    starter,      \* per task, the call that awaits its start()
    awaiting,     \* calls whose awaited start() has not settled
    handlers,     \* Data handlers attached to each channel
    mgrKnown,     \* _manager.manager is set
    mgrWatched,   \* _handleTcpMgrError is attached to the Manager client
    discovery,    \* _procedure.discovery, the booking of discovery
    healing,      \* invocations of _handleTcpMgrError past their first await
    registering,  \* _procedure.register, the booking of registration
    timers,       \* live interval timers of the reporter
    timerRef,     \* _reportTimer is set
    pend,         \* per call, the tasks whose stop() it awaits
    pc, op, result,
    fate          \* "alive", "crashed" by an unhandled rejection, or "starved"

provVars == <<state, initialized, mode>>
taskVars == <<tasks, starter, awaiting, handlers>>
mgrVars == <<mgrKnown, mgrWatched, discovery, healing>>
timerVars == <<timers, timerRef>>
callVars == <<pc, op, result, pend>>
vars == <<provVars, taskVars, mgrVars, registering, timerVars, callVars, fate>>

DiscoverySteps == {"loadDiscover", "probe", "connect"}
RegisterSteps == {"registerFirst", "registerAsk"}
Labels == DiscoverySteps \cup RegisterSteps \cup LifeCycleOperation \cup
    {"done", "initResponse", "initHook", "sysChannel", "discover", "starting",
     "apiOn", "broadcastOn", "receptionOn", "schedule", "scheduleNew", "stopHook",
     "stopTasks", "reportAsk", "afterStop", "shutSys", "shutManager", "release"}

Init ==
    /\ state = "Stopped" /\ initialized = FALSE /\ mode \in ReloadModes
    /\ tasks = [t \in Tasks |-> "absent"]
    /\ starter = [t \in Tasks |-> NoCall]
    /\ awaiting = {}
    /\ handlers = [t \in Channels |-> 0]
    /\ mgrKnown = FALSE /\ mgrWatched = FALSE /\ discovery = FALSE /\ healing = 0
    /\ registering = FALSE
    /\ timers = 0 /\ timerRef = FALSE
    /\ pend = [p \in Procs |-> {}]
    /\ pc = [p \in Procs |-> "done"]
    /\ op = [p \in Procs |-> "none"]
    /\ result = [p \in Procs |-> "none"]
    /\ fate = "alive"

-----------------------------------------------------------------------------
\* Helpers.

Goto(p, label) == pc' = [pc EXCEPT ![p] = label] /\ UNCHANGED <<op, result>>

Finish(p, r) ==
    /\ pc' = [pc EXCEPT ![p] = "done"]
    /\ result' = [result EXCEPT ![p] = r]
    /\ UNCHANGED op

\* p is suspended at label and what it awaits there has settled.
At(p, label) == pc[p] = label /\ p \notin awaiting

\* A rejection reaches the caller of lifeCycle(); nobody handles that of a
\* timer callback or of the un-awaited _handleTcpMgrError.
Reject(p) ==
    /\ Finish(p, "threw")
    /\ fate' = IF p \in Calls THEN fate ELSE "crashed"

\* getTaskTcpServer(t), called and awaited by p.
OpenServer(p, t) ==
    IF tasks[t] = "absent"
    THEN /\ tasks' = [tasks EXCEPT ![t] = "starting"]
         /\ starter' = [starter EXCEPT ![t] = p]
         /\ awaiting' = awaiting \cup {p}
         /\ handlers' = [handlers EXCEPT ![t] = 0]
    ELSE UNCHANGED taskVars

\* task.on(Data, ...) and task.off(Data, ...) on the server named t.
Attached(t) ==
    IF tasks[t] = "absent" THEN handlers
    ELSE [handlers EXCEPT ![t] = @ + 1]
Detached(t) == [handlers EXCEPT ![t] = IF @ = 0 THEN 0 ELSE @ - 1]

\* task.stop() on the tasks of S.  A start() still pending never settles when the
\* stop cuts an attempt, and resolves when it cuts the wait for the next one.  A stop
\* that a late abort of the task makes it refuse (TcpServer) is left out.
StopServing(S) ==
    /\ tasks' = [t \in Tasks |-> IF t \in S THEN "down" ELSE tasks[t]]
    /\ starter' = [t \in Tasks |-> IF t \in S THEN NoCall ELSE starter[t]]
    /\ \E aborted \in SUBSET {starter[t] : t \in S} : awaiting' = awaiting \ aborted

-----------------------------------------------------------------------------
\* Entry points.

\* The bound of the model: nothing new is asked for past it.
WithinLimit ==
    timers <= Limit /\ healing <= Limit /\ \A t \in Channels : handlers[t] <= Limit

\* lifeCycle(o) is called, or the system channel asks for o (_doSysInstruction):
\* it dispatches to _o; _restart and _shutdown begin with _stop.
Invoke(c, o) ==
    /\ pc[c] = "done" /\ WithinLimit
    /\ pc' = [pc EXCEPT ![c] = IF o \in {"restart", "shutdown"} THEN "stop" ELSE o]
    /\ op' = [op EXCEPT ![c] = o]
    /\ result' = [result EXCEPT ![c] = "none"]
    /\ UNCHANGED <<provVars, taskVars, mgrVars, registering, timerVars, pend, fate>>

\* The report interval elapses.
TickFire(p) ==
    /\ timers > 0 /\ pc[p] = "done" /\ WithinLimit
    /\ pc' = [pc EXCEPT ![p] = "report"]
    /\ op' = [op EXCEPT ![p] = "tick"]
    /\ UNCHANGED <<provVars, taskVars, mgrVars, registering, timerVars, result,
                   pend, fate>>

\* _handleTcpMgrError resumes after its first await: it emits
\* ManagerDisconnect and discovers again.
HealStart(p) ==
    /\ healing > 0 /\ pc[p] = "done"
    /\ healing' = healing - 1
    /\ pc' = [pc EXCEPT ![p] = "discover"]
    /\ op' = [op EXCEPT ![p] = "heal"]
    /\ UNCHANGED <<provVars, taskVars, mgrKnown, mgrWatched, discovery,
                   registering, timerVars, result, pend, fate>>

-----------------------------------------------------------------------------
\* _start

StartAccepts == state \in {"Initializing", "Stopped"}

Start(p) ==
    /\ At(p, "start")
    /\ UNCHANGED <<initialized, mode, mgrVars, registering, timerVars, pend, fate>>
    /\ IF ~StartAccepts
       THEN Finish(p, IF op[p] = "restart" THEN "true" ELSE "false")
            /\ UNCHANGED <<state, taskVars>>
       ELSE IF initialized
       THEN Goto(p, "discover") /\ UNCHANGED <<state, taskVars>>
       ELSE /\ state' = "Initializing"
            /\ OpenServer(p, "ChannelResponse")
            /\ Goto(p, "initResponse")

\* _initializeResources goes on once the response channel listens: its
\* setResponseChannel(true) is not awaited.
InitResponse(p) ==
    /\ At(p, "initResponse")
    /\ tasks' = [tasks EXCEPT !["ChannelResponse"] = IF @ = "absent" THEN "starting" ELSE @]
    /\ handlers' = IF tasks["ChannelResponse"] = "absent"
                   THEN [handlers EXCEPT !["ChannelResponse"] = 1]
                   ELSE Attached("ChannelResponse")
    /\ Goto(p, "initHook")
    /\ UNCHANGED <<provVars, starter, awaiting, mgrVars, registering, timerVars,
                   pend, fate>>

\* initializingResources() of the subclass has returned.
InitHook(p) ==
    /\ At(p, "initHook")
    /\ initialized' = TRUE
    /\ OpenServer(p, "ChannelSys")
    /\ Goto(p, "sysChannel")
    /\ UNCHANGED <<state, mode, mgrVars, registering, timerVars, pend, fate>>

\* _setSystemChannel(true)
SysChannel(p) ==
    /\ At(p, "sysChannel")
    /\ handlers' = Attached("ChannelSys")
    /\ Goto(p, "discover")
    /\ UNCHANGED <<provVars, tasks, starter, awaiting, mgrVars, registering,
                   timerVars, pend, fate>>

\* After _discoverServiceManager a start goes on and a heal is over.
AfterDiscover(p) ==
    IF op[p] = "heal" THEN Finish(p, "true") ELSE Goto(p, "starting")

Starting(p) ==
    /\ At(p, "starting")
    /\ state' = "Starting"
    /\ IF ServesApi
       THEN OpenServer(p, "ChannelApi") /\ Goto(p, "apiOn")
       ELSE UNCHANGED taskVars /\ Goto(p, "schedule")
    /\ UNCHANGED <<initialized, mode, mgrVars, registering, timerVars, pend, fate>>

\* The subclass's starting(): setApiChannel(true), then, for ServiceManager, the
\* broadcast listener.
ApiOn(p) ==
    /\ At(p, "apiOn")
    /\ handlers' = Attached("ChannelApi")
    /\ Goto(p, IF Kind = "manager" THEN "broadcastOn" ELSE "schedule")
    /\ UNCHANGED <<provVars, tasks, starter, awaiting, mgrVars, registering,
                   timerVars, pend, fate>>

\* The new listener is told the port of the API channel, which has to listen, and
\* begins to bind.
BroadcastOn(p) ==
    /\ At(p, "broadcastOn")
    /\ IF tasks["ChannelApi"] = "up"
       THEN Goto(p, "receptionOn") /\ UNCHANGED fate
       ELSE Reject(p)
    /\ UNCHANGED <<provVars, taskVars, mgrVars, registering, timerVars, pend>>

\* It listens and enters the map.  All listeners bind the port of the discovery,
\* which only one can have.
ReceptionOn(p) ==
    /\ At(p, "receptionOn") /\ tasks["Reception"] # "up"
    /\ tasks' = [tasks EXCEPT !["Reception"] = "up"]
    /\ Goto(p, "schedule")
    /\ UNCHANGED <<provVars, starter, awaiting, handlers, mgrVars, registering,
                   timerVars, pend, fate>>

\* The binds of the listener have failed.
ReceptionFailed(p) ==
    /\ "listen" \in Faults \/ tasks["Reception"] = "up"
    /\ At(p, "receptionOn")
    /\ Reject(p)
    /\ UNCHANGED <<provVars, taskVars, mgrVars, registering, timerVars, pend>>

\* Mutant: the timer is counted as cleared though there is none.
ScheduleBlind(p) ==
    /\ At(p, "schedule")
    /\ timers' = timers - 1 /\ timerRef' = FALSE
    /\ Goto(p, "scheduleNew")
    /\ UNCHANGED <<provVars, taskVars, mgrVars, registering, pend, fate>>

\* Mutant: the existing timer is not cleared.
ScheduleKeeping(p) ==
    /\ At(p, "schedule")
    /\ Goto(p, "scheduleNew")
    /\ UNCHANGED <<provVars, taskVars, mgrVars, registering, timerVars, pend, fate>>

\* _startReportSchedule: an existing timer is cleared first, over an await.
Schedule(p) ==
    /\ At(p, "schedule")
    /\ timers' = IF timerRef THEN timers - 1 ELSE timers
    /\ timerRef' = FALSE
    /\ Goto(p, "scheduleNew")
    /\ UNCHANGED <<provVars, taskVars, mgrVars, registering, pend, fate>>

\* The configuration may say that nothing is reported.
ScheduleNew(p) ==
    /\ At(p, "scheduleNew")
    /\ \/ UNCHANGED timerVars
       \/ tasks["Manager"] # "absent" /\ timers' = timers + 1 /\ timerRef' = TRUE
    /\ state' = "Running"
    /\ Finish(p, "true")
    /\ UNCHANGED <<initialized, mode, taskVars, mgrVars, registering, pend, fate>>

-----------------------------------------------------------------------------
\* _discoverServiceManager, with DiscoverProcedure.execute

\* Mutant: the booking is not looked at.
DiscoveryAlwaysFree == TRUE

DiscoveryFree == ~discovery

Discover(p) ==
    /\ At(p, "discover")
    /\ IF ~DiscoveryFree
       THEN AfterDiscover(p) /\ UNCHANGED <<tasks, starter, mgrVars>>
       ELSE /\ discovery' = TRUE
            /\ mgrKnown' = FALSE
            /\ mgrWatched' = FALSE  \* the client that carried the handler is dropped
            /\ tasks' = [tasks EXCEPT !["Manager"] = "absent"]
            /\ starter' = [starter EXCEPT !["Manager"] = NoCall]
            /\ Goto(p, "loadDiscover")
            /\ UNCHANGED healing
    /\ UNCHANGED <<provVars, awaiting, handlers, registering, timerVars, pend, fate>>

\* Discovery disabled: execute() returns {}, which ends the retry loop and
\* leaves the booking.
LoadDiscover(p) ==
    /\ At(p, "loadDiscover")
    /\ IF mode = "None" THEN AfterDiscover(p) ELSE Goto(p, "probe")
    /\ UNCHANGED <<provVars, taskVars, mgrVars, registering, timerVars, pend, fate>>

\* A manager answers the probe: getTcpClient puts a client in the map and
\* connects it, or takes the one already there.
ProbeAnswered(p) ==
    /\ At(p, "probe")
    /\ IF tasks["Manager"] = "absent"
       THEN /\ tasks' = [tasks EXCEPT !["Manager"] = "starting"]
            /\ starter' = [starter EXCEPT !["Manager"] = p]
            /\ awaiting' = awaiting \cup {p}
       ELSE UNCHANGED <<tasks, starter, awaiting>>
    /\ Goto(p, "connect")
    /\ UNCHANGED <<provVars, handlers, mgrVars, registering, timerVars, pend, fate>>

\* discover() rejects (bind or broadcast error).
ProbeFailed(p) ==
    /\ "probe" \in Faults
    /\ At(p, "probe")
    /\ Reject(p)
    /\ UNCHANGED <<provVars, taskVars, mgrVars, registering, timerVars, pend>>

\* Mutant: nobody watches the new client.
ConnectedUnwatched(p) ==
    /\ At(p, "connect")
    /\ mgrKnown' = TRUE /\ discovery' = FALSE
    /\ tasks' = [tasks EXCEPT !["Manager"] = IF @ = "absent" THEN "down" ELSE @]
    /\ AfterDiscover(p)
    /\ UNCHANGED <<provVars, starter, awaiting, handlers, mgrWatched, healing,
                   registering, timerVars, pend, fate>>

\* Mutant: the booking is kept.
ConnectedBooked(p) ==
    /\ At(p, "connect")
    /\ mgrKnown' = TRUE /\ mgrWatched' = TRUE
    /\ tasks' = [tasks EXCEPT !["Manager"] = IF @ = "absent" THEN "down" ELSE @]
    /\ AfterDiscover(p)
    /\ UNCHANGED <<provVars, starter, awaiting, handlers, discovery, healing,
                   registering, timerVars, pend, fate>>

\* The client is connected: the manager is recorded, the client (re)enters the
\* map, its Error event is watched and the booking is given back.  A client a
\* shutdown has removed meanwhile is stopped already.
Connected(p) ==
    /\ At(p, "connect")
    /\ mgrKnown' = TRUE
    /\ tasks' = [tasks EXCEPT !["Manager"] = IF @ = "absent" THEN "down" ELSE @]
    /\ mgrWatched' = TRUE
    /\ discovery' = FALSE
    /\ AfterDiscover(p)
    /\ UNCHANGED <<provVars, starter, awaiting, handlers, healing, registering,
                   timerVars, pend, fate>>

-----------------------------------------------------------------------------
\* _stop

\* Mutant: a halted provider may be stopped too.
StopAcceptsHalt == state \in {"Running", "Halt"}

StopAccepts == state = "Running"

Stop(p) ==
    /\ At(p, "stop")
    /\ UNCHANGED <<initialized, mode, mgrVars, registering, timerVars, pend, fate>>
    /\ IF StopAccepts
       THEN /\ state' = "Stopping"
            /\ Goto(p, "stopHook")
            /\ IF ServesApi THEN OpenServer(p, "ChannelApi") ELSE UNCHANGED taskVars
       ELSE /\ UNCHANGED <<state, taskVars>>
            /\ IF op[p] = "stop" THEN Finish(p, "false") ELSE Goto(p, "afterStop")

\* Mutant: the system channel is left out, as the comment of _stop has it.
StoppedButSystem == {t \in Tasks \ {"Manager", "ChannelSys"} : tasks[t] # "absent"}

\* Mutant: only the channels are stopped.
StoppedChannels == {t \in Channels : tasks[t] # "absent"}

\* The tasks _stop stops: every one in the map but the manager's client.
Stopped == {t \in Tasks \ {"Manager"} : tasks[t] # "absent"}

\* The subclass's stopping(), setApiChannel(false), is over: every task's
\* stop() is called in one go.
StopHook(p) ==
    /\ At(p, "stopHook")
    /\ handlers' = IF ServesApi THEN Detached("ChannelApi") ELSE handlers
    /\ StopServing(Stopped)
    /\ pend' = [pend EXCEPT ![p] = Stopped]
    /\ Goto(p, "stopTasks")
    /\ UNCHANGED <<provVars, mgrVars, registering, timerVars, fate>>

\* _stopTask: one of the stops has resolved and its task leaves the map.
StopTask(p, t) ==
    /\ At(p, "stopTasks") /\ t \in pend[p]
    /\ pend' = [pend EXCEPT ![p] = @ \ {t}]
    /\ tasks' = [tasks EXCEPT ![t] = "absent"]
    /\ starter' = [starter EXCEPT ![t] = NoCall]
    /\ UNCHANGED <<provVars, awaiting, handlers, mgrVars, registering, timerVars,
                   pc, op, result, fate>>

\* Mutant: waits for the whole map to be empty.
StopEndWaitsAll(p) ==
    /\ At(p, "stopTasks") /\ pend[p] = {} /\ \A t \in Tasks : tasks[t] = "absent"
    /\ state' = "Stopped"
    /\ Goto(p, "report")
    /\ UNCHANGED <<initialized, mode, taskVars, mgrVars, registering, timerVars,
                   pend, fate>>

StopEnd(p) ==
    /\ At(p, "stopTasks") /\ pend[p] = {}
    /\ state' = "Stopped"
    /\ Goto(p, "report")
    /\ UNCHANGED <<initialized, mode, taskVars, mgrVars, registering, timerVars,
                   pend, fate>>

-----------------------------------------------------------------------------
\* _report, with ReportProcedure.execute

AfterReport(p, r) ==
    IF op[p] \in {"restart", "shutdown"} THEN Goto(p, "afterStop") ELSE Finish(p, r)

\* Without a manager client there is nothing to do; with one whose manager
\* information is not recorded, reading its ack type is a TypeError.
Report(p) ==
    /\ At(p, "report")
    /\ \/ /\ tasks["Manager"] = "absent"
          /\ AfterReport(p, "true")
          /\ UNCHANGED fate
       \/ /\ tasks["Manager"] # "absent" /\ ~mgrKnown
          /\ Reject(p)
       \/ /\ tasks["Manager"] # "absent" /\ mgrKnown
          /\ Goto(p, "reportAsk")
          /\ UNCHANGED fate
    /\ UNCHANGED <<provVars, taskVars, mgrVars, registering, timerVars, pend>>

ReportSent(p) ==
    /\ At(p, "reportAsk") /\ tasks["Manager"] = "up"
    /\ AfterReport(p, "true")
    /\ UNCHANGED <<provVars, taskVars, mgrVars, registering, timerVars, pend, fate>>

\* Every attempt has failed.  _handleTcpMgrError is called and not awaited: the
\* Error handler is removed at once, which is a TypeError when the manager's
\* client has left the map.
ReportFailed(p) ==
    /\ At(p, "reportAsk")
    /\ IF tasks["Manager"] = "absent"
       THEN fate' = "crashed" /\ UNCHANGED <<mgrWatched, healing>>
       ELSE mgrWatched' = FALSE /\ healing' = healing + 1 /\ UNCHANGED fate
    /\ AfterReport(p, IF op[p] = "report" THEN "false" ELSE "true")
    /\ UNCHANGED <<provVars, taskVars, mgrKnown, discovery, registering, timerVars,
                   pend>>

-----------------------------------------------------------------------------
\* _halt and _activate

HaltAccepts == state = "Running"

Halt(p) ==
    /\ At(p, "halt")
    /\ UNCHANGED <<initialized, mode, handlers, mgrVars, registering, timerVars,
                   pend, fate>>
    /\ IF ~HaltAccepts
       THEN Finish(p, "false") /\ UNCHANGED <<state, tasks, starter, awaiting>>
       ELSE IF tasks["ChannelApi"] = "absent"
       THEN state' = "Halting" /\ Finish(p, "threw") /\ UNCHANGED <<tasks, starter, awaiting>>
       ELSE state' = "Halt" /\ StopServing({"ChannelApi"}) /\ Goto(p, "report")

ActivateAccepts == state = "Halt"

\* Mutant: the state is not set back to Running.
ActivateSilently(p) ==
    /\ At(p, "activate")
    /\ IF ActivateAccepts /\ tasks["ChannelApi"] # "absent"
       THEN /\ tasks' = [tasks EXCEPT !["ChannelApi"] = IF @ = "down" THEN "starting" ELSE @]
            /\ Goto(p, "report")
       ELSE Finish(p, "false") /\ UNCHANGED tasks
    /\ UNCHANGED <<provVars, starter, awaiting, handlers, mgrVars, registering,
                   timerVars, pend, fate>>

\* Mutant: the API server is not started.
ActivateUnopened(p) ==
    /\ At(p, "activate")
    /\ IF ActivateAccepts /\ tasks["ChannelApi"] # "absent"
       THEN state' = "Running" /\ Goto(p, "report")
       ELSE Finish(p, "false") /\ UNCHANGED state
    /\ UNCHANGED <<initialized, mode, taskVars, mgrVars, registering, timerVars, pend, fate>>

\* The API server's start() is not awaited; a server still serving ignores it.
Activate(p) ==
    /\ At(p, "activate")
    /\ UNCHANGED <<initialized, mode, starter, awaiting, handlers, mgrVars,
                   registering, timerVars, pend, fate>>
    /\ IF ~ActivateAccepts
       THEN Finish(p, "false") /\ UNCHANGED <<state, tasks>>
       ELSE IF tasks["ChannelApi"] = "absent"
       THEN state' = "Starting" /\ Finish(p, "threw") /\ UNCHANGED tasks
       ELSE /\ state' = "Running"
            /\ tasks' = [tasks EXCEPT !["ChannelApi"] = IF @ = "down" THEN "starting" ELSE @]
            /\ Goto(p, "report")

-----------------------------------------------------------------------------
\* _shutdown, _restart and _reload

\* _stop has returned, whatever it returned.
AfterStop(p) ==
    /\ At(p, "afterStop")
    /\ IF op[p] = "shutdown"
       THEN OpenServer(p, "ChannelSys") /\ Goto(p, "shutSys")
       ELSE UNCHANGED taskVars /\ Goto(p, "release")
    /\ UNCHANGED <<provVars, mgrVars, registering, timerVars, pend, fate>>

\* Mutant: the report timer is not cleared.
ShutSysTicking(p) ==
    /\ At(p, "shutSys")
    /\ handlers' = Detached("ChannelSys")
    /\ IF tasks["Manager"] = "absent"
       THEN Goto(p, "release") /\ UNCHANGED <<tasks, starter, awaiting, mgrWatched>>
       ELSE StopServing({"Manager"}) /\ mgrWatched' = FALSE /\ Goto(p, "shutManager")
    /\ UNCHANGED <<provVars, mgrKnown, discovery, healing, registering, timerVars, pend, fate>>

\* _setSystemChannel(false), _stopReportSchedule and the start of
\* _stopManagerTask.
ShutSys(p) ==
    /\ At(p, "shutSys")
    /\ handlers' = Detached("ChannelSys")
    /\ timers' = IF timerRef THEN timers - 1 ELSE timers
    /\ timerRef' = FALSE
    /\ IF tasks["Manager"] = "absent"
       THEN Goto(p, "release") /\ UNCHANGED <<tasks, starter, awaiting, mgrWatched>>
       ELSE StopServing({"Manager"}) /\ mgrWatched' = FALSE /\ Goto(p, "shutManager")
    /\ UNCHANGED <<provVars, mgrKnown, discovery, healing, registering, pend, fate>>

ShutManager(p) ==
    /\ At(p, "shutManager")
    /\ tasks' = [tasks EXCEPT !["Manager"] = "absent"]
    /\ starter' = [starter EXCEPT !["Manager"] = NoCall]
    /\ Goto(p, "release")
    /\ UNCHANGED <<provVars, awaiting, handlers, mgrVars, registering, timerVars,
                   pend, fate>>

\* _releaseResources
Release(p) ==
    /\ At(p, "release")
    /\ initialized' = FALSE
    /\ IF op[p] = "shutdown" THEN Finish(p, "true") ELSE Goto(p, "reload")
    /\ UNCHANGED <<state, mode, taskVars, mgrVars, registering, timerVars, pend, fate>>

Reload(p) ==
    /\ At(p, "reload")
    /\ mode' \in ReloadModes
    /\ IF op[p] = "reload" THEN Finish(p, "true") ELSE Goto(p, "start")
    /\ UNCHANGED <<state, initialized, taskVars, mgrVars, registering, timerVars,
                   pend, fate>>

-----------------------------------------------------------------------------
\* _register, with RegisterProcedure.execute

\* Mutant: the booking is not looked at.
RegisterAlwaysFree == TRUE

RegisterFree == ~registering

Register(p) ==
    /\ At(p, "register")
    /\ IF RegisterFree
       THEN registering' = TRUE /\ Goto(p, "registerFirst")
       ELSE UNCHANGED registering /\ Finish(p, "true")
    /\ UNCHANGED <<provVars, taskVars, mgrVars, timerVars, pend, fate>>

\* One round of the retry loop.  A register tells the address of the response
\* channel, which only a bound one has.  A request that cannot be sent fails within
\* the microtask queue, and the loop has no delay: no other event is ever served.
RegisterRound(p, known) ==
    IF known /\ tasks["Manager"] = "up" /\ tasks["ChannelResponse"] = "up"
    THEN Goto(p, "registerAsk") /\ UNCHANGED fate
    ELSE fate' = "starved" /\ UNCHANGED <<pc, op, result>>

\* The context of all rounds is built once, from the manager then known.
RegisterFirst(p) ==
    /\ At(p, "registerFirst")
    /\ RegisterRound(p, mgrKnown)
    /\ UNCHANGED <<provVars, taskVars, mgrVars, registering, timerVars, pend>>

Registered(p) ==
    /\ At(p, "registerAsk")
    /\ registering' = FALSE
    /\ Finish(p, "true")
    /\ UNCHANGED <<provVars, taskVars, mgrVars, timerVars, pend, fate>>

\* The manager answers with an error, or the write fails.
RegisterRefused(p) ==
    /\ At(p, "registerAsk")
    /\ RegisterRound(p, TRUE)
    /\ UNCHANGED <<provVars, taskVars, mgrVars, registering, timerVars, pend>>

-----------------------------------------------------------------------------
\* The environment.

Serving(t) ==
    /\ tasks[t] = "starting"
    /\ tasks' = [tasks EXCEPT ![t] = "up"]
    /\ starter' = [starter EXCEPT ![t] = NoCall]
    /\ awaiting' = awaiting \ {starter[t]}
    /\ UNCHANGED <<provVars, handlers, mgrVars, registering, timerVars, callVars, fate>>

\* A listener cannot be bound, or the connection to the manager fails.  The task
\* stays in the map.  A client that has no Error listener yet throws the event
\* out of the socket's callback, unless it was retrying and gave up.
StartFailed(t) ==
    /\ IF t = "Manager" THEN "connect" \in Faults ELSE "listen" \in Faults
    /\ tasks[t] = "starting"
    /\ tasks' = [tasks EXCEPT ![t] = "down"]
    /\ starter' = [starter EXCEPT ![t] = NoCall]
    /\ awaiting' = awaiting \ {starter[t]}
    /\ \/ starter[t] # NoCall /\ Reject(starter[t])
       \/ /\ starter[t] = NoCall \/ t = "Manager"
          /\ fate' = "crashed"
          /\ UNCHANGED <<pc, op, result>>
    /\ UNCHANGED <<provVars, handlers, mgrVars, registering, timerVars, pend>>

\* The manager's client emits Error: its once-handler runs, or nobody listens.
ManagerError ==
    /\ tasks["Manager"] = "up" /\ healing < Limit
    /\ tasks' = [tasks EXCEPT !["Manager"] = "down"]
    /\ IF mgrWatched
       THEN mgrWatched' = FALSE /\ healing' = healing + 1 /\ UNCHANGED fate
       ELSE fate' = "crashed" /\ UNCHANGED <<mgrWatched, healing>>
    /\ UNCHANGED <<provVars, starter, awaiting, handlers, mgrKnown, discovery,
                   registering, timerVars, callVars>>

\* The manager closes the connection in order: the client emits Close only, which
\* nobody handles.  The next report that fails will tell.
ManagerClosed ==
    /\ tasks["Manager"] = "up"
    /\ tasks' = [tasks EXCEPT !["Manager"] = "down"]
    /\ UNCHANGED <<provVars, starter, awaiting, handlers, mgrVars, registering, timerVars,
                   callVars, fate>>

\* The process is gone, or the run has reached the bound.
Dead == (fate # "alive" \/ ~WithinLimit) /\ UNCHANGED vars

Step(p) ==
    \/ Start(p) \/ InitResponse(p) \/ InitHook(p) \/ SysChannel(p)
    \/ Discover(p) \/ LoadDiscover(p) \/ ProbeAnswered(p) \/ ProbeFailed(p)
    \/ Connected(p) \/ Starting(p) \/ ApiOn(p)
    \/ BroadcastOn(p) \/ ReceptionOn(p) \/ ReceptionFailed(p)
    \/ Schedule(p) \/ ScheduleNew(p)
    \/ Stop(p) \/ StopHook(p) \/ (\E t \in Tasks : StopTask(p, t)) \/ StopEnd(p)
    \/ Report(p) \/ ReportSent(p) \/ ReportFailed(p)
    \/ Halt(p) \/ Activate(p)
    \/ AfterStop(p) \/ ShutSys(p) \/ ShutManager(p) \/ Release(p) \/ Reload(p)
    \/ Register(p) \/ RegisterFirst(p) \/ Registered(p) \/ RegisterRefused(p)

Next ==
    \/ /\ fate = "alive"
       /\ \/ \E c \in Calls, o \in Ops : Invoke(c, o)
          \/ \E p \in Ticks : TickFire(p)
          \/ \E p \in Heals : HealStart(p)
          \/ \E p \in Procs : Step(p)
          \/ \E t \in Tasks : Serving(t) \/ StartFailed(t)
          \/ ManagerError \/ ManagerClosed
    \/ Dead

Spec == Init /\ [][Next]_vars

\* The event loop runs every callback that is due, those of an interval timer
\* included, and a server or client that is starting comes up.  Nobody has to
\* call lifeCycle().
Fairness ==
    /\ \A c \in Calls : WF_vars(fate = "alive" /\ Step(c))
    /\ \A p \in Ticks : WF_vars(fate = "alive" /\ (TickFire(p) \/ Step(p)))
    /\ \A p \in Heals : WF_vars(fate = "alive" /\ (HealStart(p) \/ Step(p)))
    /\ WF_vars(fate = "alive" /\ Serving("Manager"))
    /\ WF_vars(fate = "alive" /\ \E t \in Channels : Serving(t))

FairSpec == Spec /\ Fairness

-----------------------------------------------------------------------------
\* Properties.

\* Every variable has its type.
TypeOK ==
    /\ state \in ExecutionState /\ initialized \in BOOLEAN /\ mode \in {"UDP", "None"}
    /\ tasks \in [Tasks -> TaskStatus]
    /\ starter \in [Tasks -> Procs \cup {NoCall}]
    /\ awaiting \subseteq Procs
    /\ handlers \in [Channels -> Nat]
    /\ mgrKnown \in BOOLEAN /\ mgrWatched \in BOOLEAN /\ discovery \in BOOLEAN
    /\ healing \in Nat
    /\ registering \in BOOLEAN
    /\ timers \in Nat /\ timerRef \in BOOLEAN
    /\ pend \in [Procs -> SUBSET Tasks]
    /\ pc \in [Procs -> Labels]
    /\ op \in [Procs -> LifeCycleOperation \cup {"none", "tick", "heal"}]
    /\ result \in [Procs -> {"none", "true", "false", "threw"}]
    /\ fate \in {"alive", "crashed", "starved"}

\* At most one start or heal is discovering the manager, and it holds the
\* booking: two would replace each other's client (_discoverServiceManager).
DiscoveryExclusive ==
    \A p, q \in Procs :
        pc[p] \in DiscoverySteps =>
            discovery /\ (pc[q] \in DiscoverySteps => p = q)

\* At most one call is registering, and it holds the booking (_register).
RegisterExclusive ==
    \A p, q \in Procs :
        pc[p] \in RegisterSteps =>
            registering /\ (pc[q] \in RegisterSteps => p = q)

\* A connected manager whose information is recorded is watched for errors,
\* unless its replacement is already on the way: nothing else would ever notice
\* that the connection is lost (_setManagerChannel, _handleTcpMgrError).
ManagerWatched ==
    tasks["Manager"] = "up" /\ mgrKnown /\ fate = "alive" =>
        mgrWatched \/ healing > 0 \/ \E p \in Procs : pc[p] \in DiscoverySteps \cup {"discover"}

\* However often the provider is stopped, restarted and started, a message on a
\* channel is handled once: no server carries the Data handler of an earlier
\* life of the provider.  Twice attached, every system instruction runs twice.
HandlersOnce == \A t \in Channels : handlers[t] <= 1

\* Every live report timer is the one _stopReportSchedule can clear.
TimersOwned == timers = IF timerRef THEN 1 ELSE 0

\* While halted the provider opens no API listener, whatever other calls are
\* under way.
HaltCloses == state = "Halt" => tasks["ChannelApi"] \notin {"starting", "up"}

\* Driven one call at a time, the provider keeps the promise of ProviderService.
Service == INSTANCE ProviderService WITH open <- tasks["ChannelApi"] \in {"starting", "up"}
ImplementsService == Service!Spec

\* Every call but register comes back to its caller, unless the process dies.
CallsReturn ==
    \A c \in Calls :
        pc[c] # "done" /\ op[c] # "register" ~> pc[c] = "done" \/ fate # "alive"

\* A manager's client that has failed or has been closed is replaced by a
\* connected one while the reporter runs, unless the process dies.
ManagerRegained ==
    tasks["Manager"] = "down" /\ timers > 0 ~>
        tasks["Manager"] = "up" \/ timers = 0 \/ fate # "alive"

\* A shutdown that has returned leaves nothing that would drive the provider by
\* itself, in whichever state it found it: no report timer, no handler of system
\* instructions, and the next start allocates the resources again.
ShutdownQuiet ==
    \A c \in Calls :
        pc[c] = "done" /\ op[c] = "shutdown" /\ result[c] = "true" =>
            timers = 0 /\ handlers["ChannelSys"] = 0 /\ ~initialized

-----------------------------------------------------------------------------
\* What the comments of the code say and the code does not do.

\* life-cycle.ts:322: _stop leaves the system instruction channel active.
SysChannelKept ==
    \A c \in Calls :
        pc[c] = "done" /\ op[c] = "stop" /\ result[c] = "true" =>
            tasks["ChannelSys"] \in {"starting", "up"}

\* life-cycle.ts:151: _register retries until registration succeeds; a retry
\* that starves the event loop never can.
RegisterRetries == fate # "starved"
=============================================================================
