------------------------ MODULE SequentialService_proofs ------------------------
(***************************************************************************)
(* Theorems of ServiceLifeCycle for a provider driven one life-cycle call  *)
(* at a time, while its report timer fires and its manager is lost and     *)
(* found as often as they may.  None of them holds when calls overlap.     *)
(***************************************************************************)
EXTENDS ServiceLifeCycle_proofs

\* The next call is made when the last one has come back.
OneCall == \A c, d \in Calls : c = d

-----------------------------------------------------------------------------
\* Which labels a call passes, by the operation it was asked for.

StartRoute == Opening \cup Finding \cup Raising
HealRoute == {"discover", "loadDiscover", "probe", "connect"}
ReportRoute == {"report", "reportAsk"}
StopRoute == {"stop", "stopHook", "stopTasks"} \cup ReportRoute

Route(o) ==
    CASE o = "none"     -> {}
      [] o = "tick"     -> ReportRoute
      [] o = "heal"     -> HealRoute
      [] o = "start"    -> {"start"} \cup StartRoute
      [] o = "stop"     -> StopRoute
      [] o = "restart"  -> StopRoute \cup {"afterStop", "release", "reload", "start"}
                             \cup StartRoute
      [] o = "shutdown" -> StopRoute \cup {"afterStop", "shutSys", "shutManager", "release"}
      [] o = "halt"     -> {"halt"} \cup ReportRoute
      [] o = "activate" -> {"activate"} \cup ReportRoute
      [] o = "report"   -> ReportRoute
      [] o = "reload"   -> {"reload"}
      [] o = "register" -> {"register"} \cup RegisterSteps

\* Everybody is on the route of the operation asked for, and only calls are
\* asked for one: a timer callback reports, a reconnection discovers.
Routed ==
    /\ \A p \in Procs : pc[p] \in Route(op[p]) \cup {"done"}
    /\ \A p \in Calls : op[p] \notin {"tick", "heal"}
    /\ \A p \in Ticks : op[p] \in {"none", "tick"}
    /\ \A p \in Heals : op[p] \in {"none", "heal"}

LEMMA RoutedStep == ASSUME TypeOK, AwaitInv, Routed, [Next]_vars PROVE Routed'
<1> USE ProcsAssumption
    DEF TypeOK, Routed, Route, StartRoute, Opening, Finding, Raising, HealRoute, ReportRoute,
        StopRoute, RegisterSteps,
        LifeCycleOperation, Procs, callVars, At, Goto, Finish, Reject
<1>1. ASSUME NEW c \in Calls, NEW o \in Ops, Invoke(c, o) PROVE Routed'
  BY <1>1, ModesAssumption DEF Invoke
<1>2. ASSUME NEW p \in Ticks, TickFire(p) PROVE Routed'
  BY <1>2 DEF TickFire
<1>3. ASSUME NEW p \in Heals, HealStart(p) PROVE Routed'
  BY <1>3 DEF HealStart
<1>4. ASSUME NEW p \in Procs, Step(p) PROVE Routed'
  <2>1. CASE Start(p)
    BY <2>1 DEF Start
  <2>2. CASE InitResponse(p) \/ InitHook(p) \/ SysChannel(p)
    BY <2>2 DEF InitResponse, InitHook, SysChannel
  <2>3. CASE Discover(p)
    BY <2>3 DEF Discover, AfterDiscover
  <2>4. CASE LoadDiscover(p)
    BY <2>4 DEF LoadDiscover, AfterDiscover
  <2>5. CASE ProbeAnswered(p) \/ ProbeFailed(p)
    BY <2>5 DEF ProbeAnswered, ProbeFailed
  <2>6. CASE Connected(p)
    BY <2>6 DEF Connected, AfterDiscover
  <2>7. CASE Starting(p) \/ ApiOn(p)
    BY <2>7 DEF Starting, ApiOn
  <2>8. CASE BroadcastOn(p) \/ ReceptionOn(p) \/ ReceptionFailed(p)
    BY <2>8 DEF BroadcastOn, ReceptionOn, ReceptionFailed
  <2>9. CASE Schedule(p) \/ ScheduleNew(p)
    BY <2>9 DEF Schedule, ScheduleNew
  <2>10. CASE Stop(p)
    BY <2>10 DEF Stop
  <2>11. CASE StopHook(p) \/ StopEnd(p) \/ \E t \in Tasks : StopTask(p, t)
    BY <2>11 DEF StopHook, StopEnd, StopTask
  <2>12. CASE Report(p)
    BY <2>12 DEF Report, AfterReport
  <2>13. CASE ReportSent(p) \/ ReportFailed(p)
    BY <2>13 DEF ReportSent, ReportFailed, AfterReport
  <2>14. CASE Halt(p) \/ Activate(p)
    BY <2>14 DEF Halt, Activate
  <2>15. CASE AfterStop(p)
    BY <2>15 DEF AfterStop
  <2>16. CASE ShutSys(p) \/ ShutManager(p)
    BY <2>16 DEF ShutSys, ShutManager
  <2>17. CASE Release(p) \/ Reload(p)
    BY <2>17 DEF Release, Reload
  <2>18. CASE Register(p) \/ RegisterFirst(p)
    BY <2>18 DEF Register, RegisterFirst, RegisterRound
  <2>19. CASE Registered(p) \/ RegisterRefused(p)
    BY <2>19 DEF Registered, RegisterRefused, RegisterRound
  <2> HIDE DEF TypeOK, Routed, Procs
  <2> QED
    BY <1>4, <2>1, <2>2, <2>3, <2>4, <2>5, <2>6, <2>7, <2>8, <2>9, <2>10, <2>11, <2>12,
       <2>13, <2>14, <2>15, <2>16, <2>17, <2>18, <2>19 DEF Step
<1>5. ASSUME NEW t \in Tasks, Serving(t) \/ StartFailed(t) PROVE Routed'
  BY <1>5 DEF Serving, StartFailed, AwaitInv
<1>6. CASE ManagerError \/ ManagerClosed \/ Dead \/ UNCHANGED vars
  BY <1>6 DEF ManagerError, ManagerClosed, Dead, vars
<1> HIDE DEF TypeOK, Routed, Procs
<1> QED
  BY <1>1, <1>2, <1>3, <1>4, <1>5, <1>6 DEF Next

-----------------------------------------------------------------------------
\* What goes on beside the calls: timer callbacks and reconnections run, servers
\* and clients come up, fail or are closed.  A call can only be thrown out.
Aside ==
    /\ UNCHANGED <<provVars, handlers, timerVars, pend>>
    /\ \A t \in Tasks \ {"Manager"} :
        \/ tasks'[t] = tasks[t]
        \/ tasks[t] = "starting" /\ tasks'[t] = "up"
        \/ tasks[t] = "starting" /\ tasks'[t] = "down" /\ "listen" \in Faults
    /\ \A c \in Calls :
        /\ op'[c] = op[c]
        /\ \/ pc'[c] = pc[c] /\ result'[c] = result[c]
           \/ pc'[c] = "done" /\ result'[c] = "threw" /\ Faults # {}

LEMMA AsideStep ==
    ASSUME TypeOK, AwaitInv, Routed, [Next]_vars
    PROVE  Aside \/ \E c \in Calls : Step(c) \/ \E o \in Ops : Invoke(c, o)
<1> USE ProcsAssumption
    DEF TypeOK, Aside, Procs, Tasks, Channels, provVars, taskVars, mgrVars, timerVars, callVars,
        At, Goto, Finish, Reject
<1>1. ASSUME NEW p \in Ticks, TickFire(p) PROVE Aside
  BY <1>1 DEF TickFire
<1>2. ASSUME NEW p \in Heals, HealStart(p) PROVE Aside
  BY <1>2 DEF HealStart
<1>3. ASSUME NEW p \in Ticks \cup Heals, Step(p) PROVE Aside
  <2>1. pc[p] \in HealRoute \cup ReportRoute \cup {"done"}
    BY DEF Routed, Route
  <2>2. CASE Discover(p)
    BY <2>2 DEF Discover, AfterDiscover
  <2>3. CASE LoadDiscover(p) \/ ProbeAnswered(p) \/ ProbeFailed(p)
    BY <2>3 DEF LoadDiscover, AfterDiscover, ProbeAnswered, ProbeFailed
  <2>4. CASE Connected(p)
    BY <2>4 DEF Connected, AfterDiscover
  <2>5. CASE Report(p) \/ ReportSent(p) \/ ReportFailed(p)
    BY <2>5 DEF Report, ReportSent, ReportFailed, AfterReport
  <2>6. Discover(p) \/ LoadDiscover(p) \/ ProbeAnswered(p) \/ ProbeFailed(p) \/ Connected(p)
        \/ Report(p) \/ ReportSent(p) \/ ReportFailed(p)
    <3>1. pc[p] \notin {"start", "initResponse", "initHook", "sysChannel", "starting", "apiOn",
                        "broadcastOn", "receptionOn", "schedule", "scheduleNew", "stop",
                        "stopHook", "stopTasks", "halt", "activate", "afterStop", "shutSys",
                        "shutManager", "release", "reload", "register", "registerFirst",
                        "registerAsk"}
      BY <2>1 DEF HealRoute, ReportRoute
    <3> QED
      BY <1>3, <3>1
      DEF Step, Start, InitResponse, InitHook, SysChannel, Starting, ApiOn, BroadcastOn,
          ReceptionOn, ReceptionFailed, Schedule, ScheduleNew, Stop, StopHook, StopTask, StopEnd,
          Halt, Activate, AfterStop, ShutSys, ShutManager, Release, Reload, Register,
          RegisterFirst, Registered, RegisterRefused
  <2> QED
    BY <2>2, <2>3, <2>4, <2>5, <2>6
<1>4. ASSUME NEW t \in Tasks, Serving(t) PROVE Aside
  BY <1>4 DEF Serving
<1>5. ASSUME NEW t \in Tasks, StartFailed(t) PROVE Aside
  BY <1>5 DEF StartFailed, AwaitInv
<1>6. CASE ManagerError \/ ManagerClosed \/ Dead \/ UNCHANGED vars
  BY <1>6 DEF ManagerError, ManagerClosed, Dead, vars
<1> HIDE DEF TypeOK, Aside
<1> QED
  BY <1>1, <1>2, <1>3, <1>4, <1>5, <1>6 DEF Next

-----------------------------------------------------------------------------
\* The report timer.  A start clears the timer there is and sets a new one in
\* its next step: in between there is none, and nobody else sets one.

TimerInv ==
    /\ TimersOwned
    /\ \A c \in Calls : pc[c] = "scheduleNew" => ~timerRef

LEMMA TimerStep ==
    ASSUME OneCall, TypeOK, AwaitInv, Routed, TimerInv, [Next]_vars
    PROVE  TimerInv'
<1> USE DEF TypeOK, TimerInv, TimersOwned,
        Procs, Tasks, Channels, provVars, taskVars, mgrVars, timerVars,
        callVars, At, Goto, Finish, Reject
<1>1. CASE Aside
  BY <1>1 DEF Aside
<1>2. ASSUME NEW c \in Calls, Step(c) PROVE TimerInv'
  <2> c \in Procs /\ \A d \in Calls : d = c
    BY DEF OneCall, Procs
  <2>1. CASE Start(c)
    BY <2>1 DEF Start, OpenServer, StartAccepts
  <2>2. CASE InitResponse(c) \/ InitHook(c) \/ SysChannel(c)
    BY <2>2 DEF InitResponse, Attached, InitHook, OpenServer, SysChannel
  <2>3. CASE Discover(c) \/ LoadDiscover(c)
    BY <2>3 DEF Discover, AfterDiscover, LoadDiscover
  <2>4. CASE ProbeAnswered(c) \/ ProbeFailed(c)
    BY <2>4 DEF ProbeAnswered, ProbeFailed
  <2>5. CASE Connected(c)
    BY <2>5 DEF Connected, AfterDiscover
  <2>6. CASE Starting(c)
    BY <2>6 DEF Starting, OpenServer
  <2>7. CASE ApiOn(c) \/ BroadcastOn(c)
    BY <2>7 DEF ApiOn, Attached, BroadcastOn
  <2>8. CASE ReceptionOn(c) \/ ReceptionFailed(c)
    BY <2>8 DEF ReceptionOn, ReceptionFailed
  <2>9. CASE Schedule(c) \/ ScheduleNew(c)
    BY <2>9 DEF Schedule, ScheduleNew
  <2>10. CASE Stop(c)
    BY <2>10 DEF Stop, OpenServer, StopAccepts
  <2>11. CASE StopHook(c)
    BY <2>11 DEF StopHook, Detached, StopServing, Stopped
  <2>12. ASSUME NEW t \in Tasks, StopTask(c, t) PROVE TimerInv'
    BY <2>12 DEF StopTask
  <2>13. CASE StopEnd(c)
    BY <2>13 DEF StopEnd
  <2>14. CASE Report(c) \/ ReportSent(c) \/ ReportFailed(c)
    BY <2>14 DEF Report, AfterReport, ReportSent, ReportFailed
  <2>15. CASE Halt(c) \/ Activate(c)
    BY <2>15 DEF Halt, StopServing, HaltAccepts, Activate, ActivateAccepts
  <2>16. CASE AfterStop(c)
    BY <2>16 DEF AfterStop, OpenServer
  <2>17. CASE ShutSys(c)
    BY <2>17 DEF ShutSys, Detached, StopServing
  <2>18. CASE ShutManager(c)
    BY <2>18 DEF ShutManager
  <2>19. CASE Release(c) \/ Reload(c)
    BY <2>19 DEF Release, Reload
  <2>20. CASE Register(c) \/ RegisterFirst(c) \/ Registered(c) \/ RegisterRefused(c)
    BY <2>20 DEF Register, RegisterFirst, RegisterRound, Registered, RegisterRefused
  <2> HIDE DEF TypeOK, TimerInv
  <2> QED
    BY <1>2, <2>1, <2>2, <2>3, <2>4, <2>5, <2>6, <2>7, <2>8, <2>9, <2>10, <2>11, <2>12,
       <2>13, <2>14, <2>15, <2>16, <2>17, <2>18, <2>19, <2>20 DEF Step
<1>3. ASSUME NEW c \in Calls, NEW o \in Ops, Invoke(c, o) PROVE TimerInv'
  <2> c \in Procs /\ \A d \in Calls : d = c
    BY DEF OneCall, Procs
  <2> QED
    BY <1>3, ModesAssumption DEF Invoke, LifeCycleOperation
<1> HIDE DEF TypeOK, TimerInv
<1> QED
  BY <1>1, <1>2, <1>3, AsideStep

-----------------------------------------------------------------------------
\* The state the provider shows agrees with where the one call is, and a stop
\* has every task of the map on its list.

StageInv ==
    \A c \in Calls :
        /\ pc[c] \in Opening => state = "Initializing"
        /\ pc[c] \in Finding => state \in {"Stopped", "Initializing"}
        /\ pc[c] \in Raising => state = "Starting"
        /\ pc[c] \in {"stopHook", "stopTasks"} => state = "Stopping"
        /\ pc[c] = "stopTasks" =>
             \A t \in Tasks \ {"Manager"} :
                 tasks[t] = "absent" \/ (tasks[t] = "down" /\ t \in pend[c])

LEMMA StageStep ==
    ASSUME OneCall, TypeOK, AwaitInv, Routed, StageInv, [Next]_vars
    PROVE  StageInv'
<1> USE DEF TypeOK, StageInv, Opening, Finding, Raising,
        Procs, Tasks, Channels, provVars, taskVars, mgrVars, timerVars,
        callVars, At, Goto, Finish, Reject
<1>1. CASE Aside
  BY <1>1 DEF Aside
<1>2. ASSUME NEW c \in Calls, Step(c) PROVE StageInv'
  <2> c \in Procs /\ \A d \in Calls : d = c
    BY DEF OneCall, Procs
  <2>1. CASE Start(c)
    BY <2>1 DEF Start, OpenServer, StartAccepts
  <2>2. CASE InitResponse(c) \/ InitHook(c) \/ SysChannel(c)
    BY <2>2 DEF InitResponse, Attached, InitHook, OpenServer, SysChannel
  <2>3. CASE Discover(c) \/ LoadDiscover(c)
    BY <2>3 DEF Discover, AfterDiscover, LoadDiscover
  <2>4. CASE ProbeAnswered(c) \/ ProbeFailed(c)
    BY <2>4 DEF ProbeAnswered, ProbeFailed
  <2>5. CASE Connected(c)
    BY <2>5 DEF Connected, AfterDiscover
  <2>6. CASE Starting(c)
    BY <2>6 DEF Starting, OpenServer
  <2>7. CASE ApiOn(c) \/ BroadcastOn(c)
    BY <2>7 DEF ApiOn, Attached, BroadcastOn
  <2>8. CASE ReceptionOn(c) \/ ReceptionFailed(c)
    BY <2>8 DEF ReceptionOn, ReceptionFailed
  <2>9. CASE Schedule(c) \/ ScheduleNew(c)
    BY <2>9 DEF Schedule, ScheduleNew
  <2>10. CASE Stop(c)
    BY <2>10 DEF Stop, OpenServer, StopAccepts
  <2>11. CASE StopHook(c)
    BY <2>11 DEF StopHook, Detached, StopServing, Stopped
  <2>12. ASSUME NEW t \in Tasks, StopTask(c, t) PROVE StageInv'
    BY <2>12 DEF StopTask
  <2>13. CASE StopEnd(c)
    BY <2>13 DEF StopEnd
  <2>14. CASE Report(c) \/ ReportSent(c) \/ ReportFailed(c)
    BY <2>14 DEF Report, AfterReport, ReportSent, ReportFailed
  <2>15. CASE Halt(c) \/ Activate(c)
    BY <2>15 DEF Halt, StopServing, HaltAccepts, Activate, ActivateAccepts
  <2>16. CASE AfterStop(c)
    BY <2>16 DEF AfterStop, OpenServer
  <2>17. CASE ShutSys(c)
    BY <2>17 DEF ShutSys, Detached, StopServing
  <2>18. CASE ShutManager(c)
    BY <2>18 DEF ShutManager
  <2>19. CASE Release(c) \/ Reload(c)
    BY <2>19 DEF Release, Reload
  <2>20. CASE Register(c) \/ RegisterFirst(c) \/ Registered(c) \/ RegisterRefused(c)
    BY <2>20 DEF Register, RegisterFirst, RegisterRound, Registered, RegisterRefused
  <2> HIDE DEF TypeOK, StageInv
  <2> QED
    BY <1>2, <2>1, <2>2, <2>3, <2>4, <2>5, <2>6, <2>7, <2>8, <2>9, <2>10, <2>11, <2>12,
       <2>13, <2>14, <2>15, <2>16, <2>17, <2>18, <2>19, <2>20 DEF Step
<1>3. ASSUME NEW c \in Calls, NEW o \in Ops, Invoke(c, o) PROVE StageInv'
  <2> c \in Procs /\ \A d \in Calls : d = c
    BY DEF OneCall, Procs
  <2> QED
    BY <1>3, ModesAssumption DEF Invoke, LifeCycleOperation
<1> HIDE DEF TypeOK, StageInv
<1> QED
  BY <1>1, <1>2, <1>3, AsideStep

-----------------------------------------------------------------------------
\* The listener of the API in each state, for a provider whose listeners can be
\* bound and whose subclass opens it.

OpenInv ==
    /\ state \in {"Stopped", "Initializing"} => tasks["ChannelApi"] = "absent"
    /\ state \in {"Starting", "Running"} => tasks["ChannelApi"] \in {"starting", "up"}
    /\ state = "Halt" => tasks["ChannelApi"] = "down"
    /\ state # "Halting"

LEMMA OpenStep ==
    ASSUME OneCall, ServesApi, "listen" \notin Faults, TypeOK, AwaitInv, Routed, StageInv,
           OpenInv, [Next]_vars
    PROVE  OpenInv'
<1> USE DEF TypeOK, OpenInv, StageInv, Opening, Finding, Raising,
        Procs, Tasks, Channels, provVars, taskVars, mgrVars, timerVars,
        callVars, At, Goto, Finish, Reject
<1>1. CASE Aside
  BY <1>1 DEF Aside
<1>2. ASSUME NEW c \in Calls, Step(c) PROVE OpenInv'
  <2> c \in Procs /\ \A d \in Calls : d = c
    BY DEF OneCall, Procs
  <2>1. CASE Start(c)
    BY <2>1 DEF Start, OpenServer, StartAccepts
  <2>2. CASE InitResponse(c) \/ InitHook(c) \/ SysChannel(c)
    BY <2>2 DEF InitResponse, Attached, InitHook, OpenServer, SysChannel
  <2>3. CASE Discover(c) \/ LoadDiscover(c)
    BY <2>3 DEF Discover, AfterDiscover, LoadDiscover
  <2>4. CASE ProbeAnswered(c) \/ ProbeFailed(c)
    BY <2>4 DEF ProbeAnswered, ProbeFailed
  <2>5. CASE Connected(c)
    BY <2>5 DEF Connected, AfterDiscover
  <2>6. CASE Starting(c)
    BY <2>6 DEF Starting, OpenServer
  <2>7. CASE ApiOn(c) \/ BroadcastOn(c)
    BY <2>7 DEF ApiOn, Attached, BroadcastOn
  <2>8. CASE ReceptionOn(c) \/ ReceptionFailed(c)
    BY <2>8 DEF ReceptionOn, ReceptionFailed
  <2>9. CASE Schedule(c) \/ ScheduleNew(c)
    BY <2>9 DEF Schedule, ScheduleNew
  <2>10. CASE Stop(c)
    BY <2>10 DEF Stop, OpenServer, StopAccepts
  <2>11. CASE StopHook(c)
    BY <2>11 DEF StopHook, Detached, StopServing, Stopped
  <2>12. ASSUME NEW t \in Tasks, StopTask(c, t) PROVE OpenInv'
    BY <2>12 DEF StopTask
  <2>13. CASE StopEnd(c)
    BY <2>13 DEF StopEnd
  <2>14. CASE Report(c) \/ ReportSent(c) \/ ReportFailed(c)
    BY <2>14 DEF Report, AfterReport, ReportSent, ReportFailed
  <2>15. CASE Halt(c) \/ Activate(c)
    BY <2>15 DEF Halt, StopServing, HaltAccepts, Activate, ActivateAccepts
  <2>16. CASE AfterStop(c)
    BY <2>16 DEF AfterStop, OpenServer
  <2>17. CASE ShutSys(c)
    BY <2>17 DEF ShutSys, Detached, StopServing
  <2>18. CASE ShutManager(c)
    BY <2>18 DEF ShutManager
  <2>19. CASE Release(c) \/ Reload(c)
    BY <2>19 DEF Release, Reload
  <2>20. CASE Register(c) \/ RegisterFirst(c) \/ Registered(c) \/ RegisterRefused(c)
    BY <2>20 DEF Register, RegisterFirst, RegisterRound, Registered, RegisterRefused
  <2> HIDE DEF TypeOK, OpenInv
  <2> QED
    BY <1>2, <2>1, <2>2, <2>3, <2>4, <2>5, <2>6, <2>7, <2>8, <2>9, <2>10, <2>11, <2>12,
       <2>13, <2>14, <2>15, <2>16, <2>17, <2>18, <2>19, <2>20 DEF Step
<1>3. ASSUME NEW c \in Calls, NEW o \in Ops, Invoke(c, o) PROVE OpenInv'
  <2> c \in Procs /\ \A d \in Calls : d = c
    BY DEF OneCall, Procs
  <2> QED
    BY <1>3, ModesAssumption DEF Invoke, LifeCycleOperation
<1> HIDE DEF TypeOK, OpenInv
<1> QED
  BY <1>1, <1>2, <1>3, AsideStep

-----------------------------------------------------------------------------
\* The Data handlers.  Before a start attaches the handler of a channel, the
\* server is new or has lost the handler of its earlier life.

Clear(t) == tasks[t] = "absent" \/ handlers[t] = 0

HandlerInv ==
    /\ HandlersOnce
    /\ \A c \in Calls :
        /\ pc[c] \in {"initResponse", "initHook"} => Clear("ChannelSys")
        /\ pc[c] = "initResponse" => handlers["ChannelResponse"] = 0
        /\ pc[c] = "sysChannel" => handlers["ChannelSys"] = 0
        /\ pc[c] = "apiOn" => handlers["ChannelApi"] = 0
        /\ pc[c] \in Opening \cup Finding => tasks["ChannelApi"] = "absent"
        /\ state \in {"Stopped", "Initializing"} /\ pc[c] \notin Opening \cup Finding =>
             /\ state = "Stopped"
             /\ tasks["ChannelApi"] = "absent" /\ tasks["ChannelResponse"] = "absent"
             /\ Clear("ChannelSys")

LEMMA HandlerStep ==
    ASSUME OneCall, Faults = {}, TypeOK, AwaitInv, Routed, StageInv, HandlerInv, [Next]_vars
    PROVE  HandlerInv'
<1> USE DEF TypeOK, HandlerInv, HandlersOnce, Clear, StageInv, Opening, Finding, Raising,
        Procs, Tasks, Channels, provVars, taskVars, mgrVars, timerVars,
        callVars, At, Goto, Finish, Reject
<1>1. CASE Aside
  BY <1>1 DEF Aside
<1>2. ASSUME NEW c \in Calls, Step(c) PROVE HandlerInv'
  <2> c \in Procs /\ \A d \in Calls : d = c
    BY DEF OneCall, Procs
  <2> op[c] # "heal"
    BY DEF Routed
  <2>1. CASE Start(c)
    BY <2>1 DEF Start, OpenServer, StartAccepts
  <2>2. CASE InitResponse(c) \/ InitHook(c) \/ SysChannel(c)
    BY <2>2 DEF InitResponse, Attached, InitHook, OpenServer, SysChannel
  <2>3. CASE Discover(c) \/ LoadDiscover(c)
    BY <2>3 DEF Discover, AfterDiscover, LoadDiscover
  <2>4. CASE ProbeAnswered(c) \/ ProbeFailed(c)
    BY <2>4 DEF ProbeAnswered, ProbeFailed
  <2>5. CASE Connected(c)
    BY <2>5 DEF Connected, AfterDiscover
  <2>6. CASE Starting(c)
    BY <2>6 DEF Starting, OpenServer
  <2>7. CASE ApiOn(c) \/ BroadcastOn(c)
    BY <2>7 DEF ApiOn, Attached, BroadcastOn
  <2>8. CASE ReceptionOn(c) \/ ReceptionFailed(c)
    BY <2>8 DEF ReceptionOn, ReceptionFailed
  <2>9. CASE Schedule(c) \/ ScheduleNew(c)
    BY <2>9 DEF Schedule, ScheduleNew
  <2>10. CASE Stop(c)
    BY <2>10 DEF Stop, OpenServer, StopAccepts
  <2>11. CASE StopHook(c)
    BY <2>11 DEF StopHook, Detached, StopServing, Stopped
  <2>12. ASSUME NEW t \in Tasks, StopTask(c, t) PROVE HandlerInv'
    BY <2>12 DEF StopTask
  <2>13. CASE StopEnd(c)
    BY <2>13 DEF StopEnd
  <2>14. CASE Report(c) \/ ReportSent(c) \/ ReportFailed(c)
    BY <2>14 DEF Report, AfterReport, ReportSent, ReportFailed
  <2>15. CASE Halt(c) \/ Activate(c)
    BY <2>15 DEF Halt, StopServing, HaltAccepts, Activate, ActivateAccepts
  <2>16. CASE AfterStop(c)
    BY <2>16 DEF AfterStop, OpenServer
  <2>17. CASE ShutSys(c)
    BY <2>17 DEF ShutSys, Detached, StopServing
  <2>18. CASE ShutManager(c)
    BY <2>18 DEF ShutManager
  <2>19. CASE Release(c) \/ Reload(c)
    BY <2>19 DEF Release, Reload
  <2>20. CASE Register(c) \/ RegisterFirst(c) \/ Registered(c) \/ RegisterRefused(c)
    BY <2>20 DEF Register, RegisterFirst, RegisterRound, Registered, RegisterRefused
  <2> HIDE DEF TypeOK, HandlerInv
  <2> QED
    BY <1>2, <2>1, <2>2, <2>3, <2>4, <2>5, <2>6, <2>7, <2>8, <2>9, <2>10, <2>11, <2>12,
       <2>13, <2>14, <2>15, <2>16, <2>17, <2>18, <2>19, <2>20 DEF Step
<1>3. ASSUME NEW c \in Calls, NEW o \in Ops, Invoke(c, o) PROVE HandlerInv'
  <2> c \in Procs /\ \A d \in Calls : d = c
    BY DEF OneCall, Procs
  <2> QED
    BY <1>3, ModesAssumption DEF Invoke, LifeCycleOperation
<1> HIDE DEF TypeOK, HandlerInv
<1> QED
  BY <1>1, <1>2, <1>3, AsideStep

-----------------------------------------------------------------------------
\* What a shutdown has taken away by the time it releases the resources.

QuietInv ==
    \A c \in Calls :
        op[c] = "shutdown" =>
            /\ pc[c] \in {"shutManager", "release"} =>
                 timers = 0 /\ handlers["ChannelSys"] = 0
            /\ pc[c] = "done" /\ result[c] = "true" =>
                 timers = 0 /\ handlers["ChannelSys"] = 0 /\ ~initialized

LEMMA QuietStep ==
    ASSUME OneCall, TypeOK, AwaitInv, Routed, TimerInv, HandlersOnce, QuietInv, [Next]_vars
    PROVE  QuietInv'
<1> USE DEF TypeOK, QuietInv, TimerInv, TimersOwned, HandlersOnce, Routed, Route, StartRoute,
        Opening, Finding, Raising,
        ReportRoute, StopRoute, RegisterSteps,
        Procs, Tasks, Channels, provVars, taskVars, mgrVars, timerVars,
        callVars, At, Goto, Finish, Reject
<1>1. CASE Aside
  BY <1>1 DEF Aside
<1>2. ASSUME NEW c \in Calls, Step(c) PROVE QuietInv'
  <2> c \in Procs /\ \A d \in Calls : d = c
    BY DEF OneCall, Procs
  <2>1. CASE Start(c)
    BY <2>1 DEF Start, OpenServer, StartAccepts
  <2>2. CASE InitResponse(c) \/ InitHook(c) \/ SysChannel(c)
    BY <2>2 DEF InitResponse, Attached, InitHook, OpenServer, SysChannel
  <2>3. CASE Discover(c) \/ LoadDiscover(c)
    BY <2>3 DEF Discover, AfterDiscover, LoadDiscover
  <2>4. CASE ProbeAnswered(c) \/ ProbeFailed(c)
    BY <2>4 DEF ProbeAnswered, ProbeFailed
  <2>5. CASE Connected(c)
    BY <2>5 DEF Connected, AfterDiscover
  <2>6. CASE Starting(c)
    BY <2>6 DEF Starting, OpenServer
  <2>7. CASE ApiOn(c) \/ BroadcastOn(c)
    BY <2>7 DEF ApiOn, Attached, BroadcastOn
  <2>8. CASE ReceptionOn(c) \/ ReceptionFailed(c)
    BY <2>8 DEF ReceptionOn, ReceptionFailed
  <2>9. CASE Schedule(c) \/ ScheduleNew(c)
    BY <2>9 DEF Schedule, ScheduleNew
  <2>10. CASE Stop(c)
    BY <2>10 DEF Stop, OpenServer, StopAccepts
  <2>11. CASE StopHook(c)
    BY <2>11 DEF StopHook, Detached, StopServing, Stopped
  <2>12. ASSUME NEW t \in Tasks, StopTask(c, t) PROVE QuietInv'
    BY <2>12 DEF StopTask
  <2>13. CASE StopEnd(c)
    BY <2>13 DEF StopEnd
  <2>14. CASE Report(c) \/ ReportSent(c) \/ ReportFailed(c)
    BY <2>14 DEF Report, AfterReport, ReportSent, ReportFailed
  <2>15. CASE Halt(c) \/ Activate(c)
    BY <2>15 DEF Halt, StopServing, HaltAccepts, Activate, ActivateAccepts
  <2>16. CASE AfterStop(c)
    BY <2>16 DEF AfterStop, OpenServer
  <2>17. CASE ShutSys(c)
    BY <2>17 DEF ShutSys, Detached, StopServing
  <2>18. CASE ShutManager(c)
    BY <2>18 DEF ShutManager
  <2>19. CASE Release(c) \/ Reload(c)
    BY <2>19 DEF Release, Reload
  <2>20. CASE Register(c) \/ RegisterFirst(c) \/ Registered(c) \/ RegisterRefused(c)
    BY <2>20 DEF Register, RegisterFirst, RegisterRound, Registered, RegisterRefused
  <2> HIDE DEF TypeOK, QuietInv
  <2> QED
    BY <1>2, <2>1, <2>2, <2>3, <2>4, <2>5, <2>6, <2>7, <2>8, <2>9, <2>10, <2>11, <2>12,
       <2>13, <2>14, <2>15, <2>16, <2>17, <2>18, <2>19, <2>20 DEF Step
<1>3. ASSUME NEW c \in Calls, NEW o \in Ops, Invoke(c, o) PROVE QuietInv'
  <2> c \in Procs /\ \A d \in Calls : d = c
    BY DEF OneCall, Procs
  <2> QED
    BY <1>3, ModesAssumption DEF Invoke, LifeCycleOperation
<1> HIDE DEF TypeOK, QuietInv
<1> QED
  BY <1>1, <1>2, <1>3, AsideStep

-----------------------------------------------------------------------------
\* Theorems.

\* Everybody stays on the route of the operation asked for.
LEMMA RoutedCorrect == Spec => []Routed
<1>1. Init => Routed
  BY DEF Init, Routed, Procs
<1>2. TypeOK /\ AwaitInv /\ Routed /\ [Next]_vars => Routed'
  BY RoutedStep
<1> QED
  BY <1>1, <1>2, TypeCorrect, AwaitCorrect, PTL DEF Spec

LEMMA TimerCorrect == ASSUME OneCall PROVE Spec => []TimerInv
<1>1. Init => TimerInv
  BY DEF Init, TimerInv, TimersOwned, Procs
<1>2. TypeOK /\ AwaitInv /\ Routed /\ TimerInv /\ [Next]_vars => TimerInv'
  BY TimerStep
<1> QED
  BY <1>1, <1>2, TypeCorrect, AwaitCorrect, RoutedCorrect, PTL DEF Spec

\* The report timer that is live is the one the provider can clear, whatever
\* fails: two starts at once would each set one.
THEOREM TimersAreOwned == ASSUME OneCall PROVE Spec => []TimersOwned
<1>1. TimerInv => TimersOwned
  BY DEF TimerInv
<1> QED
  BY <1>1, TimerCorrect, PTL

LEMMA StageCorrect == ASSUME OneCall PROVE Spec => []StageInv
<1>1. Init => StageInv
  BY DEF Init, StageInv, Procs, Opening, Finding, Raising
<1>2. TypeOK /\ AwaitInv /\ Routed /\ StageInv /\ [Next]_vars => StageInv'
  BY StageStep
<1> QED
  BY <1>1, <1>2, TypeCorrect, AwaitCorrect, RoutedCorrect, PTL DEF Spec

LEMMA HandlerCorrect == ASSUME OneCall, Faults = {} PROVE Spec => []HandlerInv
<1>1. Init => HandlerInv
  BY DEF Init, HandlerInv, HandlersOnce, Clear, Procs, Opening, Finding, Tasks, Channels
<1>2. TypeOK /\ AwaitInv /\ Routed /\ StageInv /\ HandlerInv /\ [Next]_vars => HandlerInv'
  BY HandlerStep
<1> QED
  BY <1>1, <1>2, TypeCorrect, AwaitCorrect, RoutedCorrect, StageCorrect, PTL DEF Spec

\* A message on a channel is handled once, however often the provider has been
\* stopped, restarted and started, as long as no start has failed: one that has
\* leaves the handlers of the channels it opened, and the next adds its own.
THEOREM HandlersAreOnce == ASSUME OneCall, Faults = {} PROVE Spec => []HandlersOnce
<1>1. HandlerInv => HandlersOnce
  BY DEF HandlerInv
<1> QED
  BY <1>1, HandlerCorrect, PTL

\* A shutdown that has returned leaves no timer, no handler of system
\* instructions and no resources, in whichever state it found the provider.
THEOREM ShutdownIsQuiet == ASSUME OneCall, Faults = {} PROVE Spec => []ShutdownQuiet
<1>1. Init => QuietInv
  BY DEF Init, QuietInv, Procs
<1>2. TypeOK /\ AwaitInv /\ Routed /\ TimerInv /\ HandlersOnce /\ QuietInv /\ [Next]_vars
        => QuietInv'
  BY QuietStep
<1>3. QuietInv => ShutdownQuiet
  BY DEF QuietInv, ShutdownQuiet
<1> QED
  BY <1>1, <1>2, <1>3, TypeCorrect, AwaitCorrect, RoutedCorrect, TimerCorrect,
     HandlersAreOnce, PTL DEF Spec

LEMMA OpenCorrect ==
    ASSUME OneCall, ServesApi, "listen" \notin Faults PROVE Spec => []OpenInv
<1>1. Init => OpenInv
  BY DEF Init, OpenInv, Tasks, Channels
<1>2. TypeOK /\ AwaitInv /\ Routed /\ StageInv /\ OpenInv /\ [Next]_vars => OpenInv'
  BY OpenStep
<1> QED
  BY <1>1, <1>2, TypeCorrect, AwaitCorrect, RoutedCorrect, StageCorrect, PTL DEF Spec

\* Each step of the provider is a step of ProviderService or none of its own.
LEMMA ServiceStep ==
    ASSUME OneCall, ServesApi, "listen" \notin Faults,
           TypeOK, AwaitInv, Routed, StageInv, OpenInv, [Next]_vars
    PROVE  [Service!Next]_(Service!vars)
<1> USE DEF TypeOK, OpenInv, StageInv, Finding, Raising, Procs, Tasks, Channels, provVars,
        taskVars, Goto, Finish, Reject, At, Service!Next, Service!vars
<1>1. CASE Aside
  BY <1>1 DEF Aside
<1>2. ASSUME NEW c \in Calls, Step(c) PROVE [Service!Next]_(Service!vars)
  <2> c \in Procs /\ \A d \in Calls : d = c
    BY DEF OneCall, Procs
  <2>1. CASE Start(c)
    BY <2>1 DEF Start, OpenServer, StartAccepts, Service!Initialize
  <2>2. CASE InitResponse(c) \/ InitHook(c) \/ SysChannel(c)
    BY <2>2 DEF InitResponse, InitHook, OpenServer, SysChannel
  <2>3. CASE Discover(c) \/ LoadDiscover(c)
    BY <2>3 DEF Discover, LoadDiscover
  <2>4. CASE ProbeAnswered(c) \/ ProbeFailed(c) \/ Connected(c)
    BY <2>4 DEF ProbeAnswered, ProbeFailed, Connected
  <2>5. CASE Starting(c)
    BY <2>5 DEF Starting, OpenServer, Service!BeginStart
  <2>6. CASE ApiOn(c) \/ BroadcastOn(c) \/ ReceptionOn(c) \/ ReceptionFailed(c)
    BY <2>6 DEF ApiOn, BroadcastOn, ReceptionOn, ReceptionFailed
  <2>7. CASE Schedule(c)
    BY <2>7 DEF Schedule
  <2>8. CASE ScheduleNew(c)
    BY <2>8 DEF ScheduleNew, Service!EndStart
  <2>9. CASE Stop(c)
    BY <2>9 DEF Stop, OpenServer, StopAccepts, Service!BeginStop
  <2>10. CASE StopHook(c)
    BY <2>10 DEF StopHook, StopServing, Stopped, Service!CloseApi
  <2>11. ASSUME NEW t \in Tasks, StopTask(c, t) PROVE [Service!Next]_(Service!vars)
    BY <2>11 DEF StopTask
  <2>12. CASE StopEnd(c)
    BY <2>12 DEF StopEnd, Service!EndStop
  <2>13. CASE Report(c) \/ ReportSent(c) \/ ReportFailed(c)
    BY <2>13 DEF Report, ReportSent, ReportFailed
  <2>14. CASE Halt(c)
    BY <2>14 DEF Halt, StopServing, HaltAccepts, Service!Halt
  <2>15. CASE Activate(c)
    BY <2>15 DEF Activate, ActivateAccepts, Service!Activate
  <2>16. CASE AfterStop(c)
    BY <2>16 DEF AfterStop, OpenServer
  <2>17. CASE ShutSys(c) \/ ShutManager(c)
    BY <2>17 DEF ShutSys, StopServing, ShutManager
  <2>18. CASE Release(c) \/ Reload(c)
    BY <2>18 DEF Release, Reload
  <2>19. CASE Register(c) \/ RegisterFirst(c) \/ Registered(c) \/ RegisterRefused(c)
    BY <2>19 DEF Register, RegisterFirst, Registered, RegisterRefused
  <2> HIDE DEF TypeOK, OpenInv, StageInv, Service!Next, Service!vars
  <2> QED
    BY <1>2, <2>1, <2>2, <2>3, <2>4, <2>5, <2>6, <2>7, <2>8, <2>9, <2>10, <2>11, <2>12,
       <2>13, <2>14, <2>15, <2>16, <2>17, <2>18, <2>19 DEF Step
<1>3. ASSUME NEW c \in Calls, NEW o \in Ops, Invoke(c, o) PROVE [Service!Next]_(Service!vars)
  BY <1>3 DEF Invoke
<1> HIDE DEF TypeOK, OpenInv, StageInv, Service!Next, Service!vars
<1> QED
  BY <1>1, <1>2, <1>3, AsideStep

\* Driven one call at a time, a provider whose listeners can be bound keeps the
\* promise of ProviderService: it opens its API before it shows Running, closes
\* it before it shows Halt or Stopped, and goes through its states in order.
THEOREM ServiceIsImplemented ==
    ASSUME OneCall, ServesApi, "listen" \notin Faults PROVE Spec => ImplementsService
<1>1. Init => Service!Init
  BY DEF Init, Service!Init, Tasks, Channels
<1>2. TypeOK /\ AwaitInv /\ Routed /\ StageInv /\ OpenInv /\ [Next]_vars
        => [Service!Next]_(Service!vars)
  BY ServiceStep
<1> QED
  BY <1>1, <1>2, TypeCorrect, AwaitCorrect, RoutedCorrect, StageCorrect, OpenCorrect, PTL
  DEF Spec, ImplementsService, Service!Spec
=============================================================================
