-------------------------- MODULE ServiceManager_proofs --------------------------
(***************************************************************************)
(* Theorems of ServiceManager: it is a provider that lives the life cycle  *)
(* of ServiceLifeCycle, whose theorems therefore are theorems of it; and   *)
(* what it announces follows what it shows.                                *)
(***************************************************************************)
EXTENDS ServiceManager, ServiceLifeCycle_proofs

LEMMA ManagerStepIsStep ==
    ASSUME NEW p \in Procs, ManagerStep(p)
    PROVE  Step(p)
<1>1. CASE BeginStart(p) \/ TellListener(p) \/ Announce(p) \/ GiveUp(p) \/ Silence(p)
  BY <1>1 DEF BeginStart, TellListener, Announce, GiveUp, Silence, Step
<1>2. ASSUME NEW t \in Tasks, Drop(p, t) PROVE Step(p)
  BY <1>2 DEF Drop, Step
<1>3. CASE Otherwise(p)
  BY <1>3 DEF Otherwise, Step
<1> QED
  BY <1>1, <1>2, <1>3 DEF ManagerStep

\* Every behaviour of a service manager is a behaviour of a provider: what it
\* adds to start and stop changes nothing of the life cycle.
THEOREM ManagerIsProvider == ManagerSpec => Spec
<1>1. ManagerInit => Init
  BY DEF ManagerInit
<1>2. [ManagerNext]_allVars => [Next]_vars
  <2>1. CASE ManagerNext
    BY <2>1, ManagerStepIsStep DEF ManagerNext, Next
  <2>2. CASE UNCHANGED allVars
    BY <2>2 DEF allVars
  <2> QED
    BY <2>1, <2>2
<1> QED
  BY <1>1, <1>2, PTL DEF ManagerSpec, Spec

\* A halted manager has no API listener.
THEOREM ManagerHaltIsClosed == ManagerSpec => []HaltCloses
  BY ManagerIsProvider, HaltIsClosed

-----------------------------------------------------------------------------
\* The listener of the tasks map and what it announces, whatever overlaps.

ListenInv ==
    /\ ManagerTypeOK
    /\ tasks["Reception"] # "starting"
    /\ \A p \in Procs : pc[p] = "receptionOn" => told[p] # "none"

LEMMA ListenStep ==
    ASSUME TypeOK, ListenInv, [ManagerNext]_allVars
    PROVE  ListenInv'
<1> USE DEF TypeOK, ListenInv, ManagerTypeOK, Port,
        Procs, Tasks, Channels, provVars, taskVars, callVars, mgrSvcVars, At, Goto, Finish, Reject
<1>1. ASSUME NEW p \in Procs, BeginStart(p) PROVE ListenInv'
  BY <1>1 DEF BeginStart, Start, OpenServer, StartAccepts
<1>2. ASSUME NEW p \in Procs, TellListener(p) PROVE ListenInv'
  BY <1>2 DEF TellListener, BroadcastOn
<1>3. ASSUME NEW p \in Procs, Announce(p) PROVE ListenInv'
  BY <1>3 DEF Announce, ReceptionOn
<1>4. ASSUME NEW p \in Procs, GiveUp(p) PROVE ListenInv'
  BY <1>4 DEF GiveUp, ReceptionFailed
<1>5. ASSUME NEW p \in Procs, Silence(p) PROVE ListenInv'
  BY <1>5 DEF Silence, StopHook, StopServing, Stopped
<1>6. ASSUME NEW p \in Procs, NEW t \in Tasks, Drop(p, t) PROVE ListenInv'
  BY <1>6 DEF Drop, Aged, StopTask
<1>7. ASSUME NEW p \in Procs, Otherwise(p) PROVE ListenInv'
  <2>0. UNCHANGED mgrSvcVars
    BY <1>7 DEF Otherwise
  <2>1. CASE InitResponse(p) \/ InitHook(p) \/ SysChannel(p)
    BY <2>0, <2>1 DEF InitResponse, Attached, InitHook, OpenServer, SysChannel
  <2>2. CASE Discover(p) \/ LoadDiscover(p)
    BY <2>0, <2>2 DEF Discover, AfterDiscover, LoadDiscover
  <2>3. CASE Starting(p)
    BY <2>0, <2>3 DEF Starting, OpenServer
  <2>4. CASE ApiOn(p)
    BY <2>0, <2>4 DEF ApiOn, Attached
  <2>5. CASE Schedule(p) \/ ScheduleNew(p)
    BY <2>0, <2>5 DEF Schedule, ScheduleNew
  <2>6. CASE Stop(p)
    BY <2>0, <2>6 DEF Stop, OpenServer, StopAccepts
  <2>7. CASE StopEnd(p)
    BY <2>0, <2>7 DEF StopEnd
  <2>8. CASE Report(p)
    BY <2>0, <2>8 DEF Report, AfterReport
  <2>9. CASE Halt(p)
    BY <2>0, <2>9 DEF Halt, StopServing, HaltAccepts
  <2>10. CASE Activate(p)
    BY <2>0, <2>10 DEF Activate, ActivateAccepts
  <2>11. CASE AfterStop(p)
    BY <2>0, <2>11 DEF AfterStop, OpenServer
  <2>12. CASE ShutSys(p)
    BY <2>0, <2>12 DEF ShutSys, Detached, StopServing
  <2>13. CASE Release(p) \/ Reload(p)
    BY <2>0, <2>13 DEF Release, Reload
  <2> HIDE DEF TypeOK, ListenInv
  <2> QED
    BY <1>7, <2>1, <2>2, <2>3, <2>4, <2>5, <2>6, <2>7, <2>8, <2>9, <2>10, <2>11, <2>12,
       <2>13 DEF Otherwise
<1>8. ASSUME NEW c \in Calls, NEW o \in Ops, Invoke(c, o), UNCHANGED mgrSvcVars
      PROVE  ListenInv'
  BY <1>8, ModesAssumption DEF Invoke, LifeCycleOperation
<1>9. ASSUME NEW t \in Tasks, Serving(t), UNCHANGED mgrSvcVars PROVE ListenInv'
  BY <1>9 DEF Serving
<1>10. ASSUME NEW t \in Tasks, StartFailed(t), UNCHANGED mgrSvcVars PROVE ListenInv'
  BY <1>10 DEF StartFailed
<1>11. CASE UNCHANGED allVars
  BY <1>11 DEF allVars, vars
<1> HIDE DEF TypeOK, ListenInv
<1> QED
  BY <1>1, <1>2, <1>3, <1>4, <1>5, <1>6, <1>7, <1>8, <1>9, <1>10, <1>11
  DEF ManagerNext, ManagerStep, Dead, allVars

-----------------------------------------------------------------------------
\* While no two starts have been under way at once, one start or one stop at
\* most is, and the state shows how far it is.

StopSteps == {"stopHook", "stopTasks"}

SoloInv ==
    ~overlapped =>
        /\ \A p, q \in Procs : pc[p] \in StartSteps /\ pc[q] \in StartSteps => p = q
        /\ \A p, q \in Procs : pc[p] \in StopSteps /\ pc[q] \in StopSteps => p = q
        /\ \A p \in Procs :
            /\ pc[p] \in Opening => state = "Initializing"
            /\ pc[p] \in Finding => state \in {"Stopped", "Initializing"}
            /\ pc[p] \in Raising => state = "Starting"
            /\ pc[p] \in StopSteps => state = "Stopping"

\* The API server: what a start or a stop under way has done to it, and who
\* awaits it.
ServerInv ==
    ~overlapped =>
        /\ state \in {"Stopped", "Initializing"} => tasks["ChannelApi"] = "absent"
        /\ state \in {"Running", "Halt"} => tasks["ChannelApi"] # "absent"
        /\ state = "Running" /\ fate = "alive" => tasks["ChannelApi"] \in {"starting", "up"}
        /\ starter["ChannelApi"] # NoCall => pc[starter["ChannelApi"]] = "apiOn"
        /\ \A p \in Procs :
            /\ pc[p] \in Raising =>
                \/ p \in awaiting /\ starter["ChannelApi"] = p
                                  /\ tasks["ChannelApi"] = "starting"
                \/ p \notin awaiting /\ tasks["ChannelApi"] = "up"
            /\ pc[p] = "stopTasks" =>
                \/ tasks["ChannelApi"] = "absent"
                \/ tasks["ChannelApi"] = "down" /\ "ChannelApi" \in pend[p]

Silent == announced = "none" /\ stray = "none"
Heard == announced = "current" /\ stray = "none"

LEMMA SoloStep ==
    ASSUME TypeOK, SoloInv, ServerInv, [ManagerNext]_allVars
    PROVE  SoloInv'
<1> USE DEF TypeOK, SoloInv, StartSteps, DiscoverySteps, StopSteps, Opening, Finding,
        Raising, ServerInv,
        Procs, Tasks, Channels, provVars, taskVars, callVars, mgrSvcVars, At, Goto, Finish, Reject
<1>1. ASSUME NEW p \in Procs, BeginStart(p) PROVE SoloInv'
  BY <1>1 DEF BeginStart, Start, OpenServer, StartAccepts
<1>2. ASSUME NEW p \in Procs, TellListener(p) PROVE SoloInv'
  BY <1>2 DEF TellListener, BroadcastOn
<1>3. ASSUME NEW p \in Procs, Announce(p) PROVE SoloInv'
  BY <1>3 DEF Announce, ReceptionOn
<1>4. ASSUME NEW p \in Procs, GiveUp(p) PROVE SoloInv'
  BY <1>4 DEF GiveUp, ReceptionFailed
<1>5. ASSUME NEW p \in Procs, Silence(p) PROVE SoloInv'
  BY <1>5 DEF Silence, StopHook, StopServing, Stopped
<1>6. ASSUME NEW p \in Procs, NEW t \in Tasks, Drop(p, t) PROVE SoloInv'
  BY <1>6 DEF Drop, Aged, StopTask
<1>7. ASSUME NEW p \in Procs, Otherwise(p) PROVE SoloInv'
  <2>0. UNCHANGED mgrSvcVars
    BY <1>7 DEF Otherwise
  <2>1. CASE InitResponse(p) \/ InitHook(p) \/ SysChannel(p)
    BY <2>0, <2>1 DEF InitResponse, Attached, InitHook, OpenServer, SysChannel
  <2>2. CASE Discover(p) \/ LoadDiscover(p)
    BY <2>0, <2>2 DEF Discover, AfterDiscover, LoadDiscover
  <2>3. CASE Starting(p)
    BY <2>0, <2>3 DEF Starting, OpenServer
  <2>4. CASE ApiOn(p)
    BY <2>0, <2>4 DEF ApiOn, Attached
  <2>5. CASE Schedule(p) \/ ScheduleNew(p)
    BY <2>0, <2>5 DEF Schedule, ScheduleNew
  <2>6. CASE Stop(p)
    BY <2>0, <2>6 DEF Stop, OpenServer, StopAccepts
  <2>7. CASE StopEnd(p)
    BY <2>0, <2>7 DEF StopEnd
  <2>8. CASE Report(p)
    BY <2>0, <2>8 DEF Report, AfterReport
  <2>9. CASE Halt(p)
    BY <2>0, <2>9 DEF Halt, StopServing, HaltAccepts
  <2>10. CASE Activate(p)
    BY <2>0, <2>10 DEF Activate, ActivateAccepts
  <2>11. CASE AfterStop(p)
    BY <2>0, <2>11 DEF AfterStop, OpenServer
  <2>12. CASE ShutSys(p)
    BY <2>0, <2>12 DEF ShutSys, Detached, StopServing
  <2>13. CASE Release(p) \/ Reload(p)
    BY <2>0, <2>13 DEF Release, Reload
  <2> HIDE DEF TypeOK, SoloInv
  <2> QED
    BY <1>7, <2>1, <2>2, <2>3, <2>4, <2>5, <2>6, <2>7, <2>8, <2>9, <2>10, <2>11, <2>12,
       <2>13 DEF Otherwise
<1>8. ASSUME NEW c \in Calls, NEW o \in Ops, Invoke(c, o), UNCHANGED mgrSvcVars
      PROVE  SoloInv'
  BY <1>8, ModesAssumption DEF Invoke, LifeCycleOperation
<1>9. ASSUME NEW t \in Tasks, Serving(t), UNCHANGED mgrSvcVars PROVE SoloInv'
  BY <1>9 DEF Serving
<1>10. ASSUME NEW t \in Tasks, StartFailed(t), UNCHANGED mgrSvcVars PROVE SoloInv'
  BY <1>10 DEF StartFailed
<1>11. CASE UNCHANGED allVars
  BY <1>11 DEF allVars, vars
<1> HIDE DEF TypeOK, SoloInv
<1> QED
  BY <1>1, <1>2, <1>3, <1>4, <1>5, <1>6, <1>7, <1>8, <1>9, <1>10, <1>11
  DEF ManagerNext, ManagerStep, Dead, allVars

LEMMA ServerStep ==
    ASSUME Kind = "manager", TypeOK, AwaitInv, SoloInv, ServerInv, [ManagerNext]_allVars
    PROVE  ServerInv'
<1> USE DEF TypeOK, SoloInv, StartSteps, DiscoverySteps, StopSteps, Opening, Finding,
        Raising,
        ServerInv, AwaitInv, Suspensions, TaskStatus,
        Procs, Tasks, Channels, provVars, taskVars, callVars, mgrSvcVars, At, Goto, Finish, Reject
<1>1. ASSUME NEW p \in Procs, BeginStart(p) PROVE ServerInv'
  BY <1>1 DEF BeginStart, Start, OpenServer, StartAccepts
<1>2. ASSUME NEW p \in Procs, TellListener(p) PROVE ServerInv'
  BY <1>2 DEF TellListener, BroadcastOn
<1>3. ASSUME NEW p \in Procs, Announce(p) PROVE ServerInv'
  BY <1>3 DEF Announce, ReceptionOn
<1>4. ASSUME NEW p \in Procs, GiveUp(p) PROVE ServerInv'
  BY <1>4 DEF GiveUp, ReceptionFailed
<1>5. ASSUME NEW p \in Procs, Silence(p) PROVE ServerInv'
  BY <1>5 DEF Silence, StopHook, StopServing, Stopped
<1>6. ASSUME NEW p \in Procs, NEW t \in Tasks, Drop(p, t) PROVE ServerInv'
  BY <1>6 DEF Drop, Aged, StopTask
<1>7. ASSUME NEW p \in Procs, Otherwise(p) PROVE ServerInv'
  <2>0. UNCHANGED mgrSvcVars
    BY <1>7 DEF Otherwise
  <2>1. CASE InitResponse(p) \/ InitHook(p) \/ SysChannel(p)
    BY <2>0, <2>1 DEF InitResponse, Attached, InitHook, OpenServer, SysChannel
  <2>2. CASE Discover(p) \/ LoadDiscover(p)
    BY <2>0, <2>2 DEF Discover, AfterDiscover, LoadDiscover
  <2>3. CASE Starting(p)
    BY <2>0, <2>3 DEF Starting, OpenServer, ServesApi
  <2>4. CASE ApiOn(p)
    BY <2>0, <2>4 DEF ApiOn, Attached
  <2>5. CASE Schedule(p) \/ ScheduleNew(p)
    BY <2>0, <2>5 DEF Schedule, ScheduleNew
  <2>6. CASE Stop(p)
    BY <2>0, <2>6 DEF Stop, OpenServer, StopAccepts, ServesApi
  <2>7. CASE StopEnd(p)
    BY <2>0, <2>7 DEF StopEnd
  <2>8. CASE Report(p)
    BY <2>0, <2>8 DEF Report, AfterReport
  <2>9. CASE Halt(p)
    BY <2>0, <2>9 DEF Halt, StopServing, HaltAccepts
  <2>10. CASE Activate(p)
    BY <2>0, <2>10 DEF Activate, ActivateAccepts
  <2>11. CASE AfterStop(p)
    BY <2>0, <2>11 DEF AfterStop, OpenServer
  <2>12. CASE ShutSys(p)
    <3>1. /\ tasks'["ChannelApi"] = tasks["ChannelApi"]
          /\ starter'["ChannelApi"] = starter["ChannelApi"]
      BY <2>12 DEF ShutSys, StopServing
    <3>2. starter["ChannelApi"] \in awaiting => starter["ChannelApi"] \in awaiting'
      BY <2>12, ProcsAssumption DEF ShutSys, StopServing
    <3>3. awaiting' \subseteq awaiting
      BY <2>12 DEF ShutSys, StopServing
    <3>4. /\ pc' = [pc EXCEPT ![p] = pc'[p]] /\ pc[p] = "shutSys"
          /\ pc'[p] \in {"release", "shutManager"}
      BY <2>12 DEF ShutSys
    <3>5. UNCHANGED <<overlapped, state, fate, pend>>
      BY <2>0, <2>12 DEF ShutSys
    <3> QED
      BY <3>1, <3>2, <3>3, <3>4, <3>5
  <2>13. CASE Release(p) \/ Reload(p)
    BY <2>0, <2>13 DEF Release, Reload
  <2> HIDE DEF TypeOK, ServerInv
  <2> QED
    BY <1>7, <2>1, <2>2, <2>3, <2>4, <2>5, <2>6, <2>7, <2>8, <2>9, <2>10, <2>11, <2>12,
       <2>13 DEF Otherwise
<1>8. ASSUME NEW c \in Calls, NEW o \in Ops, Invoke(c, o), UNCHANGED mgrSvcVars
      PROVE  ServerInv'
  BY <1>8, ModesAssumption DEF Invoke, LifeCycleOperation
<1>9. ASSUME NEW t \in Tasks, Serving(t), UNCHANGED mgrSvcVars PROVE ServerInv'
  <2>1. CASE t = "ChannelApi"
    BY <1>9, <2>1 DEF Serving
  <2>2. CASE t # "ChannelApi"
    <3>1. /\ tasks'["ChannelApi"] = tasks["ChannelApi"]
          /\ starter'["ChannelApi"] = starter["ChannelApi"]
      BY <1>9, <2>2 DEF Serving
    <3>2. starter[t] = NoCall \/ starter[t] # starter["ChannelApi"]
      BY <2>2
    <3> QED
      BY <1>9, <3>1, <3>2, ProcsAssumption DEF Serving
  <2> QED
    BY <2>1, <2>2
<1>10. ASSUME NEW t \in Tasks, StartFailed(t), UNCHANGED mgrSvcVars PROVE ServerInv'
  <2>1. CASE t = "ChannelApi"
    BY <1>10, <2>1, ProcsAssumption DEF StartFailed
  <2>2. CASE t # "ChannelApi"
    <3>1. /\ tasks'["ChannelApi"] = tasks["ChannelApi"]
          /\ starter'["ChannelApi"] = starter["ChannelApi"]
      BY <1>10, <2>2 DEF StartFailed
    <3>2. starter[t] = NoCall \/ starter[t] # starter["ChannelApi"]
      BY <2>2
    <3> QED
      BY <1>10, <3>1, <3>2, ProcsAssumption DEF StartFailed
  <2> QED
    BY <2>1, <2>2
<1>11. CASE UNCHANGED allVars
  BY <1>11 DEF allVars, vars
<1> HIDE DEF TypeOK, ServerInv
<1> QED
  BY <1>1, <1>2, <1>3, <1>4, <1>5, <1>6, <1>7, <1>8, <1>9, <1>10, <1>11
  DEF ManagerNext, ManagerStep, Dead, allVars

\* What providers that look for a manager hear of this one.
SaidInv ==
    ~overlapped =>
        /\ state \in {"Stopped", "Initializing"} => Silent
        /\ state \in {"Running", "Halt"} => Heard
        /\ \A p \in Procs :
            /\ pc[p] \in {"apiOn", "broadcastOn", "receptionOn"} => Silent
            /\ pc[p] = "receptionOn" => told[p] = "current"
            /\ pc[p] \in {"schedule", "scheduleNew"} => Heard
            /\ pc[p] = "stopHook" => Heard
            /\ pc[p] = "stopTasks" => Silent

LEMMA SaidStep ==
    ASSUME Kind = "manager", TypeOK, ListenInv, SoloInv, ServerInv, SaidInv,
           [ManagerNext]_allVars
    PROVE  SaidInv'
<1> USE DEF TypeOK, SoloInv, StartSteps, DiscoverySteps, StopSteps, Opening, Finding,
        Raising,
        ServerInv, SaidInv, Silent, Heard, ListenInv, ManagerTypeOK,
        Procs, Tasks, Channels, provVars, taskVars, callVars, mgrSvcVars, At, Goto, Finish, Reject
<1>1. ASSUME NEW p \in Procs, BeginStart(p) PROVE SaidInv'
  BY <1>1 DEF BeginStart, Start, OpenServer, StartAccepts
<1>2. ASSUME NEW p \in Procs, TellListener(p) PROVE SaidInv'
  BY <1>2 DEF TellListener, BroadcastOn
<1>3. ASSUME NEW p \in Procs, Announce(p) PROVE SaidInv'
  BY <1>3 DEF Announce, ReceptionOn
<1>4. ASSUME NEW p \in Procs, GiveUp(p) PROVE SaidInv'
  BY <1>4 DEF GiveUp, ReceptionFailed
<1>5. ASSUME NEW p \in Procs, Silence(p) PROVE SaidInv'
  BY <1>5 DEF Silence, StopHook, StopServing, Stopped
<1>6. ASSUME NEW p \in Procs, NEW t \in Tasks, Drop(p, t) PROVE SaidInv'
  BY <1>6 DEF Drop, Aged, StopTask
<1>7. ASSUME NEW p \in Procs, Otherwise(p) PROVE SaidInv'
  <2>0. UNCHANGED mgrSvcVars
    BY <1>7 DEF Otherwise
  <2>1. CASE InitResponse(p) \/ InitHook(p) \/ SysChannel(p)
    BY <2>0, <2>1 DEF InitResponse, Attached, InitHook, OpenServer, SysChannel
  <2>2. CASE Discover(p) \/ LoadDiscover(p)
    BY <2>0, <2>2 DEF Discover, AfterDiscover, LoadDiscover
  <2>3. CASE Starting(p)
    BY <2>0, <2>3 DEF Starting, OpenServer, ServesApi
  <2>4. CASE ApiOn(p)
    BY <2>0, <2>4 DEF ApiOn, Attached
  <2>5. CASE Schedule(p) \/ ScheduleNew(p)
    BY <2>0, <2>5 DEF Schedule, ScheduleNew
  <2>6. CASE Stop(p)
    BY <2>0, <2>6 DEF Stop, OpenServer, StopAccepts, ServesApi
  <2>7. CASE StopEnd(p)
    BY <2>0, <2>7 DEF StopEnd
  <2>8. CASE Report(p)
    BY <2>0, <2>8 DEF Report, AfterReport
  <2>9. CASE Halt(p)
    BY <2>0, <2>9 DEF Halt, StopServing, HaltAccepts
  <2>10. CASE Activate(p)
    BY <2>0, <2>10 DEF Activate, ActivateAccepts
  <2>11. CASE AfterStop(p)
    BY <2>0, <2>11 DEF AfterStop, OpenServer
  <2>12. CASE ShutSys(p)
    BY <2>0, <2>12 DEF ShutSys, Detached, StopServing
  <2>13. CASE Release(p) \/ Reload(p)
    BY <2>0, <2>13 DEF Release, Reload
  <2> HIDE DEF TypeOK, SaidInv
  <2> QED
    BY <1>7, <2>1, <2>2, <2>3, <2>4, <2>5, <2>6, <2>7, <2>8, <2>9, <2>10, <2>11, <2>12,
       <2>13 DEF Otherwise
<1>8. ASSUME NEW c \in Calls, NEW o \in Ops, Invoke(c, o), UNCHANGED mgrSvcVars
      PROVE  SaidInv'
  BY <1>8, ModesAssumption DEF Invoke, LifeCycleOperation
<1>9. ASSUME NEW t \in Tasks, Serving(t), UNCHANGED mgrSvcVars PROVE SaidInv'
  BY <1>9 DEF Serving
<1>10. ASSUME NEW t \in Tasks, StartFailed(t), UNCHANGED mgrSvcVars PROVE SaidInv'
  BY <1>10 DEF StartFailed
<1>11. CASE UNCHANGED allVars
  BY <1>11 DEF allVars, vars
<1> HIDE DEF TypeOK, SaidInv
<1> QED
  BY <1>1, <1>2, <1>3, <1>4, <1>5, <1>6, <1>7, <1>8, <1>9, <1>10, <1>11
  DEF ManagerNext, ManagerStep, Dead, allVars

-----------------------------------------------------------------------------
\* Theorems.

\* Every variable of the manager keeps its type, and its listener announces a
\* port exactly while it is live.
THEOREM ManagerTypeCorrect == ManagerSpec => []ManagerTypeOK
<1>1. ManagerInit => ListenInv
  BY DEF ManagerInit, Init, ListenInv, ManagerTypeOK, Port, Tasks
<1>2. TypeOK /\ ListenInv /\ [ManagerNext]_allVars => ListenInv'
  BY ListenStep
<1>3. ListenInv => ManagerTypeOK
  BY DEF ListenInv
<1> QED
  BY <1>1, <1>2, <1>3, ManagerIsProvider, TypeCorrect, PTL DEF ManagerSpec

LEMMA SaidCorrect ==
    ASSUME Kind = "manager" PROVE ManagerSpec => [](SoloInv /\ ServerInv /\ SaidInv)
<1>1. ManagerInit => ListenInv /\ SoloInv /\ ServerInv /\ SaidInv
  <2> SUFFICES ASSUME ManagerInit PROVE ListenInv /\ SoloInv /\ ServerInv /\ SaidInv
    OBVIOUS
  <2>1. ListenInv
    BY DEF ManagerInit, Init, ListenInv, ManagerTypeOK, Port, Tasks
  <2>2. SoloInv /\ ServerInv
    BY DEF ManagerInit, Init, SoloInv, ServerInv, StartSteps, DiscoverySteps, StopSteps,
       Opening, Finding, Raising, Tasks, Channels
  <2>3. SaidInv
    BY DEF ManagerInit, Init, SaidInv, Silent
  <2> QED
    BY <2>1, <2>2, <2>3
<1>2. TypeOK /\ ListenInv /\ [ManagerNext]_allVars => ListenInv'
  BY ListenStep
<1>3. TypeOK /\ SoloInv /\ ServerInv /\ [ManagerNext]_allVars => SoloInv'
  BY SoloStep
<1>4. TypeOK /\ AwaitInv /\ SoloInv /\ ServerInv /\ [ManagerNext]_allVars => ServerInv'
  BY ServerStep
<1>5. TypeOK /\ ListenInv /\ SoloInv /\ ServerInv /\ SaidInv /\ [ManagerNext]_allVars
        => SaidInv'
  BY SaidStep
<1> QED
  BY <1>1, <1>2, <1>3, <1>4, <1>5, ManagerIsProvider, TypeCorrect, AwaitCorrect, PTL
  DEF ManagerSpec

\* A manager that shows Running is announced on the port of the server it has,
\* however calls overlap and listeners fail, unless two starts overlapped.
THEOREM RunningIsAnnounced ==
    ASSUME Kind = "manager" PROVE ManagerSpec => []RunningAnnounced
<1>1. ServerInv /\ SaidInv => RunningAnnounced
  BY DEF ServerInv, SaidInv, Heard, RunningAnnounced
<1> QED
  BY <1>1, SaidCorrect, PTL

\* A manager that shows Stopped, or is Initializing, answers no probe, from the
\* present listener or from one it has lost, unless two starts overlapped.
THEOREM StoppedIsSilent ==
    ASSUME Kind = "manager" PROVE ManagerSpec => []StoppedSilent
<1>1. SaidInv => StoppedSilent
  BY DEF SaidInv, Silent, StoppedSilent
<1> QED
  BY <1>1, SaidCorrect, PTL
=============================================================================
