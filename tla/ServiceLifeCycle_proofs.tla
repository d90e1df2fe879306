------------------------- MODULE ServiceLifeCycle_proofs -------------------------
(***************************************************************************)
(* Theorems of ServiceLifeCycle, for every set of calls, timer callbacks   *)
(* and reconnections, every kind of provider and every fault.              *)
(***************************************************************************)
EXTENDS ServiceLifeCycle, TLAPS

-----------------------------------------------------------------------------
\* Type correctness.  A timer is only cleared through its reference, so the
\* count cannot drop below zero.

TimerCounted == timerRef => timers > 0

TypeInv == TypeOK /\ TimerCounted

LEMMA TypeInit == Init => TypeInv
<1> SUFFICES ASSUME Init PROVE TypeInv
  OBVIOUS
<1>1. state \in ExecutionState /\ mode \in {"UDP", "None"}
  BY ModesAssumption DEF Init, ExecutionState
<1>2. tasks \in [Tasks -> TaskStatus] /\ handlers \in [Channels -> Nat]
  BY DEF Init, TaskStatus
<1>3. pend \in [Procs -> SUBSET Tasks] /\ pc \in [Procs -> Labels]
  BY DEF Init, Labels
<1>4. op \in [Procs -> LifeCycleOperation \cup {"none", "tick", "heal"}]
  BY DEF Init
<1> QED
  BY <1>1, <1>2, <1>3, <1>4 DEF Init, TypeInv, TypeOK, TimerCounted

LEMMA TypeStep == ASSUME TypeInv, [Next]_vars PROVE TypeInv'
<1> USE ModesAssumption
    DEF TypeInv, TypeOK, TimerCounted, ExecutionState, Tasks, Channels, Procs,
        TaskStatus, Labels, DiscoverySteps, RegisterSteps, LifeCycleOperation,
        provVars, taskVars, mgrVars, timerVars, callVars, At, Goto, Finish, Reject
<1>1. ASSUME NEW c \in Calls, NEW o \in Ops, Invoke(c, o) PROVE TypeInv'
  BY <1>1 DEF Invoke
<1>2. ASSUME NEW p \in Procs, TickFire(p) \/ HealStart(p) PROVE TypeInv'
  BY <1>2 DEF TickFire, HealStart
<1>3. ASSUME NEW p \in Procs, Step(p) PROVE TypeInv'
  <2>1. CASE Start(p)
    BY <2>1 DEF Start, OpenServer
  <2>2. CASE InitResponse(p)
    BY <2>2 DEF InitResponse, Attached
  <2>3. CASE InitHook(p)
    BY <2>3 DEF InitHook, OpenServer
  <2>4. CASE SysChannel(p)
    BY <2>4 DEF SysChannel, Attached
  <2>5. CASE Discover(p)
    <3>1. mgrKnown' \in BOOLEAN
      BY <2>5 DEF Discover
    <3>2. mgrWatched' \in BOOLEAN
      BY <2>5 DEF Discover
    <3>3. discovery' \in BOOLEAN
      BY <2>5 DEF Discover
    <3> QED
      BY <2>5, <3>1, <3>2, <3>3 DEF Discover, AfterDiscover
  <2>6. CASE LoadDiscover(p)
    BY <2>6 DEF LoadDiscover, AfterDiscover
  <2>7. CASE ProbeAnswered(p)
    BY <2>7 DEF ProbeAnswered
  <2>8. CASE ProbeFailed(p)
    BY <2>8 DEF ProbeFailed
  <2>9. CASE Connected(p)
    <3>1. mgrKnown' \in BOOLEAN
      BY <2>9 DEF Connected
    <3>2. mgrWatched' \in BOOLEAN
      BY <2>9 DEF Connected
    <3>3. discovery' \in BOOLEAN
      BY <2>9 DEF Connected
    <3> QED
      BY <2>9, <3>1, <3>2, <3>3 DEF Connected, AfterDiscover
  <2>10. CASE Starting(p)
    BY <2>10 DEF Starting, OpenServer
  <2>11. CASE ApiOn(p)
    BY <2>11 DEF ApiOn, Attached
  <2>12. CASE BroadcastOn(p)
    BY <2>12 DEF BroadcastOn
  <2>13. CASE Schedule(p)
    <3>1. timerRef' \in BOOLEAN
      BY <2>13 DEF Schedule
    <3> QED
      BY <2>13, <3>1 DEF Schedule
  <2>14. CASE ScheduleNew(p)
    <3>1. timerRef' \in BOOLEAN
      BY <2>14 DEF ScheduleNew
    <3> QED
      BY <2>14, <3>1 DEF ScheduleNew
  <2>15. CASE Stop(p)
    BY <2>15 DEF Stop, OpenServer
  <2>16. CASE StopHook(p)
    BY <2>16 DEF StopHook, Detached, StopServing, Stopped
  <2>17. ASSUME NEW t \in Tasks, StopTask(p, t) PROVE TypeInv'
    BY <2>17 DEF StopTask
  <2>18. CASE StopEnd(p)
    BY <2>18 DEF StopEnd
  <2>19. CASE Report(p)
    BY <2>19 DEF Report, AfterReport
  <2>20. CASE ReportSent(p)
    BY <2>20 DEF ReportSent, AfterReport
  <2>21. CASE ReportFailed(p)
    <3>1. mgrWatched' \in BOOLEAN
      BY <2>21 DEF ReportFailed
    <3> QED
      BY <2>21, <3>1 DEF ReportFailed, AfterReport
  <2>22. CASE Halt(p)
    BY <2>22 DEF Halt, StopServing
  <2>23. CASE Activate(p)
    BY <2>23 DEF Activate
  <2>24. CASE AfterStop(p)
    BY <2>24 DEF AfterStop, OpenServer
  <2>25. CASE ShutSys(p)
    <3>1. mgrWatched' \in BOOLEAN
      BY <2>25 DEF ShutSys
    <3>2. timerRef' \in BOOLEAN
      BY <2>25 DEF ShutSys
    <3> QED
      BY <2>25, <3>1, <3>2 DEF ShutSys, Detached, StopServing
  <2>26. CASE ShutManager(p)
    BY <2>26 DEF ShutManager
  <2>27. CASE Release(p)
    <3>1. initialized' \in BOOLEAN
      BY <2>27 DEF Release
    <3> QED
      BY <2>27, <3>1 DEF Release
  <2>28. CASE Reload(p)
    BY <2>28 DEF Reload
  <2>29. CASE Register(p)
    <3>1. registering' \in BOOLEAN
      BY <2>29 DEF Register
    <3> QED
      BY <2>29, <3>1 DEF Register
  <2>30. CASE RegisterFirst(p)
    BY <2>30 DEF RegisterFirst, RegisterRound
  <2>31. CASE Registered(p)
    <3>1. registering' \in BOOLEAN
      BY <2>31 DEF Registered
    <3> QED
      BY <2>31, <3>1 DEF Registered
  <2>32. CASE RegisterRefused(p)
    BY <2>32 DEF RegisterRefused, RegisterRound
  <2>33. CASE ReceptionOn(p)
    BY <2>33 DEF ReceptionOn
  <2>34. CASE ReceptionFailed(p)
    BY <2>34 DEF ReceptionFailed
  <2> QED
    BY <1>3, <2>1, <2>2, <2>3, <2>4, <2>5, <2>6, <2>7, <2>8, <2>9, <2>10,
       <2>11, <2>12, <2>13, <2>14, <2>15, <2>16, <2>17, <2>18, <2>19,
       <2>20, <2>21, <2>22, <2>23, <2>24, <2>25, <2>26, <2>27, <2>28,
       <2>29, <2>30, <2>31, <2>32, <2>33, <2>34 DEF Step
<1>4. ASSUME NEW t \in Tasks, Serving(t) \/ StartFailed(t) PROVE TypeInv'
  BY <1>4 DEF Serving, StartFailed
<1>5. CASE ManagerError
  <2>1. mgrWatched' \in BOOLEAN
    BY <1>5 DEF ManagerError
  <2> QED
    BY <1>5, <2>1 DEF ManagerError
<1>6. CASE ManagerClosed \/ Dead \/ UNCHANGED vars
  BY <1>6 DEF ManagerClosed, Dead, vars
<1> QED
  BY <1>1, <1>2, <1>3, <1>4, <1>5, <1>6 DEF Next

\* Every variable keeps its type.
THEOREM TypeCorrect == Spec => []TypeOK
<1>1. TypeInv /\ [Next]_vars => TypeInv'
  BY TypeStep
<1>2. TypeInv => TypeOK
  BY DEF TypeInv
<1> QED
  BY TypeInit, <1>1, <1>2, PTL DEF Spec

-----------------------------------------------------------------------------
\* The bookings.

\* A step that leaves both bookings alone and lets nobody into the procedures
\* they protect.
Frame ==
    /\ UNCHANGED <<discovery, registering>>
    /\ \A q \in Procs :
        /\ pc'[q] \in DiscoverySteps => pc[q] \in DiscoverySteps
        /\ pc'[q] \in RegisterSteps => pc[q] \in RegisterSteps

Booking(p) == Discover(p) \/ Connected(p) \/ Register(p) \/ Registered(p)

LEMMA FrameStep ==
    ASSUME TypeOK, [Next]_vars
    PROVE  Frame \/ \E p \in Procs : Booking(p)
<1> USE DEF TypeOK, Frame, DiscoverySteps, RegisterSteps, Procs,
        provVars, taskVars, mgrVars, callVars, At, Goto, Finish, Reject
<1>1. ASSUME NEW c \in Calls, NEW o \in Ops, Invoke(c, o) PROVE Frame
  BY <1>1, ModesAssumption DEF Invoke, LifeCycleOperation
<1>2. ASSUME NEW p \in Procs, TickFire(p) \/ HealStart(p) PROVE Frame
  BY <1>2 DEF TickFire, HealStart
<1>3. ASSUME NEW p \in Procs, Step(p), ~Booking(p) PROVE Frame
  <2>1. CASE Start(p)
    BY <2>1 DEF Start
  <2>2. CASE InitResponse(p)
    BY <2>2 DEF InitResponse
  <2>3. CASE InitHook(p)
    BY <2>3 DEF InitHook
  <2>4. CASE SysChannel(p)
    BY <2>4 DEF SysChannel
  <2>5. CASE LoadDiscover(p)
    BY <2>5 DEF LoadDiscover, AfterDiscover
  <2>6. CASE ProbeAnswered(p)
    BY <2>6 DEF ProbeAnswered
  <2>7. CASE ProbeFailed(p)
    BY <2>7 DEF ProbeFailed
  <2>8. CASE Starting(p)
    BY <2>8 DEF Starting
  <2>9. CASE ApiOn(p)
    BY <2>9 DEF ApiOn
  <2>10. CASE BroadcastOn(p)
    BY <2>10 DEF BroadcastOn
  <2>11. CASE Schedule(p)
    BY <2>11 DEF Schedule
  <2>12. CASE ScheduleNew(p)
    BY <2>12 DEF ScheduleNew
  <2>13. CASE Stop(p)
    BY <2>13 DEF Stop
  <2>14. CASE StopHook(p)
    BY <2>14 DEF StopHook
  <2>15. ASSUME NEW t \in Tasks, StopTask(p, t) PROVE Frame
    BY <2>15 DEF StopTask
  <2>16. CASE StopEnd(p)
    BY <2>16 DEF StopEnd
  <2>17. CASE Report(p)
    BY <2>17 DEF Report, AfterReport
  <2>18. CASE ReportSent(p)
    BY <2>18 DEF ReportSent, AfterReport
  <2>19. CASE ReportFailed(p)
    BY <2>19 DEF ReportFailed, AfterReport
  <2>20. CASE Halt(p)
    BY <2>20 DEF Halt
  <2>21. CASE Activate(p)
    BY <2>21 DEF Activate
  <2>22. CASE AfterStop(p)
    BY <2>22 DEF AfterStop
  <2>23. CASE ShutSys(p)
    BY <2>23 DEF ShutSys
  <2>24. CASE ShutManager(p)
    BY <2>24 DEF ShutManager
  <2>25. CASE Release(p)
    BY <2>25 DEF Release
  <2>26. CASE Reload(p)
    BY <2>26 DEF Reload
  <2>27. CASE RegisterFirst(p)
    BY <2>27 DEF RegisterFirst, RegisterRound
  <2>28. CASE RegisterRefused(p)
    BY <2>28 DEF RegisterRefused, RegisterRound
  <2>29. CASE ReceptionOn(p)
    BY <2>29 DEF ReceptionOn
  <2>30. CASE ReceptionFailed(p)
    BY <2>30 DEF ReceptionFailed
  <2> QED
    BY <1>3, <2>1, <2>2, <2>3, <2>4, <2>5, <2>6, <2>7, <2>8, <2>9, <2>10,
       <2>11, <2>12, <2>13, <2>14, <2>15, <2>16, <2>17, <2>18, <2>19,
       <2>20, <2>21, <2>22, <2>23, <2>24, <2>25, <2>26, <2>27, <2>28, <2>29, <2>30 DEF
       Step, Booking
<1>4. ASSUME NEW t \in Tasks, Serving(t) \/ StartFailed(t) PROVE Frame
  BY <1>4 DEF Serving, StartFailed
<1>5. CASE ManagerError \/ ManagerClosed \/ Dead \/ UNCHANGED vars
  BY <1>5 DEF ManagerError, ManagerClosed, Dead, vars
<1> QED
  BY <1>1, <1>2, <1>3, <1>4, <1>5 DEF Next

LEMMA DiscoveryStep ==
    ASSUME TypeOK, DiscoveryExclusive, [Next]_vars
    PROVE  DiscoveryExclusive'
<1>1. CASE Frame
  BY <1>1 DEF DiscoveryExclusive, Frame
<1>2. ASSUME NEW p \in Procs, Discover(p) PROVE DiscoveryExclusive'
  BY <1>2 DEF Discover, DiscoveryFree, AfterDiscover, DiscoveryExclusive,
     DiscoverySteps, At, Goto, Finish, TypeOK, mgrVars
<1>3. ASSUME NEW p \in Procs, Connected(p) PROVE DiscoveryExclusive'
  BY <1>3 DEF Connected, AfterDiscover, DiscoveryExclusive, DiscoverySteps, At,
     Goto, Finish, TypeOK
<1>4. ASSUME NEW p \in Procs, Register(p) \/ Registered(p)
      PROVE  DiscoveryExclusive'
  BY <1>4 DEF Register, Registered, DiscoveryExclusive, DiscoverySteps,
     At, Goto, Finish, TypeOK, mgrVars
<1> QED
  BY <1>1, <1>2, <1>3, <1>4, FrameStep DEF Booking

LEMMA RegisterStep ==
    ASSUME TypeOK, RegisterExclusive, [Next]_vars
    PROVE  RegisterExclusive'
<1>1. CASE Frame
  BY <1>1 DEF RegisterExclusive, Frame
<1>2. ASSUME NEW p \in Procs, Register(p) PROVE RegisterExclusive'
  BY <1>2 DEF Register, RegisterFree, RegisterExclusive, RegisterSteps, At, Goto,
     Finish, TypeOK
<1>3. ASSUME NEW p \in Procs, Registered(p) PROVE RegisterExclusive'
  BY <1>3 DEF Registered, RegisterExclusive, RegisterSteps, At, Goto, Finish, TypeOK
<1>4. ASSUME NEW p \in Procs, Discover(p) \/ Connected(p)
      PROVE  RegisterExclusive'
  BY <1>4 DEF Discover, Connected, AfterDiscover, RegisterExclusive, RegisterSteps,
     At, Goto, Finish, TypeOK
<1> QED
  BY <1>1, <1>2, <1>3, <1>4, FrameStep DEF Booking

\* At most one activity is discovering the manager, whoever else starts, heals
\* or shuts down meanwhile.
THEOREM DiscoveryIsExclusive == Spec => []DiscoveryExclusive
<1>1. Init => DiscoveryExclusive
  BY DEF Init, DiscoveryExclusive, DiscoverySteps
<1>2. TypeOK /\ DiscoveryExclusive /\ [Next]_vars => DiscoveryExclusive'
  BY DiscoveryStep
<1> QED
  BY <1>1, <1>2, TypeCorrect, PTL DEF Spec

\* At most one call is registering.
THEOREM RegisterIsExclusive == Spec => []RegisterExclusive
<1>1. Init => RegisterExclusive
  BY DEF Init, RegisterExclusive, RegisterSteps
<1>2. TypeOK /\ RegisterExclusive /\ [Next]_vars => RegisterExclusive'
  BY RegisterStep
<1> QED
  BY <1>1, <1>2, TypeCorrect, PTL DEF Spec

-----------------------------------------------------------------------------
\* The watch on the manager's connection.  The property is not inductive: a start
\* or heal could leave "discover" without discovering because somebody else does,
\* and a rejected start() could throw its caller out of "discover".  AwaitInv
\* excludes the second; that a held booking means no manager is known, the first.

\* The awaits on which the start() of a server or client is awaited.
Suspensions == {"initResponse", "sysChannel", "apiOn", "stopHook", "shutSys", "connect"}

\* Who awaits a start() is suspended where it called it, and awaits only one.
AwaitInv ==
    /\ \A p \in awaiting : pc[p] \in Suspensions
    /\ \A t \in Tasks : starter[t] \in awaiting \cup {NoCall}
    /\ \A t, u \in Tasks : starter[t] = starter[u] /\ starter[t] # NoCall => t = u

BookedUnknown == discovery => ~mgrKnown

WatchInv ==
    tasks["Manager"] \in {"starting", "up"} /\ mgrKnown /\ fate = "alive" =>
        mgrWatched \/ healing > 0 \/ \E p \in Procs : pc[p] = "discover"

LEMMA AwaitStep == ASSUME TypeOK, AwaitInv, [Next]_vars PROVE AwaitInv'
<1> USE ProcsAssumption
    DEF TypeOK, AwaitInv, Suspensions, Procs, Tasks, Channels, taskVars, callVars, At, Goto,
        Finish, Reject
<1>1. ASSUME NEW c \in Calls, NEW o \in Ops, Invoke(c, o) PROVE AwaitInv'
  BY <1>1 DEF Invoke
<1>2. ASSUME NEW p \in Procs, TickFire(p) \/ HealStart(p) PROVE AwaitInv'
  BY <1>2 DEF TickFire, HealStart
<1>3. ASSUME NEW p \in Procs, Step(p) PROVE AwaitInv'
  <2>1. CASE Start(p)
    BY <2>1 DEF Start, OpenServer
  <2>2. CASE InitResponse(p)
    BY <2>2 DEF InitResponse
  <2>3. CASE InitHook(p)
    BY <2>3 DEF InitHook, OpenServer
  <2>4. CASE SysChannel(p)
    BY <2>4 DEF SysChannel
  <2>5. CASE Discover(p)
    BY <2>5 DEF Discover, AfterDiscover
  <2>6. CASE LoadDiscover(p)
    BY <2>6 DEF LoadDiscover, AfterDiscover
  <2>7. CASE ProbeAnswered(p)
    BY <2>7 DEF ProbeAnswered
  <2>8. CASE ProbeFailed(p)
    BY <2>8 DEF ProbeFailed
  <2>9. CASE Connected(p)
    BY <2>9 DEF Connected, AfterDiscover
  <2>10. CASE Starting(p)
    BY <2>10 DEF Starting, OpenServer
  <2>11. CASE ApiOn(p)
    BY <2>11 DEF ApiOn
  <2>12. CASE BroadcastOn(p)
    BY <2>12 DEF BroadcastOn
  <2>13. CASE Schedule(p)
    BY <2>13 DEF Schedule
  <2>14. CASE ScheduleNew(p)
    BY <2>14 DEF ScheduleNew
  <2>15. CASE Stop(p)
    BY <2>15 DEF Stop, OpenServer
  <2>16. CASE StopHook(p)
    <3>1. PICK aborted \in SUBSET {starter[t] : t \in Stopped} : awaiting' = awaiting \ aborted
      BY <2>16 DEF StopHook, StopServing
    <3>2. ASSUME NEW t \in Tasks, starter'[t] # NoCall
          PROVE  starter'[t] = starter[t] /\ starter[t] \in awaiting'
      <4>1. t \notin Stopped /\ starter'[t] = starter[t]
        BY <2>16, <3>2 DEF StopHook, StopServing
      <4>2. \A u \in Stopped : u \in Tasks /\ starter[u] # starter[t]
        BY <4>1, <3>2 DEF Stopped
      <4> QED
        BY <3>1, <3>2, <4>1, <4>2
    <3>3. p \notin awaiting' /\ \A q \in awaiting' : q \in awaiting /\ pc'[q] = pc[q]
      BY <2>16, <3>1 DEF StopHook
    <3> QED
      BY <3>2, <3>3
  <2>17. ASSUME NEW t \in Tasks, StopTask(p, t) PROVE AwaitInv'
    BY <2>17 DEF StopTask
  <2>18. CASE StopEnd(p)
    BY <2>18 DEF StopEnd
  <2>19. CASE Report(p)
    BY <2>19 DEF Report, AfterReport
  <2>20. CASE ReportSent(p)
    BY <2>20 DEF ReportSent, AfterReport
  <2>21. CASE ReportFailed(p)
    BY <2>21 DEF ReportFailed, AfterReport
  <2>22. CASE Halt(p)
    BY <2>22 DEF Halt, StopServing
  <2>23. CASE Activate(p)
    BY <2>23 DEF Activate
  <2>24. CASE AfterStop(p)
    BY <2>24 DEF AfterStop, OpenServer
  <2>25. CASE ShutSys(p)
    BY <2>25 DEF ShutSys, StopServing
  <2>26. CASE ShutManager(p)
    BY <2>26 DEF ShutManager
  <2>27. CASE Release(p)
    BY <2>27 DEF Release
  <2>28. CASE Reload(p)
    BY <2>28 DEF Reload
  <2>29. CASE Register(p)
    BY <2>29 DEF Register
  <2>30. CASE RegisterFirst(p)
    BY <2>30 DEF RegisterFirst, RegisterRound
  <2>31. CASE Registered(p)
    BY <2>31 DEF Registered
  <2>32. CASE RegisterRefused(p)
    BY <2>32 DEF RegisterRefused, RegisterRound
  <2>33. CASE ReceptionOn(p)
    BY <2>33 DEF ReceptionOn
  <2>34. CASE ReceptionFailed(p)
    BY <2>34 DEF ReceptionFailed
  <2> QED
    BY <1>3, <2>1, <2>2, <2>3, <2>4, <2>5, <2>6, <2>7, <2>8, <2>9, <2>10,
       <2>11, <2>12, <2>13, <2>14, <2>15, <2>16, <2>17, <2>18, <2>19,
       <2>20, <2>21, <2>22, <2>23, <2>24, <2>25, <2>26, <2>27, <2>28,
       <2>29, <2>30, <2>31, <2>32, <2>33, <2>34 DEF Step
<1>4. ASSUME NEW t \in Tasks, Serving(t) \/ StartFailed(t) PROVE AwaitInv'
  BY <1>4 DEF Serving, StartFailed
<1>5. CASE ManagerError \/ ManagerClosed \/ Dead \/ UNCHANGED vars
  BY <1>5 DEF ManagerError, ManagerClosed, Dead, vars
<1> QED
  BY <1>1, <1>2, <1>3, <1>4, <1>5 DEF Next

LEMMA BookedStep == ASSUME BookedUnknown, [Next]_vars PROVE BookedUnknown'
<1>1. ASSUME NEW c \in Calls, NEW o \in Ops, Invoke(c, o) PROVE BookedUnknown'
  BY <1>1 DEF BookedUnknown, Invoke, mgrVars
<1>2. ASSUME NEW p \in Procs, TickFire(p) \/ HealStart(p) PROVE BookedUnknown'
  BY <1>2 DEF BookedUnknown, TickFire, HealStart, mgrVars
<1>3. ASSUME NEW p \in Procs, Step(p) PROVE BookedUnknown'
  <2>1. CASE Start(p)
    BY <2>1 DEF BookedUnknown, Start, mgrVars
  <2>2. CASE InitResponse(p)
    BY <2>2 DEF BookedUnknown, InitResponse, mgrVars
  <2>3. CASE InitHook(p)
    BY <2>3 DEF BookedUnknown, InitHook, mgrVars
  <2>4. CASE SysChannel(p)
    BY <2>4 DEF BookedUnknown, SysChannel, mgrVars
  <2>5. CASE Discover(p)
    BY <2>5 DEF BookedUnknown, Discover, mgrVars
  <2>6. CASE LoadDiscover(p)
    BY <2>6 DEF BookedUnknown, LoadDiscover, mgrVars
  <2>7. CASE ProbeAnswered(p)
    BY <2>7 DEF BookedUnknown, ProbeAnswered, mgrVars
  <2>8. CASE ProbeFailed(p)
    BY <2>8 DEF BookedUnknown, ProbeFailed, mgrVars
  <2>9. CASE Connected(p)
    BY <2>9 DEF BookedUnknown, Connected, mgrVars
  <2>10. CASE Starting(p)
    BY <2>10 DEF BookedUnknown, Starting, mgrVars
  <2>11. CASE ApiOn(p)
    BY <2>11 DEF BookedUnknown, ApiOn, mgrVars
  <2>12. CASE BroadcastOn(p)
    BY <2>12 DEF BookedUnknown, BroadcastOn, mgrVars
  <2>13. CASE Schedule(p)
    BY <2>13 DEF BookedUnknown, Schedule, mgrVars
  <2>14. CASE ScheduleNew(p)
    BY <2>14 DEF BookedUnknown, ScheduleNew, mgrVars
  <2>15. CASE Stop(p)
    BY <2>15 DEF BookedUnknown, Stop, mgrVars
  <2>16. CASE StopHook(p)
    BY <2>16 DEF BookedUnknown, StopHook, mgrVars
  <2>17. ASSUME NEW t \in Tasks, StopTask(p, t) PROVE BookedUnknown'
    BY <2>17 DEF BookedUnknown, StopTask, mgrVars
  <2>18. CASE StopEnd(p)
    BY <2>18 DEF BookedUnknown, StopEnd, mgrVars
  <2>19. CASE Report(p)
    BY <2>19 DEF BookedUnknown, Report, mgrVars
  <2>20. CASE ReportSent(p)
    BY <2>20 DEF BookedUnknown, ReportSent, mgrVars
  <2>21. CASE ReportFailed(p)
    BY <2>21 DEF BookedUnknown, ReportFailed, mgrVars
  <2>22. CASE Halt(p)
    BY <2>22 DEF BookedUnknown, Halt, mgrVars
  <2>23. CASE Activate(p)
    BY <2>23 DEF BookedUnknown, Activate, mgrVars
  <2>24. CASE AfterStop(p)
    BY <2>24 DEF BookedUnknown, AfterStop, mgrVars
  <2>25. CASE ShutSys(p)
    BY <2>25 DEF BookedUnknown, ShutSys, mgrVars
  <2>26. CASE ShutManager(p)
    BY <2>26 DEF BookedUnknown, ShutManager, mgrVars
  <2>27. CASE Release(p)
    BY <2>27 DEF BookedUnknown, Release, mgrVars
  <2>28. CASE Reload(p)
    BY <2>28 DEF BookedUnknown, Reload, mgrVars
  <2>29. CASE Register(p)
    BY <2>29 DEF BookedUnknown, Register, mgrVars
  <2>30. CASE RegisterFirst(p)
    BY <2>30 DEF BookedUnknown, RegisterFirst, mgrVars
  <2>31. CASE Registered(p)
    BY <2>31 DEF BookedUnknown, Registered, mgrVars
  <2>32. CASE RegisterRefused(p)
    BY <2>32 DEF BookedUnknown, RegisterRefused, mgrVars
  <2>33. CASE ReceptionOn(p)
    BY <2>33 DEF BookedUnknown, ReceptionOn, mgrVars
  <2>34. CASE ReceptionFailed(p)
    BY <2>34 DEF BookedUnknown, ReceptionFailed, mgrVars
  <2> QED
    BY <1>3, <2>1, <2>2, <2>3, <2>4, <2>5, <2>6, <2>7, <2>8, <2>9, <2>10,
       <2>11, <2>12, <2>13, <2>14, <2>15, <2>16, <2>17, <2>18, <2>19,
       <2>20, <2>21, <2>22, <2>23, <2>24, <2>25, <2>26, <2>27, <2>28,
       <2>29, <2>30, <2>31, <2>32, <2>33, <2>34 DEF Step
<1>4. ASSUME NEW t \in Tasks, Serving(t) \/ StartFailed(t) PROVE BookedUnknown'
  BY <1>4 DEF BookedUnknown, Serving, StartFailed, mgrVars
<1>5. CASE ManagerError \/ ManagerClosed \/ Dead \/ UNCHANGED vars
  BY <1>5 DEF BookedUnknown, ManagerError, ManagerClosed, Dead, vars, mgrVars
<1> QED
  BY <1>1, <1>2, <1>3, <1>4, <1>5 DEF Next, Procs

LEMMA WatchStep ==
    ASSUME TypeOK, DiscoveryExclusive, AwaitInv, BookedUnknown, WatchInv, [Next]_vars
    PROVE  WatchInv'
<1> USE ModesAssumption
    DEF TypeOK, WatchInv, BookedUnknown, Procs, Tasks, Channels, taskVars, mgrVars, callVars,
        At, Goto, Finish, Reject
<1>1. ASSUME NEW c \in Calls, NEW o \in Ops, Invoke(c, o) PROVE WatchInv'
  BY <1>1 DEF Invoke
<1>2. ASSUME NEW p \in Procs, TickFire(p) \/ HealStart(p) PROVE WatchInv'
  BY <1>2 DEF TickFire, HealStart
<1>3. ASSUME NEW p \in Procs, Step(p) PROVE WatchInv'
  <2>1. CASE Start(p)
    BY <2>1 DEF Start, OpenServer
  <2>2. CASE InitResponse(p)
    BY <2>2 DEF InitResponse
  <2>3. CASE InitHook(p)
    BY <2>3 DEF InitHook, OpenServer
  <2>4. CASE SysChannel(p)
    BY <2>4 DEF SysChannel
  <2>5. CASE Discover(p)
    BY <2>5 DEF Discover, DiscoveryFree, AfterDiscover
  <2>6. CASE LoadDiscover(p)
    BY <2>6 DEF LoadDiscover, AfterDiscover
  <2>7. CASE ProbeAnswered(p)
    BY <2>7 DEF ProbeAnswered, DiscoveryExclusive, DiscoverySteps
  <2>8. CASE ProbeFailed(p)
    BY <2>8 DEF ProbeFailed
  <2>9. CASE Connected(p)
    BY <2>9 DEF Connected, AfterDiscover
  <2>10. CASE Starting(p)
    BY <2>10 DEF Starting, OpenServer
  <2>11. CASE ApiOn(p)
    BY <2>11 DEF ApiOn
  <2>12. CASE BroadcastOn(p)
    BY <2>12 DEF BroadcastOn
  <2>13. CASE Schedule(p)
    BY <2>13 DEF Schedule
  <2>14. CASE ScheduleNew(p)
    BY <2>14 DEF ScheduleNew
  <2>15. CASE Stop(p)
    BY <2>15 DEF Stop, OpenServer
  <2>16. CASE StopHook(p)
    BY <2>16 DEF StopHook, StopServing, Stopped
  <2>17. ASSUME NEW t \in Tasks, StopTask(p, t) PROVE WatchInv'
    BY <2>17 DEF StopTask
  <2>18. CASE StopEnd(p)
    BY <2>18 DEF StopEnd
  <2>19. CASE Report(p)
    BY <2>19 DEF Report, AfterReport
  <2>20. CASE ReportSent(p)
    BY <2>20 DEF ReportSent, AfterReport
  <2>21. CASE ReportFailed(p)
    BY <2>21 DEF ReportFailed, AfterReport
  <2>22. CASE Halt(p)
    BY <2>22 DEF Halt, StopServing
  <2>23. CASE Activate(p)
    BY <2>23 DEF Activate
  <2>24. CASE AfterStop(p)
    BY <2>24 DEF AfterStop, OpenServer
  <2>25. CASE ShutSys(p)
    BY <2>25 DEF ShutSys, StopServing
  <2>26. CASE ShutManager(p)
    BY <2>26 DEF ShutManager
  <2>27. CASE Release(p)
    BY <2>27 DEF Release
  <2>28. CASE Reload(p)
    BY <2>28 DEF Reload
  <2>29. CASE Register(p)
    BY <2>29 DEF Register
  <2>30. CASE RegisterFirst(p)
    BY <2>30 DEF RegisterFirst, RegisterRound
  <2>31. CASE Registered(p)
    BY <2>31 DEF Registered
  <2>32. CASE RegisterRefused(p)
    BY <2>32 DEF RegisterRefused, RegisterRound
  <2>33. CASE ReceptionOn(p)
    BY <2>33 DEF ReceptionOn
  <2>34. CASE ReceptionFailed(p)
    BY <2>34 DEF ReceptionFailed
  <2> QED
    BY <1>3, <2>1, <2>2, <2>3, <2>4, <2>5, <2>6, <2>7, <2>8, <2>9, <2>10,
       <2>11, <2>12, <2>13, <2>14, <2>15, <2>16, <2>17, <2>18, <2>19,
       <2>20, <2>21, <2>22, <2>23, <2>24, <2>25, <2>26, <2>27, <2>28,
       <2>29, <2>30, <2>31, <2>32, <2>33, <2>34 DEF Step
<1>4. ASSUME NEW t \in Tasks, Serving(t) PROVE WatchInv'
  BY <1>4 DEF Serving
<1>5. ASSUME NEW t \in Tasks, StartFailed(t) PROVE WatchInv'
  <2>1. CASE fate' # "alive"
    BY <2>1
  <2>2. CASE starter[t] # NoCall /\ Reject(starter[t])
    <3>1. starter[t] \in Procs /\ pc[starter[t]] # "discover"
      BY <2>2 DEF AwaitInv, Suspensions
    <3> QED
      BY <1>5, <2>2, <3>1 DEF StartFailed
  <2> QED
    BY <1>5, <2>1, <2>2 DEF StartFailed
<1>6. CASE ManagerError \/ ManagerClosed \/ Dead \/ UNCHANGED vars
  BY <1>6 DEF ManagerError, ManagerClosed, Dead, vars
<1> QED
  BY <1>1, <1>2, <1>3, <1>4, <1>5, <1>6 DEF Next

\* Nobody awaits a start() but where the code does, and each at most one.
LEMMA AwaitCorrect == Spec => []AwaitInv
<1>1. Init => AwaitInv
  BY DEF Init, AwaitInv
<1>2. TypeOK /\ AwaitInv /\ [Next]_vars => AwaitInv'
  BY AwaitStep
<1> QED
  BY <1>1, <1>2, TypeCorrect, PTL DEF Spec

\* A connected manager is watched for errors or about to be replaced.
THEOREM ManagerIsWatched == Spec => []ManagerWatched
<1>1. Init => BookedUnknown /\ WatchInv
  BY DEF Init, BookedUnknown, WatchInv
<1>2. BookedUnknown /\ [Next]_vars => BookedUnknown'
  BY BookedStep
<1>3. TypeOK /\ DiscoveryExclusive /\ AwaitInv /\ BookedUnknown /\ WatchInv /\ [Next]_vars
        => WatchInv'
  BY WatchStep
<1>4. WatchInv => ManagerWatched
  BY DEF WatchInv, ManagerWatched
<1> QED
  BY <1>1, <1>2, <1>3, <1>4, TypeCorrect, AwaitCorrect, DiscoveryIsExclusive, PTL DEF Spec

-----------------------------------------------------------------------------
\* The way of a start, in three parts: it opens the channels of the provider,
\* finds the manager, and raises the API.

Opening == {"initResponse", "initHook", "sysChannel"}
Finding == {"discover", "loadDiscover", "probe", "connect", "starting"}
Raising == {"apiOn", "broadcastOn", "receptionOn", "schedule", "scheduleNew"}

-----------------------------------------------------------------------------
\* A halted provider.  Whoever opens the API listener changes the state in the
\* same step, and only a halt, which closes it, makes the state Halt.

LEMMA HaltStep == ASSUME TypeOK, HaltCloses, [Next]_vars PROVE HaltCloses'
<1> USE DEF TypeOK, HaltCloses, Tasks, Channels, provVars, taskVars
<1>1. ASSUME NEW c \in Calls, NEW o \in Ops, Invoke(c, o) PROVE HaltCloses'
  BY <1>1 DEF Invoke
<1>2. ASSUME NEW p \in Procs, TickFire(p) \/ HealStart(p) PROVE HaltCloses'
  BY <1>2 DEF TickFire, HealStart
<1>3. ASSUME NEW p \in Procs, Step(p) PROVE HaltCloses'
  <2>1. CASE Start(p) \/ InitResponse(p) \/ InitHook(p) \/ SysChannel(p)
    BY <2>1 DEF Start, OpenServer, InitResponse, InitHook, SysChannel
  <2>2. CASE Discover(p) \/ LoadDiscover(p) \/ ProbeAnswered(p) \/ ProbeFailed(p) \/ Connected(p)
    BY <2>2 DEF Discover, LoadDiscover, ProbeAnswered, ProbeFailed, Connected
  <2>3. CASE Starting(p) \/ ApiOn(p) \/ BroadcastOn(p)
    BY <2>3 DEF Starting, OpenServer, ApiOn, BroadcastOn
  <2>4. CASE ReceptionOn(p) \/ ReceptionFailed(p)
    BY <2>4 DEF ReceptionOn, ReceptionFailed
  <2>5. CASE Schedule(p) \/ ScheduleNew(p)
    BY <2>5 DEF Schedule, ScheduleNew
  <2>6. CASE Stop(p) \/ StopEnd(p)
    BY <2>6 DEF Stop, OpenServer, StopEnd
  <2>7. CASE StopHook(p)
    BY <2>7 DEF StopHook, StopServing
  <2>8. ASSUME NEW t \in Tasks, StopTask(p, t) PROVE HaltCloses'
    BY <2>8 DEF StopTask
  <2>9. CASE Report(p) \/ ReportSent(p) \/ ReportFailed(p)
    BY <2>9 DEF Report, ReportSent, ReportFailed
  <2>10. CASE Halt(p)
    BY <2>10 DEF Halt, StopServing
  <2>11. CASE Activate(p)
    BY <2>11 DEF Activate, ActivateAccepts
  <2>12. CASE AfterStop(p)
    BY <2>12 DEF AfterStop, OpenServer
  <2>13. CASE ShutSys(p) \/ ShutManager(p)
    BY <2>13 DEF ShutSys, StopServing, ShutManager
  <2>14. CASE Release(p) \/ Reload(p)
    BY <2>14 DEF Release, Reload
  <2>15. CASE Register(p) \/ RegisterFirst(p) \/ Registered(p) \/ RegisterRefused(p)
    BY <2>15 DEF Register, RegisterFirst, Registered, RegisterRefused
  <2> HIDE DEF TypeOK, HaltCloses, Tasks, Channels, provVars, taskVars
  <2> QED
    BY <1>3, <2>1, <2>2, <2>3, <2>4, <2>5, <2>6, <2>7, <2>8, <2>9, <2>10,
       <2>11, <2>12, <2>13, <2>14, <2>15 DEF Step
<1>4. ASSUME NEW t \in Tasks, Serving(t) \/ StartFailed(t) PROVE HaltCloses'
  BY <1>4 DEF Serving, StartFailed
<1>5. CASE ManagerError \/ ManagerClosed \/ Dead \/ UNCHANGED vars
  BY <1>5 DEF ManagerError, ManagerClosed, Dead, vars
<1> HIDE DEF TypeOK, HaltCloses, Tasks, Channels, provVars, taskVars
<1> QED
  BY <1>1, <1>2, <1>3, <1>4, <1>5 DEF Next, Procs

\* A halted provider has no API listener, whatever calls overlap.
THEOREM HaltIsClosed == Spec => []HaltCloses
<1>1. Init => HaltCloses
  BY DEF Init, HaltCloses
<1>2. TypeOK /\ HaltCloses /\ [Next]_vars => HaltCloses'
  BY HaltStep
<1> QED
  BY <1>1, <1>2, TypeCorrect, PTL DEF Spec
=============================================================================
