----------------------------- MODULE ServiceManager -----------------------------
(***************************************************************************)
(* A service manager (manager/service-manager.ts) is a provider whose      *)
(* start also opens a broadcast listener, which announces the port of the  *)
(* API channel to the providers that look for a manager.  The life cycle   *)
(* is that of ServiceLifeCycle; this module adds what the listeners        *)
(* announce.                                                               *)
(*                                                                         *)
(* The server of a channel keeps its port as long as it is in the tasks    *)
(* map, whether halted or not (_port of tcp-server.ts); one created anew   *)
(* gets another.  What a listener was told is therefore current until the  *)
(* server leaves the map, and stale from then on.                          *)
(***************************************************************************)
EXTENDS ServiceLifeCycle

VARIABLES
    told,        \* per call, the port it has read for its new listener
    announced,   \* the port the listener of the tasks map announces
    stray,       \* the port announced by a live listener that has left the map
    overlapped   \* history: a start has begun while another was under way

mgrSvcVars == <<told, announced, stray, overlapped>>
allVars == <<vars, mgrSvcVars>>

Port == {"none", "current", "stale"}

ManagerInit ==
    /\ Init
    /\ told = [p \in Procs |-> "none"]
    /\ announced = "none" /\ stray = "none" /\ overlapped = FALSE

-----------------------------------------------------------------------------
StartSteps == DiscoverySteps \cup
    {"initResponse", "initHook", "sysChannel", "discover", "starting", "apiOn",
     "broadcastOn", "receptionOn", "schedule", "scheduleNew"}

\* _start of one call while that of another is between two of its awaits.
BeginStart(p) ==
    /\ Start(p)
    /\ overlapped' =
            \/ overlapped
            \/ (StartAccepts /\ \E q \in Procs \ {p} : pc[q] \in StartSteps)
    /\ UNCHANGED <<told, announced, stray>>

\* _initializeBroadcastListener: setManagerInfo() is given the port read.
TellListener(p) ==
    /\ BroadcastOn(p)
    /\ told' = [told EXCEPT ![p] = IF pc'[p] = "receptionOn" THEN "current" ELSE "none"]
    /\ UNCHANGED <<announced, stray, overlapped>>

\* Its bind succeeds, which it cannot while another listener is live.
Announce(p) ==
    /\ ReceptionOn(p) /\ stray = "none"
    /\ announced' = told[p] /\ told' = [told EXCEPT ![p] = "none"]
    /\ UNCHANGED <<stray, overlapped>>

GiveUp(p) ==
    /\ ReceptionFailed(p)
    /\ told' = [told EXCEPT ![p] = "none"]
    /\ UNCHANGED <<announced, stray, overlapped>>

\* Mutant: a listener that is stopped goes on announcing.
SilenceNever(p) ==
    /\ StopHook(p)
    /\ UNCHANGED mgrSvcVars

\* Every task is stopped, the listener of the map with them.
Silence(p) ==
    /\ StopHook(p)
    /\ announced' = IF tasks'["Reception"] = "up" THEN announced ELSE "none"
    /\ UNCHANGED <<told, stray, overlapped>>

Aged(port) == IF port = "current" THEN "stale" ELSE port

\* The server or listener stopped leaves the map, or what has taken its name
\* meanwhile: a listener that was put there in between is live and nobody's.
Drop(p, t) ==
    /\ StopTask(p, t)
    /\ IF t = "ChannelApi"
       THEN /\ told' = [q \in Procs |-> Aged(told[q])]
            /\ announced' = Aged(announced) /\ stray' = Aged(stray)
       ELSE IF t = "Reception" /\ announced # "none"
       THEN stray' = announced /\ announced' = "none" /\ UNCHANGED told
       ELSE UNCHANGED <<told, announced, stray>>
    /\ UNCHANGED overlapped

\* Everything else does not touch the listeners.
Otherwise(p) ==
    /\ \/ InitResponse(p) \/ InitHook(p) \/ SysChannel(p)
       \/ Discover(p) \/ LoadDiscover(p) \/ Starting(p) \/ ApiOn(p)
       \/ Schedule(p) \/ ScheduleNew(p) \/ Stop(p) \/ StopEnd(p) \/ Report(p)
       \/ Halt(p) \/ Activate(p)
       \/ AfterStop(p) \/ ShutSys(p) \/ Release(p) \/ Reload(p)
    /\ UNCHANGED mgrSvcVars

ManagerStep(p) ==
    \/ BeginStart(p) \/ TellListener(p) \/ Announce(p) \/ GiveUp(p)
    \/ Silence(p) \/ (\E t \in Tasks : Drop(p, t)) \/ Otherwise(p)

ManagerNext ==
    \/ /\ fate = "alive"
       /\ \/ \E p \in Procs : ManagerStep(p)
          \/ /\ \/ \E c \in Calls, o \in Ops : Invoke(c, o)
                \/ \E t \in Tasks : Serving(t) \/ StartFailed(t)
             /\ UNCHANGED mgrSvcVars
    \/ (Dead /\ UNCHANGED mgrSvcVars)

ManagerSpec == ManagerInit /\ [][ManagerNext]_allVars

-----------------------------------------------------------------------------
\* Properties.

\* Every variable has its type, and a live listener of the map is up.
ManagerTypeOK ==
    /\ told \in [Procs -> Port]
    /\ announced \in Port /\ stray \in Port /\ overlapped \in BOOLEAN
    /\ announced # "none" <=> tasks["Reception"] = "up"

\* A manager that shows Running is announced, once, on the port of the API
\* server it has, and that server is open or opening, however calls overlap and
\* listeners fail, unless two starts have been under way at once: the second
\* waits for the listener's port and announces a server that is gone.
RunningAnnounced ==
    state = "Running" /\ fate = "alive" /\ ~overlapped =>
        /\ tasks["ChannelApi"] \in {"starting", "up"}
        /\ announced = "current" /\ stray = "none"

\* A manager that shows Stopped answers no probe: providers would be sent to a
\* server that is gone.
StoppedSilent ==
    state \in {"Stopped", "Initializing"} /\ ~overlapped =>
        announced = "none" /\ stray = "none"
=============================================================================
