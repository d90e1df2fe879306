---------------------------- MODULE SystemInstruction ----------------------------
(***************************************************************************)
(* The system channel of a provider: life-cycle operations asked for by a  *)
(* message (_handleTcpSysRequest of procedure/life-cycle.ts), and the      *)
(* answers to them (response of provider/service-provider.ts).  The        *)
(* operation is a call of ServiceLifeCycle; this module adds the socket it *)
(* came from and what is written back.                                     *)
(***************************************************************************)
EXTENDS ServiceLifeCycle

VARIABLES
    socket,  \* per call, the socket of its instruction, "none" for a local call
    answer   \* per call, what has been written to the socket

sysVars == <<socket, answer>>
allVars == <<vars, sysVars>>

SystemInit ==
    /\ Init
    /\ socket = [c \in Calls |-> "none"]
    /\ answer = [c \in Calls |-> "none"]

\* The handler of call c has come to its end, or there was none.
Handled(c) == socket[c] = "none" \/ answer[c] # "pending"

\* lifeCycle(o), called by the application.
CallLocally(c, o) ==
    /\ Handled(c) /\ Invoke(c, o)
    /\ socket' = [socket EXCEPT ![c] = "none"] /\ answer' = [answer EXCEPT ![c] = "none"]

\* A message /sys/o arrives on the system channel.
Instruct(c, o) ==
    /\ tasks["ChannelSys"] = "up" /\ handlers["ChannelSys"] > 0
    /\ Handled(c) /\ Invoke(c, o)
    /\ socket' = [socket EXCEPT ![c] = "open"] /\ answer' = [answer EXCEPT ![c] = "pending"]

\* A message that is no JSON, or names no instruction and no API: there is no
\* result, the finally block reads its length, and nobody handles the TypeError.
Garbled ==
    /\ tasks["ChannelSys"] = "up" /\ handlers["ChannelSys"] > 0
    /\ fate' = "crashed"
    /\ UNCHANGED <<provVars, taskVars, mgrVars, registering, timerVars, callVars, sysVars>>

\* response(), once the operation of c has returned.  False is acknowledged, on
\* a socket a stop has destroyed to no effect.  True is no payload a Buffer is
\* made from, and an operation that threw left no result: both reject.
Reply(c) ==
    /\ socket[c] # "none" /\ answer[c] = "pending" /\ pc[c] = "done"
    /\ \/ /\ result[c] = "false"
          /\ answer' = [answer EXCEPT ![c] = IF socket[c] = "open" THEN "Ack" ELSE "lost"]
          /\ UNCHANGED fate
       \/ /\ result[c] # "false"
          /\ answer' = [answer EXCEPT ![c] = "failed"] /\ fate' = "crashed"
    /\ UNCHANGED <<provVars, taskVars, mgrVars, registering, timerVars, callVars, socket>>

\* A step of the provider; a stop of the system channel destroys its sockets.
Proceed ==
    /\ \/ \E p \in Ticks : TickFire(p)
       \/ \E p \in Heals : HealStart(p)
       \/ \E p \in Procs : Step(p)
       \/ \E t \in Tasks : Serving(t) \/ StartFailed(t)
       \/ ManagerError \/ ManagerClosed
    /\ socket' = [c \in Calls |->
            IF socket[c] = "open" /\ tasks["ChannelSys"] = "up" /\ tasks'["ChannelSys"] = "down"
            THEN "closed" ELSE socket[c]]
    /\ UNCHANGED answer

SystemNext ==
    \/ /\ fate = "alive"
       /\ \/ \E c \in Calls, o \in Ops : CallLocally(c, o) \/ Instruct(c, o)
          \/ Garbled
          \/ \E c \in Calls : Reply(c)
          \/ Proceed
    \/ (Dead /\ UNCHANGED sysVars)

SystemSpec == SystemInit /\ [][SystemNext]_allVars

-----------------------------------------------------------------------------
\* life-cycle.ts:460: the handler executes the instruction and sends a response
\* back.  An instruction whose operation succeeded, on a socket still open.
InstructionAnswered ==
    \A c \in Calls :
        socket[c] = "open" /\ result[c] = "true" /\ pc[c] = "done" =>
            answer[c] \in {"pending", "Ack"}
=============================================================================
