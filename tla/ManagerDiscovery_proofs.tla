------------------------ MODULE ManagerDiscovery_proofs ------------------------
(***************************************************************************)
(* Theorems of ManagerDiscovery.                                           *)
(***************************************************************************)
EXTENDS ManagerDiscovery, TLAPS

-----------------------------------------------------------------------------
\* The manager's server.

\* A socket binds as long as its run awaits it, and has failed while it sleeps.
MgrPaired ==
    \A r \in Runs :
        /\ mgrPc[r] = "binding" <=> mgrConn[r] = "binding"
        /\ mgrPc[r] = "sleeping" => mgrConn[r] = "closed"

\* The run in flight is the one whose socket the server holds.
MgrHeld ==
    /\ mgrState # "Stopped" => mgrSocket \in Runs
    /\ \A r \in Runs : mgrPc[r] \in {"binding", "sleeping"} => mgrSocket = r

\* While a socket is bound nobody is about to write Stopped over the state, and
\* start() is either to return or has found an answer.
MgrOpenAlone ==
    \A r \in Runs : mgrConn[r] = "bound" =>
        /\ mgrState = "Listening" /\ mgrSocket = r
        /\ \A q \in Runs : mgrPc[q] \notin {"aborting", "closing"}
        /\ mgrPc[r] = "finishing" \/ mgrBuffer # NoInfo

MgrInv == Manager!TypeOK /\ MgrPaired /\ MgrHeld /\ MgrOpenAlone

LEMMA MgrStep == ASSUME MgrInv, Manager!Next PROVE MgrInv'
<1> USE NamesAssumption, InfosAssumption
    DEF MgrInv, Manager!TypeOK, Manager!Places, Manager!ExecutionState,
        MgrPaired, MgrHeld, MgrOpenAlone, Manager!Goto, Manager!Settle,
        Manager!Quiescent, Manager!Drained
<1>1. ASSUME NEW i \in Infos, Manager!SetManagerInfo(i) PROVE MgrInv'
  BY <1>1 DEF Manager!SetManagerInfo
<1>2. ASSUME NEW r \in Runs, Manager!Start(r) PROVE MgrInv'
  BY <1>2 DEF Manager!Start
<1>3. ASSUME NEW r \in Runs, Manager!Bound(r) PROVE MgrInv'
  BY <1>3 DEF Manager!Bound
<1>4. ASSUME NEW r \in Runs, Manager!BindFails(r) PROVE MgrInv'
  BY <1>4 DEF Manager!BindFails
<1>5. ASSUME NEW r \in Runs, Manager!Wake(r) PROVE MgrInv'
  BY <1>5 DEF Manager!Wake
<1>6. ASSUME NEW r \in Runs, Manager!Finish(r) PROVE MgrInv'
  BY <1>6 DEF Manager!Finish, Manager!Close, Manager!Halted
<1>7. ASSUME NEW r \in Runs, Manager!AbortSettle(r) PROVE MgrInv'
  BY <1>7 DEF Manager!AbortSettle
<1>8. ASSUME NEW r \in Runs, Manager!CloseEvent(r) PROVE MgrInv'
  BY <1>8 DEF Manager!CloseEvent
<1>9. ASSUME Manager!Stop PROVE MgrInv'
  BY <1>9 DEF Manager!Stop, Manager!Close, Manager!Halted
<1> QED
  BY <1>1, <1>2, <1>3, <1>4, <1>5, <1>6, <1>7, <1>8, <1>9 DEF Manager!Next

-----------------------------------------------------------------------------
\* The provider's discovery.

\* A socket binds as long as its call awaits it, and has failed while it sleeps.
Paired ==
    \A c \in Calls :
        /\ pc[c] = "binding" <=> conn[c] = "binding"
        /\ pc[c] = "sleeping" => conn[c] = "closed"

\* The call whose bind is in flight made the socket the object holds.
Held ==
    /\ state # "Stopped" => socket \in Calls
    /\ \A c \in Calls : pc[c] \in {"binding", "sleeping"} => socket = c

\* A bound socket is the one held, the object is Running, and nobody is about to
\* write Stopped over that; whoever waits, waits on a bound socket.
OpenAlone ==
    /\ \A c \in Calls : conn[c] = "bound" =>
        /\ state = "Running" /\ socket = c
        /\ \A d \in Calls : pc[d] # "aborting"
    /\ state = "Running" => conn[socket] = "bound"
    /\ \A c \in Calls : pc[c] = "waiting" => uses[c] \in Calls /\ conn[uses[c]] = "bound"

\* A call holds an answer only when it listens no more.
Fresh ==
    \A c \in Calls :
        /\ pc[c] \notin {"deaf", "done"} => found[c] = {}
        /\ pc[c] # "done" => result[c] = "none"

ClientInv == Client!TypeOK /\ Paired /\ Held /\ OpenAlone /\ Fresh

LEMMA ReceiveStep ==
  ASSUME ClientInv, NEW s \in Calls, NEW d, Client!Receive(s, d)
  PROVE  ClientInv'
<1> USE NamesAssumption, InfosAssumption
    DEF ClientInv, Client!TypeOK, Client!Places, Client!ExecutionState, Paired, Held, OpenAlone,
        Fresh, Client!Settle, Client!Quiescent
<1> QED
  BY DEF Client!Receive, Client!Waiting, Client!Readable, Client!CloseAfter

\* What a step of the discovery does.
ClientMoves(c) ==
    \/ \E m \in Limits : Client!Discover(c, m)
    \/ Client!Bound(c) \/ \E b \in BOOLEAN : Client!BindFails(c, b)
    \/ Client!Wake(c) \/ Client!AbortSettle(c) \/ Client!Timeout(c)
    \/ Client!SendFails(c) \/ Client!SocketError(c)
    \/ \E d \in answers[c] \cup {Noise} : Client!Receive(c, d)

LEMMA StopInv == ASSUME ClientInv, Client!Stop PROVE ClientInv'
  BY NamesAssumption
  DEF ClientInv, Client!TypeOK, Client!Places, Client!ExecutionState, Paired, Held, OpenAlone,
      Fresh, Client!Stop, Client!Waiting

LEMMA ClientStepInv ==
  ASSUME ClientInv, NEW c \in Calls, ClientMoves(c)
  PROVE  ClientInv'
<1> USE NamesAssumption, InfosAssumption
    DEF ClientInv, Client!TypeOK, Client!Places, Client!ExecutionState, Paired, Held, OpenAlone,
        Fresh, Client!Settle, Client!Quiescent, Client!Probe
<1>1. ASSUME NEW m \in Limits, Client!Discover(c, m) PROVE ClientInv'
  BY <1>1, BoundsAssumption DEF Client!Discover, Client!Binds, Client!InFlight
<1>2. CASE Client!Bound(c)
  BY <1>2 DEF Client!Bound
<1>3. ASSUME NEW b \in BOOLEAN, Client!BindFails(c, b) PROVE ClientInv'
  <2>1. CASE b
    BY <1>3, <2>1 DEF Client!BindFails
  <2>2. CASE ~b
    <3>1. /\ pc[c] = "binding" /\ conn' = [conn EXCEPT ![c] = "closed"]
          /\ state' = "Error" /\ pc' = [pc EXCEPT ![c] = "hung"]
          /\ UNCHANGED <<socket, attempt, uses, limit, found, result>>
      BY <1>3, <2>2 DEF Client!BindFails
    <3>2. crashed' \in BOOLEAN
      BY <1>3, <2>2 DEF Client!BindFails
    <3> QED
      BY <3>1, <3>2
  <2> QED
    BY <2>1, <2>2
<1>4. CASE Client!Wake(c)
  BY <1>4 DEF Client!Wake
<1>5. CASE Client!AbortSettle(c)
  BY <1>5 DEF Client!AbortSettle
<1>6. CASE Client!Timeout(c) \/ Client!SendFails(c)
  BY <1>6 DEF Client!Timeout, Client!SendFails
<1>7. CASE Client!SocketError(c)
  BY <1>7 DEF Client!SocketError, Client!Waiting
<1>8. ASSUME NEW d, Client!Receive(c, d) PROVE ClientInv'
  BY <1>8, ReceiveStep
<1> QED
  BY <1>1, <1>2, <1>3, <1>4, <1>5, <1>6, <1>7, <1>8 DEF ClientMoves

-----------------------------------------------------------------------------
\* The two and the network: an answer under way has been announced.
Heard ==
    /\ announced \subseteq Infos
    /\ answers \in [Calls -> SUBSET announced]
    /\ mgrState = "Listening" /\ mgrBuffer \in Infos => mgrBuffer \in announced

IInv == ClientInv /\ MgrInv /\ Heard

LEMMA InitInv == Init => IInv
<1> SUFFICES ASSUME Init PROVE IInv
  OBVIOUS
<1>1. ClientInv
  BY NamesAssumption
  DEF Init, Client!Init, ClientInv, Client!TypeOK, Client!Places, Client!ExecutionState,
      Paired, Held, OpenAlone, Fresh
<1>2. MgrInv
  BY DEF Init, Manager!Init, MgrInv, Manager!TypeOK, Manager!Places, Manager!ExecutionState,
         MgrPaired, MgrHeld, MgrOpenAlone
<1>3. Heard
  BY DEF Init, Manager!Init, Heard
<1> QED
  BY <1>1, <1>2, <1>3 DEF IInv

\* Who moves in a step: the provider, the manager or the network.
LEMMA Movers ==
  ASSUME Next
  PROVE  \/ \E c \in Calls : ClientMoves(c) /\ UNCHANGED <<mgrVars, answers, announced>>
         \/ Client!Stop /\ UNCHANGED <<mgrVars, answers, announced>>
         \/ ManagerStep
         \/ \E c \in Calls : Answer(c)
         \/ UNCHANGED vars
<1>1. ASSUME NEW c \in Calls, Discover(c) \/ Bind(c) \/ ClientStep(c) \/ Receive(c)
      PROVE ClientMoves(c) /\ UNCHANGED <<mgrVars, answers, announced>>
  BY <1>1 DEF Discover, Bind, ClientStep, Receive, ClientMoves
<1> QED
  BY <1>1 DEF Next, StopClient

\* What the server answers with has been announced.
LEMMA BufferHeard ==
  ASSUME IInv, NEW c \in Calls, Answer(c)
  PROVE  mgrBuffer \in announced
  BY DEF IInv, MgrInv, MgrOpenAlone, Heard, Answer, Manager!Quiescent, Manager!Drained,
         Manager!TypeOK

LEMMA InvStep == ASSUME IInv, [Next]_vars PROVE IInv'
<1> USE DEF IInv
<1>1. ASSUME UNCHANGED mgrVars PROVE MgrInv'
  BY <1>1 DEF mgrVars, MgrInv, Manager!TypeOK, MgrPaired, MgrHeld, MgrOpenAlone
<1>2. ASSUME UNCHANGED clientVars PROVE ClientInv'
  BY <1>2 DEF clientVars, ClientInv, Client!TypeOK, Paired, Held, OpenAlone, Fresh
<1>3. ASSUME UNCHANGED <<mgrVars, answers, announced>> PROVE Heard'
  BY <1>3 DEF mgrVars, Heard
<1>4. ASSUME Client!Stop \/ \E c \in Calls : ClientMoves(c),
             UNCHANGED <<mgrVars, answers, announced>>
      PROVE IInv'
  BY <1>1, <1>3, <1>4, ClientStepInv, StopInv
<1>5. CASE ManagerStep
  <2>1. MgrInv' /\ ClientInv'
    BY <1>2, <1>5, MgrStep DEF ManagerStep
  <2>2. Heard'
    BY <1>5 DEF ManagerStep, Heard
  <2> QED
    BY <2>1, <2>2
<1>6. ASSUME NEW c \in Calls, Answer(c) PROVE IInv'
  <2>1. Heard'
    BY <1>6, BufferHeard DEF Answer, Heard, mgrVars
  <2> QED
    BY <1>1, <1>2, <1>6, <2>1 DEF Answer
<1>7. CASE UNCHANGED vars
  BY <1>1, <1>2, <1>3, <1>7 DEF vars
<1> QED
  BY <1>4, <1>5, <1>6, <1>7, Movers

LEMMA Inductive == Spec => []IInv
  BY InitInv, InvStep, PTL DEF Spec

-----------------------------------------------------------------------------
\* Both sides keep the types of their variables, and no discovery collects what
\* no manager answers.
THEOREM TypeCorrect == Spec => []TypeOK
<1>1. IInv => TypeOK
  BY DEF IInv, ClientInv, MgrInv, TypeOK
<1> QED
  BY <1>1, Inductive, PTL

\* The provider's discovery has one live socket, the one its stop() closes, and
\* nobody waits on another.
THEOREM SocketIsOwned == Spec => []OneSocket
<1>1. IInv => OneSocket
  BY DEF IInv, ClientInv, Paired, Held, OpenAlone, OneSocket, Client!OneSocket
<1> QED
  BY <1>1, Inductive, PTL

\* Every datagram that can reach the manager's server is answered, and not with
\* nothing.
THEOREM AlwaysAnswerable == Spec => []Answerable
<1>1. IInv => Answerable
  BY DEF IInv, MgrInv, MgrOpenAlone, Answerable, Manager!Answerable, Manager!Quiescent,
         Manager!Drained
<1> QED
  BY <1>1, Inductive, PTL

-----------------------------------------------------------------------------
\* What discoveries have found.
Known == [c \in Calls |-> IF result[c] = "found" THEN found[c] ELSE {}]

\* A discovery succeeds only with a datagram, and closes the socket; without one
\* nothing changes of what is known.
LEMMA FoundBy ==
  ASSUME ClientInv, NEW c \in Calls, NEW d, Client!Receive(c, d)
  PROVE  LET cs == {b \in Calls : result[b] # "found" /\ result'[b] = "found"} IN
         /\ Known' = [b \in Calls |-> IF b \in cs THEN {d} ELSE Known[b]]
         /\ \A b \in cs : Known[b] = {}
         /\ cs # {} => d \in Infos /\ state' = "Stopped" /\ conn' = [conn EXCEPT ![socket] = "closed"]
<1> DEFINE cs == {b \in Calls : result[b] # "found" /\ result'[b] = "found"}
           content == IF d \in Infos
                      THEN {b \in Calls : pc[b] \in {"waiting", "late"} /\ limit[b] <= 1} ELSE {}
<1> USE DEF ClientInv, Client!TypeOK, Fresh, Known, Client!Receive, Client!Settle, Client!Readable
<1>1. cs = content
  <2>1. CASE d \in Infos
    <3>1. result' = [b \in Calls |-> IF b \in content THEN "found" ELSE result[b]]
      BY <2>1
    <3> QED
      BY <2>1, <3>1
  <2>2. CASE d \notin Infos
    BY <2>2
  <2> QED
    BY <2>1, <2>2
<1>2. Known' = [b \in Calls |-> IF b \in content THEN {d} ELSE Known[b]]
  <2> DEFINE takers == {b \in Calls : pc[b] \in {"waiting", "late"}}
  <2>1. CASE d \in Infos
    <3>1. /\ found' = [b \in Calls |-> IF b \in takers THEN found[b] \cup {d} ELSE found[b]]
          /\ result' = [b \in Calls |-> IF b \in content THEN "found" ELSE result[b]]
      BY <2>1
    <3>2. content \subseteq takers /\ \A b \in takers : found[b] = {} /\ result[b] = "none"
      OBVIOUS
    <3> HIDE DEF content, takers, ClientInv, Client!TypeOK, Fresh, Client!Receive
    <3>3. \A b \in Calls : Known'[b] = IF b \in content THEN {d} ELSE Known[b]
      BY <3>1, <3>2
    <3> QED
      BY <3>3
  <2>2. CASE d \notin Infos
    BY <2>2
  <2> QED
    BY <2>1, <2>2
<1>3. \A b \in content : Known[b] = {}
  OBVIOUS
<1>4. content # {} => d \in Infos /\ state' = "Stopped" /\ conn' = [conn EXCEPT ![socket] = "closed"]
  BY DEF Client!CloseAfter
<1> QED
  BY <1>1, <1>2, <1>3, <1>4

LEMMA NotFoundBy ==
  ASSUME ClientInv, NEW c \in Calls, ClientMoves(c)
  PROVE  \/ \E d \in answers[c] \cup {Noise} : Client!Receive(c, d)
         \/ Known' = Known /\ \A b \in Calls : result'[b] = "found" => result[b] = "found"
<1> DEFINE Same == Known' = Known /\ \A b \in Calls : result'[b] = "found" => result[b] = "found"
<1> USE DEF ClientInv, Client!TypeOK, Fresh, Known, Client!Settle
<1>1. ASSUME NEW m \in Limits, Client!Discover(c, m) PROVE Same
  BY <1>1 DEF Client!Discover
<1>2. CASE Client!Bound(c) \/ Client!Wake(c) \/ Client!Timeout(c)
  BY <1>2 DEF Client!Bound, Client!Wake, Client!Timeout
<1>3. ASSUME NEW b \in BOOLEAN, Client!BindFails(c, b) PROVE Same
  BY <1>3 DEF Client!BindFails, Paired
<1>4. CASE Client!AbortSettle(c) \/ Client!SendFails(c)
  BY <1>4 DEF Client!AbortSettle, Client!SendFails
<1>5. CASE Client!SocketError(c)
  BY <1>5 DEF Client!SocketError, Client!Waiting
<1> HIDE DEF Same
<1> QED
  BY <1>1, <1>2, <1>3, <1>4, <1>5 DEF ClientMoves, Same

LEMMA OnlyReceived ==
  ASSUME IInv, [Next]_vars
  PROVE  \/ \E c \in Calls, d \in announced \cup {Noise} :
              Client!Receive(c, d) /\ UNCHANGED announced
         \/ Known' = Known /\ \A b \in Calls : result'[b] = "found" => result[b] = "found"
<1>1. ASSUME NEW c \in Calls, ClientMoves(c), UNCHANGED announced
      PROVE  \/ \E d \in announced \cup {Noise} : Client!Receive(c, d) /\ UNCHANGED announced
             \/ Known' = Known /\ \A b \in Calls : result'[b] = "found" => result[b] = "found"
  BY <1>1, NotFoundBy DEF IInv, Heard
<1>2. CASE Client!Stop
  BY <1>2 DEF Client!Stop, Client!Waiting, Known, IInv, ClientInv, Client!TypeOK, Fresh
<1>3. ASSUME UNCHANGED clientVars
      PROVE  Known' = Known /\ \A b \in Calls : result'[b] = "found" => result[b] = "found"
  BY <1>3 DEF clientVars, Known
<1> QED
  BY <1>1, <1>2, <1>3, Movers DEF ManagerStep, Answer, vars

\* A discovery that succeeds leaves no socket of the object open.
THEOREM FoundStopsAll == Spec => FoundCloses
<1> DEFINE Stops ==
      (\E c \in Calls : result[c] # "found" /\ result'[c] = "found") =>
          state' = "Stopped" /\ \A c \in Calls : conn'[c] \notin {"binding", "bound"}
<1>1. ASSUME IInv, [Next]_vars PROVE Stops
  <2> SUFFICES ASSUME NEW c \in Calls, NEW d, Client!Receive(c, d),
                      NEW b \in Calls, result[b] # "found" /\ result'[b] = "found"
               PROVE  state' = "Stopped" /\ \A e \in Calls : conn'[e] \notin {"binding", "bound"}
    BY <1>1, OnlyReceived
  <2>1. state' = "Stopped" /\ conn' = [conn EXCEPT ![socket] = "closed"]
    BY <1>1, FoundBy DEF IInv
  <2> QED
    BY <1>1, <2>1 DEF IInv, ClientInv, Client!TypeOK, Paired, Held, OpenAlone
<1> QED
  BY <1>1, Inductive, PTL DEF Spec, FoundCloses, Client!FoundCloses

\* What a discovery returns has been announced, and it returns once.
THEOREM DiscoveryIsDirectory == Spec => ImplementsDirectory
<1>1. Init => Dir!Init
  BY DEF Init, Client!Init, Dir!Init
<1>2. ASSUME IInv, [Next]_vars PROVE [Dir!Next]_(Dir!vars)
  <2>1. ASSUME NEW c \in Calls, NEW d \in announced \cup {Noise},
               Client!Receive(c, d), UNCHANGED announced
        PROVE  [Dir!Next]_(Dir!vars)
    <3> DEFINE cs == {b \in Calls : result[b] # "found" /\ result'[b] = "found"}
    <3>1. /\ Known' = [b \in Calls |-> IF b \in cs THEN {d} ELSE Known[b]]
          /\ \A b \in cs : Known[b] = {}
          /\ cs # {} => d \in Infos
      BY <1>2, <2>1, FoundBy DEF IInv
    <3>2. CASE cs = {}
      <4>1. Known' = Known
        BY <3>1, <3>2 DEF Known
      <4> QED
        BY <2>1, <4>1 DEF Known, Dir!vars
    <3>3. CASE cs # {}
      <4>1. d \in Infos /\ d \in announced
        BY <3>1, <3>3, InfosAssumption
      <4>2. Dir!Learn(cs, d)
        BY <2>1, <3>1, <4>1 DEF Known, Dir!Learn
      <4> QED
        BY <4>1, <4>2 DEF Dir!Next
    <3> QED
      BY <3>2, <3>3
  <2>2. ASSUME Known' = Known, UNCHANGED announced PROVE UNCHANGED Dir!vars
    BY <2>2 DEF Known, Dir!vars
  <2>3. CASE ManagerStep
    <3>1. Known' = Known
      BY <2>3 DEF ManagerStep, clientVars, Known
    <3>2. CASE UNCHANGED announced
      BY <2>2, <3>1, <3>2
    <3>3. ASSUME NEW i \in Infos, announced' = announced \cup {i} PROVE Dir!Next
      <4>1. Dir!Announce(i)
        BY <3>1, <3>3 DEF Known, Dir!Announce
      <4> QED
        BY <4>1 DEF Dir!Next
    <3> QED
      BY <2>3, <3>2, <3>3 DEF ManagerStep
  <2>4. CASE UNCHANGED announced
    BY <1>2, <2>1, <2>2, <2>4, OnlyReceived
  <2> QED
    BY <1>2, <2>3, <2>4, Movers DEF Answer, vars
<1> QED
  BY <1>1, <1>2, Inductive, PTL DEF Spec, ImplementsDirectory, Dir!Spec
=============================================================================
