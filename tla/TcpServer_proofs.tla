---------------------------- MODULE TcpServer_proofs ----------------------------
(***************************************************************************)
(* Proofs about TcpServer, for every set of runs and peers, every retry    *)
(* limit and every bound on the attempts.                                  *)
(***************************************************************************)
EXTENDS TcpServer, FiniteSetTheorems, TLAPS

Busy(r) == pc[r] \in {"binding", "sleeping"}

\* The promise of an attempt is pending as long as its server binds.
Paired == \A r \in Runs : pc[r] = "binding" <=> conn[r] = "binding"

\* The server the object holds is that of the one run in flight.
Held ==
    /\ \A r \in Runs : Busy(r) => server = r
    /\ state # "Stopped" => server \in Runs

\* While a server is open the state says so and no run can disturb it.
OpenAlone ==
    \A r \in Runs : conn[r] = "open" =>
        /\ server = r /\ state = "Listening"
        /\ Quiescent /\ \A q \in Runs : ~Busy(q)

\* An open connection is known, and its server is open.
ConnKnown ==
    \A p \in Peers : accepted[p] = "open" =>
        p \in sockets /\ home[p] \in Runs /\ conn[home[p]] = "open"

IInv == TypeOK /\ Paired /\ Held /\ OpenAlone /\ ConnKnown

-----------------------------------------------------------------------------
LEMMA InitInv == Init => IInv
<1> SUFFICES ASSUME Init PROVE IInv
  OBVIOUS
<1> USE RunsAssumption DEF Init
<1>1. TypeOK
  BY DEF TypeOK, ExecutionState, Places
<1>2. Paired /\ Held /\ OpenAlone /\ ConnKnown
  BY DEF Paired, Held, OpenAlone, ConnKnown, Busy
<1> QED
  BY <1>1, <1>2 DEF IInv

\* Types.
LEMMA TypeStep == ASSUME TypeOK, Held, [Next]_vars PROVE TypeOK'
<1> USE DEF TypeOK, ExecutionState, Places, Goto, connVars
<1>1. ASSUME NEW r \in Runs, Start(r) PROVE TypeOK'
  BY <1>1 DEF Start
<1>2. ASSUME NEW r \in Runs, Listening(r) PROVE TypeOK'
  BY <1>2 DEF Listening
<1>3. ASSUME NEW r \in Runs, NEW b \in BOOLEAN, ListenFails(r, b) PROVE TypeOK'
  BY <1>3 DEF ListenFails
<1>4. ASSUME NEW r \in Runs, Wake(r) PROVE TypeOK'
  BY <1>4 DEF Wake
<1>5. ASSUME NEW r \in Runs, AbortSettle(r) \/ CloseEvent(r) \/ StopReturns(r) PROVE TypeOK'
  BY <1>5 DEF AbortSettle, CloseEvent, StopReturns
<1>6. ASSUME NEW p \in Peers, Accept(p) \/ SocketError(p) \/ SocketClosed(p) PROVE TypeOK'
  BY <1>6 DEF Accept, SocketError, SocketClosed
<1>7. ASSUME Stop PROVE TypeOK'
  BY <1>7 DEF Stop, StopAccepts, CloseServer, Destroy, Held
<1>8. CASE UNCHANGED vars
  BY <1>8 DEF vars
<1> QED
  BY <1>1, <1>2, <1>3, <1>4, <1>5, <1>6, <1>7, <1>8 DEF Next

\* Places and servers.
LEMMA PlacesStep ==
  ASSUME TypeOK, Paired, Held, OpenAlone, [Next]_vars
  PROVE  Paired' /\ Held' /\ OpenAlone'
<1> USE RunsAssumption DEF TypeOK, Paired, Held, OpenAlone, Busy, Goto, Quiescent, Drained
<1>1. ASSUME NEW r \in Runs, Start(r) PROVE Paired' /\ Held' /\ OpenAlone'
  BY <1>1 DEF Start, StartAccepts
<1>2. ASSUME NEW r \in Runs, Listening(r) PROVE Paired' /\ Held' /\ OpenAlone'
  BY <1>2 DEF Listening
<1>3. ASSUME NEW r \in Runs, NEW b \in BOOLEAN, ListenFails(r, b)
      PROVE Paired' /\ Held' /\ OpenAlone'
  BY <1>3 DEF ListenFails
<1>4. ASSUME NEW r \in Runs, Wake(r) PROVE Paired' /\ Held' /\ OpenAlone'
  BY <1>4 DEF Wake
<1>5. ASSUME NEW r \in Runs, AbortSettle(r) PROVE Paired' /\ Held' /\ OpenAlone'
  BY <1>5 DEF AbortSettle
<1>6. ASSUME NEW r \in Runs, CloseEvent(r) PROVE Paired' /\ Held' /\ OpenAlone'
  BY <1>6 DEF CloseEvent
<1>7. ASSUME NEW r \in Runs, StopReturns(r) PROVE Paired' /\ Held' /\ OpenAlone'
  BY <1>7 DEF StopReturns
<1>8. ASSUME NEW p \in Peers, Accept(p) \/ SocketError(p) \/ SocketClosed(p)
      PROVE Paired' /\ Held' /\ OpenAlone'
  BY <1>8 DEF Accept, SocketError, SocketClosed
<1>9. ASSUME Stop PROVE Paired' /\ Held' /\ OpenAlone'
  BY <1>9 DEF Stop, StopAccepts, CloseServer
<1>10. CASE UNCHANGED vars
  BY <1>10 DEF vars
<1> QED
  BY <1>1, <1>2, <1>3, <1>4, <1>5, <1>6, <1>7, <1>8, <1>9, <1>10 DEF Next

\* Connections.  A server never opens while connections of another are open.
LEMMA ConnStep ==
  ASSUME TypeOK, Paired, Held, OpenAlone, ConnKnown, [Next]_vars
  PROVE  ConnKnown'
<1> USE DEF TypeOK, Paired, OpenAlone, ConnKnown, connVars
<1>1. ASSUME NEW r \in Runs, Start(r) PROVE ConnKnown'
  BY <1>1 DEF Start, StartAccepts
<1>2. ASSUME NEW r \in Runs, Listening(r) PROVE ConnKnown'
  BY <1>2 DEF Listening
<1>3. ASSUME NEW r \in Runs, NEW b \in BOOLEAN, ListenFails(r, b) PROVE ConnKnown'
  BY <1>3 DEF ListenFails
<1>4. ASSUME NEW r \in Runs, Wake(r) PROVE ConnKnown'
  BY <1>4 DEF Wake, Busy
<1>5. ASSUME NEW r \in Runs, AbortSettle(r) \/ CloseEvent(r) \/ StopReturns(r) PROVE ConnKnown'
  BY <1>5 DEF AbortSettle, CloseEvent, StopReturns
<1>6. ASSUME NEW p \in Peers, Accept(p) \/ SocketError(p) \/ SocketClosed(p) PROVE ConnKnown'
  BY <1>6 DEF Accept, SocketError, SocketClosed
<1>7. ASSUME Stop PROVE ConnKnown'
  BY <1>7 DEF Stop, Destroy
<1>8. CASE UNCHANGED vars
  BY <1>8 DEF vars
<1> QED
  BY <1>1, <1>2, <1>3, <1>4, <1>5, <1>6, <1>7, <1>8 DEF Next

LEMMA Inductive == Spec => []IInv
<1>1. IInv /\ [Next]_vars => IInv'
  BY TypeStep, PlacesStep, ConnStep DEF IInv
<1> QED
  BY InitInv, <1>1, PTL DEF Spec

-----------------------------------------------------------------------------
\* Every variable of the server has its type along every run of start() and stop().
THEOREM TypeCorrect == Spec => []TypeOK
<1>1. IInv => TypeOK
  BY DEF IInv
<1> QED
  BY <1>1, Inductive, PTL

\* What listens, or is connected, is known to the server: stop() closes it.
THEOREM ServerIsOwned == Spec => []OneServer
<1>1. IInv => OneServer
  BY DEF IInv, OneServer, Paired, Held, OpenAlone, ConnKnown, Busy
<1> QED
  BY <1>1, Inductive, PTL

-----------------------------------------------------------------------------
\* The metric.
Alive == {p \in Peers : accepted[p] \in {"open", "closing"}}
Counted == active = Cardinality(Alive)

LEMMA CountStep ==
  ASSUME TypeOK, Counted, [Next]_vars
  PROVE  Counted'
<1> USE DEF TypeOK, Counted, connVars
<1>1. IsFiniteSet(Alive) /\ Cardinality(Alive) \in Nat
  BY RunsAssumption, FS_Subset, FS_CardinalityType DEF Alive
<1>2. ASSUME Alive' = Alive, active' = active PROVE active' = Cardinality(Alive')
  BY <1>2
<1>3. ASSUME NEW p \in Peers, Accept(p) PROVE active' = Cardinality(Alive')
  <2>1. Alive' = Alive \cup {p} /\ p \notin Alive /\ active' = active + 1
    BY <1>3 DEF Accept, Alive
  <2>2. Cardinality(Alive \cup {p}) = Cardinality(Alive) + 1
    BY <2>1, <1>1, FS_AddElement
  <2> QED
    BY <2>1, <2>2
<1>4. ASSUME NEW p \in Peers, SocketClosed(p) PROVE active' = Cardinality(Alive')
  <2>1. Alive' = Alive \ {p} /\ p \in Alive /\ active' = active - 1
    BY <1>4 DEF SocketClosed, Alive
  <2>2. Cardinality(Alive \ {p}) = Cardinality(Alive) - 1
    BY <2>1, <1>1, FS_RemoveElement
  <2> QED
    BY <2>1, <2>2
<1>5. ASSUME NEW p \in Peers, SocketError(p) PROVE active' = Cardinality(Alive')
  BY <1>2, <1>5 DEF SocketError, Alive
<1>6. ASSUME NEW r \in Runs,
             Start(r) \/ Listening(r) \/ Wake(r) \/ AbortSettle(r) \/ CloseEvent(r) \/ StopReturns(r)
      PROVE active' = Cardinality(Alive')
  BY <1>2, <1>6 DEF Start, Listening, Wake, AbortSettle, CloseEvent, StopReturns, Alive
<1>7. ASSUME NEW r \in Runs, NEW b \in BOOLEAN, ListenFails(r, b)
      PROVE active' = Cardinality(Alive')
  BY <1>2, <1>7 DEF ListenFails, Alive
<1>8. ASSUME Stop PROVE active' = Cardinality(Alive')
  BY <1>2, <1>8 DEF Stop, Destroy, Alive
<1>9. CASE UNCHANGED vars
  BY <1>2, <1>9 DEF vars, Alive
<1> QED
  BY <1>3, <1>4, <1>5, <1>6, <1>7, <1>8, <1>9 DEF Next

\* The metric shows the connections of the server that are not closed, and each once.
THEOREM MetricIsExact == Spec => []ConnectionsCounted
<1>1. Init => Counted
  BY FS_EmptySet DEF Init, Counted, Alive
<1>2. IInv /\ Counted /\ [Next]_vars => Counted'
  BY CountStep DEF IInv
<1>3. Counted => ConnectionsCounted
  BY DEF Counted, ConnectionsCounted, Alive
<1> QED
  BY <1>1, <1>2, <1>3, Inductive, PTL DEF Spec

-----------------------------------------------------------------------------
\* The server implements Connection.
Seen ==
    /\ status \in {"up", "starting", "down"}
    /\ status = "up" <=> \E r \in Runs : conn[r] = "open"
    /\ status = "starting" <=> \E r \in Runs : Busy(r)
    /\ owner = IF status = "starting" THEN server ELSE NoRun

LEMMA SeenOf == IInv => Seen
<1> SUFFICES ASSUME IInv PROVE Seen
  OBVIOUS
<1> USE DEF IInv, OpenAlone, Held, Seen, Busy
<1>1. status = "starting" <=> \E r \in Runs : Busy(r)
  BY DEF status
<1>2. ASSUME status = "starting" PROVE owner = server
  <2>1. \A r \in Runs : Busy(r) => r = server
    OBVIOUS
  <2> QED
    BY <1>1, <1>2, <2>1 DEF owner
<1> QED
  BY <1>1, <1>2 DEF status, owner

LEMMA SeenAlways == Spec => [](IInv /\ Seen)
  BY Inductive, SeenOf, PTL

LEMMA TaskStep ==
  ASSUME IInv, Seen, IInv', Seen', [Next]_vars
  PROVE  [Task!Next]_(Task!vars)
<1> USE RunsAssumption
    DEF IInv, TypeOK, Paired, Held, OpenAlone, Seen, Busy, pending, Goto, Task!vars
<1>1. ASSUME NEW r \in Runs, Start(r) PROVE Task!Start(r)
  BY <1>1 DEF Start, StartAccepts, Task!Start
<1>2. ASSUME NEW r \in Runs, Listening(r) PROVE Task!Up(r)
  BY <1>2 DEF Listening, Task!Up
<1>3. ASSUME NEW r \in Runs, NEW b \in BOOLEAN, ListenFails(r, b)
      PROVE Task!Down \/ Task!GiveUp(r) \/ UNCHANGED Task!vars
  BY <1>3 DEF ListenFails, Task!Down, Task!GiveUp
<1>4. ASSUME NEW r \in Runs, Wake(r) PROVE UNCHANGED Task!vars
  BY <1>4 DEF Wake
<1>5. ASSUME NEW r \in Runs, AbortSettle(r) PROVE Task!LateReturn(r)
  BY <1>5 DEF AbortSettle, Task!LateReturn
<1>6. ASSUME NEW r \in Runs, CloseEvent(r) PROVE Task!LateReturn(r) \/ UNCHANGED Task!vars
  BY <1>6 DEF CloseEvent, Task!LateReturn
<1>7. ASSUME NEW r \in Runs, StopReturns(r) PROVE UNCHANGED Task!vars
  BY <1>7 DEF StopReturns
<1>8. ASSUME NEW p \in Peers, Accept(p) \/ SocketError(p) \/ SocketClosed(p)
      PROVE UNCHANGED Task!vars
  BY <1>8 DEF Accept, SocketError, SocketClosed
<1>9. ASSUME Stop PROVE Task!Down \/ UNCHANGED Task!vars
  BY <1>9 DEF Stop, StopAccepts, CloseServer, Task!Down
<1>10. CASE UNCHANGED vars
  BY <1>10 DEF vars
<1> QED
  BY <1>1, <1>2, <1>3, <1>4, <1>5, <1>6, <1>7, <1>8, <1>9, <1>10 DEF Next, Task!Next

\* A TcpServer is to its owner what ServiceLifeCycle takes a task to be.
THEOREM ServerIsConnection == Spec => ImplementsConnection
<1>1. Init => Task!Init
  BY DEF Init, status, owner, pending, Task!Init
<1>2. IInv /\ Seen /\ (IInv /\ Seen)' /\ [Next]_vars => [Task!Next]_(Task!vars)
  BY TaskStep
<1> QED
  BY <1>1, <1>2, SeenAlways, PTL DEF Spec, ImplementsConnection, Task!Spec
=============================================================================
