---------------------------- MODULE TcpClient_proofs ----------------------------
(***************************************************************************)
(* Proofs about TcpClient, for every set of runs, every retry limit and    *)
(* every bound on the attempts.                                            *)
(***************************************************************************)
EXTENDS TcpClient, FiniteSetTheorems, TLAPS

\* The promise of an attempt is pending as long as its socket connects.
Paired == \A r \in Runs : pc[r] = "connecting" <=> conn[r] = "connecting"

\* The scheduler the client holds has begun to run.
Held ==
    /\ current \in Runs => pc[current] # "idle"
    /\ state # "Stopped" => current \in Runs
    /\ \A r \in Runs : pc[r] # "idle" \/ conn[r] # "none" => current \in Runs

\* It is that of the one run in flight.
Sole == \A r \in Runs : InFlight(r) => current = r

\* While a connection is open the state says so and no run can disturb it.
OpenAlone ==
    \A r \in Runs : conn[r] = "open" =>
        state = "Running" /\ \A q \in Runs : ~InFlight(q) /\ pc[q] # "aborting"

\* The last two hold, and with them Owned, until a second start() joins a first.
Single == ~doubled => Sole /\ OpenAlone /\ Owned

\* An aborted run is at a place it makes no attempt from.
AbortedRest == aborted \subseteq {r \in Runs : pc[r] \in {"aborting", "hung", "done"}}

\* What a run has tried, and what it may still try.
Tries ==
    \A r \in Runs :
        /\ MaxRetries > 0 /\ pc[r] = "sleeping" => attempt[r] < MaxRetries
        /\ result[r] # "none" => pc[r] = "done"

IInv == TypeOK /\ Paired /\ Held /\ Single /\ AbortedRest /\ Tries /\ GivesUpLast

-----------------------------------------------------------------------------
LEMMA InitInv == Init => IInv
<1> SUFFICES ASSUME Init PROVE IInv
  OBVIOUS
<1> USE RunsAssumption, RetriesAssumption DEF Init
<1>1. TypeOK
  BY DEF TypeOK, ExecutionState, Places, Sockets, Results
<1>2. Paired /\ Held /\ Single /\ AbortedRest
  BY DEF Paired, Held, Single, Sole, OpenAlone, Owned, AbortedRest, InFlight
<1>3. Tries /\ GivesUpLast
  BY DEF Tries, GivesUpLast
<1> QED
  BY <1>1, <1>2, <1>3 DEF IInv

\* A step that does not stutter starts where no live socket has been replaced.
LEMMA OwnedBefore == ASSUME Single, Followed PROVE Owned
  BY DEF Single, Followed, Lost

\* Types.
LEMMA TypeStep == ASSUME TypeOK, Held, [Next]_vars PROVE TypeOK'
<1> USE DEF TypeOK, ExecutionState, Places, Sockets, Results
<1>1. ASSUME NEW r \in Runs, Start(r) PROVE TypeOK'
  BY <1>1 DEF Start
<1>2. ASSUME NEW r \in Runs, Connect(r) PROVE TypeOK'
  BY <1>2 DEF Connect, Settle
<1>3. ASSUME NEW r \in Runs, NEW b \in BOOLEAN, ConnectFails(r, b) PROVE TypeOK'
  BY <1>3 DEF ConnectFails, Settle
<1>4. ASSUME NEW r \in Runs, Wake(r) PROVE TypeOK'
  BY <1>4 DEF Wake, Settle
<1>5. ASSUME NEW r \in Runs, AbortSettle(r) PROVE TypeOK'
  BY <1>5 DEF AbortSettle, Settle
<1>6. ASSUME NEW r \in Runs, RemoteClose(r) \/ SocketError(r) \/ Closed(r) PROVE TypeOK'
  BY <1>6 DEF RemoteClose, SocketError, Closed
<1>7. ASSUME Stop PROVE TypeOK'
  <2>1. CASE StopAccepts
    BY <1>7, <2>1 DEF Stop, StopAccepts, Destroy, Held
  <2>2. CASE ~StopAccepts
    BY <1>7, <2>2 DEF Stop
  <2> QED
    BY <2>1, <2>2
<1>8. CASE UNCHANGED vars
  BY <1>8 DEF vars
<1> QED
  BY <1>1, <1>2, <1>3, <1>4, <1>5, <1>6, <1>7, <1>8 DEF Next

\* Places and sockets of each run, whether it is alone or not.
LEMMA PlacesStep == ASSUME TypeOK, Paired, Held, [Next]_vars PROVE Paired' /\ Held'
<1> USE RunsAssumption DEF TypeOK, Paired, Held
<1>1. ASSUME NEW r \in Runs, Start(r) PROVE Paired' /\ Held'
  BY <1>1 DEF Start
<1>2. ASSUME NEW r \in Runs, Connect(r) PROVE Paired' /\ Held'
  BY <1>2 DEF Connect, Settle
<1>3. ASSUME NEW r \in Runs, NEW b \in BOOLEAN, ConnectFails(r, b) PROVE Paired' /\ Held'
  BY <1>3 DEF ConnectFails, Settle
<1>4. ASSUME NEW r \in Runs, Wake(r) PROVE Paired' /\ Held'
  BY <1>4 DEF Wake, Settle
<1>5. ASSUME NEW r \in Runs, AbortSettle(r) PROVE Paired' /\ Held'
  BY <1>5 DEF AbortSettle, Settle
<1>6. ASSUME NEW r \in Runs, RemoteClose(r) \/ SocketError(r) \/ Closed(r)
      PROVE Paired' /\ Held'
  BY <1>6 DEF RemoteClose, SocketError, Closed
<1>7. ASSUME Stop PROVE Paired' /\ Held'
  <2>1. CASE StopAccepts
    BY <1>7, <2>1 DEF Stop, StopAccepts, Destroy
  <2>2. CASE ~StopAccepts
    BY <1>7, <2>2 DEF Stop
  <2> QED
    BY <2>1, <2>2
<1>8. CASE UNCHANGED vars
  BY <1>8 DEF vars
<1> QED
  BY <1>1, <1>2, <1>3, <1>4, <1>5, <1>6, <1>7, <1>8 DEF Next

\* As long as a run is alone, only it and, in a stop, the run whose socket and
\* scheduler the client holds change.
LEMMA SingleStep ==
  ASSUME TypeOK, Paired, Held, Single, [Next]_vars
  PROVE  Single'
<1> SUFFICES ASSUME ~doubled' PROVE Sole' /\ OpenAlone' /\ Owned'
  BY DEF Single
<1> DEFINE Alone == Sole' /\ OpenAlone' /\ Owned'
<1> USE RunsAssumption DEF TypeOK, Paired, Held, Sole, OpenAlone, Owned, InFlight
<1>1. ASSUME NEW r \in Runs, Start(r) PROVE Alone
  BY <1>1 DEF Start, StartAccepts, Single
<1>0. ASSUME UNCHANGED doubled PROVE Sole /\ OpenAlone /\ Owned
  BY <1>0 DEF Single
<1>2. ASSUME NEW r \in Runs, Connect(r) PROVE Alone
  BY <1>0, <1>2 DEF Connect, Settle, Quiescent
<1>3. ASSUME NEW r \in Runs, NEW b \in BOOLEAN, ConnectFails(r, b) PROVE Alone
  BY <1>0, <1>3 DEF ConnectFails, Settle, Quiescent
<1>4. ASSUME NEW r \in Runs, Wake(r) PROVE Alone
  BY <1>0, <1>4 DEF Wake, Settle, Quiescent
<1>5. ASSUME NEW r \in Runs, AbortSettle(r) PROVE Alone
  BY <1>0, <1>5 DEF AbortSettle, Settle
<1>6. ASSUME NEW r \in Runs, RemoteClose(r) \/ SocketError(r) \/ Closed(r) PROVE Alone
  BY <1>0, <1>6 DEF RemoteClose, SocketError, Closed, Quiescent
<1>7. ASSUME Stop PROVE Alone
  <2>1. CASE StopAccepts
    BY <1>0, <1>7, <2>1 DEF Stop, StopAccepts, Destroy
  <2>2. CASE ~StopAccepts
    BY <1>0, <1>7, <2>2 DEF Stop
  <2> QED
    BY <2>1, <2>2
<1>8. CASE UNCHANGED vars
  BY <1>0, <1>8 DEF vars
<1> QED
  BY <1>1, <1>2, <1>3, <1>4, <1>5, <1>6, <1>7, <1>8 DEF Next

\* Attempts: only a run that is not aborted makes one, and only below the limit.
LEMMA TriesStep ==
  ASSUME TypeOK, Paired, Held, Single, AbortedRest, Tries, GivesUpLast, [Next]_vars
  PROVE  AbortedRest' /\ Tries' /\ GivesUpLast'
<1> USE RetriesAssumption DEF TypeOK, AbortedRest, Tries, GivesUpLast
<1>1. ASSUME NEW r \in Runs, Start(r) PROVE AbortedRest' /\ Tries' /\ GivesUpLast'
  BY <1>1 DEF Start
<1>2. ASSUME NEW r \in Runs, Connect(r) PROVE AbortedRest' /\ Tries' /\ GivesUpLast'
  BY <1>2 DEF Connect, Settle, Paired
<1>3. ASSUME NEW r \in Runs, NEW b \in BOOLEAN, ConnectFails(r, b)
      PROVE AbortedRest' /\ Tries' /\ GivesUpLast'
  BY <1>3 DEF ConnectFails, Settle, Paired, Exhausted
<1>4. ASSUME NEW r \in Runs, Wake(r) PROVE AbortedRest' /\ Tries' /\ GivesUpLast'
  BY <1>4 DEF Wake, Settle
<1>5. ASSUME NEW r \in Runs, AbortSettle(r) PROVE AbortedRest' /\ Tries' /\ GivesUpLast'
  BY <1>5 DEF AbortSettle, Settle
<1>6. ASSUME NEW r \in Runs, RemoteClose(r) \/ SocketError(r) \/ Closed(r)
      PROVE AbortedRest' /\ Tries' /\ GivesUpLast'
  BY <1>6 DEF RemoteClose, SocketError, Closed
<1>7. ASSUME Stop, Followed PROVE AbortedRest' /\ Tries' /\ GivesUpLast'
  <2>1. CASE StopAccepts
    <3>1. Owned
      BY <1>7, OwnedBefore
    <3>2. AbortedRest'
      BY <1>7, <2>1, <3>1 DEF Stop, StopAccepts, Held, Paired, Owned, Places
    <3>3. Tries' /\ GivesUpLast'
      BY <1>7, <2>1 DEF Stop
    <3> QED
      BY <3>2, <3>3
  <2>2. CASE ~StopAccepts
    BY <1>7, <2>2 DEF Stop
  <2> QED
    BY <2>1, <2>2
<1>8. CASE UNCHANGED vars
  BY <1>8 DEF vars
<1> QED
  BY <1>1, <1>2, <1>3, <1>4, <1>5, <1>6, <1>7, <1>8 DEF Next

LEMMA Inductive == Spec => []IInv
<1>1. IInv /\ [Next]_vars => IInv'
  BY TypeStep, PlacesStep, SingleStep, TriesStep DEF IInv
<1> QED
  BY InitInv, <1>1, PTL DEF Spec

-----------------------------------------------------------------------------
\* Every variable of the client has its type along every run of start() and stop().
THEOREM TypeCorrect == Spec => []TypeOK
<1>1. IInv => TypeOK
  BY DEF IInv
<1> QED
  BY <1>1, Inductive, PTL

\* As long as no start() is called while an earlier one is in flight, no two sockets
\* of a client are live at once, and the live one is the one that stop() destroys and
\* write() uses.
THEOREM SocketIsOwned == Spec => []OneSocket
<1>1. IInv => OneSocket
  BY DEF IInv, Single, OneSocket
<1> QED
  BY <1>1, Inductive, PTL

\* start() gives up exactly when max_retries attempts have failed.
THEOREM RetriesAreExact == Spec => []GivesUpLast
<1>1. IInv => GivesUpLast
  BY DEF IInv
<1> QED
  BY <1>1, Inductive, PTL

\* A stopped run neither tries again nor opens a connection.
THEOREM AbortHolds == Spec => AbortIsFinal
<1> DEFINE Rests == \A r \in aborted : attempt'[r] = attempt[r] /\ (conn'[r] = "open" => conn[r] = "open")
<1>1. ASSUME IInv, [Next]_vars PROVE Rests
  <2> USE <1>1 DEF IInv, TypeOK, Paired, AbortedRest
  <2>1. ASSUME NEW r \in Runs, Start(r) PROVE Rests
    BY <2>1 DEF Start
  <2>2. ASSUME NEW r \in Runs, Connect(r) PROVE Rests
    BY <2>2 DEF Connect
  <2>3. ASSUME NEW r \in Runs, NEW b \in BOOLEAN, ConnectFails(r, b) PROVE Rests
    BY <2>3 DEF ConnectFails
  <2>4. ASSUME NEW r \in Runs, Wake(r) PROVE Rests
    BY <2>4 DEF Wake
  <2>5. ASSUME NEW r \in Runs, AbortSettle(r) PROVE Rests
    BY <2>5 DEF AbortSettle
  <2>6. ASSUME NEW r \in Runs, RemoteClose(r) \/ SocketError(r) \/ Closed(r) PROVE Rests
    BY <2>6 DEF RemoteClose, SocketError, Closed
  <2>7. ASSUME Stop PROVE Rests
    BY <2>7 DEF Stop, Destroy
  <2>8. CASE UNCHANGED vars
    BY <2>8 DEF vars
  <2> QED
    BY <2>1, <2>2, <2>3, <2>4, <2>5, <2>6, <2>7, <2>8 DEF Next
<1>2. IInv /\ [Next]_vars => [Rests]_vars
  BY <1>1
<1> QED
  BY <1>2, Inductive, PTL DEF Spec, AbortIsFinal

-----------------------------------------------------------------------------
\* The metric.  A connection is made by a run that settles with it, so that no
\* attempt takes the place of one that is still to be closed.
Alive == {r \in Runs : conn[r] \in {"open", "closing"}}
MadeOnce == \A r \in Runs : conn[r] \in {"open", "closing", "closed"} => pc[r] = "done"
Counted == MadeOnce /\ active = Cardinality(Alive)

LEMMA MadeOnceStep == ASSUME TypeOK, MadeOnce, [Next]_vars PROVE MadeOnce'
<1> USE DEF TypeOK, MadeOnce, Settle
<1>1. ASSUME NEW r \in Runs, Start(r) \/ Connect(r) \/ Wake(r) \/ AbortSettle(r) PROVE MadeOnce'
  BY <1>1 DEF Start, Connect, Wake, AbortSettle
<1>2. ASSUME NEW r \in Runs, NEW b \in BOOLEAN, ConnectFails(r, b) PROVE MadeOnce'
  BY <1>2 DEF ConnectFails
<1>3. ASSUME NEW r \in Runs, RemoteClose(r) \/ SocketError(r) \/ Closed(r) PROVE MadeOnce'
  BY <1>3 DEF RemoteClose, SocketError, Closed
<1>4. ASSUME Stop PROVE MadeOnce'
  BY <1>4 DEF Stop, Destroy
<1>5. CASE UNCHANGED vars
  BY <1>5 DEF vars
<1> QED
  BY <1>1, <1>2, <1>3, <1>4, <1>5 DEF Next

LEMMA CountStep ==
  ASSUME TypeOK, MadeOnce, active = Cardinality(Alive), [Next]_vars
  PROVE  active' = Cardinality(Alive')
<1> USE DEF TypeOK
<1>1. IsFiniteSet(Alive) /\ Cardinality(Alive) \in Nat
  BY RunsAssumption, FS_Subset, FS_CardinalityType DEF Alive
<1>2. ASSUME Alive' = Alive, active' = active PROVE active' = Cardinality(Alive')
  BY <1>2
<1>3. ASSUME NEW r \in Runs, Connect(r) PROVE active' = Cardinality(Alive')
  <2>1. Alive' = Alive \cup {r} /\ r \notin Alive /\ active' = active + 1
    BY <1>3 DEF Connect, Alive
  <2>2. Cardinality(Alive \cup {r}) = Cardinality(Alive) + 1
    BY <2>1, <1>1, FS_AddElement
  <2> QED
    BY <2>1, <2>2
<1>4. ASSUME NEW r \in Runs, RemoteClose(r) \/ Closed(r) PROVE active' = Cardinality(Alive')
  <2>1. Alive' = Alive \ {r} /\ r \in Alive /\ active' = active - 1
    BY <1>4 DEF RemoteClose, Closed, Alive
  <2>2. Cardinality(Alive \ {r}) = Cardinality(Alive) - 1
    BY <2>1, <1>1, FS_RemoveElement
  <2> QED
    BY <2>1, <2>2
<1>5. ASSUME NEW r \in Runs, Start(r) \/ Wake(r) \/ AbortSettle(r) \/ SocketError(r)
      PROVE active' = Cardinality(Alive')
  BY <1>2, <1>5 DEF Start, Wake, AbortSettle, SocketError, MadeOnce, Alive
<1>6. ASSUME NEW r \in Runs, NEW b \in BOOLEAN, ConnectFails(r, b)
      PROVE active' = Cardinality(Alive')
  BY <1>2, <1>6 DEF ConnectFails, Alive
<1>7. ASSUME Stop PROVE active' = Cardinality(Alive')
  BY <1>2, <1>7 DEF Stop, Destroy, Alive
<1>8. CASE UNCHANGED vars
  BY <1>2, <1>8 DEF vars, Alive
<1> QED
  BY <1>3, <1>4, <1>5, <1>6, <1>7, <1>8 DEF Next

\* The metric shows the connections of the client that are not closed, and each once.
THEOREM MetricIsExact == Spec => []ConnectionsCounted
<1>1. Init => Counted
  BY FS_EmptySet DEF Init, Counted, MadeOnce, Alive
<1>2. IInv /\ Counted /\ [Next]_vars => Counted'
  BY MadeOnceStep, CountStep DEF IInv, Counted
<1>3. Counted => ConnectionsCounted
  BY DEF Counted, ConnectionsCounted, Alive
<1> QED
  BY <1>1, <1>2, <1>3, Inductive, PTL DEF Spec

-----------------------------------------------------------------------------
\* The client implements Connection.  What an owner sees follows from the places
\* and sockets; the run that brings the client up is the one whose scheduler it
\* holds.
Seen ==
    ~doubled =>
        /\ status \in {"up", "starting", "down"}
        /\ status = "up" <=> \E r \in Runs : conn[r] = "open"
        /\ status = "starting" <=> \E r \in Runs : InFlight(r)
        /\ owner = IF status = "starting" THEN current ELSE NoRun

LEMMA SeenOf == IInv => Seen
<1> SUFFICES ASSUME IInv, ~doubled PROVE Seen
  BY DEF Seen
<1> USE DEF IInv, Single, Sole, OpenAlone, Seen
<1>1. status = "starting" <=> \E r \in Runs : InFlight(r)
  BY DEF status
<1>2. ASSUME status = "starting" PROVE owner = current
  <2>1. \A r \in Runs : InFlight(r) => r = current
    OBVIOUS
  <2> QED
    BY <1>1, <1>2, <2>1 DEF owner
<1> QED
  BY <1>1, <1>2 DEF status, owner

LEMMA SeenAlways == Spec => [](IInv /\ Seen)
  BY Inductive, SeenOf, PTL

LEMMA LinkStep ==
  ASSUME IInv, Seen, IInv', Seen', [Next]_vars
  PROVE  [doubled' \/ Link!Next]_(Link!vars)
<1> SUFFICES ASSUME ~doubled' PROVE [Link!Next]_(Link!vars)
  OBVIOUS
<1>0. ~doubled
  BY DEF Next, Start, Connect, ConnectFails, Wake, AbortSettle, RemoteClose, SocketError, Closed,
         Stop, vars
<1>a. Sole /\ OpenAlone /\ Owned /\ (Sole /\ OpenAlone /\ Owned)'
  BY <1>0 DEF IInv, Single
<1>b. /\ status \in {"up", "starting", "down"}
      /\ status = "up" <=> \E r \in Runs : conn[r] = "open"
      /\ status = "starting" <=> \E r \in Runs : InFlight(r)
      /\ owner = IF status = "starting" THEN current ELSE NoRun
  BY <1>0 DEF Seen
<1>c. /\ status' \in {"up", "starting", "down"}
      /\ status' = "up" <=> \E r \in Runs : conn'[r] = "open"
      /\ status' = "starting" <=> \E r \in Runs : InFlight(r)'
      /\ owner' = IF status' = "starting" THEN current' ELSE NoRun
  BY DEF Seen
<1> USE RunsAssumption, <1>a, <1>b, <1>c
    DEF IInv, TypeOK, Paired, Held, Sole, OpenAlone, Owned, InFlight, pending
<1>1. ASSUME NEW r \in Runs, Start(r) PROVE Link!Start(r)
  BY <1>1 DEF Start, StartAccepts, Link!Start
<1>2. ASSUME NEW r \in Runs, Connect(r) PROVE Link!Up(r)
  BY <1>2 DEF Connect, Settle, Link!Up
<1>3. ASSUME NEW r \in Runs, NEW b \in BOOLEAN, ConnectFails(r, b)
      PROVE Link!Down \/ Link!GiveUp(r) \/ UNCHANGED Link!vars
  BY <1>3 DEF ConnectFails, Settle, Link!Down, Link!GiveUp, Link!vars
<1>4. ASSUME NEW r \in Runs, Wake(r) PROVE Link!GiveUp(r) \/ UNCHANGED Link!vars
  BY <1>4 DEF Wake, Settle, Link!GiveUp, Link!vars
<1>5. ASSUME NEW r \in Runs, AbortSettle(r) PROVE Link!LateReturn(r)
  BY <1>5 DEF AbortSettle, Settle, Link!LateReturn
<1>6. ASSUME NEW r \in Runs, RemoteClose(r) \/ SocketError(r) PROVE Link!Down
  BY <1>6 DEF RemoteClose, SocketError, Link!Down
<1>7. ASSUME NEW r \in Runs, Closed(r) PROVE UNCHANGED Link!vars
  BY <1>7 DEF Closed, Link!vars
<1>8. ASSUME Stop PROVE Link!Down \/ UNCHANGED Link!vars
  BY <1>8 DEF Stop, StopAccepts, Destroy, Link!Down, Link!vars
<1>9. CASE UNCHANGED vars
  BY <1>9 DEF vars, Link!vars
<1> QED
  BY <1>1, <1>2, <1>3, <1>4, <1>5, <1>6, <1>7, <1>8, <1>9 DEF Next, Link!Next

\* A TcpClient is to its owner what ServiceLifeCycle takes a task to be, as long as
\* the owner calls no start() while an earlier one is in flight.
THEOREM ClientIsConnection == Spec => ImplementsConnection
<1>1. Init => Link!Init
  BY DEF Init, status, owner, pending, InFlight, Link!Init
<1>2. IInv /\ Seen /\ (IInv /\ Seen)' /\ [Next]_vars => [doubled' \/ Link!Next]_(Link!vars)
  BY LinkStep
<1> QED
  BY <1>1, <1>2, SeenAlways, PTL DEF Spec, ImplementsConnection
=============================================================================
