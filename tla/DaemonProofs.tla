---------------------------- MODULE DaemonProofs ----------------------------
(***************************************************************************)
(* Proofs about Daemon for any finite set of clients and any limit of      *)
(* connections and faults.                                                 *)
(***************************************************************************)
EXTENDS Daemon, FiniteSetTheorems, TLAPS

\* The clients whose connection has a task, and so a permit.
Tasks == {c \in Clients : HasTask(c)}

\* The types: the flags, and the rest without the bound on the permits, which
\* follows from counting.
Flags == cancelled \in BOOLEAN /\ notified \in BOOLEAN

Types ==
  /\ main \in {"running", "awaiting", "closing", "down"}
  /\ controller \in {"select", "reconcile", "ended"}
  /\ rpc \in {"accepting", "draining", "ended", "failed"}
  /\ conn \in [Clients -> ConnStates] /\ permits \in Nat
  /\ req \in [Clients -> ReqStates] /\ abandoned \subseteq Clients
  /\ pool \in {"open", "closed"} /\ work \subseteq Clients
  /\ faults \in 0..MaxFaults

\* A request in progress has a connection, or its client is gone.
RequestsConnected == \A c \in Clients : InProgress(c) => HasTask(c) \/ c \in abandoned

\* A server that has ended has no connection left, nor has one that failed.
EndedIsEmpty == rpc \in {"ended", "failed"} => \A c \in Clients : conn[c] = "none"

\* Before main closes the database both tasks have ended.
ClosedLast ==
  /\ main = "closing" => controller = "ended" /\ rpc \in {"ended", "failed"}
  /\ pool = "closed" => main \in {"closing", "down"}

\* A process that is not there has no task and no request.
DownIsEmpty ==
  main = "down" => /\ controller = "ended" /\ rpc = "ended"
                   /\ \A c \in Clients : req[c] = "none"

\* Which task may be there when.
TaskInv == RequestsConnected /\ EndedIsEmpty /\ ClosedLast /\ DownIsEmpty

IInv == Flags /\ Types /\ PermitsConserved /\ TaskInv

-----------------------------------------------------------------------------
(* Counting connections.                                                   *)

LEMMA TasksFinite ==
  IsFiniteSet(Tasks) /\ Cardinality(Tasks) \in Nat
  BY DaemonAssumption, FS_Subset, FS_CardinalityType DEF Tasks

LEMMA OneMore ==
  ASSUME NEW c \in Clients, ~HasTask(c), Tasks' = Tasks \cup {c}
  PROVE  Cardinality(Tasks') = Cardinality(Tasks) + 1
<1>1. c \notin Tasks
  BY DEF Tasks
<1> QED  BY <1>1, TasksFinite, FS_AddElement

LEMMA OneLess ==
  ASSUME NEW c \in Clients, HasTask(c), Tasks' = Tasks \ {c}
  PROVE  Cardinality(Tasks') = Cardinality(Tasks) - 1
<1>1. c \in Tasks
  BY DEF Tasks
<1> QED  BY <1>1, TasksFinite, FS_RemoveElement

LEMMA NoTasks ==
  ASSUME \A c \in Clients : conn[c] = "none"
  PROVE  Cardinality(Tasks) = 0
<1>1. Tasks = {}
  BY DEF Tasks, HasTask
<1> QED  BY <1>1, FS_EmptySet

\* The limit follows from the count.
LEMMA TypesSuffice == Flags /\ Types /\ PermitsConserved => TypeOK
<1> SUFFICES ASSUME Flags, Types, PermitsConserved PROVE TypeOK
  OBVIOUS
<1>1. permits \in 0..MaxConnections
  BY TasksFinite, DaemonAssumption DEF Types, PermitsConserved, Tasks
<1> QED  BY <1>1 DEF Flags, Types, TypeOK

-----------------------------------------------------------------------------
LEMMA InitInductive == Init => IInv
<1> SUFFICES ASSUME Init PROVE IInv
  OBVIOUS
<1>1. PermitsConserved
  BY NoTasks, DaemonAssumption DEF Init, PermitsConserved, Tasks
<1>2. Flags
  BY DEF Init, Flags
<1>3. Types /\ TaskInv
  BY DaemonAssumption DEF Init, Types, ConnStates, ReqStates, TaskInv, RequestsConnected,
     EndedIsEmpty, ClosedLast, DownIsEmpty, InProgress
<1> QED  BY <1>1, <1>2, <1>3 DEF IInv

\* The steps of a connection.
LEMMA ConnectionStep ==
  ASSUME IInv, NEW c \in Clients,
         Connect(c) \/ Accept(c) \/ HangUp(c) \/ CloseDrained(c) \/ Join(c) \/ GoAway(c)
  PROVE  IInv'
<1>1. Flags /\ Types /\ PermitsConserved /\ TaskInv
  BY DEF IInv
<1> USE DEF TaskInv, RequestsConnected, EndedIsEmpty, ClosedLast, DownIsEmpty, InProgress,
            HasTask, mainVars, controllerVars, reqVars, ConnStates, ReqStates
<1>2. Flags'
  BY <1>1, Zenon DEF Flags, Connect, Accept, HangUp, CloseDrained, Join, GoAway,
     FinishConnection
<1>3. CASE Connect(c)
  <2>1. Types' /\ TaskInv'
    BY <1>1, <1>3 DEF Connect, Types
  <2>2. Tasks' = Tasks
    BY <1>1, <1>3 DEF Connect, Tasks, Types
  <2> QED  BY <1>1, <1>2, <1>3, <2>1, <2>2 DEF IInv, PermitsConserved, Tasks, Connect
<1>4. CASE Accept(c)
  <2>1. Types' /\ TaskInv'
    BY <1>1, <1>4 DEF Accept, Types
  <2>2. CASE permits > 0
    <3>1. Tasks' = Tasks \cup {c} /\ permits' = permits - 1
      BY <1>1, <1>4, <2>2 DEF Accept, Tasks, Types
    <3>2. Cardinality(Tasks') = Cardinality(Tasks) + 1
      BY <1>4, <3>1, OneMore DEF Accept
    <3> QED
      BY <1>1, <1>2, <2>1, <3>1, <3>2, TasksFinite, DaemonAssumption
         DEF IInv, PermitsConserved, Tasks, Types
  <2>3. CASE ~(permits > 0)
    <3>1. Tasks' = Tasks /\ permits' = permits
      BY <1>1, <1>4, <2>3 DEF Accept, Tasks, Types
    <3> QED  BY <1>1, <1>2, <2>1, <3>1 DEF IInv, PermitsConserved, Tasks
  <2> QED  BY <2>2, <2>3
<1>5. CASE HangUp(c) \/ CloseDrained(c)
  <2>1. FinishConnection(c) /\ HasTask(c) /\ Up
    BY <1>5 DEF HangUp, CloseDrained
  <2>2. Types' /\ TaskInv'
    <3>1. abandoned' = abandoned \/ abandoned' = abandoned \cup {c}
      BY <1>5 DEF HangUp, CloseDrained
    <3>2. InProgress(c) => c \in abandoned'
      BY <1>5 DEF HangUp, CloseDrained
    <3> QED  BY <1>1, <2>1, <3>1, <3>2 DEF FinishConnection, Types, Up
  <2>3. Tasks' = Tasks \ {c} /\ permits' = permits + 1
    BY <1>1, <2>1 DEF FinishConnection, Tasks, Types
  <2>4. Cardinality(Tasks') = Cardinality(Tasks) - 1
    BY <2>1, <2>3, OneLess
  <2> QED
    BY <1>1, <1>2, <2>2, <2>3, <2>4, TasksFinite, DaemonAssumption
       DEF IInv, PermitsConserved, Tasks, Types
<1>6. CASE Join(c) \/ GoAway(c)
  <2>1. Types' /\ TaskInv'
    BY <1>1, <1>6 DEF Join, GoAway, Types
  <2>2. Tasks' = Tasks /\ permits' = permits
    BY <1>1, <1>6 DEF Join, GoAway, Tasks, Types
  <2> QED  BY <1>1, <1>2, <2>1, <2>2 DEF IInv, PermitsConserved, Tasks
<1> QED  BY <1>3, <1>4, <1>5, <1>6

\* The steps that leave connections and permits alone.
LEMMA OtherStep ==
  ASSUME IInv, conn' = conn, permits' = permits, Flags', Types', TaskInv'
  PROVE  IInv'
<1>1. Tasks' = Tasks
  BY DEF Tasks, HasTask
<1> QED  BY <1>1 DEF IInv, PermitsConserved, Tasks

\* The end of all connections at once.
LEMMA AllClosed ==
  ASSUME permits' = MaxConnections, \A c \in Clients : conn'[c] = "none"
  PROVE  PermitsConserved'
<1>1. Tasks' = {}
  BY DEF Tasks, HasTask
<1>2. Cardinality(Tasks') = 0
  BY <1>1, FS_EmptySet
<1> QED  BY <1>2, DaemonAssumption DEF PermitsConserved, Tasks

\* The steps of a request and of the controller.
LEMMA WorkStep ==
  ASSUME IInv,
         \/ \E c \in Clients : Receive(c) \/ Handle(c)
         \/ Control \/ ControllerPanics
  PROVE  IInv'
<1>1. Flags /\ Types /\ TaskInv
  BY DEF IInv
<1> USE DEF TaskInv, RequestsConnected, EndedIsEmpty, ClosedLast, DownIsEmpty, InProgress,
            HasTask, mainVars, controllerVars, serverVars, reqVars, ConnStates, ReqStates
<1>2. ASSUME NEW c \in Clients, Receive(c) \/ Handle(c) PROVE IInv'
  <2>1. Flags'
    BY <1>1, <1>2, Zenon DEF Flags, Receive, Handle, AnswerUnchanged, Commit,
       WakeAndAnswer, DropHandler
  <2>2. CASE Receive(c)
    BY <1>1, <2>1, <2>2, OtherStep DEF Types, Receive, Up
  <2>3. CASE AnswerUnchanged(c) \/ DropHandler(c)
    BY <1>1, <2>1, <2>3, OtherStep DEF Types, AnswerUnchanged, DropHandler, Up
  <2>4. CASE Commit(c) \/ WakeAndAnswer(c)
    BY <1>1, <2>1, <2>4, OtherStep DEF Types, Commit, WakeAndAnswer, Up
  <2> QED  BY <1>2, <2>2, <2>3, <2>4 DEF Handle
<1>3. ASSUME Control \/ ControllerPanics PROVE IInv'
  <2>1. Flags'
    <3>1. CASE Wake
      <4>1. notified' = notified \/ notified' = FALSE
        BY <3>1, Zenon DEF Wake
      <4> QED  BY <1>1, <3>1, <4>1, Zenon DEF Flags, Wake
    <3>2. CASE Reconcile \/ ReconcileFails \/ ControllerPanics
      BY <1>1, <3>2, Zenon DEF Flags, Reconcile, ReconcileFails, ControllerPanics
    <3> QED  BY <1>3, <3>1, <3>2 DEF Control
  <2>2. CASE Wake
    <3>1. /\ Up /\ controller = "select" /\ controller' \in {"ended", "reconcile"}
          /\ UNCHANGED <<main, rpc, conn, permits, req, abandoned, pool, work, faults>>
      BY <2>2, Zenon DEF Wake
    <3>2. Types' /\ TaskInv'
      BY <1>1, <3>1 DEF Types, Up
    <3> QED  BY <2>1, <3>1, <3>2, OtherStep
  <2>3. CASE Reconcile
    BY <1>1, <2>1, <2>3, OtherStep DEF Types, Reconcile, Up
  <2>4. CASE ReconcileFails \/ ControllerPanics
    <3>1. faults' \in 0..MaxFaults
      BY <1>1, <2>4, DaemonAssumption DEF Types, ReconcileFails, ControllerPanics, Fault
    <3> QED  BY <1>1, <2>1, <2>4, <3>1, OtherStep DEF Types, ReconcileFails,
                ControllerPanics, Up
  <2> QED  BY <1>3, <2>2, <2>3, <2>4 DEF Control
<1> QED  BY <1>2, <1>3

\* The steps of main and of the server as a whole.
LEMMA ProcessStep ==
  ASSUME IInv,
         StopAccepting \/ RpcEnds \/ Main \/ Start \/ Signal \/ Crash \/ AcceptError
  PROVE  IInv'
<1>1. Flags /\ Types /\ PermitsConserved /\ TaskInv
  BY DEF IInv
<1> USE DEF TaskInv, RequestsConnected, EndedIsEmpty, ClosedLast, DownIsEmpty, InProgress,
            HasTask, mainVars, controllerVars, serverVars, reqVars, ConnStates, ReqStates
<1>2. Flags'
  BY <1>1, Zenon DEF Flags, StopAccepting, RpcEnds, Main, TaskEnded, TasksJoined, ClosePool,
     Stop, Start, Signal, Crash, AcceptError, Cancel, ProcessEnds
<1>3. CASE StopAccepting \/ TaskEnded \/ TasksJoined \/ ClosePool \/ Start \/ Signal
  <2>1. conn' = conn /\ permits' = permits
    BY <1>3 DEF StopAccepting, TaskEnded, TasksJoined, ClosePool, Start, Signal
  <2>2. Types'
    BY <1>1, <1>3, DaemonAssumption DEF Types, StopAccepting, TaskEnded, TasksJoined,
       ClosePool, Start, Signal, Cancel, Fault
  <2>3. TaskInv'
    BY <1>1, <1>3 DEF Types, StopAccepting, TaskEnded, TasksJoined, ClosePool, Start,
       Signal, Cancel, Up
  <2> QED  BY <1>2, <2>1, <2>2, <2>3, OtherStep
<1>4. CASE RpcEnds
  <2>1. Types' /\ TaskInv'
    BY <1>1, <1>4 DEF RpcEnds, Types, Up
  <2>2. Tasks' = Tasks /\ permits' = permits
    BY <1>1, <1>4 DEF RpcEnds, Tasks, Types
  <2> QED  BY <1>1, <1>2, <2>1, <2>2 DEF IInv, PermitsConserved, Tasks
<1>5. CASE Stop \/ Crash
  <2>1. ProcessEnds /\ faults' \in 0..MaxFaults
    BY <1>1, <1>5, DaemonAssumption DEF Stop, Crash, Fault, Types
  <2>2. Types' /\ TaskInv'
    BY <1>1, <2>1, DaemonAssumption DEF ProcessEnds, Types
  <2> QED  BY <1>2, <2>1, <2>2, AllClosed DEF IInv, ProcessEnds
<1>6. CASE AcceptError
  <2>1. Types' /\ TaskInv'
    BY <1>1, <1>6, DaemonAssumption DEF AcceptError, Types, Fault, Up
  <2> QED  BY <1>2, <1>6, <2>1, AllClosed DEF IInv, AcceptError
<1> QED  BY <1>3, <1>4, <1>5, <1>6 DEF Main

LEMMA NextInductive == IInv /\ [Next]_vars => IInv'
<1> SUFFICES ASSUME IInv, [Next]_vars PROVE IInv'
  OBVIOUS
<1>1. CASE UNCHANGED vars
  <2>1. Flags'
    BY <1>1, Zenon DEF IInv, Flags, vars
  <2>2. Types' /\ TaskInv' /\ conn' = conn /\ permits' = permits
    BY <1>1 DEF IInv, Types, TaskInv, RequestsConnected, EndedIsEmpty, ClosedLast,
       DownIsEmpty, InProgress, HasTask, vars
  <2> QED  BY <2>1, <2>2, OtherStep
<1>2. CASE \E c \in Clients : Connect(c) \/ HangUp(c) \/ Serve(c)
  BY <1>2, ConnectionStep DEF Serve
<1>3. CASE \/ \E c \in Clients : Receive(c) \/ Handle(c)
           \/ Control \/ ControllerPanics
  BY <1>3, WorkStep
<1>4. CASE StopAccepting \/ RpcEnds \/ Main \/ Start \/ Signal \/ Crash \/ AcceptError
  BY <1>4, ProcessStep
<1> QED  BY <1>1, <1>2, <1>3, <1>4 DEF Next

-----------------------------------------------------------------------------
\* Inductive: the tasks, the count of permits and the order of the shutdown are related
\* by IInv in every reachable state.
THEOREM Inductive == Spec => []IInv
  BY InitInductive, NextInductive, PTL DEF Spec

\* TypeCorrect: the state of the process keeps its types; in particular the semaphore
\* never holds more than MaxConnections permits.
THEOREM TypeCorrect == Spec => []TypeOK
<1>1. IInv => TypeOK
  BY TypesSuffice DEF IInv
<1> QED  BY <1>1, Inductive, PTL

\* PermitsAreConserved: for any number of clients and any limit, no connection is
\* served without a permit and none is lost.
THEOREM PermitsAreConserved == Spec => []PermitsConserved
<1>1. IInv => PermitsConserved
  BY DEF IInv
<1> QED  BY <1>1, Inductive, PTL

\* DatabaseClosesLast: no task, connection or request of an orderly shutdown meets a
\* closed database.
THEOREM DatabaseClosesLast == Spec => []StorageOutlivesTasks
<1>1. IInv => StorageOutlivesTasks
  BY DEF IInv, TaskInv, RequestsConnected, EndedIsEmpty, ClosedLast, StorageOutlivesTasks,
     Up, HasTask
<1> QED  BY <1>1, Inductive, PTL
=============================================================================
