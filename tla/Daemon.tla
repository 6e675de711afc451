------------------------------- MODULE Daemon -------------------------------
(***************************************************************************)
(* The daemon as a process: main (main.rs) with its two tasks, the Host    *)
(* controller's wake loop (controller.rs) and the RPC server with its      *)
(* connections and request handlers (rpc.rs), from start to shutdown.      *)
(*                                                                         *)
(* What a request changes is abstracted to membership of `work`, the       *)
(* clients whose committed mutation the controller has not yet reconciled; *)
(* HostController models what reconciling does.  A client has one          *)
(* connection at a time and one request at a time on it.                   *)
(***************************************************************************)
EXTENDS Naturals, FiniteSets

CONSTANTS
  Clients,         \* RPC clients
  MaxConnections,  \* MAX_CONNECTIONS
  MaxFaults        \* bound: stops, crashes, panics, accept and database errors

ASSUME DaemonAssumption ==
  /\ IsFiniteSet(Clients)
  /\ MaxConnections \in Nat \ {0} /\ MaxFaults \in Nat

VARIABLES
  main,        \* "running", "awaiting" its tasks, "closing" the database, "down"
  cancelled,   \* the CancellationToken
  controller,  \* the controller task: "select", "reconcile", "ended"
  notified,    \* the permit of ReconcileHandle.notify
  rpc,         \* the RPC task: "accepting", "draining", "ended", "failed"
  conn,        \* each client's connection
  permits,     \* free permits of the connection semaphore
  req,         \* each client's request
  abandoned,   \* clients whose connection ended before their request did
  pool,        \* the database pool: "open", "closed"
  work,        \* in the database: mutations still to be reconciled
  faults       \* faults that have happened

mainVars == <<main, cancelled>>
controllerVars == <<controller, notified>>
serverVars == <<rpc, conn, permits>>
reqVars == <<req, abandoned>>
vars == <<main, cancelled, controller, notified, rpc, conn, permits, req, abandoned,
          pool, work, faults>>

\* Connections: "queued" in the listener's backlog, "open", told to go away,
\* or "done": the task has finished and is not yet joined.
ConnStates == {"none", "queued", "open", "goaway", "done"}
ReqStates  == {"none", "received", "committed", "answered"}

HasTask(c)    == conn[c] \in {"open", "goaway"}
InProgress(c) == req[c] \in {"received", "committed"}
Up            == main # "down"

Fault == faults < MaxFaults /\ faults' = faults + 1

-----------------------------------------------------------------------------
(* serve_bound: the accept loop, the connection tasks and the drain.       *)

\* The listener queues connections until it is dropped, after the drain.  A client
\* that abandoned a request comes back under its name when the handler has ended.
Connect(c) ==
  /\ Up /\ rpc \in {"accepting", "draining"}
  /\ conn[c] = "none" /\ ~InProgress(c)
  /\ conn' = [conn EXCEPT ![c] = "queued"] /\ req' = [req EXCEPT ![c] = "none"]
  /\ abandoned' = abandoned \ {c}
  /\ UNCHANGED <<mainVars, controllerVars, rpc, permits, pool, work, faults>>

\* Variant: the limit is tested against one connection more.
AcceptOneMore(c) ==
  /\ Up /\ rpc = "accepting" /\ conn[c] = "queued"
  /\ conn' = [conn EXCEPT ![c] = "open"]
  /\ permits' = IF permits = 0 THEN 0 ELSE permits - 1
  /\ UNCHANGED <<mainVars, controllerVars, rpc, reqVars, pool, work, faults>>

\* At the limit the stream is dropped at once.  The select has no order: a
\* connection may still be accepted after the cancellation.
Accept(c) ==
  /\ Up /\ rpc = "accepting" /\ conn[c] = "queued"
  /\ IF permits > 0
     THEN conn' = [conn EXCEPT ![c] = "open"] /\ permits' = permits - 1
     ELSE conn' = [conn EXCEPT ![c] = "none"] /\ UNCHANGED permits
  /\ UNCHANGED <<mainVars, controllerVars, rpc, reqVars, pool, work, faults>>

\* accept fails: the connection tasks are aborted with the JoinSet, not the tasks of
\* their handlers.
AcceptError ==
  /\ Up /\ rpc = "accepting" /\ Fault
  /\ rpc' = "failed"
  /\ conn' = [c \in Clients |-> "none"]
  /\ permits' = MaxConnections
  /\ abandoned' = abandoned \cup {c \in Clients : InProgress(c)}
  /\ UNCHANGED <<mainVars, controllerVars, req, pool, work>>

\* The connection's task finishes and its permit is free again.
FinishConnection(c) ==
  /\ conn' = [conn EXCEPT ![c] = "done"] /\ permits' = permits + 1
  /\ UNCHANGED <<mainVars, controllerVars, rpc, req, pool, work, faults>>

(* A client hangs up.  The handler of its request is a task of its own,    *)
(* which goes on until it notices, or ends.                                *)
HangUp(c) ==
  /\ Up /\ HasTask(c) /\ FinishConnection(c)
  /\ abandoned' = IF InProgress(c) THEN abandoned \cup {c} ELSE abandoned

\* graceful_shutdown: once the requests in progress are answered.
CloseDrained(c) ==
  /\ Up /\ conn[c] = "goaway" /\ ~InProgress(c) /\ FinishConnection(c)
  /\ UNCHANGED abandoned

\* Variant: joining a task gives back a permit as well.
JoinReturningPermit(c) ==
  /\ Up /\ rpc \in {"accepting", "draining"} /\ conn[c] = "done"
  /\ conn' = [conn EXCEPT ![c] = "none"] /\ permits' = permits + 1
  /\ UNCHANGED <<mainVars, controllerVars, rpc, reqVars, pool, work, faults>>

Join(c) ==
  /\ Up /\ rpc \in {"accepting", "draining"} /\ conn[c] = "done"
  /\ conn' = [conn EXCEPT ![c] = "none"]
  /\ UNCHANGED <<mainVars, controllerVars, rpc, permits, reqVars, pool, work, faults>>

StopAccepting ==
  /\ Up /\ rpc = "accepting" /\ cancelled
  /\ rpc' = "draining"
  /\ UNCHANGED <<mainVars, controllerVars, conn, permits, reqVars, pool, work, faults>>

\* Variant: connections are not told that the server stops.
GoAwayUntold(c) == FALSE /\ UNCHANGED vars

\* server_handle.stop() reaches every connection task.
GoAway(c) ==
  /\ Up /\ rpc = "draining" /\ conn[c] = "open"
  /\ conn' = [conn EXCEPT ![c] = "goaway"]
  /\ UNCHANGED <<mainVars, controllerVars, rpc, permits, reqVars, pool, work, faults>>

\* Every task joined, the listener is dropped and its backlog with it.
RpcEnds ==
  /\ Up /\ rpc = "draining" /\ \A c \in Clients : conn[c] \in {"none", "queued"}
  /\ rpc' = "ended" /\ conn' = [c \in Clients |-> "none"]
  /\ UNCHANGED <<mainVars, controllerVars, permits, reqVars, pool, work, faults>>

-----------------------------------------------------------------------------
(* A request and its handler.                                              *)

Receive(c) ==
  /\ Up /\ conn[c] = "open" /\ ~InProgress(c)
  /\ req' = [req EXCEPT ![c] = "received"]
  /\ UNCHANGED <<mainVars, controllerVars, serverVars, abandoned, pool, work, faults>>

\* A query, an invalid argument, a conflict, or a database that is closed.
AnswerUnchanged(c) ==
  /\ Up /\ req[c] = "received"
  /\ req' = [req EXCEPT ![c] = "answered"]
  /\ UNCHANGED <<mainVars, controllerVars, serverVars, abandoned, pool, work, faults>>

Commit(c) ==
  /\ Up /\ req[c] = "received" /\ pool = "open"
  /\ req' = [req EXCEPT ![c] = "committed"] /\ work' = work \cup {c}
  /\ UNCHANGED <<mainVars, controllerVars, serverVars, abandoned, pool, faults>>

WakeAndAnswer(c) ==
  /\ Up /\ req[c] = "committed"
  /\ req' = [req EXCEPT ![c] = "answered"] /\ notified' = TRUE
  /\ UNCHANGED <<mainVars, controller, serverVars, abandoned, pool, work, faults>>

\* The 30 s timeout, or a client that is gone: the handler is dropped, its wake with
\* it.
DropHandler(c) ==
  /\ Up /\ InProgress(c)
  /\ req' = [req EXCEPT ![c] = "none"]
  /\ UNCHANGED <<mainVars, controllerVars, serverVars, abandoned, pool, work, faults>>

-----------------------------------------------------------------------------
(* HostController::run.  A wake reconciles until nothing is left to do, or *)
(* until a database error; cancellation is looked at before the next wake. *)

\* Variant: only a notification wakes the controller.
WakeOnlyNotified ==
  /\ Up /\ controller = "select" /\ (notified \/ cancelled)
  /\ controller' = IF cancelled THEN "ended" ELSE "reconcile"
  /\ notified' = FALSE
  /\ UNCHANGED <<mainVars, serverVars, reqVars, pool, work, faults>>

Wake ==
  /\ Up /\ controller = "select"
  /\ controller' = IF cancelled THEN "ended" ELSE "reconcile"
  /\ notified' \in {notified, FALSE}     \* the interval's tick, or the permit
  /\ UNCHANGED <<mainVars, serverVars, reqVars, pool, work, faults>>

Reconcile ==
  /\ Up /\ controller = "reconcile" /\ pool = "open"
  /\ controller' = "select" /\ work' = {}
  /\ UNCHANGED <<mainVars, notified, serverVars, reqVars, pool, faults>>

ReconcileFails ==
  /\ Up /\ controller = "reconcile"
  /\ IF pool = "open" THEN Fault ELSE UNCHANGED faults
  /\ controller' = "select"
  /\ UNCHANGED <<mainVars, notified, serverVars, reqVars, pool, work>>

ControllerPanics ==
  /\ Up /\ controller # "ended" /\ Fault
  /\ controller' = "ended"
  /\ UNCHANGED <<mainVars, notified, serverVars, reqVars, pool, work>>

-----------------------------------------------------------------------------
(* main                                                                    *)

Cancel == main' = "awaiting" /\ cancelled' = TRUE

Signal ==
  /\ main = "running" /\ Fault /\ Cancel
  /\ UNCHANGED <<controllerVars, serverVars, reqVars, pool, work>>

\* Variant: main does not watch the controller task.
TaskEndedRpcOnly ==
  /\ main = "running" /\ rpc \in {"ended", "failed"}
  /\ Cancel
  /\ UNCHANGED <<controllerVars, serverVars, reqVars, pool, work, faults>>

TaskEnded ==
  /\ main = "running" /\ (controller = "ended" \/ rpc \in {"ended", "failed"})
  /\ Cancel
  /\ UNCHANGED <<controllerVars, serverVars, reqVars, pool, work, faults>>

\* Variant: main waits for the controller alone.
TasksJoinedController ==
  /\ main = "awaiting" /\ controller = "ended"
  /\ main' = "closing"
  /\ UNCHANGED <<cancelled, controllerVars, serverVars, reqVars, pool, work, faults>>

\* Whichever ended first, main goes on when both tasks have.
TasksJoined ==
  /\ main = "awaiting" /\ controller = "ended" /\ rpc \in {"ended", "failed"}
  /\ main' = "closing"
  /\ UNCHANGED <<cancelled, controllerVars, serverVars, reqVars, pool, work, faults>>

ClosePool ==
  /\ main = "closing" /\ pool = "open"
  /\ pool' = "closed"
  /\ UNCHANGED <<mainVars, controllerVars, serverVars, reqVars, work, faults>>

\* Only the database outlives the process.
ProcessEnds ==
  /\ main' = "down" /\ cancelled' = FALSE
  /\ controller' = "ended" /\ notified' = FALSE
  /\ rpc' = "ended" /\ permits' = MaxConnections
  /\ conn' = [c \in Clients |-> "none"] /\ req' = [c \in Clients |-> "none"]
  /\ abandoned' = {} /\ pool' = "closed"
  /\ UNCHANGED work

Stop == main = "closing" /\ pool = "closed" /\ ProcessEnds /\ UNCHANGED faults

Crash == Up /\ Fault /\ ProcessEnds

\* The service manager starts the daemon again; run begins with a wake.
Start ==
  /\ main = "down"
  /\ main' = "running" /\ pool' = "open"
  /\ controller' = "select" /\ notified' = TRUE
  /\ rpc' = "accepting"
  /\ UNCHANGED <<cancelled, conn, permits, reqVars, work, faults>>

-----------------------------------------------------------------------------
Init ==
  /\ main = "down" /\ cancelled = FALSE
  /\ controller = "ended" /\ notified = FALSE
  /\ rpc = "ended" /\ permits = MaxConnections
  /\ conn = [c \in Clients |-> "none"] /\ req = [c \in Clients |-> "none"]
  /\ abandoned = {} /\ pool = "closed"
  /\ work = {} /\ faults = 0

\* What the process does by itself, for one client and for all.
Serve(c) ==
  \/ Accept(c) \/ GoAway(c) \/ CloseDrained(c) \/ Join(c)
Handle(c) == AnswerUnchanged(c) \/ Commit(c) \/ WakeAndAnswer(c) \/ DropHandler(c)
Control == Wake \/ Reconcile \/ ReconcileFails
Main == TaskEnded \/ TasksJoined \/ ClosePool \/ Stop

Next ==
  \/ \E c \in Clients : Connect(c) \/ Receive(c) \/ HangUp(c) \/ Serve(c) \/ Handle(c)
  \/ StopAccepting \/ RpcEnds \/ Control \/ Main \/ Start
  \/ Signal \/ Crash \/ AcceptError \/ ControllerPanics

Spec == Init /\ [][Next]_vars

(* The runtime polls every task that can make progress and its select      *)
(* chooses fairly; handlers are cut off after 30 s; clients that are told  *)
(* to go away answer; the service manager restarts the daemon.  Nothing is *)
(* assumed of when clients connect, ask or hang up.                        *)
Fairness ==
  /\ \A c \in Clients :
       /\ WF_vars(Accept(c)) /\ WF_vars(GoAway(c)) /\ WF_vars(CloseDrained(c))
       /\ WF_vars(Join(c)) /\ WF_vars(Handle(c))
  /\ WF_vars(StopAccepting) /\ WF_vars(RpcEnds)
  /\ WF_vars(Control) /\ WF_vars(Main) /\ WF_vars(Start)

FairSpec == Spec /\ Fairness

-----------------------------------------------------------------------------
\* TypeOK: the state keeps its types; the semaphore never holds more permits than the
\* server has connections to give.
TypeOK ==
  /\ main \in {"running", "awaiting", "closing", "down"} /\ cancelled \in BOOLEAN
  /\ controller \in {"select", "reconcile", "ended"} /\ notified \in BOOLEAN
  /\ rpc \in {"accepting", "draining", "ended", "failed"}
  /\ conn \in [Clients -> ConnStates] /\ permits \in 0..MaxConnections
  /\ req \in [Clients -> ReqStates] /\ abandoned \subseteq Clients
  /\ pool \in {"open", "closed"} /\ work \subseteq Clients
  /\ faults \in 0..MaxFaults

\* PermitsConserved: whichever way a connection ends, its permit comes back exactly
\* once, and no connection is served without one: the limit of 64 neither leaks away
\* nor is exceeded.
PermitsConserved ==
  permits + Cardinality({c \in Clients : HasTask(c)}) = MaxConnections

\* StorageOutlivesTasks: the database is closed only when both tasks have ended and no
\* connection is left, and the only requests left are those whose client is gone: a
\* request accepted before the shutdown never meets a closed database while someone
\* waits for its answer.
StorageOutlivesTasks ==
  Up /\ pool = "closed" =>
    /\ controller = "ended" /\ rpc \in {"ended", "failed"}
    /\ \A c \in Clients : ~HasTask(c) /\ (InProgress(c) => c \in abandoned)

\* CommittedIsReconciled: a mutation that was committed is reconciled in the end,
\* although its wake may be lost with its handler, its client may be gone before the
\* commit, the controller may have stopped before the server did, and the process may
\* crash and restart.
CommittedIsReconciled == \A c \in Clients : (c \in work) ~> (c \notin work)

\* ShutdownCompletes: once cancelled the process ends, however many clients are
\* connected, queued or in the middle of a request, as long as each one told to go away
\* answers: the drain has no timeout, and would wait for one that does not.
ShutdownCompletes == cancelled ~> (main = "down")

\* NoHalfDaemon: the daemon does not go on with one of its two tasks gone.
NoHalfDaemon ==
  (controller = "ended" \/ rpc \in {"ended", "failed"}) ~> (main = "down")
=============================================================================
