-------------------------- MODULE LocalSocketProofs --------------------------
(***************************************************************************)
(* Proofs about LocalSocket for any number of daemons and inode numbers.   *)
(* The daemons share one database: the lock then orders everything that    *)
(* happens at the socket path, and the state of the one running daemon     *)
(* determines what is there.                                               *)
(* Only the types, and the safety of files that are not sockets, hold      *)
(* without the lock.                                                       *)
(***************************************************************************)
EXTENDS LocalSocket, TLAPS

\* A daemon that runs owns its database.
Owned == \A d \in Daemons : pc[d] # "down" => owner[DatabaseOf[d]] = d

\* A daemon that does not run has no socket.
Resting == \A d \in Daemons : pc[d] = "down" => bound[d] = None /\ d \notin listening

\* What a daemon knows about the path at each system call.
Known(d) ==
  /\ pc[d] \in Preparing \cup {"bind", "listen"} => d \notin listening
  /\ pc[d] \in {"probe", "reinspect", "remove"} => path \in Inodes /\ path = seen[d]
  /\ pc[d] \in {"bind", "exit"} => path = None
  /\ pc[d] \in {"listen", "guard", "permissions", "serving"} =>
       path \in Inodes /\ path = bound[d]
  /\ pc[d] \in {"guard", "permissions", "serving"} => d \in listening
  /\ pc[d] \in {"permissions", "serving", "drop_check", "drop_remove"} =>
       path \in Inodes /\ path = guard[d]

IInv == TypeOK /\ Owned /\ Resting /\ \A d \in Daemons : Known(d)

\* With one database, one daemon runs at a time.
LEMMA Alone ==
  ASSUME SharedDatabase, IInv, NEW d \in Daemons, NEW e \in Daemons,
         pc[d] # "down", pc[e] # "down"
  PROVE  d = e
  BY SocketAssumption DEF SharedDatabase, IInv, Owned

\* A connection is served only while a daemon is past its listen.
LEMMA ServedBy ==
  ASSUME SharedDatabase, IInv, NEW d \in Daemons, pc[d] # "down", d \notin listening
  PROVE  ~Served
<1>1. \A e \in listening : e \in Daemons /\ pc[e] # "down"
  BY DEF IInv, Resting, TypeOK
<1> QED  BY <1>1, Alone DEF Served

LEMMA InitInductive == Init => IInv
  BY SocketAssumption DEF Init, IInv, TypeOK, Owned, Resting, Known, Preparing, Binding,
     Stopping, Endings

\* The type invariant is inductive by itself, with any databases.
LEMMA NextTypes == TypeOK /\ [Next]_vars => TypeOK'
<1> SUFFICES ASSUME TypeOK, [Next]_vars PROVE TypeOK'
  OBVIOUS
<1> USE SocketAssumption DEF TypeOK, Goto
<1>1. ASSUME NEW d \in Daemons, NEW r \in Endings, Exit(d, r), UNCHANGED path
      PROVE  TypeOK'
  BY <1>1 DEF Exit
<1>2. ASSUME NEW d \in Daemons, Step(d) PROVE TypeOK'
  <2>1. CASE Start(d)
    BY <2>1 DEF Start, Preparing, Endings
  <2>2. CASE StartFails(d)
    BY <2>2, <1>1 DEF StartFails, Endings
  <2>3. CASE Inspect(d)
    BY <2>3, <1>1 DEF Inspect, Preparing, Binding, Endings
  <2>4. CASE Probe(d)
    BY <2>4, <1>1 DEF Probe, Preparing, Binding, Endings
  <2>5. CASE Reinspect(d)
    BY <2>5, <1>1 DEF Reinspect, Preparing, Binding, Endings
  <2>6. CASE Remove(d)
    BY <2>6, <1>1 DEF Remove, Binding, Endings
  <2>7. CASE Bind(d)
    BY <2>7, <1>1 DEF Bind, Binding, Endings
  <2>8. CASE Listen(d)
    BY <2>8 DEF Listen, Binding
  <2>9. CASE NewGuard(d)
    BY <2>9, <1>1 DEF NewGuard, Binding, Endings
  <2>10. CASE SetPermissions(d)
    BY <2>10 DEF SetPermissions, Stopping
  <2>11. CASE Stop(d)
    BY <2>11 DEF Stop, Stopping
  <2>12. CASE DropCheck(d)
    BY <2>12 DEF DropCheck, Stopping
  <2>13. CASE DropRemove(d)
    BY <2>13 DEF DropRemove, Stopping
  <2>14. CASE Finish(d)
    BY <2>14, <1>1 DEF Finish, Endings
  <2>15. CASE Crash(d)
    BY <2>15, <1>1 DEF Crash, Endings
  <2> QED
    BY <1>2, <2>1, <2>2, <2>3, <2>4, <2>5, <2>6, <2>7, <2>8, <2>9, <2>10, <2>11,
       <2>12, <2>13, <2>14, <2>15 DEF Step
<1>3. CASE UNCHANGED vars
  BY <1>3 DEF vars
<1> QED  BY <1>2, <1>3 DEF Next

\* While the others are down, a step of one daemon that keeps the lock keeps the
\* invariant if it establishes what that daemon knows.
LEMMA StepAlone ==
  ASSUME SharedDatabase, IInv, TypeOK', NEW d \in Daemons,
         \A e \in Daemons \ {d} : pc[e] = "down",
         \A e \in Daemons \ {d} : pc'[e] = pc[e] /\ bound'[e] = bound[e],
         listening' \ {d} = listening \ {d},
         pc'[d] # "down", owner'[DatabaseOf[d]] = d, Known(d)'
  PROVE  IInv'
<1>1. Owned'
  BY DEF Owned
<1>2. Resting'
  BY DEF Resting, IInv
<1>3. ASSUME NEW e \in Daemons \ {d} PROVE Known(e)'
  BY <1>3 DEF Known, Preparing
<1> QED  BY <1>1, <1>2, <1>3 DEF IInv

\* A daemon that ends leaves nothing but the file behind.
LEMMA ExitInductive ==
  ASSUME SharedDatabase, IInv, TypeOK', NEW d \in Daemons, pc[d] # "down", NEW r,
         Exit(d, r)
  PROVE  IInv'
<1>1. \A e \in Daemons : pc'[e] = "down"
  BY Alone DEF Exit, Goto, IInv, TypeOK
<1>2. Resting'
  BY <1>1, Alone DEF Resting, Exit, Goto, IInv, TypeOK
<1>3. Owned' /\ \A e \in Daemons : Known(e)'
  BY <1>1 DEF Owned, Known, Preparing
<1> QED  BY <1>2, <1>3 DEF IInv

LEMMA NextInductive == SharedDatabase /\ IInv /\ [Next]_vars => IInv'
<1> SUFFICES ASSUME SharedDatabase, IInv, [Next]_vars PROVE IInv'
  OBVIOUS
<1>1. TypeOK /\ TypeOK'
  BY NextTypes DEF IInv
<1>2. CASE UNCHANGED vars
  BY <1>1, <1>2 DEF IInv, Owned, Resting, Known, vars
<1>3. ASSUME NEW d \in Daemons, Step(d) PROVE IInv'
  <2>1. CASE Start(d)
    <3>1. \A e \in Daemons : pc[e] = "down"
      BY <2>1, SocketAssumption DEF Start, SharedDatabase, IInv, Owned
    <3>2. owner'[DatabaseOf[d]] = d
      BY <1>1, <2>1, SocketAssumption DEF Start, TypeOK
    <3>3. pc'[d] # "down" /\ Known(d)'
      BY <1>1, <2>1, <3>1 DEF Start, Goto, Known, TypeOK, Preparing, IInv, Resting
    <3> QED  BY <1>1, <2>1, <3>1, <3>2, <3>3, StepAlone DEF Start, Goto, TypeOK
  <2>2. ASSUME pc[d] # "down" PROVE IInv'
    <3>1. \A e \in Daemons \ {d} : pc[e] = "down"
      BY <2>2, Alone
    <3>2. owner[DatabaseOf[d]] = d
      BY <2>2 DEF IInv, Owned
    <3>3. ASSUME NEW r, Exit(d, r) PROVE IInv'
      BY <1>1, <2>2, <3>3, ExitInductive
    <3>4. ASSUME owner' = owner, pc'[d] # "down", Known(d)',
                 \A e \in Daemons \ {d} : pc'[e] = pc[e] /\ bound'[e] = bound[e],
                 listening' \ {d} = listening \ {d}
          PROVE  IInv'
      BY <1>1, <3>1, <3>2, <3>4, StepAlone
    <3> USE DEF Goto, TypeOK
    <3>5. CASE StartFails(d) \/ Finish(d) \/ Crash(d)
      BY <3>3, <3>5 DEF StartFails, Finish, Crash
    <3>6. CASE Inspect(d)
      BY <1>1, <3>3, <3>4, <3>6 DEF Inspect, Known, Preparing, IInv
    <3>7. CASE Probe(d)
      BY <1>1, <3>3, <3>4, <3>7, SocketAssumption DEF Probe, Known, Preparing, IInv
    <3>8. CASE Reinspect(d)
      BY <1>1, <3>3, <3>4, <3>8, SocketAssumption DEF Reinspect, Known, Preparing, IInv
    <3>9. CASE Remove(d)
      BY <1>1, <3>3, <3>4, <3>9 DEF Remove, Known, Preparing, IInv
    <3>10. CASE Bind(d)
      BY <1>1, <3>3, <3>4, <3>10 DEF Bind, Known, Preparing, IInv
    <3>11. CASE Listen(d)
      BY <1>1, <3>4, <3>11 DEF Listen, Known, Preparing, IInv
    <3>12. CASE NewGuard(d)
      BY <1>1, <3>3, <3>4, <3>12 DEF NewGuard, Known, Preparing, IInv
    <3>13. CASE SetPermissions(d)
      BY <1>1, <3>4, <3>13 DEF SetPermissions, Known, Preparing, IInv
    <3>14. CASE Stop(d)
      BY <1>1, <3>4, <3>14 DEF Stop, Known, Preparing, IInv
    <3>15. CASE DropCheck(d)
      BY <1>1, <3>4, <3>15 DEF DropCheck, Known, Preparing, IInv
    <3>16. CASE DropRemove(d)
      BY <1>1, <3>4, <3>16 DEF DropRemove, Known, Preparing, IInv
    <3> QED
      BY <1>3, <2>2, <3>5, <3>6, <3>7, <3>8, <3>9, <3>10, <3>11, <3>12, <3>13, <3>14,
         <3>15, <3>16 DEF Step, Start
  <2>3. pc[d] = "down" => Start(d)
    BY <1>3 DEF Step, StartFails, Inspect, Probe, Reinspect, Remove, Bind, Listen,
       NewGuard, SetPermissions, Stop, DropCheck, DropRemove, Finish, Crash, Preparing,
       Binding
  <2> QED  BY <2>1, <2>2, <2>3
<1> QED  BY <1>2, <1>3 DEF Next

-----------------------------------------------------------------------------
\* TypeCorrect: every system call of the start and the stop leaves the daemons, the
\* locks and the path in states of their types, whatever the databases are.
THEOREM TypeCorrect == Spec => []TypeOK
<1>1. Init => TypeOK
  BY SocketAssumption DEF Init, TypeOK, Endings
<1> QED  BY <1>1, NextTypes, PTL DEF Spec

\* Inductive: while all daemons share a database, IInv holds.
THEOREM Inductive ==
  ASSUME SharedDatabase
  PROVE  Spec => []IInv
<1>1. IInv /\ [Next]_vars => IInv'
  BY NextInductive
<1> QED  BY <1>1, InitInductive, PTL DEF Spec

\* Reachable: the daemons of one database never lose the socket they serve.
THEOREM Reachable ==
  ASSUME SharedDatabase
  PROVE  Spec => []ServingIsReachable
<1>1. IInv => ServingIsReachable
  BY DEF IInv, Known, ServingIsReachable
<1> QED  BY <1>1, Inductive, PTL

\* ActiveSocketStays: what a start removes is stale.
THEOREM ActiveSocketStays ==
  ASSUME SharedDatabase
  PROVE  Spec => StartupSparesActiveSocket
<1>1. IInv => \A d \in Daemons : pc[d] = "remove" => ~Served
  BY ServedBy DEF IInv, Known, Preparing
<1>2. IInv /\ [Next]_vars
        => [\A d \in Daemons : pc[d] = "remove" /\ pc'[d] = "bind" => ~Served]_vars
  BY <1>1
<1> QED  BY <1>2, Inductive, PTL DEF Spec, StartupSparesActiveSocket

\* OthersSocketStays: what the drop of a guard removes is the socket it was made for.
THEOREM OthersSocketStays ==
  ASSUME SharedDatabase
  PROVE  Spec => ShutdownSparesOthers
<1>1. IInv => \A d \in Daemons : pc[d] = "drop_remove" =>
                path # None /\ \A e \in Daemons \ {d} : bound[e] = None
  BY Alone, SocketAssumption DEF IInv, Known, Resting
<1>2. IInv /\ [Next]_vars
        => [\A d \in Daemons : pc[d] = "drop_remove" /\ pc'[d] = "exit" /\ path # None
              => \A e \in Daemons \ {d} : bound[e] # path]_vars
  BY <1>1
<1> QED  BY <1>2, Inductive, PTL DEF Spec, ShutdownSparesOthers

\* StartsAfterCrash: nothing that a crash leaves at the path refuses a start.
THEOREM StartsAfterCrash ==
  ASSUME SharedDatabase
  PROVE  Spec => StaleSocketNeverBlocks
<1>1. ASSUME IInv, NEW d \in Daemons, Step(d), NEW e \in Daemons,
             ended'[e] = "refused", ended[e] # "refused"
      PROVE  path = PlainFile
  <2>1. ended \in [Daemons -> Endings] /\ Known(d)
    BY <1>1 DEF IInv, TypeOK
  <2>2. e = d
    BY <1>1, <2>1 DEF Step, Start, StartFails, Inspect, Probe, Reinspect, Remove, Bind,
       Listen, NewGuard, SetPermissions, Stop, DropCheck, DropRemove, Finish, Crash, Exit
  <2>3. pc[d] = "probe" => ~Served
    BY <1>1, ServedBy DEF IInv, Known, Preparing
  <2>4. Inspect(d) \/ Probe(d) \/ Reinspect(d) \/ Remove(d) \/ Bind(d)
    BY <1>1, <2>1, <2>2 DEF Step, Start, StartFails, Listen, NewGuard, SetPermissions,
       Stop, DropCheck, DropRemove, Finish, Crash, Exit
  <2> QED
    BY <1>1, <2>1, <2>2, <2>3, <2>4, SocketAssumption DEF Inspect, Probe, Reinspect,
       Remove, Bind, Known
<1>2. IInv /\ [Next]_vars
        => [\A d \in Daemons : ended'[d] = "refused" /\ ended[d] # "refused"
              => path = PlainFile]_vars
  BY <1>1 DEF Next
<1> QED  BY <1>2, Inductive, PTL DEF Spec, StaleSocketNeverBlocks

\* CleansUp: a daemon that stops in order takes its socket file with it.
THEOREM CleansUp ==
  ASSUME SharedDatabase
  PROVE  Spec => StopLeavesNoSocket
<1>1. ASSUME IInv, NEW d \in Daemons, Step(d), NEW e \in Daemons,
             ended'[e] = "stopped", ended[e] # "stopped"
      PROVE  path' = None
  <2>1. ended \in [Daemons -> Endings] /\ Known(d)
    BY <1>1 DEF IInv, TypeOK
  <2>2. Finish(d)
    BY <1>1, <2>1 DEF Step, Start, StartFails, Inspect, Probe, Reinspect, Remove, Bind,
       Listen, NewGuard, SetPermissions, Stop, DropCheck, DropRemove, Crash, Exit
  <2> QED  BY <2>1, <2>2 DEF Finish, Known
<1>2. IInv /\ [Next]_vars
        => [\A d \in Daemons : ended'[d] = "stopped" /\ ended[d] # "stopped"
              => path' = None]_vars
  BY <1>1 DEF Next
<1> QED  BY <1>2, Inductive, PTL DEF Spec, StopLeavesNoSocket

\* Nobody gets past the first look at the path while there is no socket.
PlainFileStops == path = PlainFile => \A d \in Daemons : pc[d] \in {"down", "inspect"}

LEMMA PlainFileStep ==
  ASSUME TypeOK, PlainFileStops, NEW d \in Daemons, Step(d)
  PROVE  PlainFileStops' /\ (path = PlainFile => path' = PlainFile)
<1>1. CASE path = PlainFile
  <2>1. pc[d] \in {"down", "inspect"}
    BY <1>1 DEF PlainFileStops
  <2>2. Start(d) \/ StartFails(d) \/ Inspect(d) \/ Crash(d)
    BY <2>1 DEF Step, Probe, Reinspect, Remove, Bind, Listen, NewGuard, SetPermissions, Stop,
       DropCheck, DropRemove, Finish
  <2>3. path' = path /\ pc' \in {[pc EXCEPT ![d] = "down"], [pc EXCEPT ![d] = "inspect"]}
    BY <1>1, <2>2 DEF Start, StartFails, Inspect, Crash, Exit, Goto
  <2>. QED
    BY <1>1, <2>3 DEF PlainFileStops, TypeOK
<1>2. CASE path # PlainFile
  <2>1. path' = path \/ path' = None \/ path' \in Inodes
    BY DEF Step, Start, StartFails, Inspect, Probe, Reinspect, Remove, Bind, Listen, NewGuard,
       SetPermissions, Stop, DropCheck, DropRemove, Finish, Crash
  <2>. QED
    BY <1>2, <2>1, SocketAssumption DEF PlainFileStops
<1>. QED
  BY <1>1, <1>2

\* FilesAreSafe: no daemon replaces or removes a file that is not a socket, whatever the
\* databases are: those of two databases, whom no lock orders, do not either.
THEOREM FilesAreSafe == Spec => PlainFileStays
<1>1. Init => PlainFileStops
  BY DEF Init, PlainFileStops
<1>2. TypeOK /\ PlainFileStops /\ [Next]_vars => PlainFileStops'
  BY PlainFileStep DEF Next, vars, PlainFileStops
<1>3. TypeOK /\ PlainFileStops /\ [Next]_vars => [path = PlainFile => path' = PlainFile]_vars
  BY PlainFileStep DEF Next
<1> QED
  BY <1>1, <1>2, <1>3, TypeCorrect, PTL DEF Spec, PlainFileStays
=============================================================================
