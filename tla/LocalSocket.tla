----------------------------- MODULE LocalSocket -----------------------------
(***************************************************************************)
(* How daemons take and give up the database ownership lock (storage.rs)   *)
(* and the socket path of the local RPC server (rpc.rs), in the order of   *)
(* main.rs.  All daemons are configured with the same socket path; each    *)
(* has its own choice of database.  Every system call on the shared path   *)
(* is a step of its own.                                                   *)
(*                                                                         *)
(* A socket's identity is its inode number (the device is the same for all *)
(* of them).  The kernel may give a number out again as soon as neither    *)
(* the path nor an open socket refers to it.                               *)
(***************************************************************************)
EXTENDS Naturals

CONSTANTS
  Daemons,     \* processes running control-plane
  Databases,   \* database files
  DatabaseOf,  \* the --database-path of each daemon
  Inodes,      \* inode numbers of socket files
  PlainFile,   \* what the path holds when it is not a socket
  None         \* no file, no inode, no owner

ASSUME SocketAssumption ==
  /\ DatabaseOf \in [Daemons -> Databases]
  /\ None \notin Daemons /\ None \notin Inodes
  /\ PlainFile \notin Inodes /\ PlainFile # None

VARIABLES
  pc,         \* the daemon's next system call
  owner,      \* who holds the lock on <database>.lock
  path,       \* what is at the socket path
  bound,      \* the inode the daemon's listener is bound to
  listening,  \* the daemons whose listener accepts connections
  seen,       \* existing_identity in prepare_socket_path
  guard,      \* SocketPathGuard::identity
  ended       \* how the daemon's last run ended

vars == <<pc, owner, path, bound, listening, seen, guard, ended>>

Preparing == {"inspect", "probe", "reinspect", "remove"}
Binding   == {"bind", "listen", "guard", "permissions"}
Stopping  == {"drop_check", "drop_remove", "exit"}

\* The daemons of two databases meet only at the socket path.
SharedDatabase == \A d, e \in Daemons : DatabaseOf[d] = DatabaseOf[e]

\* A connection to the path is accepted by a daemon listening on that inode.
Served == \E e \in listening : bound[e] = path

InodesInUse == {path} \cup {bound[e] : e \in Daemons}

-----------------------------------------------------------------------------
Goto(d, call) == pc' = [pc EXCEPT ![d] = call]

(* The process is gone: the kernel closes its listener and releases its    *)
(* lock.  The socket file stays where it is.                               *)
Exit(d, reason) ==
  /\ Goto(d, "down")
  /\ owner' = [owner EXCEPT ![DatabaseOf[d]] = None]
  /\ bound' = [bound EXCEPT ![d] = None]
  /\ listening' = listening \ {d}
  /\ seen' = [seen EXCEPT ![d] = None]
  /\ guard' = [guard EXCEPT ![d] = None]
  /\ ended' = [ended EXCEPT ![d] = reason]

\* Variant: the lock is taken without asking whether it is held.
StartRegardless(d) ==
  /\ pc[d] = "down"
  /\ owner' = [owner EXCEPT ![DatabaseOf[d]] = d]
  /\ Goto(d, "inspect") /\ ended' = [ended EXCEPT ![d] = "none"]
  /\ UNCHANGED <<path, bound, listening, seen, guard>>

(* Storage::connect and FakeProvider::connect.  A daemon that finds the    *)
(* lock held gives up without having changed anything.                     *)
Start(d) ==
  /\ pc[d] = "down" /\ owner[DatabaseOf[d]] = None
  /\ owner' = [owner EXCEPT ![DatabaseOf[d]] = d]
  /\ Goto(d, "inspect") /\ ended' = [ended EXCEPT ![d] = "none"]
  /\ UNCHANGED <<path, bound, listening, seen, guard>>

\* An I/O error of the databases or of a call on the path ends the start.
StartFails(d) ==
  /\ pc[d] \in Preparing \cup (Binding \ {"permissions"})
  /\ Exit(d, "failed")
  /\ UNCHANGED path

-----------------------------------------------------------------------------
(* prepare_socket_path                                                     *)

\* Variant: whatever is at the path is taken for a socket.
InspectAnything(d) ==
  /\ pc[d] = "inspect"
  /\ IF path = None
     THEN Goto(d, "bind") /\ UNCHANGED seen
     ELSE Goto(d, "probe") /\ seen' = [seen EXCEPT ![d] = path]
  /\ UNCHANGED <<owner, path, bound, listening, guard, ended>>

\* Variant: what is at the path is unlinked before the bind.
InspectUnlinking(d) ==
  /\ pc[d] = "inspect"
  /\ path' = None /\ Goto(d, "bind")
  /\ UNCHANGED <<owner, bound, listening, seen, guard, ended>>

Inspect(d) ==
  /\ pc[d] = "inspect"
  /\ IF path = PlainFile THEN Exit(d, "refused")
     ELSE /\ IF path = None
             THEN Goto(d, "bind") /\ UNCHANGED seen
             ELSE Goto(d, "probe") /\ seen' = [seen EXCEPT ![d] = path]
          /\ UNCHANGED <<owner, bound, listening, guard, ended>>
  /\ UNCHANGED path

\* connect: accepted or timed out, no such file, or refused.
Probe(d) ==
  /\ pc[d] = "probe"
  /\ IF Served THEN Exit(d, "refused")
     ELSE /\ Goto(d, IF path = None THEN "bind" ELSE "reinspect")
          /\ UNCHANGED <<owner, bound, listening, seen, guard, ended>>
  /\ UNCHANGED path

(* remove_socket_if_owned                                                  *)
Reinspect(d) ==
  /\ pc[d] = "reinspect"
  /\ IF path # None /\ (path = PlainFile \/ path # seen[d]) THEN Exit(d, "refused")
     ELSE /\ Goto(d, IF path = None THEN "bind" ELSE "remove")
          /\ UNCHANGED <<owner, bound, listening, seen, guard, ended>>
  /\ UNCHANGED path

\* Variant: the stale file is left for bind to replace.
RemoveNothing(d) ==
  /\ pc[d] = "remove"
  /\ Goto(d, "bind")
  /\ UNCHANGED <<owner, path, bound, listening, seen, guard, ended>>

\* remove_file takes away whatever is at the path by now.
Remove(d) ==
  /\ pc[d] = "remove"
  /\ IF path = None THEN Exit(d, "refused") /\ UNCHANGED path
     ELSE /\ path' = None /\ Goto(d, "bind")
          /\ UNCHANGED <<owner, bound, listening, seen, guard, ended>>

-----------------------------------------------------------------------------
(* bind: the system calls bind and listen, the guard, the permissions.     *)

Bind(d) ==
  /\ pc[d] = "bind"
  /\ IF path # None THEN Exit(d, "refused") /\ UNCHANGED path
     ELSE \E i \in Inodes \ InodesInUse :
            /\ path' = i /\ bound' = [bound EXCEPT ![d] = i]
            /\ Goto(d, "listen")
            /\ UNCHANGED <<owner, listening, seen, guard, ended>>

Listen(d) ==
  /\ pc[d] = "listen"
  /\ listening' = listening \cup {d}
  /\ Goto(d, "guard")
  /\ UNCHANGED <<owner, path, bound, seen, guard, ended>>

\* The guard records the identity of what it finds at the path.
NewGuard(d) ==
  /\ pc[d] = "guard"
  /\ IF path \notin Inodes THEN Exit(d, "failed")
     ELSE /\ guard' = [guard EXCEPT ![d] = path]
          /\ Goto(d, "permissions")
          /\ UNCHANGED <<owner, bound, listening, seen, ended>>
  /\ UNCHANGED path

\* When set_permissions fails the guard is dropped before the listener.
SetPermissions(d) ==
  /\ pc[d] = "permissions"
  /\ \/ path # None /\ Goto(d, "serving")
     \/ Goto(d, "drop_check")
  /\ UNCHANGED <<owner, path, bound, listening, seen, guard, ended>>

-----------------------------------------------------------------------------
\* Variant: the database is let go before the guard is dropped.
StopReleasing(d) ==
  /\ pc[d] = "serving"
  /\ owner' = [owner EXCEPT ![DatabaseOf[d]] = None]
  /\ bound' = [bound EXCEPT ![d] = None]
  /\ listening' = listening \ {d}
  /\ Goto(d, "drop_check")
  /\ UNCHANGED <<path, seen, guard, ended>>

(* serve has returned, its listener dropped; then the guard is dropped, and *)
(* the rest of main ends with the process.                                  *)
Stop(d) ==
  /\ pc[d] = "serving"
  /\ bound' = [bound EXCEPT ![d] = None]
  /\ listening' = listening \ {d}
  /\ Goto(d, "drop_check")
  /\ UNCHANGED <<owner, path, seen, guard, ended>>

\* Variant: the guard is dropped without a look at the path.
DropCheckNothing(d) ==
  /\ pc[d] = "drop_check"
  /\ Goto(d, "exit")
  /\ UNCHANGED <<owner, path, bound, listening, seen, guard, ended>>

DropCheck(d) ==
  /\ pc[d] = "drop_check"
  /\ Goto(d, IF path = guard[d] THEN "drop_remove" ELSE "exit")
  /\ UNCHANGED <<owner, path, bound, listening, seen, guard, ended>>

DropRemove(d) ==
  /\ pc[d] = "drop_remove"
  /\ path' = None
  /\ Goto(d, "exit")
  /\ UNCHANGED <<owner, bound, listening, seen, guard, ended>>

Finish(d) ==
  /\ pc[d] = "exit"
  /\ Exit(d, IF bound[d] = None THEN "stopped" ELSE "failed")
  /\ UNCHANGED path

Crash(d) ==
  /\ pc[d] # "down"
  /\ Exit(d, "crashed")
  /\ UNCHANGED path

-----------------------------------------------------------------------------
\* A file may be there already: left by a crash, or not a socket at all.
Init ==
  /\ pc = [d \in Daemons |-> "down"]
  /\ owner = [b \in Databases |-> None]
  /\ path \in Inodes \cup {None, PlainFile}
  /\ bound = [d \in Daemons |-> None]
  /\ listening = {}
  /\ seen = [d \in Daemons |-> None]
  /\ guard = [d \in Daemons |-> None]
  /\ ended = [d \in Daemons |-> "none"]

Step(d) ==
  \/ Start(d) \/ StartFails(d)
  \/ Inspect(d) \/ Probe(d) \/ Reinspect(d) \/ Remove(d)
  \/ Bind(d) \/ Listen(d) \/ NewGuard(d) \/ SetPermissions(d)
  \/ Stop(d) \/ DropCheck(d) \/ DropRemove(d) \/ Finish(d)
  \/ Crash(d)

Next == \E d \in Daemons : Step(d)

Spec == Init /\ [][Next]_vars

-----------------------------------------------------------------------------
Endings == {"none", "refused", "failed", "stopped", "crashed"}

\* TypeOK: the state keeps its types; what a daemon remembers of the path, in
\* prepare_socket_path and in its guard, is always the identity of a socket.
TypeOK ==
  /\ pc \in [Daemons -> {"down", "serving"} \cup Preparing \cup Binding \cup Stopping]
  /\ owner \in [Databases -> Daemons \cup {None}]
  /\ path \in Inodes \cup {None, PlainFile}
  /\ bound \in [Daemons -> Inodes \cup {None}]
  /\ listening \subseteq Daemons
  /\ seen \in [Daemons -> Inodes \cup {None}]
  /\ guard \in [Daemons -> Inodes \cup {None}]
  /\ ended \in [Daemons -> Endings]

\* ServingIsReachable: a daemon that serves is found at the socket path, by its own
\* inode, and the guard it will drop names that inode: through the stale files of
\* earlier crashes, reused inode numbers and the starts of other daemons.
ServingIsReachable ==
  \A d \in Daemons : pc[d] = "serving" =>
    d \in listening /\ path = bound[d] /\ guard[d] = bound[d]

\* StartupSparesActiveSocket: the socket file that prepare_socket_path removes is
\* stale: no daemon accepts connections there at the moment it is removed.
StartupSparesActiveSocket ==
  [][\A d \in Daemons : pc[d] = "remove" /\ pc'[d] = "bind" => ~Served]_vars

\* ShutdownSparesOthers: the file that the drop of a SocketPathGuard removes is not
\* the socket of another daemon.
ShutdownSparesOthers ==
  [][\A d \in Daemons : pc[d] = "drop_remove" /\ pc'[d] = "exit" /\ path # None
       => \A e \in Daemons \ {d} : bound[e] # path]_vars

\* StaleSocketNeverBlocks: a start is refused at the socket path only because of a
\* file that is not a socket.  What a crash leaves there, at whatever point of the
\* start or the stop it came, never keeps the next daemon from starting.
StaleSocketNeverBlocks ==
  [][\A d \in Daemons : ended'[d] = "refused" /\ ended[d] # "refused"
       => path = PlainFile]_vars

\* StopLeavesNoSocket: a daemon that stopped in order leaves no socket file.
StopLeavesNoSocket ==
  [][\A d \in Daemons : ended'[d] = "stopped" /\ ended[d] # "stopped"
       => path' = None]_vars

\* PlainFileStays: a path that is not a socket is never replaced.
PlainFileStays == [][path = PlainFile => path' = PlainFile]_vars
=============================================================================
