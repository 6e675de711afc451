---------------------------- MODULE ControlClient ----------------------------
(***************************************************************************)
(* Operators at their command lines (control-cli), the RPC methods that    *)
(* create, delete and read a HostClaim (rpc.rs) and the claims table under *)
(* them (Storage).  Every call is a process with a connection of its own;  *)
(* it may end without an answer, and the request it sent is then dropped   *)
(* or still executed.  The operator repeats the command with the same id,  *)
(* as the error message tells him to, or gives up.                         *)
(*                                                                         *)
(* Of the controller only finalize_claim is here: the rest of what it does *)
(* changes nothing that these answers depend on.                           *)
(***************************************************************************)
EXTENDS Storage

CONSTANTS
  Users,        \* operators
  MaxI64,       \* i64::MAX
  MaxRequests   \* bound: calls made

ASSUME ClientAssumption ==
  /\ MaxI64 \in Nat /\ MaxRequests \in Nat
  /\ Specs \subseteq [vcpus : Nat, memory_bytes : Nat, storage_bytes : Nat]

VARIABLES
  users,      \* what each operator is doing
  sent,       \* calls made so far; the number of a call is its request_id
  wire,       \* requests that the server has not handled
  replies,    \* responses on their way
  acked,      \* for checking: incarnations of claims a create was answered with
  released,   \* for checking: incarnations a delete took effect on
  inserted    \* for checking: which command inserted which incarnation

clientVars == <<users, sent, wire, replies>>
history    == <<acked, released, inserted>>
vars       == <<storageVars, clientVars, history>>

Commands ==
  [method : {"create"}, claim : ClaimIds, spec : Specs]
    \cup [method : {"delete", "get"}, claim : ClaimIds]

\* What an operator has been told about each claim.
Sightings == [ClaimIds -> [created : Nat, deleting : BOOLEAN] \cup {Null}]

(* `first` is the call that started the command, `request` the last call   *)
(* made for it, `seen` the last answer about each claim.                   *)
Operators == [state   : {"idle", "waiting", "failed"},
              command : Commands \cup {Null},
              first   : 0..MaxRequests,
              request : 0..MaxRequests,
              seen    : Sightings]

Requests == [id : 1..MaxRequests, first : 1..MaxRequests, command : Commands]

Incarnations == [claim : ClaimIds, created : Nat]

\* A response: the claim as the handler left it, or the kind of the error.
Results == [claim : ClaimIds, created : Nat, deleting : BOOLEAN, spec : Specs]
Kinds   == {"InvalidArgument", "NotFound", "Conflict", "Internal"}
Replies == [id : 1..MaxRequests, result : Results \cup {Null},
            error : Kinds \cup {Null}]

-----------------------------------------------------------------------------
\* Variant: zero is not looked for.
validate_resources_range(r) ==
  r.memory_bytes <= MaxI64 /\ r.storage_bytes <= MaxI64

validate_resources(r) ==
  /\ r.vcpus > 0 /\ r.memory_bytes > 0 /\ r.storage_bytes > 0
  /\ r.memory_bytes <= MaxI64 /\ r.storage_bytes <= MaxI64

\* What a claim's row looks like in an answer.
Described(c, row) == [claim |-> c, created |-> row.created,
                      deleting |-> row.deleting, spec |-> row.spec]

\* A response to a process that has ended goes nowhere.
Answer(q, result, error) ==
  replies' = replies \cup
    {[id |-> q.id, result |-> result, error |-> error] :
       u \in {v \in Users : users[v].state = "waiting" /\ users[v].request = q.id}}

Refuse(q, error) ==
  /\ Answer(q, Null, error)
  /\ UNCHANGED <<storageVars, history>>

Taken(q) == wire' = wire \ {q} /\ UNCHANGED <<users, sent>>

-----------------------------------------------------------------------------
(* The operator's side.                                                    *)

\* RpcClient::call up to send_request.
Call(u, command, first) ==
  /\ sent < MaxRequests
  /\ sent' = sent + 1
  /\ wire' = wire \cup {[id |-> sent + 1, first |-> first, command |-> command]}
  /\ users' = [users EXCEPT ![u] = [state |-> "waiting", command |-> command,
                                    first |-> first, request |-> sent + 1,
                                    seen |-> @.seen]]
  /\ UNCHANGED <<storageVars, replies, history>>

Issue(u, command) == users[u].state = "idle" /\ Call(u, command, sent + 1)

Retry(u) == users[u].state = "failed" /\ Call(u, users[u].command, users[u].first)

GiveUp(u) ==
  /\ users[u].state = "failed"
  /\ users' = [users EXCEPT ![u].state = "idle"]
  /\ UNCHANGED <<storageVars, sent, wire, replies, history>>

\* No connection, no response, no success status, a body that cannot be decoded
\* or is too large: the process reports an error of its own and exits.
CallFails(u) ==
  /\ users[u].state = "waiting"
  /\ users' = [users EXCEPT ![u].state = "failed"]
  /\ replies' = {p \in replies : p.id # users[u].request}
  /\ UNCHANGED <<storageVars, sent, wire, history>>

\* What the operator knows after the response.
Told(seen, p) ==
  IF p.result = Null THEN seen
  ELSE [seen EXCEPT ![p.result.claim] = [created |-> p.result.created,
                                         deleting |-> p.result.deleting]]

Settle(u, p) ==
  /\ users' = [users EXCEPT
       ![u].state = IF p.error = "Internal" THEN "failed" ELSE "idle",
       ![u].seen = Told(@, p)]
  /\ acked' = IF p.result # Null /\ users[u].command.method = "create"
              THEN acked \cup {[claim |-> p.result.claim,
                                created |-> p.result.created,
                                spec |-> users[u].command.spec]}
              ELSE acked
  /\ replies' = replies \ {p}
  /\ UNCHANGED <<storageVars, sent, wire, released, inserted>>

\* The response is about the request: a result is printed, an error reported.
Receive(u, p) ==
  /\ users[u].state = "waiting" /\ users[u].request = p.id
  /\ Settle(u, p)

-----------------------------------------------------------------------------
(* The methods of the server.                                              *)

Insert(q) ==
  /\ claims[q.command.claim] = Null
  /\ create_claim(q.command.claim, q.command.spec)
  /\ Answer(q, Described(q.command.claim, claims'[q.command.claim]), Null)
  /\ inserted' = inserted \cup {[first |-> q.first, created |-> clock]}
  /\ UNCHANGED <<acked, released>>

\* Variant: a claim that is there takes the new spec.
RepeatReplacing(q) ==
  LET c == q.command.claim IN
  /\ claims[c] # Null
  /\ claims' = [claims EXCEPT ![c].spec = q.command.spec]
  /\ Answer(q, Described(c, claims'[c]), Null)
  /\ UNCHANGED <<hosts, clock, history>>

\* Variant: asking again for a claim that is being deleted brings it back.
RepeatReviving(q) ==
  LET c == q.command.claim IN
  /\ claims[c] # Null
  /\ IF claims[c].spec = q.command.spec
     THEN /\ claims' = [claims EXCEPT ![c].deleting = FALSE]
          /\ Answer(q, Described(c, claims'[c]), Null)
          /\ UNCHANGED <<hosts, clock, history>>
     ELSE Refuse(q, "Conflict")

Repeat(q) ==
  LET c == q.command.claim IN
  /\ claims[c] # Null
  /\ IF claims[c].spec = q.command.spec
     THEN /\ create_claim(c, q.command.spec)
          /\ Answer(q, Described(c, claims[c]), Null)
          /\ UNCHANGED history
     ELSE Refuse(q, "Conflict")

HandleCreate(q) ==
  /\ q.command.method = "create"
  /\ Taken(q)
  /\ IF validate_resources(q.command.spec) THEN Insert(q) \/ Repeat(q)
     ELSE Refuse(q, "InvalidArgument")

HandleDelete(q) ==
  LET c == q.command.claim IN
  /\ q.command.method = "delete"
  /\ Taken(q)
  /\ IF claims[c] = Null THEN Refuse(q, "NotFound")
     ELSE /\ mark_claim_deleting(c)
          /\ Answer(q, Described(c, claims'[c]), Null)
          /\ released' = released \cup {[claim |-> c, created |-> claims[c].created]}
          /\ UNCHANGED <<acked, inserted>>

HandleGet(q) ==
  LET c == q.command.claim IN
  /\ q.command.method = "get"
  /\ Taken(q)
  /\ IF claims[c] = Null THEN Refuse(q, "NotFound")
     ELSE /\ Answer(q, Described(c, claims[c]), Null)
          /\ UNCHANGED <<storageVars, history>>

\* A storage error in the handler: nothing was committed.
HandleFails(q) == Taken(q) /\ Refuse(q, "Internal")

\* The request is not executed: its connection was refused or lost, or the
\* handler ran into the timeout before its transaction committed.
Drop(q) ==
  /\ wire' = wire \ {q}
  /\ UNCHANGED <<storageVars, users, sent, replies, history>>

\* Variant: the claim goes without its deletion having been asked for.
FinalizeRegardless(c) ==
  /\ claims[c] # Null
  /\ finalize_claim(c)
  /\ UNCHANGED <<clientVars, history>>

\* The controller: the claim is being deleted and holds nothing any more.
Finalize(c) ==
  /\ claims[c] # Null /\ claims[c].deleting
  /\ finalize_claim(c)
  /\ UNCHANGED <<clientVars, history>>

-----------------------------------------------------------------------------
Init ==
  /\ StorageInit
  /\ users = [u \in Users |-> [state |-> "idle", command |-> Null, first |-> 0,
                               request |-> 0, seen |-> [c \in ClaimIds |-> Null]]]
  /\ sent = 0 /\ wire = {} /\ replies = {}
  /\ acked = {} /\ released = {} /\ inserted = {}

Next ==
  \/ \E u \in Users : \/ \E command \in Commands : Issue(u, command)
                      \/ Retry(u) \/ GiveUp(u) \/ CallFails(u)
                      \/ \E p \in replies : Receive(u, p)
  \/ \E q \in wire : \/ HandleCreate(q) \/ HandleDelete(q) \/ HandleGet(q)
                     \/ HandleFails(q) \/ Drop(q)
  \/ \E c \in ClaimIds : Finalize(c)

Spec == Init /\ [][Next]_vars

-----------------------------------------------------------------------------
\* TypeOK: the state keeps its types, and every row of host_claims satisfies the CHECK
\* constraints of its table and the range of its integers.
TypeOK ==
  /\ StorageTypeOK
  /\ \A c \in ClaimIds :
       claims[c] # Null =>
         /\ claims[c].spec.vcpus > 0
         /\ claims[c].spec.memory_bytes \in 1..MaxI64
         /\ claims[c].spec.storage_bytes \in 1..MaxI64
  /\ users \in [Users -> Operators]
  /\ sent \in 0..MaxRequests
  /\ wire \subseteq Requests /\ replies \subseteq Replies
  /\ acked \subseteq [claim : ClaimIds, created : Nat, spec : Specs]
  /\ released \subseteq Incarnations
  /\ inserted \subseteq [first : 1..MaxRequests, created : Nat]

\* AcknowledgedIsKept: what a create was answered with is true of the table for as long
\* as nobody deletes it: through retries, late and repeated requests and conflicting
\* ones, that incarnation of the claim is there with the spec its operator asked for.
AcknowledgedIsKept ==
  \A a \in acked :
    \/ [claim |-> a.claim, created |-> a.created] \in released
    \/ /\ claims[a.claim] # Null
       /\ claims[a.claim].created = a.created
       /\ claims[a.claim].spec = a.spec
       /\ ~claims[a.claim].deleting

\* RepeatsOnlyAfterRelease: a create that is repeated inserts its claim again only after
\* the claim it inserted before was released.
RepeatsOnlyAfterRelease ==
  \A x, y \in inserted : x.first = y.first /\ x.created < y.created =>
    \E c \in ClaimIds : [claim |-> c, created |-> x.created] \in released

\* SessionsGoForward: what one operator is told about a claim never goes back: a later
\* answer is about a later incarnation, or about the same one, and then a deletion he
\* has been told of is still in it.
SessionsGoForward ==
  [][\A u \in Users, c \in ClaimIds :
       LET old == users[u].seen[c]
           new == users'[u].seen[c]
       IN  old # Null => \/ new.created > old.created
                         \/ /\ new.created = old.created
                            /\ old.deleting => new.deleting]_vars

\* RetryInsertsOnce: repeating a create with its id is idempotent: one command inserts
\* one claim at most, however often it is repeated.
RetryInsertsOnce ==
  \A x, y \in inserted : x.first = y.first => x = y
=============================================================================
