------------------------- MODULE ControlClientProofs -------------------------
(***************************************************************************)
(* Proofs about ControlClient for any number of operators, claims, specs   *)
(* and requests.                                                           *)
(***************************************************************************)
EXTENDS ControlClient, StorageProofs

\* An operator that waits, or may repeat his command, has one.
Busy == \A u \in Users : users[u].state # "idle" =>
          users[u].command \in Commands /\ users[u].first \in 1..MaxRequests

\* Requests and responses carry the numbers of calls that were made.
Numbered ==
  /\ \A u \in Users : users[u].request <= sent
  /\ \A q \in wire : q.id <= sent
  /\ \A p \in replies : p.id <= sent

\* A request is for the command of the operator who sent it.
OwnRequest ==
  \A q \in wire, u \in Users : users[u].request = q.id => users[u].command = q.command

\* A claim that is being deleted was released by a delete.
DeletingIsReleased ==
  \A c \in ClaimIds : claims[c] # Null /\ claims[c].deleting =>
    [claim |-> c, created |-> claims[c].created] \in released

\* This incarnation is in the table with this spec, unless it was released.
Kept(c, created, spec) ==
  \/ [claim |-> c, created |-> created] \in released
  \/ /\ claims[c] # Null /\ claims[c].created = created /\ claims[c].spec = spec
     /\ ~claims[c].deleting

\* A create that is answered, but whose answer is still on its way, is kept too.
AnswerIsKept ==
  \A p \in replies, u \in Users :
    /\ users[u].request = p.id /\ p.result # Null
    /\ users[u].command \in Commands /\ users[u].command.method = "create"
    => Kept(p.result.claim, p.result.created, users[u].command.spec)

AckedIsKept == \A a \in acked : Kept(a.claim, a.created, a.spec)

Protocol == Busy /\ Numbered /\ OwnRequest
Promises == DeletingIsReleased /\ AnswerIsKept /\ AckedIsKept
IInv == TypeOK /\ Protocol /\ Promises

-----------------------------------------------------------------------------
LEMMA CreateCommands ==
  ASSUME NEW m \in Commands
  PROVE  /\ m.claim \in ClaimIds
         /\ m.method = "create" => m.spec \in Specs
  BY DEF Commands

LEMMA InitInductive == Init => IInv
<1> SUFFICES ASSUME Init PROVE IInv
  OBVIOUS
<1>1. TypeOK
  <2>1. StorageTypeOK
    BY DEF Init, StorageInit, StorageTypeOK
  <2>2. users \in [Users -> Operators]
    BY ClientAssumption DEF Init, Operators, Sightings
  <2> QED
    BY <2>1, <2>2, ClientAssumption DEF Init, StorageInit, TypeOK
<1>2. Protocol
  BY ClientAssumption DEF Init, Protocol, Busy, Numbered, OwnRequest
<1>3. Promises
  BY DEF Init, StorageInit, Promises, DeletingIsReleased, AnswerIsKept, AckedIsKept
<1> QED  BY <1>1, <1>2, <1>3 DEF IInv

-----------------------------------------------------------------------------
(* The operator's side.                                                    *)

LEMMA CallInductive ==
  ASSUME IInv, NEW u \in Users, NEW m \in Commands, NEW f \in 1..MaxRequests,
         Call(u, m, f)
  PROVE  IInv'
<1>1. TypeOK /\ Protocol /\ Promises
  BY DEF IInv
<1> DEFINE q0 == [id |-> sent + 1, first |-> f, command |-> m]
<1>2. /\ sent \in Nat /\ sent + 1 \in 1..MaxRequests /\ sent' = sent + 1
      /\ wire' = wire \cup {q0} /\ q0 \in Requests
      /\ q0.id = sent + 1 /\ q0.command = m
      /\ UNCHANGED <<claims, hosts, clock, replies, acked, released, inserted>>
  BY <1>1, ClientAssumption DEF Call, TypeOK, Requests, storageVars, history
<1>3. /\ users' \in [Users -> Operators]
      /\ users'[u].request = sent + 1 /\ users'[u].command = m /\ users'[u].first = f
      /\ \A v \in Users \ {u} : users'[v] = users[v]
  <2> DEFINE o == [state |-> "waiting", command |-> m, first |-> f,
                   request |-> sent + 1, seen |-> users[u].seen]
  <2>1. users[u] \in Operators /\ users \in [Users -> Operators]
    BY <1>1 DEF TypeOK
  <2>2. /\ o \in Operators /\ o.request = sent + 1 /\ o.command = m /\ o.first = f
    BY <1>2, <2>1, ClientAssumption DEF Operators
  <2>3. users' = [users EXCEPT ![u] = o]
    BY DEF Call
  <2> HIDE DEF o
  <2> QED  BY <2>1, <2>2, <2>3
<1> HIDE DEF q0
<1>4. TypeOK'
  BY <1>1, <1>2, <1>3, ClientAssumption DEF TypeOK, StorageTypeOK
<1>5. Busy'
  BY <1>1, <1>3 DEF Protocol, Busy
<1>6. Numbered'
  BY <1>1, <1>2, <1>3, ClientAssumption DEF Protocol, Numbered, TypeOK, Operators, Requests,
     Replies
<1>7. OwnRequest'
  <2> SUFFICES ASSUME NEW q \in wire', NEW v \in Users, users'[v].request = q.id
               PROVE  users'[v].command = q.command
    BY DEF OwnRequest
  <2>1. \A r \in wire : r.id <= sent /\ r.id \in Nat
    BY <1>1, ClientAssumption DEF Protocol, Numbered, TypeOK, Requests
  <2>2. \A w \in Users : users[w].request <= sent /\ users[w].request \in Nat
    BY <1>1, ClientAssumption DEF Protocol, Numbered, TypeOK, Operators
  <2>3. CASE q = q0
    BY <1>2, <1>3, <2>2, <2>3
  <2>4. CASE q \in wire
    BY <1>1, <1>2, <1>3, <2>1, <2>4 DEF Protocol, OwnRequest
  <2> QED  BY <1>2, <2>3, <2>4
<1>8. AnswerIsKept'
  <2>1. \A p \in replies : p.id <= sent /\ p.id \in Nat
    BY <1>1, ClientAssumption DEF Protocol, Numbered, TypeOK, Replies
  <2> QED  BY <1>1, <1>2, <1>3, <2>1 DEF Promises, AnswerIsKept, Kept
<1>9. DeletingIsReleased' /\ AckedIsKept'
  BY <1>1, <1>2 DEF Promises, DeletingIsReleased, AckedIsKept, Kept
<1> QED  BY <1>4, <1>5, <1>6, <1>7, <1>8, <1>9 DEF IInv, Protocol, Promises

\* An operator's process that ends sends nothing and changes no row.
LEMMA EndOfCall ==
  ASSUME IInv, users' \in [Users -> Operators],
         \A v \in Users : /\ users'[v].request = users[v].request
                          /\ users'[v].command = users[v].command
                          /\ users'[v].first = users[v].first
                          /\ users'[v].state # "idle" => users[v].state # "idle",
         replies' \subseteq replies,
         UNCHANGED <<claims, hosts, clock, sent, wire, released, inserted>>,
         acked' \subseteq [claim : ClaimIds, created : Nat, spec : Specs],
         AckedIsKept'
  PROVE  IInv'
<1>1. TypeOK /\ Protocol /\ Promises
  BY DEF IInv
<1>2. TypeOK'
  BY <1>1 DEF TypeOK, StorageTypeOK
<1>3. Protocol'
  BY <1>1 DEF Protocol, Busy, Numbered, OwnRequest
<1>4. DeletingIsReleased' /\ AnswerIsKept'
  BY <1>1 DEF Promises, DeletingIsReleased, AnswerIsKept, Kept
<1> QED  BY <1>2, <1>3, <1>4 DEF IInv, Promises

LEMMA EndInductive ==
  ASSUME IInv, NEW u \in Users, GiveUp(u) \/ CallFails(u)
  PROVE  IInv'
<1>1. users \in [Users -> Operators] /\ AckedIsKept /\ acked' = acked
  BY DEF IInv, TypeOK, Promises, GiveUp, CallFails, history
<1>2. users' \in [Users -> Operators]
  BY <1>1 DEF GiveUp, CallFails, Operators
<1>3. \A v \in Users : /\ users'[v].request = users[v].request
                       /\ users'[v].command = users[v].command
                       /\ users'[v].first = users[v].first
                       /\ users'[v].state # "idle" => users[v].state # "idle"
  BY <1>1 DEF GiveUp, CallFails, Operators
<1>4. /\ replies' \subseteq replies
      /\ UNCHANGED <<claims, hosts, clock, sent, wire, released, inserted>>
  BY DEF GiveUp, CallFails, storageVars, history
<1>5. AckedIsKept' /\ acked' \subseteq [claim : ClaimIds, created : Nat, spec : Specs]
  BY <1>1, <1>4 DEF AckedIsKept, Kept, IInv, TypeOK
<1> QED  BY <1>2, <1>3, <1>4, <1>5, EndOfCall

LEMMA ReceiveInductive ==
  ASSUME IInv, NEW u \in Users, NEW p \in replies, Receive(u, p)
  PROVE  IInv'
<1>1. /\ TypeOK /\ Promises /\ p \in Replies /\ users \in [Users -> Operators]
      /\ users[u].state = "waiting" /\ users[u].command \in Commands
  BY DEF IInv, TypeOK, Protocol, Busy, Receive
<1>2. Told(users[u].seen, p) \in Sightings
  <2>1. users[u].seen \in Sightings /\ p.result \in Results \cup {Null}
    BY <1>1 DEF Operators, Replies
  <2>2. CASE p.result # Null
    <3>1. /\ p.result.claim \in ClaimIds
          /\ [created |-> p.result.created, deleting |-> p.result.deleting]
               \in [created : Nat, deleting : BOOLEAN]
      BY <2>1, <2>2 DEF Results
    <3> QED  BY <2>1, <2>2, <3>1 DEF Told, Sightings
  <2> QED  BY <2>1, <2>2 DEF Told
<1> DEFINE s == IF p.error = "Internal" THEN "failed" ELSE "idle"
           t == Told(users[u].seen, p)
<1>3. users' = [users EXCEPT ![u].state = s, ![u].seen = t]
  BY DEF Receive, Settle
<1>4. s \in {"idle", "failed"}
  OBVIOUS
<1> HIDE DEF s, t
<1>5. users' \in [Users -> Operators]
  BY <1>1, <1>2, <1>3, <1>4 DEF Operators, t
<1>6. \A v \in Users : /\ users'[v].request = users[v].request
                       /\ users'[v].command = users[v].command
                       /\ users'[v].first = users[v].first
                       /\ users'[v].state # "idle" => users[v].state # "idle"
  BY <1>1, <1>3 DEF Operators
<1>7. /\ replies' \subseteq replies
      /\ UNCHANGED <<claims, hosts, clock, sent, wire, released, inserted>>
  BY DEF Receive, Settle, storageVars
<1>8. ASSUME NEW a \in acked', a \notin acked
      PROVE  /\ a \in [claim : ClaimIds, created : Nat, spec : Specs]
             /\ Kept(a.claim, a.created, a.spec)
  <2>1. /\ p.result # Null /\ users[u].command.method = "create"
        /\ a = [claim |-> p.result.claim, created |-> p.result.created,
                spec |-> users[u].command.spec]
    BY <1>8 DEF Receive, Settle
  <2>2. p.result \in Results /\ users[u].command.spec \in Specs
    BY <1>1, <2>1, CreateCommands DEF Replies
  <2>3. Kept(p.result.claim, p.result.created, users[u].command.spec)
    BY <1>1, <2>1 DEF Promises, AnswerIsKept, Receive
  <2> QED  BY <2>1, <2>2, <2>3 DEF Results
<1>9. AckedIsKept' /\ acked' \subseteq [claim : ClaimIds, created : Nat, spec : Specs]
  <2>1. \A a \in acked : /\ a \in [claim : ClaimIds, created : Nat, spec : Specs]
                         /\ Kept(a.claim, a.created, a.spec)
    BY <1>1 DEF TypeOK, Promises, AckedIsKept
  <2> QED  BY <1>7, <1>8, <2>1 DEF AckedIsKept, Kept
<1> QED  BY <1>5, <1>6, <1>7, <1>9, EndOfCall

-----------------------------------------------------------------------------
(* The server's side.                                                      *)

\* No step takes a live row away without a delete having asked for it.
RowsStable ==
  /\ released \subseteq released'
  /\ \A c \in ClaimIds : claims[c] # Null /\ ~claims[c].deleting =>
       \/ [claim |-> c, created |-> claims[c].created] \in released'
       \/ /\ claims'[c] # Null /\ claims'[c].created = claims[c].created
          /\ claims'[c].spec = claims[c].spec /\ ~claims'[c].deleting

LEMMA KeptStable ==
  ASSUME RowsStable, NEW c \in ClaimIds, NEW created, NEW spec, Kept(c, created, spec)
  PROVE  Kept(c, created, spec)'
  BY DEF RowsStable, Kept

\* A request is taken from the wire, and perhaps answered.
LEMMA RequestTaken ==
  ASSUME IInv, TypeOK', NEW q \in wire, wire' = wire \ {q}, UNCHANGED <<users, sent, acked>>,
         RowsStable, DeletingIsReleased', NEW pn, pn.id = q.id,
         replies' = replies \/ replies' = replies \cup {pn},
         q.command.method = "create" /\ pn.result # Null =>
           Kept(pn.result.claim, pn.result.created, q.command.spec)'
  PROVE  IInv'
<1>1. TypeOK /\ Protocol /\ Promises
  BY DEF IInv
<1>2. Protocol'
  BY <1>1 DEF Protocol, Busy, Numbered, OwnRequest
<1>3. AckedIsKept'
  BY <1>1, KeptStable DEF Promises, AckedIsKept, TypeOK
<1>4. AnswerIsKept'
  <2> SUFFICES ASSUME NEW p \in replies', NEW u \in Users,
                      users[u].request = p.id, p.result # Null,
                      users[u].command \in Commands, users[u].command.method = "create"
               PROVE  Kept(p.result.claim, p.result.created, users[u].command.spec)'
    BY DEF AnswerIsKept
  <2>1. CASE p \in replies
    <3>1. Kept(p.result.claim, p.result.created, users[u].command.spec)
      BY <1>1, <2>1 DEF Promises, AnswerIsKept
    <3>2. p.result.claim \in ClaimIds
      BY <1>1, <2>1 DEF TypeOK, Replies, Results
    <3> QED  BY <3>1, <3>2, KeptStable DEF Kept
  <2>2. CASE p = pn
    <3>1. users[u].command = q.command
      BY <1>1, <2>2 DEF Protocol, OwnRequest
    <3> QED  BY <2>2, <3>1 DEF Kept
  <2> QED  BY <2>1, <2>2
<1> QED  BY <1>2, <1>3, <1>4 DEF IInv, Promises

\* An answer adds one response at most.
LEMMA AnswerAdds ==
  ASSUME NEW q, NEW result, NEW error, Answer(q, result, error)
  PROVE  \/ replies' = replies
         \/ replies' = replies \cup {[id |-> q.id, result |-> result, error |-> error]}
  BY DEF Answer

\* Nothing changes but the wire and the responses.
LEMMA Unchanged ==
  ASSUME IInv, NEW q \in wire, wire' = wire \ {q},
         UNCHANGED <<claims, hosts, clock, users, sent, acked, released, inserted>>,
         NEW result \in Results \cup {Null}, NEW error \in Kinds \cup {Null},
         \/ replies' = replies
         \/ replies' = replies \cup {[id |-> q.id, result |-> result, error |-> error]},
         q.command.method = "create" /\ result # Null =>
           Kept(result.claim, result.created, q.command.spec)
  PROVE  IInv'
<1> DEFINE pn == [id |-> q.id, result |-> result, error |-> error]
<1>1. pn \in Replies
  BY DEF IInv, TypeOK, Requests, Replies
<1>2. pn.id = q.id /\ pn.result = result
  OBVIOUS
<1>3. replies' = replies \/ replies' = replies \cup {pn}
  OBVIOUS
<1> HIDE DEF pn
<1>4. TypeOK'
  BY <1>1, <1>3 DEF IInv, TypeOK, StorageTypeOK
<1>5. RowsStable /\ DeletingIsReleased'
  BY DEF RowsStable, IInv, Promises, DeletingIsReleased
<1>6. q.command.method = "create" /\ pn.result # Null =>
        Kept(pn.result.claim, pn.result.created, q.command.spec)'
  BY <1>2 DEF Kept
<1> QED  BY <1>2, <1>3, <1>4, <1>5, <1>6, RequestTaken

LEMMA RefuseInductive ==
  ASSUME IInv, NEW q \in wire, Taken(q), NEW e \in Kinds, Refuse(q, e)
  PROVE  IInv'
<1>1. /\ wire' = wire \ {q}
      /\ UNCHANGED <<claims, hosts, clock, users, sent, acked, released, inserted>>
  BY DEF Taken, Refuse, storageVars, history
<1>2. \/ replies' = replies
      \/ replies' = replies \cup {[id |-> q.id, result |-> Null, error |-> e]}
  BY AnswerAdds DEF Refuse
<1> QED  BY <1>1, <1>2, Unchanged

\* The description of a row is a result.
LEMMA RowDescribed ==
  ASSUME NEW c \in ClaimIds, NEW row \in ClaimRecords
  PROVE  /\ Described(c, row) \in Results
         /\ Described(c, row).claim = c /\ Described(c, row).created = row.created
  BY DEF Described, Results, ClaimRecords

LEMMA NewRow ==
  ASSUME NEW spec \in Specs, NEW t \in Nat
  PROVE  /\ InitialClaim(spec, t) \in ClaimRecords /\ InitialClaim(spec, t) # Null
         /\ InitialClaim(spec, t).spec = spec /\ InitialClaim(spec, t).created = t
         /\ ~InitialClaim(spec, t).deleting
  BY InitialTypes, NullAssumption DEF InitialClaim

LEMMA ReleasedRow ==
  ASSUME NEW old \in ClaimRecords
  PROVE  LET row == [old EXCEPT !.deleting = TRUE, !.observed = TRUE,
                                !.ready = "DeletionRequested", !.retry = NoRetry]
         IN  /\ row \in ClaimRecords /\ row.created = old.created
             /\ row.spec = old.spec /\ row.deleting
  BY RetryTypes DEF ClaimRecords, ReadyReasons

LEMMA InsertInductive ==
  ASSUME IInv, NEW q \in wire, q.command.method = "create",
         validate_resources(q.command.spec), Taken(q), Insert(q)
  PROVE  IInv'
<1>1. /\ TypeOK /\ Promises /\ q \in Requests /\ q.command \in Commands
      /\ q.command.claim \in ClaimIds /\ q.command.spec \in Specs
  BY CreateCommands DEF IInv, TypeOK, Requests
<1> DEFINE c == q.command.claim
<1> PICK t : t = clock
  OBVIOUS
<1> PICK row : row = InitialClaim(q.command.spec, t)
  OBVIOUS
<1> PICK pn : pn = [id |-> q.id, result |-> Described(c, row), error |-> Null]
  OBVIOUS
<1>2. /\ claims[c] = Null /\ claims' = [claims EXCEPT ![c] = row] /\ clock' = clock + 1
      /\ hosts' = hosts /\ acked' = acked /\ released' = released
      /\ inserted' = inserted \cup {[first |-> q.first, created |-> clock]}
      /\ wire' = wire \ {q} /\ users' = users /\ sent' = sent
  BY DEF Insert, create_claim, Taken
<1>3. /\ row \in ClaimRecords /\ row # Null /\ row.spec = q.command.spec
      /\ row.created = t /\ ~row.deleting
  BY <1>1, NewRow DEF TypeOK, StorageTypeOK
<1>4. claims' \in [ClaimIds -> ClaimRecords \cup {Null}] /\ claims'[c] = row
  BY <1>1, <1>2, <1>3 DEF TypeOK, StorageTypeOK
<1>5. replies' = replies \/ replies' = replies \cup {pn}
  BY <1>4, AnswerAdds DEF Insert
<1>6. /\ pn \in Replies /\ pn.id = q.id
      /\ pn.result.claim = c /\ pn.result.created = t
  BY <1>1, <1>3, RowDescribed DEF Replies, Requests
<1>7. TypeOK'
  <2>1. StorageTypeOK'
    BY <1>1, <1>2, <1>4 DEF TypeOK, StorageTypeOK
  <2>2. \A d \in ClaimIds : claims'[d] # Null =>
          /\ claims'[d].spec.vcpus > 0
          /\ claims'[d].spec.memory_bytes \in 1..MaxI64
          /\ claims'[d].spec.storage_bytes \in 1..MaxI64
    <3>1. /\ q.command.spec.vcpus > 0
          /\ q.command.spec.memory_bytes \in 1..MaxI64
          /\ q.command.spec.storage_bytes \in 1..MaxI64
      BY <1>1, ClientAssumption DEF validate_resources
    <3> QED  BY <1>1, <1>2, <1>3, <1>4, <3>1 DEF TypeOK, StorageTypeOK
  <2>3. inserted' \subseteq [first : 1..MaxRequests, created : Nat]
    BY <1>1, <1>2 DEF TypeOK, StorageTypeOK, Requests
  <2> QED  BY <1>1, <1>2, <1>5, <1>6, <2>1, <2>2, <2>3 DEF TypeOK
<1>8. RowsStable
  BY <1>1, <1>2 DEF RowsStable, TypeOK, StorageTypeOK
<1>9. DeletingIsReleased'
  BY <1>1, <1>2, <1>3 DEF Promises, DeletingIsReleased, TypeOK, StorageTypeOK
<1>10. Kept(pn.result.claim, pn.result.created, q.command.spec)'
  BY <1>2, <1>3, <1>4, <1>6 DEF Kept
<1> QED  BY <1>2, <1>5, <1>6, <1>7, <1>8, <1>9, <1>10, RequestTaken

LEMMA RepeatInductive ==
  ASSUME IInv, NEW q \in wire, q.command.method = "create", Taken(q), Repeat(q)
  PROVE  IInv'
<1>1. /\ TypeOK /\ Promises /\ q.command.claim \in ClaimIds
      /\ wire' = wire \ {q} /\ UNCHANGED <<users, sent>>
  BY CreateCommands DEF IInv, TypeOK, Requests, Taken
<1>2. CASE claims[q.command.claim].spec = q.command.spec
  <2> DEFINE c == q.command.claim
             result == Described(c, claims[c])
  <2>1. /\ claims[c] # Null /\ claims[c] \in ClaimRecords
        /\ UNCHANGED <<claims, hosts, clock, acked, released, inserted>>
    BY <1>1, <1>2 DEF Repeat, create_claim, history, TypeOK, StorageTypeOK
  <2>2. /\ result \in Results /\ result.claim = c /\ result.created = claims[c].created
    BY <1>1, <2>1, RowDescribed
  <2>3. \/ replies' = replies
        \/ replies' = replies \cup {[id |-> q.id, result |-> result, error |-> Null]}
    BY <1>2, AnswerAdds DEF Repeat
  <2> HIDE DEF result
  <2>4. Kept(result.claim, result.created, q.command.spec)
    BY <1>1, <1>2, <2>1, <2>2 DEF Kept, Promises, DeletingIsReleased
  <2> QED  BY <1>1, <2>1, <2>2, <2>3, <2>4, Unchanged
<1>3. CASE claims[q.command.claim].spec # q.command.spec
  BY <1>3, RefuseInductive DEF Repeat, Kinds
<1> QED  BY <1>2, <1>3

LEMMA DeleteInductive ==
  ASSUME IInv, NEW q \in wire, HandleDelete(q)
  PROVE  IInv'
<1>1. /\ TypeOK /\ Promises /\ q \in Requests /\ q.command.claim \in ClaimIds
      /\ wire' = wire \ {q} /\ UNCHANGED <<users, sent>> /\ Taken(q)
      /\ q.command.method = "delete"
  BY CreateCommands DEF IInv, TypeOK, Requests, Taken, HandleDelete
<1>2. CASE claims[q.command.claim] = Null
  BY <1>1, <1>2, RefuseInductive DEF HandleDelete, Kinds
<1>3. CASE claims[q.command.claim] # Null
  <2> DEFINE c == q.command.claim
             gone == [claim |-> c, created |-> claims[c].created]
  <2> PICK pn : pn = [id |-> q.id, result |-> Described(c, claims'[c]), error |-> Null]
    OBVIOUS
  <2>1. /\ mark_claim_deleting(c) /\ released' = released \cup {gone}
        /\ UNCHANGED <<hosts, clock, acked, inserted>>
    BY <1>3 DEF HandleDelete, mark_claim_deleting
  <2>2. claims[c] \in ClaimRecords /\ claims \in [ClaimIds -> ClaimRecords \cup {Null}]
    BY <1>1, <1>3 DEF TypeOK, StorageTypeOK
  <2>3. /\ claims' \in [ClaimIds -> ClaimRecords \cup {Null}]
        /\ \A d \in ClaimIds \ {c} : claims'[d] = claims[d]
        /\ claims'[c] \in ClaimRecords /\ claims'[c].created = claims[c].created
        /\ claims'[c].spec = claims[c].spec /\ claims'[c].deleting
    <3>1. CASE claims[c].deleting
      BY <2>1, <2>2, <3>1 DEF mark_claim_deleting
    <3>2. CASE ~claims[c].deleting
      <4> DEFINE row == [claims[c] EXCEPT !.deleting = TRUE, !.observed = TRUE,
                                          !.ready = "DeletionRequested", !.retry = NoRetry]
      <4>1. /\ row \in ClaimRecords /\ row.created = claims[c].created
            /\ row.spec = claims[c].spec /\ row.deleting
        BY <2>2, ReleasedRow
      <4>2. claims' = [claims EXCEPT ![c] = row]
        BY <2>1, <2>2, <3>2 DEF mark_claim_deleting
      <4> HIDE DEF row
      <4> QED  BY <1>1, <2>2, <4>1, <4>2
    <3> QED  BY <3>1, <3>2
  <2>4. replies' = replies \/ replies' = replies \cup {pn}
    BY <1>3, AnswerAdds DEF HandleDelete
  <2>5. pn \in Replies /\ pn.id = q.id
    BY <1>1, <2>3, RowDescribed DEF Replies, Requests
  <2>6. gone \in Incarnations
    BY <1>1, <2>2 DEF Incarnations, ClaimRecords
  <2>7. TypeOK'
    <3>1. StorageTypeOK'
      BY <1>1, <2>1, <2>3 DEF TypeOK, StorageTypeOK
    <3>2. \A d \in ClaimIds : claims'[d] # Null => claims[d] # Null /\ claims'[d].spec = claims[d].spec
      BY <1>3, <2>3
    <3> QED  BY <1>1, <2>1, <2>4, <2>5, <2>6, <3>1, <3>2 DEF TypeOK
  <2>8. RowsStable /\ DeletingIsReleased'
    BY <1>1, <2>1, <2>3 DEF RowsStable, Promises, DeletingIsReleased
  <2> QED  BY <1>1, <2>1, <2>4, <2>5, <2>7, <2>8, RequestTaken
<1> QED  BY <1>2, <1>3

LEMMA GetInductive ==
  ASSUME IInv, NEW q \in wire, HandleGet(q)
  PROVE  IInv'
<1>1. /\ TypeOK /\ q.command.claim \in ClaimIds /\ wire' = wire \ {q}
      /\ UNCHANGED <<users, sent>> /\ Taken(q) /\ q.command.method = "get"
  BY CreateCommands DEF IInv, TypeOK, Requests, Taken, HandleGet
<1>2. CASE claims[q.command.claim] = Null
  BY <1>1, <1>2, RefuseInductive DEF HandleGet, Kinds
<1>3. CASE claims[q.command.claim] # Null
  <2> DEFINE result == Described(q.command.claim, claims[q.command.claim])
  <2>1. result \in Results
    BY <1>1, <1>3, RowDescribed DEF TypeOK, StorageTypeOK
  <2>2. UNCHANGED <<claims, hosts, clock, acked, released, inserted>>
    BY <1>3 DEF HandleGet, storageVars, history
  <2>3. \/ replies' = replies
        \/ replies' = replies \cup {[id |-> q.id, result |-> result, error |-> Null]}
    BY <1>3, AnswerAdds DEF HandleGet
  <2> HIDE DEF result
  <2> QED  BY <1>1, <2>1, <2>2, <2>3, Unchanged
<1> QED  BY <1>2, <1>3

LEMMA FinalizeInductive ==
  ASSUME IInv, NEW c \in ClaimIds, Finalize(c)
  PROVE  IInv'
<1>1. /\ TypeOK /\ Protocol /\ Promises /\ claims[c] # Null /\ claims[c].deleting
      /\ claims' = [claims EXCEPT ![c] = Null] /\ clock' = clock
      /\ UNCHANGED <<users, sent, wire, replies, acked, released, inserted>>
  BY DEF IInv, Finalize, finalize_claim, clientVars, history
<1>2. TypeOK'
  <2>1. hosts' \in [HostIds -> HostRecords \cup {Null}]
    BY <1>1 DEF Finalize, finalize_claim, TypeOK, StorageTypeOK
  <2> QED  BY <1>1, <2>1 DEF TypeOK, StorageTypeOK
<1>3. Protocol'
  BY <1>1 DEF Protocol, Busy, Numbered, OwnRequest
<1>4. RowsStable
  BY <1>1 DEF RowsStable, TypeOK, StorageTypeOK
<1>5. DeletingIsReleased'
  BY <1>1 DEF Promises, DeletingIsReleased, TypeOK, StorageTypeOK
<1>6. AckedIsKept'
  BY <1>1, <1>4, KeptStable DEF Promises, AckedIsKept, TypeOK
<1>7. AnswerIsKept'
  <2> SUFFICES ASSUME NEW p \in replies, NEW u \in Users,
                      users[u].request = p.id, p.result # Null,
                      users[u].command \in Commands, users[u].command.method = "create"
               PROVE  Kept(p.result.claim, p.result.created, users[u].command.spec)'
    BY <1>1 DEF AnswerIsKept
  <2>1. Kept(p.result.claim, p.result.created, users[u].command.spec)
    BY <1>1 DEF Promises, AnswerIsKept
  <2>2. p.result.claim \in ClaimIds
    BY <1>1 DEF TypeOK, Replies, Results
  <2> QED  BY <1>1, <1>4, <2>1, <2>2, KeptStable DEF Kept
<1> QED  BY <1>2, <1>3, <1>5, <1>6, <1>7 DEF IInv, Promises

LEMMA NextInductive == IInv /\ [Next]_vars => IInv'
<1> SUFFICES ASSUME IInv, [Next]_vars PROVE IInv'
  OBVIOUS
<1>1. ASSUME NEW u \in Users, NEW m \in Commands, Issue(u, m) PROVE IInv'
  <2>1. sent + 1 \in 1..MaxRequests
    BY <1>1, ClientAssumption DEF Issue, Call, IInv, TypeOK
  <2> QED  BY <1>1, <2>1, CallInductive DEF Issue
<1>2. ASSUME NEW u \in Users, Retry(u) PROVE IInv'
  <2>1. users[u].command \in Commands /\ users[u].first \in 1..MaxRequests
    BY <1>2 DEF Retry, IInv, Protocol, Busy
  <2> QED  BY <1>2, <2>1, CallInductive DEF Retry
<1>3. ASSUME NEW u \in Users, GiveUp(u) \/ CallFails(u) PROVE IInv'
  BY <1>3, EndInductive
<1>4. ASSUME NEW u \in Users, NEW p \in replies, Receive(u, p) PROVE IInv'
  BY <1>4, ReceiveInductive
<1>5. ASSUME NEW q \in wire, HandleCreate(q) PROVE IInv'
  <2>1. CASE validate_resources(q.command.spec)
    BY <1>5, <2>1, InsertInductive, RepeatInductive DEF HandleCreate
  <2>2. CASE ~validate_resources(q.command.spec)
    BY <1>5, <2>2, RefuseInductive DEF HandleCreate, Kinds
  <2> QED  BY <2>1, <2>2
<1>6. ASSUME NEW q \in wire, HandleDelete(q) \/ HandleGet(q) PROVE IInv'
  BY <1>6, DeleteInductive, GetInductive
<1>7. ASSUME NEW q \in wire, HandleFails(q) PROVE IInv'
  BY <1>7, RefuseInductive DEF HandleFails, Kinds
<1>8. ASSUME NEW q \in wire, Drop(q) PROVE IInv'
  <2>1. /\ wire' = wire \ {q} /\ replies' = replies
        /\ UNCHANGED <<claims, hosts, clock, users, sent, acked, released, inserted>>
    BY <1>8 DEF Drop, storageVars, history
  <2>2. Null # Null => Kept(Null.claim, Null.created, q.command.spec)
    OBVIOUS
  <2> QED  BY <2>1, <2>2, Unchanged
<1>9. ASSUME NEW c \in ClaimIds, Finalize(c) PROVE IInv'
  BY <1>9, FinalizeInductive
<1>10. CASE UNCHANGED vars
  <2>1. UNCHANGED <<claims, hosts, clock, users, sent, wire, replies, acked, released, inserted>>
    BY <1>10 DEF vars, storageVars, clientVars, history
  <2>2. TypeOK' /\ AckedIsKept'
    BY <2>1 DEF IInv, TypeOK, StorageTypeOK, Promises, AckedIsKept, Kept
  <2> QED  BY <2>1, <2>2, EndOfCall DEF TypeOK, IInv
<1> QED
  BY <1>1, <1>2, <1>3, <1>4, <1>5, <1>6, <1>7, <1>8, <1>9, <1>10 DEF Next

-----------------------------------------------------------------------------
\* Inductive: the requests, the responses and the table are related by IInv.
THEOREM Inductive == Spec => []IInv
  BY InitInductive, NextInductive, PTL DEF Spec

\* TypeCorrect: types, and the constraints of the host_claims table.
THEOREM TypeCorrect == Spec => []TypeOK
<1>1. IInv => TypeOK
  BY DEF IInv
<1> QED  BY <1>1, Inductive, PTL

\* AcknowledgedStays: for any number of operators, retries and lost answers, a claim
\* whose creation was acknowledged stays as it was acknowledged until it is released.
THEOREM AcknowledgedStays == Spec => []AcknowledgedIsKept
<1>1. IInv => AcknowledgedIsKept
  BY DEF IInv, Promises, AckedIsKept, Kept, AcknowledgedIsKept
<1> QED  BY <1>1, Inductive, PTL

-----------------------------------------------------------------------------
(* What an operator is told, and what a repeated command inserts.          *)

\* Nothing here assigns a Host.
NoHosts == \A h \in HostIds : hosts[h] = Null

\* The later of two answers about a claim.
Forward(old, new) ==
  \/ new.created > old.created
  \/ new.created = old.created /\ (old.deleting => new.deleting)

\* The table has reached what was said about the claim, and may have gone on.
Reached(c, said) ==
  said.created < clock /\ (claims[c] # Null => Forward(said, claims[c]))

SeenIsReached ==
  \A u \in Users, c \in ClaimIds : users[u].seen[c] # Null => Reached(c, users[u].seen[c])

AnswersAreReached ==
  \A p \in replies : p.result # Null => Reached(p.result.claim, p.result)

\* The answer to a call is no older than what the operator knew when he made it.
AnswersAreNews ==
  \A p \in replies, u \in Users :
    /\ users[u].state = "waiting" /\ users[u].request = p.id /\ p.result # Null
    /\ users[u].seen[p.result.claim] # Null
    => Forward(users[u].seen[p.result.claim], p.result)

RowsArePast == \A c \in ClaimIds : claims[c] # Null => claims[c].created < clock

SessionInv == NoHosts /\ RowsArePast /\ SeenIsReached /\ AnswersAreReached /\ AnswersAreNews

\* The commands that may still reach the server, with the call that started each.
Pending ==
  {[first |-> q.first, command |-> q.command] : q \in wire}
    \cup {[first |-> users[u].first, command |-> users[u].command] :
            u \in {v \in Users : users[v].state # "idle"}}

\* The incarnation is in the table, or was released.
Accounted(c, created) ==
  \/ [claim |-> c, created |-> created] \in released
  \/ claims[c] # Null /\ claims[c].created = created

OneCommand ==
  /\ \A a \in Pending : a.first \in 1..sent
  /\ \A a, b \in Pending : a.first = b.first => a.command = b.command

InsertedIsAccounted ==
  \A x \in inserted :
    /\ x.first <= sent /\ x.created < clock
    /\ \A a \in Pending : a.first = x.first =>
         a.command.method = "create" /\ Accounted(a.command.claim, x.created)

RepeatInv == OneCommand /\ InsertedIsAccounted /\ RepeatsOnlyAfterRelease

-----------------------------------------------------------------------------
(* The tables are a ClaimRegister here too.                                *)

\* The operator's side does not touch the tables.
LEMMA OperatorSteps ==
  ASSUME NEW u \in Users,
         \/ \E m \in Commands : Issue(u, m)
         \/ Retry(u) \/ GiveUp(u) \/ CallFails(u)
         \/ \E p \in replies : Receive(u, p)
  PROVE  UNCHANGED <<storageVars, released, inserted>>
BY DEF Issue, Retry, Call, GiveUp, CallFails, Receive, Settle, storageVars, history

\* Of the server's steps only these do.
LEMMA ServerSteps ==
  ASSUME IInv, NEW q \in wire,
         HandleCreate(q) \/ HandleDelete(q) \/ HandleGet(q) \/ HandleFails(q) \/ Drop(q)
  PROVE  /\ q.command.claim \in ClaimIds
         /\ \/ UNCHANGED storageVars
            \/ /\ HandleCreate(q) /\ q.command.spec \in Specs
               /\ create_claim(q.command.claim, q.command.spec)
            \/ HandleDelete(q) /\ mark_claim_deleting(q.command.claim)
<1>1. /\ q.command.claim \in ClaimIds
      /\ q.command.method = "create" => q.command.spec \in Specs
  BY CreateCommands DEF IInv, TypeOK, Requests
<1>2. CASE HandleCreate(q)
  BY <1>1, <1>2 DEF HandleCreate, Insert, Repeat, Refuse
<1>3. CASE HandleDelete(q)
  BY <1>1, <1>3 DEF HandleDelete, Refuse
<1>4. CASE HandleGet(q) \/ HandleFails(q) \/ Drop(q)
  BY <1>1, <1>4 DEF HandleGet, HandleFails, Drop, Refuse
<1>. QED
  BY <1>2, <1>3, <1>4

LEMMA ClientRegisterStep ==
  ASSUME IInv, NoHosts, [Next]_vars
  PROVE  [Register!Next]_(Register!vars)
<1>1. StorageTypeOK /\ References
  BY DEF IInv, TypeOK, NoHosts, References
<1>2. ASSUME UNCHANGED storageVars
      PROVE  UNCHANGED Register!vars
  BY <1>2, SameEntries DEF storageVars, SameRecord, SameHostRows, Register!vars
<1>3. CASE \E u \in Users : \/ \E m \in Commands : Issue(u, m)
                            \/ Retry(u) \/ GiveUp(u) \/ CallFails(u)
                            \/ \E p \in replies : Receive(u, p)
  BY <1>2, <1>3, OperatorSteps
<1>4. ASSUME NEW q \in wire,
             \/ HandleCreate(q) \/ HandleDelete(q) \/ HandleGet(q)
             \/ HandleFails(q) \/ Drop(q)
      PROVE  [Register!Next]_(Register!vars)
  BY <1>1, <1>2, <1>4, ServerSteps, CreateRegisters, ReleaseRegisters
<1>5. ASSUME NEW c \in ClaimIds, Finalize(c)
      PROVE  [Register!Next]_(Register!vars)
  BY <1>1, <1>5, FinalizationRegisters DEF Finalize
<1>6. CASE UNCHANGED vars
  BY <1>2, <1>6 DEF vars
<1>. QED
  BY <1>3, <1>4, <1>5, <1>6 DEF Next

LEMMA NoHostsNext ==
  ASSUME IInv, NoHosts, [Next]_vars
  PROVE  NoHosts'
<1>1. CASE UNCHANGED hosts
  BY <1>1 DEF NoHosts
<1>2. CASE ~UNCHANGED hosts
  <2>1. PICK c \in ClaimIds : Finalize(c)
    BY <1>2, OperatorSteps, ServerSteps DEF Next, vars, storageVars, create_claim,
       mark_claim_deleting
  <2>. QED
    BY <2>1 DEF Finalize, finalize_claim, NoHosts
<1>. QED
  BY <1>1, <1>2

\* So the rows only go forward, and what was released stays released.
LEMMA ClientTableForward ==
  ASSUME IInv, IInv', NoHosts, [Next]_vars
  PROVE  TableForward /\ released \subseteq released'
<1>1. TableForward
  BY ClientRegisterStep, RegisterGoesForward DEF IInv, TypeOK
<1>2. released \subseteq released'
  <2>1. ASSUME NEW q \in wire,
               \/ HandleCreate(q) \/ HandleDelete(q) \/ HandleGet(q)
               \/ HandleFails(q) \/ Drop(q)
        PROVE  released \subseteq released'
    BY <2>1 DEF HandleCreate, HandleDelete, HandleGet, HandleFails, Drop, Insert, Repeat,
       Refuse, history
  <2>. QED
    BY <2>1, OperatorSteps DEF Next, Finalize, vars, history
<1>. QED
  BY <1>1, <1>2

-----------------------------------------------------------------------------
(* Sessions.                                                               *)

LEMMA ForwardTransitive ==
  ASSUME NEW a, NEW b, NEW c, a.created \in Nat, b.created \in Nat, c.created \in Nat,
         a.deleting \in BOOLEAN, b.deleting \in BOOLEAN, c.deleting \in BOOLEAN,
         Forward(a, b), Forward(b, c)
  PROVE  Forward(a, c)
BY DEF Forward

\* What the table has reached it has reached for good.
LEMMA ReachedStable ==
  ASSUME IInv, IInv', TableForward, NEW c \in ClaimIds, NEW said,
         said.created \in Nat, said.deleting \in BOOLEAN, Reached(c, said)
  PROVE  Reached(c, said)'
<1>1. clock \in Nat /\ clock' \in Nat /\ clock <= clock' /\ said.created < clock
  BY DEF IInv, TypeOK, StorageTypeOK, TableForward, Reached
<1>2. said' = said
  OBVIOUS
<1>3. ASSUME claims'[c] # Null, claims[c] = Null
      PROVE  Forward(said, claims'[c])
  BY <1>1, <1>3 DEF TableForward, Forward
<1>4. ASSUME claims'[c] # Null, claims[c] # Null
      PROVE  Forward(said, claims'[c])
  <2>1. /\ claims[c].created \in Nat /\ claims'[c].created \in Nat
        /\ claims[c].deleting \in BOOLEAN /\ claims'[c].deleting \in BOOLEAN
    BY <1>4 DEF IInv, TypeOK, StorageTypeOK, ClaimRecords
  <2>2. Forward(said, claims[c]) /\ Forward(claims[c], claims'[c])
    BY <1>4 DEF Reached, TableForward, Forward
  <2>. QED
    BY <2>1, <2>2, ForwardTransitive
<1>. QED
  BY <1>1, <1>3, <1>4 DEF Reached

LEMMA RowsArePastNext ==
  ASSUME IInv, IInv', TableForward, RowsArePast
  PROVE  RowsArePast'
<1>1. clock \in Nat /\ clock' \in Nat
  BY DEF IInv, TypeOK, StorageTypeOK
<1>2. \A c \in ClaimIds : claims[c] # Null => claims[c].created \in Nat
  BY DEF IInv, TypeOK, StorageTypeOK, ClaimRecords
<1>. QED
  BY <1>1, <1>2 DEF TableForward, RowsArePast

LEMMA SeenTypes ==
  ASSUME IInv, NEW u \in Users, NEW c \in ClaimIds, users[u].seen[c] # Null
  PROVE  users[u].seen[c].created \in Nat /\ users[u].seen[c].deleting \in BOOLEAN
BY DEF IInv, TypeOK, Operators, Sightings

LEMMA AnswerTypes ==
  ASSUME IInv, NEW p \in replies, p.result # Null
  PROVE  /\ p.result.claim \in ClaimIds /\ p.result.created \in Nat
         /\ p.result.deleting \in BOOLEAN
BY DEF IInv, TypeOK, Replies, Results

\* The new answers of a step on the server's side are about the rows as it leaves them.
LEMMA ServerAnswers ==
  ASSUME IInv, IInv', NEW q \in wire,
         HandleCreate(q) \/ HandleDelete(q) \/ HandleGet(q) \/ HandleFails(q) \/ Drop(q)
  PROVE  /\ users' = users
         /\ \A p \in replies' : p \in replies \/ p.result = Null
              \/ /\ claims'[p.result.claim] # Null
                 /\ p.result.created = claims'[p.result.claim].created
                 /\ p.result.deleting = claims'[p.result.claim].deleting
<1> DEFINE c == q.command.claim
<1>1. /\ users' = users
      /\ Drop(q) => replies' = replies
      /\ q.command.claim \in ClaimIds
  BY ServerSteps DEF HandleCreate, HandleDelete, HandleGet, HandleFails, Taken, Drop
<1>2. ASSUME NEW result, NEW error, Answer(q, result, error),
             result = Null \/ (claims'[c] # Null /\ result = Described(c, claims'[c])),
             NEW p \in replies', p \notin replies
      PROVE  \/ p.result = Null
             \/ /\ claims'[p.result.claim] # Null
                /\ p.result.created = claims'[p.result.claim].created
                /\ p.result.deleting = claims'[p.result.claim].deleting
  <2>1. p = [id |-> q.id, result |-> result, error |-> error]
    BY <1>2, AnswerAdds
  <2>. QED
    BY <1>2, <2>1 DEF Described
<1>3. ASSUME NEW error, Refuse(q, error)
      PROVE  Answer(q, Null, error)
  BY <1>3 DEF Refuse
<1>4. CASE HandleCreate(q)
  <2>1. CASE Insert(q)
    <3>1. claims'[c] # Null
      <4>1. q.command \in Commands /\ q.command.method = "create" /\ StorageTypeOK
        BY <1>4 DEF HandleCreate, IInv, TypeOK, Requests
      <4>2. q.command.spec \in Specs /\ create_claim(c, q.command.spec)
        BY <2>1, <4>1, CreateCommands DEF Insert
      <4>. QED
        BY <1>1, <4>1, <4>2, CreateClaimFacts
    <3>2. Answer(q, Described(c, claims'[c]), Null)
      BY <2>1 DEF Insert
    <3>. QED
      BY <1>1, <1>2, <3>1, <3>2
  <2>2. CASE Repeat(q)
    <3>1. CASE claims[c].spec = q.command.spec
      <4>1. claims' = claims /\ claims[c] # Null /\ Answer(q, Described(c, claims[c]), Null)
        BY <2>2, <3>1 DEF Repeat, create_claim
      <4>2. claims'[c] # Null /\ Answer(q, Described(c, claims'[c]), Null)
        BY <4>1
      <4>. QED
        BY <1>1, <1>2, <4>2
    <3>2. CASE claims[c].spec # q.command.spec
      BY <1>1, <1>2, <1>3, <2>2, <3>2 DEF Repeat
    <3>. QED
      BY <3>1, <3>2
  <2>. QED
    BY <1>1, <1>2, <1>3, <1>4, <2>1, <2>2 DEF HandleCreate
<1>5. CASE HandleDelete(q)
  <2>1. CASE claims[c] = Null
    BY <1>1, <1>2, <1>3, <1>5, <2>1 DEF HandleDelete
  <2>2. CASE claims[c] # Null
    <3>1. mark_claim_deleting(c) /\ Answer(q, Described(c, claims'[c]), Null)
      BY <1>5, <2>2 DEF HandleDelete
    <3>2. claims'[c] # Null
      BY <1>1, <2>2, <3>1, MarkDeletingFacts DEF IInv, TypeOK
    <3>. QED
      BY <1>1, <1>2, <3>1, <3>2
  <2>. QED
    BY <2>1, <2>2
<1>6. CASE HandleGet(q)
  <2>1. CASE claims[c] = Null
    BY <1>1, <1>2, <1>3, <1>6, <2>1 DEF HandleGet
  <2>2. CASE claims[c] # Null
    <3>1. claims' = claims /\ Answer(q, Described(c, claims[c]), Null)
      BY <1>6, <2>2 DEF HandleGet, storageVars
    <3>2. claims'[c] # Null /\ Answer(q, Described(c, claims'[c]), Null)
      BY <2>2, <3>1
    <3>. QED
      BY <1>1, <1>2, <3>2
  <2>. QED
    BY <2>1, <2>2
<1>7. CASE HandleFails(q)
  BY <1>1, <1>2, <1>3, <1>7 DEF HandleFails
<1>. QED
  BY <1>1, <1>4, <1>5, <1>6, <1>7

LEMMA ServerSessions ==
  ASSUME IInv, IInv', SessionInv, TableForward, users' = users,
         \A p \in replies' : p \in replies \/ p.result = Null
           \/ /\ claims'[p.result.claim] # Null
              /\ p.result.created = claims'[p.result.claim].created
              /\ p.result.deleting = claims'[p.result.claim].deleting
  PROVE  SeenIsReached' /\ AnswersAreReached' /\ AnswersAreNews'
<1>1. RowsArePast'
  BY RowsArePastNext DEF SessionInv
<1>2. SeenIsReached'
  BY ReachedStable, SeenTypes DEF SessionInv, SeenIsReached
<1>3. ASSUME NEW p \in replies', p \notin replies, p.result # Null
      PROVE  /\ p.result.claim \in ClaimIds /\ claims'[p.result.claim] # Null
             /\ p.result.created = claims'[p.result.claim].created
             /\ p.result.deleting = claims'[p.result.claim].deleting
  BY <1>3 DEF IInv, TypeOK, Replies, Results
<1>4. AnswersAreReached'
  <2> SUFFICES ASSUME NEW p \in replies', p.result # Null
               PROVE  Reached(p.result.claim, p.result)'
    BY DEF AnswersAreReached
  <2>1. CASE p \in replies
    BY <2>1, AnswerTypes, ReachedStable DEF SessionInv, AnswersAreReached
  <2>2. CASE p \notin replies
    BY <1>1, <1>3, <2>2 DEF RowsArePast, Reached, Forward
  <2>. QED
    BY <2>1, <2>2
<1>5. AnswersAreNews'
  <2> SUFFICES ASSUME NEW p \in replies', NEW u \in Users,
                      users[u].state = "waiting", users[u].request = p.id, p.result # Null,
                      users[u].seen[p.result.claim] # Null
               PROVE  Forward(users[u].seen[p.result.claim], p.result)
    BY DEF AnswersAreNews, Forward
  <2>1. CASE p \in replies
    BY <2>1 DEF SessionInv, AnswersAreNews
  <2>2. CASE p \notin replies
    <3>1. Reached(p.result.claim, users[u].seen[p.result.claim])'
      BY <1>2, <1>3, <2>2 DEF SeenIsReached, Reached, Forward
    <3>. QED
      BY <1>3, <2>2, <3>1 DEF Reached, Forward
  <2>. QED
    BY <2>1, <2>2
<1>. QED
  BY <1>2, <1>4, <1>5

\* Steps of the operator that tell him nothing.
LEMMA UntoldSessions ==
  ASSUME IInv, IInv', SessionInv, UNCHANGED storageVars, replies' \subseteq replies,
         \A v \in Users :
           /\ users'[v].seen = users[v].seen
           /\ users'[v].state = "waiting" =>
                \/ users[v].state = "waiting" /\ users'[v].request = users[v].request
                \/ \A p \in replies : p.id # users'[v].request
  PROVE  SeenIsReached' /\ AnswersAreReached' /\ AnswersAreNews'
<1>1. SeenIsReached' /\ AnswersAreReached'
  BY DEF SessionInv, SeenIsReached, AnswersAreReached, Reached, Forward, storageVars
<1>2. AnswersAreNews'
  BY DEF SessionInv, AnswersAreNews, Forward
<1>. QED
  BY <1>1, <1>2

\* He is told of one claim, by an answer to the call he is waiting for.
LEMMA ToldStep ==
  ASSUME IInv, SessionInv, NEW u \in Users, NEW p \in replies, Receive(u, p)
  PROVE  /\ \A v \in Users \ {u} : users'[v] = users[v]
         /\ users'[u].state # "waiting"
         /\ \A c \in ClaimIds :
              \/ users'[u].seen[c] = users[u].seen[c]
              \/ /\ p.result # Null /\ c = p.result.claim
                 /\ users'[u].seen[c].created = p.result.created
                 /\ users'[u].seen[c].deleting = p.result.deleting
                 /\ users[u].seen[c] # Null => Forward(users[u].seen[c], p.result)
<1> DEFINE s == IF p.error = "Internal" THEN "failed" ELSE "idle"
<1>1. users \in [Users -> Operators] /\ users[u].seen \in Sightings
  BY DEF IInv, TypeOK, Operators
<1>2. users' = [users EXCEPT ![u].state = s, ![u].seen = Told(users[u].seen, p)]
  BY DEF Receive, Settle
<1> HIDE DEF s
<1>3. /\ \A v \in Users \ {u} : users'[v] = users[v]
      /\ users'[u].state = s /\ users'[u].seen = Told(users[u].seen, p)
  BY <1>1, <1>2 DEF Operators
<1>4. s # "waiting"
  BY DEF s
<1>5. CASE p.result = Null
  BY <1>3, <1>4, <1>5 DEF Told
<1>6. CASE p.result # Null
  <2> DEFINE t == [created |-> p.result.created, deleting |-> p.result.deleting]
  <2>1. users'[u].seen = [users[u].seen EXCEPT ![p.result.claim] = t]
    BY <1>3, <1>6 DEF Told
  <2>2. t.created = p.result.created /\ t.deleting = p.result.deleting
    OBVIOUS
  <2> HIDE DEF t
  <2>3. users[u].seen[p.result.claim] # Null => Forward(users[u].seen[p.result.claim], p.result)
    BY <1>6 DEF SessionInv, AnswersAreNews, Receive
  <2>4. \A c \in ClaimIds : users'[u].seen[c] = IF c = p.result.claim THEN t
                                                 ELSE users[u].seen[c]
    BY <1>1, <2>1 DEF Sightings
  <2>. QED
    BY <1>3, <1>4, <1>6, <2>2, <2>3, <2>4
<1>. QED
  BY <1>5, <1>6

LEMMA ReceiveSessions ==
  ASSUME IInv, SessionInv, NEW u \in Users, NEW p \in replies, Receive(u, p)
  PROVE  SeenIsReached' /\ AnswersAreReached' /\ AnswersAreNews'
<1>1. UNCHANGED <<claims, clock>> /\ replies' \subseteq replies
  BY DEF Receive, Settle, storageVars
<1>2. AnswersAreReached'
  BY <1>1 DEF SessionInv, AnswersAreReached, Reached, Forward
<1>3. \A v \in Users, c \in ClaimIds : users'[v].seen[c] # Null =>
        \/ users'[v].seen[c] = users[v].seen[c]
        \/ /\ p.result # Null /\ c = p.result.claim
           /\ users'[v].seen[c].created = p.result.created
           /\ users'[v].seen[c].deleting = p.result.deleting
  BY ToldStep
<1>4. p.result # Null => Reached(p.result.claim, p.result)
  BY DEF SessionInv, AnswersAreReached
<1>5. SeenIsReached'
  BY <1>1, <1>3, <1>4 DEF SessionInv, SeenIsReached, Reached, Forward
<1>6. AnswersAreNews'
  BY <1>1, ToldStep DEF SessionInv, AnswersAreNews, Forward
<1>. QED
  BY <1>2, <1>5, <1>6

LEMMA SessionInvNext == IInv /\ IInv' /\ SessionInv /\ [Next]_vars => SessionInv'
<1> SUFFICES ASSUME IInv, IInv', SessionInv, [Next]_vars
             PROVE  SessionInv'
  OBVIOUS
<1>1. NoHosts' /\ RowsArePast' /\ TableForward
  BY NoHostsNext, ClientTableForward, RowsArePastNext DEF SessionInv
<1>2. ASSUME NEW u \in Users, NEW m, NEW f, Call(u, m, f)
      PROVE  SeenIsReached' /\ AnswersAreReached' /\ AnswersAreNews'
  <2>1. /\ users \in [Users -> Operators] /\ sent \in Nat
        /\ \A p \in replies : p.id <= sent /\ p.id \in Nat
    BY ClientAssumption DEF IInv, TypeOK, Protocol, Numbered, Replies
  <2>2. /\ users'[u].request = sent + 1 /\ users'[u].seen = users[u].seen
        /\ \A v \in Users \ {u} : users'[v] = users[v]
    BY <1>2, <2>1 DEF Call
  <2>3. UNCHANGED <<storageVars, replies>>
    BY <1>2 DEF Call
  <2>4. \A p \in replies : p.id # sent + 1
    BY <2>1
  <2>. QED
    BY <2>2, <2>3, <2>4, UntoldSessions
<1>3. ASSUME NEW u \in Users, GiveUp(u) \/ CallFails(u)
      PROVE  SeenIsReached' /\ AnswersAreReached' /\ AnswersAreNews'
  <2>1. users \in [Users -> Operators]
    BY DEF IInv, TypeOK
  <2>2. /\ users'[u].seen = users[u].seen /\ users'[u].state # "waiting"
        /\ \A v \in Users \ {u} : users'[v] = users[v]
        /\ UNCHANGED storageVars /\ replies' \subseteq replies
    BY <1>3, <2>1 DEF GiveUp, CallFails, Operators
  <2>. QED
    BY <2>2, UntoldSessions
<1>4. ASSUME NEW u \in Users, NEW p \in replies, Receive(u, p)
      PROVE  SeenIsReached' /\ AnswersAreReached' /\ AnswersAreNews'
  BY <1>4, ReceiveSessions
<1>5. ASSUME NEW q \in wire,
             \/ HandleCreate(q) \/ HandleDelete(q) \/ HandleGet(q)
             \/ HandleFails(q) \/ Drop(q)
      PROVE  SeenIsReached' /\ AnswersAreReached' /\ AnswersAreNews'
  BY <1>1, <1>5, ServerAnswers, ServerSessions
<1>6. ASSUME NEW c \in ClaimIds, Finalize(c)
      PROVE  SeenIsReached' /\ AnswersAreReached' /\ AnswersAreNews'
  <2>1. users' = users /\ replies' = replies
    BY <1>6 DEF Finalize, clientVars
  <2>. QED
    BY <1>1, <2>1, ServerSessions
<1>7. ASSUME UNCHANGED vars
      PROVE  SeenIsReached' /\ AnswersAreReached' /\ AnswersAreNews'
  <2>1. users' = users /\ replies' = replies
    BY <1>7 DEF vars, clientVars
  <2>. QED
    BY <1>1, <2>1, ServerSessions
<1>8. SeenIsReached' /\ AnswersAreReached' /\ AnswersAreNews'
  BY <1>2, <1>3, <1>4, <1>5, <1>6, <1>7 DEF Next, Issue, Retry
<1>. QED
  BY <1>1, <1>8 DEF SessionInv

LEMMA SessionInvInit == Init => SessionInv
BY DEF Init, StorageInit, SessionInv, NoHosts, RowsArePast, SeenIsReached, AnswersAreReached,
   AnswersAreNews

\* WhatIsTold: what operators have been told, and the answers on their way to them, are about
\* the past of the table.
THEOREM WhatIsTold == Spec => []SessionInv
  BY SessionInvInit, SessionInvNext, Inductive, PTL DEF Spec

LEMMA SessionStep ==
  ASSUME IInv, SessionInv, [Next]_vars, NEW u \in Users, NEW c \in ClaimIds,
         users[u].seen[c] # Null
  PROVE  Forward(users[u].seen[c], users'[u].seen[c])
<1>1. CASE users'[u].seen[c] = users[u].seen[c]
  BY <1>1 DEF Forward
<1>2. ASSUME NEW v \in Users, NEW p \in replies, Receive(v, p),
             users'[u].seen[c] # users[u].seen[c]
      PROVE  Forward(users[u].seen[c], users'[u].seen[c])
  BY <1>2, ToldStep DEF Forward
<1>3. ASSUME users'[u].seen[c] # users[u].seen[c]
      PROVE  \E v \in Users, p \in replies : Receive(v, p)
  <2>1. users \in [Users -> Operators]
    BY DEF IInv, TypeOK
  <2>. QED
    BY <1>3, <2>1 DEF Next, Issue, Retry, Call, GiveUp, CallFails, HandleCreate, HandleDelete,
       HandleGet, HandleFails, Taken, Drop, Finalize, clientVars, vars, Operators
<1>. QED
  BY <1>1, <1>2, <1>3

\* SessionsAdvance: for any number of operators, and however their calls overtake each
\* other, get lost or are repeated, nobody is told of a state of a claim that is older
\* than the one he was told of before.
THEOREM SessionsAdvance == Spec => SessionsGoForward
<1>1. IInv /\ SessionInv /\ [Next]_vars
        => [\A u \in Users, c \in ClaimIds :
              LET old == users[u].seen[c]
                  new == users'[u].seen[c]
              IN  old # Null => \/ new.created > old.created
                                \/ /\ new.created = old.created
                                   /\ old.deleting => new.deleting]_vars
  BY SessionStep DEF Forward
<1>. QED
  BY <1>1, Inductive, WhatIsTold, PTL DEF Spec, SessionsGoForward

\* RegisterIsServed: the table that operators see through their calls is the register
\* that the controller keeps.
THEOREM RegisterIsServed == Spec => RegisterRefined
<1>1. Init => Register!Init
  BY RegisterStarts DEF Init
<1>2. IInv /\ SessionInv /\ [Next]_vars => [Register!Next]_(Register!vars)
  BY ClientRegisterStep DEF SessionInv
<1>. QED
  BY <1>1, <1>2, Inductive, WhatIsTold, PTL DEF Spec, RegisterRefined, Register!Spec

-----------------------------------------------------------------------------
(* Repeated commands.                                                      *)

LEMMA PendingTypes ==
  ASSUME IInv, NEW a \in Pending
  PROVE  a.command \in Commands /\ a.command.claim \in ClaimIds /\ a.first \in Nat
<1>1. a.command \in Commands /\ a.first \in 1..MaxRequests
  BY DEF IInv, TypeOK, Protocol, Busy, Requests, Pending
<1>. QED
  BY <1>1, CreateCommands, ClientAssumption

LEMMA PendingOfWire ==
  ASSUME NEW q \in wire
  PROVE  [first |-> q.first, command |-> q.command] \in Pending
BY DEF Pending

\* Only a new command adds to what is pending, and with a number of its own.
LEMMA CallPending ==
  ASSUME IInv, NEW u \in Users, NEW m, NEW f, Call(u, m, f)
  PROVE  /\ sent' = sent + 1
         /\ Pending' \subseteq Pending \cup {[first |-> f, command |-> m]}
<1>1. users \in [Users -> Operators]
  BY DEF IInv, TypeOK
<1>2. /\ sent' = sent + 1
      /\ wire' = wire \cup {[id |-> sent + 1, first |-> f, command |-> m]}
      /\ users'[u].command = m /\ users'[u].first = f
      /\ \A v \in Users \ {u} : users'[v] = users[v]
  BY <1>1 DEF Call
<1>. QED
  BY <1>2 DEF Pending

LEMMA PendingStep ==
  ASSUME IInv, [Next]_vars
  PROVE  \/ sent' = sent /\ Pending' \subseteq Pending
         \/ sent' = sent + 1 /\ Pending' \subseteq Pending
         \/ \E m \in Commands :
              /\ sent' = sent + 1
              /\ Pending' \subseteq Pending \cup {[first |-> sent + 1, command |-> m]}
<1>0. users \in [Users -> Operators]
  BY DEF IInv, TypeOK
<1>1. ASSUME NEW u \in Users, NEW m \in Commands, Issue(u, m)
      PROVE  /\ sent' = sent + 1
             /\ Pending' \subseteq Pending \cup {[first |-> sent + 1, command |-> m]}
  BY <1>1, CallPending DEF Issue
<1>2. ASSUME NEW u \in Users, Retry(u)
      PROVE  sent' = sent + 1 /\ Pending' \subseteq Pending
  <2>1. [first |-> users[u].first, command |-> users[u].command] \in Pending
    BY <1>2 DEF Retry, Pending
  <2>. QED
    BY <1>2, <2>1, CallPending DEF Retry
<1>3. ASSUME wire' \subseteq wire, sent' = sent,
             \A v \in Users : /\ users'[v].command = users[v].command
                              /\ users'[v].first = users[v].first
                              /\ users'[v].state # "idle" => users[v].state # "idle"
      PROVE  sent' = sent /\ Pending' \subseteq Pending
  BY <1>3 DEF Pending
<1>4. ASSUME NEW u \in Users,
             GiveUp(u) \/ CallFails(u) \/ \E p \in replies : Receive(u, p)
      PROVE  sent' = sent /\ Pending' \subseteq Pending
  <2>1. PICK told, state :
          /\ users' = [users EXCEPT ![u].state = state, ![u].seen = told]
          /\ users[u].state # "idle" /\ sent' = sent /\ wire' = wire
    <3>1. CASE GiveUp(u) \/ CallFails(u)
      <4>1. PICK state : users' = [users EXCEPT ![u].state = state]
        BY <3>1 DEF GiveUp, CallFails
      <4>2. users' = [users EXCEPT ![u].state = state, ![u].seen = users[u].seen]
        BY <1>0, <4>1 DEF Operators
      <4>. QED
        BY <3>1, <4>2 DEF GiveUp, CallFails
    <3>2. ASSUME NEW p \in replies, Receive(u, p)
          PROVE  \E told, state :
                   /\ users' = [users EXCEPT ![u].state = state, ![u].seen = told]
                   /\ users[u].state # "idle" /\ sent' = sent /\ wire' = wire
      BY <3>2 DEF Receive, Settle
    <3>. QED
      BY <1>4, <3>1, <3>2
  <2>2. \A v \in Users : /\ users'[v].command = users[v].command
                         /\ users'[v].first = users[v].first
                         /\ users'[v].state # "idle" => users[v].state # "idle"
    BY <1>0, <2>1 DEF Operators
  <2>. QED
    BY <1>3, <2>1, <2>2
<1>5. ASSUME users' = users, sent' = sent, wire' \subseteq wire
      PROVE  sent' = sent /\ Pending' \subseteq Pending
  BY <1>3, <1>5
<1>6. ASSUME NEW q \in wire,
             \/ HandleCreate(q) \/ HandleDelete(q) \/ HandleGet(q)
             \/ HandleFails(q) \/ Drop(q)
      PROVE  sent' = sent /\ Pending' \subseteq Pending
  BY <1>5, <1>6 DEF HandleCreate, HandleDelete, HandleGet, HandleFails, Taken, Drop
<1>7. ASSUME NEW c \in ClaimIds, Finalize(c)
      PROVE  sent' = sent /\ Pending' \subseteq Pending
  BY <1>5, <1>7 DEF Finalize, clientVars
<1>8. ASSUME UNCHANGED vars
      PROVE  sent' = sent /\ Pending' \subseteq Pending
  BY <1>5, <1>8 DEF vars, clientVars
<1>. QED
  BY <1>1, <1>2, <1>4, <1>6, <1>7, <1>8 DEF Next

\* A claim is inserted for a create that was pending, where there was none.
LEMMA InsertedStep ==
  ASSUME IInv, IInv', [Next]_vars, inserted' # inserted
  PROVE  \E q \in wire :
           /\ q.command.method = "create"
           /\ inserted' = inserted \cup {[first |-> q.first, created |-> clock]}
           /\ claims[q.command.claim] = Null
           /\ claims'[q.command.claim] # Null
           /\ claims'[q.command.claim].created = clock
           /\ clock' = clock + 1
           /\ sent' = sent /\ Pending' \subseteq Pending
<1>1. PICK q \in wire : HandleCreate(q) /\ Insert(q)
  BY OperatorSteps DEF Next, HandleCreate, HandleDelete, HandleGet, HandleFails, Drop, Finalize,
     Repeat, Refuse, vars, history
<1> DEFINE c == q.command.claim
<1>2. /\ c \in ClaimIds /\ q.command.spec \in Specs /\ q.command.method = "create"
      /\ StorageTypeOK /\ create_claim(c, q.command.spec) /\ claims[c] = Null
      /\ inserted' = inserted \cup {[first |-> q.first, created |-> clock]}
  BY <1>1, CreateCommands DEF HandleCreate, Insert, IInv, TypeOK, Requests
<1>3. claims'[c] # Null /\ claims'[c].created = clock /\ clock' = clock + 1
  BY <1>2, CreateClaimFacts DEF create_claim, InitialClaim, StorageTypeOK
<1>4. sent' = sent /\ Pending' \subseteq Pending
  BY <1>1 DEF HandleCreate, Taken, Pending
<1>. QED
  BY <1>1, <1>2, <1>3, <1>4

\* An incarnation that leaves the table was released.
LEMMA AccountedStable ==
  ASSUME IInv, TableForward, released \subseteq released',
         NEW c \in ClaimIds, NEW created, Accounted(c, created)
  PROVE  Accounted(c, created)'
BY DEF Accounted, TableForward, IInv, Promises, DeletingIsReleased

LEMMA OneCommandNext ==
  ASSUME IInv, OneCommand, [Next]_vars
  PROVE  OneCommand'
<1>1. sent \in Nat /\ \A a \in Pending : a.first \in 1..sent /\ a.first \in Nat
  BY PendingTypes, ClientAssumption DEF IInv, TypeOK, OneCommand
<1>2. CASE Pending' \subseteq Pending /\ (sent' = sent \/ sent' = sent + 1)
  BY <1>1, <1>2 DEF OneCommand
<1>3. ASSUME NEW m, sent' = sent + 1,
             Pending' \subseteq Pending \cup {[first |-> sent + 1, command |-> m]}
      PROVE  OneCommand'
  <2>1. \A a \in Pending' : \/ a \in Pending /\ a.first \in 1..sent /\ a.first # sent + 1
                            \/ a.first = sent + 1 /\ a.command = m
    BY <1>1, <1>3
  <2>2. \A a \in Pending' : a.first \in 1..sent'
    BY <1>1, <1>3, <2>1
  <2>3. \A a, b \in Pending' : a.first = b.first => a.command = b.command
    BY <1>1, <2>1 DEF OneCommand
  <2>. QED
    BY <2>2, <2>3 DEF OneCommand
<1>. QED
  BY <1>2, <1>3, PendingStep

LEMMA InsertedIsAccountedNext ==
  ASSUME IInv, IInv', NoHosts, OneCommand, InsertedIsAccounted, [Next]_vars
  PROVE  InsertedIsAccounted'
<1>1. TableForward /\ released \subseteq released' /\ clock \in Nat /\ sent \in Nat
  BY ClientTableForward, ClientAssumption DEF IInv, TypeOK, StorageTypeOK
<1>2. ASSUME NEW x \in inserted
      PROVE  /\ x.first <= sent' /\ x.created < clock'
             /\ \A a \in Pending' : a.first = x.first =>
                  a.command.method = "create" /\ Accounted(a.command.claim, x.created)'
  <2>1. /\ x.first \in Nat /\ x.created \in Nat
        /\ x.first <= sent /\ x.created < clock
    BY ClientAssumption DEF IInv, TypeOK, InsertedIsAccounted
  <2>2. /\ sent' = sent \/ sent' = sent + 1
        /\ clock' = clock \/ clock' = clock + 1
    BY <1>1, PendingStep DEF TableForward
  <2>3. ASSUME NEW a \in Pending', a.first = x.first
        PROVE  a \in Pending
    BY <1>1, <2>1, <2>3, PendingStep
  <2>4. ASSUME NEW a \in Pending', a.first = x.first
        PROVE  a.command.method = "create" /\ Accounted(a.command.claim, x.created)'
    <3>1. /\ a \in Pending /\ a.command.claim \in ClaimIds
          /\ a.command.method = "create" /\ Accounted(a.command.claim, x.created)
      BY <2>3, <2>4, PendingTypes DEF InsertedIsAccounted
    <3>. QED
      BY <1>1, <3>1, AccountedStable
  <2>. QED
    BY <1>1, <2>1, <2>2, <2>4
<1>3. CASE inserted' = inserted
  BY <1>2, <1>3 DEF InsertedIsAccounted, Accounted
<1>4. CASE inserted' # inserted
  <2>1. PICK q \in wire :
          /\ q.command.method = "create"
          /\ inserted' = inserted \cup {[first |-> q.first, created |-> clock]}
          /\ claims'[q.command.claim] # Null /\ claims'[q.command.claim].created = clock
          /\ clock' = clock + 1 /\ sent' = sent /\ Pending' \subseteq Pending
    BY <1>4, InsertedStep
  <2>0. PICK x : x = [first |-> q.first, created |-> clock]
    OBVIOUS
  <2> DEFINE b == [first |-> q.first, command |-> q.command]
  <2>b. b \in Pending /\ b.first = q.first /\ b.command = q.command
    BY PendingOfWire
  <2> HIDE DEF b
  <2>2. x.first <= sent' /\ x.created < clock'
    BY <1>1, <2>0, <2>1, <2>b DEF OneCommand
  <2>3. ASSUME NEW a \in Pending', a.first = x.first
        PROVE  a.command = q.command
    BY <2>0, <2>1, <2>3, <2>b DEF OneCommand
  <2>4. ASSUME NEW a \in Pending', a.first = x.first
        PROVE  a.command.method = "create" /\ Accounted(a.command.claim, x.created)'
    <3>1. a.command.method = "create" /\ x.created = clock
          /\ claims'[a.command.claim] # Null /\ claims'[a.command.claim].created = clock
      BY <2>0, <2>1, <2>3, <2>4
    <3>. QED
      BY <3>1 DEF Accounted
  <2>. QED
    BY <1>2, <2>0, <2>1, <2>2, <2>4 DEF InsertedIsAccounted, Accounted
<1>. QED
  BY <1>3, <1>4

LEMMA RepeatsNext ==
  ASSUME IInv, IInv', NoHosts, RepeatInv, [Next]_vars
  PROVE  RepeatsOnlyAfterRelease'
<1>1. released \subseteq released' /\ clock \in Nat
  BY ClientTableForward DEF IInv, TypeOK, StorageTypeOK
<1>2. CASE inserted' = inserted
  BY <1>1, <1>2 DEF RepeatInv, RepeatsOnlyAfterRelease
<1>3. CASE inserted' # inserted
  <2>1. PICK q \in wire :
          /\ inserted' = inserted \cup {[first |-> q.first, created |-> clock]}
          /\ claims[q.command.claim] = Null
    BY <1>3, InsertedStep
  <2> DEFINE new == [first |-> q.first, created |-> clock]
  <2>2. \A x \in inserted : x.created \in Nat /\ x.created < clock
    BY DEF RepeatInv, InsertedIsAccounted, IInv, TypeOK
  <2>3. ASSUME NEW x \in inserted, x.first = q.first
        PROVE  /\ q.command.claim \in ClaimIds
               /\ [claim |-> q.command.claim, created |-> x.created] \in released
    BY <2>1, <2>3, PendingOfWire, PendingTypes DEF RepeatInv, InsertedIsAccounted, Accounted
  <2>4. ASSUME NEW x \in inserted', NEW y \in inserted', x.first = y.first,
               x.created < y.created
        PROVE  \E c \in ClaimIds : [claim |-> c, created |-> x.created] \in released'
    <3>1. x \in inserted
      BY <1>1, <2>1, <2>2, <2>4
    <3>2. CASE y \in inserted
      BY <1>1, <2>4, <3>1, <3>2 DEF RepeatInv, RepeatsOnlyAfterRelease
    <3>3. CASE y \notin inserted
      <4>1. y.first = q.first
        BY <2>1, <3>3
      <4>2. [claim |-> q.command.claim, created |-> x.created] \in released'
            /\ q.command.claim \in ClaimIds
        BY <1>1, <2>3, <2>4, <3>1, <4>1
      <4>. QED
        BY <4>2
    <3>. QED
      BY <3>2, <3>3
  <2>. QED
    BY <2>4 DEF RepeatsOnlyAfterRelease
<1>. QED
  BY <1>2, <1>3

LEMMA RepeatInvInit == Init => RepeatInv
BY DEF Init, RepeatInv, OneCommand, InsertedIsAccounted, RepeatsOnlyAfterRelease, Pending

LEMMA RepeatInvNext ==
  IInv /\ IInv' /\ SessionInv /\ RepeatInv /\ [Next]_vars => RepeatInv'
BY OneCommandNext, InsertedIsAccountedNext, RepeatsNext DEF RepeatInv, SessionInv

\* RepeatsAreReleased: however often a command is repeated, and whenever its requests
\* arrive, it inserts its claim again only after the one it inserted before was released.
THEOREM RepeatsAreReleased == Spec => []RepeatsOnlyAfterRelease
<1>1. Spec => []RepeatInv
  BY RepeatInvInit, RepeatInvNext, Inductive, WhatIsTold, PTL DEF Spec
<1>2. RepeatInv => RepeatsOnlyAfterRelease
  BY DEF RepeatInv
<1>. QED
  BY <1>1, <1>2, PTL
=============================================================================
