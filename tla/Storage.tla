------------------------------- MODULE Storage -------------------------------
(***************************************************************************)
(* The Control Plane database (storage.rs and the SQLite schema) as its    *)
(* callers see it.  The pool holds one connection and every operation is   *)
(* one statement or one transaction, so every operation is one atomic      *)
(* step.  Each operator below constrains the next value of the tables; the *)
(* caller's guard and the result it acts on are given by the predicates    *)
(* beside it.                                                              *)
(***************************************************************************)
EXTENDS Domain

VARIABLES
  claims,   \* host_claims : ClaimIds -> row or Null
  hosts,    \* hosts : HostIds -> row or Null
  clock     \* the value the next created_at takes (rows are never equal in it)

storageVars == <<claims, hosts, clock>>

StorageTypeOK ==
  /\ claims \in [ClaimIds -> ClaimRecords \cup {Null}]
  /\ hosts \in [HostIds -> HostRecords \cup {Null}]
  /\ clock \in Nat

StorageInit ==
  /\ claims = [c \in ClaimIds |-> Null]
  /\ hosts = [h \in HostIds |-> Null]
  /\ clock = 0

\* The Host rows of a claim: at most one, hosts.claim_id being UNIQUE.
HostRowsOf(c) == {h \in HostIds : hosts[h] # Null /\ hosts[h].claim = c}

\* The LEFT JOIN that gives a claim its host_id.
HostOf(c) == IF HostRowsOf(c) = {} THEN Null ELSE CHOOSE h \in HostRowsOf(c) : TRUE

-----------------------------------------------------------------------------
(* A claim id that is already there answers Ok when the spec is the same   *)
(* and Conflict otherwise; neither writes.                                 *)
create_claim(c, spec) ==
  /\ IF claims[c] = Null
     THEN /\ claims' = [claims EXCEPT ![c] = InitialClaim(spec, clock)]
          /\ clock' = clock + 1
     ELSE claims[c].spec = spec /\ UNCHANGED <<claims, clock>>
  /\ UNCHANGED hosts

\* Variant: a claim without a Host is removed at once.
mark_claim_deleting_at_once(c) ==
  /\ claims[c] # Null
  /\ claims' = IF HostRowsOf(c) = {} THEN [claims EXCEPT ![c] = Null]
               ELSE [claims EXCEPT ![c].deleting = TRUE, ![c].observed = TRUE,
                                   ![c].ready = "DeletionRequested",
                                   ![c].retry = NoRetry]
  /\ UNCHANGED <<hosts, clock>>

\* Variant: the claim keeps the deadline it had.
mark_claim_deleting_keeping_retry(c) ==
  /\ claims[c] # Null
  /\ claims' = IF claims[c].deleting THEN claims
               ELSE [claims EXCEPT ![c].deleting = TRUE, ![c].observed = TRUE,
                                   ![c].ready = "DeletionRequested"]
  /\ UNCHANGED <<hosts, clock>>

(* Deletion is intent: the row stays until finalize_claim, and asking again *)
(* changes nothing.                                                         *)
mark_claim_deleting(c) ==
  /\ claims[c] # Null
  /\ claims' = IF claims[c].deleting THEN claims
               ELSE [claims EXCEPT ![c].deleting = TRUE, ![c].observed = TRUE,
                                   ![c].ready = "DeletionRequested",
                                   ![c].retry = NoRetry]
  /\ UNCHANGED <<hosts, clock>>

-----------------------------------------------------------------------------
\* Variant: the UPDATE matches by id alone.
StatusIsCurrentById(c, record) == claims[c] # Null

(* UPDATE ... WHERE id = ? AND deletion_timestamp IS ?  matches a row.     *)
StatusIsCurrent(c, record) ==
  claims[c] # Null /\ claims[c].deleting = record.deleting

save_claim_status(c, record) ==
  /\ claims' = IF StatusIsCurrent(c, record)
               THEN [claims EXCEPT ![c].observed = record.observed,
                                   ![c].accepted = record.accepted,
                                   ![c].bound = record.bound,
                                   ![c].ready = record.ready,
                                   ![c].retry = record.retry]
               ELSE claims
  /\ UNCHANGED <<hosts, clock>>

\* Variant: only a claim that is gone is refused.
AssignableIfThere(c) == claims[c] # Null

(* ensure_host answers NotFound or Conflict when the claim is gone or being *)
(* deleted; a Host that is already assigned is returned as it is.           *)
Assignable(c) == claims[c] # Null /\ ~claims[c].deleting

UnusedHostId(inUse) == CHOOSE h \in HostIds \ inUse : TRUE

ensure_host(c, plan, inUse) ==
  /\ IF Assignable(c) /\ HostRowsOf(c) = {}
     THEN /\ HostIds \ inUse # {}
          /\ hosts' = [hosts EXCEPT ![UnusedHostId(inUse)] = InitialHost(c, plan)]
          /\ claims' = [claims EXCEPT ![c].observed = TRUE,
                                      ![c].accepted = "RequirementsValid",
                                      ![c].bound = "HostAssigned",
                                      ![c].ready = "HostNotReady",
                                      ![c].retry = NoRetry]
     ELSE UNCHANGED <<claims, hosts>>
  /\ UNCHANGED clock

-----------------------------------------------------------------------------
(* The columns save_host writes; claim_id and provider_plan_id are fixed.  *)
save_host(h, record) ==
  /\ hosts[h] # Null
  /\ hosts' = [hosts EXCEPT ![h].phase = record.phase, ![h].rid = record.rid,
                            ![h].ready = record.ready, ![h].retry = record.retry]
  /\ UNCHANGED <<claims, clock>>

(* DELETE FROM host_claims, with hosts following by ON DELETE CASCADE.     *)
finalize_claim(c) ==
  /\ claims[c] # Null
  /\ claims' = [claims EXCEPT ![c] = Null]
  /\ hosts' = [h \in HostIds |-> IF h \in HostRowsOf(c) THEN Null ELSE hosts[h]]
  /\ UNCHANGED clock

-----------------------------------------------------------------------------
(* The refinement of ClaimRegister.                                        *)

Entries ==
  [c \in ClaimIds |->
     IF claims[c] = Null THEN Null
     ELSE [spec |-> claims[c].spec, created |-> claims[c].created,
           deleting |-> claims[c].deleting, host |-> HostOf(c)]]

Register == INSTANCE ClaimRegister WITH entries <- Entries, next <- clock

ASSUME EntryAssumption == Null \notin Register!EntryRecords

\* RegisterRefined: whatever writes the tables, the controller and the handlers or the
\* handlers under requests that are repeated, delayed and lost, writes them as
\* ClaimRegister says: in particular no Host is assigned to a claim that goes, none is
\* taken back or given twice, and no claim is dropped that nobody released.
RegisterRefined == Register!Spec
=============================================================================
