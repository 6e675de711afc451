---------------------------- MODULE StorageProofs ----------------------------
(***************************************************************************)
(* What each operation of Storage does to the rows, and that the rows are  *)
(* kept as ClaimRegister says by any caller that keeps the foreign key and *)
(* finalizes only claims being deleted.  The proofs about both callers,    *)
(* HostController and ControlClient, rest on these lemmas.                 *)
(***************************************************************************)
EXTENDS Storage, TLAPS

-----------------------------------------------------------------------------
(* The records.                                                            *)

LEMMA RetryTypes ==
  /\ NoRetry \in RetryStates
  /\ \A retry \in RetryStates, error \in Errors : Backoff(retry, error) \in RetryStates
BY MaxAttemptAssumption DEF NoRetry, RetryStates, Errors, Backoff, NextAttempt

LEMMA InitialTypes ==
  /\ \A spec \in Specs, n \in Nat :
       /\ InitialClaim(spec, n) \in ClaimRecords /\ ~InitialClaim(spec, n).deleting
       /\ InitialClaim(spec, n).ready = "HostNotReady"
  /\ \A c \in ClaimIds, plan \in Plans :
       /\ InitialHost(c, plan) \in HostRecords
       /\ InitialHost(c, plan).claim = c /\ InitialHost(c, plan).phase = "Pending"
BY RetryTypes DEF InitialClaim, ClaimRecords, InitialHost, HostRecords, AcceptedReasons,
   BoundReasons, ReadyReasons, HostReadyReasons, Phases, Errors

-----------------------------------------------------------------------------
(* The tables.  Each operation keeps the types; the rest of a lemma says   *)
(* which rows come and go and what their columns become.                   *)

LEMMA HostOfFacts ==
  ASSUME NEW c \in ClaimIds
  PROVE  /\ HostOf(c) = Null => HostRowsOf(c) = {}
         /\ HostOf(c) # Null => HostOf(c) \in HostRowsOf(c)
         /\ HostOf(c) \in HostIds \cup {Null}
BY NullAssumption DEF HostOf, HostRowsOf

LEMMA CreateClaimFacts ==
  ASSUME StorageTypeOK, NEW c \in ClaimIds, NEW spec \in Specs, create_claim(c, spec)
  PROVE  /\ StorageTypeOK' /\ hosts' = hosts
         /\ \A d \in ClaimIds : claims[d] # Null => claims'[d] = claims[d]
         /\ \A d \in ClaimIds \ {c} : claims'[d] = claims[d]
         /\ claims'[c] # Null
         /\ \A d \in ClaimIds : claims[d] = Null /\ claims'[d] # Null
              => ~claims'[d].deleting /\ claims'[d].ready = "HostNotReady"
<1>1. claims[c] = Null => claims' = [claims EXCEPT ![c] = InitialClaim(spec, clock)]
  BY DEF create_claim
<1>2. /\ InitialClaim(spec, clock) \in ClaimRecords /\ ~InitialClaim(spec, clock).deleting
      /\ InitialClaim(spec, clock).ready = "HostNotReady"
      /\ InitialClaim(spec, clock) # Null
  BY InitialTypes, NullAssumption DEF StorageTypeOK
<1>. QED
  BY <1>1, <1>2 DEF create_claim, StorageTypeOK

LEMMA MarkDeletingFacts ==
  ASSUME StorageTypeOK, NEW c \in ClaimIds, mark_claim_deleting(c)
  PROVE  /\ StorageTypeOK' /\ hosts' = hosts
         /\ claims[c] # Null /\ claims'[c].deleting
         /\ \A d \in ClaimIds :
              /\ d # c => claims'[d] = claims[d]
              /\ claims'[d] = Null <=> claims[d] = Null
              /\ claims[d] # Null /\ claims[d].deleting => claims'[d] = claims[d]
              /\ \/ claims'[d] = claims[d]
                 \/ claims'[d].deleting /\ claims'[d].ready = "DeletionRequested"
<1>1. claims[c] \in ClaimRecords
  BY DEF StorageTypeOK, mark_claim_deleting
<1>2. CASE claims[c].deleting
  BY <1>2 DEF mark_claim_deleting, StorageTypeOK
<1>3. CASE ~claims[c].deleting
  <2> DEFINE row == [claims[c] EXCEPT !.deleting = TRUE, !.observed = TRUE,
                                      !.ready = "DeletionRequested", !.retry = NoRetry]
  <2>1. claims' = [claims EXCEPT ![c] = row]
    BY <1>3, <1>1 DEF mark_claim_deleting, StorageTypeOK
  <2>2. row \in ClaimRecords /\ row.deleting /\ row.ready = "DeletionRequested"
    BY <1>1, RetryTypes DEF ClaimRecords, ReadyReasons
  <2>3. row # Null /\ claims[c] # Null
    BY <2>2, <1>1, NullAssumption
  <2> HIDE DEF row
  <2>4. StorageTypeOK' /\ hosts' = hosts
    BY <2>1, <2>2 DEF mark_claim_deleting, StorageTypeOK
  <2>. QED
    BY <1>3, <2>1, <2>2, <2>3, <2>4 DEF StorageTypeOK
<1>. QED
  BY <1>2, <1>3

LEMMA SaveStatusFacts ==
  ASSUME StorageTypeOK, NEW c \in ClaimIds, NEW record \in ClaimRecords,
         save_claim_status(c, record)
  PROVE  /\ StorageTypeOK' /\ hosts' = hosts
         /\ \A d \in ClaimIds :
              /\ d # c => claims'[d] = claims[d]
              /\ claims'[d] = Null <=> claims[d] = Null
              /\ claims[d] # Null => claims'[d].deleting = claims[d].deleting
              /\ \/ claims'[d] = claims[d]
                 \/ claims'[d].ready = record.ready /\ record.deleting = claims[d].deleting
<1>1. CASE ~StatusIsCurrent(c, record)
  BY <1>1 DEF save_claim_status, StorageTypeOK
<1>2. CASE StatusIsCurrent(c, record)
  <2> DEFINE row == [claims[c] EXCEPT !.observed = record.observed,
                                      !.accepted = record.accepted,
                                      !.bound = record.bound, !.ready = record.ready,
                                      !.retry = record.retry]
  <2>0. claims[c] \in ClaimRecords /\ record.deleting = claims[c].deleting
    BY <1>2 DEF StatusIsCurrent, StorageTypeOK
  <2>1. claims' = [claims EXCEPT ![c] = row]
    BY <1>2, <2>0 DEF save_claim_status, StorageTypeOK
  <2>2. row \in ClaimRecords /\ row.deleting = claims[c].deleting /\ row.ready = record.ready
    BY <2>0 DEF ClaimRecords
  <2>3. row # Null /\ claims[c] # Null
    BY <2>0, <2>2, NullAssumption
  <2> HIDE DEF row
  <2>4. StorageTypeOK' /\ hosts' = hosts
    <3>1. hosts' = hosts /\ clock' = clock
      BY DEF save_claim_status
    <3>. QED
      BY <2>1, <2>2, <3>1 DEF StorageTypeOK
  <2>. QED
    BY <2>0, <2>1, <2>2, <2>3, <2>4 DEF StorageTypeOK
<1>. QED
  BY <1>1, <1>2

LEMMA EnsureHostFacts ==
  ASSUME StorageTypeOK, NEW c \in ClaimIds, NEW plan \in Plans, NEW inUse,
         ensure_host(c, plan, inUse)
  PROVE  /\ StorageTypeOK'
         /\ \A d \in ClaimIds :
              /\ claims'[d] = Null <=> claims[d] = Null
              /\ claims[d] # Null => claims'[d].deleting = claims[d].deleting
              /\ \/ claims'[d] = claims[d]
                 \/ ~claims[d].deleting /\ claims'[d].ready = "HostNotReady"
         /\ \/ hosts' = hosts
            \/ /\ claims[c] # Null /\ HostRowsOf(c) = {}
               /\ \E h \in HostIds \ inUse : hosts' = [hosts EXCEPT ![h] = InitialHost(c, plan)]
<1>1. CASE ~(Assignable(c) /\ HostRowsOf(c) = {})
  BY <1>1 DEF ensure_host, StorageTypeOK
<1>2. CASE Assignable(c) /\ HostRowsOf(c) = {}
  <2> DEFINE row == [claims[c] EXCEPT !.observed = TRUE, !.accepted = "RequirementsValid",
                                      !.bound = "HostAssigned", !.ready = "HostNotReady",
                                      !.retry = NoRetry]
             h == UnusedHostId(inUse)
  <2>0. claims[c] \in ClaimRecords /\ claims[c] # Null /\ ~claims[c].deleting
    BY <1>2 DEF Assignable, StorageTypeOK
  <2>1. claims' = [claims EXCEPT ![c] = row]
    BY <1>2, <2>0 DEF ensure_host, StorageTypeOK
  <2>2. /\ row \in ClaimRecords /\ row.deleting = claims[c].deleting
        /\ row.ready = "HostNotReady"
    BY <2>0, RetryTypes DEF ClaimRecords, AcceptedReasons, BoundReasons, ReadyReasons
  <2>3. row # Null
    BY <2>2, NullAssumption
  <2>4. h \in HostIds \ inUse /\ hosts' = [hosts EXCEPT ![h] = InitialHost(c, plan)]
    BY <1>2 DEF ensure_host, UnusedHostId
  <2> HIDE DEF row, h
  <2>5. StorageTypeOK'
    <3>1. clock' = clock
      BY DEF ensure_host
    <3>. QED
      BY <2>1, <2>2, <2>4, <3>1, InitialTypes DEF StorageTypeOK
  <2>. QED
    BY <1>2, <2>0, <2>1, <2>2, <2>3, <2>4, <2>5 DEF StorageTypeOK
<1>. QED
  BY <1>1, <1>2

LEMMA SaveHostFacts ==
  ASSUME StorageTypeOK, NEW h \in HostIds, NEW record \in HostRecords, save_host(h, record)
  PROVE  /\ StorageTypeOK' /\ claims' = claims
         /\ hosts'[h].phase = record.phase /\ hosts'[h].rid = record.rid
         /\ \A g \in HostIds :
              /\ hosts'[g] = Null <=> hosts[g] = Null
              /\ hosts[g] # Null => hosts'[g].claim = hosts[g].claim
              /\ g # h => hosts'[g] = hosts[g]
<1> DEFINE row == [hosts[h] EXCEPT !.phase = record.phase, !.rid = record.rid,
                                   !.ready = record.ready, !.retry = record.retry]
<1>1. hosts[h] \in HostRecords /\ hosts[h] # Null
  BY DEF save_host, StorageTypeOK
<1>2. hosts' = [hosts EXCEPT ![h] = row] /\ claims' = claims /\ clock' = clock
  BY <1>1 DEF save_host, StorageTypeOK
<1>3. /\ row \in HostRecords /\ row.claim = hosts[h].claim
      /\ row.phase = record.phase /\ row.rid = record.rid
  BY <1>1 DEF HostRecords
<1>4. row # Null
  BY <1>3, NullAssumption
<1> HIDE DEF row
<1>. QED
  BY <1>1, <1>2, <1>3, <1>4 DEF StorageTypeOK

LEMMA FinalizeFacts ==
  ASSUME StorageTypeOK, NEW c \in ClaimIds, finalize_claim(c)
  PROVE  /\ StorageTypeOK'
         /\ \A d \in ClaimIds : claims'[d] = IF d = c THEN Null ELSE claims[d]
         /\ \A h \in HostIds : hosts'[h] = IF h \in HostRowsOf(c) THEN Null ELSE hosts[h]
BY DEF finalize_claim, StorageTypeOK

-----------------------------------------------------------------------------
(* The refinement of ClaimRegister.                                        *)

\* hosts.claim_id REFERENCES host_claims(id).
References == \A h \in HostIds : hosts[h] # Null => claims[hosts[h].claim] # Null

\* What is registered of a claim does not change.
SameRecord(c) ==
  /\ claims'[c] = Null <=> claims[c] = Null
  /\ claims[c] # Null => /\ claims'[c].spec = claims[c].spec
                         /\ claims'[c].created = claims[c].created
                         /\ claims'[c].deleting = claims[c].deleting

\* No Host row of the claim comes or goes.
SameHostRows(c) ==
  \A h \in HostIds : (hosts'[h] # Null /\ hosts'[h].claim = c)
                       <=> (hosts[h] # Null /\ hosts[h].claim = c)

LEMMA SameHost ==
  ASSUME NEW c \in ClaimIds, SameHostRows(c)
  PROVE  HostOf(c)' = HostOf(c)
<1>1. HostRowsOf(c)' = HostRowsOf(c)
  BY DEF SameHostRows, HostRowsOf
<1>. QED
  BY <1>1 DEF HostOf

LEMMA EntryTypes ==
  ASSUME StorageTypeOK, NEW c \in ClaimIds
  PROVE  /\ claims[c] = Null => Entries[c] = Null
         /\ claims[c] # Null =>
              /\ Entries[c] # Null /\ Entries[c] \in Register!EntryRecords
              /\ Entries[c] = [spec |-> claims[c].spec, created |-> claims[c].created,
                               deleting |-> claims[c].deleting, host |-> HostOf(c)]
<1>1. CASE claims[c] # Null
  <2>1. claims[c] \in ClaimRecords
    BY <1>1 DEF StorageTypeOK
  <2>2. [spec |-> claims[c].spec, created |-> claims[c].created,
         deleting |-> claims[c].deleting, host |-> HostOf(c)] \in Register!EntryRecords
    BY <2>1, HostOfFacts DEF Register!EntryRecords, ClaimRecords
  <2>. QED
    BY <1>1, <2>2, EntryAssumption DEF Entries
<1>. QED
  BY <1>1 DEF Entries

\* The entries of the other claims stay.
LEMMA OneEntry ==
  ASSUME NEW c \in ClaimIds,
         \A d \in ClaimIds \ {c} : SameRecord(d) /\ SameHostRows(d)
  PROVE  Entries' = [Entries EXCEPT ![c] = Entries'[c]]
<1>1. ASSUME NEW d \in ClaimIds \ {c}
      PROVE  Entries'[d] = Entries[d]
  <2>1. HostOf(d)' = HostOf(d)
    BY SameHost
  <2>. QED
    BY <2>1 DEF Entries, SameRecord
<1>. QED
  BY <1>1 DEF Entries

LEMMA SameEntries ==
  ASSUME \A d \in ClaimIds : SameRecord(d) /\ SameHostRows(d)
  PROVE  Entries' = Entries
<1>1. \A d \in ClaimIds : HostOf(d)' = HostOf(d)
  BY SameHost
<1>. QED
  BY <1>1 DEF Entries, SameRecord

LEMMA CreateRegisters ==
  ASSUME StorageTypeOK, References, NEW c \in ClaimIds, NEW spec \in Specs,
         create_claim(c, spec)
  PROVE  [Register!Next]_(Register!vars)
<1>1. CASE claims[c] # Null
  <2>1. UNCHANGED <<claims, hosts, clock>>
    BY <1>1 DEF create_claim
  <2>2. \A d \in ClaimIds : SameRecord(d) /\ SameHostRows(d)
    BY <2>1 DEF SameRecord, SameHostRows
  <2>. QED
    BY <2>1, <2>2, SameEntries DEF Register!vars
<1>2. CASE claims[c] = Null
  <2>1. /\ claims' = [claims EXCEPT ![c] = InitialClaim(spec, clock)]
        /\ clock' = clock + 1 /\ hosts' = hosts
    BY <1>2 DEF create_claim
  <2>2. claims'[c] = InitialClaim(spec, clock) /\ claims'[c] # Null /\ StorageTypeOK'
    BY <2>1, CreateClaimFacts DEF StorageTypeOK
  <2>3. /\ claims'[c].spec = spec /\ claims'[c].created = clock /\ ~claims'[c].deleting
    BY <2>2 DEF InitialClaim
  <2>4. HostOf(c)' = Null
    <3>1. HostRowsOf(c)' = {}
      BY <1>2, <2>1 DEF References, HostRowsOf
    <3>. QED
      BY <3>1 DEF HostOf
  <2>5. Entries'[c] = [spec |-> spec, created |-> clock, deleting |-> FALSE, host |-> Null]
    BY <2>2, <2>3, <2>4 DEF Entries, StorageTypeOK, ClaimRecords
  <2>6. Entries[c] = Null
    BY <1>2 DEF Entries
  <2>7. \A d \in ClaimIds \ {c} : SameRecord(d) /\ SameHostRows(d)
    BY <2>1 DEF SameRecord, SameHostRows, StorageTypeOK
  <2>8. Register!Enter(c, spec)
    BY <2>1, <2>5, <2>6, <2>7, OneEntry DEF Register!Enter
  <2>. QED
    BY <2>8 DEF Register!Next
<1>. QED
  BY <1>1, <1>2

LEMMA ReleaseRegisters ==
  ASSUME StorageTypeOK, NEW c \in ClaimIds, mark_claim_deleting(c)
  PROVE  [Register!Next]_(Register!vars)
<1>1. /\ claims[c] # Null /\ claims[c] \in ClaimRecords
      /\ hosts' = hosts /\ clock' = clock
  BY DEF mark_claim_deleting, StorageTypeOK
<1>2. \A d \in ClaimIds : SameHostRows(d)
  BY <1>1 DEF SameHostRows
<1>3. CASE claims[c].deleting
  <2>1. claims' = claims
    BY <1>3 DEF mark_claim_deleting
  <2>2. \A d \in ClaimIds : SameRecord(d)
    BY <2>1 DEF SameRecord
  <2>. QED
    BY <1>1, <1>2, <2>2, SameEntries DEF Register!vars
<1>4. CASE ~claims[c].deleting
  <2> DEFINE row == [claims[c] EXCEPT !.deleting = TRUE, !.observed = TRUE,
                                      !.ready = "DeletionRequested", !.retry = NoRetry]
  <2>1. claims' = [claims EXCEPT ![c] = row]
    BY <1>1, <1>4 DEF mark_claim_deleting, StorageTypeOK
  <2>2. row.spec = claims[c].spec /\ row.created = claims[c].created /\ row.deleting = TRUE
    BY <1>1 DEF ClaimRecords
  <2>3. claims'[c] # Null
    BY MarkDeletingFacts
  <2> HIDE DEF row
  <2>4. claims'[c] = row /\ \A d \in ClaimIds \ {c} : claims'[d] = claims[d]
    BY <1>1, <2>1 DEF StorageTypeOK
  <2>5. \A d \in ClaimIds \ {c} : SameRecord(d)
    BY <2>4 DEF SameRecord
  <2>6. Entries[c] # Null
        /\ Entries[c] = [spec |-> claims[c].spec, created |-> claims[c].created,
                         deleting |-> FALSE, host |-> HostOf(c)]
    BY <1>1, <1>4, EntryTypes DEF ClaimRecords
  <2>7. Entries'[c] = [spec |-> claims[c].spec, created |-> claims[c].created,
                       deleting |-> TRUE, host |-> HostOf(c)]
    BY <1>2, <2>2, <2>3, <2>4, SameHost DEF Entries
  <2>8. Entries'[c] = [Entries[c] EXCEPT !.deleting = TRUE]
    <3>1. PICK yes, no : yes = TRUE /\ no = FALSE
      OBVIOUS
    <3>2. /\ Entries[c] = [spec |-> claims[c].spec, created |-> claims[c].created,
                           deleting |-> no, host |-> HostOf(c)]
          /\ Entries'[c] = [spec |-> claims[c].spec, created |-> claims[c].created,
                            deleting |-> yes, host |-> HostOf(c)]
      BY <2>6, <2>7, <3>1, Zenon
    <3>3. Entries'[c] = [Entries[c] EXCEPT !.deleting = yes]
      BY <3>2
    <3>. QED
      BY <3>1, <3>3, Zenon
  <2>9. Entries' = [Entries EXCEPT ![c].deleting = TRUE]
    BY <1>2, <2>5, <2>8, OneEntry
  <2>10. Register!Release(c)
    BY <1>1, <2>6, <2>9 DEF Register!Release
  <2>. QED
    BY <2>10 DEF Register!Next
<1>. QED
  BY <1>3, <1>4

LEMMA StatusRegisters ==
  ASSUME StorageTypeOK, NEW c \in ClaimIds, NEW record \in ClaimRecords,
         save_claim_status(c, record)
  PROVE  UNCHANGED Register!vars
<1>1. hosts' = hosts /\ clock' = clock
  BY DEF save_claim_status
<1>2. \A d \in ClaimIds : SameRecord(d)
  <2>1. CASE ~StatusIsCurrent(c, record)
    BY <2>1 DEF save_claim_status, SameRecord
  <2>2. CASE StatusIsCurrent(c, record)
    <3> DEFINE row == [claims[c] EXCEPT !.observed = record.observed,
                                        !.accepted = record.accepted,
                                        !.bound = record.bound, !.ready = record.ready,
                                        !.retry = record.retry]
    <3>1. claims[c] # Null /\ claims[c] \in ClaimRecords
      BY <2>2 DEF StatusIsCurrent, StorageTypeOK
    <3>2. claims' = [claims EXCEPT ![c] = row]
      BY <2>2, <3>1 DEF save_claim_status, StorageTypeOK
    <3>3. /\ row.spec = claims[c].spec /\ row.created = claims[c].created
          /\ row.deleting = claims[c].deleting
      BY <3>1 DEF ClaimRecords
    <3>4. claims'[c] # Null
      BY <3>1, SaveStatusFacts
    <3> HIDE DEF row
    <3>. QED
      BY <3>1, <3>2, <3>3, <3>4 DEF SameRecord, StorageTypeOK
  <2>. QED
    BY <2>1, <2>2
<1>3. \A d \in ClaimIds : SameHostRows(d)
  BY <1>1 DEF SameHostRows
<1>. QED
  BY <1>1, <1>2, <1>3, SameEntries DEF Register!vars

LEMMA HostRowRegisters ==
  ASSUME StorageTypeOK, NEW h \in HostIds, NEW record \in HostRecords, save_host(h, record)
  PROVE  UNCHANGED Register!vars
<1>1. claims' = claims /\ clock' = clock
  BY DEF save_host
<1>2. \A d \in ClaimIds : SameRecord(d) /\ SameHostRows(d)
  BY <1>1, SaveHostFacts DEF SameRecord, SameHostRows
<1>. QED
  BY <1>1, <1>2, SameEntries DEF Register!vars

\* The Host that ensure_host inserts has no row yet.
LEMMA AssignmentRegisters ==
  ASSUME StorageTypeOK, NEW c \in ClaimIds, NEW plan \in Plans, NEW inUse,
         \A h \in HostIds : hosts[h] # Null => h \in inUse,
         ensure_host(c, plan, inUse)
  PROVE  [Register!Next]_(Register!vars)
<1>0. clock' = clock
  BY DEF ensure_host
<1>1. CASE ~(Assignable(c) /\ HostRowsOf(c) = {})
  <2>1. UNCHANGED <<claims, hosts>>
    BY <1>1 DEF ensure_host
  <2>2. \A d \in ClaimIds : SameRecord(d) /\ SameHostRows(d)
    BY <2>1 DEF SameRecord, SameHostRows
  <2>. QED
    BY <1>0, <2>2, SameEntries DEF Register!vars
<1>2. CASE Assignable(c) /\ HostRowsOf(c) = {}
  <2> DEFINE row == [claims[c] EXCEPT !.observed = TRUE, !.accepted = "RequirementsValid",
                                      !.bound = "HostAssigned", !.ready = "HostNotReady",
                                      !.retry = NoRetry]
             h == UnusedHostId(inUse)
  <2>1. claims[c] \in ClaimRecords /\ claims[c] # Null /\ ~claims[c].deleting
    BY <1>2 DEF Assignable, StorageTypeOK
  <2>2. claims' = [claims EXCEPT ![c] = row]
    BY <1>2, <2>1 DEF ensure_host, StorageTypeOK
  <2>3. /\ row.spec = claims[c].spec /\ row.created = claims[c].created
        /\ row.deleting = claims[c].deleting
    BY <2>1 DEF ClaimRecords
  <2>4. claims'[c] # Null
    BY <2>1, EnsureHostFacts
  <2>5. h \in HostIds \ inUse /\ hosts' = [hosts EXCEPT ![h] = InitialHost(c, plan)]
    BY <1>2 DEF ensure_host, UnusedHostId
  <2> HIDE DEF row, h
  <2>6. hosts[h] = Null /\ h \in HostIds
    BY <2>5
  <2>7. /\ hosts'[h] # Null /\ hosts'[h].claim = c
        /\ \A g \in HostIds \ {h} : hosts'[g] = hosts[g]
    BY <2>5, InitialTypes, NullAssumption DEF StorageTypeOK
  <2>8. \A d \in ClaimIds \ {c} : SameRecord(d) /\ SameHostRows(d)
    BY <2>2, <2>6, <2>7 DEF SameRecord, SameHostRows, StorageTypeOK
  <2>9. HostOf(c) = Null
    BY <1>2 DEF HostOf
  <2>10. HostOf(c)' = h
    <3>1. HostRowsOf(c)' = {h}
      BY <1>2, <2>6, <2>7 DEF HostRowsOf
    <3>. QED
      BY <3>1 DEF HostOf
  <2>11. claims'[c] = row
    BY <2>1, <2>2 DEF StorageTypeOK
  <2>12. /\ Entries[c] # Null
         /\ Entries[c] = [spec |-> claims[c].spec, created |-> claims[c].created,
                          deleting |-> claims[c].deleting, host |-> Null]
    BY <2>1, <2>9, EntryTypes
  <2>13. Entries'[c] = [spec |-> claims[c].spec, created |-> claims[c].created,
                        deleting |-> claims[c].deleting, host |-> h]
    BY <2>3, <2>4, <2>10, <2>11 DEF Entries
  <2>14. Entries'[c] = [Entries[c] EXCEPT !.host = h]
    BY <2>12, <2>13
  <2>15. Entries' = [Entries EXCEPT ![c].host = h]
    BY <2>8, <2>14, OneEntry
  <2>16. \A d \in ClaimIds : Entries[d] # Null => Entries[d].host # h
    <3>1. \A d \in ClaimIds : HostOf(d) # h
      BY <2>6, HostOfFacts, NullAssumption DEF HostRowsOf
    <3>2. \A d \in ClaimIds : Entries[d] # Null => Entries[d].host = HostOf(d)
      BY DEF Entries
    <3>. QED
      BY <3>1, <3>2
  <2>17. Register!Assign(c, h)
    BY <1>0, <2>1, <2>12, <2>15, <2>16 DEF Register!Assign
  <2>. QED
    BY <2>6, <2>17 DEF Register!Next
<1>. QED
  BY <1>1, <1>2

LEMMA FinalizationRegisters ==
  ASSUME StorageTypeOK, NEW c \in ClaimIds, claims[c] # Null, claims[c].deleting,
         finalize_claim(c)
  PROVE  [Register!Next]_(Register!vars)
<1>1. /\ \A d \in ClaimIds : claims'[d] = IF d = c THEN Null ELSE claims[d]
      /\ \A h \in HostIds : hosts'[h] = IF h \in HostRowsOf(c) THEN Null ELSE hosts[h]
      /\ clock' = clock
  BY FinalizeFacts DEF finalize_claim
<1>2. \A d \in ClaimIds \ {c} : SameRecord(d) /\ SameHostRows(d)
  BY <1>1 DEF SameRecord, SameHostRows, HostRowsOf
<1>3. Entries'[c] = Null
  BY <1>1 DEF Entries
<1>4. Entries[c] # Null /\ Entries[c].deleting
  <2>1. claims[c] \in ClaimRecords
    BY DEF StorageTypeOK
  <2>2. claims[c].deleting = TRUE
    BY <2>1 DEF ClaimRecords
  <2>3. /\ Entries[c] # Null
        /\ Entries[c] = [spec |-> claims[c].spec, created |-> claims[c].created,
                         deleting |-> TRUE, host |-> HostOf(c)]
    BY <2>2, EntryTypes, Zenon
  <2>. QED
    BY <2>3
<1>5. Register!Forget(c)
  BY <1>1, <1>2, <1>3, <1>4, OneEntry DEF Register!Forget
<1>. QED
  BY <1>5 DEF Register!Next

LEMMA RegisterStarts == StorageInit => Register!Init
BY DEF StorageInit, Register!Init, Entries

\* What a step of the register means for the rows: a claim's spec and creation time
\* stay, its deletion stays requested, and only such a claim goes.
TableForward ==
  /\ clock' = clock \/ clock' = clock + 1
  /\ \A c \in ClaimIds :
       /\ claims[c] = Null /\ claims'[c] # Null =>
            claims'[c].created = clock /\ clock' = clock + 1
       /\ claims[c] # Null /\ claims'[c] # Null =>
            /\ claims'[c].spec = claims[c].spec /\ claims'[c].created = claims[c].created
            /\ claims[c].deleting => claims'[c].deleting
       /\ claims[c] # Null /\ claims'[c] = Null => claims[c].deleting

LEMMA RegisterGoesForward ==
  ASSUME StorageTypeOK, StorageTypeOK', [Register!Next]_(Register!vars)
  PROVE  TableForward
<1>1. \A c \in ClaimIds :
        /\ Entries[c] = Null <=> claims[c] = Null
        /\ claims[c] # Null => /\ Entries[c].spec = claims[c].spec
                               /\ Entries[c].created = claims[c].created
                               /\ Entries[c].deleting = claims[c].deleting
                               /\ claims[c].deleting \in BOOLEAN
  BY EntryTypes DEF Entries, StorageTypeOK, ClaimRecords
<1>2. \A c \in ClaimIds :
        /\ claims'[c] = Null => Entries'[c] = Null
        /\ claims'[c] # Null => /\ Entries'[c] # Null
                                /\ Entries'[c].spec = claims'[c].spec
                                /\ Entries'[c].created = claims'[c].created
                                /\ Entries'[c].deleting = claims'[c].deleting
                                /\ claims'[c].deleting \in BOOLEAN
  <2> SUFFICES ASSUME NEW c \in ClaimIds, claims'[c] # Null
               PROVE  /\ Entries'[c] # Null
                      /\ Entries'[c].spec = claims'[c].spec
                      /\ Entries'[c].created = claims'[c].created
                      /\ Entries'[c].deleting = claims'[c].deleting
                      /\ claims'[c].deleting \in BOOLEAN
    BY DEF Entries
  <2>1. claims'[c] \in ClaimRecords
    BY DEF StorageTypeOK
  <2>2. HostOf(c)' \in HostIds \cup {Null}
    BY NullAssumption DEF HostOf, HostRowsOf
  <2>3. [spec |-> claims'[c].spec, created |-> claims'[c].created,
         deleting |-> claims'[c].deleting, host |-> HostOf(c)'] \in Register!EntryRecords
    BY <2>1, <2>2 DEF Register!EntryRecords, ClaimRecords
  <2>. QED
    BY <2>1, <2>3, EntryAssumption DEF Entries, ClaimRecords
<1>3. DOMAIN Entries = ClaimIds /\ Entries = [c \in ClaimIds |-> Entries[c]]
  BY DEF Entries
<1>4. CASE UNCHANGED Register!vars
  BY <1>1, <1>2, <1>4 DEF Register!vars, TableForward
<1>5. ASSUME NEW c \in ClaimIds, NEW spec \in Specs, Register!Enter(c, spec)
      PROVE  TableForward
  <2>1. /\ \A d \in ClaimIds \ {c} : Entries'[d] = Entries[d]
        /\ Entries[c] = Null /\ Entries'[c].created = clock /\ clock' = clock + 1
    BY <1>3, <1>5 DEF Register!Enter
  <2>. QED
    BY <1>1, <1>2, <2>1 DEF TableForward
<1>6. ASSUME NEW c \in ClaimIds, NEW h \in HostIds, Register!Assign(c, h)
      PROVE  TableForward
  <2>1. /\ \A d \in ClaimIds \ {c} : Entries'[d] = Entries[d]
        /\ Entries[c] # Null /\ Entries'[c] = [Entries[c] EXCEPT !.host = h]
        /\ clock' = clock
    BY <1>3, <1>6 DEF Register!Assign
  <2>2. /\ Entries'[c].spec = Entries[c].spec /\ Entries'[c].created = Entries[c].created
        /\ Entries'[c].deleting = Entries[c].deleting
        /\ Entries'[c] \in Register!EntryRecords
    BY <1>1, <2>1, EntryTypes DEF Register!EntryRecords
  <2>3. claims[c] # Null /\ claims'[c] # Null
    BY <1>1, <1>2, <2>1, <2>2, EntryAssumption
  <2>4. claims'[c].spec = claims[c].spec /\ claims'[c].created = claims[c].created
    BY <1>1, <1>2, <2>2, <2>3
  <2>5. claims[c].deleting => claims'[c].deleting
    BY <1>1, <1>2, <2>2, <2>3
  <2>. QED
    BY <1>1, <1>2, <2>1, <2>3, <2>4, <2>5 DEF TableForward
<1>7. ASSUME NEW c \in ClaimIds, Register!Release(c)
      PROVE  TableForward
  <2>1. /\ \A d \in ClaimIds \ {c} : Entries'[d] = Entries[d]
        /\ Entries[c] # Null /\ Entries'[c] = [Entries[c] EXCEPT !.deleting = TRUE]
        /\ clock' = clock
    BY <1>3, <1>7 DEF Register!Release
  <2>2. /\ Entries'[c].spec = Entries[c].spec /\ Entries'[c].created = Entries[c].created
        /\ Entries'[c].deleting = TRUE /\ Entries'[c] \in Register!EntryRecords
    BY <1>1, <2>1, EntryTypes DEF Register!EntryRecords
  <2>3. claims[c] # Null /\ claims'[c] # Null
    BY <1>1, <1>2, <2>1, <2>2, EntryAssumption
  <2>4. claims'[c].spec = claims[c].spec /\ claims'[c].created = claims[c].created
    BY <1>1, <1>2, <2>2, <2>3
  <2>5. claims[c].deleting => claims'[c].deleting
    BY <1>1, <1>2, <2>2, <2>3
  <2>. QED
    BY <1>1, <1>2, <2>1, <2>3, <2>4, <2>5 DEF TableForward
<1>8. ASSUME NEW c \in ClaimIds, Register!Forget(c)
      PROVE  TableForward
  <2>1. /\ \A d \in ClaimIds \ {c} : Entries'[d] = Entries[d]
        /\ Entries[c] # Null /\ Entries[c].deleting /\ Entries'[c] = Null /\ clock' = clock
    BY <1>3, <1>8 DEF Register!Forget
  <2>2. claims[c].deleting
    BY <1>1, <2>1
  <2>. QED
    BY <1>1, <1>2, <2>1, <2>2 DEF TableForward
<1>. QED
  BY <1>4, <1>5, <1>6, <1>7, <1>8 DEF Register!Next
=============================================================================
