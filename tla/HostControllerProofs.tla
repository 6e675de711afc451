------------------------ MODULE HostControllerProofs ------------------------
(***************************************************************************)
(* The safety invariants of HostController, proved for every set of        *)
(* claims, hosts, resources and plans and for every bound.                 *)
(*                                                                         *)
(* None of them is inductive alone: whether a write that the controller is *)
(* about to make is safe depends on what it keeps in memory, and that on   *)
(* what the tables said when it read them.  IInv relates the tables, the   *)
(* provider and the memory of the pass at every call.                      *)
(***************************************************************************)
EXTENDS HostController, StorageProofs

Working == {"select_plan", "ensure_host", "observe", "save_host", "create",
            "delete", "persist", "persist_idle", "finalize"}

WithHost == {"observe", "save_host", "create", "delete"}

Releasing == {"DeletionRequested", "ProviderOwnershipConflict"}

\* The tables and the provider: claim_id references a claim and is UNIQUE, a
\* resource has a Host row past Pending, and deletion shows in the status.
TableInv ==
  /\ \A h \in HostIds : hosts[h] # Null => claims[hosts[h].claim] # Null
  /\ \A g, h \in HostIds : hosts[g] # Null /\ hosts[h] # Null
                             /\ hosts[g].claim = hosts[h].claim => g = h
  /\ \A h \in HostIds : resources[h] # Null => hosts[h] # Null /\ hosts[h].phase # "Pending"
  /\ \A c \in ClaimIds : claims[c] # Null /\ claims[c].deleting
                           => claims[c].ready \in Releasing

\* What the tables still say about a claim that the pass has listed.
SnapInv ==
  \A c \in ClaimIds : snap[c] # Null =>
    /\ claims[c] # Null
    /\ snap[c].rec.deleting => claims[c].deleting /\ snap[c].rec.ready \in Releasing
    /\ IF snap[c].host = Null THEN HostRowsOf(c) = {}
                              ELSE HostRowsOf(c) = {snap[c].host}

\* What the task has in memory at each of its calls.
MemoryInv ==
  /\ pc \in {"down", "select", "list"} => snap = NoSnapshot
  /\ pc \in Working =>
       /\ cid \in ClaimIds /\ snap[cid] # Null /\ claim \in ClaimRecords
       /\ claim.deleting = snap[cid].rec.deleting
       /\ claim.deleting => claim.ready \in Releasing
  /\ pc \in WithHost => snap[cid].host \in HostIds /\ host \in HostRecords
  /\ pc \in {"select_plan", "ensure_host"} => snap[cid].host = Null /\ ~claim.deleting
  /\ pc = "ensure_host" => PlanFor[claim.spec] # Null
  /\ pc = "save_host" => after # "none"
  /\ pc = "create" => ~claim.deleting
  /\ pc = "save_host" /\ after = "create" => ~claim.deleting
  /\ pc = "finalize" => claim.deleting

\* What the write or the mutation in progress may rely on.
CallInv ==
  /\ pc = "observe" => host.phase = hosts[snap[cid].host].phase
  /\ pc = "save_host" => (host.phase = "Pending" => resources[snap[cid].host] = Null)
  /\ pc = "save_host" /\ after \in {"create", "delete"} => host.phase # "Pending"
  /\ pc = "save_host" /\ after = "create" =>
       resources[snap[cid].host] = Null /\ host.rid = Null
  /\ pc = "create" => resources[snap[cid].host] = Null /\ hosts[snap[cid].host].rid = Null
  /\ pc \in {"create", "delete"} =>
       host.phase # "Pending" /\ hosts[snap[cid].host].phase # "Pending"
  /\ pc = "finalize" => \A h \in HostRowsOf(cid) : resources[h] = Null

IInv == TypeOK /\ TableInv /\ SnapInv /\ MemoryInv /\ CallInv

-----------------------------------------------------------------------------
(* The records.                                                            *)

\* What an in-memory update of a claim and its Host may do to the pair.
PairOK(pair, c) ==
  /\ pair.claim \in ClaimRecords /\ pair.host \in HostRecords
  /\ pair.claim.deleting = c.deleting

LEMMA ObservationTypes ==
  ASSUME NEW c \in ClaimRecords, NEW h \in HostRecords, NEW r \in ResourceRecords
  PROVE  LET pair == apply_provider_observation(c, h, r) IN
         PairOK(pair, c) /\ pair.host.phase # "Pending"
BY RetryTypes DEF apply_provider_observation, PairOK, ReasonOf, ClaimRecords, HostRecords,
   ResourceRecords, Lifecycles, Phases, AcceptedReasons, BoundReasons, ReadyReasons,
   HostReadyReasons

LEMMA AbsentTypes ==
  ASSUME NEW c \in ClaimRecords, NEW h \in HostRecords
  PROVE  PairOK(mark_provider_absent(c, h), c)
BY RetryTypes DEF mark_provider_absent, PairOK, ClaimRecords, HostRecords, Phases,
   ReadyReasons, HostReadyReasons

LEMMA UnknownTypes ==
  ASSUME NEW c \in ClaimRecords, NEW h \in HostRecords, NEW kind \in Errors \ {"none"}
  PROVE  LET pair == mark_outcome_unknown(c, h, kind) IN
         PairOK(pair, c) /\ pair.host.phase # "Pending"
<1>1. Backoff(h.retry, kind) \in RetryStates
  BY RetryTypes DEF HostRecords
<1>. QED
  BY <1>1 DEF mark_outcome_unknown, PairOK, ClaimRecords, HostRecords, Phases,
     ReadyReasons, HostReadyReasons

LEMMA FailedTypes ==
  ASSUME NEW c \in ClaimRecords, NEW h \in HostRecords, NEW reason \in Errors \ {"none"}
  PROVE  LET pair == mark_host_failed(c, h, reason) IN
         /\ PairOK(pair, c) /\ pair.host.phase = "Failed"
         /\ pair.claim.ready = reason
BY DEF mark_host_failed, PairOK, ClaimRecords, HostRecords, Phases, RetryStates,
   ReadyReasons, HostReadyReasons

LEMMA ClaimErrorTypes ==
  ASSUME NEW c \in ClaimRecords, NEW error
  PROVE  /\ schedule_claim_provider_error(c, error) \in ClaimRecords
         /\ schedule_claim_provider_error(c, error).deleting = c.deleting
<1>1. Backoff(c.retry, "ProviderUnavailable") \in RetryStates
  BY RetryTypes DEF ClaimRecords, Errors
<1>. QED
  BY <1>1 DEF schedule_claim_provider_error, ClaimRecords, AcceptedReasons, RetryStates, Errors

LEMMA HostErrorTypes ==
  ASSUME NEW c \in ClaimRecords, NEW h \in HostRecords, NEW error
  PROVE  LET pair == schedule_host_provider_error(c, h, error) IN
         /\ PairOK(pair, c)
         /\ pair.host.phase = "Pending" => h.phase = "Pending"
<1>1. CASE error = "Definitive"
  BY <1>1, FailedTypes, "ProviderRejected" \in Errors \ {"none"}
     DEF schedule_host_provider_error, Errors
<1>2. CASE error # "Definitive"
  <2>1. Backoff(h.retry, "ProviderUnavailable") \in RetryStates
    BY RetryTypes DEF HostRecords, Errors
  <2>. QED
    BY <1>2, <2>1 DEF schedule_host_provider_error, PairOK, ClaimRecords, HostRecords,
       ReadyReasons, HostReadyReasons, Errors
<1>. QED
  BY <1>1, <1>2

LEMMA RetryOnlyTypes ==
  ASSUME NEW h \in HostRecords, NEW error
  PROVE  /\ schedule_host_retry_only(h, error) \in HostRecords
         /\ schedule_host_retry_only(h, error).phase = h.phase
<1>1. /\ Backoff(h.retry, "ProviderUnavailable") \in RetryStates
      /\ Backoff(h.retry, "ProviderRejected") \in RetryStates
  BY RetryTypes DEF HostRecords, Errors
<1>2. [Backoff(h.retry, "ProviderRejected") EXCEPT !.next = "never"] \in RetryStates
  BY <1>1 DEF RetryStates
<1>. QED
  BY <1>1, <1>2 DEF schedule_host_retry_only, HostRecords

LEMMA UnsatisfiedTypes ==
  ASSUME NEW c \in ClaimRecords
  PROVE  Unsatisfied(c) \in ClaimRecords /\ Unsatisfied(c).deleting = c.deleting
BY RetryTypes DEF Unsatisfied, ClaimRecords, AcceptedReasons, BoundReasons, ReadyReasons

-----------------------------------------------------------------------------
(* Deadlines that pass.                                                    *)

LEMMA ElapseClaimFacts ==
  ASSUME StorageTypeOK, NEW c \in ClaimIds, ElapseClaim(c)
  PROVE  /\ StorageTypeOK'
         /\ \A d \in ClaimIds :
              /\ claims'[d] = Null <=> claims[d] = Null
              /\ claims[d] # Null => /\ claims'[d].deleting = claims[d].deleting
                                     /\ claims'[d].ready = claims[d].ready
<1> DEFINE row == [claims[c] EXCEPT !.retry = [claims[c].retry EXCEPT !.next = "due"]]
<1>1. claims[c] \in ClaimRecords /\ claims[c] # Null
  BY DEF ElapseClaim, StorageTypeOK
<1>2. claims' = [claims EXCEPT ![c] = row] /\ hosts' = hosts /\ clock' = clock
  BY <1>1 DEF ElapseClaim, StorageTypeOK
<1>3. row \in ClaimRecords /\ row.deleting = claims[c].deleting /\ row.ready = claims[c].ready
  BY <1>1 DEF ClaimRecords, RetryStates
<1>4. row # Null
  BY <1>3, NullAssumption
<1> HIDE DEF row
<1>. QED
  BY <1>1, <1>2, <1>3, <1>4 DEF StorageTypeOK

LEMMA ElapseHostFacts ==
  ASSUME StorageTypeOK, NEW h \in HostIds, ElapseHost(h)
  PROVE  /\ StorageTypeOK' /\ claims' = claims
         /\ \A g \in HostIds :
              /\ hosts'[g] = Null <=> hosts[g] = Null
              /\ hosts[g] # Null => /\ hosts'[g].claim = hosts[g].claim
                                    /\ hosts'[g].phase = hosts[g].phase
<1> DEFINE row == [hosts[h] EXCEPT !.retry = [hosts[h].retry EXCEPT !.next = "due"]]
<1>1. hosts[h] \in HostRecords /\ hosts[h] # Null
  BY DEF ElapseHost, StorageTypeOK
<1>2. hosts' = [hosts EXCEPT ![h] = row] /\ claims' = claims /\ clock' = clock
  BY <1>1 DEF ElapseHost, StorageTypeOK
<1>3. row \in HostRecords /\ row.claim = hosts[h].claim /\ row.phase = hosts[h].phase
  BY <1>1 DEF HostRecords, RetryStates
<1>4. row # Null
  BY <1>3, NullAssumption
<1> HIDE DEF row
<1>. QED
  BY <1>1, <1>2, <1>3, <1>4 DEF StorageTypeOK

-----------------------------------------------------------------------------
(* The provider.                                                           *)

LEMMA CreateFacts ==
  ASSUME ProviderTypeOK, NEW h \in HostIds, NEW plan \in Plans, NEW inUse,
         create(h, plan, inUse)
  PROVE  /\ ProviderTypeOK' /\ resources'[h] \in ResourceRecords
         /\ \A g \in HostIds \ {h} : resources'[g] = resources[g]
<1>1. CreatedResource(h, plan, inUse) \in ResourceRecords
  <2>1. CASE resources[h] # Null
    BY <2>1 DEF CreatedResource, ProviderTypeOK
  <2>2. CASE resources[h] = Null
    <3>1. UnusedResourceId(inUse) \in ResourceIds
      BY <2>2 DEF create, UnusedResourceId
    <3>. QED
      BY <2>2, <3>1 DEF CreatedResource, ResourceRecords, Lifecycles
  <2>. QED
    BY <2>1, <2>2
<1>. QED
  BY <1>1 DEF create, ProviderTypeOK

LEMMA DriftFacts ==
  ASSUME ProviderTypeOK, NEW h \in HostIds, Drift(h)
  PROVE  /\ ProviderTypeOK'
         /\ \A g \in HostIds : resources[g] = Null => resources'[g] = Null
         /\ \A g \in HostIds \ {h} : resources'[g] = resources[g]
         /\ resources[h] # Null
<1>1. CASE DriftRemove(h)
  BY <1>1 DEF DriftRemove, ProviderTypeOK
<1>2. ASSUME NEW row \in ResourceRecords, resources[h] # Null,
             resources' = [resources EXCEPT ![h] = row]
      PROVE  /\ ProviderTypeOK'
             /\ \A g \in HostIds : resources[g] = Null => resources'[g] = Null
             /\ \A g \in HostIds \ {h} : resources'[g] = resources[g]
             /\ resources[h] # Null
  BY <1>2 DEF ProviderTypeOK
<1>3. CASE DriftReplace(h, ResourceIdsInUse)
  <2>1. UnusedResourceId(ResourceIdsInUse) \in ResourceIds
    BY <1>3 DEF DriftReplace, UnusedResourceId
  <2>2. resources[h] \in ResourceRecords
    BY <1>3 DEF DriftReplace, ProviderTypeOK
  <2>3. [resources[h] EXCEPT !.id = UnusedResourceId(ResourceIdsInUse)] \in ResourceRecords
    BY <2>1, <2>2 DEF ResourceRecords
  <2>. QED
    BY <1>2, <1>3, <2>3 DEF DriftReplace
<1>4. CASE \E lifecycle \in Lifecycles : DriftLifecycle(h, lifecycle)
  <2>1. PICK lifecycle \in Lifecycles : DriftLifecycle(h, lifecycle)
    BY <1>4
  <2>2. resources[h] \in ResourceRecords
    BY <2>1 DEF DriftLifecycle, ProviderTypeOK
  <2>3. [resources[h] EXCEPT !.lifecycle = lifecycle] \in ResourceRecords
    BY <2>2 DEF ResourceRecords
  <2>. QED
    BY <1>2, <2>1, <2>3 DEF DriftLifecycle
<1>. QED
  BY <1>1, <1>3, <1>4 DEF Drift

-----------------------------------------------------------------------------
(* How a step leaves the pass.                                             *)

LEMMA FaultCounted ==
  ASSUME IInv, faults' = faults \/ Fault
  PROVE  faults' \in 0..MaxFaults
BY BoundsAssumption DEF IInv, TypeOK, Fault

\* The pass is over: only the tables matter.
LEMMA PassOver ==
  ASSUME TypeOK', TableInv', snap' = NoSnapshot, pc' \in {"down", "select", "list"}
  PROVE  IInv'
BY DEF IInv, SnapInv, MemoryInv, CallInv, NoSnapshot, Working, WithHost

\* What the tables may do to a claim that has been listed.
Frame ==
  \A c \in ClaimIds :
    /\ claims[c] # Null => claims'[c] # Null /\ (claims[c].deleting => claims'[c].deleting)
    /\ HostRowsOf(c)' = HostRowsOf(c)

LEMMA SnapFrame ==
  ASSUME TypeOK, SnapInv, Frame,
         \A c \in ClaimIds : snap'[c] = snap[c] \/ snap'[c] = Null
  PROVE  SnapInv'
BY DEF SnapInv, Frame, TypeOK

\* A step that writes nothing, at the tables.
LEMMA ReadOnly ==
  ASSUME IInv, UNCHANGED <<storageVars, resources>>
  PROVE  StorageTypeOK' /\ ProviderTypeOK' /\ TableInv' /\ Frame
BY DEF IInv, TypeOK, storageVars, StorageTypeOK, ProviderTypeOK, TableInv, Frame, HostRowsOf

\* The claim is done with in this pass.
LEMMA ClaimOver ==
  ASSUME IInv, StorageTypeOK', ProviderTypeOK', TableInv', Frame,
         NEW c \in ClaimIds, NEW woken \in BOOLEAN, NextClaim(c, woken),
         UNCHANGED drifts, faults' \in 0..MaxFaults
  PROVE  IInv'
<1>1. TypeOK'
  BY DEF IInv, TypeOK, NextClaim, StorageCalls, ProviderCalls, Snapshots
<1>2. SnapInv'
  <2>1. \A d \in ClaimIds : snap'[d] = snap[d] \/ snap'[d] = Null
    BY DEF NextClaim, IInv, TypeOK
  <2>. QED
    BY <2>1, SnapFrame DEF IInv
<1>3. MemoryInv' /\ CallInv'
  BY DEF NextClaim, MemoryInv, CallInv, Working, WithHost
<1>. QED
  BY <1>1, <1>2, <1>3 DEF IInv

\* reconcile_once returns Progress.
LEMMA ProgressOver ==
  ASSUME IInv, StorageTypeOK', ProviderTypeOK', TableInv',
         NEW woken \in BOOLEAN, Progress(woken), UNCHANGED drifts, faults' = faults
  PROVE  IInv'
<1>1. steps' \in 0..(MaxSteps - 1)
  BY BoundsAssumption DEF IInv, TypeOK, Progress
<1>2. notified' \in BOOLEAN /\ pc' \in {"select", "list"}
  BY Zenon DEF Progress
<1>3. snap' = NoSnapshot /\ snap' \in [ClaimIds -> Snapshots \cup {Null}]
  BY DEF Progress, ForgetPass, NoSnapshot
<1>4. TypeOK'
  BY <1>1, <1>2, <1>3 DEF IInv, TypeOK, Progress, ForgetPass, StorageCalls
<1>. QED
  BY <1>2, <1>3, <1>4, PassOver

\* The task goes on with save_host.
LEMMA SaveThenOver ==
  ASSUME IInv, pc \in WithHost, StorageTypeOK', ProviderTypeOK', TableInv', Frame,
         NEW pair, NEW next \in {"create", "delete", "persist", "persist_idle", "progress"},
         SaveThen(pair, next), PairOK(pair, claim),
         claim.deleting => pair.claim.ready \in Releasing,
         pair.host.phase = "Pending" =>
           resources'[snap[cid].host] = Null /\ next \notin {"create", "delete"},
         next = "create" =>
           resources'[snap[cid].host] = Null /\ pair.host.rid = Null /\ ~claim.deleting,
         UNCHANGED drifts, faults' \in 0..MaxFaults
  PROVE  IInv'
<1>1. TypeOK'
  BY DEF IInv, TypeOK, SaveThen, Goto, PairOK, StorageCalls
<1>2. SnapInv'
  BY SnapFrame DEF IInv, SaveThen, Goto
<1>3. MemoryInv'
  BY DEF IInv, MemoryInv, SaveThen, Goto, PairOK, Working, WithHost
<1>4. CallInv'
  BY DEF IInv, MemoryInv, CallInv, SaveThen, Goto, PairOK, Working, WithHost
<1>. QED
  BY <1>1, <1>2, <1>3, <1>4 DEF IInv

-----------------------------------------------------------------------------
(* The steps outside a claim.                                              *)

LEMMA WakeSteps ==
  ASSUME IInv, WakeByNotify \/ WakeByTick \/ PassIdle \/ Restart
  PROVE  IInv'
<1>1. UNCHANGED <<storageVars, resources, snap, cid, claim, host, after, faults, drifts>>
  BY DEF WakeByNotify, WakeByTick, PassIdle, Restart, passVars
<1>2. /\ pc' \in {"select", "list"} /\ steps' \in {steps, 0}
      /\ notified' \in {notified, TRUE, FALSE}
  BY DEF WakeByNotify, WakeByTick, PassIdle, Restart
<1>3. snap = NoSnapshot
  BY DEF IInv, MemoryInv, WakeByNotify, WakeByTick, PassIdle, Restart
<1>4. StorageTypeOK' /\ ProviderTypeOK' /\ TableInv'
  BY <1>1, ReadOnly
<1>5. TypeOK'
  <2>1. steps' \in 0..(MaxSteps - 1)
    BY <1>2, BoundsAssumption DEF IInv, TypeOK
  <2>2. notified' \in BOOLEAN
    BY <1>2, Zenon DEF IInv, TypeOK
  <2>. QED
    BY <1>1, <1>2, <1>4, <2>1, <2>2 DEF IInv, TypeOK, StorageCalls
<1>. QED
  BY <1>1, <1>2, <1>3, <1>4, <1>5, PassOver

LEMMA StopSteps ==
  ASSUME IInv, StorageError \/ Crash
  PROVE  IInv'
<1>1. /\ UNCHANGED <<storageVars, resources, drifts>> /\ ForgetPass
      /\ pc' \in {"down", "select"} /\ steps' = 0 /\ notified' \in {notified, FALSE} /\ Fault
  BY DEF StorageError, Crash
<1>2. StorageTypeOK' /\ ProviderTypeOK' /\ TableInv'
  BY <1>1, ReadOnly
<1>3. faults' \in 0..MaxFaults /\ 0 \in 0..(MaxSteps - 1)
  BY <1>1, BoundsAssumption DEF IInv, TypeOK, Fault
<1>4. TypeOK'
  BY <1>1, <1>2, <1>3 DEF IInv, TypeOK, ForgetPass, NoSnapshot
<1>. QED
  BY <1>1, <1>2, <1>4, PassOver DEF ForgetPass

LEMMA ListStep ==
  ASSUME IInv, List
  PROVE  IInv'
<1>1. StorageTypeOK' /\ ProviderTypeOK' /\ TableInv' /\ Frame
  BY ReadOnly DEF List
<1>2. ASSUME NEW c \in ClaimIds
      PROVE  /\ snap'[c] \in Snapshots \cup {Null}
             /\ snap'[c] # Null =>
                  claims[c] # Null /\ snap'[c].rec = claims[c] /\ snap'[c].host = HostOf(c)
  <2>1. HostOf(c) \in HostIds \cup {Null}
    BY HostOfFacts
  <2>. QED
    BY <2>1 DEF List, IInv, TypeOK, StorageTypeOK, Snapshots
<1>3. TypeOK'
  <2>1. snap' \in [ClaimIds -> Snapshots \cup {Null}]
    BY <1>2 DEF List
  <2>. QED
    BY <1>1, <2>1 DEF List, IInv, TypeOK, StorageCalls
<1>4. SnapInv'
  <2> SUFFICES ASSUME NEW c \in ClaimIds, snap'[c] # Null
               PROVE  /\ claims'[c] # Null
                      /\ snap'[c].rec.deleting =>
                           claims'[c].deleting /\ snap'[c].rec.ready \in Releasing
                      /\ IF snap'[c].host = Null THEN HostRowsOf(c)' = {}
                                                 ELSE HostRowsOf(c)' = {snap'[c].host}
    BY DEF SnapInv
  <2>1. claims[c] # Null /\ snap'[c].rec = claims[c] /\ snap'[c].host = HostOf(c)
    BY <1>2
  <2>2. claims' = claims /\ HostRowsOf(c)' = HostRowsOf(c)
    BY DEF List, storageVars, HostRowsOf
  <2>3. \A g, h \in HostRowsOf(c) : g = h
    BY DEF IInv, TableInv, HostRowsOf
  <2>4. IF HostOf(c) = Null THEN HostRowsOf(c) = {} ELSE HostRowsOf(c) = {HostOf(c)}
    BY <2>3, HostOfFacts
  <2>. QED
    BY <2>1, <2>2, <2>4 DEF IInv, TableInv
<1>5. MemoryInv' /\ CallInv'
  BY DEF List, MemoryInv, CallInv, Working, WithHost
<1>. QED
  BY <1>1, <1>3, <1>4, <1>5 DEF IInv

-----------------------------------------------------------------------------
(* Within a claim.                                                         *)

\* A step inside the pass that writes nothing and keeps the listing.
LEMMA Within ==
  ASSUME IInv, UNCHANGED <<storageVars, resources, drifts>>, faults' \in 0..MaxFaults,
         NEW call \in Working, Goto(call), cid' \in ClaimIds, claim' \in ClaimRecords,
         host' \in HostRecords \cup {Null}, after' = after,
         MemoryInv', CallInv'
  PROVE  IInv'
<1>1. StorageTypeOK' /\ ProviderTypeOK' /\ TableInv' /\ Frame
  BY ReadOnly
<1>2. TypeOK'
  BY <1>1 DEF IInv, TypeOK, Goto, Working, StorageCalls, ProviderCalls
<1>3. SnapInv'
  BY <1>1, SnapFrame DEF IInv, Goto
<1>. QED
  BY <1>1, <1>2, <1>3 DEF IInv

LEMMA VisitUnassignedStep ==
  ASSUME IInv, NEW c \in ClaimIds, VisitUnassigned(c)
  PROVE  IInv'
<1>1. CASE snap[c].rec.deleting \/ IsDue(snap[c].rec.retry)
  <2> DEFINE call == IF snap[c].rec.deleting THEN "finalize" ELSE "select_plan"
  <2>1. /\ Goto(call) /\ cid' = c /\ claim' = snap[c].rec /\ UNCHANGED <<host, after>>
        /\ UNCHANGED <<storageVars, resources, faults, drifts>>
    BY <1>1 DEF VisitUnassigned
  <2>2. snap[c] # Null /\ snap[c] \in Snapshots /\ snap[c].host = Null
    BY DEF VisitUnassigned, Visiting, IInv, TypeOK
  <2>3. claim' \in ClaimRecords /\ claim'.deleting \in BOOLEAN
    BY <2>1, <2>2 DEF Snapshots, ClaimRecords
  <2>4. /\ pc' = call /\ snap' = snap /\ call \in {"finalize", "select_plan"}
        /\ call = "finalize" <=> snap[c].rec.deleting
    BY <2>1 DEF Goto
  <2> HIDE DEF call
  <2>5. MemoryInv'
    BY <2>1, <2>2, <2>3, <2>4 DEF MemoryInv, IInv, SnapInv, Working, WithHost
  <2>6. CallInv'
    <3>1. HostRowsOf(c)' = {}
      BY <2>1, <2>2 DEF IInv, SnapInv, HostRowsOf, storageVars
    <3>. QED
      BY <2>1, <2>4, <3>1 DEF CallInv
  <2>. QED
    BY <2>1, <2>2, <2>3, <2>4, <2>5, <2>6, Within DEF IInv, TypeOK, Working
<1>2. CASE ~(snap[c].rec.deleting \/ IsDue(snap[c].rec.retry))
  <2>1. NextClaim(c, FALSE) /\ UNCHANGED <<storageVars, resources, faults, drifts>>
    BY <1>2 DEF VisitUnassigned
  <2>. QED
    BY <2>1, ReadOnly, ClaimOver DEF IInv, TypeOK
<1>. QED
  BY <1>1, <1>2

LEMMA VisitAssignedStep ==
  ASSUME IInv, NEW c \in ClaimIds, VisitAssigned(c)
  PROVE  IInv'
<1> DEFINE row == hosts[snap[c].host]
<1>1. CASE IsDue(row.retry) /\ (snap[c].rec.deleting \/ row.phase # "Failed")
  <2>1. /\ Goto("observe") /\ cid' = c /\ claim' = snap[c].rec /\ host' = row /\ UNCHANGED after
        /\ UNCHANGED <<storageVars, resources, faults, drifts>>
    BY <1>1 DEF VisitAssigned
  <2>2. /\ snap[c] # Null /\ snap[c] \in Snapshots /\ snap[c].host # Null
        /\ snap[c].rec \in ClaimRecords /\ snap[c].host \in HostIds
    BY DEF VisitAssigned, Visiting, IInv, TypeOK, Snapshots
  <2>3. row \in HostRecords
    BY <2>2 DEF VisitAssigned, IInv, TypeOK, StorageTypeOK
  <2>4. pc' = "observe" /\ snap' = snap /\ hosts' = hosts
    BY <2>1 DEF Goto, storageVars
  <2>5. MemoryInv' /\ CallInv'
    BY <2>1, <2>2, <2>3, <2>4 DEF MemoryInv, CallInv, IInv, SnapInv, Working, WithHost
  <2>. QED
    BY <2>1, <2>2, <2>3, <2>5, Within DEF IInv, TypeOK, Working
<1>2. CASE ~(IsDue(row.retry) /\ (snap[c].rec.deleting \/ row.phase # "Failed"))
  <2>1. NextClaim(c, FALSE) /\ UNCHANGED <<storageVars, resources, faults, drifts>>
    BY <1>2 DEF VisitAssigned
  <2>. QED
    BY <2>1, ReadOnly, ClaimOver DEF IInv, TypeOK
<1>. QED
  BY <1>1, <1>2

LEMMA SelectPlanStep ==
  ASSUME IInv, SelectPlan \/ \E error \in ProviderErrors : SelectPlanFails(error)
  PROVE  IInv'
<1>1. /\ pc = "select_plan" /\ cid \in ClaimIds /\ snap[cid] # Null /\ snap[cid].host = Null
      /\ claim \in ClaimRecords /\ ~claim.deleting /\ claim.deleting = snap[cid].rec.deleting
      /\ host \in HostRecords \cup {Null}
  BY DEF SelectPlan, SelectPlanFails, IInv, MemoryInv, TypeOK, Working
<1>2. UNCHANGED <<storageVars, resources, drifts>> /\ faults' \in 0..MaxFaults
  <2>1. UNCHANGED <<storageVars, resources, drifts>> /\ (faults' = faults \/ Fault)
    BY DEF SelectPlan, SelectPlanFails
  <2>. QED
    BY <2>1, FaultCounted
<1>3. ASSUME NEW record \in ClaimRecords, record.deleting = claim.deleting,
             Goto("persist"), claim' = record, UNCHANGED <<cid, host, after>>
      PROVE  IInv'
  <2>1. pc' = "persist" /\ snap' = snap
    BY <1>3 DEF Goto
  <2>2. MemoryInv' /\ CallInv'
    BY <1>1, <1>3, <2>1 DEF MemoryInv, CallInv, Working, WithHost
  <2>. QED
    BY <1>1, <1>2, <1>3, <2>2, Within DEF Working
<1>4. CASE SelectPlan
  <2>1. CASE select_plan(claim.spec) # Null
    <3>1. Goto("ensure_host") /\ UNCHANGED <<cid, claim, host, after>>
      BY <1>4, <2>1 DEF SelectPlan
    <3>2. pc' = "ensure_host" /\ snap' = snap
      BY <3>1 DEF Goto
    <3>3. MemoryInv' /\ CallInv'
      BY <1>1, <2>1, <3>1, <3>2 DEF MemoryInv, CallInv, Working, WithHost, select_plan
    <3>. QED
      BY <1>1, <1>2, <3>1, <3>3, Within DEF Working
  <2>2. CASE /\ select_plan(claim.spec) = Null
             /\ Unsatisfied(claim) # [claim EXCEPT !.retry = NoRetry]
    BY <1>1, <1>3, <1>4, <2>2, UnsatisfiedTypes DEF SelectPlan
  <2>3. CASE /\ select_plan(claim.spec) = Null
             /\ Unsatisfied(claim) = [claim EXCEPT !.retry = NoRetry]
    <3>1. NextClaim(cid, FALSE)
      BY <1>4, <2>3 DEF SelectPlan
    <3>. QED
      BY <1>1, <1>2, <3>1, ReadOnly, ClaimOver
  <2>. QED
    BY <2>1, <2>2, <2>3
<1>5. CASE \E error \in ProviderErrors : SelectPlanFails(error)
  <2>1. PICK error \in ProviderErrors : SelectPlanFails(error)
    BY <1>5
  <2>. QED
    BY <1>1, <1>3, <2>1, ClaimErrorTypes DEF SelectPlanFails
<1>. QED
  BY <1>4, <1>5

LEMMA EnsureHostStep ==
  ASSUME IInv, EnsureHost
  PROVE  IInv'
<1>1. /\ cid \in ClaimIds /\ claim \in ClaimRecords
      /\ StorageTypeOK /\ ProviderTypeOK /\ TableInv
  BY DEF EnsureHost, IInv, MemoryInv, Working, TypeOK
<1> DEFINE plan == select_plan(claim.spec)
<1>2. plan \in Plans
  BY <1>1, PlanForAssumption DEF EnsureHost, IInv, MemoryInv, select_plan, ClaimRecords
<1>3. /\ ensure_host(cid, plan, HostIdsInUse)
      /\ UNCHANGED <<resources, faults, drifts>>
  BY DEF EnsureHost
<1> HIDE DEF plan
<1>4. /\ StorageTypeOK' /\ ProviderTypeOK'
      /\ \A d \in ClaimIds : /\ claims'[d] = Null <=> claims[d] = Null
                             /\ claims[d] # Null => claims'[d].deleting = claims[d].deleting
                             /\ claims'[d] = claims[d] \/ ~claims[d].deleting
      /\ \/ hosts' = hosts
         \/ /\ claims[cid] # Null /\ HostRowsOf(cid) = {}
            /\ \E h \in HostIds \ HostIdsInUse :
                 hosts' = [hosts EXCEPT ![h] = InitialHost(cid, plan)]
  BY <1>1, <1>2, <1>3, EnsureHostFacts DEF ProviderTypeOK
<1>5. TableInv'
  <2>1. \A c \in ClaimIds : claims'[c] # Null /\ claims'[c].deleting
                              => claims'[c].ready \in Releasing
    BY <1>1, <1>4 DEF TableInv
  <2>2. CASE hosts' = hosts
    <3>1. \A h \in HostIds : hosts[h] # Null => hosts[h].claim \in ClaimIds
      BY <1>1 DEF StorageTypeOK, HostRecords
    <3>. QED
      BY <1>1, <1>3, <1>4, <2>1, <2>2, <3>1 DEF TableInv
  <2>3. CASE hosts' # hosts
    <3>1. PICK h \in HostIds \ HostIdsInUse :
             hosts' = [hosts EXCEPT ![h] = InitialHost(cid, plan)]
      BY <1>4, <2>3
    <3>2. hosts[h] = Null /\ resources[h] = Null
      BY <3>1 DEF HostIdsInUse
    <3>3. hosts'[h].claim = cid /\ \A g \in HostIds \ {h} : hosts'[g] = hosts[g]
      BY <1>1, <1>2, <3>1, InitialTypes DEF StorageTypeOK
    <3>4. \A g \in HostIds : hosts[g] # Null => hosts[g].claim \in ClaimIds
                                                  /\ hosts[g].claim # cid
      BY <1>1, <1>4, <2>3 DEF StorageTypeOK, HostRecords, HostRowsOf
    <3>5. claims'[cid] # Null
      BY <1>1, <1>4, <2>3
    <3>. QED
      BY <1>1, <1>3, <1>4, <2>1, <3>2, <3>3, <3>4, <3>5 DEF TableInv
  <2>. QED
    BY <2>2, <2>3
<1>6. CASE Assignable(cid)
  <2>1. Progress(FALSE)
    BY <1>6 DEF EnsureHost
  <2>. QED
    BY <1>3, <1>4, <1>5, <2>1, ProgressOver
<1>7. CASE ~Assignable(cid)
  <2>1. NextClaim(cid, TRUE)
    BY <1>7 DEF EnsureHost
  <2>2. Frame
    BY <1>3, <1>7 DEF ensure_host, Frame, HostRowsOf
  <2>. QED
    BY <1>1, <1>3, <1>4, <1>5, <2>1, <2>2, ClaimOver DEF IInv, TypeOK
<1>. QED
  BY <1>6, <1>7

-----------------------------------------------------------------------------
(* The calls about a Host.                                                 *)

LEMMA AtHost ==
  ASSUME IInv, pc \in WithHost
  PROVE  /\ cid \in ClaimIds /\ hid = snap[cid].host /\ hid \in HostIds
         /\ claim \in ClaimRecords /\ host \in HostRecords
         /\ claims[cid] # Null /\ hosts[hid] # Null /\ HostRowsOf(cid) = {hid}
         /\ claim.deleting => claims[cid].deleting /\ claim.ready \in Releasing
<1>1. /\ cid \in ClaimIds /\ snap[cid] # Null /\ claim \in ClaimRecords
      /\ claim.deleting = snap[cid].rec.deleting
      /\ claim.deleting => claim.ready \in Releasing
      /\ hid = snap[cid].host /\ hid \in HostIds /\ host \in HostRecords
  BY DEF IInv, MemoryInv, Working, WithHost, hid
<1>2. hid # Null
  BY <1>1, NullAssumption
<1>3. claims[cid] # Null /\ HostRowsOf(cid) = {hid} /\ (claim.deleting => claims[cid].deleting)
  BY <1>1, <1>2 DEF IInv, SnapInv
<1>. QED
  BY <1>1, <1>3 DEF HostRowsOf

\* A conflict or an error while the claim lives, or its counterpart while it goes.
LEMMA ObserveSteps ==
  ASSUME IInv,
         \/ \E deleting \in BOOLEAN : ObserveConflict(deleting)
         \/ ObserveLivePresent \/ ObserveLiveAbsent \/ ObserveDeletingPresent
         \/ \E error \in ProviderErrors, deleting \in BOOLEAN : ObserveFails(deleting, error)
  PROVE  IInv'
<1>1. /\ pc = "observe" /\ UNCHANGED <<storageVars, resources, drifts>>
      /\ faults' = faults \/ Fault
  BY DEF ObserveConflict, ObserveLivePresent, ObserveLiveAbsent, ObserveDeletingPresent,
     ObserveFails, Observed
<1>2. pc \in WithHost
  BY <1>1 DEF WithHost
<1>3. StorageTypeOK' /\ ProviderTypeOK' /\ TableInv' /\ Frame
  BY <1>1, ReadOnly
<1>4. /\ host.phase = hosts[hid].phase /\ resources' = resources
      /\ resources[hid] # Null => resources[hid] \in ResourceRecords /\ host.phase # "Pending"
  BY <1>1, <1>2, AtHost DEF IInv, TypeOK, TableInv, CallInv, ProviderTypeOK
<1>5. ASSUME NEW pair,
             NEW next \in {"create", "delete", "persist", "persist_idle", "progress"},
             SaveThen(pair, next), PairOK(pair, claim),
             claim.deleting => pair.claim.ready \in Releasing,
             pair.host.phase = "Pending" =>
               resources[hid] = Null /\ next \notin {"create", "delete"},
             next = "create" => resources[hid] = Null /\ pair.host.rid = Null /\ ~claim.deleting
      PROVE  IInv'
  BY <1>1, <1>2, <1>3, <1>4, <1>5, AtHost, FaultCounted, SaveThenOver
<1>6. ASSUME NEW deleting \in BOOLEAN, ObserveConflict(deleting)
      PROVE  IInv'
  <2> DEFINE failed == mark_host_failed(claim, host, "ProviderOwnershipConflict")
             frozen == [failed EXCEPT !.host.retry.next = "never"]
  <2>1. /\ PairOK(failed, claim) /\ failed.host.phase = "Failed"
        /\ failed.claim.ready = "ProviderOwnershipConflict"
    BY <1>2, AtHost, FailedTypes DEF Errors
  <2>2. /\ PairOK(frozen, claim) /\ frozen.host.phase = "Failed"
        /\ frozen.claim.ready = "ProviderOwnershipConflict"
    <3>1. failed = [host |-> failed.host, claim |-> failed.claim]
      BY DEF mark_host_failed
    <3>2. /\ frozen.claim = failed.claim
          /\ frozen.host = [failed.host EXCEPT !.retry = [failed.host.retry EXCEPT !.next = "never"]]
      BY <3>1
    <3>3. failed.host \in HostRecords
      BY <2>1 DEF PairOK
    <3> HIDE DEF failed, frozen
    <3>4. frozen.host \in HostRecords /\ frozen.host.phase = failed.host.phase
      BY <3>2, <3>3 DEF HostRecords, RetryStates
    <3>. QED
      BY <2>1, <3>2, <3>4 DEF PairOK
  <2>3. SaveThen(failed, "persist") \/ SaveThen(frozen, "persist")
    BY <1>6 DEF ObserveConflict
  <2> HIDE DEF failed, frozen
  <2>. QED
    BY <1>5, <2>1, <2>2, <2>3 DEF Releasing
<1>7. CASE ObserveLivePresent
  <2> DEFINE pair == apply_provider_observation(claim, host, resources[hid])
             next == IF provider_observation_is_stable(host, resources[hid])
                     THEN "persist_idle" ELSE "persist"
  <2>1. SaveThen(pair, next) /\ resources[hid] # Null /\ ~claim.deleting
    BY <1>7 DEF ObserveLivePresent, Observed, observe
  <2>2. PairOK(pair, claim) /\ pair.host.phase # "Pending"
    BY <1>2, <1>4, <2>1, AtHost, ObservationTypes
  <2>3. next \in {"persist", "persist_idle"}
    OBVIOUS
  <2> HIDE DEF pair, next
  <2>. QED
    BY <1>5, <2>1, <2>2, <2>3
<1>8. CASE ObserveLiveAbsent
  <2>1. resources[hid] = Null /\ ~claim.deleting
    BY <1>8 DEF ObserveLiveAbsent, Observed, observe
  <2>2. CASE host.rid # Null \/ host.phase # "Pending"
    <3>1. SaveThen(mark_provider_absent(claim, host), "persist")
      BY <1>8, <2>2 DEF ObserveLiveAbsent
    <3>. QED
      BY <1>2, <1>5, <2>1, <3>1, AtHost, AbsentTypes
  <2>3. CASE ~(host.rid # Null \/ host.phase # "Pending")
    <3> DEFINE pair == [claim |-> claim,
                        host |-> [host EXCEPT !.phase = "Provisioning", !.retry = NoRetry]]
    <3>1. SaveThen(pair, "create")
      BY <1>8, <2>3 DEF ObserveLiveAbsent
    <3>2. PairOK(pair, claim) /\ pair.host.phase = "Provisioning" /\ pair.host.rid = Null
      BY <1>2, <2>3, AtHost, RetryTypes DEF PairOK, HostRecords, Phases
    <3> HIDE DEF pair
    <3>. QED
      BY <1>5, <2>1, <3>1, <3>2
  <2>. QED
    BY <2>2, <2>3
<1>9. CASE ObserveDeletingPresent
  <2> DEFINE pair == [claim |-> claim,
                      host |-> [host EXCEPT !.phase = "Deleting", !.rid = resources[hid].id,
                                            !.retry = NoRetry]]
  <2>1. SaveThen(pair, "delete") /\ resources[hid] # Null
    BY <1>9 DEF ObserveDeletingPresent, observe
  <2>2. resources[hid].id \in ResourceIds
    BY <1>4, <2>1 DEF ResourceRecords
  <2>3. PairOK(pair, claim) /\ pair.host.phase = "Deleting" /\ pair.claim = claim
    BY <1>2, <2>2, AtHost, RetryTypes DEF PairOK, HostRecords, Phases
  <2> HIDE DEF pair
  <2>. QED
    BY <1>2, <1>5, <2>1, <2>3, AtHost
<1>10. ASSUME NEW error \in ProviderErrors, NEW deleting \in BOOLEAN, ObserveFails(deleting, error)
       PROVE  IInv'
  <2>1. claim.deleting = deleting
    BY <1>10 DEF ObserveFails, Observed
  <2>2. CASE deleting
    <3> DEFINE pair == [claim |-> claim, host |-> schedule_host_retry_only(host, error)]
    <3>1. SaveThen(pair, "progress")
      BY <1>10, <2>2 DEF ObserveFails
    <3>2. PairOK(pair, claim) /\ pair.host.phase = host.phase /\ pair.claim = claim
      BY <1>2, AtHost, RetryOnlyTypes DEF PairOK
    <3> HIDE DEF pair
    <3>. QED
      BY <1>2, <1>4, <1>5, <3>1, <3>2, AtHost
  <2>3. CASE ~deleting
    <3> DEFINE pair == schedule_host_provider_error(claim, host, error)
    <3>1. SaveThen(pair, "persist")
      BY <1>10, <2>3 DEF ObserveFails
    <3>2. PairOK(pair, claim) /\ (pair.host.phase = "Pending" => host.phase = "Pending")
      BY <1>2, AtHost, HostErrorTypes
    <3> HIDE DEF pair
    <3>. QED
      BY <1>4, <1>5, <2>1, <2>3, <3>1, <3>2
  <2>. QED
    BY <2>2, <2>3
<1>. QED
  BY <1>6, <1>7, <1>8, <1>9, <1>10

LEMMA ObserveDeletingAbsentStep ==
  ASSUME IInv, ObserveDeletingAbsent
  PROVE  IInv'
<1>1. /\ pc = "observe" /\ claim.deleting /\ resources[hid] = Null
      /\ UNCHANGED <<storageVars, resources, drifts>>
      /\ Goto("finalize") /\ host' = Null /\ UNCHANGED <<cid, claim, after, faults>>
  BY DEF ObserveDeletingAbsent, Observed, observe
<1>2. pc \in WithHost /\ pc' = "finalize" /\ snap' = snap
  BY <1>1 DEF WithHost, Goto
<1>3. MemoryInv'
  BY <1>1, <1>2 DEF IInv, MemoryInv, Working, WithHost
<1>4. HostRowsOf(cid)' = {hid}
  BY <1>1, <1>2, AtHost DEF HostRowsOf, storageVars
<1>5. CallInv'
  BY <1>1, <1>2, <1>4 DEF CallInv
<1>. QED
  BY <1>1, <1>2, <1>3, <1>5, AtHost, FaultCounted, Within DEF Working

LEMMA SaveHostStep ==
  ASSUME IInv, SaveHost
  PROVE  IInv'
<1>1. /\ pc = "save_host" /\ save_host(hid, host) /\ UNCHANGED <<resources, faults, drifts>>
      /\ pc \in WithHost
  BY DEF SaveHost, WithHost
<1>2. /\ cid \in ClaimIds /\ hid = snap[cid].host /\ hid \in HostIds
      /\ claim \in ClaimRecords /\ host \in HostRecords
  BY <1>1, AtHost
<1>3. /\ StorageTypeOK' /\ claims' = claims
      /\ hosts'[hid].phase = host.phase /\ hosts'[hid].rid = host.rid
      /\ \A g \in HostIds : /\ hosts'[g] = Null <=> hosts[g] = Null
                            /\ hosts[g] # Null => hosts'[g].claim = hosts[g].claim
                            /\ g # hid => hosts'[g] = hosts[g]
  BY <1>1, <1>2, SaveHostFacts DEF IInv, TypeOK
<1>4. ProviderTypeOK' /\ Frame
  BY <1>1, <1>3 DEF IInv, TypeOK, ProviderTypeOK, Frame, HostRowsOf
<1>5. host.phase = "Pending" => resources[hid] = Null
  BY <1>1, <1>2 DEF IInv, CallInv
<1>6. TableInv'
  BY <1>1, <1>3, <1>5 DEF IInv, TableInv
<1>7. CASE after = "progress"
  <2>1. Progress(FALSE)
    BY <1>7 DEF SaveHost
  <2>. QED
    BY <1>1, <1>3, <1>4, <1>6, <2>1, ProgressOver
<1>8. CASE after # "progress"
  <2>1. /\ pc' = after /\ after' = "none" /\ UNCHANGED <<steps, notified, snap, cid, claim, host>>
        /\ after \in {"create", "delete", "persist", "persist_idle"}
    BY <1>1, <1>8 DEF SaveHost, Goto, IInv, TypeOK, MemoryInv
  <2>2. TypeOK'
    BY <1>1, <1>3, <1>4, <2>1 DEF IInv, TypeOK, StorageCalls, ProviderCalls
  <2>3. SnapInv'
    BY <1>4, <2>1, SnapFrame DEF IInv
  <2>4. MemoryInv'
    BY <1>1, <2>1 DEF IInv, MemoryInv, Working, WithHost
  <2>5. CallInv'
    BY <1>1, <1>2, <1>3, <2>1 DEF IInv, CallInv
  <2>. QED
    BY <1>6, <2>2, <2>3, <2>4, <2>5 DEF IInv
<1>. QED
  BY <1>7, <1>8

LEMMA CreateSteps ==
  ASSUME IInv,
         Create \/ CreateResponseLost \/ \E error \in ProviderErrors : CreateFails(error)
  PROVE  IInv'
<1>1. /\ pc = "create" /\ pc \in WithHost /\ UNCHANGED <<storageVars, drifts>>
      /\ faults' = faults \/ Fault
  BY DEF Create, CreateResponseLost, CreateFails, WithHost
<1>2. /\ cid \in ClaimIds /\ hid = snap[cid].host /\ hid \in HostIds
      /\ claim \in ClaimRecords /\ host \in HostRecords /\ hosts[hid] # Null
  BY <1>1, AtHost
<1>3. ~claim.deleting /\ host.phase # "Pending" /\ hosts[hid].phase # "Pending"
  BY <1>1, <1>2 DEF IInv, MemoryInv, CallInv
<1>4. ASSUME NEW pair, SaveThen(pair, "persist"), PairOK(pair, claim),
             pair.host.phase # "Pending", ProviderTypeOK', StorageTypeOK', TableInv', Frame
      PROVE  IInv'
  BY <1>1, <1>2, <1>3, <1>4, FaultCounted, SaveThenOver
<1>5. ASSUME create(hid, host.plan, ResourceIdsInUse)
      PROVE  /\ resources'[hid] \in ResourceRecords
             /\ ProviderTypeOK' /\ StorageTypeOK' /\ TableInv' /\ Frame
  <2>1. host.plan \in Plans
    BY <1>2 DEF HostRecords
  <2>2. /\ ProviderTypeOK' /\ resources'[hid] \in ResourceRecords
        /\ \A g \in HostIds \ {hid} : resources'[g] = resources[g]
    BY <1>2, <1>5, <2>1, CreateFacts DEF IInv, TypeOK
  <2>3. StorageTypeOK' /\ Frame
    BY <1>1 DEF IInv, TypeOK, storageVars, StorageTypeOK, Frame, HostRowsOf
  <2>4. TableInv'
    BY <1>1, <1>2, <1>3, <2>2 DEF IInv, TableInv, storageVars
  <2>. QED
    BY <2>2, <2>3, <2>4
<1>6. CASE Create
  <2> DEFINE pair == apply_provider_observation(claim, host, resources'[hid])
  <2>1. create(hid, host.plan, ResourceIdsInUse) /\ SaveThen(pair, "persist")
    BY <1>6 DEF Create
  <2>2. PairOK(pair, claim) /\ pair.host.phase # "Pending"
    BY <1>2, <1>5, <2>1, ObservationTypes
  <2> HIDE DEF pair
  <2>. QED
    BY <1>4, <1>5, <2>1, <2>2
<1>7. CASE CreateResponseLost
  <2> DEFINE pair == mark_outcome_unknown(claim, host, "CreateOutcomeUnknown")
  <2>1. create(hid, host.plan, ResourceIdsInUse) /\ SaveThen(pair, "persist")
    BY <1>7 DEF CreateResponseLost
  <2>2. PairOK(pair, claim) /\ pair.host.phase # "Pending"
    BY <1>2, UnknownTypes DEF Errors
  <2> HIDE DEF pair
  <2>. QED
    BY <1>4, <1>5, <2>1, <2>2
<1>8. ASSUME NEW error \in ProviderErrors, CreateFails(error)
      PROVE  IInv'
  <2> DEFINE pair == schedule_host_provider_error(claim, host, error)
  <2>1. SaveThen(pair, "persist") /\ UNCHANGED resources
    BY <1>8 DEF CreateFails
  <2>2. PairOK(pair, claim) /\ (pair.host.phase = "Pending" => host.phase = "Pending")
    BY <1>2, HostErrorTypes
  <2> HIDE DEF pair
  <2>. QED
    BY <1>1, <1>3, <1>4, <2>1, <2>2, ReadOnly
<1>. QED
  BY <1>6, <1>7, <1>8

LEMMA DeleteSteps ==
  ASSUME IInv,
         Delete \/ DeleteResponseLost \/ \E error \in ProviderErrors : DeleteFails(error)
  PROVE  IInv'
<1>1. /\ pc = "delete" /\ pc \in WithHost /\ UNCHANGED <<storageVars, drifts>>
      /\ faults' = faults \/ Fault
  BY DEF Delete, DeleteResponseLost, DeleteFails, WithHost
<1>2. /\ cid \in ClaimIds /\ hid = snap[cid].host /\ hid \in HostIds
      /\ claim \in ClaimRecords /\ host \in HostRecords
      /\ claim.deleting => claim.ready \in Releasing
  BY <1>1, AtHost
<1>3. host.phase # "Pending"
  BY <1>1 DEF IInv, CallInv
<1>4. StorageTypeOK' /\ Frame
  BY <1>1 DEF IInv, TypeOK, storageVars, StorageTypeOK, Frame, HostRowsOf
<1>5. ProviderTypeOK' /\ TableInv'
  <2>1. delete(hid) \/ UNCHANGED resources
    BY DEF Delete, DeleteResponseLost, DeleteFails
  <2>. QED
    BY <1>1, <1>2, <2>1 DEF delete, IInv, TypeOK, ProviderTypeOK, TableInv, storageVars
<1>6. ASSUME NEW row \in HostRecords, row.phase = host.phase,
             SaveThen([claim |-> claim, host |-> row], "progress")
      PROVE  IInv'
  <2> DEFINE pair == [claim |-> claim, host |-> row]
  <2>1. PairOK(pair, claim) /\ pair.claim = claim /\ pair.host = row
    BY <1>2 DEF PairOK
  <2>2. SaveThen(pair, "progress")
    BY <1>6
  <2> HIDE DEF pair
  <2>. QED
    BY <1>1, <1>2, <1>3, <1>4, <1>5, <1>6, <2>1, <2>2, FaultCounted, SaveThenOver
<1>7. CASE Delete
  <2>1. /\ [host EXCEPT !.retry = NoRetry] \in HostRecords
        /\ [host EXCEPT !.retry = NoRetry].phase = host.phase
    BY <1>2, RetryTypes DEF HostRecords
  <2>. QED
    BY <1>6, <1>7, <2>1 DEF Delete
<1>8. CASE DeleteResponseLost
  <2> DEFINE row == [host EXCEPT !.retry.next = "later", !.retry.error = "DeleteOutcomeUnknown"]
  <2>1. row \in HostRecords /\ row.phase = host.phase
    BY <1>2 DEF HostRecords, RetryStates, Errors
  <2>2. SaveThen([claim |-> claim, host |-> row], "progress")
    BY <1>8 DEF DeleteResponseLost
  <2> HIDE DEF row
  <2>. QED
    BY <1>6, <2>1, <2>2
<1>9. ASSUME NEW error \in ProviderErrors, DeleteFails(error)
      PROVE  IInv'
  BY <1>2, <1>6, <1>9, RetryOnlyTypes DEF DeleteFails
<1>. QED
  BY <1>7, <1>8, <1>9

LEMMA PersistStep ==
  ASSUME IInv, Persist
  PROVE  IInv'
<1>1. /\ pc \in {"persist", "persist_idle"} /\ save_claim_status(cid, claim)
      /\ UNCHANGED <<resources, faults, drifts>>
  BY DEF Persist
<1>2. /\ cid \in ClaimIds /\ claim \in ClaimRecords
      /\ claim.deleting => claim.ready \in Releasing
      /\ StorageTypeOK /\ ProviderTypeOK /\ TableInv
  BY <1>1 DEF IInv, MemoryInv, Working, TypeOK
<1>3. /\ StorageTypeOK' /\ hosts' = hosts
      /\ \A d \in ClaimIds :
           /\ claims'[d] = Null <=> claims[d] = Null
           /\ claims[d] # Null => claims'[d].deleting = claims[d].deleting
           /\ \/ claims'[d] = claims[d]
              \/ claims'[d].ready = claim.ready /\ claim.deleting = claims[d].deleting
  BY <1>1, <1>2, SaveStatusFacts
<1>4. ProviderTypeOK' /\ Frame
  BY <1>1, <1>2, <1>3 DEF ProviderTypeOK, Frame, HostRowsOf
<1>5. TableInv'
  <2>1. \A h \in HostIds : hosts[h] # Null => hosts[h].claim \in ClaimIds
    BY <1>2 DEF StorageTypeOK, HostRecords
  <2>2. \A d \in ClaimIds : claims'[d] # Null /\ claims'[d].deleting
                              => claims'[d].ready \in Releasing
    BY <1>2, <1>3 DEF TableInv
  <2>. QED
    BY <1>1, <1>2, <1>3, <2>1, <2>2 DEF TableInv
<1> DEFINE stale == ~StatusIsCurrent(cid, claim)
<1>6. stale \in BOOLEAN
  OBVIOUS
<1>7. (pc = "persist" /\ Progress(stale)) \/ (pc # "persist" /\ NextClaim(cid, stale))
  BY Zenon DEF Persist
<1> HIDE DEF stale
<1>8. CASE Progress(stale)
  BY <1>1, <1>3, <1>4, <1>5, <1>6, <1>8, ProgressOver
<1>9. CASE NextClaim(cid, stale)
  BY <1>1, <1>2, <1>3, <1>4, <1>5, <1>6, <1>9, ClaimOver DEF IInv, TypeOK
<1>. QED
  BY <1>7, <1>8, <1>9

LEMMA FinalizeStep ==
  ASSUME IInv, Finalize
  PROVE  IInv'
<1>1. /\ pc = "finalize" /\ finalize_claim(cid) /\ Progress(FALSE)
      /\ UNCHANGED <<resources, faults, drifts>>
  BY DEF Finalize
<1>2. /\ cid \in ClaimIds /\ StorageTypeOK /\ ProviderTypeOK /\ TableInv
      /\ \A h \in HostRowsOf(cid) : resources[h] = Null
  BY <1>1 DEF IInv, MemoryInv, CallInv, Working, TypeOK
<1>3. /\ StorageTypeOK'
      /\ \A d \in ClaimIds : claims'[d] = IF d = cid THEN Null ELSE claims[d]
      /\ \A h \in HostIds : hosts'[h] = IF h \in HostRowsOf(cid) THEN Null ELSE hosts[h]
  BY <1>1, <1>2, FinalizeFacts
<1>4. ProviderTypeOK'
  BY <1>1, <1>2 DEF ProviderTypeOK
<1>5. \A h \in HostIds : hosts'[h] # Null =>
        hosts'[h] = hosts[h] /\ hosts[h].claim \in ClaimIds \ {cid}
  BY <1>2, <1>3 DEF HostRowsOf, StorageTypeOK, HostRecords
<1>6. TableInv'
  BY <1>1, <1>2, <1>3, <1>5 DEF TableInv
<1>. QED
  BY <1>1, <1>3, <1>4, <1>6, ProgressOver

-----------------------------------------------------------------------------
(* The steps of the others: RPC handlers, time, and the provider.          *)

LEMMA RpcSteps ==
  ASSUME IInv,
         \/ \E c \in ClaimIds, spec \in Specs : RpcCreate(c, spec)
         \/ \E c \in ClaimIds : RpcDelete(c)
  PROVE  IInv'
<1>1. /\ UNCHANGED <<resources, pc, steps, snap, cid, claim, host, after, faults, drifts>>
      /\ notified' \in BOOLEAN
  <2>1. UNCHANGED <<resources, pc, steps, passVars, faults, drifts>> /\ RpcWake
    BY DEF RpcCreate, RpcDelete
  <2>2. notified' \in BOOLEAN
    BY <2>1, Zenon DEF RpcWake
  <2>. QED
    BY <2>1, <2>2 DEF passVars
<1>2. /\ StorageTypeOK /\ ProviderTypeOK /\ TableInv
      /\ \A h \in HostIds : hosts[h] # Null => hosts[h].claim \in ClaimIds
  BY DEF IInv, TypeOK, StorageTypeOK, HostRecords
<1>3. StorageTypeOK' /\ hosts' = hosts /\ TableInv' /\ Frame
  <2>1. ASSUME NEW c \in ClaimIds, NEW spec \in Specs, RpcCreate(c, spec)
        PROVE  StorageTypeOK' /\ hosts' = hosts /\ TableInv' /\ Frame
    <3>1. create_claim(c, spec)
      BY <2>1 DEF RpcCreate
    <3>2. /\ StorageTypeOK' /\ hosts' = hosts
          /\ \A d \in ClaimIds : claims[d] # Null => claims'[d] = claims[d]
          /\ \A d \in ClaimIds : claims[d] = Null /\ claims'[d] # Null => ~claims'[d].deleting
      BY <1>2, <3>1, CreateClaimFacts
    <3>3. TableInv'
      BY <1>1, <1>2, <3>2 DEF TableInv
    <3>. QED
      BY <3>2, <3>3 DEF Frame, HostRowsOf
  <2>2. ASSUME NEW c \in ClaimIds, RpcDelete(c)
        PROVE  StorageTypeOK' /\ hosts' = hosts /\ TableInv' /\ Frame
    <3>1. mark_claim_deleting(c)
      BY <2>2 DEF RpcDelete
    <3>2. /\ StorageTypeOK' /\ hosts' = hosts
          /\ \A d \in ClaimIds :
               /\ claims'[d] = Null <=> claims[d] = Null
               /\ claims[d] # Null /\ claims[d].deleting => claims'[d] = claims[d]
               /\ \/ claims'[d] = claims[d]
                  \/ claims'[d].deleting /\ claims'[d].ready = "DeletionRequested"
      BY <1>2, <3>1, MarkDeletingFacts
    <3>3. TableInv'
      BY <1>1, <1>2, <3>2 DEF TableInv, Releasing
    <3>. QED
      BY <3>2, <3>3 DEF Frame, HostRowsOf
  <2>. QED
    BY <2>1, <2>2
<1>4. TypeOK'
  BY <1>1, <1>3 DEF IInv, TypeOK, ProviderTypeOK
<1>5. SnapInv'
  BY <1>1, <1>3, SnapFrame DEF IInv
<1>6. MemoryInv'
  BY <1>1 DEF IInv, MemoryInv
<1>7. CallInv'
  BY <1>1, <1>3 DEF IInv, CallInv, HostRowsOf
<1>. QED
  BY <1>3, <1>4, <1>5, <1>6, <1>7 DEF IInv

LEMMA ElapseSteps ==
  ASSUME IInv,
         (\E c \in ClaimIds : ElapseClaim(c)) \/ (\E h \in HostIds : ElapseHost(h))
  PROVE  IInv'
<1>1. /\ BetweenPasses
      /\ UNCHANGED <<resources, pc, steps, notified, snap, cid, claim, host, after, faults, drifts>>
  BY DEF ElapseClaim, ElapseHost, passVars
<1>2. pc' \in {"down", "select", "list"} /\ snap' = NoSnapshot
  BY <1>1 DEF BetweenPasses, IInv, MemoryInv
<1>3. /\ StorageTypeOK /\ ProviderTypeOK /\ TableInv
      /\ \A h \in HostIds : hosts[h] # Null => hosts[h].claim \in ClaimIds
  BY DEF IInv, TypeOK, StorageTypeOK, HostRecords
<1>4. StorageTypeOK' /\ TableInv'
  <2>1. ASSUME NEW c \in ClaimIds, ElapseClaim(c)
        PROVE  StorageTypeOK' /\ TableInv'
    <3>1. hosts' = hosts
      BY <2>1 DEF ElapseClaim
    <3>. QED
      BY <1>1, <1>3, <2>1, <3>1, ElapseClaimFacts DEF TableInv
  <2>2. ASSUME NEW h \in HostIds, ElapseHost(h)
        PROVE  StorageTypeOK' /\ TableInv'
    BY <1>1, <1>3, <2>2, ElapseHostFacts DEF TableInv
  <2>. QED
    BY <2>1, <2>2
<1>5. TypeOK'
  BY <1>1, <1>4 DEF IInv, TypeOK, ProviderTypeOK
<1>. QED
  BY <1>2, <1>4, <1>5, PassOver

LEMMA DriftStep ==
  ASSUME IInv, NEW h \in HostIds, Drift(h)
  PROVE  IInv'
<1>1. /\ UNCHANGED <<claims, hosts, clock, pc, steps, notified, snap, cid, claim, host, after, faults>>
      /\ drifts' \in 0..MaxDrifts
  <2>1. UNCHANGED <<claims, hosts, clock, pc, steps, notified, snap, cid, claim, host, after, faults>>
    BY DEF Drift, storageVars, passVars
  <2>2. drifts' \in 0..MaxDrifts
    BY BoundsAssumption DEF Drift, IInv, TypeOK
  <2>. QED
    BY <2>1, <2>2
<1>2. ProviderTypeOK' /\ \A g \in HostIds : resources[g] = Null => resources'[g] = Null
  BY DriftFacts DEF IInv, TypeOK
<1>3. TypeOK'
  BY <1>1, <1>2 DEF IInv, TypeOK, StorageTypeOK
<1>4. TableInv'
  BY <1>1, <1>2 DEF IInv, TableInv
<1>5. SnapInv' /\ MemoryInv'
  BY <1>1 DEF IInv, SnapInv, MemoryInv, HostRowsOf
<1>6. CallInv'
  <2>1. HostRowsOf(cid)' = HostRowsOf(cid) /\ HostRowsOf(cid) \subseteq HostIds
    BY <1>1 DEF HostRowsOf
  <2>2. pc \in {"save_host", "create"} => snap[cid].host \in HostIds
    BY DEF IInv, MemoryInv, WithHost
  <2>. QED
    BY <1>1, <1>2, <2>1, <2>2 DEF IInv, CallInv
<1>. QED
  BY <1>3, <1>4, <1>5, <1>6 DEF IInv

-----------------------------------------------------------------------------
(* IInv is inductive.                                                      *)

LEMMA InitInv == Init => IInv
<1> SUFFICES ASSUME Init
             PROVE  IInv
  OBVIOUS
<1> USE DEF Init
<1>1. StorageTypeOK /\ ProviderTypeOK
  BY DEF StorageInit, StorageTypeOK, ProviderInit, ProviderTypeOK
<1>2. 0 \in 0..(MaxSteps - 1) /\ 0 \in 0..MaxFaults /\ 0 \in 0..MaxDrifts
  BY BoundsAssumption
<1>3. TypeOK
  BY <1>1, <1>2 DEF TypeOK, NoSnapshot
<1>4. TableInv
  BY DEF TableInv, StorageInit, ProviderInit
<1>5. SnapInv /\ MemoryInv /\ CallInv
  BY DEF SnapInv, MemoryInv, CallInv, NoSnapshot, Working, WithHost
<1>. QED
  BY <1>3, <1>4, <1>5 DEF IInv

LEMMA NextInv == IInv /\ [Next]_vars => IInv'
<1> SUFFICES ASSUME IInv, [Next]_vars
             PROVE  IInv'
  OBVIOUS
<1>1. CASE Reconcile
  <2>1. CASE WakeByNotify \/ WakeByTick \/ PassIdle
    BY <2>1, WakeSteps
  <2>2. CASE List
    BY <2>2, ListStep
  <2>3. CASE \E c \in ClaimIds : VisitUnassigned(c) \/ VisitAssigned(c)
    BY <2>3, VisitUnassignedStep, VisitAssignedStep
  <2>4. CASE SelectPlan \/ \E error \in ProviderErrors : SelectPlanFails(error)
    BY <2>4, SelectPlanStep
  <2>5. CASE EnsureHost
    BY <2>5, EnsureHostStep
  <2>6. CASE \/ \E deleting \in BOOLEAN : ObserveConflict(deleting)
             \/ ObserveLivePresent \/ ObserveLiveAbsent \/ ObserveDeletingPresent
             \/ \E error \in ProviderErrors, deleting \in BOOLEAN : ObserveFails(deleting, error)
    BY <2>6, ObserveSteps
  <2>7. CASE ObserveDeletingAbsent
    BY <2>7, ObserveDeletingAbsentStep
  <2>8. CASE SaveHost
    BY <2>8, SaveHostStep
  <2>9. CASE Create \/ CreateResponseLost \/ \E error \in ProviderErrors : CreateFails(error)
    BY <2>9, CreateSteps
  <2>10. CASE Delete \/ DeleteResponseLost \/ \E error \in ProviderErrors : DeleteFails(error)
    BY <2>10, DeleteSteps
  <2>11. CASE Persist
    BY <2>11, PersistStep
  <2>12. CASE Finalize
    BY <2>12, FinalizeStep
  <2>13. CASE StorageError
    BY <2>13, StopSteps
  <2>. QED
    BY <1>1, <2>1, <2>2, <2>3, <2>4, <2>5, <2>6, <2>7, <2>8, <2>9, <2>10, <2>11, <2>12, <2>13
       DEF Reconcile
<1>2. CASE Crash
  BY <1>2, StopSteps
<1>3. CASE Restart
  BY <1>3, WakeSteps
<1>4. CASE \/ \E c \in ClaimIds, spec \in Specs : RpcCreate(c, spec)
           \/ \E c \in ClaimIds : RpcDelete(c)
  BY <1>4, RpcSteps
<1>5. CASE (\E c \in ClaimIds : ElapseClaim(c)) \/ (\E h \in HostIds : ElapseHost(h))
  BY <1>5, ElapseSteps
<1>6. CASE \E h \in HostIds : Drift(h)
  BY <1>6, DriftStep
<1>7. CASE UNCHANGED vars
  BY <1>7 DEF vars, IInv, TypeOK, StorageTypeOK, ProviderTypeOK, TableInv, SnapInv,
     MemoryInv, CallInv, HostRowsOf
<1>. QED
  BY <1>1, <1>2, <1>3, <1>4, <1>5, <1>6, <1>7 DEF Next

\* In every reachable state the tables, the provider and the memory of the pass
\* agree in the way each call of the controller relies on.
THEOREM Inductive == Spec => []IInv
  BY InitInv, NextInv, PTL DEF Spec

-----------------------------------------------------------------------------
(* The safety invariants.                                                  *)

\* The state keeps its types: in particular a wake never exceeds MAX_STEPS_PER_WAKE
\* reconciliation steps, and every record the controller writes is one the schema
\* admits.
THEOREM TypeCorrect == Spec => []TypeOK
<1>1. IInv => TypeOK
  BY DEF IInv
<1>. QED
  BY <1>1, Inductive, PTL

\* However often responses are lost, writes fail, the daemon dies or claims are
\* deleted while their Host is being created, no provider resource loses the Host
\* row and the claim row by which the Control Plane can find it.
THEOREM ResourcesAreOwned == Spec => []NoOrphanedResource
<1>1. IInv => NoOrphanedResource
  BY DEF IInv, TypeOK, StorageTypeOK, TableInv, NoOrphanedResource
<1>. QED
  BY <1>1, Inductive, PTL

\* save_host has recorded the intent to create before the provider is asked to.
THEOREM IntentIsRecorded == Spec => []IntentPrecedesResource
<1>1. IInv => IntentPrecedesResource
  BY DEF IInv, TableInv, IntentPrecedesResource
<1>. QED
  BY <1>1, Inductive, PTL

\* The controller never calls create for a Host that already owns a resource.
THEOREM CreatesOnce == Spec => []CreateOnlyWhenAbsent
<1>1. IInv => CreateOnlyWhenAbsent
  BY DEF IInv, CallInv, CreateOnlyWhenAbsent, hid
<1>. QED
  BY <1>1, Inductive, PTL

\* Between two calls of a pass no other actor removes or reassigns what the pass has
\* listed, and finalize_claim meets a claim that is being deleted and owns nothing.
THEOREM MemoryIsBacked == Spec => []RowsOutliveMemory
<1>1. IInv => RowsOutliveMemory
  <2> SUFFICES ASSUME IInv
               PROVE  RowsOutliveMemory
    OBVIOUS
  <2>1. pc = "finalize" => claims[cid].deleting /\ \A h \in HostRowsOf(cid) : resources[h] = Null
    BY DEF IInv, SnapInv, MemoryInv, CallInv, Working
  <2>. QED
    BY <2>1 DEF IInv, SnapInv, RowsOutliveMemory
<1>. QED
  BY <1>1, Inductive, PTL

\* No status computed before a deletion was requested is written over the request.
THEOREM DeletionIsKept == Spec => []DeletionIntentKept
<1>1. IInv => DeletionIntentKept
  BY DEF IInv, TableInv, DeletionIntentKept, Releasing
<1>. QED
  BY <1>1, Inductive, PTL
=============================================================================
