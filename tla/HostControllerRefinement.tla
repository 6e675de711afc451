---------------------- MODULE HostControllerRefinement ----------------------
(***************************************************************************)
(* What the steps of HostController may never do, and that it implements   *)
(* HostClaimLifecycle, for every set of claims, hosts, resources and plans *)
(* and for every bound.                                                    *)
(*                                                                         *)
(* IInv does not say why a call is under way.  RInv adds that: a resource  *)
(* is only removed for a claim that is being deleted, a failed Host is     *)
(* only touched for such a claim, and a claim that is about to be written  *)
(* as Ready has a Host row that was written as Ready before.               *)
(* IdentityInv adds, for a provider that others leave alone, that the      *)
(* identities in the rows and in memory are those of the resources.        *)
(***************************************************************************)
EXTENDS HostControllerProofs

\* provider.delete is on its way only for a claim being deleted.
RemovalCall ==
  pc = "delete" \/ (pc = "save_host" /\ after = "delete") => claim.deleting

\* A Host that failed is worked on only for a claim being deleted.
FailedCall ==
  /\ pc \in WithHost /\ ~claim.deleting => hosts[snap[cid].host].phase # "Failed"
  /\ pc = "save_host" /\ after = "create" => host.phase # "Failed"

\* Ready is computed from a Host that is Ready, and written after it.
ReadyCall ==
  /\ pc \in {"select_plan", "ensure_host"} => claim.ready # "HostReady"
  /\ pc = "save_host" /\ after \in {"persist", "persist_idle"} /\ claim.ready = "HostReady"
       => host.phase = "Ready" /\ host.rid # Null
  /\ pc \in {"persist", "persist_idle"} /\ claim.ready = "HostReady"
       => /\ snap[cid].host # Null
          /\ hosts[snap[cid].host].phase = "Ready" /\ hosts[snap[cid].host].rid # Null

\* A claim that says Ready has a Host, in the table and in the listing.
ReadyHasHost ==
  /\ \A c \in ClaimIds : claims[c] # Null /\ claims[c].ready = "HostReady"
                           => HostRowsOf(c) # {}
  /\ \A c \in ClaimIds : snap[c] # Null /\ snap[c].host = Null
                           => snap[c].rec.ready # "HostReady"

RInv == RemovalCall /\ FailedCall /\ ReadyCall /\ ReadyHasHost

-----------------------------------------------------------------------------
(* What the in-memory updates say of a claim that is Ready.                *)

LEMMA ObservedReady ==
  ASSUME NEW c \in ClaimRecords, NEW h \in HostRecords, NEW r \in ResourceRecords
  PROVE  LET pair == apply_provider_observation(c, h, r) IN
         pair.claim.ready = "HostReady" => pair.host.phase = "Ready" /\ pair.host.rid # Null
BY NullAssumption DEF apply_provider_observation, ClaimRecords, HostRecords, ResourceRecords

LEMMA NotReady ==
  ASSUME NEW c \in ClaimRecords, NEW h \in HostRecords, NEW reason \in Errors
  PROVE  /\ mark_provider_absent(c, h).claim.ready # "HostReady"
         /\ mark_outcome_unknown(c, h, reason).claim.ready # "HostReady"
         /\ mark_host_failed(c, h, reason).claim.ready # "HostReady"
BY DEF mark_provider_absent, mark_outcome_unknown, mark_host_failed, ClaimRecords, Errors

LEMMA ErrorNotReady ==
  ASSUME NEW c \in ClaimRecords, NEW h \in HostRecords, NEW error
  PROVE  schedule_host_provider_error(c, h, error).claim.ready # "HostReady"
<1>1. mark_host_failed(c, h, "ProviderRejected").claim.ready # "HostReady"
  BY NotReady DEF Errors
<1>. QED
  BY <1>1 DEF schedule_host_provider_error, ClaimRecords

LEMMA UnboundNotReady ==
  ASSUME NEW c \in ClaimRecords, NEW error
  PROVE  /\ Unsatisfied(c).ready # "HostReady"
         /\ schedule_claim_provider_error(c, error).ready = c.ready
BY DEF Unsatisfied, schedule_claim_provider_error, ClaimRecords

-----------------------------------------------------------------------------
(* RInv over the kinds of steps.                                           *)

\* No claim turns Ready, no claim loses its Host, and nothing is listed.
LEMMA ReadyFrame ==
  ASSUME TypeOK, ReadyHasHost,
         \A c \in ClaimIds : claims'[c] # Null /\ claims'[c].ready = "HostReady"
                               => claims[c] # Null /\ claims[c].ready = "HostReady",
         \A c \in ClaimIds : HostRowsOf(c) # {} => HostRowsOf(c)' # {},
         \A c \in ClaimIds : snap'[c] = snap[c] \/ snap'[c] = Null
  PROVE  ReadyHasHost'
BY DEF ReadyHasHost

LEMMA ReadyReadOnly ==
  ASSUME TypeOK, ReadyHasHost, UNCHANGED <<claims, hosts>>,
         \A c \in ClaimIds : snap'[c] = snap[c] \/ snap'[c] = Null
  PROVE  ReadyHasHost'
<1>1. \A c \in ClaimIds : HostRowsOf(c)' = HostRowsOf(c)
  BY DEF HostRowsOf
<1>. QED
  BY <1>1, ReadyFrame

\* No call about a claim is under way.
LEMMA Aside ==
  ASSUME ReadyHasHost', pc' \notin Working
  PROVE  RInv'
BY DEF RInv, RemovalCall, FailedCall, ReadyCall, Working, WithHost

LEMMA LeavesClaim ==
  ASSUME TypeOK, NEW c, NEW woken, Progress(woken) \/ NextClaim(c, woken)
  PROVE  /\ pc' \notin Working
         /\ \A d \in ClaimIds : snap'[d] = snap[d] \/ snap'[d] = Null
<1>1. CASE Progress(woken)
  <2>1. pc' \in {"select", "list"} /\ snap' = NoSnapshot
    BY <1>1, Zenon DEF Progress, ForgetPass
  <2>. QED
    BY <2>1 DEF NoSnapshot, Working
<1>2. CASE NextClaim(c, woken)
  BY <1>2 DEF NextClaim, Working, TypeOK
<1>. QED
  BY <1>1, <1>2

\* The task goes on with save_host.
LEMMA SaveNext ==
  ASSUME IInv, RInv, pc \in WithHost, UNCHANGED storageVars, NEW pair, NEW next,
         SaveThen(pair, next), PairOK(pair, claim),
         next = "delete" => claim.deleting,
         next = "create" => pair.host.phase # "Failed",
         next \in {"persist", "persist_idle"} /\ pair.claim.ready = "HostReady"
           => pair.host.phase = "Ready" /\ pair.host.rid # Null
  PROVE  RInv'
<1>1. /\ pc' = "save_host" /\ UNCHANGED <<claims, hosts, snap, cid>>
      /\ claim' = pair.claim /\ host' = pair.host /\ after' = next
  BY DEF SaveThen, Goto, storageVars
<1>2. ReadyHasHost'
  BY <1>1, ReadyReadOnly DEF IInv, RInv
<1>3. RemovalCall' /\ FailedCall' /\ ReadyCall'
  BY <1>1 DEF RInv, RemovalCall, FailedCall, ReadyCall, PairOK, WithHost
<1>. QED
  BY <1>2, <1>3 DEF RInv

-----------------------------------------------------------------------------
(* RInv over the steps.                                                    *)

LEMMA RInvOutside ==
  ASSUME IInv, RInv,
         \/ WakeByNotify \/ WakeByTick \/ PassIdle \/ Restart \/ StorageError \/ Crash
  PROVE  RInv'
<1>1. /\ UNCHANGED <<claims, hosts>> /\ pc' \in {"down", "select", "list"}
      /\ snap' = snap \/ snap' = NoSnapshot
  BY DEF WakeByNotify, WakeByTick, PassIdle, Restart, StorageError, Crash, ForgetPass,
     storageVars, passVars
<1>2. \A c \in ClaimIds : snap'[c] = snap[c] \/ snap'[c] = Null
  BY <1>1 DEF NoSnapshot
<1>. QED
  BY <1>1, <1>2, ReadyReadOnly, Aside DEF IInv, RInv, Working

LEMMA RInvList ==
  ASSUME IInv, RInv, List
  PROVE  RInv'
<1>1. UNCHANGED <<claims, hosts>> /\ pc' = "visit"
  BY DEF List, storageVars
<1>2. \A c \in ClaimIds : HostRowsOf(c)' = HostRowsOf(c)
  BY <1>1 DEF HostRowsOf
<1>3. ASSUME NEW c \in ClaimIds, snap'[c] # Null, snap'[c].host = Null
      PROVE  snap'[c].rec.ready # "HostReady"
  <2>1. claims[c] # Null /\ snap'[c] = [rec |-> claims[c], host |-> HostOf(c)]
    BY <1>3 DEF List
  <2>. QED
    BY <1>3, <2>1, HostOfFacts DEF RInv, ReadyHasHost
<1>4. ReadyHasHost'
  BY <1>1, <1>2, <1>3 DEF RInv, ReadyHasHost
<1>. QED
  BY <1>1, <1>4, Aside DEF Working

LEMMA RInvVisit ==
  ASSUME IInv, RInv, NEW c \in ClaimIds, VisitUnassigned(c) \/ VisitAssigned(c)
  PROVE  RInv'
<1>1. /\ UNCHANGED <<claims, hosts>> /\ snap[c] # Null
      /\ snap[c].host = Null => VisitUnassigned(c)
      /\ snap[c].host # Null => VisitAssigned(c)
  BY DEF VisitUnassigned, VisitAssigned, Visiting, storageVars
<1>2. CASE NextClaim(c, FALSE)
  BY <1>1, <1>2, LeavesClaim, ReadyReadOnly, Aside DEF IInv, RInv
<1>3. CASE ~NextClaim(c, FALSE)
  <2>1. snap' = snap /\ cid' = c /\ claim' = snap[c].rec
    BY <1>1, <1>3 DEF VisitUnassigned, VisitAssigned, Goto
  <2>2. ReadyHasHost'
    BY <1>1, <2>1, ReadyReadOnly DEF IInv, RInv
  <2>3. CASE snap[c].host = Null
    <3>1. pc' \in {"finalize", "select_plan"}
      BY <1>1, <1>3, <2>3 DEF VisitUnassigned, Goto
    <3>2. claim'.ready # "HostReady"
      BY <1>1, <2>1, <2>3 DEF RInv, ReadyHasHost
    <3>. QED
      BY <2>2, <3>1, <3>2 DEF RInv, RemovalCall, FailedCall, ReadyCall, WithHost
  <2>4. CASE snap[c].host # Null
    <3>1. /\ pc' = "observe"
          /\ snap[c].rec.deleting \/ hosts[snap[c].host].phase # "Failed"
      BY <1>1, <1>3, <2>4 DEF VisitAssigned, Goto
    <3>. QED
      BY <1>1, <2>1, <2>2, <3>1 DEF RInv, RemovalCall, FailedCall, ReadyCall, WithHost
  <2>. QED
    BY <2>3, <2>4
<1>. QED
  BY <1>2, <1>3

LEMMA RInvSelectPlan ==
  ASSUME IInv, RInv, SelectPlan \/ \E error \in ProviderErrors : SelectPlanFails(error)
  PROVE  RInv'
<1>1. /\ UNCHANGED <<claims, hosts>> /\ pc = "select_plan"
      /\ cid \in ClaimIds /\ claim \in ClaimRecords
  BY DEF SelectPlan, SelectPlanFails, storageVars, IInv, MemoryInv, Working
<1>2. claim.ready # "HostReady"
  BY <1>1 DEF RInv, ReadyCall
<1>3. ASSUME NEW call \in {"ensure_host", "persist"}, Goto(call), claim'.ready # "HostReady"
      PROVE  RInv'
  <2>1. pc' = call /\ snap' = snap
    BY <1>3 DEF Goto
  <2>2. ReadyHasHost'
    BY <1>1, <2>1, ReadyReadOnly DEF IInv, RInv
  <2>. QED
    BY <1>3, <2>1, <2>2 DEF RInv, RemovalCall, FailedCall, ReadyCall, WithHost
<1>4. CASE NextClaim(cid, FALSE)
  BY <1>1, <1>4, LeavesClaim, ReadyReadOnly, Aside DEF IInv, RInv
<1>5. CASE SelectPlan /\ ~NextClaim(cid, FALSE)
  BY <1>1, <1>2, <1>3, <1>5, UnboundNotReady DEF SelectPlan
<1>6. CASE \E error \in ProviderErrors : SelectPlanFails(error)
  BY <1>1, <1>2, <1>3, <1>6, UnboundNotReady DEF SelectPlanFails
<1>. QED
  BY <1>4, <1>5, <1>6

LEMMA RInvEnsureHost ==
  ASSUME IInv, RInv, EnsureHost
  PROVE  RInv'
<1>1. /\ cid \in ClaimIds /\ claim \in ClaimRecords /\ StorageTypeOK
      /\ PlanFor[claim.spec] \in Plans
  BY PlanForAssumption DEF EnsureHost, IInv, MemoryInv, Working, TypeOK, ClaimRecords
<1>2. ensure_host(cid, PlanFor[claim.spec], HostIdsInUse)
  BY DEF EnsureHost, select_plan
<1>3. /\ \A d \in ClaimIds :
           /\ claims'[d] = Null <=> claims[d] = Null
           /\ claims'[d] = claims[d] \/ claims'[d].ready = "HostNotReady"
      /\ \/ hosts' = hosts
         \/ \E h \in HostIds \ HostIdsInUse :
              hosts' = [hosts EXCEPT ![h] = InitialHost(cid, PlanFor[claim.spec])]
  BY <1>1, <1>2, EnsureHostFacts
<1>4. \A h \in HostIds : hosts[h] # Null => hosts'[h] = hosts[h]
  BY <1>1, <1>3 DEF HostIdsInUse, StorageTypeOK
<1>5. \A d \in ClaimIds : HostRowsOf(d) # {} => HostRowsOf(d)' # {}
  BY <1>4 DEF HostRowsOf
<1>6. Progress(FALSE) \/ NextClaim(cid, TRUE)
  BY DEF EnsureHost
<1>7. pc' \notin Working /\ \A d \in ClaimIds : snap'[d] = snap[d] \/ snap'[d] = Null
  BY <1>6, LeavesClaim DEF IInv
<1>8. ReadyHasHost'
  BY <1>3, <1>5, <1>7, ReadyFrame DEF IInv, RInv
<1>. QED
  BY <1>7, <1>8, Aside

LEMMA RInvObserve ==
  ASSUME IInv, RInv,
         \/ \E deleting \in BOOLEAN : ObserveConflict(deleting)
         \/ ObserveLivePresent \/ ObserveLiveAbsent \/ ObserveDeletingPresent
         \/ \E error \in ProviderErrors, deleting \in BOOLEAN : ObserveFails(deleting, error)
  PROVE  RInv'
<1>1. pc = "observe" /\ UNCHANGED <<storageVars, resources>> /\ pc \in WithHost
  BY DEF ObserveConflict, ObserveLivePresent, ObserveLiveAbsent, ObserveDeletingPresent,
     ObserveFails, Observed, WithHost
<1>2. /\ claim \in ClaimRecords /\ host \in HostRecords /\ hid \in HostIds
      /\ resources[hid] # Null => resources[hid] \in ResourceRecords
  BY <1>1, AtHost DEF IInv, TypeOK, ProviderTypeOK
<1>3. ASSUME NEW pair, NEW next, SaveThen(pair, next), PairOK(pair, claim),
             next = "delete" => claim.deleting,
             next = "create" => pair.host.phase # "Failed",
             next \in {"persist", "persist_idle"} /\ pair.claim.ready = "HostReady"
               => pair.host.phase = "Ready" /\ pair.host.rid # Null
      PROVE  RInv'
  BY <1>1, <1>3, SaveNext
<1>4. ASSUME NEW deleting \in BOOLEAN, ObserveConflict(deleting)
      PROVE  RInv'
  <2> DEFINE failed == mark_host_failed(claim, host, "ProviderOwnershipConflict")
             frozen == [failed EXCEPT !.host.retry.next = "never"]
  <2>1. PairOK(failed, claim) /\ failed.claim.ready # "HostReady"
    BY <1>2, FailedTypes, NotReady DEF Errors
  <2>2. PairOK(frozen, claim) /\ frozen.claim.ready # "HostReady"
    <3>1. failed = [host |-> failed.host, claim |-> failed.claim]
      BY DEF mark_host_failed
    <3>2. /\ frozen.claim = failed.claim
          /\ frozen.host = [failed.host EXCEPT !.retry = [failed.host.retry EXCEPT !.next = "never"]]
      BY <3>1
    <3>3. failed.host \in HostRecords
      BY <2>1 DEF PairOK
    <3> HIDE DEF failed, frozen
    <3>4. frozen.host \in HostRecords
      BY <3>2, <3>3 DEF HostRecords, RetryStates
    <3>. QED
      BY <2>1, <3>2, <3>4 DEF PairOK
  <2>3. SaveThen(failed, "persist") \/ SaveThen(frozen, "persist")
    BY <1>4 DEF ObserveConflict
  <2> HIDE DEF failed, frozen
  <2>. QED
    BY <1>3, <2>1, <2>2, <2>3
<1>5. CASE ObserveLivePresent
  <2> DEFINE pair == apply_provider_observation(claim, host, resources[hid])
             next == IF provider_observation_is_stable(host, resources[hid])
                     THEN "persist_idle" ELSE "persist"
  <2>1. SaveThen(pair, next) /\ resources[hid] # Null
    BY <1>5 DEF ObserveLivePresent, observe
  <2>2. /\ PairOK(pair, claim)
        /\ pair.claim.ready = "HostReady" => pair.host.phase = "Ready" /\ pair.host.rid # Null
    BY <1>2, <2>1, ObservationTypes, ObservedReady
  <2>3. next \in {"persist", "persist_idle"}
    OBVIOUS
  <2> HIDE DEF pair, next
  <2>. QED
    BY <1>3, <2>1, <2>2, <2>3
<1>6. CASE ObserveLiveAbsent
  <2>1. CASE host.rid # Null \/ host.phase # "Pending"
    <3>1. SaveThen(mark_provider_absent(claim, host), "persist")
      BY <1>6, <2>1 DEF ObserveLiveAbsent
    <3>2. mark_provider_absent(claim, host).claim.ready # "HostReady"
      BY <1>2, NotReady DEF Errors
    <3>. QED
      BY <1>2, <1>3, <3>1, <3>2, AbsentTypes
  <2>2. CASE ~(host.rid # Null \/ host.phase # "Pending")
    <3> DEFINE pair == [claim |-> claim,
                        host |-> [host EXCEPT !.phase = "Provisioning", !.retry = NoRetry]]
    <3>1. SaveThen(pair, "create")
      BY <1>6, <2>2 DEF ObserveLiveAbsent
    <3>2. PairOK(pair, claim) /\ pair.host.phase = "Provisioning"
      BY <1>2, RetryTypes DEF PairOK, HostRecords, Phases
    <3> HIDE DEF pair
    <3>. QED
      BY <1>3, <3>1, <3>2
  <2>. QED
    BY <2>1, <2>2
<1>7. CASE ObserveDeletingPresent
  <2> DEFINE pair == [claim |-> claim,
                      host |-> [host EXCEPT !.phase = "Deleting", !.rid = resources[hid].id,
                                            !.retry = NoRetry]]
  <2>1. SaveThen(pair, "delete") /\ resources[hid] # Null /\ claim.deleting
    BY <1>7 DEF ObserveDeletingPresent, Observed, observe
  <2>2. resources[hid].id \in ResourceIds
    BY <1>2, <2>1 DEF ResourceRecords
  <2>3. PairOK(pair, claim)
    BY <1>2, <2>2, RetryTypes DEF PairOK, HostRecords, Phases
  <2> HIDE DEF pair
  <2>. QED
    BY <1>3, <2>1, <2>3
<1>8. ASSUME NEW error \in ProviderErrors, NEW deleting \in BOOLEAN, ObserveFails(deleting, error)
      PROVE  RInv'
  <2>1. CASE deleting
    <3> DEFINE pair == [claim |-> claim, host |-> schedule_host_retry_only(host, error)]
    <3>1. SaveThen(pair, "progress")
      BY <1>8, <2>1 DEF ObserveFails
    <3>2. PairOK(pair, claim)
      BY <1>2, RetryOnlyTypes DEF PairOK
    <3> HIDE DEF pair
    <3>. QED
      BY <1>3, <3>1, <3>2
  <2>2. CASE ~deleting
    <3> DEFINE pair == schedule_host_provider_error(claim, host, error)
    <3>1. SaveThen(pair, "persist")
      BY <1>8, <2>2 DEF ObserveFails
    <3>2. PairOK(pair, claim) /\ pair.claim.ready # "HostReady"
      BY <1>2, HostErrorTypes, ErrorNotReady
    <3> HIDE DEF pair
    <3>. QED
      BY <1>3, <3>1, <3>2
  <2>. QED
    BY <2>1, <2>2
<1>. QED
  BY <1>4, <1>5, <1>6, <1>7, <1>8

LEMMA RInvAbsent ==
  ASSUME IInv, RInv, ObserveDeletingAbsent
  PROVE  RInv'
<1>1. UNCHANGED <<claims, hosts>> /\ pc' = "finalize" /\ snap' = snap
  BY DEF ObserveDeletingAbsent, Observed, storageVars, Goto
<1>2. ReadyHasHost'
  BY <1>1, ReadyReadOnly DEF IInv, RInv
<1>. QED
  BY <1>1, <1>2 DEF RInv, RemovalCall, FailedCall, ReadyCall, WithHost

LEMMA RInvSaveHost ==
  ASSUME IInv, RInv, SaveHost
  PROVE  RInv'
<1>1. pc = "save_host" /\ save_host(hid, host) /\ pc \in WithHost
  BY DEF SaveHost, WithHost
<1>2. /\ cid \in ClaimIds /\ hid = snap[cid].host /\ hid \in HostIds /\ host \in HostRecords
  BY <1>1, AtHost
<1>3. /\ claims' = claims /\ hosts'[hid].phase = host.phase /\ hosts'[hid].rid = host.rid
      /\ \A g \in HostIds : /\ hosts'[g] = Null <=> hosts[g] = Null
                            /\ hosts[g] # Null => hosts'[g].claim = hosts[g].claim
  BY <1>1, <1>2, SaveHostFacts DEF IInv, TypeOK
<1>4. \A c \in ClaimIds : HostRowsOf(c)' = HostRowsOf(c)
  BY <1>3 DEF HostRowsOf
<1>5. CASE after = "progress"
  <2>1. Progress(FALSE)
    BY <1>5 DEF SaveHost
  <2>2. pc' \notin Working /\ \A c \in ClaimIds : snap'[c] = snap[c] \/ snap'[c] = Null
    BY <2>1, LeavesClaim DEF IInv
  <2>3. ReadyHasHost'
    BY <1>3, <1>4, <2>2, ReadyFrame DEF IInv, RInv
  <2>. QED
    BY <2>2, <2>3, Aside
<1>6. CASE after # "progress"
  <2>1. /\ pc' = after /\ UNCHANGED <<snap, cid, claim, host>>
        /\ after \in {"create", "delete", "persist", "persist_idle"}
    BY <1>1, <1>6 DEF SaveHost, Goto, IInv, TypeOK, MemoryInv
  <2>2. ReadyHasHost'
    BY <1>3, <1>4, <2>1, ReadyFrame DEF IInv, RInv
  <2>3. snap[cid].host # Null
    BY <1>2, NullAssumption
  <2>4. RemovalCall' /\ FailedCall' /\ ReadyCall'
    BY <1>1, <1>2, <1>3, <2>1, <2>3 DEF RInv, RemovalCall, FailedCall, ReadyCall, WithHost
  <2>. QED
    BY <2>2, <2>4 DEF RInv
<1>. QED
  BY <1>5, <1>6

LEMMA RInvCreate ==
  ASSUME IInv, RInv,
         Create \/ CreateResponseLost \/ \E error \in ProviderErrors : CreateFails(error)
  PROVE  RInv'
<1>1. pc = "create" /\ pc \in WithHost /\ UNCHANGED storageVars
  BY DEF Create, CreateResponseLost, CreateFails, WithHost
<1>2. claim \in ClaimRecords /\ host \in HostRecords /\ hid \in HostIds /\ host.plan \in Plans
  BY <1>1, AtHost DEF HostRecords
<1>3. ASSUME NEW pair, SaveThen(pair, "persist"), PairOK(pair, claim),
             pair.claim.ready = "HostReady" => pair.host.phase = "Ready" /\ pair.host.rid # Null
      PROVE  RInv'
  BY <1>1, <1>3, SaveNext
<1>4. CASE Create
  <2> DEFINE pair == apply_provider_observation(claim, host, resources'[hid])
  <2>1. create(hid, host.plan, ResourceIdsInUse) /\ SaveThen(pair, "persist")
    BY <1>4 DEF Create
  <2>2. resources'[hid] \in ResourceRecords
    BY <1>2, <2>1, CreateFacts DEF IInv, TypeOK
  <2>3. /\ PairOK(pair, claim)
        /\ pair.claim.ready = "HostReady" => pair.host.phase = "Ready" /\ pair.host.rid # Null
    BY <1>2, <2>2, ObservationTypes, ObservedReady
  <2> HIDE DEF pair
  <2>. QED
    BY <1>3, <2>1, <2>3
<1>5. CASE CreateResponseLost
  <2> DEFINE pair == mark_outcome_unknown(claim, host, "CreateOutcomeUnknown")
  <2>1. SaveThen(pair, "persist")
    BY <1>5 DEF CreateResponseLost
  <2>2. PairOK(pair, claim) /\ pair.claim.ready # "HostReady"
    BY <1>2, UnknownTypes, NotReady DEF Errors
  <2> HIDE DEF pair
  <2>. QED
    BY <1>3, <2>1, <2>2
<1>6. ASSUME NEW error \in ProviderErrors, CreateFails(error)
      PROVE  RInv'
  <2> DEFINE pair == schedule_host_provider_error(claim, host, error)
  <2>1. SaveThen(pair, "persist")
    BY <1>6 DEF CreateFails
  <2>2. PairOK(pair, claim) /\ pair.claim.ready # "HostReady"
    BY <1>2, HostErrorTypes, ErrorNotReady
  <2> HIDE DEF pair
  <2>. QED
    BY <1>3, <2>1, <2>2
<1>. QED
  BY <1>4, <1>5, <1>6

LEMMA RInvDelete ==
  ASSUME IInv, RInv,
         Delete \/ DeleteResponseLost \/ \E error \in ProviderErrors : DeleteFails(error)
  PROVE  RInv'
<1>1. pc = "delete" /\ UNCHANGED <<claims, hosts>> /\ claim.deleting
  BY DEF Delete, DeleteResponseLost, DeleteFails, storageVars, RInv, RemovalCall
<1>2. PICK row : SaveThen([claim |-> claim, host |-> row], "progress")
  BY DEF Delete, DeleteResponseLost, DeleteFails
<1>3. pc' = "save_host" /\ snap' = snap /\ claim' = claim /\ after' = "progress"
  BY <1>2 DEF SaveThen, Goto
<1>4. ReadyHasHost'
  BY <1>1, <1>3, ReadyReadOnly DEF IInv, RInv
<1>. QED
  BY <1>1, <1>3, <1>4 DEF RInv, RemovalCall, FailedCall, ReadyCall

LEMMA RInvPersist ==
  ASSUME IInv, RInv, Persist
  PROVE  RInv'
<1>1. pc \in {"persist", "persist_idle"} /\ save_claim_status(cid, claim)
  BY DEF Persist
<1>2. /\ cid \in ClaimIds /\ snap[cid] # Null /\ claim \in ClaimRecords /\ StorageTypeOK
  BY <1>1 DEF IInv, MemoryInv, Working, TypeOK
<1>3. /\ hosts' = hosts
      /\ \A d \in ClaimIds :
           /\ d # cid => claims'[d] = claims[d]
           /\ claims'[d] = Null <=> claims[d] = Null
           /\ claims'[d] = claims[d] \/ claims'[d].ready = claim.ready
  BY <1>1, <1>2, SaveStatusFacts
<1>4. \A c \in ClaimIds : HostRowsOf(c)' = HostRowsOf(c)
  BY <1>3 DEF HostRowsOf
<1>5. claim.ready = "HostReady" => HostRowsOf(cid) # {}
  <2> SUFFICES ASSUME claim.ready = "HostReady"
               PROVE  HostRowsOf(cid) # {}
    OBVIOUS
  <2>1. snap[cid].host # Null
    BY <1>1 DEF RInv, ReadyCall
  <2>. QED
    BY <1>2, <2>1 DEF IInv, SnapInv
<1> DEFINE stale == ~StatusIsCurrent(cid, claim)
<1>6. Progress(stale) \/ NextClaim(cid, stale)
  BY Zenon DEF Persist
<1> HIDE DEF stale
<1>7. pc' \notin Working /\ \A d \in ClaimIds : snap'[d] = snap[d] \/ snap'[d] = Null
  BY <1>6, LeavesClaim DEF IInv
<1>8. ReadyHasHost'
  BY <1>2, <1>3, <1>4, <1>5, <1>7 DEF RInv, ReadyHasHost
<1>. QED
  BY <1>7, <1>8, Aside

LEMMA RInvFinalize ==
  ASSUME IInv, RInv, Finalize
  PROVE  RInv'
<1>1. finalize_claim(cid) /\ Progress(FALSE) /\ cid \in ClaimIds /\ StorageTypeOK
  BY DEF Finalize, IInv, MemoryInv, Working, TypeOK
<1>2. /\ \A d \in ClaimIds : claims'[d] = IF d = cid THEN Null ELSE claims[d]
      /\ \A h \in HostIds : hosts'[h] = IF h \in HostRowsOf(cid) THEN Null ELSE hosts[h]
  BY <1>1, FinalizeFacts
<1>3. \A d \in ClaimIds \ {cid} : HostRowsOf(d)' = HostRowsOf(d)
  BY <1>2 DEF HostRowsOf
<1>4. pc' \notin Working /\ \A d \in ClaimIds : snap'[d] = snap[d] \/ snap'[d] = Null
  BY <1>1, LeavesClaim DEF IInv
<1>5. ReadyHasHost'
  BY <1>2, <1>3, <1>4 DEF RInv, ReadyHasHost
<1>. QED
  BY <1>4, <1>5, Aside

\* The RPC handlers, time and the provider leave the memory of the pass alone, and
\* what it relies on in the tables.
LEMMA RInvOthers ==
  ASSUME IInv, RInv, UNCHANGED <<pc, snap, cid, claim, host, after>>,
         \A c \in ClaimIds : claims'[c] # Null /\ claims'[c].ready = "HostReady"
                               => claims[c] # Null /\ claims[c].ready = "HostReady",
         \/ UNCHANGED hosts
         \/ /\ pc \notin Working
            /\ \A h \in HostIds : /\ hosts'[h] = Null <=> hosts[h] = Null
                                  /\ hosts[h] # Null => hosts'[h].claim = hosts[h].claim
  PROVE  RInv'
<1>1. \A c \in ClaimIds : HostRowsOf(c)' = HostRowsOf(c)
  BY DEF HostRowsOf
<1>2. ReadyHasHost'
  BY <1>1, ReadyFrame DEF IInv, RInv
<1>3. CASE UNCHANGED hosts
  BY <1>2, <1>3 DEF RInv, RemovalCall, FailedCall, ReadyCall
<1>4. CASE pc \notin Working
  BY <1>2, <1>4, Aside
<1>. QED
  BY <1>3, <1>4

LEMMA RInvEnvironment ==
  ASSUME IInv, RInv,
         \/ \E c \in ClaimIds, spec \in Specs : RpcCreate(c, spec)
         \/ \E c \in ClaimIds : RpcDelete(c)
         \/ \E c \in ClaimIds : ElapseClaim(c)
         \/ \E h \in HostIds : ElapseHost(h) \/ Drift(h)
  PROVE  RInv'
<1>1. UNCHANGED <<pc, snap, cid, claim, host, after>> /\ StorageTypeOK
  BY DEF RpcCreate, RpcDelete, ElapseClaim, ElapseHost, Drift, passVars, IInv, TypeOK
<1>2. ASSUME NEW c \in ClaimIds, NEW spec \in Specs, RpcCreate(c, spec)
      PROVE  RInv'
  <2>1. create_claim(c, spec)
    BY <1>2 DEF RpcCreate
  <2>. QED
    BY <1>1, <2>1, CreateClaimFacts, RInvOthers
<1>3. ASSUME NEW c \in ClaimIds, RpcDelete(c)
      PROVE  RInv'
  <2>1. mark_claim_deleting(c)
    BY <1>3 DEF RpcDelete
  <2>. QED
    BY <1>1, <2>1, MarkDeletingFacts, RInvOthers
<1>4. ASSUME NEW c \in ClaimIds, ElapseClaim(c)
      PROVE  RInv'
  <2>1. hosts' = hosts
    BY <1>4 DEF ElapseClaim
  <2>. QED
    BY <1>1, <1>4, <2>1, ElapseClaimFacts, RInvOthers
<1>5. ASSUME NEW h \in HostIds, ElapseHost(h)
      PROVE  RInv'
  <2>1. pc \notin Working
    BY <1>5 DEF ElapseHost, BetweenPasses, Working
  <2>. QED
    BY <1>1, <1>5, <2>1, ElapseHostFacts, RInvOthers
<1>6. ASSUME NEW h \in HostIds, Drift(h)
      PROVE  RInv'
  <2>1. UNCHANGED <<claims, hosts>>
    BY <1>6 DEF Drift, storageVars
  <2>. QED
    BY <1>1, <2>1, RInvOthers
<1>. QED
  BY <1>2, <1>3, <1>4, <1>5, <1>6

LEMMA InitRInv == Init => RInv
BY DEF Init, RInv, RemovalCall, FailedCall, ReadyCall, ReadyHasHost, StorageInit,
   NoSnapshot, WithHost

LEMMA NextRInv == IInv /\ RInv /\ [Next]_vars => RInv'
<1> SUFFICES ASSUME IInv, RInv, [Next]_vars
             PROVE  RInv'
  OBVIOUS
<1>1. CASE Reconcile
  <2>1. CASE WakeByNotify \/ WakeByTick \/ PassIdle \/ StorageError
    BY <2>1, RInvOutside
  <2>2. CASE List
    BY <2>2, RInvList
  <2>3. CASE \E c \in ClaimIds : VisitUnassigned(c) \/ VisitAssigned(c)
    BY <2>3, RInvVisit
  <2>4. CASE SelectPlan \/ \E error \in ProviderErrors : SelectPlanFails(error)
    BY <2>4, RInvSelectPlan
  <2>5. CASE EnsureHost
    BY <2>5, RInvEnsureHost
  <2>6. CASE \/ \E deleting \in BOOLEAN : ObserveConflict(deleting)
             \/ ObserveLivePresent \/ ObserveLiveAbsent \/ ObserveDeletingPresent
             \/ \E error \in ProviderErrors, deleting \in BOOLEAN : ObserveFails(deleting, error)
    BY <2>6, RInvObserve
  <2>7. CASE ObserveDeletingAbsent
    BY <2>7, RInvAbsent
  <2>8. CASE SaveHost
    BY <2>8, RInvSaveHost
  <2>9. CASE Create \/ CreateResponseLost \/ \E error \in ProviderErrors : CreateFails(error)
    BY <2>9, RInvCreate
  <2>10. CASE Delete \/ DeleteResponseLost \/ \E error \in ProviderErrors : DeleteFails(error)
    BY <2>10, RInvDelete
  <2>11. CASE Persist
    BY <2>11, RInvPersist
  <2>12. CASE Finalize
    BY <2>12, RInvFinalize
  <2>. QED
    BY <1>1, <2>1, <2>2, <2>3, <2>4, <2>5, <2>6, <2>7, <2>8, <2>9, <2>10, <2>11, <2>12
       DEF Reconcile
<1>2. CASE Crash \/ Restart
  BY <1>2, RInvOutside
<1>3. CASE \/ \E c \in ClaimIds, spec \in Specs : RpcCreate(c, spec)
           \/ \E c \in ClaimIds : RpcDelete(c)
           \/ \E c \in ClaimIds : ElapseClaim(c)
           \/ \E h \in HostIds : ElapseHost(h) \/ Drift(h)
  BY <1>3, RInvEnvironment
<1>4. CASE UNCHANGED vars
  BY <1>4, RInvOthers DEF vars
<1>. QED
  BY <1>1, <1>2, <1>3, <1>4 DEF Next

\* Every call the controller is about to make has the reason that RInv states.
THEOREM CallsHaveReasons == Spec => []RInv
  BY InitRInv, NextRInv, Inductive, PTL DEF Spec

-----------------------------------------------------------------------------
(* The steps that write to the tables or at the provider.                  *)

Writing ==
  \/ SaveHost \/ Persist \/ EnsureHost \/ Finalize
  \/ Create \/ CreateResponseLost \/ Delete \/ DeleteResponseLost
  \/ \E c \in ClaimIds, spec \in Specs : RpcCreate(c, spec)
  \/ \E c \in ClaimIds : RpcDelete(c) \/ ElapseClaim(c)
  \/ \E h \in HostIds : ElapseHost(h) \/ Drift(h)

LEMMA Writers ==
  ASSUME [Next]_vars
  PROVE  Writing \/ UNCHANGED <<storageVars, resources, drifts>>
<1>1. CASE Reconcile
  <2>1. CASE \/ WakeByNotify \/ WakeByTick \/ List \/ PassIdle \/ SelectPlan \/ StorageError
             \/ \E c \in ClaimIds : VisitUnassigned(c) \/ VisitAssigned(c)
    BY <2>1 DEF WakeByNotify, WakeByTick, List, PassIdle, SelectPlan, StorageError,
       VisitUnassigned, VisitAssigned, storageVars
  <2>2. CASE \/ \E deleting \in BOOLEAN : ObserveConflict(deleting)
             \/ ObserveLivePresent \/ ObserveLiveAbsent
             \/ ObserveDeletingPresent \/ ObserveDeletingAbsent
    BY <2>2 DEF ObserveConflict, ObserveLivePresent, ObserveLiveAbsent,
       ObserveDeletingPresent, ObserveDeletingAbsent, Observed, storageVars
  <2>3. CASE \E error \in ProviderErrors :
               \/ SelectPlanFails(error) \/ CreateFails(error) \/ DeleteFails(error)
               \/ \E deleting \in BOOLEAN : ObserveFails(deleting, error)
    BY <2>3 DEF SelectPlanFails, CreateFails, DeleteFails, ObserveFails, Observed, storageVars
  <2>. QED
    BY <1>1, <2>1, <2>2, <2>3 DEF Reconcile, Writing
<1>2. CASE Crash \/ Restart
  BY <1>2 DEF Crash, Restart, storageVars
<1>3. CASE UNCHANGED vars
  BY <1>3 DEF vars, storageVars
<1>. QED
  BY <1>1, <1>2, <1>3 DEF Next, Writing

-----------------------------------------------------------------------------
(* The action properties.                                                  *)

LEMMA FailedStep ==
  ASSUME IInv, RInv, Next, NEW h \in HostIds, hosts[h] # Null, hosts[h].phase = "Failed",
         hosts'[h] = Null \/ hosts'[h].phase # "Failed"
  PROVE  claims[hosts[h].claim].deleting
<1>1. hosts'[h] # hosts[h] /\ StorageTypeOK
  BY DEF IInv, TypeOK
<1>2. SaveHost \/ EnsureHost \/ Finalize \/ \E g \in HostIds : ElapseHost(g)
  BY <1>1, Writers DEF Writing, Persist, save_claim_status, Create, CreateResponseLost,
     Delete, DeleteResponseLost, RpcCreate, create_claim, RpcDelete, mark_claim_deleting,
     ElapseClaim, Drift, storageVars
<1>3. CASE SaveHost
  <2>1. pc = "save_host" /\ save_host(hid, host) /\ pc \in WithHost
    BY <1>3 DEF SaveHost, WithHost
  <2>2. /\ cid \in ClaimIds /\ hid = snap[cid].host /\ hid \in HostIds /\ host \in HostRecords
        /\ HostRowsOf(cid) = {hid} /\ (claim.deleting => claims[cid].deleting)
    BY <2>1, AtHost
  <2>3. h = hid
    BY <1>1, <2>1, <2>2, SaveHostFacts
  <2>4. claim.deleting
    BY <2>1, <2>2, <2>3 DEF RInv, FailedCall
  <2>. QED
    BY <2>2, <2>3, <2>4 DEF HostRowsOf
<1>4. CASE EnsureHost
  <2>1. /\ cid \in ClaimIds /\ claim \in ClaimRecords /\ PlanFor[claim.spec] \in Plans
        /\ ensure_host(cid, PlanFor[claim.spec], HostIdsInUse)
    BY <1>4, PlanForAssumption DEF EnsureHost, select_plan, IInv, MemoryInv, Working,
       ClaimRecords
  <2>2. \E g \in HostIds \ HostIdsInUse :
          hosts' = [hosts EXCEPT ![g] = InitialHost(cid, PlanFor[claim.spec])]
    BY <1>1, <2>1, EnsureHostFacts
  <2>. QED
    BY <1>1, <2>2 DEF HostIdsInUse, StorageTypeOK
<1>5. CASE Finalize
  <2>1. pc = "finalize" /\ finalize_claim(cid) /\ cid \in ClaimIds
    BY <1>5 DEF Finalize, IInv, MemoryInv, Working
  <2>2. h \in HostRowsOf(cid)
    BY <1>1, <2>1, FinalizeFacts
  <2>3. claims[cid].deleting
    BY <2>1 DEF IInv, MemoryInv, SnapInv, Working
  <2>. QED
    BY <2>2, <2>3 DEF HostRowsOf
<1>6. CASE \E g \in HostIds : ElapseHost(g)
  BY <1>1, <1>6, ElapseHostFacts
<1>. QED
  BY <1>2, <1>3, <1>4, <1>5, <1>6

\* Once a Host has failed, nothing but the deletion of its claim touches its phase,
\* however many observations and passes follow.
THEOREM FailedStays == Spec => FailedIsSticky
<1>1. IInv /\ RInv /\ [Next]_vars
        => [\A h \in HostIds :
              /\ hosts[h] # Null /\ hosts[h].phase = "Failed"
              /\ hosts'[h] = Null \/ hosts'[h].phase # "Failed"
              => claims[hosts[h].claim].deleting]_vars
  BY FailedStep
<1>. QED
  BY <1>1, Inductive, CallsHaveReasons, PTL DEF Spec, FailedIsSticky

LEMMA ReadyStep ==
  ASSUME IInv, RInv, Next, NEW c \in ClaimIds,
         claims'[c] # Null, claims'[c].ready = "HostReady",
         claims[c] = Null \/ claims[c].ready # "HostReady"
  PROVE  \E h \in HostRowsOf(c) : hosts[h].phase = "Ready" /\ hosts[h].rid # Null
<1>1. claims'[c] # claims[c] /\ StorageTypeOK
  BY DEF IInv, TypeOK
<1>2. \/ Persist \/ EnsureHost \/ Finalize
      \/ \E d \in ClaimIds, spec \in Specs : RpcCreate(d, spec)
      \/ \E d \in ClaimIds : RpcDelete(d) \/ ElapseClaim(d)
  BY <1>1, Writers DEF Writing, SaveHost, save_host, Create, CreateResponseLost,
     Delete, DeleteResponseLost, ElapseHost, Drift, storageVars
<1>3. CASE Persist
  <2>1. pc \in {"persist", "persist_idle"} /\ save_claim_status(cid, claim)
    BY <1>3 DEF Persist
  <2>2. cid \in ClaimIds /\ snap[cid] # Null /\ claim \in ClaimRecords
    BY <2>1 DEF IInv, MemoryInv, Working
  <2>3. c = cid /\ claim.ready = "HostReady"
    BY <1>1, <2>1, <2>2, SaveStatusFacts
  <2>4. /\ snap[cid].host # Null
        /\ hosts[snap[cid].host].phase = "Ready" /\ hosts[snap[cid].host].rid # Null
    BY <2>1, <2>3 DEF RInv, ReadyCall
  <2>5. HostRowsOf(cid) = {snap[cid].host}
    BY <2>2, <2>4 DEF IInv, SnapInv
  <2>. QED
    BY <2>3, <2>4, <2>5
<1>4. CASE EnsureHost
  <2>1. /\ cid \in ClaimIds /\ claim \in ClaimRecords /\ PlanFor[claim.spec] \in Plans
        /\ ensure_host(cid, PlanFor[claim.spec], HostIdsInUse)
    BY <1>4, PlanForAssumption DEF EnsureHost, select_plan, IInv, MemoryInv, Working,
       ClaimRecords
  <2>. QED
    BY <1>1, <2>1, EnsureHostFacts
<1>5. CASE Finalize
  <2>1. finalize_claim(cid) /\ cid \in ClaimIds
    BY <1>5 DEF Finalize, IInv, MemoryInv, Working
  <2>. QED
    BY <1>1, <2>1, FinalizeFacts
<1>6. CASE \E d \in ClaimIds, spec \in Specs : RpcCreate(d, spec)
  <2>1. PICK d \in ClaimIds, spec \in Specs : create_claim(d, spec)
    BY <1>6 DEF RpcCreate
  <2>. QED
    BY <1>1, <2>1, CreateClaimFacts
<1>7. CASE \E d \in ClaimIds : RpcDelete(d)
  <2>1. PICK d \in ClaimIds : mark_claim_deleting(d)
    BY <1>7 DEF RpcDelete
  <2>. QED
    BY <1>1, <2>1, MarkDeletingFacts
<1>8. CASE \E d \in ClaimIds : ElapseClaim(d)
  BY <1>1, <1>8, ElapseClaimFacts
<1>. QED
  BY <1>2, <1>3, <1>4, <1>5, <1>6, <1>7, <1>8

\* save_host comes before persist_claim_status, and what the claim is told is what the
\* Host row says, whoever else runs in between.
THEOREM ReadyIsBacked == Spec => ReadyOnlyAfterHost
<1>1. IInv /\ RInv /\ [Next]_vars
        => [\A c \in ClaimIds :
              /\ claims'[c] # Null /\ claims'[c].ready = "HostReady"
              /\ claims[c] = Null \/ claims[c].ready # "HostReady"
              => \E h \in HostRowsOf(c) : hosts[h].phase = "Ready" /\ hosts[h].rid # Null]_vars
  BY ReadyStep
<1>. QED
  BY <1>1, Inductive, CallsHaveReasons, PTL DEF Spec, ReadyOnlyAfterHost

-----------------------------------------------------------------------------
(* The refinement of HostClaimLifecycle.                                   *)

\* Every resource has an owner, before and after every step.
LEMMA Owned == IInv => Unowned = {}
<1> SUFFICES ASSUME IInv, NEW h \in HostIds, resources[h] # Null
             PROVE  \E c \in ClaimIds : claims[c] # Null /\ h \in HostRowsOf(c)
  BY DEF Unowned
<1>1. hosts[h] # Null /\ hosts[h].claim \in ClaimIds /\ claims[hosts[h].claim] # Null
  BY DEF IInv, TypeOK, StorageTypeOK, TableInv, HostRecords
<1>. QED
  BY <1>1 DEF HostRowsOf

LEMMA NothingUnowned == IInv /\ IInv' => Unowned = {} /\ Unowned' = {}
<1>1. IInv' => (Unowned = {})'
  BY Owned, PTL
<1>. QED
  BY <1>1, Owned

\* A resource is held on behalf of the claim of its Host row.
LEMMA HeldBy ==
  ASSUME NEW c \in ClaimIds
  PROVE  c \in Held <=> \E h \in HostIds : hosts[h] # Null /\ hosts[h].claim = c
                                             /\ resources[h] # Null
BY DEF Held, HostRowsOf

\* What a step does to the abstract state, read off the tables and the provider.
LEMMA SameDemand ==
  ASSUME \A c \in ClaimIds : /\ claims'[c] = Null <=> claims[c] = Null
                             /\ claims[c] # Null => claims'[c].deleting = claims[c].deleting
  PROVE  Demand' = Demand
BY DEF Demand

LEMMA OneDemand ==
  ASSUME NEW c \in ClaimIds, \A d \in ClaimIds \ {c} : claims'[d] = claims[d]
  PROVE  Demand' = [Demand EXCEPT ![c] =
                      IF claims'[c] = Null THEN "absent"
                      ELSE IF claims'[c].deleting THEN "released" ELSE "wanted"]
BY DEF Demand

LEMMA SameHeld ==
  ASSUME \A h \in HostIds :
           /\ resources'[h] = Null <=> resources[h] = Null
           /\ resources[h] # Null =>
                hosts[h] # Null /\ hosts'[h] # Null /\ hosts'[h].claim = hosts[h].claim
  PROVE  Held' = Held
BY DEF Held, HostRowsOf

\* One resource comes or goes, and with it what its claim holds.
LEMMA OneResource ==
  ASSUME IInv, UNCHANGED hosts, NEW h \in HostIds, hosts[h] # Null,
         \A g \in HostIds \ {h} : resources'[g] = resources[g]
  PROVE  /\ hosts[h].claim \in ClaimIds /\ Demand[hosts[h].claim] # "absent"
         /\ hosts[h].claim \in Held <=> resources[h] # Null
         /\ Held' = IF resources'[h] # Null THEN Held \cup {hosts[h].claim}
                                            ELSE Held \ {hosts[h].claim}
<1>1. hosts[h].claim \in ClaimIds /\ claims[hosts[h].claim] # Null
  BY DEF IInv, TypeOK, StorageTypeOK, TableInv, HostRecords
<1>2. \A g \in HostIds : hosts[g] # Null /\ hosts[g].claim = hosts[h].claim => g = h
  BY DEF IInv, TableInv
<1>3. \A c \in ClaimIds : HostRowsOf(c)' = HostRowsOf(c)
  BY DEF HostRowsOf
<1>4. Demand[hosts[h].claim] # "absent"
  BY <1>1 DEF Demand
<1>5. hosts[h].claim \in Held <=> resources[h] # Null
  BY <1>1, <1>2, HeldBy
<1>6. ASSUME NEW c \in ClaimIds, c # hosts[h].claim
      PROVE  c \in Held' <=> c \in Held
  BY <1>3, <1>6 DEF Held, HostRowsOf
<1>7. hosts[h].claim \in Held' <=> resources'[h] # Null
  BY <1>1, <1>2 DEF Held, HostRowsOf
<1>8. Held \subseteq ClaimIds /\ Held' \subseteq ClaimIds
  BY DEF Held
<1>. QED
  BY <1>1, <1>4, <1>5, <1>6, <1>7, <1>8

LEMMA Stutters ==
  ASSUME IInv, IInv', UNCHANGED <<Demand, Held, drifts>>
  PROVE  UNCHANGED Lifecycle!vars
BY NothingUnowned DEF Lifecycle!vars

LEMMA CreationRefines ==
  ASSUME IInv, IInv', Create \/ CreateResponseLost
  PROVE  [Lifecycle!Next]_(Lifecycle!vars)
<1>1. /\ pc = "create" /\ pc \in WithHost /\ UNCHANGED <<claims, hosts, drifts>>
      /\ create(hid, host.plan, ResourceIdsInUse)
  BY DEF Create, CreateResponseLost, WithHost, storageVars
<1>2. /\ hid \in HostIds /\ hosts[hid] # Null /\ host.plan \in Plans /\ resources[hid] = Null
  BY <1>1, AtHost DEF IInv, CallInv, HostRecords
<1>3. /\ resources'[hid] # Null /\ \A g \in HostIds \ {hid} : resources'[g] = resources[g]
  BY <1>1, <1>2, CreateFacts, NullAssumption DEF IInv, TypeOK
<1>4. Demand' = Demand /\ Unowned' = Unowned
  BY <1>1, NothingUnowned DEF Demand
<1>5. Lifecycle!Provision(hosts[hid].claim)
  BY <1>1, <1>2, <1>3, <1>4, OneResource DEF Lifecycle!Provision
<1>. QED
  BY <1>1, <1>2, <1>3, <1>5, OneResource DEF Lifecycle!Next

LEMMA RemovalRefines ==
  ASSUME IInv, IInv', RInv, Delete \/ DeleteResponseLost
  PROVE  [Lifecycle!Next]_(Lifecycle!vars)
<1>1. /\ pc = "delete" /\ pc \in WithHost /\ UNCHANGED <<claims, hosts, drifts>>
      /\ delete(hid) /\ claim.deleting
  BY DEF Delete, DeleteResponseLost, WithHost, storageVars, RInv, RemovalCall
<1>2. /\ cid \in ClaimIds /\ hid \in HostIds /\ hosts[hid] # Null /\ claims[cid] # Null
      /\ claims[cid].deleting /\ hid \in HostRowsOf(cid)
  BY <1>1, AtHost
<1>3. hosts[hid].claim = cid
  BY <1>2 DEF HostRowsOf
<1>4. /\ resources'[hid] = Null /\ \A g \in HostIds \ {hid} : resources'[g] = resources[g]
  BY <1>1, <1>2 DEF delete, IInv, TypeOK, ProviderTypeOK
<1>5. Demand' = Demand /\ Unowned' = Unowned /\ Demand[cid] = "released"
  BY <1>1, <1>2, NothingUnowned DEF Demand
<1>6. /\ cid \in Held <=> resources[hid] # Null
      /\ Held' = Held \ {cid}
  BY <1>1, <1>2, <1>3, <1>4, OneResource
<1>7. CASE resources[hid] # Null
  <2>1. Lifecycle!Deprovision(cid)
    BY <1>1, <1>5, <1>6, <1>7 DEF Lifecycle!Deprovision
  <2>. QED
    BY <1>2, <2>1 DEF Lifecycle!Next
<1>8. CASE resources[hid] = Null
  <2>1. Held' = Held
    BY <1>6, <1>8
  <2>. QED
    BY <1>1, <1>5, <2>1, Stutters
<1>. QED
  BY <1>7, <1>8

LEMMA FinalizeRefines ==
  ASSUME IInv, IInv', Finalize
  PROVE  [Lifecycle!Next]_(Lifecycle!vars)
<1>1. /\ pc = "finalize" /\ finalize_claim(cid) /\ UNCHANGED <<resources, drifts>>
      /\ cid \in ClaimIds /\ StorageTypeOK
  BY DEF Finalize, IInv, MemoryInv, Working, TypeOK
<1>2. claims[cid] # Null /\ claims[cid].deleting /\ \A h \in HostRowsOf(cid) : resources[h] = Null
  BY <1>1 DEF IInv, MemoryInv, SnapInv, CallInv, Working
<1>3. /\ \A d \in ClaimIds : claims'[d] = IF d = cid THEN Null ELSE claims[d]
      /\ \A h \in HostIds : hosts'[h] = IF h \in HostRowsOf(cid) THEN Null ELSE hosts[h]
  BY <1>1, FinalizeFacts
<1>4. Held' = Held
  <2>1. \A h \in HostIds : resources[h] # Null => hosts[h] # Null /\ h \notin HostRowsOf(cid)
    BY <1>2 DEF IInv, TableInv
  <2>. QED
    BY <1>1, <1>3, <2>1, SameHeld
<1>5. /\ cid \notin Held /\ Unowned' = Unowned /\ Demand[cid] = "released"
  BY <1>1, <1>2, NothingUnowned DEF Held, Demand
<1>6. Demand' = [Demand EXCEPT ![cid] = "absent"]
  BY <1>1, <1>3, OneDemand
<1>7. Lifecycle!Retire(cid)
  BY <1>1, <1>4, <1>5, <1>6 DEF Lifecycle!Retire
<1>. QED
  BY <1>1, <1>7 DEF Lifecycle!Next

LEMMA RpcRefines ==
  ASSUME IInv, IInv',
         \/ \E c \in ClaimIds, spec \in Specs : RpcCreate(c, spec)
         \/ \E c \in ClaimIds : RpcDelete(c)
  PROVE  [Lifecycle!Next]_(Lifecycle!vars)
<1>1. /\ UNCHANGED <<hosts, resources, drifts>> /\ StorageTypeOK
  BY DEF RpcCreate, create_claim, RpcDelete, mark_claim_deleting, IInv, TypeOK
<1>2. Held' = Held /\ Unowned' = Unowned
  BY <1>1, NothingUnowned DEF Held, HostRowsOf
<1>3. ASSUME NEW c \in ClaimIds, NEW spec \in Specs, RpcCreate(c, spec)
      PROVE  [Lifecycle!Next]_(Lifecycle!vars)
  <2>1. create_claim(c, spec)
    BY <1>3 DEF RpcCreate
  <2>2. CASE claims[c] # Null
    <3>1. UNCHANGED claims
      BY <2>1, <2>2 DEF create_claim
    <3>. QED
      BY <1>1, <1>2, <3>1, SameDemand, Stutters
  <2>3. CASE claims[c] = Null
    <3>1. /\ claims'[c] # Null /\ ~claims'[c].deleting
          /\ \A d \in ClaimIds \ {c} : claims'[d] = claims[d]
      BY <1>1, <2>1, <2>3, CreateClaimFacts
    <3>2. Demand[c] = "absent"
      BY <2>3 DEF Demand
    <3>3. Demand' = [Demand EXCEPT ![c] = "wanted"]
      BY <3>1, OneDemand
    <3>4. Lifecycle!Submit(c)
      BY <1>1, <1>2, <3>2, <3>3 DEF Lifecycle!Submit
    <3>. QED
      BY <3>4 DEF Lifecycle!Next
  <2>. QED
    BY <2>2, <2>3
<1>4. ASSUME NEW c \in ClaimIds, RpcDelete(c)
      PROVE  [Lifecycle!Next]_(Lifecycle!vars)
  <2>1. mark_claim_deleting(c)
    BY <1>4 DEF RpcDelete
  <2>2. /\ claims[c] # Null /\ claims'[c] # Null /\ claims'[c].deleting
        /\ \A d \in ClaimIds \ {c} : claims'[d] = claims[d]
    BY <1>1, <2>1, MarkDeletingFacts
  <2>3. CASE claims[c].deleting
    <3>1. UNCHANGED claims
      BY <2>1, <2>3 DEF mark_claim_deleting
    <3>. QED
      BY <1>1, <1>2, <3>1, SameDemand, Stutters
  <2>4. CASE ~claims[c].deleting
    <3>1. Demand[c] = "wanted"
      BY <2>2, <2>4 DEF Demand
    <3>2. Demand' = [Demand EXCEPT ![c] = "released"]
      BY <2>2, OneDemand
    <3>3. Lifecycle!Release(c)
      BY <1>1, <1>2, <3>1, <3>2 DEF Lifecycle!Release
    <3>. QED
      BY <3>3 DEF Lifecycle!Next
  <2>. QED
    BY <2>3, <2>4
<1>. QED
  BY <1>3, <1>4

LEMMA DriftRefines ==
  ASSUME IInv, IInv', NEW h \in HostIds, Drift(h)
  PROVE  [Lifecycle!Next]_(Lifecycle!vars)
<1>1. UNCHANGED <<claims, hosts>> /\ drifts' = drifts + 1
  BY DEF Drift, storageVars
<1>2. /\ resources[h] # Null /\ \A g \in HostIds \ {h} : resources'[g] = resources[g]
  BY DriftFacts DEF IInv, TypeOK
<1>3. hosts[h] # Null
  BY <1>2 DEF IInv, TableInv
<1>4. /\ hosts[h].claim \in Held
      /\ Held' = IF resources'[h] # Null THEN Held \cup {hosts[h].claim}
                                         ELSE Held \ {hosts[h].claim}
  BY <1>1, <1>2, <1>3, OneResource
<1>5. Held' \in {Held} \cup {Held \ {c} : c \in Held}
  BY <1>4
<1>6. Demand' = Demand /\ Unowned' = Unowned
  BY <1>1, NothingUnowned DEF Demand
<1>. QED
  BY <1>1, <1>5, <1>6 DEF Lifecycle!Next, Lifecycle!Drift

\* The writes that the abstract specification does not see.
LEMMA HiddenWrites ==
  ASSUME IInv, IInv',
         \/ SaveHost \/ Persist \/ EnsureHost
         \/ \E c \in ClaimIds : ElapseClaim(c)
         \/ \E h \in HostIds : ElapseHost(h)
  PROVE  UNCHANGED Lifecycle!vars
<1>1. UNCHANGED <<resources, drifts>> /\ StorageTypeOK
  BY DEF SaveHost, Persist, EnsureHost, ElapseClaim, ElapseHost, IInv, TypeOK
<1>2. \A h \in HostIds : resources[h] # Null => hosts[h] # Null
  BY DEF IInv, TableInv
<1>3. /\ \A c \in ClaimIds :
           /\ claims'[c] = Null <=> claims[c] = Null
           /\ claims[c] # Null => claims'[c].deleting = claims[c].deleting
      /\ \A h \in HostIds : resources[h] # Null =>
           hosts'[h] # Null /\ hosts'[h].claim = hosts[h].claim
  <2>1. CASE SaveHost
    <3>1. save_host(hid, host) /\ pc \in WithHost
      BY <2>1 DEF SaveHost, WithHost
    <3>. QED
      BY <1>1, <1>2, <3>1, AtHost, SaveHostFacts
  <2>2. CASE Persist
    <3>1. save_claim_status(cid, claim) /\ cid \in ClaimIds /\ claim \in ClaimRecords
      BY <2>2 DEF Persist, IInv, MemoryInv, Working
    <3>. QED
      BY <1>1, <1>2, <3>1, SaveStatusFacts
  <2>3. CASE EnsureHost
    <3>1. /\ cid \in ClaimIds /\ claim \in ClaimRecords /\ PlanFor[claim.spec] \in Plans
          /\ ensure_host(cid, PlanFor[claim.spec], HostIdsInUse)
      BY <2>3, PlanForAssumption DEF EnsureHost, select_plan, IInv, MemoryInv, Working,
         ClaimRecords
    <3>2. /\ \A c \in ClaimIds :
               /\ claims'[c] = Null <=> claims[c] = Null
               /\ claims[c] # Null => claims'[c].deleting = claims[c].deleting
          /\ \/ hosts' = hosts
             \/ \E h \in HostIds \ HostIdsInUse :
                  hosts' = [hosts EXCEPT ![h] = InitialHost(cid, PlanFor[claim.spec])]
      BY <1>1, <3>1, EnsureHostFacts
    <3>3. \A h \in HostIds : resources[h] # Null => hosts'[h] = hosts[h]
      BY <1>1, <3>2 DEF HostIdsInUse, StorageTypeOK
    <3>. QED
      BY <1>2, <3>2, <3>3
  <2>4. CASE \E c \in ClaimIds : ElapseClaim(c)
    <3>1. hosts' = hosts
      BY <2>4 DEF ElapseClaim
    <3>. QED
      BY <1>1, <1>2, <2>4, <3>1, ElapseClaimFacts
  <2>5. CASE \E h \in HostIds : ElapseHost(h)
    BY <1>1, <1>2, <2>5, ElapseHostFacts
  <2>. QED
    BY <2>1, <2>2, <2>3, <2>4, <2>5
<1>4. Demand' = Demand
  BY <1>3, SameDemand
<1>5. Held' = Held
  BY <1>1, <1>2, <1>3, SameHeld
<1>. QED
  BY <1>1, <1>4, <1>5, Stutters

LEMMA InitRefines == Init => Lifecycle!Init
BY DEF Init, StorageInit, ProviderInit, Lifecycle!Init, Demand, Held, HostRowsOf, Unowned

LEMMA StepRefines ==
  IInv /\ IInv' /\ RInv /\ [Next]_vars => [Lifecycle!Next]_(Lifecycle!vars)
<1> SUFFICES ASSUME IInv, IInv', RInv, [Next]_vars
             PROVE  [Lifecycle!Next]_(Lifecycle!vars)
  OBVIOUS
<1>1. CASE UNCHANGED <<storageVars, resources, drifts>>
  <2>1. Demand' = Demand /\ Held' = Held
    BY <1>1 DEF Demand, Held, HostRowsOf, storageVars
  <2>. QED
    BY <1>1, <2>1, Stutters
<1>2. CASE Writing
  BY <1>2, CreationRefines, RemovalRefines, FinalizeRefines, RpcRefines, DriftRefines,
     HiddenWrites DEF Writing
<1>. QED
  BY <1>1, <1>2, Writers

\* The daemon, with its passes, retries, faults and restarts, implements
\* HostClaimLifecycle: a caller who knows only demand and infrastructure never sees
\* the latter without the former, nor a claim forgotten that holds something.
THEOREM LifecycleIsRefined == Spec => LifecycleRefined
  BY InitRefines, StepRefines, Inductive, CallsHaveReasons, PTL
     DEF Spec, LifecycleRefined, Lifecycle!Spec

-----------------------------------------------------------------------------
(* The refinement of ClaimRegister.                                        *)

\* A step of the daemon is a step of the register, or does not show in it.
LEMMA RegisterStep ==
  ASSUME IInv, [Next]_vars
  PROVE  [Register!Next]_(Register!vars)
<1>1. StorageTypeOK /\ References
  BY DEF IInv, TypeOK, TableInv, References
<1>2. ASSUME UNCHANGED storageVars
      PROVE  UNCHANGED Register!vars
  BY <1>2, SameEntries DEF storageVars, SameRecord, SameHostRows, Register!vars
<1>3. CASE UNCHANGED <<storageVars, resources, drifts>>
  BY <1>2, <1>3
<1>4. CASE SaveHost
  <2>1. save_host(hid, host) /\ pc \in WithHost
    BY <1>4 DEF SaveHost, WithHost
  <2>. QED
    BY <1>1, <2>1, AtHost, HostRowRegisters
<1>5. CASE Persist
  <2>1. save_claim_status(cid, claim) /\ cid \in ClaimIds /\ claim \in ClaimRecords
    BY <1>5 DEF Persist, IInv, MemoryInv, Working
  <2>. QED
    BY <1>1, <2>1, StatusRegisters
<1>6. CASE EnsureHost
  <2>1. /\ cid \in ClaimIds /\ claim \in ClaimRecords /\ PlanFor[claim.spec] \in Plans
        /\ ensure_host(cid, PlanFor[claim.spec], HostIdsInUse)
    BY <1>6, PlanForAssumption DEF EnsureHost, select_plan, IInv, MemoryInv, Working,
       ClaimRecords
  <2>2. \A h \in HostIds : hosts[h] # Null => h \in HostIdsInUse
    BY DEF HostIdsInUse
  <2>. QED
    BY <1>1, <2>1, <2>2, AssignmentRegisters
<1>7. CASE Finalize
  <2>1. pc = "finalize" /\ finalize_claim(cid) /\ cid \in ClaimIds
    BY <1>7 DEF Finalize, IInv, MemoryInv, Working
  <2>2. claims[cid] # Null /\ claims[cid].deleting
    BY <2>1 DEF IInv, MemoryInv, SnapInv, Working
  <2>. QED
    BY <1>1, <2>1, <2>2, FinalizationRegisters
<1>8. CASE Create \/ CreateResponseLost \/ Delete \/ DeleteResponseLost
             \/ \E h \in HostIds : Drift(h)
  BY <1>2, <1>8 DEF Create, CreateResponseLost, Delete, DeleteResponseLost, Drift
<1>9. ASSUME NEW c \in ClaimIds, NEW spec \in Specs, RpcCreate(c, spec)
      PROVE  [Register!Next]_(Register!vars)
  BY <1>1, <1>9, CreateRegisters DEF RpcCreate
<1>10. ASSUME NEW c \in ClaimIds, RpcDelete(c)
       PROVE  [Register!Next]_(Register!vars)
  BY <1>1, <1>10, ReleaseRegisters DEF RpcDelete
<1>11. ASSUME NEW c \in ClaimIds, ElapseClaim(c)
       PROVE  UNCHANGED Register!vars
  <2> DEFINE row == [claims[c] EXCEPT !.retry = [claims[c].retry EXCEPT !.next = "due"]]
  <2>1. claims[c] # Null /\ claims[c] \in ClaimRecords
    BY <1>1, <1>11 DEF ElapseClaim, StorageTypeOK
  <2>2. claims' = [claims EXCEPT ![c] = row] /\ hosts' = hosts /\ clock' = clock
    BY <1>1, <1>11, <2>1 DEF ElapseClaim, StorageTypeOK
  <2>3. /\ row.spec = claims[c].spec /\ row.created = claims[c].created
        /\ row.deleting = claims[c].deleting
    BY <2>1 DEF ClaimRecords
  <2>4. claims'[c] # Null
    BY <1>1, <1>11, <2>1, ElapseClaimFacts
  <2> HIDE DEF row
  <2>5. \A d \in ClaimIds : SameRecord(d) /\ SameHostRows(d)
    BY <1>1, <2>1, <2>2, <2>3, <2>4 DEF SameRecord, SameHostRows, StorageTypeOK
  <2>. QED
    BY <2>2, <2>5, SameEntries DEF Register!vars
<1>12. ASSUME NEW h \in HostIds, ElapseHost(h)
       PROVE  UNCHANGED Register!vars
  <2>1. claims' = claims /\ clock' = clock
    BY <1>12 DEF ElapseHost
  <2>2. \A g \in HostIds : /\ hosts'[g] = Null <=> hosts[g] = Null
                           /\ hosts[g] # Null => hosts'[g].claim = hosts[g].claim
    BY <1>1, <1>12, ElapseHostFacts
  <2>3. \A d \in ClaimIds : SameRecord(d) /\ SameHostRows(d)
    BY <2>1, <2>2 DEF SameRecord, SameHostRows
  <2>. QED
    BY <2>1, <2>3, SameEntries DEF Register!vars
<1>. QED
  BY <1>3, <1>4, <1>5, <1>6, <1>7, <1>8, <1>9, <1>10, <1>11, <1>12, Writers DEF Writing

\* The tables of the daemon are a ClaimRegister: through passes, races with the
\* handlers, faults and restarts, a Host is assigned once, to a claim that is wanted,
\* and a claim leaves the table only after its deletion was requested.
THEOREM RegisterIsKept == Spec => RegisterRefined
<1>1. Init => Register!Init
  BY RegisterStarts DEF Init
<1>2. IInv /\ [Next]_vars => [Register!Next]_(Register!vars)
  BY RegisterStep
<1>. QED
  BY <1>1, <1>2, Inductive, PTL DEF Spec, RegisterRefined, Register!Spec

-----------------------------------------------------------------------------
(* Identities, while nobody else changes the provider.                     *)

\* An identity that is held for the Host is that of its resource.
Agrees(rid, h) == resources[h] # Null => rid \in {Null, resources[h].id}

\* The identity of the Host's resource is held.
Recorded(rid, h) == resources[h] # Null => rid = resources[h].id

IdentityInv ==
  /\ \A h \in HostIds : hosts[h] # Null => Agrees(hosts[h].rid, h)
  /\ pc \in WithHost => Agrees(host.rid, hid)
  /\ pc = "save_host" /\ after = "create" => host.rid = Null
  /\ pc = "create" => host.rid = Null /\ hosts[hid].rid = Null
  /\ pc = "save_host" /\ after = "delete" => Recorded(host.rid, hid)
  /\ pc = "delete" => Recorded(hosts[hid].rid, hid)

LEMMA ObservedIdentity ==
  ASSUME NEW c \in ClaimRecords, NEW h \in HostRecords, NEW r \in ResourceRecords
  PROVE  apply_provider_observation(c, h, r).host.rid = r.id
BY DEF apply_provider_observation, HostRecords

LEMMA ErrorKeepsIdentity ==
  ASSUME NEW c \in ClaimRecords, NEW h \in HostRecords, NEW error
  PROVE  schedule_host_provider_error(c, h, error).host.rid = h.rid
<1>1. mark_host_failed(c, h, "ProviderRejected").host.rid = h.rid
  BY DEF mark_host_failed, HostRecords
<1>. QED
  BY <1>1 DEF schedule_host_provider_error, HostRecords

\* No call about a Host is under way.
LEMMA IdentityAside ==
  ASSUME IdentityInv, pc' \notin WithHost, UNCHANGED resources,
         \A h \in HostIds : hosts'[h] # Null =>
           \/ hosts'[h].rid = Null
           \/ hosts[h] # Null /\ hosts'[h].rid = hosts[h].rid
  PROVE  IdentityInv'
BY DEF IdentityInv, Agrees, WithHost

\* The task goes on with save_host, after a call that may have changed the resource.
LEMMA IdentitySaveNext ==
  ASSUME IInv, IdentityInv, pc \in WithHost, UNCHANGED storageVars,
         NEW pair, NEW next, SaveThen(pair, next),
         \A g \in HostIds \ {hid} : resources'[g] = resources[g],
         resources'[hid] # Null => /\ hosts[hid].rid \in {Null, resources'[hid].id}
                                   /\ pair.host.rid \in {Null, resources'[hid].id},
         next = "create" => pair.host.rid = Null,
         next = "delete" /\ resources'[hid] # Null => pair.host.rid = resources'[hid].id
  PROVE  IdentityInv'
<1>1. /\ pc' = "save_host" /\ hid' = hid /\ host' = pair.host /\ after' = next
      /\ hosts' = hosts /\ hid \in HostIds
  BY AtHost DEF SaveThen, Goto, hid, storageVars
<1>2. \A h \in HostIds : hosts[h] # Null /\ resources'[h] # Null
                           => hosts[h].rid \in {Null, resources'[h].id}
  BY <1>1 DEF IdentityInv, Agrees
<1>. QED
  BY <1>1, <1>2 DEF IdentityInv, Agrees, Recorded, WithHost

\* ... or has not.
LEMMA IdentitySaveSame ==
  ASSUME IInv, IdentityInv, pc \in WithHost, UNCHANGED <<storageVars, resources>>,
         NEW pair, NEW next, SaveThen(pair, next),
         Agrees(pair.host.rid, hid),
         next = "create" => pair.host.rid = Null,
         next = "delete" => Recorded(pair.host.rid, hid)
  PROVE  IdentityInv'
<1>1. hosts[hid] # Null /\ hid \in HostIds
  BY AtHost
<1>2. Agrees(hosts[hid].rid, hid)
  BY <1>1 DEF IdentityInv
<1>3. /\ \A g \in HostIds \ {hid} : resources'[g] = resources[g]
      /\ resources'[hid] # Null => /\ hosts[hid].rid \in {Null, resources'[hid].id}
                                   /\ pair.host.rid \in {Null, resources'[hid].id}
      /\ next = "delete" /\ resources'[hid] # Null => pair.host.rid = resources'[hid].id
  BY <1>2 DEF Agrees, Recorded
<1>. QED
  BY <1>3, IdentitySaveNext

LEMMA IdentityObserve ==
  ASSUME IInv, IdentityInv,
         \/ \E deleting \in BOOLEAN : ObserveConflict(deleting)
         \/ ObserveLivePresent \/ ObserveLiveAbsent \/ ObserveDeletingPresent
         \/ \E error \in ProviderErrors, deleting \in BOOLEAN : ObserveFails(deleting, error)
  PROVE  IdentityInv'
<1>1. pc = "observe" /\ UNCHANGED <<storageVars, resources>> /\ pc \in WithHost
  BY DEF ObserveConflict, ObserveLivePresent, ObserveLiveAbsent, ObserveDeletingPresent,
     ObserveFails, Observed, WithHost
<1>2. /\ claim \in ClaimRecords /\ host \in HostRecords /\ hid \in HostIds
      /\ resources[hid] # Null => resources[hid] \in ResourceRecords
      /\ Agrees(host.rid, hid)
  BY <1>1, AtHost DEF IInv, TypeOK, ProviderTypeOK, IdentityInv
<1>3. ~OwnershipConflict
  BY <1>2 DEF OwnershipConflict, observe, Agrees
<1>4. ASSUME NEW pair, NEW next, SaveThen(pair, next), next \notin {"create", "delete"},
             Agrees(pair.host.rid, hid)
      PROVE  IdentityInv'
  BY <1>1, <1>4, IdentitySaveSame
<1>5. CASE ObserveLivePresent
  <2> DEFINE pair == apply_provider_observation(claim, host, resources[hid])
             next == IF provider_observation_is_stable(host, resources[hid])
                     THEN "persist_idle" ELSE "persist"
  <2>1. SaveThen(pair, next) /\ resources[hid] # Null
    BY <1>5 DEF ObserveLivePresent, observe
  <2>2. Agrees(pair.host.rid, hid)
    BY <1>2, <2>1, ObservedIdentity DEF Agrees
  <2>3. next \notin {"create", "delete"}
    OBVIOUS
  <2> HIDE DEF pair, next
  <2>. QED
    BY <1>4, <2>1, <2>2, <2>3
<1>6. CASE ObserveLiveAbsent
  <2>0. resources[hid] = Null
    BY <1>6 DEF ObserveLiveAbsent, observe
  <2>1. CASE host.rid # Null \/ host.phase # "Pending"
    <3>1. SaveThen(mark_provider_absent(claim, host), "persist")
      BY <1>6, <2>1 DEF ObserveLiveAbsent
    <3>. QED
      BY <1>4, <2>0, <3>1 DEF Agrees
  <2>2. CASE ~(host.rid # Null \/ host.phase # "Pending")
    <3> DEFINE pair == [claim |-> claim,
                        host |-> [host EXCEPT !.phase = "Provisioning", !.retry = NoRetry]]
    <3>1. SaveThen(pair, "create")
      BY <1>6, <2>2 DEF ObserveLiveAbsent
    <3>2. pair.host.rid = Null
      BY <1>2, <2>2 DEF HostRecords
    <3> HIDE DEF pair
    <3>. QED
      BY <1>1, <3>1, <3>2, IdentitySaveSame DEF Agrees
  <2>. QED
    BY <2>1, <2>2
<1>7. CASE ObserveDeletingPresent
  <2> DEFINE pair == [claim |-> claim,
                      host |-> [host EXCEPT !.phase = "Deleting", !.rid = resources[hid].id,
                                            !.retry = NoRetry]]
  <2>1. SaveThen(pair, "delete")
    BY <1>7 DEF ObserveDeletingPresent, observe
  <2>2. pair.host.rid = resources[hid].id
    BY <1>2 DEF HostRecords
  <2> HIDE DEF pair
  <2>. QED
    BY <1>1, <2>1, <2>2, IdentitySaveSame DEF Agrees, Recorded
<1>8. ASSUME NEW error \in ProviderErrors, NEW deleting \in BOOLEAN, ObserveFails(deleting, error)
      PROVE  IdentityInv'
  <2>1. CASE deleting
    <3> DEFINE pair == [claim |-> claim, host |-> schedule_host_retry_only(host, error)]
    <3>1. SaveThen(pair, "progress")
      BY <1>8, <2>1 DEF ObserveFails
    <3>2. pair.host.rid = host.rid
      BY <1>2 DEF schedule_host_retry_only, HostRecords
    <3> HIDE DEF pair
    <3>. QED
      BY <1>2, <1>4, <3>1, <3>2
  <2>2. CASE ~deleting
    <3> DEFINE pair == schedule_host_provider_error(claim, host, error)
    <3>1. SaveThen(pair, "persist")
      BY <1>8, <2>2 DEF ObserveFails
    <3>2. pair.host.rid = host.rid
      BY <1>2, ErrorKeepsIdentity
    <3> HIDE DEF pair
    <3>. QED
      BY <1>2, <1>4, <3>1, <3>2
  <2>. QED
    BY <2>1, <2>2
<1>. QED
  BY <1>3, <1>5, <1>6, <1>7, <1>8 DEF ObserveConflict

LEMMA IdentityCreate ==
  ASSUME IInv, IdentityInv,
         Create \/ CreateResponseLost \/ \E error \in ProviderErrors : CreateFails(error)
  PROVE  IdentityInv'
<1>1. pc = "create" /\ pc \in WithHost /\ UNCHANGED storageVars
  BY DEF Create, CreateResponseLost, CreateFails, WithHost
<1>2. /\ claim \in ClaimRecords /\ host \in HostRecords /\ hid \in HostIds /\ host.plan \in Plans
      /\ host.rid = Null /\ hosts[hid].rid = Null
  BY <1>1, AtHost DEF HostRecords, IdentityInv
<1>3. ASSUME create(hid, host.plan, ResourceIdsInUse)
      PROVE  /\ resources'[hid] \in ResourceRecords
             /\ \A g \in HostIds \ {hid} : resources'[g] = resources[g]
  BY <1>2, <1>3, CreateFacts DEF IInv, TypeOK
<1>4. CASE Create
  <2> DEFINE pair == apply_provider_observation(claim, host, resources'[hid])
  <2>1. create(hid, host.plan, ResourceIdsInUse) /\ SaveThen(pair, "persist")
    BY <1>4 DEF Create
  <2>2. pair.host.rid = resources'[hid].id
    BY <1>2, <1>3, <2>1, ObservedIdentity
  <2> HIDE DEF pair
  <2>. QED
    BY <1>1, <1>2, <1>3, <2>1, <2>2, IdentitySaveNext
<1>5. CASE CreateResponseLost
  <2> DEFINE pair == mark_outcome_unknown(claim, host, "CreateOutcomeUnknown")
  <2>1. create(hid, host.plan, ResourceIdsInUse) /\ SaveThen(pair, "persist")
    BY <1>5 DEF CreateResponseLost
  <2>2. pair.host.rid = Null
    BY <1>2 DEF mark_outcome_unknown, HostRecords
  <2> HIDE DEF pair
  <2>. QED
    BY <1>1, <1>2, <1>3, <2>1, <2>2, IdentitySaveNext
<1>6. ASSUME NEW error \in ProviderErrors, CreateFails(error)
      PROVE  IdentityInv'
  <2> DEFINE pair == schedule_host_provider_error(claim, host, error)
  <2>1. SaveThen(pair, "persist") /\ resources' = resources
    BY <1>6 DEF CreateFails
  <2>2. pair.host.rid = Null
    BY <1>2, ErrorKeepsIdentity
  <2> HIDE DEF pair
  <2>. QED
    BY <1>1, <2>1, <2>2, IdentitySaveSame DEF Agrees
<1>. QED
  BY <1>4, <1>5, <1>6

LEMMA IdentityDelete ==
  ASSUME IInv, IdentityInv,
         Delete \/ DeleteResponseLost \/ \E error \in ProviderErrors : DeleteFails(error)
  PROVE  IdentityInv'
<1>1. pc = "delete" /\ pc \in WithHost /\ UNCHANGED storageVars
  BY DEF Delete, DeleteResponseLost, DeleteFails, WithHost
<1>2. host \in HostRecords /\ hid \in HostIds /\ Agrees(host.rid, hid)
  BY <1>1, AtHost DEF IdentityInv
<1>3. CASE delete(hid)
  <2>1. PICK pair : SaveThen(pair, "progress")
    BY <1>3, Zenon DEF Delete, DeleteResponseLost, DeleteFails
  <2>2. resources'[hid] = Null /\ \A g \in HostIds \ {hid} : resources'[g] = resources[g]
    BY <1>2, <1>3 DEF delete, IInv, TypeOK, ProviderTypeOK
  <2>. QED
    BY <1>1, <2>1, <2>2, IdentitySaveNext
<1>4. ASSUME NEW error \in ProviderErrors, DeleteFails(error)
      PROVE  IdentityInv'
  <2> DEFINE pair == [claim |-> claim, host |-> schedule_host_retry_only(host, error)]
  <2>1. SaveThen(pair, "progress") /\ resources' = resources
    BY <1>4 DEF DeleteFails
  <2>2. pair.host.rid = host.rid
    BY <1>2 DEF schedule_host_retry_only, HostRecords
  <2> HIDE DEF pair
  <2>. QED
    BY <1>1, <1>2, <2>1, <2>2, IdentitySaveSame
<1>. QED
  BY <1>3, <1>4 DEF Delete, DeleteResponseLost

LEMMA IdentitySaveHost ==
  ASSUME IInv, IdentityInv, SaveHost
  PROVE  IdentityInv'
<1>1. pc = "save_host" /\ save_host(hid, host) /\ pc \in WithHost /\ resources' = resources
  BY DEF SaveHost, WithHost
<1>2. hid \in HostIds /\ host \in HostRecords /\ Agrees(host.rid, hid)
  BY <1>1, AtHost DEF IdentityInv
<1>3. /\ hosts'[hid].rid = host.rid
      /\ \A g \in HostIds \ {hid} : hosts'[g] = hosts[g]
  BY <1>1, <1>2, SaveHostFacts DEF IInv, TypeOK
<1>4. \A h \in HostIds : hosts'[h] # Null => Agrees(hosts'[h].rid, h)
  BY <1>2, <1>3 DEF IdentityInv
<1>5. \A h \in HostIds : hosts'[h] # Null /\ resources'[h] # Null =>
        hosts'[h].rid \in {Null, resources'[h].id}
  BY <1>1, <1>4 DEF Agrees
<1>6. CASE after = "progress"
  <2>1. pc' \notin WithHost
    BY <1>6 DEF SaveHost, Progress, WithHost
  <2>. QED
    BY <1>5, <2>1 DEF IdentityInv, Agrees, WithHost
<1>7. CASE after # "progress"
  <2>1. pc' = after /\ hid' = hid /\ host' = host /\ after' = "none"
    BY <1>7 DEF SaveHost, Goto, hid
  <2>2. after \in {"create", "delete", "persist", "persist_idle"}
    BY <1>1, <1>7 DEF IInv, TypeOK, MemoryInv
  <2>3. /\ after = "create" => host.rid = Null
        /\ after = "delete" /\ resources[hid] # Null => host.rid = resources[hid].id
    BY <1>1 DEF IdentityInv, Recorded
  <2>. QED
    BY <1>1, <1>2, <1>3, <1>5, <2>1, <2>2, <2>3 DEF IdentityInv, Agrees, Recorded, WithHost
<1>. QED
  BY <1>6, <1>7

\* No Host row gets an identity where the task is not at work on it.
LEMMA IdentityElsewhere ==
  ASSUME IInv, IdentityInv,
         \/ WakeByNotify \/ WakeByTick \/ List \/ PassIdle \/ Restart \/ StorageError \/ Crash
         \/ \E c \in ClaimIds : VisitUnassigned(c)
         \/ SelectPlan \/ \E error \in ProviderErrors : SelectPlanFails(error)
         \/ ObserveDeletingAbsent \/ Persist
  PROVE  IdentityInv'
<1>1. hosts' = hosts /\ resources' = resources
  BY DEF WakeByNotify, WakeByTick, List, PassIdle, Restart, StorageError, Crash,
     VisitUnassigned, SelectPlan, SelectPlanFails, ObserveDeletingAbsent, Observed, Persist,
     save_claim_status, storageVars
<1>2. ASSUME NEW c, NEW woken, NextClaim(c, woken) \/ Progress(woken)
      PROVE  pc' \notin WithHost
  BY <1>2 DEF NextClaim, Progress, WithHost
<1>3. pc' \notin WithHost
  <2>1. CASE WakeByNotify \/ WakeByTick \/ List \/ PassIdle \/ Restart \/ StorageError \/ Crash
             \/ ObserveDeletingAbsent
    BY <2>1 DEF WakeByNotify, WakeByTick, List, PassIdle, Restart, StorageError, Crash,
       ObserveDeletingAbsent, Goto, WithHost
  <2>2. CASE \E c \in ClaimIds : VisitUnassigned(c)
    BY <1>2, <2>2 DEF VisitUnassigned, Goto, WithHost
  <2>3. CASE SelectPlan \/ \E error \in ProviderErrors : SelectPlanFails(error)
    BY <1>2, <2>3 DEF SelectPlan, SelectPlanFails, Goto, WithHost
  <2>4. CASE Persist
    BY <1>2, <2>4 DEF Persist
  <2>. QED
    BY <2>1, <2>2, <2>3, <2>4
<1>. QED
  BY <1>1, <1>3, IdentityAside

LEMMA IdentityVisit ==
  ASSUME IInv, IdentityInv, NEW c \in ClaimIds, VisitAssigned(c)
  PROVE  IdentityInv'
<1>1. hosts' = hosts /\ resources' = resources
  BY DEF VisitAssigned, storageVars
<1>2. CASE NextClaim(c, FALSE)
  BY <1>1, <1>2, IdentityAside DEF NextClaim, WithHost
<1>3. CASE ~NextClaim(c, FALSE)
  <2>1. /\ pc' = "observe" /\ hid' = snap[c].host /\ host' = hosts[snap[c].host]
        /\ snap[c].host \in HostIds /\ hosts[snap[c].host] # Null
    BY <1>3 DEF VisitAssigned, Visiting, Goto, hid, IInv, TypeOK, Snapshots
  <2>. QED
    BY <1>1, <2>1 DEF IdentityInv, Agrees, WithHost
<1>. QED
  BY <1>2, <1>3

LEMMA IdentityRows ==
  ASSUME IInv, IdentityInv,
         EnsureHost \/ Finalize \/ \E h \in HostIds : ElapseHost(h)
  PROVE  IdentityInv'
<1>1. resources' = resources /\ StorageTypeOK
  BY DEF EnsureHost, Finalize, ElapseHost, IInv, TypeOK
<1>2. CASE EnsureHost
  <2>1. /\ cid \in ClaimIds /\ PlanFor[claim.spec] \in Plans
        /\ ensure_host(cid, PlanFor[claim.spec], HostIdsInUse)
        /\ Progress(FALSE) \/ NextClaim(cid, TRUE)
    BY <1>2, PlanForAssumption DEF EnsureHost, select_plan, IInv, MemoryInv, Working,
       ClaimRecords
  <2>2. \/ hosts' = hosts
        \/ \E h \in HostIds \ HostIdsInUse :
             hosts' = [hosts EXCEPT ![h] = InitialHost(cid, PlanFor[claim.spec])]
    BY <1>1, <2>1, EnsureHostFacts
  <2>3. InitialHost(cid, PlanFor[claim.spec]).rid = Null
    BY DEF InitialHost
  <2>4. \A h \in HostIds : hosts'[h] # Null =>
          \/ hosts'[h].rid = Null
          \/ hosts[h] # Null /\ hosts'[h].rid = hosts[h].rid
    BY <1>1, <2>2, <2>3 DEF StorageTypeOK
  <2>. QED
    BY <1>1, <2>1, <2>4, IdentityAside DEF Progress, NextClaim, WithHost
<1>3. CASE Finalize
  <2>1. finalize_claim(cid) /\ Progress(FALSE) /\ cid \in ClaimIds
    BY <1>3 DEF Finalize, IInv, MemoryInv, Working
  <2>2. \A h \in HostIds : hosts'[h] = Null \/ hosts'[h] = hosts[h]
    BY <1>1, <2>1, FinalizeFacts
  <2>. QED
    BY <1>1, <2>1, <2>2, IdentityAside DEF Progress, WithHost
<1>4. ASSUME NEW h \in HostIds, ElapseHost(h)
      PROVE  IdentityInv'
  <2>1. hosts[h] # Null /\ hosts[h] \in HostRecords /\ pc' \notin WithHost
    BY <1>1, <1>4 DEF ElapseHost, BetweenPasses, StorageTypeOK, WithHost
  <2> DEFINE row == [hosts[h] EXCEPT !.retry = [hosts[h].retry EXCEPT !.next = "due"]]
  <2>2. hosts' = [hosts EXCEPT ![h] = row]
    BY <1>1, <1>4, <2>1 DEF ElapseHost, StorageTypeOK
  <2>3. row.rid = hosts[h].rid
    BY <2>1 DEF HostRecords
  <2> HIDE DEF row
  <2>4. \A g \in HostIds : hosts'[g] # Null =>
          hosts[g] # Null /\ hosts'[g].rid = hosts[g].rid
    BY <1>1, <2>1, <2>2, <2>3 DEF StorageTypeOK
  <2>. QED
    BY <1>1, <2>1, <2>4, IdentityAside
<1>. QED
  BY <1>2, <1>3, <1>4

\* The handlers and the claims' deadlines touch no Host.
LEMMA IdentityUntouched ==
  ASSUME IdentityInv, UNCHANGED <<hosts, resources, pc, snap, cid, host, after>>
  PROVE  IdentityInv'
BY DEF IdentityInv, Agrees, Recorded, hid

LEMMA IdentityNext ==
  ASSUME MaxDrifts = 0, IInv, IdentityInv, [Next]_vars
  PROVE  IdentityInv'
<1>1. CASE Reconcile
  <2>1. CASE \/ WakeByNotify \/ WakeByTick \/ List \/ PassIdle \/ StorageError
             \/ \E c \in ClaimIds : VisitUnassigned(c)
             \/ SelectPlan \/ \E error \in ProviderErrors : SelectPlanFails(error)
             \/ ObserveDeletingAbsent \/ Persist
    BY <2>1, IdentityElsewhere
  <2>2. CASE \E c \in ClaimIds : VisitAssigned(c)
    BY <2>2, IdentityVisit
  <2>3. CASE EnsureHost \/ Finalize
    BY <2>3, IdentityRows
  <2>4. CASE \/ \E deleting \in BOOLEAN : ObserveConflict(deleting)
             \/ ObserveLivePresent \/ ObserveLiveAbsent \/ ObserveDeletingPresent
             \/ \E error \in ProviderErrors, deleting \in BOOLEAN : ObserveFails(deleting, error)
    BY <2>4, IdentityObserve
  <2>5. CASE SaveHost
    BY <2>5, IdentitySaveHost
  <2>6. CASE Create \/ CreateResponseLost \/ \E error \in ProviderErrors : CreateFails(error)
    BY <2>6, IdentityCreate
  <2>7. CASE Delete \/ DeleteResponseLost \/ \E error \in ProviderErrors : DeleteFails(error)
    BY <2>7, IdentityDelete
  <2>. QED
    BY <1>1, <2>1, <2>2, <2>3, <2>4, <2>5, <2>6, <2>7 DEF Reconcile
<1>2. CASE Crash \/ Restart
  BY <1>2, IdentityElsewhere
<1>3. CASE \/ \E c \in ClaimIds, spec \in Specs : RpcCreate(c, spec)
           \/ \E c \in ClaimIds : RpcDelete(c) \/ ElapseClaim(c)
           \/ UNCHANGED vars
  BY <1>3, IdentityUntouched DEF RpcCreate, create_claim, RpcDelete, mark_claim_deleting,
     ElapseClaim, passVars, vars
<1>4. CASE \E h \in HostIds : ElapseHost(h)
  BY <1>4, IdentityRows
<1>5. CASE \E h \in HostIds : Drift(h)
  BY <1>5 DEF Drift, IInv, TypeOK
<1>. QED
  BY <1>1, <1>2, <1>3, <1>4, <1>5 DEF Next

LEMMA IdentityInit == Init => IdentityInv
BY DEF Init, StorageInit, ProviderInit, IdentityInv, WithHost

\* IdentitiesHold: while nobody else changes the provider, the identities that the Host
\* rows and the task's memory hold are those of the resources, also after a create whose
\* response was lost, and a delete is on its way only for an identity that was written.
THEOREM IdentitiesHold ==
  ASSUME MaxDrifts = 0
  PROVE  Spec => []IdentityInv
<1>1. IInv /\ IdentityInv /\ [Next]_vars => IdentityInv'
  BY IdentityNext
<1>. QED
  BY <1>1, IdentityInit, Inductive, PTL DEF Spec

\* ConflictsComeFromOutside: so the controller never reports an ownership conflict that
\* its own creates, retries and restarts have brought about.
THEOREM ConflictsComeFromOutside ==
  ASSUME MaxDrifts = 0
  PROVE  Spec => [](pc = "observe" => ~OwnershipConflict)
<1>1. IdentityInv => (pc = "observe" => ~OwnershipConflict)
  BY DEF IdentityInv, Agrees, OwnershipConflict, observe, WithHost
<1>. QED
  BY <1>1, IdentitiesHold, PTL

LEMMA RemovalStep ==
  ASSUME IInv, IdentityInv, [Next]_vars, NEW h \in HostIds,
         resources[h] # Null, resources'[h] = Null, drifts' = drifts
  PROVE  hosts[h] # Null /\ hosts[h].rid = resources[h].id
<1>1. ProviderTypeOK /\ drifts \in Nat
  BY BoundsAssumption DEF IInv, TypeOK
<1>2. Create \/ CreateResponseLost \/ Delete \/ DeleteResponseLost
  <2>1. CASE \/ SaveHost \/ Persist \/ EnsureHost \/ Finalize
             \/ \E c \in ClaimIds, spec \in Specs : RpcCreate(c, spec)
             \/ \E c \in ClaimIds : RpcDelete(c) \/ ElapseClaim(c)
             \/ \E g \in HostIds : ElapseHost(g)
    <3>1. resources' = resources
      BY <2>1 DEF SaveHost, Persist, EnsureHost, Finalize, RpcCreate, RpcDelete, ElapseClaim,
         ElapseHost
    <3>. QED
      BY <3>1
  <2>2. CASE \E g \in HostIds : Drift(g)
    <3>1. drifts' = drifts + 1
      BY <2>2 DEF Drift
    <3>. QED
      BY <1>1, <3>1
  <2>3. CASE UNCHANGED <<storageVars, resources, drifts>>
    BY <2>3
  <2>. QED
    BY <2>1, <2>2, <2>3, Writers, Zenon DEF Writing
<1>3. CASE Create \/ CreateResponseLost
  <2>1. pc \in WithHost /\ create(hid, host.plan, ResourceIdsInUse)
    BY <1>3 DEF Create, CreateResponseLost, WithHost
  <2>2. hid \in HostIds /\ host.plan \in Plans
    BY <2>1, AtHost DEF HostRecords
  <2>3. resources'[h] # Null
    BY <1>1, <2>1, <2>2, CreateFacts, NullAssumption
  <2>. QED
    BY <2>3
<1>4. CASE Delete \/ DeleteResponseLost
  <2>1. pc = "delete" /\ pc \in WithHost /\ delete(hid)
    BY <1>4 DEF Delete, DeleteResponseLost, WithHost
  <2>2. hid \in HostIds /\ hosts[hid] # Null
    BY <2>1, AtHost
  <2>3. h = hid
    BY <1>1, <2>1, <2>2 DEF delete, ProviderTypeOK
  <2>. QED
    BY <2>1, <2>2, <2>3 DEF IdentityInv, Recorded
<1>. QED
  BY <1>2, <1>3, <1>4

\* OnlyTheRecordedIsRemoved: what ConflictStopsDestruction asks, and the daemon does not
\* keep when others change the provider, it does keep while they leave it alone.
THEOREM OnlyTheRecordedIsRemoved ==
  ASSUME MaxDrifts = 0
  PROVE  Spec => ConflictStopsDestruction
<1>1. IInv /\ IdentityInv /\ [Next]_vars
        => [\A h \in HostIds :
              resources[h] # Null /\ resources'[h] = Null /\ drifts' = drifts
                => hosts[h] # Null /\ hosts[h].rid = resources[h].id]_vars
  BY RemovalStep
<1>. QED
  BY <1>1, IdentitiesHold, Inductive, PTL DEF Spec, ConflictStopsDestruction
=============================================================================
