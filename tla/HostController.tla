--------------------------- MODULE HostController ---------------------------
(***************************************************************************)
(* The daemon: the Host controller's reconciliation loop (controller.rs)   *)
(* over the database and the provider, interleaved with the mutating RPC   *)
(* handlers (rpc.rs), crashes and restarts, storage errors, provider       *)
(* errors, lost responses, and changes at the provider made by others.     *)
(*                                                                         *)
(* `pc` names the next `await` of the controller task: every database or   *)
(* provider call is a step of its own, and everything the task computes    *)
(* between two calls belongs to the step of the first.                     *)
(***************************************************************************)
EXTENDS Storage, HostProvider

CONSTANTS
  MaxSteps,    \* MAX_STEPS_PER_WAKE
  MaxCreates,  \* bound: HostClaim rows ever inserted
  MaxFaults,   \* bound: provider errors, lost responses, storage errors, crashes
  MaxDrifts    \* bound: changes at the provider that the Control Plane did not make

ASSUME BoundsAssumption ==
  /\ MaxSteps \in Nat \ {0}
  /\ MaxCreates \in Nat /\ MaxFaults \in Nat /\ MaxDrifts \in Nat

VARIABLES
  pc,        \* the controller's next call
  steps,     \* reconcile_once calls made since the last wake
  notified,  \* the permit of ReconcileHandle.notify
  snap,      \* rows of list_claims this pass has still to visit
  cid,       \* the claim being reconciled
  claim,     \* its in-memory HostClaimRecord
  host,      \* the in-memory HostRecord
  after,     \* where the task goes once save_host has returned
  faults,    \* faults that have happened
  drifts     \* provider drifts that have happened

passVars == <<snap, cid, claim, host, after>>
vars == <<claims, hosts, clock, resources, pc, steps, notified,
          snap, cid, claim, host, after, faults, drifts>>

ProviderCalls == {"select_plan", "observe", "create", "delete"}
StorageCalls  == {"list", "visit", "ensure_host", "save_host", "persist",
                  "persist_idle", "finalize"}
Snapshots == [rec : ClaimRecords, host : HostIds \cup {Null}]

NoSnapshot == [c \in ClaimIds |-> Null]

\* The Host the claim being reconciled had when the pass listed it.
hid == snap[cid].host

-----------------------------------------------------------------------------
(* Identities issued by the daemon and by the provider are UUIDs: one that *)
(* nothing refers to any more may stand for a new one.                     *)

HostIdsInUse == {h \in HostIds : hosts[h] # Null \/ resources[h] # Null}

ResourceIdsInUse ==
  LiveResourceIds \cup {hosts[h].rid : h \in {g \in HostIds : hosts[g] # Null}}
                  \cup (IF host = Null THEN {} ELSE {host.rid})

Fault == faults < MaxFaults /\ faults' = faults + 1

-----------------------------------------------------------------------------
(* The in-memory updates of controller.rs, on a pair of records.           *)

provider_observation_is_stable(h, resource) ==
  h.phase = resource.lifecycle /\ h.rid = resource.id /\ h.retry = NoRetry

ReasonOf(lifecycle) ==
  CASE lifecycle = "Provisioning" -> "ProviderResourceProvisioning"
    [] lifecycle = "Ready"        -> "ProviderResourceReady"
    [] lifecycle = "Deleting"     -> "ProviderResourceDeleting"

apply_provider_observation(c, h, resource) ==
  [host  |-> [h EXCEPT !.rid = resource.id, !.retry = NoRetry,
                       !.phase = resource.lifecycle,
                       !.ready = ReasonOf(resource.lifecycle)],
   claim |-> [c EXCEPT !.observed = TRUE, !.retry = NoRetry,
                       !.accepted = "RequirementsValid", !.bound = "HostAssigned",
                       !.ready = IF resource.lifecycle = "Ready"
                                 THEN "HostReady" ELSE "HostNotReady"]]

mark_provider_absent(c, h) ==
  [host  |-> [h EXCEPT !.phase = "Pending", !.rid = Null, !.retry = NoRetry,
                       !.ready = "ProviderResourceAbsent"],
   claim |-> [c EXCEPT !.ready = "HostNotReady"]]

mark_outcome_unknown(c, h, kind) ==
  [host  |-> [h EXCEPT !.phase = "Provisioning", !.retry = Backoff(h.retry, kind),
                       !.ready = kind],
   claim |-> [c EXCEPT !.ready = kind]]

mark_host_failed(c, h, reason) ==
  [host  |-> [h EXCEPT !.phase = "Failed", !.retry.next = "none",
                       !.retry.error = reason, !.ready = reason],
   claim |-> [c EXCEPT !.ready = reason]]

schedule_claim_provider_error(c, error) ==
  IF error = "Definitive"
  THEN [c EXCEPT !.observed = TRUE, !.accepted = "ProviderRejected",
                 !.retry.next = "never", !.retry.error = "ProviderRejected"]
  ELSE [c EXCEPT !.observed = TRUE, !.accepted = "ProviderUnavailable",
                 !.retry = Backoff(c.retry, "ProviderUnavailable")]

schedule_host_provider_error(c, h, error) ==
  IF error = "Definitive"
  THEN mark_host_failed(c, h, "ProviderRejected")
  ELSE [host  |-> [h EXCEPT !.ready = "ProviderUnavailable",
                            !.retry = Backoff(h.retry, "ProviderUnavailable")],
        claim |-> [c EXCEPT !.ready = "ProviderUnavailable"]]

schedule_host_retry_only(h, error) ==
  IF error = "Definitive"
  THEN [h EXCEPT !.retry = [Backoff(h.retry, "ProviderRejected") EXCEPT !.next = "never"]]
  ELSE [h EXCEPT !.retry = Backoff(h.retry, "ProviderUnavailable")]

Unsatisfied(c) ==
  [c EXCEPT !.observed = TRUE, !.accepted = "Unsatisfiable", !.bound = "HostPending",
            !.ready = "HostNotReady", !.retry = NoRetry]

-----------------------------------------------------------------------------
(* What reconcile_once returns to the wake loop.                           *)

ForgetPass ==
  snap' = NoSnapshot /\ cid' = Null /\ claim' = Null /\ host' = Null /\ after' = "none"

\* Variant: the step limit is tested one step too late.
ProgressUncapped(woken) ==
  /\ ForgetPass
  /\ IF steps = MaxSteps
     THEN pc' = "select" /\ steps' = 0 /\ notified' = TRUE
     ELSE pc' = "list" /\ steps' = steps + 1 /\ notified' = (notified \/ woken)

\* Variant: the wake that ran out of steps does not ask for another one.
ProgressUnannounced(woken) ==
  /\ ForgetPass
  /\ IF steps + 1 = MaxSteps
     THEN pc' = "select" /\ steps' = 0 /\ notified' = (notified \/ woken)
     ELSE pc' = "list" /\ steps' = steps + 1 /\ notified' = (notified \/ woken)

\* Progress: start over, unless this wake has used up its steps.
Progress(woken) ==
  /\ ForgetPass
  /\ IF steps + 1 = MaxSteps
     THEN pc' = "select" /\ steps' = 0 /\ notified' = TRUE
     ELSE pc' = "list" /\ steps' = steps + 1 /\ notified' = (notified \/ woken)

\* Idle for this claim: on to the next one of the same listing.
NextClaim(c, woken) ==
  /\ snap' = [snap EXCEPT ![c] = Null]
  /\ cid' = Null /\ claim' = Null /\ host' = Null /\ after' = "none"
  /\ pc' = "visit" /\ notified' = (notified \/ woken)
  /\ UNCHANGED steps

\* A step within one pass.
Goto(call) == pc' = call /\ UNCHANGED <<steps, notified, snap>>

\* The records a step leaves in memory, with save_host as the next call.
SaveThen(pair, next) ==
  /\ Goto("save_host") /\ UNCHANGED cid
  /\ claim' = pair.claim /\ host' = pair.host /\ after' = next

-----------------------------------------------------------------------------
(* run: wait for a permit or the interval, then reconcile.                 *)

WakeByNotify ==
  /\ pc = "select" /\ notified
  /\ pc' = "list" /\ notified' = FALSE
  /\ UNCHANGED <<storageVars, resources, steps, passVars, faults, drifts>>

WakeByTick ==
  /\ pc = "select"
  /\ pc' = "list"
  /\ UNCHANGED <<storageVars, resources, steps, notified, passVars, faults, drifts>>

(* reconcile_once reads the time and lists the claims; a claim in neither  *)
(* of its two loops is left out of the snapshot.                           *)
List ==
  /\ pc = "list"
  /\ pc' = "visit"
  /\ snap' = [c \in ClaimIds |->
                IF claims[c] # Null /\ (~claims[c].deleting \/ IsDue(claims[c].retry))
                THEN [rec |-> claims[c], host |-> HostOf(c)] ELSE Null]
  /\ UNCHANGED <<storageVars, resources, steps, notified, cid, claim, host, after,
                 faults, drifts>>

\* Claims being deleted go first, then the others, each in creation order.
Before(a, b) ==
  IF a.rec.deleting = b.rec.deleting THEN a.rec.created < b.rec.created
  ELSE a.rec.deleting

Visiting(c) ==
  /\ pc = "visit" /\ snap[c] # Null
  /\ \A d \in ClaimIds \ {c} : snap[d] # Null => Before(snap[c], snap[d])

VisitUnassigned(c) ==
  /\ Visiting(c) /\ snap[c].host = Null
  /\ IF snap[c].rec.deleting \/ IsDue(snap[c].rec.retry)
     THEN /\ Goto(IF snap[c].rec.deleting THEN "finalize" ELSE "select_plan")
          /\ cid' = c /\ claim' = snap[c].rec /\ UNCHANGED <<host, after>>
     ELSE NextClaim(c, FALSE)
  /\ UNCHANGED <<storageVars, resources, faults, drifts>>

\* Variant: a Host that is Provisioning without an identity goes on with its create.
VisitAssignedResuming(c) ==
  /\ Visiting(c) /\ snap[c].host # Null
  /\ LET row == hosts[snap[c].host] IN
     /\ row # Null
     /\ IF IsDue(row.retry) /\ (snap[c].rec.deleting \/ row.phase # "Failed")
        THEN /\ Goto(IF row.phase = "Provisioning" /\ row.rid = Null
                     THEN "create" ELSE "observe")
             /\ cid' = c /\ claim' = snap[c].rec /\ host' = row /\ UNCHANGED after
        ELSE NextClaim(c, FALSE)
  /\ UNCHANGED <<storageVars, resources, faults, drifts>>

\* Variant: a Host that has failed is reconciled like any other.
VisitAssignedReviving(c) ==
  /\ Visiting(c) /\ snap[c].host # Null
  /\ LET row == hosts[snap[c].host] IN
     /\ row # Null
     /\ IF IsDue(row.retry)
        THEN /\ Goto("observe")
             /\ cid' = c /\ claim' = snap[c].rec /\ host' = row /\ UNCHANGED after
        ELSE NextClaim(c, FALSE)
  /\ UNCHANGED <<storageVars, resources, faults, drifts>>

\* get_host, and what it says about whether the Host is to be reconciled now: in
\* reconcile_once for a live claim, in reconcile_deleting_claim for one that goes.
VisitAssigned(c) ==
  /\ Visiting(c) /\ snap[c].host # Null
  /\ LET row == hosts[snap[c].host] IN
     /\ row # Null
     /\ IF IsDue(row.retry) /\ (snap[c].rec.deleting \/ row.phase # "Failed")
        THEN /\ Goto("observe")
             /\ cid' = c /\ claim' = snap[c].rec /\ host' = row /\ UNCHANGED after
        ELSE NextClaim(c, FALSE)
  /\ UNCHANGED <<storageVars, resources, faults, drifts>>

\* Every claim was Idle: back to the select.
PassIdle ==
  /\ pc = "visit" /\ snap = NoSnapshot
  /\ pc' = "select" /\ steps' = 0
  /\ UNCHANGED <<storageVars, resources, notified, passVars, faults, drifts>>

-----------------------------------------------------------------------------
(* reconcile_unbound_claim                                                 *)

SelectPlan ==
  /\ pc = "select_plan"
  /\ IF select_plan(claim.spec) # Null
     THEN Goto("ensure_host") /\ UNCHANGED <<cid, claim, host, after>>
     ELSE IF Unsatisfied(claim) # [claim EXCEPT !.retry = NoRetry]
          THEN /\ Goto("persist")
               /\ claim' = Unsatisfied(claim) /\ UNCHANGED <<cid, host, after>>
          ELSE NextClaim(cid, FALSE)
  /\ UNCHANGED <<storageVars, resources, faults, drifts>>

SelectPlanFails(error) ==
  /\ pc = "select_plan" /\ Fault
  /\ Goto("persist")
  /\ claim' = schedule_claim_provider_error(claim, error)
  /\ UNCHANGED <<storageVars, resources, cid, host, after, drifts>>

EnsureHost ==
  /\ pc = "ensure_host"
  /\ ensure_host(cid, select_plan(claim.spec), HostIdsInUse)
  /\ IF Assignable(cid) THEN Progress(FALSE) ELSE NextClaim(cid, TRUE)
  /\ UNCHANGED <<resources, faults, drifts>>

-----------------------------------------------------------------------------
(* The answer to observe, in reconcile_host and in                         *)
(* reconcile_deleting_claim.                                               *)

Observed(deleting) ==
  /\ pc = "observe" /\ claim.deleting = deleting
  /\ UNCHANGED <<storageVars, resources, drifts>>

\* The recorded identity is not the one the owner lookup returned.
OwnershipConflict == host.rid # Null /\ observe(hid) # Null /\ host.rid # observe(hid).id

\* Variant: the resource in conflict is removed.
ObserveConflictRemoving(deleting) ==
  /\ Observed(deleting) /\ OwnershipConflict
  /\ SaveThen(mark_host_failed(claim, host, "ProviderOwnershipConflict"), "delete")
  /\ UNCHANGED faults

ObserveConflict(deleting) ==
  /\ Observed(deleting) /\ OwnershipConflict
  /\ LET failed == mark_host_failed(claim, host, "ProviderOwnershipConflict") IN
     SaveThen(IF deleting THEN [failed EXCEPT !.host.retry.next = "never"] ELSE failed,
              "persist")
  /\ UNCHANGED faults

\* Variant: an observation that brings nothing new for the Host writes nothing.
ObserveLivePresentSkipping ==
  /\ Observed(FALSE) /\ observe(hid) # Null /\ ~OwnershipConflict
  /\ IF provider_observation_is_stable(host, observe(hid)) THEN NextClaim(cid, FALSE)
     ELSE SaveThen(apply_provider_observation(claim, host, observe(hid)), "persist")
  /\ UNCHANGED faults

ObserveLivePresent ==
  /\ Observed(FALSE) /\ observe(hid) # Null /\ ~OwnershipConflict
  /\ SaveThen(apply_provider_observation(claim, host, observe(hid)),
              IF provider_observation_is_stable(host, observe(hid))
              THEN "persist_idle" ELSE "persist")
  /\ UNCHANGED faults

\* Variant: the intent to create is not written before the create.
ObserveLiveAbsentUnsaved ==
  /\ Observed(FALSE) /\ observe(hid) = Null
  /\ IF host.rid # Null \/ host.phase # "Pending"
     THEN SaveThen(mark_provider_absent(claim, host), "persist")
     ELSE Goto("create") /\ UNCHANGED <<cid, claim, host, after>>
  /\ UNCHANGED faults

\* Variant: the identity of a resource that disappeared is not cleared first.
ObserveLiveAbsentKeeping ==
  /\ Observed(FALSE) /\ observe(hid) = Null
  /\ SaveThen([claim |-> claim,
               host |-> [host EXCEPT !.phase = "Provisioning", !.retry = NoRetry]],
              "create")
  /\ UNCHANGED faults

ObserveLiveAbsent ==
  /\ Observed(FALSE) /\ observe(hid) = Null
  /\ IF host.rid # Null \/ host.phase # "Pending"
     THEN SaveThen(mark_provider_absent(claim, host), "persist")
     ELSE SaveThen([claim |-> claim,
                    host |-> [host EXCEPT !.phase = "Provisioning", !.retry = NoRetry]],
                   "create")
  /\ UNCHANGED faults

\* Variant: the identity of what is about to be removed is not written first.
ObserveDeletingPresentUnsaved ==
  /\ Observed(TRUE) /\ observe(hid) # Null /\ ~OwnershipConflict
  /\ Goto("delete") /\ UNCHANGED <<cid, claim, host, after, faults>>

ObserveDeletingPresent ==
  /\ Observed(TRUE) /\ observe(hid) # Null /\ ~OwnershipConflict
  /\ SaveThen([claim |-> claim,
               host |-> [host EXCEPT !.phase = "Deleting", !.rid = observe(hid).id,
                                     !.retry = NoRetry]],
              "delete")
  /\ UNCHANGED faults

ObserveDeletingAbsent ==
  /\ Observed(TRUE) /\ observe(hid) = Null
  /\ Goto("finalize") /\ host' = Null
  /\ UNCHANGED <<cid, claim, after, faults>>

\* Variant: while deleting, a lookup that fails counts as Absent.
ObserveFailsAsAbsent(deleting, error) ==
  /\ Observed(deleting) /\ Fault
  /\ IF deleting
     THEN Goto("finalize") /\ host' = Null /\ UNCHANGED <<cid, claim, after>>
     ELSE SaveThen(schedule_host_provider_error(claim, host, error), "persist")

ObserveFails(deleting, error) ==
  /\ Observed(deleting) /\ Fault
  /\ IF deleting
     THEN SaveThen([claim |-> claim, host |-> schedule_host_retry_only(host, error)],
                   "progress")
     ELSE SaveThen(schedule_host_provider_error(claim, host, error), "persist")

-----------------------------------------------------------------------------
(* The provider mutations and the writes that follow them.                 *)

SaveHost ==
  /\ pc = "save_host"
  /\ save_host(hid, host)
  /\ IF after = "progress" THEN Progress(FALSE)
     ELSE Goto(after) /\ after' = "none" /\ UNCHANGED <<cid, claim, host>>
  /\ UNCHANGED <<resources, faults, drifts>>

\* Variant: the Host is not saved once the create has returned.
CreateUnsaved ==
  /\ pc = "create"
  /\ create(hid, host.plan, ResourceIdsInUse)
  /\ Goto("persist") /\ UNCHANGED <<cid, after>>
  /\ LET seen == apply_provider_observation(claim, host, resources'[hid]) IN
     claim' = seen.claim /\ host' = seen.host
  /\ UNCHANGED <<storageVars, faults, drifts>>

Create ==
  /\ pc = "create"
  /\ create(hid, host.plan, ResourceIdsInUse)
  /\ SaveThen(apply_provider_observation(claim, host, resources'[hid]), "persist")
  /\ UNCHANGED <<storageVars, faults, drifts>>

CreateResponseLost ==
  /\ pc = "create" /\ Fault
  /\ create(hid, host.plan, ResourceIdsInUse)
  /\ SaveThen(mark_outcome_unknown(claim, host, "CreateOutcomeUnknown"), "persist")
  /\ UNCHANGED <<storageVars, drifts>>

CreateFails(error) ==
  /\ pc = "create" /\ Fault
  /\ SaveThen(schedule_host_provider_error(claim, host, error), "persist")
  /\ UNCHANGED <<storageVars, resources, drifts>>

Delete ==
  /\ pc = "delete"
  /\ delete(hid)
  /\ SaveThen([claim |-> claim, host |-> [host EXCEPT !.retry = NoRetry]], "progress")
  /\ UNCHANGED <<storageVars, faults, drifts>>

DeleteResponseLost ==
  /\ pc = "delete" /\ Fault
  /\ delete(hid)
  /\ SaveThen([claim |-> claim,
               host |-> [host EXCEPT !.retry.next = "later",
                                     !.retry.error = "DeleteOutcomeUnknown"]],
              "progress")
  /\ UNCHANGED <<storageVars, drifts>>

DeleteFails(error) ==
  /\ pc = "delete" /\ Fault
  /\ SaveThen([claim |-> claim, host |-> schedule_host_retry_only(host, error)], "progress")
  /\ UNCHANGED <<storageVars, resources, drifts>>

\* persist_claim_status: a status the claim has outgrown is dropped, with a wake.
Persist ==
  /\ pc \in {"persist", "persist_idle"}
  /\ save_claim_status(cid, claim)
  /\ LET stale == ~StatusIsCurrent(cid, claim) IN
     IF pc = "persist" THEN Progress(stale) ELSE NextClaim(cid, stale)
  /\ UNCHANGED <<resources, faults, drifts>>

Finalize ==
  /\ pc = "finalize"
  /\ finalize_claim(cid)
  /\ Progress(FALSE)
  /\ UNCHANGED <<resources, faults, drifts>>

-----------------------------------------------------------------------------
(* A database error leaves the tables alone and ends the pass and the wake. *)
(* A visit calls the database only for the Host of a claim that has one.    *)
StorageError ==
  /\ pc \in StorageCalls /\ Fault
  /\ pc = "visit" => \E c \in ClaimIds : Visiting(c) /\ snap[c].host # Null
  /\ pc' = "select" /\ steps' = 0 /\ ForgetPass
  /\ UNCHANGED <<storageVars, resources, notified, drifts>>

(* The process dies, or stops on a signal; memory and the permit are lost. *)
Crash ==
  /\ pc # "down" /\ Fault
  /\ pc' = "down" /\ steps' = 0 /\ notified' = FALSE /\ ForgetPass
  /\ UNCHANGED <<storageVars, resources, drifts>>

\* run begins with a wake of its own.
Restart ==
  /\ pc = "down"
  /\ pc' = "select" /\ notified' = TRUE
  /\ UNCHANGED <<storageVars, resources, steps, passVars, faults, drifts>>

-----------------------------------------------------------------------------
(* The mutating RPC handlers.  A handler that is dropped after its commit  *)
(* (the 30 s timeout, a closed connection) never gets to its wake.         *)

RpcWake == \E delivered \in BOOLEAN : notified' = (notified \/ delivered)

RpcCreate(c, spec) ==
  /\ pc # "down" /\ clock < MaxCreates
  /\ create_claim(c, spec)
  /\ RpcWake
  /\ UNCHANGED <<resources, pc, steps, passVars, faults, drifts>>

RpcDelete(c) ==
  /\ pc # "down"
  /\ mark_claim_deleting(c)
  /\ RpcWake
  /\ UNCHANGED <<resources, pc, steps, passVars, faults, drifts>>

-----------------------------------------------------------------------------
(* Deadlines are compared with the time read when a pass begins, so a      *)
(* deadline is reached between passes.                                     *)

BetweenPasses == pc \in {"down", "select", "list"}

ElapseClaim(c) ==
  /\ BetweenPasses /\ claims[c] # Null /\ claims[c].retry.next = "later"
  /\ claims' = [claims EXCEPT ![c].retry.next = "due"]
  /\ UNCHANGED <<hosts, clock, resources, pc, steps, notified, passVars, faults, drifts>>

ElapseHost(h) ==
  /\ BetweenPasses /\ hosts[h] # Null /\ hosts[h].retry.next = "later"
  /\ hosts' = [hosts EXCEPT ![h].retry.next = "due"]
  /\ UNCHANGED <<claims, clock, resources, pc, steps, notified, passVars, faults, drifts>>

Drift(h) ==
  /\ drifts < MaxDrifts /\ drifts' = drifts + 1
  /\ \/ DriftRemove(h)
     \/ DriftReplace(h, ResourceIdsInUse)
     \/ \E lifecycle \in Lifecycles : DriftLifecycle(h, lifecycle)
  /\ UNCHANGED <<storageVars, pc, steps, notified, passVars, faults>>

-----------------------------------------------------------------------------
Init ==
  /\ StorageInit /\ ProviderInit
  /\ pc = "select" /\ steps = 0 /\ notified = TRUE
  /\ snap = NoSnapshot /\ cid = Null /\ claim = Null /\ host = Null /\ after = "none"
  /\ faults = 0 /\ drifts = 0

\* One step of the controller task.
Reconcile ==
  \/ WakeByNotify \/ WakeByTick \/ List \/ PassIdle
  \/ \E c \in ClaimIds : VisitUnassigned(c) \/ VisitAssigned(c)
  \/ SelectPlan \/ EnsureHost
  \/ \E deleting \in BOOLEAN : ObserveConflict(deleting)
  \/ ObserveLivePresent \/ ObserveLiveAbsent
  \/ ObserveDeletingPresent \/ ObserveDeletingAbsent
  \/ SaveHost \/ Create \/ CreateResponseLost \/ Delete \/ DeleteResponseLost
  \/ \E error \in ProviderErrors :
       \/ SelectPlanFails(error) \/ CreateFails(error) \/ DeleteFails(error)
       \/ \E deleting \in BOOLEAN : ObserveFails(deleting, error)
  \/ Persist \/ Finalize \/ StorageError

Next ==
  \/ Reconcile
  \/ Crash \/ Restart
  \/ \E c \in ClaimIds, spec \in Specs : RpcCreate(c, spec)
  \/ \E c \in ClaimIds : RpcDelete(c)
  \/ \E c \in ClaimIds : ElapseClaim(c)
  \/ \E h \in HostIds : ElapseHost(h) \/ Drift(h)

Spec == Init /\ [][Next]_vars

(* The task is polled and the interval keeps ticking; the service manager  *)
(* restarts a daemon that died; and wall-clock time reaches every          *)
(* deadline, which is seen each time a pass is about to begin.             *)
Fairness ==
  /\ WF_vars(Reconcile) /\ WF_vars(Restart)
  /\ \A c \in ClaimIds : SF_vars(ElapseClaim(c))
  /\ \A h \in HostIds : SF_vars(ElapseHost(h))

FairSpec == Spec /\ Fairness

(* As long as nothing has failed, a pass begins only on a permit, and the  *)
(* handlers get to their wakes: neither then needs the interval.           *)
Punctual == faults = 0 => ~WakeByTick /\ (pc' = pc /\ claims' # claims => notified')

PunctualSpec ==
  /\ Init /\ [][Next /\ Punctual]_vars
  /\ WF_vars(Reconcile /\ Punctual) /\ WF_vars(Restart)
  /\ \A c \in ClaimIds : SF_vars(ElapseClaim(c))
  /\ \A h \in HostIds : SF_vars(ElapseHost(h))

-----------------------------------------------------------------------------
\* TypeOK: the state keeps its types, and a wake never takes more steps than
\* MAX_STEPS_PER_WAKE.
TypeOK ==
  /\ StorageTypeOK /\ ProviderTypeOK
  /\ pc \in {"down", "select"} \cup ProviderCalls \cup StorageCalls
  /\ steps \in 0..(MaxSteps - 1) /\ notified \in BOOLEAN
  /\ snap \in [ClaimIds -> Snapshots \cup {Null}]
  /\ cid \in ClaimIds \cup {Null}
  /\ claim \in ClaimRecords \cup {Null}
  /\ host \in HostRecords \cup {Null}
  /\ after \in {"none", "create", "delete", "persist", "persist_idle", "progress"}
  /\ faults \in 0..MaxFaults /\ drifts \in 0..MaxDrifts

\* NoOrphanedResource: a provider resource always belongs to a Host row of a
\* claim row, through lost responses, crashes between create and save_host, and
\* deletion requested while a create is under way (finalize_claim drops the only
\* record by which a resource could be found again).
NoOrphanedResource ==
  \A h \in HostIds : resources[h] # Null =>
    hosts[h] # Null /\ claims[hosts[h].claim] # Null

\* IntentPrecedesResource: the database knows of a creation before the provider
\* does.  A Host whose row says Pending owns nothing, so that a daemon that
\* restarts never takes an existing resource for one it has yet to ask for.
IntentPrecedesResource ==
  \A h \in HostIds : resources[h] # Null => hosts[h] # Null /\ hosts[h].phase # "Pending"

\* CreateOnlyWhenAbsent: create is called only for a Host that owns nothing, also
\* after a lost response, a failed write or a crash left the outcome of an earlier
\* create unknown: it is rediscovered by Host id, never repeated.  And only once its
\* row names no resource any more: the identity of one that disappeared would make
\* the new one look like an ownership conflict.
CreateOnlyWhenAbsent == pc = "create" => resources[hid] = Null /\ hosts[hid].rid = Null

\* RowsOutliveMemory: the rows the controller holds copies of are still there when
\* it comes back to them after an await, so no call of the pass answers NotFound;
\* ensure_host never meets a Host it did not list; and a claim is finalized only
\* with deletion requested and no resource left.
RowsOutliveMemory ==
  /\ \A c \in ClaimIds : snap[c] # Null =>
       /\ claims[c] # Null
       /\ snap[c].rec.deleting => claims[c].deleting
       /\ IF snap[c].host = Null THEN HostRowsOf(c) = {}
                                 ELSE HostRowsOf(c) = {snap[c].host}
  /\ pc = "finalize" =>
       claims[cid].deleting /\ \A h \in HostRowsOf(cid) : resources[h] = Null

\* DeletionIntentKept: once deletion was requested, the status says so (or says why
\* it cannot proceed): a status computed from the claim as it was before the request
\* is never written over it by persist_claim_status.
DeletionIntentKept ==
  \A c \in ClaimIds : claims[c] # Null /\ claims[c].deleting =>
    claims[c].ready \in {"DeletionRequested", "ProviderOwnershipConflict"}

\* ReadyOnlyAfterHost: a claim turns Ready only while its Host row, written before,
\* says Ready and names the resource; save_host comes before persist_claim_status.
ReadyOnlyAfterHost ==
  [][\A c \in ClaimIds :
       /\ claims'[c] # Null /\ claims'[c].ready = "HostReady"
       /\ claims[c] = Null \/ claims[c].ready # "HostReady"
       => \E h \in HostRowsOf(c) : hosts[h].phase = "Ready" /\ hosts[h].rid # Null]_vars

\* FailedIsSticky: a Host that failed is left alone until its claim is deleted; no
\* later observation, and no status computed before the failure, revives it.
FailedIsSticky ==
  [][\A h \in HostIds :
       /\ hosts[h] # Null /\ hosts[h].phase = "Failed"
       /\ hosts'[h] = Null \/ hosts'[h].phase # "Failed"
       => claims[hosts[h].claim].deleting]_vars

-----------------------------------------------------------------------------
(* The refinement of HostClaimLifecycle.                                   *)

Demand == [c \in ClaimIds |-> IF claims[c] = Null THEN "absent"
                              ELSE IF claims[c].deleting THEN "released" ELSE "wanted"]

Held == {c \in ClaimIds : \E h \in HostRowsOf(c) : resources[h] # Null}

Unowned == {h \in HostIds : resources[h] # Null
                              /\ ~\E c \in ClaimIds : claims[c] # Null /\ h \in HostRowsOf(c)}

Lifecycle == INSTANCE HostClaimLifecycle
               WITH demand <- Demand, held <- Held, unowned <- Unowned

\* LifecycleRefined: the daemon implements HostClaimLifecycle.
LifecycleRefined == Lifecycle!Spec

-----------------------------------------------------------------------------
(* Liveness.                                                               *)

Live(c) == claims[c] # Null /\ ~claims[c].deleting

\* Reconciliation has given up on the claim's Host until someone intervenes, and the
\* row says why.
Frozen(c) ==
  \E h \in HostRowsOf(c) :
    /\ hosts[h].retry.next = "never"
    /\ hosts[h].retry.error \in {"ProviderRejected", "ProviderOwnershipConflict"}

Settled(c) ==
  \/ claims[c].ready = "HostReady"
  \/ claims[c].accepted \in {"Unsatisfiable", "ProviderRejected"}
  \/ \E h \in HostRowsOf(c) :
       \/ hosts[h].phase = "Failed"
       \/ resources[h] # Null /\ resources[h].lifecycle # "Ready"

\* DeletionCompletes: a claim whose deletion was requested is finalized, unless the
\* provider definitively refused the deletion or ownership is in doubt, which the Host
\* row then records.  Until something fails, the wakes suffice for it.
DeletionCompletes ==
  \A c \in ClaimIds :
    (claims[c] # Null /\ claims[c].deleting) ~> (claims[c] = Null \/ Frozen(c))

\* DemandIsMet: a claim becomes Ready, is refused for good, waits for a resource the
\* provider holds back, or is deleted; a lost wake, response or pass only delays it.
\* Until something fails it takes no interval: a wake that runs out of steps leaves a
\* permit, and one permit does for two requests.
DemandIsMet ==
  \A c \in ClaimIds : Live(c) ~> (~Live(c) \/ Settled(c))

\* StatusConverges: once the outside world is quiet, the status of every claim whose
\* Host has not failed says Ready exactly when the provider resource is Ready.
StatusConverges ==
  <>[](\A c \in ClaimIds : Live(c) =>
         \A h \in HostRowsOf(c) : hosts[h].phase # "Failed" =>
           ((claims[c].ready = "HostReady")
              <=> (resources[h] # Null /\ resources[h].lifecycle = "Ready")))

\* FailedHostIsReported: a live claim whose Host has failed does not go on saying
\* Ready (the claim's Ready condition is what a consumer of the Host relies on).
FailedHostIsReported ==
  \A c \in ClaimIds :
    (Live(c) /\ \E h \in HostRowsOf(c) : hosts[h].phase = "Failed")
      ~> (~Live(c) \/ claims[c].ready # "HostReady")

-----------------------------------------------------------------------------
(* Statements of the documentation that the code does not keep.            *)

\* ConflictStopsDestruction: the Control Plane removes only the resource whose
\* identity it recorded and compared before: destructive operations stop when
\* ownership is contradictory.
ConflictStopsDestruction ==
  [][\A h \in HostIds :
       resources[h] # Null /\ resources'[h] = Null /\ drifts' = drifts
         => hosts[h] # Null /\ hosts[h].rid = resources[h].id]_vars
=============================================================================
