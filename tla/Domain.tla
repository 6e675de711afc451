------------------------------- MODULE Domain -------------------------------
(***************************************************************************)
(* The records of the Control Plane (domain.rs, resources.rs, the SQL      *)
(* schema) and the pure functions on them.                                 *)
(*                                                                         *)
(* Timestamps, messages and logging are left out.  A condition is its      *)
(* reason: every reason the code writes comes with one fixed status.  A    *)
(* deadline is abstracted to how it compares with the `now_ms` of the      *)
(* reconciliation pass that reads it.                                      *)
(***************************************************************************)
EXTENDS Naturals

CONSTANTS
  ClaimIds,      \* caller-chosen HostClaim UUIDs
  HostIds,       \* Host UUIDs the Control Plane issues
  ResourceIds,   \* provider resource identities
  Specs,         \* HostClaimSpec values
  Plans,         \* provider plan identities
  Null,          \* None / SQL NULL / no such row
  MaxAttempt     \* where the saturating retry counter saturates (u32::MAX)

ASSUME MaxAttemptAssumption == MaxAttempt \in Nat \ {0}

-----------------------------------------------------------------------------
(* RetryState.  `next` is next_reconcile_at_unix_ms: "none" is NULL, "later" *)
(* a deadline after the current pass, "due" one that has been reached, and   *)
(* "never" is i64::MAX.                                                      *)

Errors == {"none", "ProviderUnavailable", "ProviderRejected",
           "ProviderOwnershipConflict", "CreateOutcomeUnknown",
           "DeleteOutcomeUnknown"}

RetryStates == [attempt : 0..MaxAttempt,
                next    : {"none", "later", "due", "never"},
                error   : Errors]

NoRetry == [attempt |-> 0, next |-> "none", error |-> "none"]

\* Variant: only a record without a deadline is due.
IsDueOnlyUnset(retry) == retry.next = "none"

IsDue(retry) == retry.next \in {"none", "due"}

\* u32::saturating_add(1)
NextAttempt(retry) ==
  IF retry.attempt = MaxAttempt THEN MaxAttempt ELSE retry.attempt + 1

Backoff(retry, error) ==
  [attempt |-> NextAttempt(retry), next |-> "later", error |-> error]

-----------------------------------------------------------------------------
(* HostClaim rows.  `created` orders the rows as created_at does, `deleting` *)
(* is deletion_timestamp.is_some(), and `observed` is                        *)
(* observed_generation = generation (the generation is always 1).            *)

AcceptedReasons == {"PendingEvaluation", "RequirementsValid", "Unsatisfiable",
                    "ProviderRejected", "ProviderUnavailable"}
BoundReasons    == {"HostPending", "HostAssigned"}
ReadyReasons    == {"HostNotReady", "HostReady", "DeletionRequested"}
                     \cup (Errors \ {"none"})

ClaimRecords == [spec     : Specs,
                 created  : Nat,
                 deleting : BOOLEAN,
                 observed : BOOLEAN,
                 accepted : AcceptedReasons,
                 bound    : BoundReasons,
                 ready    : ReadyReasons,
                 retry    : RetryStates]

InitialClaim(spec, created) ==
  [spec |-> spec, created |-> created, deleting |-> FALSE, observed |-> FALSE,
   accepted |-> "PendingEvaluation", bound |-> "HostPending",
   ready |-> "HostNotReady", retry |-> NoRetry]

-----------------------------------------------------------------------------
(* Host rows and provider resources.  `rid` is provider_resource_id.       *)

Phases     == {"Pending", "Provisioning", "Ready", "Deleting", "Failed"}
Lifecycles == {"Provisioning", "Ready", "Deleting"}

HostReadyReasons == {"ProviderResourcePending", "ProviderResourceProvisioning",
                     "ProviderResourceReady", "ProviderResourceDeleting",
                     "ProviderResourceAbsent"} \cup (Errors \ {"none"})

HostRecords == [claim : ClaimIds,
                plan  : Plans,
                phase : Phases,
                rid   : ResourceIds \cup {Null},
                ready : HostReadyReasons,
                retry : RetryStates]

InitialHost(claim, plan) ==
  [claim |-> claim, plan |-> plan, phase |-> "Pending", rid |-> Null,
   ready |-> "ProviderResourcePending", retry |-> NoRetry]

ResourceRecords == [id : ResourceIds, plan : Plans, lifecycle : Lifecycles]

\* Null is none of the values it stands beside.
ASSUME NullAssumption ==
  /\ Null \notin ClaimIds /\ Null \notin HostIds /\ Null \notin ResourceIds
  /\ Null \notin Plans /\ Null \notin ClaimRecords /\ Null \notin HostRecords
  /\ Null \notin ResourceRecords
=============================================================================
