---------------------------- MODULE HostProvider ----------------------------
(***************************************************************************)
(* The infrastructure provider behind the HostProvider trait               *)
(* (provider/mod.rs), with the state and the effects of the fake provider  *)
(* (provider/fake.rs): a table of resources, at most one per Host id, and  *)
(* a catalog of plans that does not change while the daemon runs.          *)
(*                                                                         *)
(* An operation takes effect or fails without effect; a lost response is   *)
(* an effect whose caller learns only OutcomeUnknown.  Which of these      *)
(* happens is chosen by the module that calls the provider.                *)
(***************************************************************************)
EXTENDS Domain

CONSTANT PlanFor   \* what select_plan answers: [Specs -> Plans \cup {Null}]

ASSUME PlanForAssumption == PlanFor \in [Specs -> Plans \cup {Null}]

VARIABLE resources   \* provider_resources by owner: HostIds -> row or Null

ProviderTypeOK == resources \in [HostIds -> ResourceRecords \cup {Null}]

ProviderInit == resources = [h \in HostIds |-> Null]

\* Definitive or Transient, as the trait allows every operation to answer.
ProviderErrors == {"Definitive", "Transient"}

LiveResourceIds == {resources[h].id : h \in {g \in HostIds : resources[g] # Null}}

UnusedResourceId(inUse) == CHOOSE r \in ResourceIds \ inUse : TRUE

select_plan(spec) == PlanFor[spec]

\* The resource found by its owner's id; Null is Absent.
observe(h) == resources[h]

(* create finds what the Host already owns before it inserts a new row; a  *)
(* resource of another plan is an error, which the caller's failing create *)
(* stands for.                                                             *)
CreatedResource(h, plan, inUse) ==
  IF resources[h] # Null THEN resources[h]
  ELSE [id |-> UnusedResourceId(inUse), plan |-> plan, lifecycle |-> "Ready"]

create(h, plan, inUse) ==
  /\ IF resources[h] # Null THEN resources[h].plan = plan
                            ELSE ResourceIds \ inUse # {}
  /\ resources' = [resources EXCEPT ![h] = CreatedResource(h, plan, inUse)]

\* delete removes whatever the Host owns, and succeeds when it owns nothing.
delete(h) == resources' = [resources EXCEPT ![h] = Null]

-----------------------------------------------------------------------------
(* What happens at the provider without the Control Plane: a resource is   *)
(* removed, is replaced by another one with the same owner, or changes its *)
(* lifecycle.                                                              *)

DriftRemove(h) ==
  /\ resources[h] # Null
  /\ resources' = [resources EXCEPT ![h] = Null]

DriftReplace(h, inUse) ==
  /\ resources[h] # Null
  /\ ResourceIds \ inUse # {}
  /\ resources' = [resources EXCEPT ![h].id = UnusedResourceId(inUse)]

DriftLifecycle(h, lifecycle) ==
  /\ resources[h] # Null
  /\ resources[h].lifecycle # lifecycle
  /\ resources' = [resources EXCEPT ![h].lifecycle = lifecycle]
=============================================================================
