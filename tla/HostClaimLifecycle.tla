------------------------- MODULE HostClaimLifecycle -------------------------
(***************************************************************************)
(* What the Control Plane promises about a HostClaim, whatever goes on     *)
(* inside: infrastructure exists only on behalf of a claim, it is taken    *)
(* away by the Control Plane only after the claim was released, and a      *)
(* claim is forgotten only once it was released and holds nothing.  The    *)
(* provider may lose or change a resource by itself; that is counted.      *)
(***************************************************************************)
EXTENDS Naturals

CONSTANT ClaimIds

VARIABLES
  demand,   \* "absent", "wanted" or "released", for each claim
  held,     \* the claims on whose behalf a provider resource exists
  unowned,  \* provider resources that belong to no claim
  drifts    \* changes at the provider that the Control Plane did not make

vars == <<demand, held, unowned, drifts>>

Init ==
  /\ demand = [c \in ClaimIds |-> "absent"]
  /\ held = {} /\ unowned = {} /\ drifts = 0

Submit(c) ==
  /\ demand[c] = "absent"
  /\ demand' = [demand EXCEPT ![c] = "wanted"]
  /\ UNCHANGED <<held, unowned, drifts>>

Release(c) ==
  /\ demand[c] = "wanted"
  /\ demand' = [demand EXCEPT ![c] = "released"]
  /\ UNCHANGED <<held, unowned, drifts>>

\* A creation under way when the claim is released may still complete.
Provision(c) ==
  /\ demand[c] # "absent" /\ c \notin held
  /\ held' = held \cup {c}
  /\ UNCHANGED <<demand, unowned, drifts>>

Deprovision(c) ==
  /\ demand[c] = "released" /\ c \in held
  /\ held' = held \ {c}
  /\ UNCHANGED <<demand, unowned, drifts>>

Retire(c) ==
  /\ demand[c] = "released" /\ c \notin held
  /\ demand' = [demand EXCEPT ![c] = "absent"]
  /\ UNCHANGED <<held, unowned, drifts>>

Drift ==
  /\ drifts' = drifts + 1
  /\ held' \in {held} \cup {held \ {c} : c \in held}
  /\ UNCHANGED <<demand, unowned>>

Next ==
  \/ \E c \in ClaimIds : Submit(c) \/ Release(c) \/ Provision(c)
                           \/ Deprovision(c) \/ Retire(c)
  \/ Drift

Spec == Init /\ [][Next]_vars
=============================================================================
