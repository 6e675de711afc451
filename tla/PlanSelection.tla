---------------------------- MODULE PlanSelection ----------------------------
(***************************************************************************)
(* FakeProvider::select_plan: the query over the plan catalog that decides *)
(* which plan a claim gets.  HostController takes the answer as a constant *)
(* function of the spec (PlanFor); here it is what the query may return,   *)
(* in whatever order the database visits the rows.                         *)
(***************************************************************************)
EXTENDS Integers

CONSTANTS
  PlanIds,       \* primary keys, in the order of their text
  Offers,        \* what a row may hold: resources, hourly price, enabled
  Requirements,  \* HostResources asked for
  MaxI64,        \* i64::MAX
  None           \* no plan

\* The CHECK constraints of the table, and the unsigned types of HostResources.
ASSUME CatalogAssumption ==
  /\ PlanIds \subseteq Nat /\ None \notin PlanIds /\ MaxI64 \in Nat
  /\ Offers \subseteq [vcpus : Nat, memory_bytes : Nat, storage_bytes : Nat,
                      hourly_price_micros : Nat, enabled : BOOLEAN]
  /\ Requirements \subseteq [vcpus : Nat, memory_bytes : Nat, storage_bytes : Nat]

VARIABLES
  catalog,   \* PlanIds -> offer, written by seed_catalog
  wanted,    \* the requirements of the claim
  answer     \* how the query ended, if it has, and the plan

vars == <<catalog, wanted, answer>>

-----------------------------------------------------------------------------
InRange(r) == r.memory_bytes <= MaxI64 /\ r.storage_bytes <= MaxI64

\* The WHERE clause.
Matches(p, r) ==
  /\ catalog[p].enabled
  /\ catalog[p].vcpus >= r.vcpus
  /\ catalog[p].memory_bytes >= r.memory_bytes
  /\ catalog[p].storage_bytes >= r.storage_bytes

\* Variant: the id is not a sort key.
SortKeyWithoutId(p) ==
  <<catalog[p].hourly_price_micros, catalog[p].memory_bytes,
    catalog[p].storage_bytes, catalog[p].vcpus, 0>>

\* Variant: the smallest plan comes first.
SortKeyBySize(p) ==
  <<catalog[p].memory_bytes, catalog[p].storage_bytes, catalog[p].vcpus,
    catalog[p].hourly_price_micros, p>>

\* The ORDER BY clause.
SortKey(p) ==
  <<catalog[p].hourly_price_micros, catalog[p].memory_bytes,
    catalog[p].storage_bytes, catalog[p].vcpus, p>>

Precedes(p, q) ==
  \E i \in 1..5 : /\ SortKey(p)[i] < SortKey(q)[i]
                  /\ \A j \in 1..(i - 1) : SortKey(p)[j] = SortKey(q)[j]

Candidates(r) == {p \in PlanIds : Matches(p, r)}

\* LIMIT 1: a row that no other one precedes.  Rows with equal keys have no order.
FirstRows(r) == {p \in Candidates(r) : \A q \in Candidates(r) : ~Precedes(q, p)}

\* The answers a call may get for requirements r, unless the database fails.
Answers(r) ==
  IF ~InRange(r) THEN {[kind |-> "Definitive", plan |-> None]}
  ELSE IF Candidates(r) = {} THEN {[kind |-> "ok", plan |-> None]}
  ELSE {[kind |-> "ok", plan |-> p] : p \in FirstRows(r)}

Pending   == [kind |-> "pending", plan |-> None]
Transient == [kind |-> "Transient", plan |-> None]

select_plan ==
  /\ answer = Pending
  /\ answer' \in Answers(wanted) \cup {Transient}
  /\ UNCHANGED <<catalog, wanted>>

\* A transient error is retried by the controller.
Again ==
  /\ answer = Transient /\ answer' = Pending
  /\ UNCHANGED <<catalog, wanted>>

-----------------------------------------------------------------------------
Init ==
  /\ catalog \in [PlanIds -> Offers]
  /\ wanted \in Requirements
  /\ answer = Pending

Next == select_plan \/ Again

Spec == Init /\ [][Next]_vars

-----------------------------------------------------------------------------
\* CheapestAdequate: the plan a claim gets is on offer, has at least the resources asked
\* for, and no plan on offer that has them costs less; there is none only if no plan
\* has them.
CheapestAdequate ==
  LET Adequate == {p \in PlanIds :
                     /\ catalog[p].enabled
                     /\ \A k \in {"vcpus", "memory_bytes", "storage_bytes"} :
                          catalog[p][k] >= wanted[k]}
  IN  answer.kind = "ok" =>
        IF Adequate = {} THEN answer.plan = None
        ELSE /\ answer.plan \in Adequate
             /\ \A p \in Adequate : catalog[answer.plan].hourly_price_micros
                                      <= catalog[p].hourly_price_micros

\* SelectionIsStable: a selection that is repeated, because the daemon died or the
\* database failed between select_plan and ensure_host, can only have the same answer,
\* whatever the order of the rows ("deterministic plan selection").
SelectionIsStable ==
  answer.kind \in {"ok", "Definitive"} => Answers(wanted) = {answer}
=============================================================================
