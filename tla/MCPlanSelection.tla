--------------------------- MODULE MCPlanSelection ---------------------------
EXTENDS PlanSelection

Offer(vcpus, memory, storage, price, enabled) ==
  [vcpus |-> vcpus, memory_bytes |-> memory, storage_bytes |-> storage,
   hourly_price_micros |-> price, enabled |-> enabled]

\* Every pair that differs in one sort key only, ties, and a plan not on offer.
MCOffers ==
  {Offer(v, m, s, p, TRUE) : v \in {1, 2}, m \in {1, 2}, s \in {1, 2}, p \in {0, 1}}
    \cup {Offer(2, 2, 2, 0, FALSE)}

\* Each quantity alone, or several, may exceed an offer, and the last two i64.
MCRequirements ==
  {[vcpus |-> v, memory_bytes |-> m, storage_bytes |-> s] :
     v \in {1, 2}, m \in {1, 2, MaxI64 + 1}, s \in {1, 2, MaxI64 + 1}}
=============================================================================
