------------------------- MODULE PlanSelectionProofs -------------------------
(***************************************************************************)
(* Proofs about PlanSelection for every catalog, finite or not: the ORDER  *)
(* BY clause orders the rows totally, its LIMIT 1 is defined, and so the   *)
(* query is the function of the requirements that HostController takes it  *)
(* for.                                                                    *)
(***************************************************************************)
EXTENDS PlanSelection, WellFoundedInduction, TLAPS

CatalogInv ==
  /\ catalog \in [PlanIds -> Offers]
  /\ wanted \in Requirements
  /\ answer \in Answers(wanted) \cup {Pending, Transient}

\* The order of the rows, one sort key after the other.
Before(p, q) ==
  LET a == catalog[p]
      b == catalog[q]
  IN  \/ a.hourly_price_micros < b.hourly_price_micros
      \/ /\ a.hourly_price_micros = b.hourly_price_micros
         /\ \/ a.memory_bytes < b.memory_bytes
            \/ /\ a.memory_bytes = b.memory_bytes
               /\ \/ a.storage_bytes < b.storage_bytes
                  \/ /\ a.storage_bytes = b.storage_bytes
                     /\ \/ a.vcpus < b.vcpus
                        \/ a.vcpus = b.vcpus /\ p < q

\* The members of T where f is least.
Leasts(T, f) == {p \in T : \A q \in T : f[p] <= f[q]}

-----------------------------------------------------------------------------
LEMMA OfferTypes ==
  ASSUME CatalogInv, NEW p \in PlanIds
  PROVE  /\ p \in Nat
         /\ catalog[p].hourly_price_micros \in Nat /\ catalog[p].memory_bytes \in Nat
         /\ catalog[p].storage_bytes \in Nat /\ catalog[p].vcpus \in Nat
  BY CatalogAssumption DEF CatalogInv

\* Comparing the sort keys as tuples is comparing them one by one.
LEMMA PrecedesIsBefore ==
  ASSUME CatalogInv, NEW p \in PlanIds, NEW q \in PlanIds
  PROVE  Precedes(p, q) <=> Before(p, q)
<1> DEFINE k == SortKey(p)
           l == SortKey(q)
<1>1. /\ k[1] = catalog[p].hourly_price_micros /\ k[2] = catalog[p].memory_bytes
      /\ k[3] = catalog[p].storage_bytes /\ k[4] = catalog[p].vcpus /\ k[5] = p
  BY DEF SortKey
<1>2. /\ l[1] = catalog[q].hourly_price_micros /\ l[2] = catalog[q].memory_bytes
      /\ l[3] = catalog[q].storage_bytes /\ l[4] = catalog[q].vcpus /\ l[5] = q
  BY DEF SortKey
<1> HIDE DEF k, l
<1>3. Precedes(p, q) <=>
        \/ k[1] < l[1]
        \/ k[1] = l[1] /\ k[2] < l[2]
        \/ k[1] = l[1] /\ k[2] = l[2] /\ k[3] < l[3]
        \/ k[1] = l[1] /\ k[2] = l[2] /\ k[3] = l[3] /\ k[4] < l[4]
        \/ k[1] = l[1] /\ k[2] = l[2] /\ k[3] = l[3] /\ k[4] = l[4] /\ k[5] < l[5]
  <2>1. Precedes(p, q) <=> \E i \in 1..5 : /\ k[i] < l[i]
                                           /\ \A j \in 1..(i - 1) : k[j] = l[j]
    BY DEF Precedes, k, l
  <2>2. 1..5 = {1, 2, 3, 4, 5}
    OBVIOUS
  <2>3. /\ 1..(1 - 1) = {} /\ 1..(2 - 1) = {1} /\ 1..(3 - 1) = {1, 2}
        /\ 1..(4 - 1) = {1, 2, 3} /\ 1..(5 - 1) = {1, 2, 3, 4}
    OBVIOUS
  <2> QED  BY <2>1, <2>2, <2>3
<1> QED  BY <1>1, <1>2, <1>3 DEF Before

\* The primary key is the last sort key, so no two rows have the same place.
LEMMA RowsAreOrdered ==
  ASSUME CatalogInv, NEW p \in PlanIds, NEW q \in PlanIds,
         ~Precedes(p, q), ~Precedes(q, p)
  PROVE  p = q
  BY OfferTypes, PrecedesIsBefore DEF Before

-----------------------------------------------------------------------------
LEMMA LeastsExist ==
  ASSUME NEW T, T # {}, NEW f, \A p \in T : f[p] \in Nat
  PROVE  Leasts(T, f) # {}
<1> DEFINE V == {f[p] : p \in T}
<1>1. V \subseteq Nat /\ V # {}
  OBVIOUS
<1>2. PICK n \in V : \A m \in V : ~(<<m, n>> \in OpToRel(<, Nat))
  <2> HIDE DEF V
  <2> QED  BY <1>1, NatLessThanWellFounded, WFMin
<1>3. \A m \in V : ~(m < n)
  BY <1>1, <1>2 DEF OpToRel
<1>4. PICK p \in T : f[p] = n
  OBVIOUS
<1>5. \A q \in T : f[p] <= f[q]
  BY <1>1, <1>3, <1>4
<1> QED  BY <1>5 DEF Leasts

\* LIMIT 1 finds a row if there is one: sorting by one key after the other, it is the
\* one that is left.
LEMMA FirstRowExists ==
  ASSUME CatalogInv, NEW r \in Requirements, Candidates(r) # {}
  PROVE  FirstRows(r) # {}
<1> DEFINE price   == [p \in PlanIds |-> catalog[p].hourly_price_micros]
           memory  == [p \in PlanIds |-> catalog[p].memory_bytes]
           storage == [p \in PlanIds |-> catalog[p].storage_bytes]
           vcpus   == [p \in PlanIds |-> catalog[p].vcpus]
           id      == [p \in PlanIds |-> p]
           T1 == Leasts(Candidates(r), price)
           T2 == Leasts(T1, memory)
           T3 == Leasts(T2, storage)
           T4 == Leasts(T3, vcpus)
           T5 == Leasts(T4, id)
<1>1. \A p \in PlanIds : /\ price[p] \in Nat /\ memory[p] \in Nat /\ storage[p] \in Nat
                         /\ vcpus[p] \in Nat /\ id[p] \in Nat
  BY OfferTypes
<1>2. Candidates(r) \subseteq PlanIds
  BY DEF Candidates
<1>3. /\ T1 \subseteq Candidates(r) /\ T2 \subseteq T1 /\ T3 \subseteq T2
      /\ T4 \subseteq T3 /\ T5 \subseteq T4
  BY DEF Leasts
<1>4. T5 # {}
  <2> HIDE DEF price, memory, storage, vcpus, id
  <2>1. T1 # {}
    BY <1>1, <1>2, LeastsExist
  <2>2. T2 # {}
    <3> HIDE DEF T1
    <3> QED  BY <1>1, <1>2, <1>3, <2>1, LeastsExist
  <2>3. T3 # {}
    <3> HIDE DEF T1, T2
    <3> QED  BY <1>1, <1>2, <1>3, <2>2, LeastsExist
  <2>4. T4 # {}
    <3> HIDE DEF T1, T2, T3
    <3> QED  BY <1>1, <1>2, <1>3, <2>3, LeastsExist
  <2> HIDE DEF T1, T2, T3, T4
  <2> QED  BY <1>1, <1>2, <1>3, <2>4, LeastsExist
<1>5. PICK p : p \in T5
  BY <1>4
<1>6. \A q \in Candidates(r) : ~Before(q, p)
  <2> SUFFICES ASSUME NEW q \in Candidates(r), Before(q, p)
               PROVE  FALSE
    OBVIOUS
  <2> p \in Candidates(r) /\ p \in PlanIds /\ q \in PlanIds
    BY <1>2, <1>3, <1>5
  <2>1. /\ price[p] = catalog[p].hourly_price_micros /\ memory[p] = catalog[p].memory_bytes
        /\ storage[p] = catalog[p].storage_bytes /\ vcpus[p] = catalog[p].vcpus
        /\ id[p] = p
        /\ price[q] = catalog[q].hourly_price_micros /\ memory[q] = catalog[q].memory_bytes
        /\ storage[q] = catalog[q].storage_bytes /\ vcpus[q] = catalog[q].vcpus
        /\ id[q] = q
    OBVIOUS
  <2> HIDE DEF price, memory, storage, vcpus, id
  <2>2. /\ price[p] \in Nat /\ price[q] \in Nat /\ memory[p] \in Nat /\ memory[q] \in Nat
        /\ storage[p] \in Nat /\ storage[q] \in Nat /\ vcpus[p] \in Nat /\ vcpus[q] \in Nat
        /\ p \in Nat /\ q \in Nat
    BY <1>1, <2>1
  <2>3. price[p] <= price[q]
    BY <1>3, <1>5 DEF Leasts
  <2>4. price[q] = price[p]
    BY <2>1, <2>2, <2>3 DEF Before
  <2>5. q \in T1
    <3>1. \A s \in Candidates(r) : price[p] <= price[s]
      BY <1>3, <1>5 DEF Leasts
    <3> QED  BY <2>4, <3>1 DEF Leasts
  <2>6. memory[p] <= memory[q]
    BY <1>3, <1>5, <2>5 DEF T2, Leasts
  <2>7. memory[q] = memory[p]
    BY <2>1, <2>2, <2>4, <2>6 DEF Before
  <2>8. q \in T2
    <3>1. \A s \in T1 : memory[p] <= memory[s]
      BY <1>3, <1>5 DEF Leasts
    <3> QED  BY <2>5, <2>7, <3>1 DEF Leasts
  <2>9. storage[p] <= storage[q]
    BY <1>3, <1>5, <2>8 DEF T3, Leasts
  <2>10. storage[q] = storage[p]
    BY <2>1, <2>2, <2>4, <2>7, <2>9 DEF Before
  <2>11. q \in T3
    <3>1. \A s \in T2 : storage[p] <= storage[s]
      BY <1>3, <1>5 DEF Leasts
    <3> QED  BY <2>8, <2>10, <3>1 DEF Leasts
  <2>12. vcpus[p] <= vcpus[q]
    BY <1>3, <1>5, <2>11 DEF T4, Leasts
  <2>13. vcpus[q] = vcpus[p]
    BY <2>1, <2>2, <2>4, <2>7, <2>10, <2>12 DEF Before
  <2>14. q \in T4
    <3>1. \A s \in T3 : vcpus[p] <= vcpus[s]
      BY <1>3, <1>5 DEF Leasts
    <3> QED  BY <2>11, <2>13, <3>1 DEF Leasts
  <2>15. p <= q
    BY <1>5, <2>1, <2>14 DEF T5, Leasts
  <2> QED  BY <2>1, <2>2, <2>4, <2>7, <2>10, <2>13, <2>15 DEF Before
<1>7. \A q \in Candidates(r) : ~Precedes(q, p)
  BY <1>2, <1>3, <1>5, <1>6, PrecedesIsBefore
<1> QED  BY <1>3, <1>5, <1>7 DEF FirstRows

LEMMA FirstRowIsUnique ==
  ASSUME CatalogInv, NEW r, NEW p \in FirstRows(r), NEW q \in FirstRows(r)
  PROVE  p = q
  BY RowsAreOrdered DEF FirstRows, Candidates

\* The query is a function of the requirements.
LEMMA OneAnswer ==
  ASSUME CatalogInv, NEW r \in Requirements
  PROVE  \E a : Answers(r) = {a}
<1>1. CASE ~InRange(r)
  BY <1>1 DEF Answers
<1>2. CASE InRange(r) /\ Candidates(r) = {}
  BY <1>2 DEF Answers
<1>3. CASE InRange(r) /\ Candidates(r) # {}
  <2>1. PICK p : p \in FirstRows(r)
    BY <1>3, FirstRowExists
  <2>2. FirstRows(r) = {p}
    BY <2>1, FirstRowIsUnique
  <2>3. Answers(r) = {[kind |-> "ok", plan |-> p]}
    BY <1>3, <2>2 DEF Answers
  <2> QED  BY <2>3
<1> QED  BY <1>1, <1>2, <1>3

-----------------------------------------------------------------------------
LEMMA CatalogInvInit == Init => CatalogInv
  BY DEF Init, CatalogInv

LEMMA CatalogInvNext == CatalogInv /\ [Next]_vars => CatalogInv'
<1> SUFFICES ASSUME CatalogInv, [Next]_vars
             PROVE  CatalogInv'
  OBVIOUS
<1>1. UNCHANGED <<catalog, wanted>>
  BY DEF Next, select_plan, Again, vars
<1>2. Answers(wanted)' = Answers(wanted)
  BY <1>1 DEF Answers, InRange, FirstRows, Candidates, Matches, Precedes, SortKey
<1>3. answer' \in Answers(wanted) \cup {Pending, Transient}
  BY DEF CatalogInv, Next, select_plan, Again, vars
<1> QED  BY <1>1, <1>2, <1>3 DEF CatalogInv, Pending, Transient

LEMMA CatalogInvAlways == Spec => []CatalogInv
  BY CatalogInvInit, CatalogInvNext, PTL DEF Spec

\* A plan was answered, or none, or that there cannot be one.
LEMMA AnswerKinds ==
  ASSUME CatalogInv, answer.kind \in {"ok", "Definitive"}
  PROVE  answer \in Answers(wanted)
  BY DEF CatalogInv, Pending, Transient

\* Whatever the catalog holds and however many plans it has, a claim gets the cheapest
\* plan on offer that is large enough.
THEOREM CheapestAdequateAlways == Spec => []CheapestAdequate
<1>1. CatalogInv => CheapestAdequate
  <2> SUFFICES ASSUME CatalogInv, answer.kind = "ok"
               PROVE  CheapestAdequate
    BY DEF CheapestAdequate
  <2> DEFINE Adequate == {p \in PlanIds :
                     /\ catalog[p].enabled
                     /\ \A k \in {"vcpus", "memory_bytes", "storage_bytes"} :
                          catalog[p][k] >= wanted[k]}
  <2>1. Adequate = Candidates(wanted)
    BY DEF Candidates, Matches
  <2>2. answer \in Answers(wanted) /\ InRange(wanted)
    BY AnswerKinds DEF Answers
  <2>3. CASE Candidates(wanted) = {}
    BY <2>1, <2>2, <2>3 DEF Answers, CheapestAdequate
  <2>4. CASE Candidates(wanted) # {}
    <3>1. answer.plan \in FirstRows(wanted)
      BY <2>2, <2>4 DEF Answers
    <3> DEFINE p == answer.plan
    <3> HIDE DEF p
    <3>2. p \in Candidates(wanted) /\ \A q \in Candidates(wanted) : ~Precedes(q, p)
      BY <3>1 DEF FirstRows, p
    <3>3. \A q \in Candidates(wanted) :
            catalog[p].hourly_price_micros <= catalog[q].hourly_price_micros
      <4> SUFFICES ASSUME NEW q \in Candidates(wanted)
                   PROVE  catalog[p].hourly_price_micros <= catalog[q].hourly_price_micros
        OBVIOUS
      <4>1. p \in PlanIds /\ q \in PlanIds
        BY <3>2 DEF Candidates
      <4>2. ~Before(q, p)
        BY <3>2, <4>1, PrecedesIsBefore
      <4> QED  BY <4>1, <4>2, OfferTypes DEF Before
    <3> QED  BY <2>1, <2>4, <3>2, <3>3 DEF CheapestAdequate, p
  <2> QED  BY <2>3, <2>4
<1> QED  BY <1>1, CatalogInvAlways, PTL

\* A selection that is made again, after a crash or a storage error before ensure_host,
\* has the same answer.
THEOREM SelectionIsStableAlways == Spec => []SelectionIsStable
<1>1. CatalogInv => SelectionIsStable
  <2> SUFFICES ASSUME CatalogInv, answer.kind \in {"ok", "Definitive"}
               PROVE  Answers(wanted) = {answer}
    BY DEF SelectionIsStable
  <2>1. wanted \in Requirements
    BY DEF CatalogInv
  <2> QED  BY <2>1, AnswerKinds, OneAnswer
<1> QED  BY <1>1, CatalogInvAlways, PTL

\* The catalog answers every claim, in exactly one way: this is the constant function
\* PlanFor of HostController.
THEOREM SelectionIsDefined ==
  Spec => [](\A r \in Requirements : \E a : Answers(r) = {a})
<1>1. CatalogInv => \A r \in Requirements : \E a : Answers(r) = {a}
  BY OneAnswer
<1> QED  BY <1>1, CatalogInvAlways, PTL
=============================================================================
