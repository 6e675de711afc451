---------------------------- MODULE ClaimRegister ----------------------------
(***************************************************************************)
(* What the tables promise about HostClaims, whoever writes them: a claim  *)
(* is entered once, with a spec and a creation time that never change; its *)
(* deletion is never taken back; it gets a Host at most once, only while   *)
(* it is wanted, one that no other claim has, and keeps it; and it is      *)
(* forgotten only after its deletion was requested.                        *)
(***************************************************************************)
EXTENDS Naturals

CONSTANTS ClaimIds, HostIds, Specs, Null

VARIABLES
  entries,   \* for each claim, what is registered about it, or Null
  next       \* the creation time of the next entry

vars == <<entries, next>>

EntryRecords == [spec : Specs, created : Nat, deleting : BOOLEAN,
                 host : HostIds \cup {Null}]

Init ==
  /\ entries = [c \in ClaimIds |-> Null]
  /\ next = 0

Enter(c, spec) ==
  /\ entries[c] = Null
  /\ entries' = [entries EXCEPT ![c] = [spec |-> spec, created |-> next,
                                        deleting |-> FALSE, host |-> Null]]
  /\ next' = next + 1

Assign(c, h) ==
  /\ entries[c] # Null /\ ~entries[c].deleting /\ entries[c].host = Null
  /\ \A d \in ClaimIds : entries[d] # Null => entries[d].host # h
  /\ entries' = [entries EXCEPT ![c].host = h]
  /\ UNCHANGED next

Release(c) ==
  /\ entries[c] # Null /\ ~entries[c].deleting
  /\ entries' = [entries EXCEPT ![c].deleting = TRUE]
  /\ UNCHANGED next

Forget(c) ==
  /\ entries[c] # Null /\ entries[c].deleting
  /\ entries' = [entries EXCEPT ![c] = Null]
  /\ UNCHANGED next

Next ==
  \E c \in ClaimIds :
    \/ \E spec \in Specs : Enter(c, spec)
    \/ \E h \in HostIds : Assign(c, h)
    \/ Release(c) \/ Forget(c)

Spec == Init /\ [][Next]_vars
=============================================================================
