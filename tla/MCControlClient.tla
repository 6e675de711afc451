--------------------------- MODULE MCControlClient ---------------------------
EXTENDS ControlClient

Resources(vcpus, memory, storage) ==
  [vcpus |-> vcpus, memory_bytes |-> memory, storage_bytes |-> storage]

\* Two specs that are accepted, at the limit of the range and below it.
MCSpecs == {Resources(1, MaxI64, 1), Resources(2, 1, 1)}

\* These and one for every check of validate_resources.
MCSpecsAll ==
  MCSpecs \cup
  {Resources(0, 1, 1), Resources(1, 0, 1), Resources(1, 1, 0),
   Resources(1, MaxI64 + 1, 1), Resources(1, 1, MaxI64 + 1)}
=============================================================================
