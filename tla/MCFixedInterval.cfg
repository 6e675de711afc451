CONSTANTS
  MaxMillis = 1000000000
  MaxAttempt = 7
  Interval = 20000
  MaxTime = 200000
  None = None
SPECIFICATION Spec
INVARIANTS
  MutationsBackOff
