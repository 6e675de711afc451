CONSTANTS
  MaxMillis = 320000
  MaxAttempt = 7
  Interval = 20000
  MaxTime = 320000
  None = None
SPECIFICATION Spec
INVARIANTS
  TypeOK
  RetryInWindow
  LookupsBackOff
