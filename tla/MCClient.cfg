CONSTANTS
  ClaimIds = {c1}
  HostIds = {}
  ResourceIds = {}
  Specs <- MCSpecsAll
  Plans = {}
  Null = Null
  MaxAttempt = 1
  Users = {u1, u2}
  MaxI64 = 2
  MaxRequests = 3
SPECIFICATION Spec
CHECK_DEADLOCK FALSE
INVARIANTS
  TypeOK
  AcknowledgedIsKept
  RepeatsOnlyAfterRelease
PROPERTIES
  SessionsGoForward
  RegisterRefined
