CONSTANTS
  c1 = c1  c2 = c2  h1 = h1  h2 = h2
  fits = fits  toolarge = toolarge  small = small
  Plans = {small}
  Null = Null
  MaxAttempt = 2
  PlanFor <- MCPlanFor
  MaxSteps = 2
  ClaimIds = {c1}
  HostIds = {h1}
  ResourceIds = {1, 2, 3, 4}
  Specs = {fits}
  MaxCreates = 1
  MaxFaults = 1
  MaxDrifts = 1
SPECIFICATION FairSpec
PROPERTY FailedHostIsReported
