CONSTANTS
  c1 = c1  c2 = c2  h1 = h1  h2 = h2
  fits = fits  toolarge = toolarge  small = small
  Plans = {small}
  Null = Null
  MaxAttempt = 1
  PlanFor <- MCPlanFor
  MaxSteps = 2
  ClaimIds = {c1}
  HostIds = {h1}
  ResourceIds = {1, 2, 3, 4}
  Specs = {fits, toolarge}
  MaxCreates = 2
  MaxFaults = 2
  MaxDrifts = 2
SPECIFICATION FairSpec
PROPERTIES
  DeletionCompletes
  DemandIsMet
  StatusConverges
