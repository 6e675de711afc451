CONSTANTS
  c1 = c1  c2 = c2  h1 = h1  h2 = h2
  fits = fits  toolarge = toolarge  small = small
  Plans = {small}
  Null = Null
  MaxAttempt = 2
  PlanFor <- MCPlanFor
  MaxSteps = 2
  ClaimIds = {c1, c2}
  HostIds = {h1, h2}
  ResourceIds = {1, 2, 3, 4, 5, 6}
  Specs = {fits}
  MaxCreates = 2
  MaxFaults = 1
  MaxDrifts = 0
SPECIFICATION PunctualSpec
PROPERTIES
  DeletionCompletes
  DemandIsMet
  RegisterRefined
  ConflictStopsDestruction
