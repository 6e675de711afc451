CONSTANTS
  PlanIds = {1, 2, 3}
  Offers <- MCOffers
  Requirements <- MCRequirements
  MaxI64 = 2
  None = None
SPECIFICATION Spec
CHECK_DEADLOCK FALSE
INVARIANTS
  CheapestAdequate
  SelectionIsStable
