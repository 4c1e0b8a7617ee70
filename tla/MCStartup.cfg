SPECIFICATION Spec
CONSTANTS
  SeedCode = {s1, s2}
  OwnCode = {o1}
  MaxAttempts = 2
  MaxFaults = 3
  MaxEdits = 3
CHECK_DEADLOCK FALSE
INVARIANTS
  ServedSeeded
  SeededDecisionsHaveRevisions
PROPERTIES
  StartupKeepsRows
  HollowTableStopsService
  ServiceReturns
