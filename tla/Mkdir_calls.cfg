\* Three calls and every failure. A behaviour ends when all have returned.
CONSTANTS
  c1 = c1
  c2 = c2
  c3 = c3
  Calls <- ThreeCalls
  Nobody = Nobody
  Faults <- FaultKinds
SPECIFICATION Spec
CHECK_DEADLOCK FALSE
INVARIANTS
  TypeOK
  RollbackHitsOwn
  WrongPermsReported
PROPERTIES
  KeepsPromise
  UsedStays
  CallsReturn
