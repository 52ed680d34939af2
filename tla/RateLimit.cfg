SPECIFICATION FairSpec
CONSTANTS
  r1 = r1  r2 = r2  r3 = r3
  Requests <- ThreeRequests
  Limit = 2
  Window = 3
  MaxFaults = 2
INVARIANTS
  TypeOK
  AdmissionBound
  StuckNeedsAFault
PROPERTIES
  LimitLifts
