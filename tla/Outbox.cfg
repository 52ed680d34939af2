SPECIFICATION FairSpec
CONSTANTS
  e1 = e1  e2 = e2  e3 = e3
  Events <- ThreeEvents
  BatchSize = 2
  Faults <- AllFaults
  MaxFaults = 2
  MaxSecond = 1
INVARIANTS
  TypeOK
  PublishedWasSent
  DuplicatesNeedAFault
  FailedIsPending
PROPERTIES
  ImplementsDelivery
  PublishedUnlessCutOff
  ArrivesUnlessCutOff
