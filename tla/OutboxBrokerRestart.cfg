SPECIFICATION FairSpec
CONSTANTS
  e1 = e1  e2 = e2  e3 = e3
  Events <- TwoEvents
  BatchSize = 2
  Faults <- BrokerFault
  MaxFaults = 1
  MaxSecond = 0
PROPERTIES
  EventuallyPublished
