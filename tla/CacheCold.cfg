SPECIFICATION Spec
CONSTANTS
  w1 = w1  w2 = w2  r1 = r1  r2 = r2
  Writers <- TwoWriters
  Readers <- TwoReaders
  Cold = TRUE
  MaxFaults = 0
INVARIANTS
  FreshReads
