SPECIFICATION MCOverlapSpec
CONSTANTS
  Runs = {r0, r1, r2}
  r0 = r0
  k1 = k1
  k2 = k2
  Keys = {k1, k2}
  WriteOrder <- MCWriteOrder
  Snapshots <- MCFewSnapshots
  MaxTries = 2
  MaxActive = 2
  Drain = TRUE
  MaxGeneration = 1
SYMMETRY MCSymmetry
INVARIANTS
  IInv
  AcceptedExact
  CurrentExact
  LatestServed
