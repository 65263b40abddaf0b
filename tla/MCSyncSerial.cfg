SPECIFICATION Spec
CONSTANTS
  Runs = {r1, r2, r3}
  r0 = r0
  k1 = k1
  k2 = k2
  Keys = {k1, k2}
  WriteOrder <- MCWriteOrder
  Snapshots <- MCFewSnapshots
  MaxTries = 1
  MaxActive = 1
  Drain = TRUE
  MaxGeneration = 1
SYMMETRY MCSymmetry
INVARIANTS
  TypeOK
  CurrentExact
  OrphansExplained
  Recoverable
PROPERTIES
  InactivationNeedsEvidence
  CompleteSuccessServed
  WritesUnderControl
