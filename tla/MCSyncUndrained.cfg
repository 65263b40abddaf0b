SPECIFICATION FairSpec
CONSTANTS
  Runs = {r1, r2}
  r0 = r0
  k1 = k1
  k2 = k2
  Keys = {k1, k2}
  WriteOrder <- MCWriteOrder
  Snapshots <- MCTwoSnapshots
  MaxTries = 2
  MaxActive = 1
  Drain = FALSE
  MaxGeneration = 2
INVARIANTS
  FencedNeverSucceeds
PROPERTIES
  HistoryImmutable
  ExecutionsEnd
