SPECIFICATION Spec
CONSTANTS
  Handoffs = {p1, p2}
  Sources = {s1, s2}
SYMMETRY MCSymmetry
INVARIANTS
  TypeOK
  VerifiedMeansMoved
  ConnectionKept
  RetryIsSafe
PROPERTIES
  WrittenOnce
