SPECIFICATION Spec
CONSTANTS
  Procs = {p1, p2, p3}
  Commands = {"session", "bootstrap", "status", "revoke", "handoff"}
  MaxRenewals = 2
SYMMETRY MCSymmetry
INVARIANTS
  OwnerInv
  KnownIsCurrent
  StoredTokenGood
  NoTokenForgotten
PROPERTIES
  RevokedAsNamed
  ImplementsConnection
