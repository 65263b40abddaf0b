SPECIFICATION Spec
CONSTANTS
  Procs = {p1, p2, p3}
  Commands = {"session", "bootstrap", "status", "revoke", "cleanup handoff"}
  MaxRenewals = 2
SYMMETRY MCSymmetry
INVARIANTS
  StoredTokenGood
PROPERTIES
  RemovedOnlyIfCopied
  ReplacedKnowingly
