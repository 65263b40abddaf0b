SPECIFICATION FairSpec
CONSTANTS
  Procs = {p1, p2}
  Commands = {"session", "bootstrap", "status", "revoke", "cleanup handoff"}
  MaxRenewals = 1
PROPERTIES
  LeaseReleased
