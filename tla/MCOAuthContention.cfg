SPECIFICATION Spec
CONSTANTS
  Procs = {p1, p2}
  Commands = {"session", "status"}
  MaxRenewals = 1
SYMMETRY MCSymmetry
PROPERTIES
  ContentionStrandsNothing
