SPECIFICATION MCSpec
CONSTANTS
  Null = Null
  Runs = {r1, r2}
  a1 = a1
  a2 = a2
  c1 = c1
  c2 = c2
  Answers <- MCAnswers
  Window = 1
  StaleAfter = 2
  DayLength = 3
  StartTime = 4
  MaxTime = 6
  MaxAdjustments = 1
SYMMETRY MCSymmetry
INVARIANTS
  TypeOK
  ContractMet
  FreshnessHonest
  SuccessServed
