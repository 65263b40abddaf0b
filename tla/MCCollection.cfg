SPECIFICATION FairSpec
CONSTANTS
  Accounts = {a1, a2, a3}
  a1 = a1
  a2 = a2
  h1 = h1
  h2 = h2
  h3 = h3
  Holdings = {h1, h2, h3}
  Unsupported = {h3}
  Main = main
  Concurrency = 2
  PageLimit = 1
  MaxPages = 2
  MaxHoldings = 3
  MaxAttempts = 2
  MaxListings = 2
  MaxChanges = 2
  Inventories <- MCInventories
INVARIANTS
  TypeOK
  NoTaskOutlives
  RowsOnce
  AnswersWhole
  TokenSentOnce
PROPERTIES
  RequestEnds
