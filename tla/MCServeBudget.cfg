SPECIFICATION Spec
CONSTANTS
  Handler = {h1, h2}
  Rec <- MCRec
  TooLong <- MCTooLong
  Garbled = Garbled
  Empty = Empty
  Nobody = Nobody
  Epoch = {1}
  BurnNonce = {}
  ReplayKey = {}
  LongKey = {}
  BudgetKey = {b1}
  Limit = {1, 2}
  MaxCount = 2
  Window = 1
  MaxTime = 1
SYMMETRY HandlerSymmetry
INVARIANT ReplayDropsNothing
PROPERTY WithinBudget
