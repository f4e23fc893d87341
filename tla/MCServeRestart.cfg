SPECIFICATION Spec
CONSTANTS
  Handler = {h1}
  Rec <- MCRec
  TooLong <- MCTooLong
  Garbled = Garbled
  Empty = Empty
  Nobody = Nobody
  Epoch = {1}
  BurnNonce = {n1, n2}
  ReplayKey = {}
  LongKey = {}
  BudgetKey = {}
  Limit = {0}
  MaxCount = 0
  Window = 1
  MaxTime = 0
INVARIANT RestartSurvives
