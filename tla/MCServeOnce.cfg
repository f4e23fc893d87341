SPECIFICATION FairSpec
CONSTANTS
  Handler = {h1, h2}
  Rec <- MCRec
  TooLong <- MCTooLong
  Garbled = Garbled
  Empty = Empty
  Nobody = Nobody
  Epoch = {1, 2}
  BurnNonce = {n1}
  ReplayKey = {k1, k2}
  LongKey = {k2}
  BudgetKey = {}
  Limit = {0}
  MaxCount = 0
  Window = 1
  MaxTime = 0
INVARIANT TypeOK
INVARIANT AtMostOnce
PROPERTY KeepsPromise
PROPERTY EveryRequestAnswered
