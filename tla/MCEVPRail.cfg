SPECIFICATION Spec
CONSTANTS
  Address = {a1, a2}
  Binding = {b1, b2}
  Code = {c1, c2}
  MaxCodeAttempts = 2
  TTL = 1
  NoChallenge = NoChallenge
  MaxChallenges = 2
  Handler = {h1, h2}
  NoCode = NoCode
  BudgetLimit = 1
  Window = 2
  MaxTime = 2
  MaxRestarts = 1
SYMMETRY Symmetry
CHECK_DEADLOCK FALSE
INVARIANT TypeOK
INVARIANT CodeUsedOnce
INVARIANT GuessesBounded
INVARIANT EVTsWithinBudget
PROPERTY ChallengeUndisturbed
