SPECIFICATION Spec
CONSTANTS
  Address = {a1, a2}
  Binding = {s1, s2, s3}
  Code = {c1}
  MaxCodeAttempts = 2
  TTL = 1
  NoChallenge = NoChallenge
  MaxChallenges = 1
  Handler = {h1, h2}
  NoMailbox = NoMailbox
  NoSession = NoSession
  MaxSessions = 2
  SessionTTL = 0
  BudgetLimit = 1
  Window = 1
  MaxTime = 1
SYMMETRY Symmetry
CHECK_DEADLOCK FALSE
INVARIANT TypeOK
INVARIANT VerifiedByOwnProof
INVARIANT TokensOfBoundMailbox
INVARIANT MintsWithinBudget
PROPERTY TableKept
