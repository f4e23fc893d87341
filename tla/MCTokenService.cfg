SPECIFICATION Spec
CONSTANTS
  n1 = n1
  n2 = n2
  c1 = c1
  c2 = c2
  Source <- MCSource
  Sidecar <- MCSidecar
  Trusted <- MCTrusted
  Bucket = {"alice", "bob"}
  Challenge = {c1, c2}
  Nonce = {n1, n2}
  Batch <- MCBatch
  Request <- MCRequest
  Address = {"alice", "bob"}
  Epoch = {1, 2}
  MaxDecisions = 2
  MaxRedeemed = 2
  MaxTime = 2
CHECK_DEADLOCK FALSE
INVARIANT SignedWithinLimit
INVARIANT RedeemedOnceAndPaid
INVARIANT BucketsVouched
INVARIANT EmailOfVerifiedAddress
