SPECIFICATION DemoSpec
CONSTANTS
  Handler = {h1, h2}
  Nonce = {n1, n2}
  Pseudonym = {p1, p2}
  Image = {i1, i2}
  Nobody = Nobody
  Unused = Unused
  MaxNonces = 1
  MaxImages = 1
  ChallengeTTL = 0
  MaxTime = 1
  Flow = {f1, f2}
  SessionId = {s1, s2}
  NoToken = NoToken
  MaxPermits = 1
CHECK_DEADLOCK FALSE
INVARIANT DemoTypeOK
INVARIANT OneUploadPerNonce
INVARIANT QuotaCounts
PROPERTY SpinnerEnds
