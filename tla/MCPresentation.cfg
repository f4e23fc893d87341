SPECIFICATION Spec
CONSTANTS
  h1 = h1
  h2 = h2
  q1 = q1
  f1 = f1
  e1 = e1
  e2 = e2
  rp1 = rp1
  rp2 = rp2
  n1 = n1
  n2 = n2
  Issuer = ed
  PQIssuer = pq
  Epoch = {e1, e2}
  OKP = {h1, h2}
  AKP = {q1}
  FAEST = {f1}
  Mallory = h2
  Server = {"home", "elsewhere"}
  Home = "home"
  Email = {"alice"}
  Audience = {rp1, rp2}
  Nonce = {n1, n2}
  Policy = {"", "decision"}
  Second = 2
  Time = {2, 5, 6}
  TTL = {0, 1}
  EVTMaxAge = 3
  KBMaxAge = 1
  SigMaxAge = 1
  MaxSkew = 1
  MaxTokens = 2
  MaxProofs = 1
  MaxSigned = 3
  MaxShown = 2
SYMMETRY Renaming
CHECK_DEADLOCK FALSE
INVARIANT PresentationGenuine
INVARIANT HonestPresentationAccepted
INVARIANT EVTBoundToRequester
 
