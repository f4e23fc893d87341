---------------------------- MODULE TokenProofs ----------------------------
(***************************************************************************)
(* What the reader of a token may conclude from it.  First, what verifiers *)
(* may conclude from a presentation, for any number of issuers' keys,      *)
(* holders, tokens and proofs: verifiers keep no state, the invariant says *)
(* what is in each thing that was ever signed.  Then that the bytes the    *)
(* tokens, the signatures and the mails are made of say one thing, for     *)
(* every input there is, and that the hints ML-DSA releases are enough for *)
(* its verifier.                                                           *)
(***************************************************************************)
EXTENDS Presentation, Encodings, MLDSA, SequenceTheorems, FiniteSetTheorems,
        WellFoundedInduction, TLAPS

\* What the issuer signed is what the issuer of its row may sign; on the rail it
\* answers a request that its key signed, to this server, not long ago or ahead.
IssuedSound(i) ==
    /\ i.row \in Row /\ i.at \in Nat /\ i.at >= Second /\ i.ttl \in Nat
    /\ i.email # "" /\ checkHolderJWK(i.holder, i.row = "policyPQ")
    /\ i.row # "evt" => i.policy # ""
    /\ \A r \in i.req :
        /\ r \in requests /\ r.key = i.holder /\ r.to = Home
        /\ Distance(r.created, Unix(i.at)) <= SigMaxAge

PresentationInv ==
    /\ \A r \in requests : r.created \in Nat
    /\ \A i \in issued : IssuedSound(i)
    /\ \A p \in presented : p.holder \in Holder /\ p.at \in Time
    /\ \A s \in shown : s.at \in Time
-----------------------------------------------------------------------------
(* Whole seconds.                                                          *)

\* A time is less than a second after its whole seconds.
LEMMA UnixIs ==
  ASSUME NEW t \in Nat
  PROVE  /\ Unix(t) \in Nat /\ Unix(t) * Second \in Nat
         /\ Unix(t) * Second <= t /\ t < Unix(t) * Second + Second
  BY PresentationAssumption DEF Unix

\* A second or more has passed by then.
LEMMA UnixPositive ==
  ASSUME NEW t \in Nat, t >= Second
  PROVE  Unix(t) >= 1 /\ Unix(t) * Second >= Second
  BY PresentationAssumption DEF Unix

\* Truncation keeps the order of times, and loses less than a second of it.
LEMMA UnixOrdered ==
  ASSUME NEW a \in Nat, NEW b \in Nat
  PROVE  /\ a <= b => Unix(a) <= Unix(b)
         /\ Unix(a) <= Unix(b) => a < b + Second
<1>1. a <= b => Unix(a) <= Unix(b)
  BY PresentationAssumption DEF Unix
<1> DEFINE x == Unix(a) y == Unix(b)
<1>2. /\ x \in Nat /\ x * Second <= a /\ a < x * Second + Second
      /\ y \in Nat /\ y * Second <= b
  BY UnixIs
<1>3. x <= y => x * Second <= y * Second
  <2> HIDE DEF x, y
  <2> QED BY <1>2, PresentationAssumption
<1>4. x * Second \in Nat /\ y * Second \in Nat /\ Second \in Nat
  BY UnixIs, PresentationAssumption
<1>5. x <= y => a < b + Second
  <2> HIDE DEF x, y
  <2> QED BY <1>2, <1>3, <1>4
<1> QED BY <1>1, <1>5

\* Whole seconds are kept.
LEMMA UnixOfUnix ==
  ASSUME NEW n \in Nat
  PROVE  Unix(n * Second) = n
<1>1. n * Second \in Nat
  BY PresentationAssumption
<1> DEFINE x == Unix(n * Second)
<1>2. x \in Nat /\ x * Second <= n * Second /\ n * Second < x * Second + Second
  BY <1>1, UnixIs
<1> HIDE DEF x
<1>3. x * Second + Second = (x + 1) * Second
  BY <1>2, PresentationAssumption
<1>4. ~(x < n)
  <2> SUFFICES ASSUME x + 1 <= n PROVE FALSE
    BY <1>2
  <2>1. (x + 1) * Second <= n * Second
    BY <1>2, PresentationAssumption
  <2>2. (x + 1) * Second \in Nat
    BY <1>2, PresentationAssumption
  <2> QED BY <1>1, <1>2, <1>3, <2>1, <2>2
<1>5. ~(n < x)
  <2> SUFFICES ASSUME n + 1 <= x PROVE FALSE
    BY <1>2
  <2>1. (n + 1) * Second <= x * Second
    BY <1>2, PresentationAssumption
  <2>2. (n + 1) * Second = n * Second + Second /\ x * Second \in Nat
    BY <1>2, PresentationAssumption
  <2> QED BY <1>1, <1>2, <2>1, <2>2, PresentationAssumption
<1> QED BY <1>2, <1>4, <1>5 DEF x

\* An age check on a truncated time, in terms of the time itself.
LEMMA AgeIs ==
  ASSUME NEW at \in Nat, NEW now \in Nat, NEW maxAge \in Nat
  PROVE  /\ Distance(Unix(at) * Second, now) <= maxAge => InWindow(at, now, maxAge)
         /\ WellInWindow(at, now, maxAge) => Distance(Unix(at) * Second, now) <= maxAge
<1> DEFINE x == Unix(at) * Second
<1>1. x \in Nat /\ x <= at /\ at < x + Second
  BY UnixIs
<1> HIDE DEF x
<1>2. /\ Distance(x, now) <= maxAge => InWindow(at, now, maxAge)
      /\ WellInWindow(at, now, maxAge) => Distance(x, now) <= maxAge
  BY <1>1, PresentationAssumption DEF Distance, InWindow, WellInWindow
<1> QED BY <1>2 DEF x

\* No clock shows a time before the first second.
LEMMA TimeIs ==
  ASSUME NEW t \in Time
  PROVE  t \in Nat /\ t >= Second /\ t # 0
  BY PresentationAssumption
-----------------------------------------------------------------------------
(* Algorithms, rows and tokens.                                            *)

\* A holder's Ed25519 key and the issuer's sign with EdDSA, the others do not.
LEMMA Algorithms ==
  /\ Alg(Issuer) = "EdDSA" /\ Alg(PQIssuer) = "ML-DSA-44"
  /\ \A h \in OKP : Alg(h) = "EdDSA"
  /\ \A h \in AKP : Alg(h) = "ML-DSA-44"
  BY KeysApart DEF Alg

\* The signer and the typ of a token determine its row.
LEMMA RowDetermined ==
  ASSUME NEW r \in Row, NEW s \in Row, SignerOf(r) = SignerOf(s), TypOf(r) = TypOf(s)
  PROVE  r = s
  BY KeysApart DEF Row, SignerOf, TypOf

\* The parts of a token and of a proof.
LEMMA TokenIs ==
  ASSUME NEW key, NEW i, NEW t, t = EmailToken(key, i)
  PROVE  /\ t.key = key /\ t.alg = Alg(key) /\ t.typ = TypOf(i.row) /\ t.kid = SignerOf(i.row)
         /\ t.claims.iss = Issuer /\ t.claims.iat = Unix(i.at) /\ t.claims.exp = Exp(i.at, i.ttl)
         /\ t.claims.cnf = i.holder /\ t.claims.email = i.email /\ t.claims.policy = i.policy
  BY DEF EmailToken, JWS

LEMMA ProofIs ==
  ASSUME NEW p, NEW k, k = KBJWT(p)
  PROVE  /\ k.key = p.holder /\ k.alg = Alg(p.holder) /\ k.typ = "kb+jwt"
         /\ k.claims.aud = p.aud /\ k.claims.nonce = p.nonce
         /\ k.claims.iat = Unix(p.at) /\ k.claims.sd_hash = p.token
  BY DEF KBJWT, JWS

\* What exp says of a token with a lifetime.
LEMMA ExpIs ==
  ASSUME NEW at \in Nat, NEW ttl \in Nat, NEW now \in Nat, at >= Second, ttl > 0
  PROVE  /\ Exp(at, ttl) > 0
         /\ Unix(now) <= Exp(at, ttl) => now < at + ttl + Second
         /\ now <= at + ttl => Unix(now) <= Exp(at, ttl)
<1>1. at + ttl \in Nat /\ at + ttl >= Second
  BY PresentationAssumption
<1>2. Exp(at, ttl) = Unix(at + ttl)
  BY DEF Exp
<1>3. Unix(at + ttl) >= 1 /\ Unix(at + ttl) \in Nat
  BY <1>1, UnixIs, UnixPositive
<1>4. /\ now <= at + ttl => Unix(now) <= Unix(at + ttl)
      /\ Unix(now) <= Unix(at + ttl) => now < at + ttl + Second
  BY <1>1, UnixOrdered
<1> QED BY <1>2, <1>3, <1>4
-----------------------------------------------------------------------------
(* One lemma per kind of step.                                             *)

\* A token for i, sound, is signed.
LEMMA IssueKeepsInv ==
  ASSUME PresentationInv, NEW row \in Row, NEW email \in Email, NEW holder \in Holder,
         NEW policy \in Policy \cup {""}, NEW at \in Nat, at >= Second, NEW ttl \in Nat,
         NEW req \in SUBSET requests,
         Issue(row, email, holder, policy, at, ttl, req),
         row # "evt" => policy # "",
         \A r \in req : /\ r.key = holder /\ r.to = Home
                        /\ Distance(r.created, Unix(at)) <= SigMaxAge
  PROVE  PresentationInv'
<1> DEFINE i == [row |-> row, email |-> email, holder |-> holder, policy |-> policy,
                 at |-> at, ttl |-> ttl, req |-> req]
<1>1. /\ issued' = issued \cup {i} /\ UNCHANGED <<requests, presented, shown>>
      /\ email # "" /\ checkHolderJWK(holder, row = "policyPQ")
  BY DEF Issue
<1>2. IssuedSound(i)
  BY <1>1 DEF IssuedSound
<1> HIDE DEF i
<1>3. \A j \in issued' : IssuedSound(j)'
  BY <1>1, <1>2 DEF PresentationInv, IssuedSound
<1> QED BY <1>1, <1>3 DEF PresentationInv

\* An EVT of the rail is for the key of a request that was sent here.
LEMMA IssueEVTKeepsInv ==
  ASSUME PresentationInv, NEW r \in requests, NEW key \in OKP, NEW t \in Time,
         NEW email \in Email, NEW now \in Time, IssueEVT(r, key, Unix(t), email, now)
  PROVE  PresentationInv'
<1>1. /\ Distance(Unix(t), Unix(now)) <= SigMaxAge
      /\ SignatureOf(r).key = key
      /\ SignatureOf(r).base = evpSignatureBase(Home, key, Unix(t))
      /\ Issue("evt", email, key, "", Unix(now) * Second, 0, {r})
  BY DEF IssueEVT, verifyEVPMessageSignature
<1>2. r.key = key /\ evpSignatureBase(r.to, r.key, r.created) = evpSignatureBase(Home, key, Unix(t))
  BY <1>1 DEF SignatureOf
<1>3. r.to = Home /\ r.created = Unix(t)
  BY <1>2 DEF evpSignatureBase
<1>4. Unix(now) \in Nat /\ Unix(now) * Second \in Nat /\ Unix(now) * Second >= Second
  BY TimeIs, UnixIs, UnixPositive
<1>5. Unix(Unix(now) * Second) = Unix(now)
  BY <1>4, UnixOfUnix
<1>6. \A x \in {r} : /\ x.key = key /\ x.to = Home
                     /\ Distance(x.created, Unix(Unix(now) * Second)) <= SigMaxAge
  BY <1>1, <1>2, <1>3, <1>5
<1>7. "evt" \in Row /\ key \in Holder /\ "" \in Policy \cup {""} /\ {r} \in SUBSET requests /\ 0 \in Nat
  BY DEF Row, Holder
<1> QED BY <1>1, <1>4, <1>6, <1>7, IssueKeepsInv

\* Holders and browsers sign what they like.
LEMMA SignKeepsInv ==
  ASSUME PresentationInv, issued' = issued, requests \subseteq requests',
         \A r \in requests' \ requests : r.created \in Nat,
         \A p \in presented' \ presented : p.holder \in Holder /\ p.at \in Time,
         \A s \in shown' \ shown : s.at \in Time
  PROVE  PresentationInv'
<1>1. \A i \in issued' : IssuedSound(i)'
  BY DEF PresentationInv, IssuedSound
<1> QED BY <1>1 DEF PresentationInv

\* Every step keeps what is signed sound.
LEMMA PresentationNextInv == PresentationInv /\ [Next]_vars => PresentationInv'
<1> SUFFICES ASSUME PresentationInv, [Next]_vars PROVE PresentationInv'
  OBVIOUS
<1>1. ASSUME NEW email \in Email, NEW holder \in Holder, NEW at \in Time, NEW ttl \in TTL,
             \/ IssueGoogleEVT(email, holder, at, ttl)
             \/ \E policy \in Policy : \/ IssuePolicyEmail(email, holder, policy, at, ttl)
                                       \/ IssuePolicyEmailPQ(email, holder, policy, at, ttl)
      PROVE  PresentationInv'
  <2>1. at \in Nat /\ at >= Second /\ ttl \in Nat
    BY TimeIs, PresentationAssumption
  <2>2. PICK row \in Row, policy \in Policy \cup {""} :
                                   /\ Issue(row, email, holder, policy, at, ttl, {})
                                   /\ row # "evt" => policy # ""
    BY <1>1 DEF IssueGoogleEVT, IssuePolicyEmail, IssuePolicyEmailPQ, checkPolicyBinding, Row
  <2>3. {} \in SUBSET requests /\ \A r \in {} : /\ r.key = holder /\ r.to = Home
                                              /\ Distance(r.created, Unix(at)) <= SigMaxAge
    OBVIOUS
  <2> QED BY <2>1, <2>2, <2>3, IssueKeepsInv
<1>2. ASSUME NEW browser \in OKP, NEW authority \in Server, NEW t \in Time,
             SignRequest(browser, authority, Unix(t))
      PROVE  PresentationInv'
  <2> DEFINE r == [key |-> browser, to |-> authority, created |-> Unix(t)]
  <2>1. r.created \in Nat
    BY TimeIs, UnixIs
  <2>2. requests' = requests \cup {r} /\ UNCHANGED <<issued, presented, shown>>
    BY <1>2 DEF SignRequest
  <2> HIDE DEF r
  <2> QED BY <2>1, <2>2, SignKeepsInv
<1>3. ASSUME NEW r \in requests, NEW key \in OKP, NEW t \in Time, NEW email \in Email,
             NEW now \in Time, IssueEVT(r, key, Unix(t), email, now)
      PROVE  PresentationInv'
  BY <1>3, IssueEVTKeepsInv
<1>4. ASSUME NEW epoch \in Epoch, NEW named \in Epoch, NEW alg, NEW holder \in Owner,
             MintPrivateIdentity(epoch, named, alg, holder)
      PROVE  PresentationInv'
  BY <1>4, SignKeepsInv DEF MintPrivateIdentity
<1>5. ASSUME NEW holder \in Holder, NEW token, NEW aud, NEW nonce, NEW at \in Time,
             SignKBJWT(holder, token, aud, nonce, at)
      PROVE  PresentationInv'
  <2> DEFINE p == [holder |-> holder, token |-> token, aud |-> aud, nonce |-> nonce, at |-> at]
  <2>1. p.holder \in Holder /\ p.at \in Time
    OBVIOUS
  <2>2. presented' = presented \cup {p} /\ UNCHANGED <<issued, requests, shown>>
    BY <1>5 DEF SignKBJWT
  <2> HIDE DEF p
  <2> QED BY <2>1, <2>2, SignKeepsInv
<1>6. ASSUME NEW holder \in Owner, NEW token, NEW origin, NEW nonce, NEW at \in Time,
             SignPrivateIdentity(holder, token, origin, nonce, at)
      PROVE  PresentationInv'
  <2> DEFINE s == [holder |-> holder, token |-> token, origin |-> origin, nonce |-> nonce, at |-> at]
  <2>1. s.at \in Time
    OBVIOUS
  <2>2. shown' = shown \cup {s} /\ UNCHANGED <<issued, requests, presented>>
    BY <1>6 DEF SignPrivateIdentity
  <2> HIDE DEF s
  <2> QED BY <2>1, <2>2, SignKeepsInv
<1>7. CASE UNCHANGED vars
  BY <1>7, SignKeepsInv DEF vars
<1> QED BY <1>1, <1>2, <1>3, <1>4, <1>5, <1>6, <1>7 DEF Next

\* Everything signed is sound, always.
LEMMA PresentationAlwaysInv == Spec => []PresentationInv
<1>1. Init => PresentationInv
  BY DEF Init, PresentationInv
<1> QED BY <1>1, PresentationNextInv, PTL DEF Spec
-----------------------------------------------------------------------------
(* What an accepted presentation shows.                                    *)

\* The verifier of a row accepts no token but the issuer's of that row.
LEMMA AcceptedTokenIssued ==
  ASSUME PresentationInv, NEW row \in Row, NEW kid, NEW now, NEW t \in Tokens \cup Forged,
         VerifyToken(row, kid, t, now)
  PROVE  \E i \in issued : i.row = row /\ t = EmailToken(SignerOf(row), i)
<1>1. t.key = SignerOf(row) /\ t.typ = TypOf(row)
  BY DEF VerifyToken, verifyJWS, pqVerifyJWS, TypMatches, SignerOf
<1>2. t \notin Forged
  <2> SUFFICES ASSUME NEW i, t = EmailToken(Mallory, i) PROVE FALSE
    BY DEF Forged
  <2>1. t.key = Mallory
    BY TokenIs
  <2> QED BY <1>1, <2>1, KeysApart, PresentationAssumption DEF SignerOf
<1>3. PICK i \in issued : t = EmailToken(SignerOf(i.row), i)
  BY <1>2 DEF Tokens
<1>4. i.row \in Row
  BY DEF PresentationInv, IssuedSound
<1>5. t.key = SignerOf(i.row) /\ t.typ = TypOf(i.row)
  BY <1>3, TokenIs
<1>6. i.row = row
  BY <1>1, <1>4, <1>5, RowDetermined
<1> QED BY <1>3, <1>6

\* However tokens of all rows, forged tokens and proofs are combined, a
\* verifier learns an address only for a holder the issuer gave that row's
\* token to, on a proof that this holder made of this token for this audience
\* and nonce, within the ages allowed up to the truncation to whole seconds, for
\* every resolution of the clocks (VerifyPresentation, checkTime).
THEOREM AcceptedIsGenuine == Spec => []PresentationGenuine
<1>1. PresentationInv => PresentationGenuine
  <2> SUFFICES ASSUME PresentationInv, NEW row \in Row, NEW token \in Tokens \cup Forged,
                      NEW p \in presented, NEW aud \in Audience, NEW nonce \in Nonce,
                      NEW kid \in Kids(row), NEW now \in Time \cup {0},
                      VerifyPresentation(row, kid, token, KBJWT(p), aud, nonce, now)
               PROVE  /\ p.token = token /\ p.aud = aud /\ p.nonce = nonce
                      /\ KBMaxAge > 0 /\ now # 0 => InWindow(p.at, now, KBMaxAge)
                      /\ \E i \in issued :
                          /\ i.row = row /\ i.email = token.claims.email /\ i.holder = p.holder
                          /\ EVTMaxAge > 0 /\ now # 0 => InWindow(i.at, now, EVTMaxAge)
                          /\ i.ttl > 0 /\ now # 0 => now < i.at + i.ttl + Second
    BY DEF PresentationGenuine
  <2> DEFINE kb == KBJWT(p)
  <2>1. /\ VerifyToken(row, kid, token, now) /\ verifyKBJWT(row, kb, token.claims.cnf)
        /\ checkKBClaims(kb, token, aud, nonce, now)
    BY DEF VerifyPresentation
  <2>2. /\ kb.key = p.holder /\ kb.claims.aud = p.aud /\ kb.claims.nonce = p.nonce
        /\ kb.claims.iat = Unix(p.at) /\ kb.claims.sd_hash = p.token
    BY ProofIs
  <2> HIDE DEF kb
  <2>3. p.token = token /\ p.aud = aud /\ p.nonce = nonce /\ checkTime(Unix(p.at), 0, now, KBMaxAge)
    BY <2>1, <2>2 DEF checkKBClaims
  <2>4. token.claims.cnf = p.holder
    BY <2>1, <2>2 DEF verifyKBJWT, verifyJWS, pqVerifyJWS
  <2>5. PICK i \in issued : i.row = row /\ token = EmailToken(SignerOf(row), i)
    BY <2>1, AcceptedTokenIssued
  <2>6. /\ token.claims.iat = Unix(i.at) /\ token.claims.exp = Exp(i.at, i.ttl)
        /\ token.claims.cnf = i.holder /\ token.claims.email = i.email
    BY <2>5, TokenIs
  <2>7. checkTime(Unix(i.at), Exp(i.at, i.ttl), now, EVTMaxAge)
    BY <2>1, <2>6 DEF VerifyToken
  <2>8. /\ i.at \in Nat /\ i.at >= Second /\ i.ttl \in Nat /\ p.at \in Nat /\ now \in Nat
        /\ KBMaxAge \in Nat /\ EVTMaxAge \in Nat
    <3>1. i.at \in Nat /\ i.at >= Second /\ i.ttl \in Nat /\ p.at \in Time
      BY DEF PresentationInv, IssuedSound
    <3>2. p.at \in Nat
      BY <3>1, TimeIs
    <3>3. now \in Nat
      BY TimeIs
    <3> QED BY <3>1, <3>2, <3>3, PresentationAssumption
  <2>9. KBMaxAge > 0 /\ now # 0 => InWindow(p.at, now, KBMaxAge)
    BY <2>3, <2>8, AgeIs DEF checkTime
  <2>10. EVTMaxAge > 0 /\ now # 0 => InWindow(i.at, now, EVTMaxAge)
    BY <2>7, <2>8, AgeIs DEF checkTime
  <2>11. i.ttl > 0 /\ now # 0 => now < i.at + i.ttl + Second
    BY <2>7, <2>8, ExpIs DEF checkTime
  <2> QED BY <2>3, <2>4, <2>5, <2>6, <2>9, <2>10, <2>11
<1> QED BY <1>1, PresentationAlwaysInv, PTL

\* What a row's issuer signs for a holder, and that holder presents, its
\* verifier accepts to the end of the token's lifetime and as long as the ages
\* are a second inside the limits, whatever the resolution and the skew of the
\* clocks, for both types of holder keys (IssuePolicyEmailPQ, SignKBJWT,
\* SignKBJWTMLDSA44, verifyKBJWTJWK, checkTime).
THEOREM HonestIsAccepted == Spec => []HonestPresentationAccepted
<1>1. PresentationInv => HonestPresentationAccepted
  <2> SUFFICES ASSUME PresentationInv, NEW i \in issued, NEW p \in presented, NEW now \in Time,
                      NEW kid \in Kids(i.row),
                      p.holder = i.holder, p.token = EmailToken(SignerOf(i.row), i),
                      i.ttl > 0 => now <= i.at + i.ttl,
                      EVTMaxAge > 0 => WellInWindow(i.at, now, EVTMaxAge),
                      KBMaxAge > 0 => WellInWindow(p.at, now, KBMaxAge)
               PROVE  VerifyPresentation(i.row, kid, EmailToken(SignerOf(i.row), i), KBJWT(p),
                                         p.aud, p.nonce, now)
    BY DEF HonestPresentationAccepted
  <2> DEFINE token == EmailToken(SignerOf(i.row), i)
             kb == KBJWT(p)
  <2>1. /\ token.key = SignerOf(i.row) /\ token.alg = Alg(SignerOf(i.row))
        /\ token.typ = TypOf(i.row) /\ token.kid = SignerOf(i.row)
        /\ token.claims.iss = Issuer /\ token.claims.iat = Unix(i.at)
        /\ token.claims.exp = Exp(i.at, i.ttl) /\ token.claims.cnf = i.holder
        /\ token.claims.email = i.email /\ token.claims.policy = i.policy
    BY TokenIs
  <2>2. /\ kb.key = p.holder /\ kb.alg = Alg(p.holder) /\ kb.typ = "kb+jwt"
        /\ kb.claims.aud = p.aud /\ kb.claims.nonce = p.nonce
        /\ kb.claims.iat = Unix(p.at) /\ kb.claims.sd_hash = p.token
    BY ProofIs
  <2>3. p.token = token
    OBVIOUS
  <2> HIDE DEF token, kb
  <2>4. /\ i.row \in Row /\ i.email # "" /\ checkHolderJWK(i.holder, i.row = "policyPQ")
        /\ i.row # "evt" => i.policy # ""
    BY DEF PresentationInv, IssuedSound
  <2>5. /\ i.at \in Nat /\ i.at >= Second /\ i.ttl \in Nat /\ p.at \in Nat /\ now \in Nat
        /\ KBMaxAge \in Nat /\ EVTMaxAge \in Nat
    BY TimeIs, PresentationAssumption DEF PresentationInv, IssuedSound
  <2>6. checkTime(Unix(i.at), Exp(i.at, i.ttl), now, EVTMaxAge)
    <3>1. Exp(i.at, i.ttl) > 0 => Unix(now) <= Exp(i.at, i.ttl)
      <4>1. CASE i.ttl > 0
        BY <2>5, <4>1, ExpIs
      <4>2. CASE ~(i.ttl > 0)
        BY <4>2 DEF Exp
      <4> QED BY <4>1, <4>2
    <3>2. EVTMaxAge > 0 => Distance(Unix(i.at) * Second, now) <= EVTMaxAge
      BY <2>5, AgeIs
    <3> QED BY <3>1, <3>2 DEF checkTime
  <2>7. checkTime(Unix(p.at), 0, now, KBMaxAge)
    <3>1. KBMaxAge > 0 => Distance(Unix(p.at) * Second, now) <= KBMaxAge
      BY <2>5, AgeIs
    <3> QED BY <3>1 DEF checkTime
  <2>8. kid # "" => token.kid = kid
    BY <2>1 DEF Kids
  <2>9. VerifyToken(i.row, kid, token, now)
    BY <2>1, <2>4, <2>6, <2>8, Algorithms
       DEF VerifyToken, verifyJWS, pqVerifyJWS, TypMatches, SignerOf
  <2>10. verifyKBJWT(i.row, kb, i.holder)
    <3>1. CASE i.row = "policyPQ" /\ i.holder \in AKP
      BY <2>2, <3>1, Algorithms DEF verifyKBJWT, pqVerifyJWS
    <3>2. CASE ~(i.row = "policyPQ" /\ i.holder \in AKP)
      <4>1. i.holder \in OKP
        BY <2>4, <3>2 DEF checkHolderJWK
      <4> QED BY <2>2, <3>2, <4>1, Algorithms DEF verifyKBJWT, verifyJWS
    <3> QED BY <3>1, <3>2
  <2>11. checkKBClaims(kb, token, p.aud, p.nonce, now)
    BY <2>2, <2>3, <2>7 DEF checkKBClaims
  <2>12. VerifyPresentation(i.row, kid, token, kb, p.aud, p.nonce, now)
    BY <2>1, <2>9, <2>10, <2>11 DEF VerifyPresentation
  <2> QED BY <2>12 DEF token, kb
<1> QED BY <1>1, PresentationAlwaysInv, PTL

\* An EVT of the rail names the key of a browser that asked this server for it,
\* and one signed request is good for EVTs over at most twice SigMaxAge, for any
\* servers, browsers, delays and creation times the browsers choose
\* (verifyEVPMessageSignature, handleEVPIssuance).
THEOREM EVTsBoundToRequester == Spec => []EVTBoundToRequester
<1>1. PresentationInv => EVTBoundToRequester
  <2> SUFFICES ASSUME PresentationInv, NEW i \in issued, NEW j \in issued, NEW r \in i.req
               PROVE  LET iat(k) == EmailToken(Issuer, k).claims.iat IN
                      /\ r \in requests /\ r.key = EmailToken(Issuer, i).claims.cnf /\ r.to = Home
                      /\ Distance(r.created, iat(i)) <= SigMaxAge
                      /\ r \in j.req => Distance(iat(i), iat(j)) <= 2 * SigMaxAge
    BY DEF EVTBoundToRequester
  <2>1. /\ EmailToken(Issuer, i).claims.cnf = i.holder
        /\ EmailToken(Issuer, i).claims.iat = Unix(i.at)
        /\ EmailToken(Issuer, j).claims.iat = Unix(j.at)
    BY TokenIs
  <2>2. /\ r \in requests /\ r.key = i.holder /\ r.to = Home
        /\ Distance(r.created, Unix(i.at)) <= SigMaxAge
        /\ r \in j.req => Distance(r.created, Unix(j.at)) <= SigMaxAge
    BY DEF PresentationInv, IssuedSound
  <2>3. r.created \in Nat /\ i.at \in Nat /\ j.at \in Nat /\ SigMaxAge \in Nat
    BY <2>2, PresentationAssumption DEF PresentationInv, IssuedSound
  <2>4. Unix(i.at) \in Nat /\ Unix(j.at) \in Nat
    BY <2>3, UnixIs
  <2>5. r \in j.req => Distance(Unix(i.at), Unix(j.at)) <= 2 * SigMaxAge
    BY <2>2, <2>3, <2>4 DEF Distance
  <2> QED BY <2>1, <2>2, <2>5
<1> QED BY <1>1, PresentationAlwaysInv, PTL

\* Private identities that are accepted have one pseudonym exactly if they are
\* for one origin and one holder made them, of whichever tokens and epochs; each
\* was made by the holder of its token, in the window up to the truncation; and an
\* owner is not turned away, for any clocks, epochs and algorithms
\* (VerifyPrivateIdentityPresentation, PseudonymForOrigin).
THEOREM PseudonymsAreRecognised == Spec => []PseudonymsRecognised
<1> DEFINE Accepted(s, epoch, now) ==
             VerifyPrivateIdentityPresentation(epoch, s.token, Proof(s), s.origin, s.nonce,
                                               Unix(s.at), now)
<1>1. ASSUME PresentationInv, NEW s \in shown, NEW e \in Epoch, NEW n \in Time, Accepted(s, e, n)
      PROVE  s.token.holderPub = s.holder /\ s.token.key = e /\ InWindow(s.at, n, MaxSkew)
  <2>1. /\ s.token.key = e /\ Proof(s).key = s.token.holderPub
        /\ Unix(s.at) * Second <= n + MaxSkew /\ Unix(s.at) * Second >= n - MaxSkew
    BY <1>1 DEF VerifyPrivateIdentityPresentation, VerifyPrivateIdentityToken, VerifiesAs
  <2>2. Proof(s).key = s.holder
    BY DEF Proof
  <2>3. s.at \in Nat /\ n \in Nat /\ MaxSkew \in Nat
    BY <1>1, TimeIs, PresentationAssumption DEF PresentationInv
  <2>4. Unix(s.at) * Second \in Nat
    BY <2>3, UnixIs
  <2>5. Distance(Unix(s.at) * Second, n) <= MaxSkew
    BY <2>1, <2>3, <2>4 DEF Distance
  <2> QED BY <2>1, <2>2, <2>3, <2>5, AgeIs
<1>2. ASSUME PresentationInv, NEW s \in shown, NEW e \in Epoch, NEW n \in Time,
             s.token = [key |-> e, named |-> e, holderAlg |-> HolderAlg(s.holder),
                        holderPub |-> s.holder],
             s.origin # "", WellInWindow(s.at, n, MaxSkew)
      PROVE  Accepted(s, e, n)
  <2>1. s.at \in Nat /\ n \in Nat /\ MaxSkew \in Nat
    BY <1>2, TimeIs, PresentationAssumption DEF PresentationInv
  <2>2. Unix(s.at) * Second \in Nat /\ Distance(Unix(s.at) * Second, n) <= MaxSkew
    BY <1>2, <2>1, UnixIs, AgeIs
  <2>3. Unix(s.at) * Second <= n + MaxSkew /\ Unix(s.at) * Second >= n - MaxSkew
    BY <2>1, <2>2 DEF Distance
  <2>4. /\ s.token.key = e /\ s.token.named = e /\ s.token.holderPub = s.holder
        /\ s.token.holderAlg = HolderAlg(s.holder)
    <3>1. PICK t : t = s.token
      OBVIOUS
    <3>2. t = [key |-> e, named |-> e, holderAlg |-> HolderAlg(s.holder), holderPub |-> s.holder]
      BY <1>2, <3>1
    <3>3. t.key = e /\ t.named = e /\ t.holderPub = s.holder /\ t.holderAlg = HolderAlg(s.holder)
      BY <3>2
    <3> QED BY <3>1, <3>3
  <2>5. Proof(s).key = s.holder /\ Proof(s).message = Message(s.origin, s.nonce, s.token, Unix(s.at))
    BY DEF Proof
  <2> QED BY <1>2, <2>3, <2>4, <2>5
          DEF VerifyPrivateIdentityPresentation, VerifyPrivateIdentityToken, VerifiesAs
<1>3. PresentationInv => PseudonymsRecognised
  <2> HIDE DEF Accepted
  <2>1. ASSUME PresentationInv, NEW s \in shown, NEW e \in Epoch, NEW n \in Time, Accepted(s, e, n),
               NEW u \in shown, NEW f \in Epoch, NEW m \in Time, Accepted(u, f, m)
        PROVE  PseudonymForOrigin(s.token, s.origin) = PseudonymForOrigin(u.token, u.origin)
                  <=> s.origin = u.origin /\ s.holder = u.holder
    BY <1>1, <2>1 DEF PseudonymForOrigin
  <2>2. ASSUME PresentationInv
        PROVE  \A s \in shown, e \in Epoch, n \in Time :
                 /\ Accepted(s, e, n) =>
                     /\ s.token.holderPub = s.holder /\ s.token.key = e /\ InWindow(s.at, n, MaxSkew)
                     /\ \A u \in shown, f \in Epoch, m \in Time : Accepted(u, f, m) =>
                         (PseudonymForOrigin(s.token, s.origin) = PseudonymForOrigin(u.token, u.origin)
                            <=> s.origin = u.origin /\ s.holder = u.holder)
                 /\ /\ s.token = [key |-> e, named |-> e, holderAlg |-> HolderAlg(s.holder),
                                  holderPub |-> s.holder]
                    /\ s.origin # "" /\ WellInWindow(s.at, n, MaxSkew)
                    => Accepted(s, e, n)
    BY <1>1, <1>2, <2>1, <2>2
  <2> QED BY <2>2 DEF PseudonymsRecognised, Accepted
<1> QED BY <1>3, PresentationAlwaysInv, PTL

-----------------------------------------------------------------------------
(* Numbers.                                                                *)

\* A set of naturals that is not empty has a least element.
LEMMA LeastNatural ==
  ASSUME NEW S \in SUBSET Nat, S # {}
  PROVE  \E x \in S : \A y \in S : x <= y
<1> DEFINE R == OpToRel(<, Nat)
<1>1. \E x \in S : \A y \in S : ~(<<y, x>> \in R)
  BY WFMin, NatLessThanWellFounded
<1>2. \A x, y \in Nat : ~(<<y, x>> \in R) => x <= y
  BY DEF OpToRel
<1> QED BY <1>1, <1>2

\* A set that has 0 and the successor of each of its numbers has every number.
LEMMA Induction ==
  ASSUME NEW S, 0 \in S, \A n \in Nat : n \in S => n + 1 \in S
  PROVE  \A n \in Nat : n \in S
<1> DEFINE T == Nat \ S
<1> SUFFICES ASSUME T # {} PROVE FALSE
  OBVIOUS
<1>1. PICK m \in T : \A y \in T : m <= y
  BY LeastNatural
<1>2. m # 0 /\ m - 1 \in Nat /\ (m - 1) + 1 = m /\ ~(m <= m - 1)
  BY <1>1
<1>3. m - 1 \in S
  BY <1>1, <1>2
<1> QED BY <1>1, <1>2, <1>3

-----------------------------------------------------------------------------
(* Rounding.                                                               *)

\* r is o away from the m-th multiple of D, the nearest.
Near(r, m, o, D, M) ==
    /\ m \in Int /\ 0 <= m /\ m <= M
    /\ o \in Int /\ -D < 2 * o /\ 2 * o <= D
    /\ r = D * m + o

\* r + z modulo q.
Sum(r, z, s) == s = r + z \/ s = r + z + q \/ s = r + z - q

\* The nearest multiple of 2*gamma2, and how far off it is.
LEMMA Nearest88 ==
  ASSUME NEW r \in Int, 0 <= r, r <= 8380416
  PROVE  \E m, o \in Int : Near(r, m, o, 190464, 44)
<1> DEFINE m == (r + 95231) \div 190464
<1>1. m \in Int /\ 0 <= m /\ m <= 44 /\ 190464 * m <= r + 95231 /\ r + 95231 < 190464 * m + 190464
  BY SMT
<1> HIDE DEF m
<1>2. r - 190464 * m \in Int
  BY <1>1, SMT
<1>3. Near(r, m, r - 190464 * m, 190464, 44)
  BY <1>1, <1>2, SMT DEF Near
<1> QED BY <1>1, <1>2, <1>3, SMT

\* The same for the other gamma2.
LEMMA Nearest32 ==
  ASSUME NEW r \in Int, 0 <= r, r <= 8380416
  PROVE  \E m, o \in Int : Near(r, m, o, 523776, 16)
<1> DEFINE m == (r + 261887) \div 523776
<1>1. m \in Int /\ 0 <= m /\ m <= 16 /\ 523776 * m <= r + 261887 /\ r + 261887 < 523776 * m + 523776
  BY SMT
<1> HIDE DEF m
<1>2. r - 523776 * m \in Int
  BY <1>1, SMT
<1>3. Near(r, m, r - 523776 * m, 523776, 16)
  BY <1>1, <1>2, SMT DEF Near
<1> QED BY <1>1, <1>2, <1>3, SMT

\* The multiplication and the shift divide by 2*gamma2 and round.
LEMMA Shift88 ==
  ASSUME NEW m \in Int, NEW o \in Int, 0 <= m, m <= 44, -95231 <= o, o <= 95232
  PROVE  ((((190464 * m + o) + 127) \div 128) * 11275 + 8388608) \div 16777216 = m
<1> DEFINE t == (o + 127) \div 128
<1>1. t \in Int /\ -743 <= t /\ t <= 744
  BY SMT
<1>2. ((190464 * m + o) + 127) \div 128 = 1488 * m + t
  BY SMT
<1> HIDE DEF t
<1>3. ((1488 * m + t) * 11275 + 8388608) \div 16777216 = m
  BY <1>1, SMT
<1> QED BY <1>2, <1>3, SMT

\* The same for the other gamma2.
LEMMA Shift32 ==
  ASSUME NEW m \in Int, NEW o \in Int, 0 <= m, m <= 16, -261887 <= o, o <= 261888
  PROVE  ((((523776 * m + o) + 127) \div 128) * 1025 + 2097152) \div 4194304 = m
<1> DEFINE t == (o + 127) \div 128
<1>1. t \in Int /\ -2045 <= t /\ t <= 2046
  BY SMT
<1>2. ((523776 * m + o) + 127) \div 128 = 4092 * m + t
  BY SMT
<1> HIDE DEF t
<1>3. ((4092 * m + t) * 1025 + 2097152) \div 4194304 = m
  BY <1>1, SMT
<1> QED BY <1>2, <1>3, SMT

\* decompose of a residue given by its nearest multiple of 2*gamma2 (ML-DSA-44).
LEMMA Decompose88 ==
  ASSUME NEW p, p.Gamma2 = 95232,
         NEW m \in Int, NEW o \in Int, 0 <= m, m <= 44, -95231 <= o, o <= 95232,
         0 <= 190464 * m + o, 190464 * m + o <= 8380416
  PROVE  decompose(p, 190464 * m + o) = IF m = 44 THEN <<0, o - 1>> ELSE <<m, o>>
<1> DEFINE r == 190464 * m + o
           r1 == IF m > 43 THEN 0 ELSE m
<1>0. 2^23 = 8388608 /\ 2^24 = 16777216 /\ (q - 1) \div 2 = 4190208 /\ (q - 1) \div 32 = 261888
  BY SMT DEF q
<1>1. (((r + 127) \div 128) * 11275 + 2^23) \div 2^24 = m
  BY <1>0, Shift88, SMT
<1>2. decompose(p, r) = <<r1, IF r - r1 * 2 * 95232 > 4190208 THEN r - r1 * 2 * 95232 - q ELSE r - r1 * 2 * 95232>>
  BY <1>0, <1>1, SMT DEF decompose
<1>3. CASE m = 44
  <2>1. r1 = 0 /\ r - r1 * 2 * 95232 = 8380416 + o
    BY <1>3, SMT
  <2> HIDE DEF r1
  <2> QED BY <1>2, <1>3, <2>1, SMT DEF q
<1>4. CASE m # 44
  <2>1. r1 = m /\ r - r1 * 2 * 95232 = o
    BY <1>4, SMT
  <2> HIDE DEF r1
  <2> QED BY <1>2, <1>4, <2>1, SMT DEF q
<1> QED BY <1>3, <1>4, SMT

\* The same for ML-DSA-65 and 87.
LEMMA Decompose32 ==
  ASSUME NEW p, p.Gamma2 = 261888,
         NEW m \in Int, NEW o \in Int, 0 <= m, m <= 16, -261887 <= o, o <= 261888,
         0 <= 523776 * m + o, 523776 * m + o <= 8380416
  PROVE  decompose(p, 523776 * m + o) = IF m = 16 THEN <<0, o - 1>> ELSE <<m, o>>
<1> DEFINE r == 523776 * m + o
           r1 == m % 16
<1>0. 2^21 = 2097152 /\ 2^22 = 4194304 /\ (q - 1) \div 2 = 4190208 /\ (q - 1) \div 32 = 261888
  BY SMT DEF q
<1>1. (((r + 127) \div 128) * 1025 + 2^21) \div 2^22 = m
  BY <1>0, Shift32, SMT
<1>2. decompose(p, r) = <<r1, IF r - r1 * 2 * 261888 > 4190208 THEN r - r1 * 2 * 261888 - q ELSE r - r1 * 2 * 261888>>
  BY <1>0, <1>1, SMT DEF decompose
<1>3. CASE m = 16
  <2>1. r1 = 0 /\ r - r1 * 2 * 261888 = 8380416 + o
    BY <1>3, SMT
  <2> HIDE DEF r1
  <2> QED BY <1>2, <1>3, <2>1, SMT DEF q
<1>4. CASE m # 16
  <2>1. r1 = m /\ r - r1 * 2 * 261888 = o
    BY <1>4, SMT
  <2> HIDE DEF r1
  <2> QED BY <1>2, <1>4, <2>1, SMT DEF q
<1> QED BY <1>3, <1>4, SMT

\* What decompose returns, as a place on the circle of residues: h steps of
\* 2*gamma2 and a remainder, from 0 or, past the last step, from q.
Splits(r, h, l, D, M) ==
    /\ h \in Int /\ l \in Int /\ 0 <= h /\ h < M /\ 2 * l <= D
    /\ \/ r = D * h + l /\ -D < 2 * l
       \/ r = l + q /\ h = 0 /\ -D <= 2 * l /\ l < 0

\* decompose places every residue on the circle, whichever gamma2 it has.
LEMMA Decomposed ==
  ASSUME NEW p, NEW r \in Int, 0 <= r, r <= 8380416
  PROVE  /\ p.Gamma2 = 95232 => \E h, l \in Int : decompose(p, r) = <<h, l>> /\ Splits(r, h, l, 190464, 44)
         /\ p.Gamma2 = 261888 => \E h, l \in Int : decompose(p, r) = <<h, l>> /\ Splits(r, h, l, 523776, 16)
<1>1. ASSUME p.Gamma2 = 95232
      PROVE  \E h, l \in Int : decompose(p, r) = <<h, l>> /\ Splits(r, h, l, 190464, 44)
  <2>1. PICK m \in Int, o \in Int : Near(r, m, o, 190464, 44)
    BY Nearest88, SMT
  <2>2. decompose(p, r) = IF m = 44 THEN <<0, o - 1>> ELSE <<m, o>>
    BY <1>1, <2>1, Decompose88, SMT DEF Near
  <2>3. IF m = 44 THEN Splits(r, 0, o - 1, 190464, 44) ELSE Splits(r, m, o, 190464, 44)
    BY <2>1, SMT DEF Splits, q, Near
  <2> QED BY <2>2, <2>3, SMT DEF Splits
<1>2. ASSUME p.Gamma2 = 261888
      PROVE  \E h, l \in Int : decompose(p, r) = <<h, l>> /\ Splits(r, h, l, 523776, 16)
  <2>1. PICK m \in Int, o \in Int : Near(r, m, o, 523776, 16)
    BY Nearest32, SMT
  <2>2. decompose(p, r) = IF m = 16 THEN <<0, o - 1>> ELSE <<m, o>>
    BY <1>2, <2>1, Decompose32, SMT DEF Near
  <2>3. IF m = 16 THEN Splits(r, 0, o - 1, 523776, 16) ELSE Splits(r, m, o, 523776, 16)
    BY <2>1, SMT DEF Splits, q, Near
  <2> QED BY <2>2, <2>3, SMT DEF Splits
<1> QED BY <1>1, <1>2, SMT

\* The rounding of FIPS 204.
FipsDecompose(p, r) ==
    LET low == r % (2 * p.Gamma2)
        r0 == IF low > p.Gamma2 THEN low - 2 * p.Gamma2 ELSE low
    IN  IF r - r0 = q - 1 THEN <<0, r0 - 1>> ELSE <<(r - r0) \div (2 * p.Gamma2), r0>>

\* The multiplication and the shift are the division of FIPS 204 (ML-DSA-44).
LEMMA DecomposeIsFips88 ==
  ASSUME NEW p, p.Gamma2 = 95232, NEW r \in Int, 0 <= r, r <= 8380416
  PROVE  decompose(p, r) = FipsDecompose(p, r)
<1>1. PICK m \in Int, o \in Int : Near(r, m, o, 190464, 44)
  BY Nearest88, SMT
<1>2. decompose(p, r) = IF m = 44 THEN <<0, o - 1>> ELSE <<m, o>>
  BY <1>1, Decompose88, SMT DEF Near
<1>3. r % 190464 = IF o < 0 THEN o + 190464 ELSE o
  BY <1>1, SMT DEF Near
<1>4. (IF r % 190464 > 95232 THEN (r % 190464) - 190464 ELSE r % 190464) = o
  BY <1>1, <1>3, SMT DEF Near
<1>5. 2 * p.Gamma2 = 190464
  BY SMT
<1>6. FipsDecompose(p, r) = IF r - o = q - 1 THEN <<0, o - 1>> ELSE <<(r - o) \div 190464, o>>
  BY <1>4, <1>5, SMT DEF FipsDecompose
<1>7. (r - o) \div 190464 = m /\ (r - o = q - 1 <=> m = 44)
  BY <1>1, SMT DEF q, Near
<1> QED BY <1>2, <1>6, <1>7, SMT

\* The same for ML-DSA-65 and 87.
LEMMA DecomposeIsFips32 ==
  ASSUME NEW p, p.Gamma2 = 261888, NEW r \in Int, 0 <= r, r <= 8380416
  PROVE  decompose(p, r) = FipsDecompose(p, r)
<1>1. PICK m \in Int, o \in Int : Near(r, m, o, 523776, 16)
  BY Nearest32, SMT
<1>2. decompose(p, r) = IF m = 16 THEN <<0, o - 1>> ELSE <<m, o>>
  BY <1>1, Decompose32, SMT DEF Near
<1>3. r % 523776 = IF o < 0 THEN o + 523776 ELSE o
  BY <1>1, SMT DEF Near
<1>4. (IF r % 523776 > 261888 THEN (r % 523776) - 523776 ELSE r % 523776) = o
  BY <1>1, <1>3, SMT DEF Near
<1>5. 2 * p.Gamma2 = 523776
  BY SMT
<1>6. FipsDecompose(p, r) = IF r - o = q - 1 THEN <<0, o - 1>> ELSE <<(r - o) \div 523776, o>>
  BY <1>4, <1>5, SMT DEF FipsDecompose
<1>7. (r - o) \div 523776 = m /\ (r - o = q - 1 <=> m = 16)
  BY <1>1, SMT DEF q, Near
<1> QED BY <1>2, <1>6, <1>7, SMT

\* r + z is on the circle, and one step away at most.
LEMMA Added ==
  ASSUME NEW r \in Int, 0 <= r, r <= 8380416, NEW z \in Int, -261888 <= z, z <= 261888
  PROVE  LET s == addQ(r, Canonical(z)) IN
         /\ s \in Int /\ 0 <= s /\ s <= 8380416
         /\ Sum(r, z, s)
  BY SMT DEF addQ, Canonical, q, Sum

\* If an addition of at most gamma2 changes the high bits, it moves them one step,
\* upwards exactly if the low bits are positive: the direction useHint takes.
LEMMA NextStep88 ==
  ASSUME NEW r \in Int, NEW s \in Int, NEW z \in Int, -95232 <= z, z <= 95232,
         Sum(r, z, s),
         NEW h, NEW l, NEW g, NEW k, Splits(r, h, l, 190464, 44), Splits(s, g, k, 190464, 44), h # g
  PROVE  g = IF l > 0 THEN (h + 1) % 44 ELSE (h - 1 + 44) % 44
<1>1. l > 0 => g = h + 1 \/ (g = 0 /\ h = 43)
  BY SMT DEF Splits, q, Sum
<1>2. l <= 0 => g = h - 1 \/ (h = 0 /\ g = 43)
  BY SMT DEF Splits, q, Sum
<1> QED BY <1>1, <1>2, SMT DEF Splits

\* The same for the other gamma2.
LEMMA NextStep32 ==
  ASSUME NEW r \in Int, NEW s \in Int, NEW z \in Int, -261888 <= z, z <= 261888,
         Sum(r, z, s),
         NEW h, NEW l, NEW g, NEW k, Splits(r, h, l, 523776, 16), Splits(s, g, k, 523776, 16), h # g
  PROVE  g = IF l > 0 THEN (h + 1) % 16 ELSE (h - 1 + 16) % 16
<1>1. l > 0 => g = h + 1 \/ (g = 0 /\ h = 15)
  BY SMT DEF Splits, q, Sum
<1>2. l <= 0 => g = h - 1 \/ (h = 0 /\ g = 15)
  BY SMT DEF Splits, q, Sum
<1> QED BY <1>1, <1>2, SMT DEF Splits

\* A hint carries the high bits across an addition.
LEMMA HintRecovers ==
  ASSUME NEW p, p.Gamma2 \in {95232, 261888}, NEW r \in Int, 0 <= r, r <= 8380416,
         NEW z \in Int, -p.Gamma2 <= z, z <= p.Gamma2
  PROVE  useHint(p, makeHint(p, Canonical(z), r), r) = highBits(p, addQ(r, Canonical(z)))
<1> DEFINE s == addQ(r, Canonical(z))
<1>0. -261888 <= z /\ z <= 261888
  BY SMT
<1>1. s \in Int /\ 0 <= s /\ s <= 8380416 /\ Sum(r, z, s)
  BY <1>0, Added, SMT
<1>2. makeHint(p, Canonical(z), r) = IF highBits(p, r) # highBits(p, s) THEN 1 ELSE 0
  BY SMT DEF makeHint
<1>3. (q - 1) \div (2 * 95232) = 44 /\ (q - 1) \div (2 * 261888) = 16
  BY SMT DEF q
<1> HIDE DEF s
<1>4. CASE p.Gamma2 = 95232
  <2>1. PICK h \in Int, l \in Int : decompose(p, r) = <<h, l>> /\ Splits(r, h, l, 190464, 44)
    BY <1>4, Decomposed, SMT
  <2>2. PICK g \in Int, k \in Int : decompose(p, s) = <<g, k>> /\ Splits(s, g, k, 190464, 44)
    BY <1>1, <1>4, Decomposed, SMT
  <2>3. h # g => g = IF l > 0 THEN (h + 1) % 44 ELSE (h - 1 + 44) % 44
    BY <1>1, <1>4, <2>1, <2>2, NextStep88, SMT
  <2>4. highBits(p, r) = h /\ highBits(p, s) = g
    BY <2>1, <2>2, SMT DEF highBits
  <2>5. useHint(p, IF h # g THEN 1 ELSE 0, r) = IF h = g THEN h ELSE IF l > 0 THEN (h + 1) % 44 ELSE (h - 1 + 44) % 44
    BY <1>3, <1>4, <2>1, SMT DEF useHint
  <2> QED BY <1>2, <2>3, <2>4, <2>5, SMT DEF s
<1>5. CASE p.Gamma2 = 261888
  <2>1. PICK h \in Int, l \in Int : decompose(p, r) = <<h, l>> /\ Splits(r, h, l, 523776, 16)
    BY <1>5, Decomposed, SMT
  <2>2. PICK g \in Int, k \in Int : decompose(p, s) = <<g, k>> /\ Splits(s, g, k, 523776, 16)
    BY <1>1, <1>5, Decomposed, SMT
  <2>3. h # g => g = IF l > 0 THEN (h + 1) % 16 ELSE (h - 1 + 16) % 16
    BY <1>1, <1>5, <2>1, <2>2, NextStep32, SMT
  <2>4. highBits(p, r) = h /\ highBits(p, s) = g
    BY <2>1, <2>2, SMT DEF highBits
  <2>5. useHint(p, IF h # g THEN 1 ELSE 0, r) = IF h = g THEN h ELSE IF l > 0 THEN (h + 1) % 16 ELSE (h - 1 + 16) % 16
    BY <1>3, <1>5, <2>1, SMT DEF useHint
  <2> QED BY <1>2, <2>3, <2>4, <2>5, SMT DEF s
<1> QED BY <1>4, <1>5, SMT

\* power2Round splits off thirteen centred bits.
LEMMA Power2RoundSplits ==
  ASSUME NEW r \in Int, 0 <= r
  PROVE  LET t == power2Round(13, r) IN
         t[1] * 2^13 + t[2] = r /\ t[2] > -(2^12) /\ t[2] <= 2^12
<1>1. 2^13 = 8192 /\ 2^12 = 4096 /\ 2^(13 - 1) = 4096
  BY SMT
<1> DEFINE low == r % 8192
           r0 == IF low > 4096 THEN low - 8192 ELSE low
<1>2. power2Round(13, r) = <<(r - r0) \div 8192, r0>>
  BY <1>1, SMT DEF power2Round
<1>3. ((r - r0) \div 8192) * 8192 + r0 = r /\ r0 > -4096 /\ r0 <= 4096
  BY SMT
<1> HIDE DEF r0
<1> QED BY <1>1, <1>2, <1>3, SMT

-----------------------------------------------------------------------------
(* Hints.                                                                  *)

Place == Int \X Int

\* The order of the two loops is a strict total order.
LEMMA EarlierOrders ==
  ASSUME NEW x \in Place, NEW y \in Place
  PROVE  /\ ~Earlier(x, x)
         /\ ~(Earlier(x, y) /\ Earlier(y, x))
         /\ x # y => Earlier(x, y) \/ Earlier(y, x)
         /\ \A z \in Place : Earlier(x, y) /\ Earlier(y, z) => Earlier(x, z)
<1> PICK a \in Int, b \in Int, c \in Int, d \in Int : x = <<a, b>> /\ y = <<c, d>>
  BY DEF Place
<1>1. \A z \in Place : Earlier(x, y) /\ Earlier(y, z) => Earlier(x, z)
  <2> TAKE z \in Place
  <2> PICK e \in Int, f \in Int : z = <<e, f>>
    BY DEF Place
  <2> QED BY DEF Earlier
<1>2. x # y => Earlier(x, y) \/ Earlier(y, x)
  BY DEF Earlier
<1>3. ~Earlier(x, x) /\ ~(Earlier(x, y) /\ Earlier(y, x))
  BY DEF Earlier
<1> QED BY <1>1, <1>2, <1>3

\* f lists the places of S in order.
Lists(f, N, S) ==
    /\ N \in Nat /\ f \in [1..N -> Place] /\ S = {f[t] : t \in 1..N}
    /\ \A t, u \in 1..N : t < u => Earlier(f[t], f[u])

\* The first m places of a list are m places.
LEMMA ListCounts ==
  ASSUME NEW f, NEW N, NEW S, Lists(f, N, S), NEW m \in 0..N
  PROVE  IsFiniteSet({f[t] : t \in 1..m}) /\ Cardinality({f[t] : t \in 1..m}) = m
<1> DEFINE T == {f[t] : t \in 1..m}
           g == [t \in 1..m |-> f[t]]
<1>1. m \in Nat /\ 1..m \subseteq 1..N /\ N \in Nat
  BY DEF Lists
<1>2. \A t, u \in 1..m : f[t] = f[u] => t = u
  <2> TAKE t \in 1..m, u \in 1..m
  <2> HAVE f[t] = f[u]
  <2>1. t \in 1..N /\ u \in 1..N /\ f[t] \in Place
    BY <1>1 DEF Lists
  <2>2. ~Earlier(f[t], f[t])
    BY <2>1, EarlierOrders
  <2>3. ~(t < u) /\ ~(u < t)
    BY <2>1, <2>2 DEF Lists
  <2> QED BY <2>1, <2>3
<1>3. g \in [1..m -> T] /\ \A t \in 1..m : g[t] = f[t]
  OBVIOUS
<1>4. \A y \in T : \E t \in 1..m : g[t] = y
  BY <1>3
<1> HIDE DEF g
<1>5. g \in Injection(1..m, T) /\ g \in Surjection(1..m, T)
  BY <1>2, <1>3, <1>4 DEF Injection, IsInjective, Surjection
<1>6. ExistsBijection(1..m, T)
  BY <1>5 DEF ExistsBijection, Bijection
<1>7. Cardinality(T) = m
  BY <1>1, <1>6, FS_CountingElements
<1>8. IsFiniteSet(T)
  BY <1>1, <1>6, FS_NatBijection
<1> QED BY <1>7, <1>8

\* Before the u-th place of a list are the u - 1 first ones.
LEMMA ListBefore ==
  ASSUME NEW f, NEW N, NEW S, Lists(f, N, S), NEW u \in 1..N
  PROVE  Before(S, f[u]) = {f[t] : t \in 1..(u - 1)} /\ Cardinality(Before(S, f[u])) = u - 1
<1>1. N \in Nat /\ u - 1 \in 0..N
  BY DEF Lists
<1>2. \A t \in 1..N : Earlier(f[t], f[u]) <=> t \in 1..(u - 1)
  <2> TAKE t \in 1..N
  <2>1. f[t] \in Place /\ f[u] \in Place
    BY DEF Lists
  <2>2. t < u => Earlier(f[t], f[u])
    BY DEF Lists
  <2>3. u < t => Earlier(f[u], f[t])
    BY DEF Lists
  <2>4. ~(Earlier(f[t], f[u]) /\ Earlier(f[u], f[t])) /\ ~Earlier(f[u], f[u])
    BY <2>1, EarlierOrders
  <2>5. t < u \/ u < t \/ t = u
    BY <1>1
  <2> QED BY <1>1, <2>2, <2>3, <2>4, <2>5
<1>3. 1..(u - 1) \subseteq 1..N
  BY <1>1
<1>4. Before(S, f[u]) = {f[t] : t \in 1..(u - 1)}
  <2>1. ASSUME NEW y \in Before(S, f[u]) PROVE y \in {f[t] : t \in 1..(u - 1)}
    <3>1. PICK t \in 1..N : y = f[t]
      BY <2>1 DEF Before, Lists
    <3> QED BY <1>2, <2>1, <3>1 DEF Before
  <2>2. ASSUME NEW t \in 1..(u - 1) PROVE f[t] \in Before(S, f[u])
    BY <1>2, <1>3, <2>2 DEF Before, Lists
  <2> QED BY <2>1, <2>2
<1>5. Cardinality({f[t] : t \in 1..(u - 1)}) = u - 1
  BY <1>1, ListCounts
<1> QED BY <1>4, <1>5

\* The two halves of an encoding.
Slots(f, N, Omega) == [t \in 1 .. Omega |-> IF t <= N THEN f[t][2] ELSE 0]
Counts(ones, K) == [i \in 1 .. K |-> Cardinality({x \in ones : x[1] < i})]

\* What a list of the ones packs to.
LEMMA PackedList ==
  ASSUME NEW p, NEW h, NEW f, NEW N, Lists(f, N, Ones(p, h)), p.Omega \in Nat, p.K \in Nat, N <= p.Omega
  PROVE  hintBitPack(p, h) = Slots(f, N, p.Omega) \o Counts(Ones(p, h), p.K)
<1> DEFINE ones == Ones(p, h)
           at(t) == CHOOSE x \in ones : Cardinality(Before(ones, x)) = t - 1
<1>1. N \in Nat /\ N \in 0..N /\ ones = {f[t] : t \in 1..N}
  BY DEF Lists
<1>2. Cardinality(ones) = N
  BY <1>1, ListCounts
<1>3. ASSUME NEW t \in 1..N PROVE at(t) = f[t]
  <2>1. f[t] \in ones /\ Cardinality(Before(ones, f[t])) = t - 1
    BY <1>1, ListBefore
  <2>2. at(t) \in ones /\ Cardinality(Before(ones, at(t))) = t - 1
    BY <2>1
  <2> HIDE DEF at
  <2>3. PICK u \in 1..N : at(t) = f[u]
    BY <1>1, <2>2
  <2>4. Cardinality(Before(ones, f[u])) = u - 1
    BY ListBefore
  <2>5. t - 1 = u - 1
    BY <2>2, <2>3, <2>4
  <2> QED BY <1>1, <2>3, <2>5
<1> HIDE DEF ones, at
<1>4. [t \in 1 .. p.Omega |-> IF t <= Cardinality(ones) THEN at(t)[2] ELSE 0]
       = Slots(f, N, p.Omega)
  <2>1. \A t \in 1..p.Omega : t <= N => t \in 1..N
    BY <1>1
  <2> QED BY <1>2, <1>3, <2>1 DEF Slots
<1> QED BY <1>4 DEF hintBitPack, Counts, ones, at

-----------------------------------------------------------------------------
(* What hintBitUnpack accepts is the packing of what it returns.           *)

\* A well-formed encoding: the ends grow, the positions of a polynomial
\* increase, what is left is zero.
WellFormed(p, src) ==
    /\ \A i \in 1 .. p.K : HintEnd(p, src, i - 1) <= HintEnd(p, src, i) /\ HintEnd(p, src, i) <= p.Omega
    /\ HintsIncrease(p, src)
    /\ \A t \in HintEnd(p, src, p.K) + 1 .. p.Omega : src[t] = 0

Encoded(p, src) ==
    /\ p.K \in Nat /\ p.Omega \in Nat /\ p.n \in Nat
    /\ src \in [1 .. p.Omega + p.K -> Nat]
    /\ \A t \in 1 .. p.Omega : src[t] < p.n

\* The ends stored after the positions are naturals.
LEMMA EndsAreCounts ==
  ASSUME NEW p, NEW src, Encoded(p, src), NEW i \in 0..p.K
  PROVE  HintEnd(p, src, i) \in Nat
<1>1. i # 0 => p.Omega + i \in 1 .. p.Omega + p.K
  BY DEF Encoded
<1> QED BY <1>1 DEF Encoded, HintEnd

\* The ends of well-formed bytes never decrease.
LEMMA EndsGrow ==
  ASSUME NEW p, NEW src, Encoded(p, src), WellFormed(p, src), NEW j \in 0..p.K
  PROVE  \A i \in 0..j : HintEnd(p, src, i) <= HintEnd(p, src, j)
<1> DEFINE e(i) == HintEnd(p, src, i)
           S == {k \in Nat : k <= p.K => \A i \in 0..k : e(i) <= e(k)}
<1>0. p.K \in Nat /\ \A i \in 0..p.K : e(i) \in Nat
  BY EndsAreCounts DEF Encoded
<1>00. \A i \in 1..p.K : e(i - 1) <= e(i)
  BY DEF WellFormed
<1> HIDE DEF e
<1>1. 0 \in S
  <2>1. \A i \in 0..0 : i = 0
    OBVIOUS
  <2>2. e(0) <= e(0)
    BY <1>0
  <2> QED BY <2>1, <2>2
<1>2. ASSUME NEW k \in Nat, k \in S PROVE k + 1 \in S
  <2> SUFFICES ASSUME k + 1 <= p.K, NEW i \in 0..(k + 1) PROVE e(i) <= e(k + 1)
    OBVIOUS
  <2>1. k + 1 \in 1..p.K /\ (k + 1) - 1 = k /\ k \in 0..p.K /\ i \in 0..p.K /\ k + 1 \in 0..p.K
    BY <1>0
  <2>2. e(k) <= e(k + 1)
    BY <1>00, <2>1
  <2>3. CASE i = k + 1
    BY <1>0, <2>1, <2>3
  <2>4. CASE i \in 0..k
    <3>1. e(i) <= e(k)
      BY <1>0, <1>2, <2>1, <2>4
    <3>2. e(i) \in Nat /\ e(k) \in Nat /\ e(k + 1) \in Nat
      BY <1>0, <2>1
    <3> QED BY <2>2, <3>1, <3>2
  <2> QED BY <2>3, <2>4
<1>3. \A k \in Nat : k \in S
  <2> HIDE DEF S
  <2> QED BY <1>1, <1>2, Induction
<1> QED BY <1>0, <1>3 DEF e

\* Every position before the last end is of one polynomial.
LEMMA RowExists ==
  ASSUME NEW p, NEW src, Encoded(p, src), WellFormed(p, src), NEW t \in 1..HintEnd(p, src, p.K)
  PROVE  \E i \in 0..p.K - 1 : HintEnd(p, src, i) < t /\ t <= HintEnd(p, src, i + 1)
<1> DEFINE e(i) == HintEnd(p, src, i)
           S == {k \in 0..p.K : t <= e(k)}
<1>0. p.K \in Nat /\ \A i \in 0..p.K : e(i) \in Nat
  BY EndsAreCounts DEF Encoded
<1>00. e(0) = 0
  BY DEF HintEnd
<1> HIDE DEF e
<1>1. S \subseteq Nat /\ p.K \in S
  BY <1>0 DEF e
<1>2. PICK k \in S : \A y \in S : k <= y
  BY <1>1, LeastNatural
<1>3. t \in Nat /\ t # 0
  BY <1>0 DEF e
<1>4. k # 0 /\ k \in 0..p.K /\ t <= e(k)
  BY <1>2, <1>3, <1>00
<1>5. k - 1 \in 0..p.K - 1 /\ (k - 1) + 1 = k /\ k - 1 \in 0..p.K /\ ~(k <= k - 1)
  BY <1>0, <1>4
<1>6. k - 1 \notin S
  BY <1>2, <1>5
<1>7. e(k - 1) < t
  BY <1>0, <1>3, <1>5, <1>6
<1> QED BY <1>4, <1>5, <1>7 DEF e

\* The positions of one polynomial increase.
LEMMA RowIncreases ==
  ASSUME NEW p, NEW src, Encoded(p, src), WellFormed(p, src), NEW i \in 0..p.K - 1,
         NEW t \in HintEnd(p, src, i) + 1 .. HintEnd(p, src, i + 1),
         NEW u \in HintEnd(p, src, i) + 1 .. HintEnd(p, src, i + 1), t < u
  PROVE  src[t] < src[u]
<1> DEFINE a == HintEnd(p, src, i)
           b == HintEnd(p, src, i + 1)
           S == {k \in Nat : t + 1 + k <= b => src[t] < src[t + 1 + k]}
<1>0. a \in Nat /\ b \in Nat /\ b <= p.Omega /\ p.Omega \in Nat /\ p.K \in Nat
  <2>1. p.K \in Nat /\ i + 1 \in 1..p.K /\ i \in 0..p.K /\ i + 1 \in 0..p.K
    BY DEF Encoded
  <2> QED BY <2>1, EndsAreCounts DEF WellFormed, Encoded
<1>1. \A v \in a + 1 .. b : src[v] \in Nat
  <2> HIDE DEF a, b
  <2> TAKE v \in a + 1 .. b
  <2>1. v \in 1 .. p.Omega + p.K
    BY <1>0
  <2> QED BY <2>1 DEF Encoded
<1>2. \A v \in a + 2 .. b : src[v - 1] < src[v]
  <2>1. i + 1 \in 1..p.K /\ (i + 1) - 1 = i
    BY <1>0
  <2> QED BY <2>1 DEF WellFormed, HintsIncrease
<1> HIDE DEF a, b
<1>3. t \in a + 1 .. b /\ u \in a + 1 .. b
  BY DEF a, b
<1>4. 0 \in S
  BY <1>0, <1>2, <1>3
<1>5. ASSUME NEW k \in Nat, k \in S PROVE k + 1 \in S
  <2> SUFFICES ASSUME t + 1 + (k + 1) <= b PROVE src[t] < src[t + 1 + (k + 1)]
    OBVIOUS
  <2> DEFINE v == t + 1 + (k + 1)
  <2>1. v \in a + 2 .. b /\ v - 1 = t + 1 + k /\ t + 1 + k <= b /\ v - 1 \in a + 1 .. b /\ v \in a + 1 .. b
    BY <1>0, <1>3
  <2>2. src[v - 1] < src[v] /\ src[t] < src[v - 1]
    BY <1>2, <1>5, <2>1
  <2>3. src[t] \in Nat /\ src[v - 1] \in Nat /\ src[v] \in Nat
    BY <1>1, <1>3, <2>1
  <2> QED BY <2>2, <2>3
<1>6. \A k \in Nat : k \in S
  <2> HIDE DEF S
  <2> QED BY <1>4, <1>5, Induction
<1>7. u - t - 1 \in Nat /\ t + 1 + (u - t - 1) = u /\ u <= b
  BY <1>0, <1>3
<1>8. u - t - 1 \in S
  BY <1>6, <1>7
<1> QED BY <1>7, <1>8

\* The vector hintBitUnpack returns.
Unpacked(p, src) ==
    [i \in 0 .. p.K - 1 |-> [j \in 0 .. p.n - 1 |->
        IF \E t \in HintEnd(p, src, i) + 1 .. HintEnd(p, src, i + 1) : src[t] = j THEN 1 ELSE 0]]

\* hintBitUnpack returns its vector exactly for well-formed bytes.
LEMMA UnpackIs ==
  ASSUME NEW p, NEW src
  PROVE  hintBitUnpack(p, src) = IF WellFormed(p, src) THEN {Unpacked(p, src)} ELSE {}
  BY DEF hintBitUnpack, WellFormed, Unpacked

\* The ones of the vector are the positions stored for each polynomial.
LEMMA UnpackedOnes ==
  ASSUME NEW p, NEW src, Encoded(p, src), NEW x
  PROVE  x \in Ones(p, Unpacked(p, src)) <=>
           \E i \in 0 .. p.K - 1, j \in 0 .. p.n - 1 :
               x = <<i, j>> /\ \E t \in HintEnd(p, src, i) + 1 .. HintEnd(p, src, i + 1) : src[t] = j
<1> DEFINE h == Unpacked(p, src)
<1>1. ASSUME NEW i \in 0 .. p.K - 1, NEW j \in 0 .. p.n - 1
      PROVE  h[i][j] = 1 <=> \E t \in HintEnd(p, src, i) + 1 .. HintEnd(p, src, i + 1) : src[t] = j
  BY DEF Unpacked
<1> HIDE DEF h
<1>2. x \in Ones(p, h) <=> \E i \in 0 .. p.K - 1, j \in 0 .. p.n - 1 : x = <<i, j>> /\ h[i][j] = 1
  BY DEF Ones
<1> QED BY <1>1, <1>2 DEF h

\* Well-formed bytes list the ones of their vector, in order, and the ends say
\* how many are of the first polynomials.
LEMMA UnpackedListed ==
  ASSUME NEW p, NEW src, Encoded(p, src), WellFormed(p, src)
  PROVE  LET N == HintEnd(p, src, p.K) IN
         \E f : /\ N <= p.Omega /\ Lists(f, N, Ones(p, Unpacked(p, src)))
                /\ \A t \in 1..N : f[t][2] = src[t]
                /\ \A t \in 1..N, i \in 0..p.K : f[t][1] < i <=> t <= HintEnd(p, src, i)
<1> DEFINE e(i) == HintEnd(p, src, i)
           N == e(p.K)
           In(i, t) == i \in 0..p.K - 1 /\ e(i) < t /\ t <= e(i + 1)
           row(t) == CHOOSE i \in 0..p.K - 1 : In(i, t)
           f == [t \in 1..N |-> <<row(t), src[t]>>]
           S == Ones(p, Unpacked(p, src))
<1>0. /\ p.K \in Nat /\ p.Omega \in Nat /\ p.n \in Nat
      /\ \A i \in 0..p.K : e(i) \in Nat
  BY EndsAreCounts DEF Encoded
<1>1. N \in Nat /\ N <= p.Omega
  <2>1. p.K # 0 => p.K \in 1..p.K
    BY <1>0
  <2>2. p.K = 0 => e(p.K) = 0
    BY DEF HintEnd
  <2> QED BY <1>0, <2>1, <2>2 DEF WellFormed
<1>2. \A i \in 0..p.K : \A k \in 0..i : e(k) <= e(i)
  BY EndsGrow
<1>3. \A t \in 1..N : \E i \in 0..p.K - 1 : In(i, t)
  BY RowExists
<1>4. \A t \in 1..N : src[t] \in Nat /\ src[t] \in 0..p.n - 1
  <2> TAKE t \in 1..N
  <2> HIDE DEF N
  <2>1. t \in 1..p.Omega /\ t \in 1 .. p.Omega + p.K
    BY <1>0, <1>1
  <2>2. src[t] \in Nat /\ src[t] < p.n
    BY <2>1 DEF Encoded
  <2> QED BY <1>0, <2>2
<1>5. \A i \in 0..p.K - 1 : \A t, u \in e(i) + 1 .. e(i + 1) : t < u => src[t] < src[u]
  BY RowIncreases
<1>6. \A x : x \in S <=> \E i \in 0 .. p.K - 1, j \in 0 .. p.n - 1 :
                  x = <<i, j>> /\ \E t \in e(i) + 1 .. e(i + 1) : src[t] = j
  BY UnpackedOnes
<1>7. \A i \in 0..p.K - 1 : i \in 0..p.K /\ i + 1 \in 0..p.K /\ i \in Nat
  BY <1>0
<1> HIDE DEF e
<1>8. \A t \in 1..N : In(row(t), t) /\ row(t) \in 0..p.K - 1
  BY <1>3
<1> HIDE DEF row
<1>9. \A t \in 1..N : f[t] = <<row(t), src[t]>>
  OBVIOUS
<1>10. f \in [1..N -> Place]
  <2>1. \A t \in 1..N : row(t) \in Int /\ src[t] \in Int
    BY <1>4, <1>7, <1>8
  <2> QED BY <2>1 DEF Place
<1> HIDE DEF f, N
<1>11. ASSUME NEW t \in 1..N, NEW i \in 0..p.K PROVE f[t][1] < i <=> t <= e(i)
  <2>1. f[t][1] = row(t) /\ row(t) \in 0..p.K - 1 /\ In(row(t), t) /\ t \in Nat
    BY <1>1, <1>8, <1>9
  <2>2. row(t) \in Nat /\ row(t) + 1 \in 0..p.K /\ row(t) \in 0..p.K
    BY <1>7, <2>1
  <2>3. e(row(t)) < t /\ t <= e(row(t) + 1)
    BY <2>1
  <2>4. CASE row(t) < i
    <3>1. row(t) + 1 \in 0..i
      BY <2>2, <2>4
    <3>2. e(row(t) + 1) <= e(i)
      BY <1>2, <3>1
    <3>3. e(row(t) + 1) \in Nat /\ e(i) \in Nat
      BY <1>0, <2>2
    <3> QED BY <2>1, <2>3, <2>4, <3>2, <3>3
  <2>5. CASE ~(row(t) < i)
    <3>1. i \in 0..row(t)
      BY <2>2, <2>5
    <3>2. e(i) <= e(row(t))
      BY <1>2, <2>2, <3>1
    <3>3. e(row(t)) \in Nat /\ e(i) \in Nat
      BY <1>0, <2>2
    <3> QED BY <2>1, <2>3, <2>5, <3>2, <3>3
  <2> QED BY <2>4, <2>5
<1>12. \A t, u \in 1..N : t < u => Earlier(f[t], f[u])
  <2> TAKE t \in 1..N, u \in 1..N
  <2> HAVE t < u
  <2>1. /\ f[t] = <<row(t), src[t]>> /\ f[u] = <<row(u), src[u]>>
        /\ row(t) \in 0..p.K - 1 /\ row(u) \in 0..p.K - 1 /\ In(row(t), t) /\ In(row(u), u)
        /\ t \in Nat /\ u \in Nat
    BY <1>1, <1>8, <1>9
  <2>2. row(t) \in Nat /\ row(u) \in Nat /\ row(u) + 1 \in 0..p.K
    BY <1>7, <2>1
  <2>3. row(t) < row(u) + 1
    <3>1. t <= e(row(u) + 1)
      <4>1. u <= e(row(u) + 1) /\ e(row(u) + 1) \in Nat
        BY <1>0, <2>1, <2>2
      <4> QED BY <2>1, <4>1
    <3>2. f[t][1] < row(u) + 1
      BY <1>11, <2>2, <3>1
    <3> QED BY <2>1, <3>2
  <2>4. CASE row(t) = row(u)
    <3>1. e(row(t)) \in Nat /\ e(row(t) + 1) \in Nat
      BY <1>0, <1>7, <2>1
    <3>2. t \in e(row(t)) + 1 .. e(row(t) + 1) /\ u \in e(row(t)) + 1 .. e(row(t) + 1)
      BY <2>1, <2>4, <3>1
    <3>3. src[t] < src[u]
      BY <1>5, <2>1, <3>2
    <3> QED BY <2>1, <2>4, <3>3 DEF Earlier
  <2>5. CASE row(t) # row(u)
    <3>1. row(t) < row(u)
      BY <2>2, <2>3, <2>5
    <3> QED BY <2>1, <3>1 DEF Earlier
  <2> QED BY <2>4, <2>5
<1>13. S = {f[t] : t \in 1..N}
  <2>1. ASSUME NEW x \in S PROVE \E t \in 1..N : x = f[t]
    <3>1. PICK i \in 0 .. p.K - 1, j \in 0 .. p.n - 1 : x = <<i, j>> /\ \E t \in e(i) + 1 .. e(i + 1) : src[t] = j
      BY <1>6, <2>1
    <3>2. PICK t \in e(i) + 1 .. e(i + 1) : src[t] = j
      BY <3>1
    <3>3. e(i) \in Nat /\ e(i + 1) \in Nat /\ i \in 0..p.K /\ i + 1 \in 0..p.K /\ i \in Nat
      BY <1>0, <1>7
    <3>4. e(i + 1) <= N
      <4>1. p.K \in 0..p.K
        BY <1>0
      <4> QED BY <1>2, <3>3, <4>1 DEF N
    <3>5. t \in 1..N /\ e(i) < t /\ t <= e(i + 1) /\ t \in Nat
      BY <1>1, <3>3, <3>4
    <3>6. f[t][1] < i + 1 /\ ~(f[t][1] < i)
      BY <1>11, <3>3, <3>5
    <3>7. f[t][1] = row(t) /\ row(t) \in Nat
      BY <1>7, <1>8, <1>9, <3>5
    <3>8. row(t) = i
      BY <3>3, <3>6, <3>7
    <3> QED BY <1>9, <3>1, <3>2, <3>5, <3>8
  <2>2. ASSUME NEW t \in 1..N PROVE f[t] \in S
    <3>1. In(row(t), t) /\ row(t) \in 0..p.K - 1 /\ t \in Nat /\ src[t] \in 0..p.n - 1
      BY <1>1, <1>4, <1>8 DEF N
    <3>2. t \in e(row(t)) + 1 .. e(row(t) + 1)
      BY <1>0, <1>7, <3>1
    <3>3. f[t] = <<row(t), src[t]>>
      BY <1>9
    <3>4. <<row(t), src[t]>> \in S
      BY <1>6, <3>1, <3>2
    <3> QED BY <3>3, <3>4
  <2> QED BY <2>1, <2>2
<1>14. Lists(f, N, S)
  BY <1>1, <1>10, <1>12, <1>13 DEF Lists
<1>15. \A t \in 1..N : f[t][2] = src[t]
  BY <1>9
<1> QED BY <1>1, <1>11, <1>14, <1>15 DEF e, N

\* What is accepted packs back to the same bytes.
LEMMA UnpackedPacks ==
  ASSUME NEW p, NEW src, Encoded(p, src), WellFormed(p, src)
  PROVE  hintBitPack(p, Unpacked(p, src)) = src
<1> DEFINE N == HintEnd(p, src, p.K)
           ones == Ones(p, Unpacked(p, src))
<1>1. PICK f : /\ N <= p.Omega /\ Lists(f, N, ones)
               /\ \A t \in 1..N : f[t][2] = src[t]
               /\ \A t \in 1..N, i \in 0..p.K : f[t][1] < i <=> t <= HintEnd(p, src, i)
  BY UnpackedListed
<1>0. p.K \in Nat /\ p.Omega \in Nat /\ N \in Nat
  BY <1>1 DEF Encoded, Lists
<1> DEFINE a == Slots(f, N, p.Omega)
           c == Counts(ones, p.K)
<1>2. hintBitPack(p, Unpacked(p, src)) = a \o c
  BY <1>0, <1>1, PackedList
<1>3. \A t \in 1..p.Omega : a[t] = src[t]
  <2> TAKE t \in 1..p.Omega
  <2>1. CASE t <= N
    <3>1. t \in 1..N
      BY <1>0, <2>1
    <3> QED BY <1>1, <2>1, <3>1 DEF Slots
  <2>2. CASE ~(t <= N)
    <3> HIDE DEF N
    <3>1. t \in N + 1 .. p.Omega
      BY <1>0, <2>2
    <3>2. src[t] = 0
      BY <3>1 DEF WellFormed, N
    <3> QED BY <2>2, <3>2 DEF Slots
  <2> QED BY <2>1, <2>2
<1>4. \A i \in 1..p.K : c[i] = src[p.Omega + i]
  <2> TAKE i \in 1..p.K
  <2> DEFINE m == HintEnd(p, src, i)
  <2>1. i \in 0..p.K /\ i # 0 /\ m = src[p.Omega + i] /\ p.K \in 0..p.K
    BY <1>0 DEF HintEnd
  <2>2. m <= N /\ m \in Nat
    BY <1>0, <2>1, EndsGrow, EndsAreCounts
  <2> HIDE DEF m, N
  <2>3. m \in 0..N /\ 1..m \subseteq 1..N
    BY <1>0, <2>2
  <2>4. {x \in ones : x[1] < i} = {f[t] : t \in 1..m}
    <3>1. ASSUME NEW x \in ones, x[1] < i PROVE x \in {f[t] : t \in 1..m}
      <4>1. PICK t \in 1..N : x = f[t]
        BY <1>1, <3>1 DEF Lists
      <4>2. t <= m
        BY <1>1, <2>1, <3>1, <4>1 DEF m
      <4>3. t \in 1..m
        BY <1>0, <2>2, <4>2
      <4> QED BY <4>1, <4>3
    <3>2. ASSUME NEW t \in 1..m PROVE f[t] \in ones /\ f[t][1] < i
      <4>1. t \in 1..N /\ t <= m
        BY <2>2, <2>3
      <4>2. f[t][1] < i
        BY <1>1, <2>1, <4>1 DEF m
      <4> QED BY <1>1, <4>1, <4>2 DEF Lists
    <3> QED BY <3>1, <3>2
  <2>5. Cardinality({f[t] : t \in 1..m}) = m
    BY <1>1, <2>3, ListCounts
  <2> QED BY <2>1, <2>4, <2>5 DEF Counts
<1> HIDE DEF a, c, N, ones
<1>5. src \in Seq(Nat) /\ Len(src) = p.Omega + p.K
  BY <1>0 DEF Encoded
<1>6. a \in Seq(Nat) /\ Len(a) = p.Omega
  <2>1. a = [t \in 1..p.Omega |-> a[t]]
    BY DEF a, Slots
  <2>2. \A t \in 1..p.Omega : a[t] \in Nat
    <3> TAKE t \in 1..p.Omega
    <3>1. t \in 1 .. p.Omega + p.K
      BY <1>0
    <3> QED BY <1>3, <3>1 DEF Encoded
  <2>3. a \in [1..p.Omega -> Nat]
    BY <2>1, <2>2
  <2> QED BY <1>0, <2>3
<1>7. c \in Seq(Nat) /\ Len(c) = p.K
  <2>1. c = [t \in 1..p.K |-> c[t]]
    BY DEF c, Counts
  <2>2. \A t \in 1..p.K : c[t] \in Nat
    <3> TAKE t \in 1..p.K
    <3>1. p.Omega + t \in 1 .. p.Omega + p.K
      BY <1>0
    <3> QED BY <1>4, <3>1 DEF Encoded
  <2>3. c \in [1..p.K -> Nat]
    BY <2>1, <2>2
  <2> QED BY <1>0, <2>3
<1>8. a \o c = src
  <2>0. /\ a \o c \in Seq(Nat) /\ Len(a \o c) = Len(a) + Len(c)
        /\ \A i \in 1 .. Len(a) + Len(c) : (a \o c)[i] = IF i <= Len(a) THEN a[i] ELSE c[i - Len(a)]
    BY <1>6, <1>7, ConcatProperties
  <2>1. /\ a \o c \in Seq(Nat) /\ Len(a \o c) = p.Omega + p.K
        /\ \A i \in 1 .. p.Omega + p.K : (a \o c)[i] = IF i <= p.Omega THEN a[i] ELSE c[i - p.Omega]
    BY <1>6, <1>7, <2>0
  <2>2. \A i \in 1 .. p.Omega + p.K : (a \o c)[i] = src[i]
    <3> TAKE i \in 1 .. p.Omega + p.K
    <3>1. CASE i <= p.Omega
      <4>1. i \in 1..p.Omega
        BY <1>0, <3>1
      <4> QED BY <1>3, <2>1, <3>1, <4>1
    <3>2. CASE ~(i <= p.Omega)
      <4>1. i - p.Omega \in 1..p.K /\ p.Omega + (i - p.Omega) = i
        BY <1>0, <3>2
      <4>2. c[i - p.Omega] = src[i]
        BY <1>4, <4>1
      <4> QED BY <2>1, <3>2, <4>2
    <3> QED BY <3>1, <3>2
  <2> QED BY <1>5, <2>1, <2>2, SeqEqual
<1> QED BY <1>2, <1>8 DEF ones

-----------------------------------------------------------------------------
(* What hintBitPack writes is accepted, and as the same vector.            *)

HintVector(p, h) ==
    /\ p.K \in Nat /\ p.Omega \in Nat /\ p.n \in Nat
    /\ h \in [0 .. p.K - 1 -> [0 .. p.n - 1 -> {0, 1}]]
    /\ Cardinality(Ones(p, h)) <= p.Omega

\* A hint vector has finitely many ones.
LEMMA OnesFinite ==
  ASSUME NEW p, NEW h, HintVector(p, h)
  PROVE  IsFiniteSet(Ones(p, h)) /\ Cardinality(Ones(p, h)) \in Nat /\ Ones(p, h) \subseteq Place
<1>1. p.K - 1 \in Int /\ p.n - 1 \in Int
  BY DEF HintVector
<1>2. IsFiniteSet(0 .. p.K - 1) /\ IsFiniteSet(0 .. p.n - 1)
  BY <1>1, FS_Interval
<1>3. IsFiniteSet((0 .. p.K - 1) \X (0 .. p.n - 1))
  BY <1>2, FS_Product
<1>4. Ones(p, h) \in SUBSET ((0 .. p.K - 1) \X (0 .. p.n - 1))
  BY DEF Ones
<1>5. IsFiniteSet(Ones(p, h))
  BY <1>3, <1>4, FS_Subset
<1>6. Ones(p, h) \subseteq Place
  BY <1>1, <1>4 DEF Place
<1> QED BY <1>5, <1>6, FS_CardinalityType

\* The one with t - 1 ones before it is the t-th.
LEMMA OnesListed ==
  ASSUME NEW S, IsFiniteSet(S), S \subseteq Place
  PROVE  \E f : Lists(f, Cardinality(S), S)
<1> DEFINE N == Cardinality(S)
           rank == [x \in S |-> Cardinality(Before(S, x)) + 1]
<1>1. N \in Nat
  BY FS_CardinalityType
<1>2. \A x \in S : IsFiniteSet(Before(S, x)) /\ Cardinality(Before(S, x)) \in Nat
  <2> TAKE x \in S
  <2>1. Before(S, x) \in SUBSET S
    BY DEF Before
  <2>2. IsFiniteSet(Before(S, x))
    BY <2>1, FS_Subset
  <2> QED BY <2>2, FS_CardinalityType
<1>3. ASSUME NEW x \in S, NEW y \in S, Earlier(x, y)
      PROVE  rank[x] < rank[y]
  <2> DEFINE A == Before(S, x) \cup {x}
  <2>1. x \notin Before(S, x)
    BY EarlierOrders DEF Before
  <2>2. A \in SUBSET Before(S, y)
    <3>1. \A z \in Before(S, x) : z \in Before(S, y)
      BY <1>3, EarlierOrders DEF Before
    <3>2. x \in Before(S, y)
      BY <1>3 DEF Before
    <3> QED BY <3>1, <3>2
  <2>3. Cardinality(A) = Cardinality(Before(S, x)) + 1
    BY <1>2, <2>1, FS_AddElement
  <2>4. Cardinality(A) <= Cardinality(Before(S, y))
    BY <1>2, <2>2, FS_Subset
  <2> HIDE DEF A
  <2> QED BY <1>2, <2>3, <2>4
<1>4. \A x \in S : rank[x] \in 1..N
  <2> TAKE x \in S
  <2>1. Before(S, x) \in SUBSET S /\ x \notin Before(S, x)
    BY EarlierOrders DEF Before
  <2>2. Cardinality(Before(S, x)) <= N /\ (N = Cardinality(Before(S, x)) => S = Before(S, x))
    BY <2>1, FS_Subset
  <2>3. Cardinality(Before(S, x)) # N
    BY <2>1, <2>2
  <2>4. Cardinality(Before(S, x)) + 1 \in 1..N
    <3> HIDE DEF N
    <3> QED BY <1>1, <1>2, <2>2, <2>3
  <2> QED BY <2>4
<1>5. rank \in [S -> 1..N]
  BY <1>4
<1> HIDE DEF rank
<1>6. \A x, y \in S : rank[x] = rank[y] => x = y
  <2> TAKE x \in S, y \in S
  <2> HAVE rank[x] = rank[y]
  <2>1. rank[x] \in Int /\ rank[y] \in Int
    BY <1>4
  <2>2. ~Earlier(x, y) /\ ~Earlier(y, x)
    BY <1>3, <2>1
  <2> QED BY <2>2, EarlierOrders
<1>7. rank \in Injection(S, 1..N)
  BY <1>5, <1>6 DEF Injection, IsInjective
<1>8. IsFiniteSet(1..N) /\ Cardinality(1..N) = N
  <2> HIDE DEF N
  <2>1. 1 \in Int /\ N \in Int
    BY <1>1
  <2>2. IsFiniteSet(1..N) /\ Cardinality(1..N) = IF 1 > N THEN 0 ELSE N - 1 + 1
    BY <2>1, FS_Interval
  <2> QED BY <1>1, <2>2
<1>9. rank \in Surjection(S, 1..N)
  BY <1>7, <1>8, FS_Injection
<1>10. \A t \in 1..N : \E x \in S : rank[x] = t
  BY <1>9 DEF Surjection
<1> DEFINE f == [t \in 1..N |-> CHOOSE x \in S : rank[x] = t]
<1>11. \A t \in 1..N : f[t] \in S /\ rank[f[t]] = t
  BY <1>10
<1>12. f \in [1..N -> Place]
  BY <1>11
<1> HIDE DEF f
<1>13. S = {f[t] : t \in 1..N}
  <2>1. ASSUME NEW x \in S PROVE x = f[rank[x]]
    BY <1>4, <1>6, <1>11
  <2> QED BY <1>4, <1>11, <2>1
<1>14. \A t, u \in 1..N : t < u => Earlier(f[t], f[u])
  <2> TAKE t \in 1..N, u \in 1..N
  <2> HAVE t < u
  <2>1. f[t] \in S /\ f[u] \in S /\ rank[f[t]] = t /\ rank[f[u]] = u /\ t \in Int /\ u \in Int
    BY <1>11
  <2>2. ~Earlier(f[u], f[t])
    BY <1>3, <2>1
  <2>3. f[t] # f[u]
    BY <2>1
  <2> QED BY <2>1, <2>2, <2>3, EarlierOrders
<1> QED BY <1>1, <1>12, <1>13, <1>14 DEF Lists

\* The ones of the first polynomials come first.
LEMMA CountsSplit ==
  ASSUME NEW f, NEW N, NEW S, Lists(f, N, S), NEW i \in Nat
  PROVE  LET C == Cardinality({x \in S : x[1] < i}) IN
         C \in 0..N /\ \A t \in 1..N : f[t][1] < i <=> t <= C
<1> DEFINE L == {x \in S : x[1] < i}
           C == Cardinality(L)
<1>0. N \in Nat /\ N \in 0..N /\ S = {f[t] : t \in 1..N} /\ \A t \in 1..N : f[t] \in Place
  BY DEF Lists
<1>1. IsFiniteSet(S) /\ Cardinality(S) = N
  BY <1>0, ListCounts
<1>2. L \in SUBSET S
  OBVIOUS
<1>3. IsFiniteSet(L) /\ C <= N
  BY <1>1, <1>2, FS_Subset
<1>4. C \in Nat
  BY <1>3, FS_CardinalityType
<1>5. \A t, u \in 1..N : u < t => f[u][1] <= f[t][1]
  BY <1>0 DEF Lists, Earlier, Place
<1>6. \A t \in 1..N : f[t][1] \in Int
  BY <1>0 DEF Place
<1>7. ASSUME NEW t \in 1..N, f[t][1] < i PROVE t <= C
  <2> DEFINE T == {f[u] : u \in 1..t}
  <2>1. t \in 0..N /\ 1..t \subseteq 1..N
    BY <1>0
  <2>2. \A u \in 1..t : f[u][1] < i
    <3> TAKE u \in 1..t
    <3>1. u \in 1..N /\ (u < t \/ u = t)
      BY <2>1, <1>0
    <3>2. f[u][1] <= f[t][1]
      BY <1>5, <1>6, <3>1
    <3> QED BY <1>6, <1>7, <3>1, <3>2
  <2>3. T \in SUBSET L
    BY <1>0, <2>1, <2>2
  <2>4. Cardinality(T) = t
    BY <2>1, ListCounts
  <2>5. Cardinality(T) <= Cardinality(L)
    BY <1>3, <2>3, FS_Subset
  <2> QED BY <2>4, <2>5
<1>8. ASSUME NEW t \in 1..N, ~(f[t][1] < i) PROVE ~(t <= C)
  <2> DEFINE T == {f[u] : u \in 1..(t - 1)}
  <2>1. t - 1 \in 0..N /\ t \in Nat /\ t - 1 \in Nat
    BY <1>0
  <2>2. L \in SUBSET T
    <3>1. ASSUME NEW x \in L PROVE x \in T
      <4>1. PICK u \in 1..N : x = f[u]
        BY <1>0, <3>1
      <4>2. f[u][1] < i
        BY <4>1, <3>1
      <4>3. ~(t < u) /\ t # u
        BY <1>5, <1>6, <1>8, <4>2
      <4>4. u \in 1..(t - 1)
        BY <1>0, <4>3
      <4> QED BY <4>1, <4>4
    <3> QED BY <3>1
  <2>3. IsFiniteSet(T) /\ Cardinality(T) = t - 1
    BY <2>1, ListCounts
  <2>4. C <= Cardinality(T)
    BY <2>2, <2>3, FS_Subset
  <2> HIDE DEF C
  <2> QED BY <1>4, <2>1, <2>3, <2>4
<1> HIDE DEF C
<1> QED BY <1>0, <1>3, <1>4, <1>7, <1>8 DEF C

\* What is packed is well-formed and unpacks to the same vector.
LEMMA PackedUnpacks ==
  ASSUME NEW p, NEW h, HintVector(p, h)
  PROVE  WellFormed(p, hintBitPack(p, h)) /\ Unpacked(p, hintBitPack(p, h)) = h
<1> DEFINE S == Ones(p, h)
           N == Cardinality(S)
           C(i) == Cardinality({x \in S : x[1] < i})
           src == hintBitPack(p, h)
<1>0. p.K \in Nat /\ p.Omega \in Nat /\ p.n \in Nat /\ N <= p.Omega /\ N \in Nat
  BY OnesFinite DEF HintVector
<1>1. PICK f : Lists(f, N, S)
  BY OnesFinite, OnesListed
<1> DEFINE a == Slots(f, N, p.Omega)
           c == Counts(S, p.K)
<1>2. src = a \o c
  BY <1>0, <1>1, PackedList
<1>3. \A i \in Nat : C(i) \in 0..N /\ \A t \in 1..N : f[t][1] < i <=> t <= C(i)
  BY <1>1, CountsSplit
<1>4. \A t \in 1..N : f[t] \in S /\ f[t] \in Place
  BY <1>1 DEF Lists
<1>5. \A t \in 1..N : \E i \in 0..p.K - 1, j \in 0..p.n - 1 : f[t] = <<i, j>> /\ h[i][j] = 1
  BY <1>4 DEF Ones
<1>6. C(0) = 0
  <2>1. {x \in S : x[1] < 0} = {}
    BY <1>0 DEF Ones
  <2> QED BY <2>1, FS_EmptySet
<1> HIDE DEF N, C
<1>7. \A t \in 1..p.Omega : a[t] = IF t <= N THEN f[t][2] ELSE 0
  BY DEF Slots
<1>8. \A i \in 1..p.K : c[i] = C(i)
  BY DEF Counts, C
<1>9. a \in Seq(Nat) /\ Len(a) = p.Omega
  <2>1. \A t \in 1..p.Omega : (IF t <= N THEN f[t][2] ELSE 0) \in Nat
    <3> TAKE t \in 1..p.Omega
    <3>1. CASE t <= N
      <4>1. t \in 1..N
        BY <1>0, <3>1
      <4>2. PICK i \in 0..p.K - 1, j \in 0..p.n - 1 : f[t] = <<i, j>>
        BY <1>5, <4>1
      <4> QED BY <1>0, <3>1, <4>2
    <3> QED BY <3>1
  <2>2. a \in [1..p.Omega -> Nat]
    BY <2>1 DEF Slots
  <2> QED BY <1>0, <2>2
<1>10. c \in Seq(Nat) /\ Len(c) = p.K
  <2>1. \A i \in 1..p.K : Cardinality({x \in S : x[1] < i}) \in Nat
    <3> TAKE i \in 1..p.K
    <3>1. C(i) \in 0..N
      BY <1>0, <1>3
    <3> QED BY <1>0, <3>1 DEF C
  <2>2. c \in [1..p.K -> Nat]
    BY <2>1 DEF Counts
  <2> QED BY <1>0, <2>2
<1> HIDE DEF a, c, S
<1>11. /\ \A t \in 1..p.Omega : src[t] = IF t <= N THEN f[t][2] ELSE 0
       /\ \A i \in 1..p.K : src[p.Omega + i] = C(i)
  <2> HIDE DEF src
  <2>1. \A i \in 1 .. Len(a) + Len(c) : src[i] = IF i <= Len(a) THEN a[i] ELSE c[i - Len(a)]
    BY <1>2, <1>9, <1>10, ConcatProperties
  <2>2. \A t \in 1..p.Omega : t \in 1 .. p.Omega + p.K /\ t <= p.Omega
    BY <1>0
  <2>3. \A i \in 1..p.K : p.Omega + i \in 1 .. p.Omega + p.K /\ ~(p.Omega + i <= p.Omega) /\ (p.Omega + i) - p.Omega = i
    BY <1>0
  <2>4. \A t \in 1..p.Omega : src[t] = a[t]
    BY <1>9, <1>10, <2>1, <2>2
  <2>5. \A i \in 1..p.K : src[p.Omega + i] = c[i]
    BY <1>9, <1>10, <2>1, <2>3
  <2> QED BY <1>7, <1>8, <2>4, <2>5
<1> HIDE DEF src
<1>12. \A i \in 0..p.K : HintEnd(p, src, i) = C(i) /\ C(i) \in Nat /\ C(i) <= N /\ i \in Nat
  <2> TAKE i \in 0..p.K
  <2>1. i \in Nat /\ (i # 0 => i \in 1..p.K)
    BY <1>0
  <2>2. C(i) \in Nat /\ C(i) <= N
    BY <1>0, <1>3, <2>1
  <2> QED BY <1>6, <1>11, <2>1, <2>2 DEF HintEnd
<1>13. \A t \in 1..N : t \in 1..p.Omega /\ t <= N /\ src[t] = f[t][2]
  <2> TAKE t \in 1..N
  <2>1. t \in 1..p.Omega /\ t <= N
    BY <1>0
  <2> QED BY <1>11, <2>1
<1>14. ASSUME NEW i \in 0..p.K - 1, NEW t \in C(i) + 1 .. C(i + 1)
       PROVE  t \in 1..N /\ \E j \in 0..p.n - 1 : f[t] = <<i, j>> /\ h[i][j] = 1
  <2>1. i \in 0..p.K /\ i + 1 \in 0..p.K /\ i \in Nat /\ i + 1 \in Nat
    BY <1>0
  <2>2. t \in 1..N /\ ~(t <= C(i)) /\ t <= C(i + 1)
    BY <1>0, <1>12, <2>1
  <2>3. ~(f[t][1] < i) /\ f[t][1] < i + 1
    BY <1>3, <2>1, <2>2
  <2>4. PICK k \in 0..p.K - 1, j \in 0..p.n - 1 : f[t] = <<k, j>> /\ h[k][j] = 1
    BY <1>5, <2>2
  <2>5. k = i
    BY <1>0, <2>1, <2>3, <2>4
  <2> QED BY <2>2, <2>4, <2>5
<1>15. WellFormed(p, src)
  <2>1. ASSUME NEW i \in 1..p.K
        PROVE  HintEnd(p, src, i - 1) <= HintEnd(p, src, i) /\ HintEnd(p, src, i) <= p.Omega
    <3>1. i \in 0..p.K /\ i - 1 \in 0..p.K /\ i \in Nat /\ i - 1 \in Nat
      BY <1>0
    <3>2. C(i) <= p.Omega
      BY <1>0, <1>12, <3>1
    <3>3. C(i - 1) <= C(i)
      <4>1. CASE C(i - 1) = 0
        BY <1>12, <3>1, <4>1
      <4>2. CASE C(i - 1) # 0
        <5> DEFINE t == C(i - 1)
        <5>1. t \in 1..N /\ t <= t
          BY <1>0, <1>12, <3>1, <4>2
        <5>2. f[t][1] < i - 1
          BY <1>3, <3>1, <5>1
        <5>3. f[t][1] \in Int
          BY <1>4, <5>1 DEF Place
        <5> HIDE DEF t
        <5>4. f[t][1] < i
          BY <3>1, <5>2, <5>3
        <5> QED BY <1>3, <3>1, <5>1, <5>4 DEF t
      <4> QED BY <4>1, <4>2
    <3> QED BY <1>12, <3>1, <3>2, <3>3
  <2>2. ASSUME NEW i \in 1..p.K, NEW t \in HintEnd(p, src, i - 1) + 2 .. HintEnd(p, src, i)
        PROVE  src[t - 1] < src[t]
    <3> DEFINE k == i - 1
    <3>1. k \in 0..p.K - 1 /\ k \in 0..p.K /\ i \in 0..p.K /\ k + 1 = i
      BY <1>0
    <3>2. t \in C(k) + 2 .. C(k + 1) /\ C(k) \in Nat /\ C(k + 1) \in Nat
      BY <1>12, <3>1
    <3> HIDE DEF k
    <3>3. t \in C(k) + 1 .. C(k + 1) /\ t - 1 \in C(k) + 1 .. C(k + 1) /\ t - 1 < t
      BY <3>2
    <3>4. PICK j \in 0..p.n - 1 : f[t] = <<k, j>>
      BY <1>14, <3>1, <3>3
    <3>5. PICK l \in 0..p.n - 1 : f[t - 1] = <<k, l>>
      BY <1>14, <3>1, <3>3
    <3>6. t \in 1..N /\ t - 1 \in 1..N
      BY <1>14, <3>1, <3>3
    <3>7. Earlier(f[t - 1], f[t])
      BY <1>1, <3>3, <3>6 DEF Lists
    <3>8. l < j
      BY <3>1, <3>4, <3>5, <3>7 DEF Earlier
    <3>9. src[t] = j /\ src[t - 1] = l
      BY <1>13, <3>4, <3>5, <3>6
    <3> QED BY <3>8, <3>9
  <2>3. ASSUME NEW t \in HintEnd(p, src, p.K) + 1 .. p.Omega PROVE src[t] = 0
    <3>1. p.K \in 0..p.K
      BY <1>0
    <3>2. N <= C(p.K)
      <4>1. CASE N = 0
        BY <1>12, <3>1, <4>1
      <4>2. CASE N # 0
        <5>1. N \in 1..N
          BY <1>0, <4>2
        <5>2. PICK i \in 0..p.K - 1, j \in 0..p.n - 1 : f[N] = <<i, j>>
          BY <1>5, <5>1
        <5>3. f[N][1] < p.K
          BY <1>0, <5>2
        <5> QED BY <1>0, <1>3, <5>1, <5>3
      <4> QED BY <4>1, <4>2
    <3>3. t \in C(p.K) + 1 .. p.Omega /\ C(p.K) \in Nat
      BY <1>12, <3>1
    <3>4. t \in 1..p.Omega /\ ~(t <= N)
      BY <1>0, <3>2, <3>3
    <3> QED BY <1>11, <3>4
  <2> QED BY <2>1, <2>2, <2>3 DEF WellFormed, HintsIncrease
<1>16. Unpacked(p, src) = h
  <2>1. ASSUME NEW i \in 0..p.K - 1, NEW j \in 0..p.n - 1
        PROVE  h[i][j] = IF \E t \in HintEnd(p, src, i) + 1 .. HintEnd(p, src, i + 1) : src[t] = j THEN 1 ELSE 0
    <3>1. i \in 0..p.K /\ i + 1 \in 0..p.K /\ i \in Nat /\ i + 1 \in Nat
      BY <1>0
    <3>2. HintEnd(p, src, i) = C(i) /\ HintEnd(p, src, i + 1) = C(i + 1)
      BY <1>12, <3>1
    <3>3. h[i][j] \in {0, 1}
      BY DEF HintVector
    <3>4. ASSUME NEW t \in C(i) + 1 .. C(i + 1), src[t] = j PROVE h[i][j] = 1
      <4>1. PICK l \in 0..p.n - 1 : f[t] = <<i, l>> /\ h[i][l] = 1
        BY <1>14
      <4>2. src[t] = l
        BY <1>13, <1>14, <4>1
      <4> QED BY <3>4, <4>1, <4>2
    <3>5. ASSUME h[i][j] = 1 PROVE \E t \in C(i) + 1 .. C(i + 1) : src[t] = j
      <4>1. <<i, j>> \in S
        BY <3>5 DEF S, Ones
      <4>2. PICK t \in 1..N : f[t] = <<i, j>>
        BY <1>1, <4>1 DEF Lists
      <4>3. ~(f[t][1] < i) /\ f[t][1] < i + 1
        BY <3>1, <4>2
      <4>4. ~(t <= C(i)) /\ t <= C(i + 1)
        BY <1>3, <3>1, <4>3
      <4>5. t \in C(i) + 1 .. C(i + 1)
        BY <1>0, <1>12, <3>1, <4>4
      <4>6. src[t] = j
        BY <1>13, <4>2
      <4> QED BY <4>5, <4>6
    <3> QED BY <3>2, <3>3, <3>4, <3>5
  <2>2. h = [i \in 0 .. p.K - 1 |-> [j \in 0 .. p.n - 1 |-> h[i][j]]]
    BY DEF HintVector
  <2> QED BY <2>1, <2>2 DEF Unpacked
<1> QED BY <1>15, <1>16 DEF src

\* A hint vector and its encoding determine each other.
LEMMA HintsEncodeUniquely ==
  ASSUME NEW p
  PROVE  /\ \A src : Encoded(p, src) => \A h \in hintBitUnpack(p, src) : hintBitPack(p, h) = src
         /\ \A h : HintVector(p, h) => hintBitUnpack(p, hintBitPack(p, h)) = {h}
  BY UnpackIs, UnpackedPacks, PackedUnpacks

-----------------------------------------------------------------------------
(* What the rejection loop of ML-DSA releases.                             *)

\* Eager only makes the evaluator tabulate a function.
LEMMA EagerIs ==
  ASSUME NEW f
  PROVE  Eager(f) = f
  BY Zenon DEF Eager

\* What is added to the low bits without leaving their range leaves the high bits
\* as they are (ML-DSA-44).
LEMMA SameStep88 ==
  ASSUME NEW r \in Int, NEW s \in Int, NEW z \in Int, Sum(r, z, s),
         NEW h, NEW l, NEW g, NEW k, Splits(r, h, l, 190464, 44), Splits(s, g, k, 190464, 44),
         -95232 < l + z, l + z < 95232
  PROVE  g = h
  BY SMT DEF Splits, q, Sum

\* The same for the other gamma2.
LEMMA SameStep32 ==
  ASSUME NEW r \in Int, NEW s \in Int, NEW z \in Int, Sum(r, z, s),
         NEW h, NEW l, NEW g, NEW k, Splits(r, h, l, 523776, 16), Splits(s, g, k, 523776, 16),
         -261888 < l + z, l + z < 261888
  PROVE  g = h
  BY SMT DEF Splits, q, Sum

\* A residue modulo q.
Residue == {c \in Int : 0 <= c /\ c <= q - 1}

\* The modulus and its half.
LEMMA Modulus == q = 8380417 /\ q - 1 = 8380416 /\ (q - 1) \div 2 = 4190208
  BY SMT DEF q

\* A residue, as numerals.
LEMMA ResidueIs ==
  ASSUME NEW c
  PROVE  c \in Residue <=> c \in Int /\ 0 <= c /\ c <= 8380416
  BY Modulus, SMT DEF Residue

\* The two gamma2.
LEMMA GammaIs ==
  ASSUME NEW g \in Gammas
  PROVE  g \in Int /\ (g = 95232 \/ g = 261888)
  BY SMT DEF Gammas, q

\* The check on the low bits: what the signer takes off does not reach the high bits.
LEMMA HighBitsKept ==
  ASSUME NEW p, p.Gamma2 \in Gammas, NEW r \in Residue, NEW s \in Residue, NEW z \in Int, Sum(r, z, s)
  PROVE  /\ lowBits(p, r) \in Int /\ centered(Canonical(lowBits(p, r))) = lowBits(p, r)
         /\ (-p.Gamma2 < lowBits(p, r) + z /\ lowBits(p, r) + z < p.Gamma2) => highBits(p, s) = highBits(p, r)
<1>0. /\ r \in Int /\ 0 <= r /\ r <= 8380416 /\ s \in Int /\ 0 <= s /\ s <= 8380416
      /\ (p.Gamma2 = 95232 \/ p.Gamma2 = 261888)
  BY ResidueIs, GammaIs, SMT
<1>1. ASSUME NEW l \in Int, -261888 <= l, l <= 261888 PROVE centered(Canonical(l)) = l
  BY <1>1, Modulus, SMT DEF centered, Canonical
<1>2. CASE p.Gamma2 = 95232
  <2>1. PICK h \in Int, l \in Int : decompose(p, r) = <<h, l>> /\ Splits(r, h, l, 190464, 44)
    BY <1>0, <1>2, Decomposed, SMT
  <2>2. PICK g \in Int, k \in Int : decompose(p, s) = <<g, k>> /\ Splits(s, g, k, 190464, 44)
    BY <1>0, <1>2, Decomposed, SMT
  <2>3. highBits(p, r) = h /\ lowBits(p, r) = l /\ highBits(p, s) = g
    BY <2>1, <2>2, SMT DEF highBits, lowBits
  <2>4. centered(Canonical(l)) = l
    <3>1. -261888 <= l /\ l <= 261888
      BY <2>1, SMT DEF Splits
    <3> QED BY <1>1, <3>1, SMT
  <2>5. ASSUME -95232 < l + z, l + z < 95232 PROVE g = h
    <3>1. Splits(r, h, l, 190464, 44) /\ Splits(s, g, k, 190464, 44)
      BY <2>1, <2>2, SMT
    <3> QED BY <1>0, <2>5, <3>1, SameStep88, SMT
  <2> QED BY <1>2, <2>3, <2>4, <2>5, SMT
<1>3. CASE p.Gamma2 = 261888
  <2>1. PICK h \in Int, l \in Int : decompose(p, r) = <<h, l>> /\ Splits(r, h, l, 523776, 16)
    BY <1>0, <1>3, Decomposed, SMT
  <2>2. PICK g \in Int, k \in Int : decompose(p, s) = <<g, k>> /\ Splits(s, g, k, 523776, 16)
    BY <1>0, <1>3, Decomposed, SMT
  <2>3. highBits(p, r) = h /\ lowBits(p, r) = l /\ highBits(p, s) = g
    BY <2>1, <2>2, SMT DEF highBits, lowBits
  <2>4. centered(Canonical(l)) = l
    <3>1. -261888 <= l /\ l <= 261888
      BY <2>1, SMT DEF Splits
    <3> QED BY <1>1, <3>1, SMT
  <2>5. ASSUME -261888 < l + z, l + z < 261888 PROVE g = h
    <3>1. Splits(r, h, l, 523776, 16) /\ Splits(s, g, k, 523776, 16)
      BY <2>1, <2>2, SMT
    <3> QED BY <1>0, <2>5, <3>1, SameStep32, SMT
  <2> QED BY <1>3, <2>3, <2>4, <2>5, SMT
<1> QED BY <1>0, <1>2, <1>3, SMT

\* Subtracting a residue is moving by its centred value.
LEMMA Subtracted ==
  ASSUME NEW w \in Residue, NEW e \in Residue
  PROVE  /\ subQ(w, e) \in Residue /\ centered(e) \in Int /\ subQ(0, e) = Canonical(-centered(e))
         /\ Sum(subQ(w, e), centered(e), w)
<1>0. w \in Int /\ 0 <= w /\ w <= 8380416 /\ e \in Int /\ 0 <= e /\ e <= 8380416
  BY ResidueIs, SMT
<1>1. subQ(w, e) \in Residue
  BY <1>0, Modulus, SMT DEF subQ, Residue
<1>2. centered(e) = IF e > 4190208 THEN e - 8380417 ELSE e
  BY <1>0, Modulus, SMT DEF centered
<1>3. subQ(0, e) = Canonical(-centered(e))
  BY <1>0, <1>2, Modulus, SMT DEF subQ, Canonical
<1>4. Sum(subQ(w, e), centered(e), w)
  BY <1>0, <1>2, Modulus, SMT DEF subQ, Sum
<1> QED BY <1>0, <1>1, <1>2, <1>3, <1>4, SMT

\* Adding a residue is undone by adding its negative.
LEMMA AddedBack ==
  ASSUME NEW w \in Residue, NEW e \in Residue
  PROVE  addQ(w, e) \in Residue /\ addQ(addQ(w, e), subQ(0, e)) = w
<1>0. w \in Int /\ 0 <= w /\ w <= 8380416 /\ e \in Int /\ 0 <= e /\ e <= 8380416
  BY ResidueIs, SMT
<1>1. addQ(w, e) \in Residue
  BY <1>0, Modulus, SMT DEF addQ, Residue
<1>2. addQ(addQ(w, e), subQ(0, e)) = w
  BY <1>0, Modulus, SMT DEF subQ, addQ
<1> QED BY <1>1, <1>2

\* HintRecovers, without its numerals.
LEMMA HintCarries ==
  ASSUME NEW p, p.Gamma2 \in Gammas, NEW r \in Residue, NEW z \in Int, -p.Gamma2 <= z, z <= p.Gamma2
  PROVE  useHint(p, makeHint(p, Canonical(z), r), r) = highBits(p, addQ(r, Canonical(z)))
<1>1. r \in Int /\ 0 <= r /\ r <= 8380416 /\ p.Gamma2 \in {95232, 261888}
  BY ResidueIs, GammaIs, SMT
<1> QED BY <1>1, HintRecovers, SMT

\* One coefficient: what the checks of the rejection loop bound is enough for
\* the verifier, who has w - e + f, to find the high bits of w.
LEMMA CoefficientRecovered ==
  ASSUME NEW p, p.Gamma2 \in Gammas, p.Beta \in Nat,
         NEW w \in Residue, NEW e \in Residue, NEW f \in Residue,
         ~(Abs(centered(e)) >= p.Beta + 1), ~(Abs(centered(f)) >= p.Gamma2),
         ~(Abs(centered(Canonical(lowBits(p, subQ(w, e))))) >= p.Gamma2 - p.Beta)
  PROVE  useHint(p, makeHint(p, subQ(0, f), addQ(subQ(w, e), f)), addQ(subQ(w, e), f)) = highBits(p, w)
<1> DEFINE r == subQ(w, e)
           v == addQ(r, f)
           z == centered(e)
           x == centered(f)
           l == lowBits(p, r)
           b == p.Beta
           gamma == p.Gamma2
<1>0. gamma \in Int /\ b \in Nat
  BY GammaIs, SMT
<1>1. r \in Residue /\ z \in Int /\ Sum(r, z, w)
  BY Subtracted
<1>2. x \in Int /\ subQ(0, f) = Canonical(-x)
  BY Subtracted
<1>3. ~(Abs(z) >= b + 1) /\ ~(Abs(x) >= gamma) /\ ~(Abs(centered(Canonical(l))) >= gamma - b)
  OBVIOUS
<1> HIDE DEF r, z, x
<1>4. v \in Residue /\ addQ(v, subQ(0, f)) = r
  BY <1>1, AddedBack
<1> HIDE DEF v
<1>5. /\ l \in Int /\ centered(Canonical(l)) = l
      /\ (-gamma < l + z /\ l + z < gamma) => highBits(p, w) = highBits(p, r)
  BY <1>1, HighBitsKept
<1> HIDE DEF l, b
<1>6. -gamma < l + z /\ l + z < gamma
  <2> HIDE DEF gamma
  <2> QED BY <1>0, <1>1, <1>3, <1>5, SMT DEF Abs
<1>7. -x \in Int /\ -gamma <= -x /\ -x <= gamma
  <2> HIDE DEF gamma
  <2> QED BY <1>0, <1>2, <1>3, SMT DEF Abs
<1>8. useHint(p, makeHint(p, Canonical(-x), v), v) = highBits(p, addQ(v, Canonical(-x)))
  BY <1>4, <1>7, HintCarries, SMT
<1>9. useHint(p, makeHint(p, subQ(0, f), v), v) = highBits(p, r)
  BY <1>2, <1>4, <1>8
<1>10. useHint(p, makeHint(p, subQ(0, f), v), v) = highBits(p, w)
  BY <1>5, <1>6, <1>9
<1> QED BY <1>10 DEF v, r

\* Vectors of polynomials over the residues.
PolyVec(p) == [0 .. p.K - 1 -> [0 .. p.n - 1 -> Residue]]

\* The high and the low bits of a vector.
LEMMA BitsAre ==
  ASSUME NEW p, NEW w \in PolyVec(p)
  PROVE  /\ lowBitsVec(p, w) = [i \in 0 .. p.K - 1 |-> [j \in 0 .. p.n - 1 |-> Canonical(lowBits(p, w[i][j]))]]
         /\ highBitsVec(p, w) = [i \in 0 .. p.K - 1 |-> [j \in 0 .. p.n - 1 |-> highBits(p, w[i][j])]]
<1>0. DOMAIN w = 0 .. p.K - 1 /\ \A i \in 0 .. p.K - 1 : DOMAIN w[i] = 0 .. p.n - 1
  BY DEF PolyVec
<1>1. lowBitsVec(p, w) = [i \in 0 .. p.K - 1 |-> [j \in 0 .. p.n - 1 |-> Canonical(lowBits(p, w[i][j]))]]
  <2>1. lowBitsVec(p, w) = [i \in DOMAIN w |-> [j \in DOMAIN w[i] |-> Canonical(lowBits(p, w[i][j]))]]
    BY EagerIs DEF lowBitsVec, Coefs
  <2> QED BY <1>0, <2>1
<1>2. highBitsVec(p, w) = [i \in 0 .. p.K - 1 |-> [j \in 0 .. p.n - 1 |-> highBits(p, w[i][j])]]
  <2>1. highBitsVec(p, w) = [i \in DOMAIN w |-> [j \in DOMAIN w[i] |-> highBits(p, w[i][j])]]
    BY EagerIs DEF highBitsVec, Coefs
  <2> QED BY <1>0, <2>1
<1> QED BY <1>1, <1>2

\* The operations on vectors, coefficient by coefficient.
LEMMA VectorsAre ==
  ASSUME NEW p, NEW w \in PolyVec(p), NEW e \in PolyVec(p)
  PROVE  /\ VSub(w, e) = [i \in 0 .. p.K - 1 |-> [j \in 0 .. p.n - 1 |-> subQ(w[i][j], e[i][j])]]
         /\ VAdd(w, e) = [i \in 0 .. p.K - 1 |-> [j \in 0 .. p.n - 1 |-> addQ(w[i][j], e[i][j])]]
         /\ VSub(w, e) \in PolyVec(p) /\ VAdd(w, e) \in PolyVec(p)
         /\ hints(p, w, e) = [i \in 0 .. p.K - 1 |-> [j \in 0 .. p.n - 1 |->
                                 makeHint(p, subQ(0, e[i][j]), addQ(w[i][j], e[i][j]))]]
<1>0. /\ DOMAIN w = 0 .. p.K - 1 /\ \A i \in 0 .. p.K - 1 : DOMAIN w[i] = 0 .. p.n - 1
      /\ \A i \in 0 .. p.K - 1 : \A j \in 0 .. p.n - 1 : w[i][j] \in Residue /\ e[i][j] \in Residue
  BY DEF PolyVec
<1>1. VSub(w, e) = [i \in 0 .. p.K - 1 |-> [j \in 0 .. p.n - 1 |-> subQ(w[i][j], e[i][j])]]
  <2>1. VSub(w, e) = [i \in DOMAIN w |-> SubPoly(w[i], e[i])]
    BY EagerIs DEF VSub
  <2>2. \A i \in 0 .. p.K - 1 : SubPoly(w[i], e[i]) = [j \in 0 .. p.n - 1 |-> subQ(w[i][j], e[i][j])]
    BY <1>0 DEF SubPoly
  <2> QED BY <1>0, <2>1, <2>2
<1>2. VAdd(w, e) = [i \in 0 .. p.K - 1 |-> [j \in 0 .. p.n - 1 |-> addQ(w[i][j], e[i][j])]]
  <2>1. VAdd(w, e) = [i \in DOMAIN w |-> AddPoly(w[i], e[i])]
    BY EagerIs DEF VAdd
  <2>2. \A i \in 0 .. p.K - 1 : AddPoly(w[i], e[i]) = [j \in 0 .. p.n - 1 |-> addQ(w[i][j], e[i][j])]
    BY <1>0 DEF AddPoly
  <2> QED BY <1>0, <2>1, <2>2
<1>3. VSub(w, e) \in PolyVec(p) /\ VAdd(w, e) \in PolyVec(p)
  <2>1. \A i \in 0 .. p.K - 1 : \A j \in 0 .. p.n - 1 :
            subQ(w[i][j], e[i][j]) \in Residue /\ addQ(w[i][j], e[i][j]) \in Residue
    BY <1>0, Subtracted, AddedBack
  <2> QED BY <1>1, <1>2, <2>1 DEF PolyVec
<1>4. hints(p, w, e) = [i \in 0 .. p.K - 1 |-> [j \in 0 .. p.n - 1 |->
                           makeHint(p, subQ(0, e[i][j]), addQ(w[i][j], e[i][j]))]]
  <2>1. hints(p, w, e) = [i \in DOMAIN w |-> [j \in DOMAIN w[i] |->
                             makeHint(p, subQ(0, e[i][j]), addQ(w[i][j], e[i][j]))]]
    BY EagerIs DEF hints
  <2> QED BY <1>0, <2>1
<1> QED BY <1>1, <1>2, <1>3, <1>4

\* The signer and the encoder count the same ones.
LEMMA WeightIs ==
  ASSUME NEW p, NEW h \in [0 .. p.K - 1 -> [0 .. p.n - 1 -> {0, 1}]]
  PROVE  Weight(h) = Cardinality(Ones(p, h))
<1> DEFINE places == UNION {{i} \X DOMAIN h[i] : i \in DOMAIN h}
<1>1. DOMAIN h = 0 .. p.K - 1 /\ \A i \in 0 .. p.K - 1 : DOMAIN h[i] = 0 .. p.n - 1
  OBVIOUS
<1>2. places = (0 .. p.K - 1) \X (0 .. p.n - 1)
  <2>1. ASSUME NEW x \in places PROVE x \in (0 .. p.K - 1) \X (0 .. p.n - 1)
    <3>1. PICK i \in DOMAIN h : x \in {i} \X DOMAIN h[i]
      BY <2>1
    <3> QED BY <1>1, <3>1
  <2>2. ASSUME NEW x \in (0 .. p.K - 1) \X (0 .. p.n - 1) PROVE x \in places
    <3>1. PICK i \in 0 .. p.K - 1, j \in 0 .. p.n - 1 : x = <<i, j>>
      BY <2>2
    <3>2. x \in {i} \X DOMAIN h[i] /\ i \in DOMAIN h
      BY <1>1, <3>1
    <3> QED BY <3>2
  <2> HIDE DEF places
  <2> QED BY <2>1, <2>2
<1> HIDE DEF places
<1>3. Weight(h) = Cardinality({x \in places : h[x[1]][x[2]] = 1})
  BY DEF Weight, places
<1> QED BY <1>2, <1>3 DEF Ones

\* A signature that the rejection loop releases (signMu's four checks, mldsa.go)
\* verifies: its hints are decoded as they were made, and with them the verifier,
\* who can only compute w - c s2 + c t0, finds the w1 that the signer hashed.  This
\* is for both gamma2 and vectors of any shape; that |c s2| <= beta, the product of
\* the weight of c and the bound on s2, is the one fact it takes from the key.
THEOREM ReleasedSuffices ==
  ASSUME NEW p, p.Gamma2 \in Gammas, p.Beta \in Nat, p.K \in Nat, p.n \in Nat, p.Omega \in Nat,
         NEW w \in PolyVec(p), NEW cs2 \in PolyVec(p), NEW ct0 \in PolyVec(p),
         ~normExceeds(cs2, p.Beta + 1), NEW mu, NEW z,
         NEW sig \in Released(p, <<mu, highBitsVec(p, w)>>, z, VSub(w, cs2), ct0, hints(p, VSub(w, cs2), ct0))
  PROVE  \E h \in hintBitUnpack(p, sig.h) : sig.cTilde = <<mu, useHints(p, h, VAdd(VSub(w, cs2), ct0))>>
<1> DEFINE r == VSub(w, cs2)
           v == VAdd(r, ct0)
           h == hints(p, r, ct0)
           w1 == highBitsVec(p, w)
<1>1. /\ r \in PolyVec(p)
      /\ \A i \in 0 .. p.K - 1 : \A j \in 0 .. p.n - 1 : r[i][j] = subQ(w[i][j], cs2[i][j])
  BY VectorsAre
<1>2. w1 = [i \in 0 .. p.K - 1 |-> [j \in 0 .. p.n - 1 |-> highBits(p, w[i][j])]]
  BY BitsAre
<1> HIDE DEF r, w1
<1>3. /\ v \in PolyVec(p)
      /\ \A i \in 0 .. p.K - 1 : \A j \in 0 .. p.n - 1 : v[i][j] = addQ(r[i][j], ct0[i][j])
  BY <1>1, VectorsAre
<1>4. h = [i \in 0 .. p.K - 1 |-> [j \in 0 .. p.n - 1 |->
              makeHint(p, subQ(0, ct0[i][j]), addQ(r[i][j], ct0[i][j]))]]
  BY <1>1, VectorsAre
<1>5. lowBitsVec(p, r) = [i \in 0 .. p.K - 1 |-> [j \in 0 .. p.n - 1 |-> Canonical(lowBits(p, r[i][j]))]]
  BY <1>1, BitsAre
<1> HIDE DEF v, h
<1>6. /\ LowBitsOK(p, r) /\ ~normExceeds(ct0, p.Gamma2) /\ ~(Weight(h) > p.Omega)
      /\ sig = [cTilde |-> <<mu, w1>>, h |-> hintBitPack(p, h), z |-> VPackSigned(z, p.Gamma1 - 1, p.Gamma1)]
  BY DEF Released, sigEncode, r, h, w1
<1>7. h \in [0 .. p.K - 1 -> [0 .. p.n - 1 -> {0, 1}]]
  <2>1. \A a, c : makeHint(p, a, c) \in {0, 1}
    BY DEF makeHint
  <2> QED BY <1>4, <2>1
<1>8. hintBitUnpack(p, sig.h) = {h}
  <2>1. IsFiniteSet(Ones(p, h)) /\ Cardinality(Ones(p, h)) \in Nat
    <3>1. IsFiniteSet((0 .. p.K - 1) \X (0 .. p.n - 1))
      <4>1. IsFiniteSet(0 .. p.K - 1) /\ IsFiniteSet(0 .. p.n - 1)
        <5>1. 0 \in Int /\ p.K - 1 \in Int /\ p.n - 1 \in Int
          OBVIOUS
        <5> QED BY <5>1, FS_Interval
      <4> QED BY <4>1, FS_Product
    <3>2. Ones(p, h) \subseteq (0 .. p.K - 1) \X (0 .. p.n - 1)
      BY DEF Ones
    <3> QED BY <3>1, <3>2, FS_Subset, FS_CardinalityType
  <2>2. Cardinality(Ones(p, h)) <= p.Omega
    BY <1>6, <1>7, <2>1, WeightIs
  <2>3. HintVector(p, h)
    BY <1>7, <2>2 DEF HintVector
  <2> QED BY <1>6, <2>3, HintsEncodeUniquely
<1>9. ASSUME NEW i \in 0 .. p.K - 1, NEW j \in 0 .. p.n - 1
      PROVE  useHint(p, h[i][j], v[i][j]) = highBits(p, w[i][j])
  <2>1. w[i][j] \in Residue /\ cs2[i][j] \in Residue /\ ct0[i][j] \in Residue
    BY DEF PolyVec
  <2>2. /\ i \in DOMAIN cs2 /\ j \in DOMAIN cs2[i] /\ i \in DOMAIN ct0 /\ j \in DOMAIN ct0[i]
    BY DEF PolyVec
  <2>3. ~(Abs(centered(cs2[i][j])) >= p.Beta + 1) /\ ~(Abs(centered(ct0[i][j])) >= p.Gamma2)
    BY <1>6, <2>2 DEF normExceeds
  <2>4. ~(Abs(centered(Canonical(lowBits(p, r[i][j])))) >= p.Gamma2 - p.Beta)
    <3> DEFINE low == lowBitsVec(p, r)
    <3>1. i \in DOMAIN low /\ j \in DOMAIN low[i] /\ low[i][j] = Canonical(lowBits(p, r[i][j]))
      BY <1>5
    <3> HIDE DEF low
    <3>2. ~normExceeds(low, p.Gamma2 - p.Beta)
      BY <1>6 DEF LowBitsOK, low
    <3> QED BY <3>1, <3>2 DEF normExceeds
  <2>5. r[i][j] = subQ(w[i][j], cs2[i][j]) /\ v[i][j] = addQ(r[i][j], ct0[i][j])
    BY <1>1, <1>3
  <2>6. h[i][j] = makeHint(p, subQ(0, ct0[i][j]), v[i][j])
    BY <1>4, <2>5
  <2> QED BY <2>1, <2>3, <2>4, <2>5, <2>6, CoefficientRecovered
<1>10. useHints(p, h, v) = w1
  <2>1. DOMAIN v = 0 .. p.K - 1 /\ \A i \in 0 .. p.K - 1 : DOMAIN v[i] = 0 .. p.n - 1
    BY <1>3 DEF PolyVec
  <2>2. useHints(p, h, v) = [i \in 0 .. p.K - 1 |-> [j \in 0 .. p.n - 1 |-> useHint(p, h[i][j], v[i][j])]]
    BY <2>1 DEF useHints
  <2> QED BY <1>2, <1>9, <2>2
<1>11. sig.cTilde = <<mu, useHints(p, h, v)>>
  BY <1>6, <1>10
<1> QED BY <1>8, <1>11 DEF v, r, h

-----------------------------------------------------------------------------
(* Sequences of which one part has a known length.                         *)

\* What is written one after the other, the first of a known length, is read back.
Joins(s, u, t, v) == s \o u = t \o v

\* Two strings with heads of equal length are equal part by part.
LEMMA SplitAt ==
  ASSUME NEW s \in Seq(Nat), NEW t \in Seq(Nat), NEW u \in Seq(Nat), NEW v \in Seq(Nat),
         Len(s) = Len(t), Joins(s, u, t, v)
  PROVE  s = t /\ u = v
<1> USE DEF Joins
<1>1. /\ Len(s \o u) = Len(s) + Len(u)
      /\ \A i \in 1 .. Len(s) + Len(u) : (s \o u)[i] = IF i <= Len(s) THEN s[i] ELSE u[i - Len(s)]
  BY ConcatProperties
<1>2. /\ Len(t \o v) = Len(t) + Len(v)
      /\ \A i \in 1 .. Len(t) + Len(v) : (t \o v)[i] = IF i <= Len(t) THEN t[i] ELSE v[i - Len(t)]
  BY ConcatProperties
<1>3. Len(s) \in Nat /\ Len(t) \in Nat /\ Len(u) \in Nat /\ Len(v) \in Nat
  OBVIOUS
<1>4. Len(u) = Len(v)
  BY <1>1, <1>2, <1>3
<1>5. \A i \in 1..Len(s) : s[i] = t[i]
  <2> TAKE i \in 1..Len(s)
  <2>1. i \in 1 .. Len(s) + Len(u) /\ i <= Len(s)
    BY <1>3
  <2> QED BY <1>1, <1>2, <1>4, <2>1
<1>6. \A i \in 1..Len(u) : u[i] = v[i]
  <2> TAKE i \in 1..Len(u)
  <2> DEFINE k == i + Len(s)
  <2>1. k \in 1 .. Len(s) + Len(u) /\ ~(k <= Len(s)) /\ k - Len(s) = i
    BY <1>3
  <2> HIDE DEF k
  <2> QED BY <1>1, <1>2, <1>4, <2>1
<1>7. s = t
  BY <1>5, SeqEqual
<1>8. u = v
  BY <1>4, <1>6, SeqEqual
<1> QED BY <1>7, <1>8

\* A string of bytes with its length in front.
LEMMA PrefixedIs ==
  ASSUME NEW s \in Seq(Nat)
  PROVE  Prefixed(s) \in Seq(Nat) /\ Len(Prefixed(s)) = Len(s) + 1 /\ Prefixed(s)[1] = Len(s)
<1>1. Len(s) \in Nat /\ <<Len(s)>> \in Seq(Nat) /\ Len(<<Len(s)>>) = 1
  OBVIOUS
<1>2. /\ <<Len(s)>> \o s \in Seq(Nat)
      /\ Len(<<Len(s)>> \o s) = Len(<<Len(s)>>) + Len(s)
      /\ \A i \in 1 .. Len(<<Len(s)>>) + Len(s) :
            (<<Len(s)>> \o s)[i] = IF i <= Len(<<Len(s)>>) THEN <<Len(s)>>[i] ELSE s[i - Len(<<Len(s)>>)]
  BY <1>1, ConcatProperties
<1>3. 1 \in 1 .. Len(<<Len(s)>>) + Len(s) /\ 1 <= Len(<<Len(s)>>)
  BY <1>1
<1> QED BY <1>1, <1>2, <1>3 DEF Prefixed

Regrouped(s, u, t) == (s \o u) \o t = s \o (u \o t) /\ u \o t \in Seq(Nat)

\* Concatenation associates.
LEMMA Regroup ==
  ASSUME NEW s \in Seq(Nat), NEW u \in Seq(Nat), NEW t \in Seq(Nat)
  PROVE  Regrouped(s, u, t)
  BY DEF Regrouped

\* A string behind its length is read back without knowing where it ends.
LEMMA PrefixedSplits ==
  ASSUME NEW s \in Seq(Nat), NEW t \in Seq(Nat), NEW u \in Seq(Nat), NEW v \in Seq(Nat),
         Joins(Prefixed(s), u, Prefixed(t), v)
  PROVE  s = t /\ u = v
<1> DEFINE a == Prefixed(s)
           b == Prefixed(t)
<1>1. /\ a \in Seq(Nat) /\ Len(a) = Len(s) + 1 /\ a[1] = Len(s)
      /\ b \in Seq(Nat) /\ Len(b) = Len(t) + 1 /\ b[1] = Len(t)
  BY PrefixedIs
<1>2. Joins(a, u, b, v)
  OBVIOUS
<1>3. <<Len(s)>> \o s = a /\ <<Len(t)>> \o t = b
  BY DEF Prefixed
<1> HIDE DEF a, b
<1>4. (a \o u)[1] = a[1] /\ (b \o v)[1] = b[1]
  BY <1>1
<1>5. Len(s) = Len(t)
  BY <1>1, <1>2, <1>4 DEF Joins
<1>6. a = b /\ u = v
  BY <1>1, <1>2, <1>5, SplitAt
<1>7. \A i \in 1..Len(s) : s[i] = a[i + 1]
  BY <1>3
<1>8. \A i \in 1..Len(t) : t[i] = b[i + 1]
  BY <1>3
<1>9. s = t
  BY <1>5, <1>6, <1>7, <1>8, SeqEqual
<1> QED BY <1>6, <1>9

\* The same after a start of known length.
Framed(x, s, u, y, t, v) == x \o Prefixed(s) \o u = y \o Prefixed(t) \o v

\* The same behind a head of known length.
LEMMA FrameSplits ==
  ASSUME NEW x \in Seq(Nat), NEW y \in Seq(Nat), Len(x) = Len(y),
         NEW s \in Seq(Nat), NEW t \in Seq(Nat), NEW u \in Seq(Nat), NEW v \in Seq(Nat),
         Framed(x, s, u, y, t, v)
  PROVE  x = y /\ s = t /\ u = v
<1> DEFINE a == Prefixed(s)
           b == Prefixed(t)
<1>1. a \in Seq(Nat) /\ b \in Seq(Nat)
  BY PrefixedIs
<1>2. x \o a \o u = y \o b \o v
  BY DEF Framed
<1> HIDE DEF a, b
<1>3. Regrouped(x, a, u) /\ Regrouped(y, b, v)
  BY <1>1, Regroup
<1>4. a \o u \in Seq(Nat) /\ b \o v \in Seq(Nat)
  BY <1>3 DEF Regrouped
<1>5. Joins(x, a \o u, y, b \o v)
  BY <1>2, <1>3 DEF Regrouped, Joins
<1>6. x = y /\ a \o u = b \o v
  BY <1>4, <1>5, SplitAt
<1>7. Joins(Prefixed(s), u, Prefixed(t), v)
  BY <1>6 DEF Joins, a, b
<1>8. s = t /\ u = v
  BY <1>7, PrefixedSplits
<1> QED BY <1>6, <1>8

-----------------------------------------------------------------------------
(* What is signed and hashed.                                              *)

\* The bytes a pseudonym is hashed from determine the origin and the holder.
LEMMA PseudonymBinds ==
  ASSUME NEW c \in [origin : Seq(Nat), holder : Seq(Nat)],
         NEW d \in [origin : Seq(Nat), holder : Seq(Nat)], PseudonymInput(c) = PseudonymInput(d)
  PROVE  c = d
<1> DEFINE x == <<102>>
           s == c.origin
           t == d.origin
           u == c.holder
           v == d.holder
<1>1. x \in Seq(Nat) /\ s \in Seq(Nat) /\ t \in Seq(Nat) /\ u \in Seq(Nat) /\ v \in Seq(Nat)
  OBVIOUS
<1>2. Framed(x, s, u, x, t, v)
  BY DEF PseudonymInput, Framed
<1>3. s = t /\ u = v => c = d
  OBVIOUS
<1> HIDE DEF x, s, t, u, v
<1>4. s = t /\ u = v
  BY <1>1, <1>2, FrameSplits
<1> QED BY <1>3, <1>4

PresentationDoc == [origin : Seq(Nat), nonce : Nat, digest : Nat, issuedAt : Nat]

\* The message a holder signs determines the presentation.
LEMMA PresentationBinds ==
  ASSUME NEW c \in PresentationDoc, NEW d \in PresentationDoc, PresentationMessage(c) = PresentationMessage(d)
  PROVE  c = d
<1> DEFINE u == <<c.nonce, c.digest, c.issuedAt>>
           v == <<d.nonce, d.digest, d.issuedAt>>
<1>1. c.origin \in Seq(Nat) /\ d.origin \in Seq(Nat) /\ u \in Seq(Nat) /\ v \in Seq(Nat)
  BY DEF PresentationDoc
<1>2. <<103>> \in Seq(Nat)
  OBVIOUS
<1>3. Framed(<<103>>, c.origin, u, <<103>>, d.origin, v)
  BY DEF PresentationMessage, Framed
<1> HIDE DEF u, v
<1>4. c.origin = d.origin /\ u = v
  BY <1>1, <1>2, <1>3, FrameSplits
<1>5. c.nonce = d.nonce /\ c.digest = d.digest /\ c.issuedAt = d.issuedAt
  BY <1>4 DEF u, v
<1> QED BY <1>4, <1>5 DEF PresentationDoc

\* ML-DSA's formatted message determines the context and the message.
LEMMA ContextBinds ==
  ASSUME NEW c \in [ctx : Seq(Nat), msg : Seq(Nat)], NEW d \in [ctx : Seq(Nat), msg : Seq(Nat)],
         formatMsg(c) \cap formatMsg(d) # {}
  PROVE  c = d
<1> DEFINE x == <<0, Len(c.ctx) % (MaxContext + 1)>>
           y == <<0, Len(d.ctx) % (MaxContext + 1)>>
           k == c.ctx
           l == d.ctx
           m == c.msg
           n == d.msg
<1>1. k \in Seq(Nat) /\ l \in Seq(Nat) /\ m \in Seq(Nat) /\ n \in Seq(Nat)
  OBVIOUS
<1>2. /\ formatMsg(c) = IF Len(k) > MaxContext THEN {} ELSE {x \o k \o m}
      /\ formatMsg(d) = IF Len(l) > MaxContext THEN {} ELSE {y \o l \o n}
  BY DEF formatMsg
<1>3. ~(Len(k) > MaxContext) /\ ~(Len(l) > MaxContext) /\ x \o k \o m = y \o l \o n
  <2> HIDE DEF x, y, k, l, m, n
  <2> QED BY <1>2
<1>4. x = <<0, Len(k)>> /\ y = <<0, Len(l)>>
  BY <1>1, <1>3 DEF MaxContext
<1>5. k = l /\ m = n => c = d
  OBVIOUS
<1> HIDE DEF x, y, k, l, m, n
<1>6. x \in Seq(Nat) /\ y \in Seq(Nat) /\ Len(x) = Len(y) /\ x[2] = Len(k) /\ y[2] = Len(l)
  BY <1>1, <1>4
<1>7. Regrouped(x, k, m) /\ Regrouped(y, l, n)
  BY <1>1, <1>6, Regroup
<1>8. k \o m \in Seq(Nat) /\ l \o n \in Seq(Nat)
  BY <1>7 DEF Regrouped
<1>9. Joins(x, k \o m, y, l \o n)
  BY <1>3, <1>7 DEF Regrouped, Joins
<1>13. x = y /\ k \o m = l \o n
  BY <1>6, <1>8, <1>9, SplitAt
<1>10. x = y /\ Joins(k, m, l, n)
  BY <1>13 DEF Joins
<1>11. Len(k) = Len(l)
  BY <1>6, <1>10
<1>12. k = l /\ m = n
  BY <1>1, <1>10, <1>11, SplitAt
<1> QED BY <1>5, <1>12

-----------------------------------------------------------------------------
(* Batches.                                                                *)

\* FlattenSeq is the last of its partial results.
Cat(s, t) == s \o t
Flat(f, seqs) ==
    f = [i \in 1..Len(seqs) |-> IF i = 1 THEN seqs[i] ELSE Cat(f[i - 1], seqs[i])]

\* The partial concatenations of a sequence of strings exist.
LEMMA FlatExists ==
  ASSUME NEW seqs, Len(seqs) \in Nat
  PROVE  \E f : Flat(f, seqs)
<1> DEFINE Part(f, n) == f = [i \in 1..n |-> IF i = 1 THEN seqs[i] ELSE Cat(f[i - 1], seqs[i])]
           S == {n \in Nat : \E f : Part(f, n)}
<1>1. 0 \in S
  <2> DEFINE f == [i \in 1..0 |-> 0]
  <2>1. f = [i \in 1..0 |-> IF i = 1 THEN seqs[i] ELSE Cat(f[i - 1], seqs[i])]
    OBVIOUS
  <2> QED BY <2>1
<1>2. ASSUME NEW n \in Nat, n \in S PROVE n + 1 \in S
  <2>1. PICK f : Part(f, n)
    BY <1>2
  <2> DEFINE g == [i \in 1..(n + 1) |->
                     IF i <= n THEN f[i] ELSE IF n = 0 THEN seqs[i] ELSE Cat(f[n], seqs[i])]
  <2>2. \A i \in 1..n : f[i] = IF i = 1 THEN seqs[i] ELSE Cat(f[i - 1], seqs[i])
    BY <2>1
  <2>3. \A i \in 1..(n + 1) : g[i] = IF i = 1 THEN seqs[i] ELSE Cat(g[i - 1], seqs[i])
    <3> TAKE i \in 1..(n + 1)
    <3>1. CASE i = 1
      BY <2>2, <3>1
    <3>2. CASE i \in 2..n
      <4>1. i - 1 \in 1..n /\ i \in 1..n /\ i # 1 /\ i <= n /\ i - 1 <= n /\ i - 1 \in 1..(n + 1)
        BY <3>2
      <4>2. g[i] = f[i] /\ g[i - 1] = f[i - 1]
        BY <4>1
      <4> QED BY <2>2, <4>1, <4>2
    <3>3. CASE i = n + 1 /\ i # 1
      <4>1. n \in 1..(n + 1) /\ n <= n /\ i - 1 = n /\ n # 0 /\ ~(i <= n)
        BY <3>3
      <4>2. g[i] = Cat(f[n], seqs[i]) /\ g[n] = f[n]
        BY <4>1
      <4> QED BY <3>3, <4>1, <4>2
    <3>4. i = 1 \/ i \in 2..n \/ (i = n + 1 /\ i # 1)
      OBVIOUS
    <3> QED BY <3>1, <3>2, <3>3, <3>4
  <2>4. g = [i \in 1..(n + 1) |-> g[i]]
    OBVIOUS
  <2> HIDE DEF g
  <2>5. g = [i \in 1..(n + 1) |-> IF i = 1 THEN seqs[i] ELSE Cat(g[i - 1], seqs[i])]
    BY <2>3, <2>4
  <2> QED BY <2>5
<1>3. Len(seqs) \in S
  <2> HIDE DEF S
  <2> QED BY <1>1, <1>2, Induction
<1> QED BY <1>3 DEF Flat

\* FlattenSeq is the last of the partial concatenations.
LEMMA FlattenIs ==
  ASSUME NEW seqs, Len(seqs) \in Nat, Len(seqs) # 0
  PROVE  \E f : /\ FlattenSeq(seqs) = f[Len(seqs)] /\ f[1] = seqs[1]
               /\ \A i \in 2..Len(seqs) : f[i] = f[i - 1] \o seqs[i]
<1> DEFINE f == CHOOSE g : Flat(g, seqs)
<1>1. Flat(f, seqs)
  BY FlatExists
<1>2. FlattenSeq(seqs) = f[Len(seqs)]
  BY DEF FlattenSeq, Flat, Cat
<1> HIDE DEF f
<1>3. \A i \in 1..Len(seqs) : f[i] = IF i = 1 THEN seqs[i] ELSE Cat(f[i - 1], seqs[i])
  BY <1>1 DEF Flat
<1>4. 1 \in 1..Len(seqs) /\ \A i \in 2..Len(seqs) : i \in 1..Len(seqs) /\ i # 1
  OBVIOUS
<1> QED BY <1>2, <1>3, <1>4 DEF Cat

\* The partial results of a batch, each target with its length.
Runs(f, x) ==
    /\ x \in Seq(Seq(Nat))
    /\ Len(x) # 0 => f[1] = Prefixed(x[1])
    /\ \A i \in 2..Len(x) : f[i] = f[i - 1] \o Prefixed(x[i])

\* Every partial result of a batch is a string of bytes.
LEMMA RunsAreBytes ==
  ASSUME NEW f, NEW x, Runs(f, x), NEW k \in 1..Len(x)
  PROVE  f[k] \in Seq(Nat)
<1> DEFINE S == {n \in Nat : n + 1 <= Len(x) => f[n + 1] \in Seq(Nat)}
<1>0. x \in Seq(Seq(Nat)) /\ Len(x) \in Nat /\ \A i \in 1..Len(x) : x[i] \in Seq(Nat)
  BY DEF Runs
<1>1. 0 \in S
  <2> SUFFICES ASSUME 1 <= Len(x) PROVE f[1] \in Seq(Nat)
    OBVIOUS
  <2>1. 1 \in 1..Len(x) /\ Len(x) # 0
    BY <1>0
  <2> QED BY <1>0, <2>1, PrefixedIs DEF Runs
<1>2. ASSUME NEW n \in Nat, n \in S PROVE n + 1 \in S
  <2> SUFFICES ASSUME (n + 1) + 1 <= Len(x) PROVE f[(n + 1) + 1] \in Seq(Nat)
    OBVIOUS
  <2> DEFINE i == (n + 1) + 1
  <2>1. i \in 2..Len(x) /\ i \in 1..Len(x) /\ i - 1 = n + 1 /\ n + 1 <= Len(x)
    BY <1>0
  <2>2. f[i - 1] \in Seq(Nat) /\ Prefixed(x[i]) \in Seq(Nat)
    BY <1>0, <1>2, <2>1, PrefixedIs
  <2>3. f[i] = f[i - 1] \o Prefixed(x[i])
    BY <2>1 DEF Runs
  <2> HIDE DEF i
  <2>4. f[i] \in Seq(Nat)
    BY <2>2, <2>3
  <2> QED BY <2>4 DEF i
<1>3. \A n \in Nat : n \in S
  <2> HIDE DEF S
  <2> QED BY <1>1, <1>2, Induction
<1>4. k - 1 \in Nat /\ (k - 1) + 1 = k /\ k <= Len(x)
  BY <1>0
<1>5. k - 1 \in S
  BY <1>3, <1>4
<1> QED BY <1>4, <1>5

\* Equal partial results have the same targets, whatever follows them.
LEMMA RunsSplit ==
  ASSUME NEW f, NEW x, NEW g, NEW y, Runs(f, x), Runs(g, y), Len(x) = Len(y), NEW k \in 1..Len(x)
  PROVE  \A u, v \in Seq(Nat) : Joins(f[k], u, g[k], v) => u = v /\ \A i \in 1..k : x[i] = y[i]
<1> DEFINE P(n) == \A u, v \in Seq(Nat) : Joins(f[n], u, g[n], v) => u = v /\ \A i \in 1..n : x[i] = y[i]
           S == {n \in Nat : n + 1 <= Len(x) => P(n + 1)}
<1>0. /\ Len(x) \in Nat /\ \A i \in 1..Len(x) : x[i] \in Seq(Nat) /\ y[i] \in Seq(Nat)
      /\ \A i \in 1..Len(x) : f[i] \in Seq(Nat) /\ g[i] \in Seq(Nat)
  <2>1. Len(x) \in Nat /\ \A i \in 1..Len(x) : x[i] \in Seq(Nat) /\ y[i] \in Seq(Nat)
    BY DEF Runs
  <2>2. ASSUME NEW i \in 1..Len(x) PROVE f[i] \in Seq(Nat) /\ g[i] \in Seq(Nat)
    <3>1. i \in 1..Len(y)
      OBVIOUS
    <3> QED BY <3>1, RunsAreBytes
  <2> QED BY <2>1, <2>2
<1>1. 0 \in S
  <2> SUFFICES ASSUME 1 <= Len(x), NEW u \in Seq(Nat), NEW v \in Seq(Nat), Joins(f[1], u, g[1], v)
               PROVE  u = v /\ \A i \in 1..1 : x[i] = y[i]
    OBVIOUS
  <2>1. 1 \in 1..Len(x) /\ Len(x) # 0
    BY <1>0
  <2>2. Joins(Prefixed(x[1]), u, Prefixed(y[1]), v)
    BY <2>1 DEF Runs
  <2>3. x[1] = y[1] /\ u = v
    BY <1>0, <2>1, <2>2, PrefixedSplits
  <2>4. \A i \in 1..1 : i = 1
    OBVIOUS
  <2> QED BY <2>3, <2>4
<1>2. ASSUME NEW n \in Nat, n \in S PROVE n + 1 \in S
  <2> DEFINE j == n + 1
             i == j + 1
  <2> SUFFICES ASSUME i <= Len(x), NEW u \in Seq(Nat), NEW v \in Seq(Nat), Joins(f[i], u, g[i], v)
               PROVE  u = v /\ \A m \in 1..i : x[m] = y[m]
    OBVIOUS
  <2>1. i \in 2..Len(x) /\ i \in 1..Len(x) /\ i - 1 = j /\ j <= Len(x) /\ j \in 1..Len(x)
    BY <1>0
  <2>2. P(j)
    BY <1>2, <2>1
  <2>7. \A m \in 1..i : m \in 1..j \/ m = i
    OBVIOUS
  <2> HIDE DEF i, j
  <2> DEFINE a == Prefixed(x[i])
             b == Prefixed(y[i])
  <2>3. a \in Seq(Nat) /\ b \in Seq(Nat) /\ f[j] \in Seq(Nat) /\ g[j] \in Seq(Nat)
    BY <1>0, <2>1, PrefixedIs
  <2>4. f[i] = f[j] \o a /\ g[i] = g[j] \o b
    BY <2>1 DEF Runs
  <2> HIDE DEF a, b
  <2>5. Regrouped(f[j], a, u) /\ Regrouped(g[j], b, v)
    BY <2>3, Regroup
  <2>6. Joins(f[j], a \o u, g[j], b \o v) /\ a \o u \in Seq(Nat) /\ b \o v \in Seq(Nat)
    BY <2>4, <2>5 DEF Regrouped, Joins
  <2>8. a \o u = b \o v /\ \A m \in 1..j : x[m] = y[m]
    BY <2>2, <2>6
  <2>9. Joins(Prefixed(x[i]), u, Prefixed(y[i]), v)
    BY <2>8 DEF Joins, a, b
  <2>10. x[i] = y[i] /\ u = v
    BY <1>0, <2>1, <2>9, PrefixedSplits
  <2> QED BY <2>7, <2>8, <2>10
<1>3. \A n \in Nat : n \in S
  <2> HIDE DEF S
  <2> QED BY <1>1, <1>2, Induction
<1>4. k - 1 \in Nat /\ (k - 1) + 1 = k /\ k <= Len(x)
  BY <1>0
<1>5. k - 1 \in S
  BY <1>3, <1>4
<1> HIDE DEF P
<1>6. P(k)
  BY <1>4, <1>5
<1> QED BY <1>6 DEF P

\* The targets of a batch and their lengths run together.
LEMMA BatchRuns ==
  ASSUME NEW x \in Seq(Seq(Nat)), Len(x) # 0
  PROVE  \E f : Runs(f, x) /\ BindingInput(x) = <<101, Len(x)>> \o f[Len(x)]
<1> DEFINE s == [i \in DOMAIN x |-> Prefixed(x[i])]
<1>1. Len(x) \in Nat /\ DOMAIN x = 1..Len(x) /\ Len(s) = Len(x) /\ \A i \in 1..Len(x) : s[i] = Prefixed(x[i])
  OBVIOUS
<1>2. BindingInput(x) = <<101, Len(x)>> \o FlattenSeq(s)
  BY DEF BindingInput
<1> HIDE DEF s
<1>3. PICK f : /\ FlattenSeq(s) = f[Len(s)] /\ f[1] = s[1]
               /\ \A i \in 2..Len(s) : f[i] = f[i - 1] \o s[i]
  BY <1>1, FlattenIs
<1>4. 1 \in 1..Len(x) /\ \A i \in 2..Len(x) : i \in 1..Len(x)
  BY <1>1
<1>5. Runs(f, x)
  BY <1>1, <1>3, <1>4 DEF Runs
<1> QED BY <1>1, <1>2, <1>3, <1>5

\* The bytes a batch's binding is hashed from determine the batch.
LEMMA BatchBinds ==
  ASSUME NEW x \in Seq(Seq(Nat)), NEW y \in Seq(Seq(Nat)), BindingInput(x) = BindingInput(y)
  PROVE  x = y
<1>0. Len(x) \in Nat /\ Len(y) \in Nat
  OBVIOUS
<1>1. ASSUME NEW z \in Seq(Seq(Nat))
      PROVE  \E u \in Seq(Nat) : BindingInput(z) = <<101, Len(z)>> \o u
  <2>1. CASE Len(z) = 0
    <3>1. [i \in DOMAIN z |-> Prefixed(z[i])] = <<>>
      BY <2>1
    <3>2. FlattenSeq(<<>>) = <<>>
      BY DEF FlattenSeq
    <3>3. BindingInput(z) = <<101, Len(z)>> \o <<>>
      BY <3>1, <3>2 DEF BindingInput
    <3>4. <<>> \in Seq(Nat)
      OBVIOUS
    <3> QED BY <3>3, <3>4
  <2>2. CASE Len(z) # 0
    <3>1. PICK f : Runs(f, z) /\ BindingInput(z) = <<101, Len(z)>> \o f[Len(z)]
      BY <2>2, BatchRuns
    <3>2. Len(z) \in 1..Len(z)
      BY <2>2
    <3>3. f[Len(z)] \in Seq(Nat)
      BY <3>1, <3>2, RunsAreBytes
    <3> QED BY <3>1, <3>3
  <2> QED BY <2>1, <2>2
<1>2. Len(x) = Len(y)
  <2>1. PICK u \in Seq(Nat) : BindingInput(x) = <<101, Len(x)>> \o u
    BY <1>1
  <2>2. PICK v \in Seq(Nat) : BindingInput(y) = <<101, Len(y)>> \o v
    BY <1>1
  <2>3. (<<101, Len(x)>> \o u)[2] = Len(x) /\ (<<101, Len(y)>> \o v)[2] = Len(y)
    BY <1>0
  <2> QED BY <2>1, <2>2, <2>3
<1>3. CASE Len(x) = 0
  BY <1>2, <1>3, EmptySeq
<1>4. CASE Len(x) # 0
  <2> DEFINE n == Len(x)
  <2>1. PICK f : Runs(f, x) /\ BindingInput(x) = <<101, n>> \o f[n]
    BY <1>4, BatchRuns
  <2>2. PICK g : Runs(g, y) /\ BindingInput(y) = <<101, n>> \o g[n]
    BY <1>2, <1>4, BatchRuns
  <2>3. n \in 1..n /\ <<101, n>> \in Seq(Nat)
    BY <1>0, <1>4
  <2>4. f[n] \in Seq(Nat) /\ g[n] \in Seq(Nat)
    BY <1>2, <2>1, <2>2, <2>3, RunsAreBytes
  <2>5. Joins(<<101, n>>, f[n], <<101, n>>, g[n])
    BY <2>1, <2>2 DEF Joins
  <2>6. f[n] = g[n]
    BY <2>3, <2>4, <2>5, SplitAt
  <2>7. Joins(f[n], <<>>, g[n], <<>>) /\ <<>> \in Seq(Nat)
    BY <2>6 DEF Joins
  <2>9. Runs(f, x) /\ Runs(g, y) /\ Len(x) = Len(y) /\ n \in 1..Len(x)
    BY <1>2, <2>1, <2>2, <2>3
  <2> HIDE DEF n
  <2>10. \A u, v \in Seq(Nat) : Joins(f[n], u, g[n], v) => u = v /\ \A i \in 1..n : x[i] = y[i]
    BY <2>9, RunsSplit
  <2>8. \A i \in 1..n : x[i] = y[i]
    BY <2>7, <2>10
  <2> USE DEF n
  <2> QED BY <1>2, <2>8, SeqEqual
<1> QED BY <1>3, <1>4

AuthorizationDoc ==
    [version : {AuthorizationVersion}, bindingHex : STRING, rateLimitID : Seq(Nat),
     policyLabel : Seq(Nat), maxBatch : Nat, exp : Nat, iat : Nat]

\* The bytes of an authorization whose binding is b.
AuthorizationBytes(a, b) ==
    <<104, a.version, b>> \o Prefixed(a.rateLimitID)
        \o Prefixed(a.policyLabel) \o <<a.maxBatch, a.exp, a.iat>>

\* The bytes of an authorization determine every field of it and its binding.
LEMMA AuthorizationFields ==
  ASSUME NEW a \in AuthorizationDoc, NEW d \in AuthorizationDoc, NEW b \in Nat, NEW c \in Nat,
         AuthorizationBytes(a, b) = AuthorizationBytes(d, c)
  PROVE  /\ b = c /\ a.rateLimitID = d.rateLimitID /\ a.policyLabel = d.policyLabel
         /\ a.maxBatch = d.maxBatch /\ a.exp = d.exp /\ a.iat = d.iat
<1> DEFINE x == <<104, a.version, b>>
           y == <<104, d.version, c>>
           r == a.rateLimitID
           s == d.rateLimitID
           k == a.policyLabel
           l == d.policyLabel
           u == <<a.maxBatch, a.exp, a.iat>>
           v == <<d.maxBatch, d.exp, d.iat>>
           rr == Prefixed(r)
           ss == Prefixed(s)
           kk == Prefixed(k)
           ll == Prefixed(l)
<1>1. /\ x \in Seq(Nat) /\ y \in Seq(Nat) /\ r \in Seq(Nat) /\ s \in Seq(Nat) /\ k \in Seq(Nat) /\ l \in Seq(Nat)
      /\ u \in Seq(Nat) /\ v \in Seq(Nat) /\ Len(x) = Len(y)
  BY DEF AuthorizationDoc, AuthorizationVersion
<1>2. x \o rr \o kk \o u = y \o ss \o ll \o v
  BY DEF AuthorizationBytes
<1>3. x = y => b = c
  OBVIOUS
<1>4. u = v => a.maxBatch = d.maxBatch /\ a.exp = d.exp /\ a.iat = d.iat
  OBVIOUS
<1> HIDE DEF x, y, r, s, k, l, u, v
<1>5. rr \in Seq(Nat) /\ ss \in Seq(Nat) /\ kk \in Seq(Nat) /\ ll \in Seq(Nat)
  BY <1>1, PrefixedIs
<1> HIDE DEF rr, ss, kk, ll
<1>6. x \o rr \in Seq(Nat) /\ y \o ss \in Seq(Nat)
  BY <1>1, <1>5
<1>7. Regrouped(x \o rr, kk, u) /\ Regrouped(y \o ss, ll, v)
  BY <1>1, <1>5, <1>6, Regroup
<1>8. kk \o u \in Seq(Nat) /\ ll \o v \in Seq(Nat) /\ (x \o rr) \o (kk \o u) = (y \o ss) \o (ll \o v)
  BY <1>2, <1>7 DEF Regrouped
<1>9. Framed(x, r, kk \o u, y, s, ll \o v)
  BY <1>8 DEF Framed, rr, ss
<1>10. x = y /\ r = s /\ kk \o u = ll \o v
  BY <1>1, <1>8, <1>9, FrameSplits
<1>11. Joins(Prefixed(k), u, Prefixed(l), v)
  BY <1>10 DEF Joins, kk, ll
<1>12. k = l /\ u = v
  BY <1>1, <1>11, PrefixedSplits
<1> QED BY <1>3, <1>4, <1>10, <1>12 DEF r, s, k, l

\* An authorization verifies exactly as it was signed, in time, for a batch.
LEMMA AuthorizationBinds ==
  ASSUME NEW a \in AuthorizationDoc, NEW d \in AuthorizationDoc, NEW now \in Nat
  PROVE  VerifyAuthorization(a, SignAuthorization(d), now)
            <=> /\ [a EXCEPT !.bindingHex = binding(a)] = [d EXCEPT !.bindingHex = binding(d)]
                /\ binding(a) # {} /\ now <= a.exp /\ a.maxBatch > 0
<1> DEFINE Same == /\ binding(a) = binding(d) /\ a.rateLimitID = d.rateLimitID /\ a.policyLabel = d.policyLabel
                   /\ a.maxBatch = d.maxBatch /\ a.exp = d.exp /\ a.iat = d.iat
<1>1. ([a EXCEPT !.bindingHex = binding(a)] = [d EXCEPT !.bindingHex = binding(d)]) <=> Same
  <2> HIDE DEF binding
  <2> QED BY DEF AuthorizationDoc
<1>2. /\ binding(a) = {} \/ \E b \in Nat : binding(a) = {b}
      /\ binding(d) = {} \/ \E b \in Nat : binding(d) = {b}
  BY DEF binding, HexValue
<1>3. /\ SignedBytes(a) = {AuthorizationBytes(a, b) : b \in binding(a)}
      /\ SignedBytes(d) = {AuthorizationBytes(d, b) : b \in binding(d)}
  BY DEF SignedBytes, AuthorizationBytes
<1>4. a.maxBatch # 0 <=> a.maxBatch > 0
  BY DEF AuthorizationDoc
<1>5. SignedBytes(a) # {} /\ SignedBytes(d) = SignedBytes(a) <=> Same /\ binding(a) # {}
  <2>1. ASSUME SignedBytes(a) # {}, SignedBytes(d) = SignedBytes(a) PROVE Same /\ binding(a) # {}
    <3>1. PICK b \in Nat : binding(a) = {b}
      BY <1>2, <1>3, <2>1
    <3>2. PICK c \in Nat : binding(d) = {c}
      BY <1>2, <1>3, <2>1
    <3>3. AuthorizationBytes(a, b) = AuthorizationBytes(d, c)
      BY <1>3, <2>1, <3>1, <3>2
    <3> QED BY <3>1, <3>2, <3>3, AuthorizationFields
  <2>2. ASSUME Same, binding(a) # {} PROVE SignedBytes(a) # {} /\ SignedBytes(d) = SignedBytes(a)
    <3>1. a.version = d.version
      BY DEF AuthorizationDoc
    <3>2. \A b : AuthorizationBytes(a, b) = AuthorizationBytes(d, b)
      BY <2>2, <3>1 DEF AuthorizationBytes
    <3> QED BY <1>3, <2>2, <3>2
  <2> QED BY <2>1, <2>2
<1>6. a.version = AuthorizationVersion
  BY DEF AuthorizationDoc
<1> HIDE DEF Same
<1> QED BY <1>1, <1>4, <1>5, <1>6 DEF VerifyAuthorization, SignAuthorization, Same

-----------------------------------------------------------------------------
(* Tokens.                                                                 *)

\* A part of a sequence, element by element.
LEMMA SubSeqIs ==
  ASSUME NEW S, NEW s \in Seq(S), NEW m \in Nat \ {0}, NEW n \in Nat, m - 1 <= n, n <= Len(s)
  PROVE  /\ SubSeq(s, m, n) \in Seq(S) /\ Len(SubSeq(s, m, n)) = n - (m - 1)
         /\ \A i \in 1..(n - (m - 1)) : SubSeq(s, m, n)[i] = s[i + (m - 1)]
  OBVIOUS

\* s is in t after the first a elements.
Holds(t, a, s) == a + Len(s) <= Len(t) /\ \A i \in 1..Len(s) : t[a + i] = s[i]

\* The part where s stands is s.
LEMMA HeldIs ==
  ASSUME NEW S, NEW t \in Seq(S), NEW s \in Seq(S), NEW a \in Nat, Holds(t, a, s)
  PROVE  SubSeq(t, a + 1, a + Len(s)) = s
<1> DEFINE m == a + 1
           n == a + Len(s)
           w == SubSeq(t, m, n)
<1>1. m \in Nat \ {0} /\ n \in Nat /\ m - 1 <= n /\ n <= Len(t) /\ n - (m - 1) = Len(s) /\ m - 1 = a
  BY DEF Holds
<1> HIDE DEF m, n
<1>2. w \in Seq(S) /\ Len(w) = Len(s) /\ \A i \in 1..Len(s) : w[i] = t[i + a]
  BY <1>1, SubSeqIs
<1>3. \A i \in 1..Len(s) : i + a = a + i
  OBVIOUS
<1>4. \A i \in 1..Len(s) : w[i] = s[i]
  BY <1>2, <1>3 DEF Holds
<1>5. w = s
  <2> HIDE DEF w
  <2> QED BY <1>2, <1>4, SeqEqual
<1> QED BY <1>5 DEF w, m, n

\* What follows a head of four bytes.
Headed(w, a, b, c, d, s) ==
    /\ w \in Seq(Nat) /\ Len(w) = 4 + Len(s) /\ w[1] = a /\ w[2] = b /\ w[3] = c /\ w[4] = d
    /\ \A i \in 1..Len(s) : w[i + 4] = s[i]

\* The four bytes of a head and what follows them are read back.
LEMMA AfterHead ==
  ASSUME NEW a \in Nat, NEW b \in Nat, NEW c \in Nat, NEW d \in Nat, NEW s \in Seq(Nat)
  PROVE  Headed(<<a, b, c, d>> \o s, a, b, c, d, s)
<1> DEFINE w == <<a, b, c, d>> \o s
<1>1. /\ w \in Seq(Nat) /\ Len(w) = 4 + Len(s) /\ w[1] = a /\ w[2] = b /\ w[3] = c /\ w[4] = d
      /\ \A i \in 1..Len(s) : w[i + 4] = s[i]
  OBVIOUS
<1> QED BY <1>1 DEF Headed

BurnDoc == [nonce : Nat, challenge : Nat, kid : Nat, auth : Seq(Nat)]

\* A burn token is parsed from its bytes.
LEMMA BurnParses ==
  ASSUME NEW t \in BurnDoc, Len(t.auth) > authenticatorRandomLength
  PROVE  ParseBurnToken(BurnBytes(t)) = {t}
<1> DEFINE s == t.auth
           b == <<1, t.nonce, t.challenge, t.kid>> \o s
<1>1. s \in Seq(Nat) /\ Len(s) \in Nat /\ Len(s) > 1
  BY DEF BurnDoc, authenticatorRandomLength
<1>2. BurnBytes(t) = b
  BY DEF BurnBytes, BurnInput, BurnTokenType
<1>3. /\ b \in Seq(Nat) /\ Len(b) = 4 + Len(s) /\ b[1] = 1 /\ b[2] = t.nonce /\ b[3] = t.challenge /\ b[4] = t.kid
      /\ \A i \in 1..Len(s) : b[i + 4] = s[i]
  <2>1. Headed(b, 1, t.nonce, t.challenge, t.kid, s)
    BY <1>1, AfterHead DEF BurnDoc
  <2> QED BY <2>1 DEF Headed
<1> HIDE DEF b
<1>4. SubSeq(b, 5, Len(b)) = s
  <2>1. 4 + Len(s) = Len(b) /\ 4 + 1 = 5 /\ 4 + Len(s) <= Len(b)
    BY <1>1, <1>3
  <2>2. \A i \in 1..Len(s) : b[4 + i] = s[i]
    <3> TAKE i \in 1..Len(s)
    <3>1. 4 + i = i + 4
      OBVIOUS
    <3>2. b[i + 4] = s[i]
      BY <1>3
    <3> QED BY <3>1, <3>2
  <2>3. Holds(b, 4, s)
    BY <2>1, <2>2 DEF Holds
  <2>4. SubSeq(b, 4 + 1, 4 + Len(s)) = s
    <3>1. b \in Seq(Nat) /\ s \in Seq(Nat) /\ 4 \in Nat
      BY <1>1, <1>3
    <3> HIDE DEF s
    <3> QED BY <2>3, <3>1, HeldIs
  <2> QED BY <2>1, <2>4
<1>5. ParseBurnToken(b) = {[nonce |-> b[2], challenge |-> b[3], kid |-> b[4], auth |-> SubSeq(b, 5, Len(b))]}
  BY <1>1, <1>3 DEF ParseBurnToken, burnInputLen, authenticatorRandomLength, BurnTokenType
<1>6. t = [nonce |-> b[2], challenge |-> b[3], kid |-> b[4], auth |-> SubSeq(b, 5, Len(b))]
  BY <1>3, <1>4 DEF BurnDoc
<1> QED BY <1>2, <1>5, <1>6

PrivateDoc == [version : Nat, kid : Nat, alg : Nat, holder : Seq(Nat), auth : Seq(Nat)]

\* What the parser returns when the key has n bytes.
PrivateAt(b, n) ==
    [version |-> b[2], kid |-> b[3], alg |-> b[4],
     holder |-> SubSeq(b, 5, 4 + n), auth |-> SubSeq(b, 5 + n, Len(b))]

\* ParsePrivateIdentityToken, with the length of the key for a parameter.
LEMMA PrivateIs ==
  ASSUME NEW b \in Seq(Nat)
  PROVE  ParsePrivateIdentityToken(b) =
            IF Len(b) < 4 \/ b[1] # 2 THEN {}
            ELSE {PrivateAt(b, n) : n \in {m \in holderPubLen(b[4]) : Len(b) > 5 + m}}
<1>1. \A n \in holderPubLen(b[4]) : n \in Nat
  BY DEF holderPubLen
<1>2. Len(b) \in Nat
  OBVIOUS
<1> DEFINE P == parsePrivateIdentityInputPrefix(b)
           F(p) == [version |-> p.version, kid |-> p.kid, alg |-> p.alg,
                    holder |-> SubSeq(b, 5, p.end), auth |-> SubSeq(b, p.end + 1, Len(b))]
           H(n) == [version |-> b[2], kid |-> b[3], alg |-> b[4], end |-> 4 + n]
<1>3. ParsePrivateIdentityToken(b) = {F(p) : p \in {x \in P : Len(b) - x.end > 1}}
  BY DEF ParsePrivateIdentityToken, authenticatorRandomLength, privateIdentityInputHead
<1>4. P = IF Len(b) < 4 \/ b[1] # 2 THEN {}
          ELSE {H(n) : n \in {m \in holderPubLen(b[4]) : Len(b) >= 4 + m}}
  BY DEF parsePrivateIdentityInputPrefix, PrivateIdentityTokenType, privateIdentityInputHead
<1>5. \A n \in Nat : F(H(n)) = PrivateAt(b, n) /\ H(n).end = 4 + n
  <2> TAKE n \in Nat
  <2>1. (4 + n) + 1 = 5 + n
    OBVIOUS
  <2>2. F(H(n)) = [version |-> b[2], kid |-> b[3], alg |-> b[4],
                   holder |-> SubSeq(b, 5, 4 + n), auth |-> SubSeq(b, (4 + n) + 1, Len(b))]
    OBVIOUS
  <2> QED BY <2>1, <2>2 DEF PrivateAt
<1>6. \A n \in Nat : Len(b) - (4 + n) > 1 <=> Len(b) > 5 + n
  BY <1>2
<1>7. \A n \in Nat : Len(b) > 5 + n => Len(b) >= 4 + n
  BY <1>2
<1>8. CASE Len(b) < 4 \/ b[1] # 2
  BY <1>3, <1>4, <1>8
<1>9. CASE ~(Len(b) < 4 \/ b[1] # 2)
  <2> DEFINE K == holderPubLen(b[4])
             A == {m \in K : Len(b) >= 4 + m}
             B == {m \in K : Len(b) > 5 + m}
  <2>1. P = {H(n) : n \in A}
    BY <1>4, <1>9
  <2> HIDE DEF P, F, H, K
  <2>2. {x \in P : Len(b) - x.end > 1} = {H(n) : n \in B}
    BY <1>1, <1>5, <1>6, <1>7, <2>1 DEF K
  <2>3. {F(p) : p \in {H(n) : n \in B}} = {PrivateAt(b, n) : n \in B}
    BY <1>1, <1>5 DEF K
  <2> QED BY <1>3, <1>9, <2>2, <2>3 DEF K
<1> QED BY <1>8, <1>9

\* A private identity token is parsed from its bytes.
LEMMA PrivateParses ==
  ASSUME NEW t \in PrivateDoc, HolderBytes(t), Len(t.auth) > authenticatorRandomLength
  PROVE  ParsePrivateIdentityToken(PrivateIdentityBytes(t)) = {t}
<1> DEFINE k == t.holder
           s == t.auth
           r == k \o s
           h == <<2, t.version, t.kid, t.alg>>
           b == h \o r
           n == Len(k)
<1>1. k \in Seq(Nat) /\ s \in Seq(Nat) /\ Len(s) \in Nat /\ n \in Nat /\ Len(s) > 1
      /\ t.version \in Nat /\ t.kid \in Nat /\ t.alg \in Nat
  BY DEF PrivateDoc, authenticatorRandomLength
<1>2. holderPubLen(t.alg) = {n}
  BY DEF HolderBytes, holderPubLen
<1>3. PrivateIdentityBytes(t) = h \o k \o s
  BY DEF PrivateIdentityBytes, PrivateIdentityInput, PrivateIdentityTokenType
<1>4. h \in Seq(Nat)
  BY <1>1
<1> HIDE DEF k, s
<1>5. r \in Seq(Nat) /\ Len(r) = n + Len(s) /\ (\A i \in 1..n : r[i] = k[i]) /\ \A i \in 1..Len(s) : r[n + i] = s[i]
  BY <1>1
<1>6. PrivateIdentityBytes(t) = b
  <2> HIDE DEF h
  <2>1. Regrouped(h, k, s)
    BY <1>1, <1>4, Regroup
  <2> QED BY <1>3, <2>1 DEF Regrouped
<1>14. r \in Seq(Nat) /\ 2 \in Nat
  BY <1>5
<1> HIDE DEF r
<1>7. /\ b \in Seq(Nat) /\ Len(b) = 4 + Len(r) /\ b[1] = 2 /\ b[2] = t.version /\ b[3] = t.kid /\ b[4] = t.alg
      /\ \A i \in 1..Len(r) : b[i + 4] = r[i]
  <2>1. Headed(b, 2, t.version, t.kid, t.alg, r)
    BY <1>1, <1>14, AfterHead
  <2> QED BY <2>1 DEF Headed
<1> HIDE DEF b, n
<1>15. n \in Nat /\ Len(k) = n /\ Len(s) \in Nat /\ Len(b) = 4 + (n + Len(s)) /\ Len(r) = n + Len(s)
  BY <1>1, <1>5, <1>7 DEF n
<1>8. SubSeq(b, 5, 4 + n) = k
  <2>1. Holds(b, 4, k)
    <3>1. 4 + n <= Len(b) /\ \A i \in 1..n : i \in 1..Len(r) /\ 4 + i = i + 4
      BY <1>15
    <3>2. \A i \in 1..n : b[4 + i] = k[i]
      BY <1>5, <1>7, <3>1
    <3> QED BY <1>15, <3>1, <3>2 DEF Holds
  <2>2. SubSeq(b, 4 + 1, 4 + Len(k)) = k
    BY <1>1, <1>7, <2>1, HeldIs
  <2> QED BY <1>15, <2>2
<1>9. SubSeq(b, 5 + n, Len(b)) = s
  <2> DEFINE e == 4 + n
  <2>1. e \in Nat /\ e + Len(s) = Len(b) /\ e + 1 = 5 + n
    BY <1>15
  <2>2. Holds(b, e, s)
    <3>1. \A i \in 1..Len(s) : n + i \in 1..Len(r) /\ e + i = (n + i) + 4
      BY <1>15
    <3>2. \A i \in 1..Len(s) : b[e + i] = s[i]
      BY <1>5, <1>7, <3>1
    <3>3. Len(b) \in Nat
      BY <1>15
    <3> HIDE DEF e
    <3>4. e + Len(s) <= Len(b)
      BY <2>1, <3>3
    <3> QED BY <3>2, <3>4 DEF Holds
  <2> HIDE DEF e
  <2>3. SubSeq(b, e + 1, e + Len(s)) = s
    BY <1>1, <1>7, <2>1, <2>2, HeldIs
  <2> QED BY <2>1, <2>3
<1>10. PrivateAt(b, n) = t
  BY <1>7, <1>8, <1>9 DEF PrivateAt, PrivateDoc, k, s
<1>11. ~(Len(b) < 4 \/ b[1] # 2) /\ Len(b) > 5 + n
  <2>1. n \in Nat /\ Len(s) \in Nat /\ Len(b) = 4 + (n + Len(s)) /\ Len(s) > 1 /\ b[1] = 2
    BY <1>1, <1>5, <1>7
  <2> QED BY <2>1
<1>12. {m \in holderPubLen(b[4]) : Len(b) > 5 + m} = {n}
  BY <1>2, <1>7, <1>11
<1>13. ParsePrivateIdentityToken(b) = {PrivateAt(b, m) : m \in {n}}
  BY <1>7, <1>11, <1>12, PrivateIs
<1> QED BY <1>6, <1>10, <1>13

PrivateFrom(b, n) == <<2, b[2], b[3], b[4]>> \o SubSeq(b, 5, 4 + n) \o SubSeq(b, 5 + n, Len(b))

\* The head, the key and the authenticator make up the bytes they were taken from.
LEMMA PrivateRebuilt ==
  ASSUME NEW b \in Seq(Nat), NEW n \in Nat, Len(b) > 5 + n, b[1] = 2
  PROVE  PrivateFrom(b, n) = b /\ Len(SubSeq(b, 5 + n, Len(b))) > 1
<1>0. Len(b) \in Nat /\ 4 + n <= Len(b) /\ 5 + n <= Len(b)
  OBVIOUS
<1> DEFINE b2 == b[2]
           b3 == b[3]
           b4 == b[4]
           k == SubSeq(b, 5, 4 + n)
           s == SubSeq(b, 5 + n, Len(b))
           r == k \o s
           h == <<2, b2, b3, b4>>
           w == h \o r
<1>1. k \in Seq(Nat) /\ Len(k) = n /\ (\A i \in 1..n : k[i] = b[i + 4])
  BY <1>0
<1>2. s \in Seq(Nat) /\ Len(s) = Len(b) - (4 + n) /\ (\A i \in 1..Len(s) : s[i] = b[(n + i) + 4])
  BY <1>0
<1>3. b2 \in Nat /\ b3 \in Nat /\ b4 \in Nat /\ 2 \in Nat
  <2>1. 2 \in 1..Len(b) /\ 3 \in 1..Len(b) /\ 4 \in 1..Len(b)
    BY <1>0
  <2> QED BY <2>1, ElementOfSeq
<1>4. h \in Seq(Nat)
  BY <1>3
<1>5. PrivateFrom(b, n) = h \o k \o s
  BY DEF PrivateFrom
<1> HIDE DEF k, s
<1>6. r \in Seq(Nat) /\ Len(r) = n + Len(s) /\ (\A i \in 1..n : r[i] = k[i]) /\ \A i \in 1..Len(s) : r[n + i] = s[i]
  <2>1. /\ r \in Seq(Nat) /\ Len(r) = Len(k) + Len(s) /\ \A i \in 1..Len(k) : r[i] = k[i]
        /\ \A i \in 1..Len(s) : r[Len(k) + i] = s[i]
    <3>1. k \in Seq(Nat) /\ s \in Seq(Nat)
      BY <1>1, <1>2
    <3> QED BY <3>1
  <2> QED BY <1>1, <2>1
<1>7. PrivateFrom(b, n) = w
  <2> HIDE DEF h
  <2>1. Regrouped(h, k, s)
    BY <1>1, <1>2, <1>4, Regroup
  <2> QED BY <1>5, <2>1 DEF Regrouped
<1>8. r \in Seq(Nat)
  BY <1>6
<1> HIDE DEF r, b2, b3, b4
<1>9. /\ w \in Seq(Nat) /\ Len(w) = 4 + Len(r) /\ w[1] = 2 /\ w[2] = b2 /\ w[3] = b3 /\ w[4] = b4
      /\ \A i \in 1..Len(r) : w[i + 4] = r[i]
  <2>1. Headed(w, 2, b2, b3, b4, r)
    BY <1>3, <1>8, AfterHead
  <2> QED BY <2>1 DEF Headed
<1> HIDE DEF w
<1>10. Len(w) = Len(b) /\ Len(s) \in Nat /\ Len(r) = Len(b) - 4 /\ Len(s) > 1
  BY <1>0, <1>2, <1>6, <1>9
<1>11. \A i \in 1..Len(b) : i \in {1, 2, 3, 4} \/ (i - 4 \in 1..Len(r) /\ (i - 4) + 4 = i)
  BY <1>0, <1>10
<1>12. \A j \in 1..Len(r) : j \in 1..n \/ (j - n \in 1..Len(s) /\ n + (j - n) = j)
  <2>1. Len(r) = n + Len(s) /\ Len(s) \in Nat
    BY <1>6, <1>10
  <2>2. \A a, c \in Nat : \A j \in 1..(a + c) : j \in 1..a \/ (j - a \in 1..c /\ a + (j - a) = j)
    OBVIOUS
  <2> QED BY <2>1, <2>2
<1>13. \A j \in 1..Len(r) : r[j] = b[j + 4]
  <2> TAKE j \in 1..Len(r)
  <2>1. CASE j \in 1..n
    BY <1>1, <1>6, <2>1
  <2>2. CASE j - n \in 1..Len(s) /\ n + (j - n) = j
    <3> DEFINE i == j - n
    <3>1. i \in 1..Len(s) /\ n + i = j
      BY <2>2
    <3> HIDE DEF i
    <3>2. r[n + i] = s[i] /\ s[i] = b[(n + i) + 4]
      BY <1>2, <1>6, <3>1
    <3> QED BY <3>1, <3>2
  <2> QED BY <1>12, <2>1, <2>2
<1>14. \A i \in 1..Len(b) : w[i] = b[i]
  <2> TAKE i \in 1..Len(b)
  <2>1. CASE i \in {1, 2, 3, 4}
    BY <1>9, <2>1 DEF b2, b3, b4
  <2>2. CASE i - 4 \in 1..Len(r) /\ (i - 4) + 4 = i
    <3> DEFINE j == i - 4
    <3>1. j \in 1..Len(r) /\ j + 4 = i
      BY <2>2
    <3> HIDE DEF j
    <3>2. w[j + 4] = r[j] /\ r[j] = b[j + 4]
      BY <1>9, <1>13, <3>1
    <3> QED BY <3>1, <3>2
  <2> QED BY <1>11, <2>1, <2>2
<1>15. w = b
  BY <1>9, <1>10, <1>14, SeqEqual
<1> QED BY <1>7, <1>10, <1>15 DEF s

\* What follows the first four bytes.
LEMMA AfterFour ==
  ASSUME NEW b \in Seq(Nat), Len(b) > 5
  PROVE  /\ SubSeq(b, 5, Len(b)) \in Seq(Nat) /\ Len(SubSeq(b, 5, Len(b))) = Len(b) - 4 /\ Len(b) \in Nat
         /\ \A i \in 1..Len(SubSeq(b, 5, Len(b))) : SubSeq(b, 5, Len(b))[i] = b[i + 4]
<1>1. /\ 5 \in Nat \ {0} /\ Len(b) \in Nat /\ 5 - 1 <= Len(b) /\ Len(b) <= Len(b)
      /\ Len(b) - (5 - 1) = Len(b) - 4 /\ 5 - 1 = 4
  OBVIOUS
<1> QED BY <1>1, SubSeqIs

\* The elements behind the first one of a sequence that has more than five.
LEMMA HeadElements ==
  ASSUME NEW b \in Seq(Nat), Len(b) > 5
  PROVE  b[2] \in Nat /\ b[3] \in Nat /\ b[4] \in Nat
<1>1. Len(b) \in Nat
  OBVIOUS
<1>2. 2 \in 1..Len(b) /\ 3 \in 1..Len(b) /\ 4 \in 1..Len(b)
  BY <1>1
<1> QED BY <1>2, ElementOfSeq

\* What a parser accepts is the bytes of what it returns, and the first byte keeps
\* the two kinds of tokens apart.
LEMMA BytesParsed ==
  ASSUME NEW b \in Seq(Nat)
  PROVE  /\ \A t \in ParseBurnToken(b) : BurnBytes(t) = b /\ Len(t.auth) > authenticatorRandomLength
         /\ \A t \in ParsePrivateIdentityToken(b) :
                PrivateIdentityBytes(t) = b /\ Len(t.auth) > authenticatorRandomLength
         /\ ParseBurnToken(b) = {} \/ ParsePrivateIdentityToken(b) = {}
<1>1. ASSUME NEW t \in ParseBurnToken(b)
      PROVE  BurnBytes(t) = b /\ Len(t.auth) > authenticatorRandomLength
  <2>1. /\ Len(b) > 5 /\ b[1] = 1
        /\ t = [nonce |-> b[2], challenge |-> b[3], kid |-> b[4], auth |-> SubSeq(b, 5, Len(b))]
    BY <1>1 DEF ParseBurnToken, burnInputLen, authenticatorRandomLength, BurnTokenType
  <2> DEFINE s == SubSeq(b, 5, Len(b))
             w == <<1, b[2], b[3], b[4]>> \o s
  <2>2. BurnBytes(t) = w /\ t.auth = s
    BY <2>1 DEF BurnBytes, BurnInput, BurnTokenType
  <2>3. s \in Seq(Nat) /\ Len(s) = Len(b) - 4 /\ Len(b) \in Nat /\ \A i \in 1..Len(s) : s[i] = b[i + 4]
    BY <2>1, AfterFour
  <2>4. b[1] = 1 /\ b[2] \in Nat /\ b[3] \in Nat /\ b[4] \in Nat
    <3>1. Len(b) > 5
      BY <2>1
    <3>2. b[2] \in Nat /\ b[3] \in Nat /\ b[4] \in Nat
      BY <3>1, HeadElements
    <3> QED BY <2>1, <3>2
  <2> HIDE DEF s
  <2>5. /\ w \in Seq(Nat) /\ Len(w) = 4 + Len(s) /\ w[1] = 1 /\ w[2] = b[2] /\ w[3] = b[3] /\ w[4] = b[4]
        /\ \A i \in 1..Len(s) : w[i + 4] = s[i]
    <3>1. Headed(w, 1, b[2], b[3], b[4], s)
      BY <2>3, <2>4, AfterHead
    <3> QED BY <3>1 DEF Headed
  <2> HIDE DEF w
  <2>6. \A i \in 1..Len(b) : i \in {1, 2, 3, 4} \/ (i - 4 \in 1..Len(s) /\ (i - 4) + 4 = i)
    BY <2>3
  <2>7. \A i \in 1..Len(b) : w[i] = b[i]
    <3> TAKE i \in 1..Len(b)
    <3>1. CASE i \in {1, 2, 3, 4}
      BY <2>4, <2>5, <3>1
    <3>2. CASE i - 4 \in 1..Len(s) /\ (i - 4) + 4 = i
      <4> DEFINE j == i - 4
      <4>1. j \in 1..Len(s) /\ j + 4 = i
        BY <3>2
      <4> HIDE DEF j
      <4>2. w[j + 4] = s[j] /\ s[j] = b[j + 4]
        BY <2>3, <2>5, <4>1
      <4> QED BY <4>1, <4>2
    <3> QED BY <2>6, <3>1, <3>2
  <2>9. Len(w) = Len(b)
    BY <2>3, <2>5
  <2>8. w = b
    BY <2>5, <2>7, <2>9, SeqEqual
  <2>10. Len(s) > 1
    BY <2>1, <2>3
  <2> QED BY <2>2, <2>8, <2>10 DEF authenticatorRandomLength
<1>2. ASSUME NEW t \in ParsePrivateIdentityToken(b)
      PROVE  PrivateIdentityBytes(t) = b /\ Len(t.auth) > authenticatorRandomLength
  <2>1. PICK n \in holderPubLen(b[4]) : Len(b) > 5 + n /\ t = PrivateAt(b, n) /\ b[1] = 2
    BY <1>2, PrivateIs
  <2>2. n \in Nat /\ Len(b) \in Nat
    BY <2>1 DEF holderPubLen
  <2>3. PrivateIdentityBytes(t) = PrivateFrom(b, n) /\ t.auth = SubSeq(b, 5 + n, Len(b))
    BY <2>1 DEF PrivateIdentityBytes, PrivateIdentityInput, PrivateIdentityTokenType, PrivateAt, PrivateFrom
  <2>4. PrivateFrom(b, n) = b /\ Len(SubSeq(b, 5 + n, Len(b))) > 1
    BY <2>1, <2>2, PrivateRebuilt
  <2> QED BY <2>3, <2>4 DEF authenticatorRandomLength
<1>3. ParseBurnToken(b) = {} \/ ParsePrivateIdentityToken(b) = {}
  <2>1. b[1] = 1 \/ ParseBurnToken(b) = {}
    BY DEF ParseBurnToken, BurnTokenType
  <2>2. b[1] = 2 \/ ParsePrivateIdentityToken(b) = {}
    BY PrivateIs
  <2> QED BY <2>1, <2>2
<1> QED BY <1>1, <1>2, <1>3

-----------------------------------------------------------------------------
(* Texts: where things are in them.                                        *)

\* The least element of a set is the one chosen as such.
LEMMA LeastIs ==
  ASSUME NEW A \in SUBSET Nat, NEW i \in A, \A m \in A : i <= m
  PROVE  {k \in A : \A m \in A : k <= m} = {i} /\ (CHOOSE k \in A : \A m \in A : k <= m) = i
<1>1. \A k \in A : (\A m \in A : k <= m) => k = i
  <2> SUFFICES ASSUME NEW k \in A, \A m \in A : k <= m PROVE k = i
    OBVIOUS
  <2>1. k <= i /\ i <= k /\ k \in Nat /\ i \in Nat
    OBVIOUS
  <2> QED BY <2>1
<1> QED BY <1>1

\* The same for the greatest.
LEMMA GreatestIs ==
  ASSUME NEW A \in SUBSET Nat, NEW i \in A, \A m \in A : m <= i
  PROVE  (CHOOSE k \in A : \A m \in A : m <= k) = i
<1>1. \A k \in A : (\A m \in A : m <= k) => k = i
  <2> SUFFICES ASSUME NEW k \in A, \A m \in A : m <= k PROVE k = i
    OBVIOUS
  <2>1. k <= i /\ i <= k /\ k \in Nat /\ i \in Nat
    OBVIOUS
  <2> QED BY <2>1
<1> QED BY <1>1

Outside(t, a, s, c) == \A i \in 1..Len(t) : i <= a \/ i > a + Len(s) => t[i] = c

\* What is left of a text when c is taken off both of its ends.
LEMMA TrimIs ==
  ASSUME NEW S, NEW t \in Seq(S), NEW s \in Seq(S), NEW a \in Nat, NEW c,
         Holds(t, a, s), Outside(t, a, s, c), Len(s) # 0 => s[1] # c /\ s[Len(s)] # c
  PROVE  TrimOff(t, c) = s
<1> DEFINE kept == {i \in DOMAIN t : t[i] # c}
           lo == CHOOSE i \in kept : \A k \in kept : i <= k
           hi == CHOOSE i \in kept : \A k \in kept : k <= i
<1>0. DOMAIN t = 1..Len(t) /\ Len(t) \in Nat /\ Len(s) \in Nat
  OBVIOUS
<1>1. TrimOff(t, c) = IF kept = {} THEN <<>> ELSE SubSeq(t, lo, hi)
  BY DEF TrimOff
<1>2. \A i \in kept : i \in Nat /\ a < i /\ i <= a + Len(s)
  BY <1>0 DEF Outside
<1>3. CASE Len(s) = 0
  <2>1. kept = {}
    BY <1>2, <1>3
  <2> QED BY <1>1, <1>3, <2>1, EmptySeq
<1>4. CASE Len(s) # 0
  <2> DEFINE l == a + 1
             h == a + Len(s)
  <2>1. l \in kept /\ h \in kept
    <3>1. 1 \in 1..Len(s) /\ Len(s) \in 1..Len(s) /\ l \in 1..Len(t) /\ h \in 1..Len(t)
      BY <1>0, <1>4 DEF Holds
    <3>2. t[l] = s[1] /\ t[h] = s[Len(s)]
      BY <3>1 DEF Holds
    <3> QED BY <1>0, <1>4, <3>1, <3>2
  <2>2. \A m \in kept : l <= m /\ m <= h
    BY <1>2
  <2>3. kept \in SUBSET Nat
    BY <1>2
  <2> HIDE DEF kept, l, h
  <2>4. lo = l
    BY <2>1, <2>2, <2>3, LeastIs
  <2>5. hi = h
    BY <2>1, <2>2, <2>3, GreatestIs
  <2>6. SubSeq(t, l, h) = s
    BY HeldIs DEF l, h
  <2> QED BY <1>1, <2>1, <2>4, <2>5, <2>6
<1> QED BY <1>3, <1>4

\* Nothing is taken off a text that neither begins nor ends with c.
LEMMA TrimKeeps ==
  ASSUME NEW S, NEW s \in Seq(S), NEW c, Len(s) # 0 => s[1] # c /\ s[Len(s)] # c
  PROVE  TrimOff(s, c) = s
<1>1. Holds(s, 0, s) /\ Outside(s, 0, s, c)
  BY DEF Holds, Outside
<1> QED BY <1>1, TrimIs

\* strings.Cut at the first name=.
LEMMA ParamIs ==
  ASSUME NEW S, NEW t \in Seq(S), NEW name, NEW i \in 1 .. Len(t) - 1, t[i] = name, t[i + 1] = "=",
         \A m \in 1 .. Len(t) - 1 : t[m] = name /\ t[m + 1] = "=" => i <= m
  PROVE  AfterParam(t, name) = {SubSeq(t, i + 2, Len(t))}
<1> DEFINE at == {m \in 1 .. Len(t) - 1 : t[m] = name /\ t[m + 1] = "="}
           first == {k \in at : \A m \in at : k <= m}
<1>1. at \in SUBSET Nat /\ i \in at /\ \A m \in at : i <= m
  OBVIOUS
<1>2. AfterParam(t, name) = {SubSeq(t, k + 2, Len(t)) : k \in first}
  BY DEF AfterParam
<1>3. first = {i}
  <2> HIDE DEF at
  <2> QED BY <1>1, LeastIs
<1> HIDE DEF first
<1> QED BY <1>2, <1>3

\* A parameter that is not in the text is not found.
LEMMA ParamMissing ==
  ASSUME NEW S, NEW t \in Seq(S), NEW name, \A m \in 1 .. Len(t) - 1 : t[m + 1] = "=" => t[m] # name
  PROVE  AfterParam(t, name) = {}
<1>1. {m \in 1 .. Len(t) - 1 : t[m] = name /\ t[m + 1] = "="} = {}
  OBVIOUS
<1> QED BY <1>1 DEF AfterParam

\* A text up to its first comma, or to its end.
LEMMA CommaIs ==
  ASSUME NEW S, NEW t \in Seq(S), NEW s \in Seq(S), Holds(t, 0, s), \A i \in 1..Len(s) : s[i] # Comma,
         Len(t) = Len(s) \/ t[Len(s) + 1] = Comma
  PROVE  UpToComma(t) = s
<1> DEFINE commas == {i \in DOMAIN t : t[i] = Comma}
           first == CHOOSE i \in commas : \A m \in commas : i <= m
<1>0. DOMAIN t = 1..Len(t) /\ Len(t) \in Nat /\ Len(s) \in Nat /\ Len(s) <= Len(t)
  BY DEF Holds
<1>1. UpToComma(t) = SubSeq(t, 1, IF commas = {} THEN Len(t) ELSE first - 1)
  BY DEF UpToComma
<1>2. \A i \in commas : i \in Nat /\ i > Len(s) /\ i <= Len(t)
  <2> SUFFICES ASSUME NEW i \in commas PROVE i \in Nat /\ i > Len(s) /\ i <= Len(t)
    OBVIOUS
  <2>1. i \in 1..Len(t) /\ t[i] = Comma
    BY <1>0
  <2>2. ASSUME i <= Len(s) PROVE FALSE
    <3>1. i \in 1..Len(s) /\ 0 + i = i
      BY <1>0, <2>1, <2>2
    <3>2. t[i] = s[i]
      BY <3>1 DEF Holds
    <3> QED BY <2>1, <3>1, <3>2
  <2> QED BY <1>0, <2>1, <2>2
<1>3. SubSeq(t, 1, Len(s)) = s
  <2>1. 0 + 1 = 1 /\ 0 + Len(s) = Len(s)
    BY <1>0
  <2>2. SubSeq(t, 0 + 1, 0 + Len(s)) = s
    BY HeldIs
  <2> QED BY <2>1, <2>2
<1>4. CASE Len(t) = Len(s)
  <2>1. commas = {}
    BY <1>0, <1>2, <1>4
  <2> QED BY <1>1, <1>3, <1>4, <2>1
<1>5. CASE Len(t) # Len(s)
  <2>1. Len(s) + 1 \in commas
    BY <1>0, <1>5
  <2>2. \A m \in commas : Len(s) + 1 <= m
    BY <1>0, <1>2
  <2>3. commas \in SUBSET Nat
    BY <1>2
  <2> DEFINE n == Len(s) + 1
  <2>4. n - 1 = Len(s) /\ n \in commas /\ \A m \in commas : n <= m
    BY <1>0, <2>1, <2>2
  <2> HIDE DEF commas, n
  <2>5. first = n
    BY <2>3, <2>4, LeastIs
  <2>6. commas # {}
    BY <2>4
  <2> HIDE DEF first
  <2> QED BY <1>1, <1>3, <2>4, <2>5, <2>6
<1> QED BY <1>4, <1>5

-----------------------------------------------------------------------------
(* The headers.                                                            *)

\* The words and the marks are different.
LEMMA Marks ==
  /\ Space # Comma /\ Space # Quote /\ Comma # Quote
  /\ \A x \in {Space, Comma, Quote} : x # "=" /\ x # "PrivateToken" /\ x \notin Word
  /\ \A x \in Word : x # "=" /\ x # "PrivateToken"
  BY Zenon DEF Space, Comma, Quote, Word

Symbol == Word \cup {"PrivateToken", Space, "=", Comma, Quote}
Value == Word \cup {Quote}

\* A value as it stands in a header, in quotes or not.
Quotes(v) == <<Quote>> \o v \o <<Quote>>
Wrapped(w, v) == w = v \/ w = Quotes(v)

\* A value in quotes, element by element.
LEMMA QuotesIs ==
  ASSUME NEW v \in Seq(Word)
  PROVE  /\ Quotes(v) \in Seq(Value) /\ Len(Quotes(v)) = Len(v) + 2
         /\ Quotes(v)[1] = Quote /\ Quotes(v)[Len(v) + 2] = Quote
         /\ \A i \in 1..Len(v) : Quotes(v)[1 + i] = v[i]
<1>1. v \in Seq(Value) /\ <<Quote>> \in Seq(Value)
  BY DEF Value
<1> DEFINE u == <<Quote>> \o v
<1>2. u \in Seq(Value) /\ Len(u) = 1 + Len(v) /\ u[1] = Quote /\ \A i \in 1..Len(v) : u[1 + i] = v[i]
  BY <1>1
<1> HIDE DEF u
<1>3. /\ u \o <<Quote>> \in Seq(Value) /\ Len(u \o <<Quote>>) = Len(u) + 1 /\ (u \o <<Quote>>)[Len(u) + 1] = Quote
      /\ \A i \in 1..Len(u) : (u \o <<Quote>>)[i] = u[i]
  BY <1>1, <1>2
<1>4. Len(v) \in Nat /\ 1 \in 1..Len(u) /\ Len(u) + 1 = Len(v) + 2 /\ \A i \in 1..Len(v) : 1 + i \in 1..Len(u)
  BY <1>2
<1>5. Quotes(v) = u \o <<Quote>>
  BY DEF Quotes, u
<1> QED BY <1>2, <1>3, <1>4, <1>5

\* The quotes are taken off, and a value in a header is read as it was.
LEMMA WrappedIs ==
  ASSUME NEW v \in Seq(Word), NEW w, Wrapped(w, v)
  PROVE  /\ w \in Seq(Value) /\ TrimOff(w, Space) = w /\ DecodeValue(TrimOff(w, Quote)) = {v}
<1>0. \A x \in Value : x # Space /\ x # Comma /\ x # "="
  BY Marks DEF Value
<1>1. v \in Seq(Value)
  BY DEF Value
<1>2. w \in Seq(Value)
  BY <1>1, QuotesIs DEF Wrapped
<1>3. TrimOff(w, Space) = w
  <2>1. ASSUME Len(w) # 0 PROVE w[1] # Space /\ w[Len(w)] # Space
    <3>1. 1 \in 1..Len(w) /\ Len(w) \in 1..Len(w)
      BY <1>2, <2>1
    <3>2. w[1] \in Value /\ w[Len(w)] \in Value
      BY <1>2, <3>1, ElementOfSeq
    <3> QED BY <1>0, <3>2
  <2> QED BY <1>2, <2>1, TrimKeeps
<1>4. TrimOff(w, Quote) = v
  <2>1. ASSUME Len(v) # 0 PROVE v[1] # Quote /\ v[Len(v)] # Quote
    <3>1. 1 \in 1..Len(v) /\ Len(v) \in 1..Len(v)
      BY <2>1
    <3>2. v[1] \in Word /\ v[Len(v)] \in Word
      BY <3>1, ElementOfSeq
    <3> QED BY <3>2, Marks
  <2>2. CASE w = v
    BY <1>1, <2>1, <2>2, TrimKeeps
  <2>3. CASE w = Quotes(v)
    <3>1. /\ Len(w) = Len(v) + 2 /\ w[1] = Quote /\ w[Len(v) + 2] = Quote /\ Len(v) \in Nat
          /\ \A i \in 1..Len(v) : w[1 + i] = v[i]
      BY <2>3, QuotesIs
    <3>2. Holds(w, 1, v)
      BY <3>1 DEF Holds
    <3>3. Outside(w, 1, v, Quote)
      <4> SUFFICES ASSUME NEW i \in 1..Len(w), i <= 1 \/ i > 1 + Len(v) PROVE w[i] = Quote
        BY DEF Outside
      <4>1. i = 1 \/ i = Len(v) + 2
        BY <3>1
      <4> QED BY <3>1, <4>1
    <3> QED BY <1>1, <1>2, <2>1, <3>2, <3>3, TrimIs
  <2> QED BY <2>2, <2>3 DEF Wrapped
<1>5. \A i \in DOMAIN v : v[i] \in Word
  OBVIOUS
<1> QED BY <1>2, <1>3, <1>4, <1>5 DEF DecodeValue

\* The header of two parameters.
Params(n1, v1, n2, v2) ==
    <<"PrivateToken", Space, n1, "=">> \o v1 \o <<Comma, Space, n2, "=">> \o v2

\* What stands where after the name of the scheme.
IsParams(t, n1, v1, n2, v2) ==
    /\ Len(t) = 7 + Len(v1) + Len(v2)
    /\ t[1] = Space /\ t[2] = n1 /\ t[3] = "=" /\ Holds(t, 3, v1)
    /\ t[Len(v1) + 4] = Comma /\ t[Len(v1) + 5] = Space /\ t[Len(v1) + 6] = n2 /\ t[Len(v1) + 7] = "="
    /\ Holds(t, Len(v1) + 7, v2)

\* A concatenation, element by element.
LEMMA ConcatIs ==
  ASSUME NEW S, NEW s \in Seq(S), NEW t \in Seq(S)
  PROVE  /\ s \o t \in Seq(S) /\ Len(s \o t) = Len(s) + Len(t)
         /\ \A i \in 1..Len(s) : (s \o t)[i] = s[i]
         /\ \A i \in 1..Len(t) : (s \o t)[Len(s) + i] = t[i]
  OBVIOUS

\* A tail, element by element.
LEMMA TailIs ==
  ASSUME NEW S, NEW s \in Seq(S), Len(s) # 0
  PROVE  Tail(s) \in Seq(S) /\ Len(Tail(s)) = Len(s) - 1 /\ \A i \in 1 .. Len(s) - 1 : Tail(s)[i] = s[i + 1]
  OBVIOUS

\* The scheme is found in a header that does not end in a space.
LEMMA SchemeIs ==
  ASSUME NEW h \in Seq(Symbol), Len(h) # 0, h[1] = "PrivateToken", h[Len(h)] # Space
  PROVE  AfterScheme(h) = {Tail(h)}
<1>1. h[1] # Space
  BY Marks
<1>2. TrimOff(h, Space) = h
  BY <1>1, TrimKeeps
<1>3. Head(h) = "PrivateToken" /\ h # <<>>
  OBVIOUS
<1> QED BY <1>2, <1>3 DEF AfterScheme

\* The scheme is read off a header of two parameters and they stand after it.
LEMMA ParamsIs ==
  ASSUME NEW n1 \in Word, NEW n2 \in Word, NEW v1 \in Seq(Value), NEW v2 \in Seq(Value),
         NEW h, h = Params(n1, v1, n2, v2)
  PROVE  AfterScheme(h) = {Tail(h)} /\ Tail(h) \in Seq(Symbol) /\ IsParams(Tail(h), n1, v1, n2, v2)
<1> DEFINE x == <<"PrivateToken", Space, n1, "=">>
           y == <<Comma, Space, n2, "=">>
           a == Len(v1)
           b == Len(v2)
           g == x \o v1
           k == g \o y
<1>1. /\ x \in Seq(Symbol) /\ y \in Seq(Symbol) /\ Len(x) = 4 /\ Len(y) = 4 /\ a \in Nat /\ b \in Nat
      /\ x[1] = "PrivateToken" /\ x[2] = Space /\ x[3] = n1 /\ x[4] = "="
      /\ y[1] = Comma /\ y[2] = Space /\ y[3] = n2 /\ y[4] = "="
  BY DEF Symbol
<1>2. v1 \in Seq(Symbol) /\ v2 \in Seq(Symbol)
  BY DEF Symbol, Value
<1>3. h = k \o v2
  BY DEF Params
<1> HIDE DEF x, y
<1>4. /\ g \in Seq(Symbol) /\ Len(g) = Len(x) + a
      /\ (\A i \in 1..Len(x) : g[i] = x[i]) /\ \A i \in 1..a : g[Len(x) + i] = v1[i]
  <2>1. x \in Seq(Symbol) /\ v1 \in Seq(Symbol)
    BY <1>1, <1>2
  <2> QED BY <2>1, ConcatIs
<1> HIDE DEF g
<1>5. /\ k \in Seq(Symbol) /\ Len(k) = Len(g) + Len(y)
      /\ (\A i \in 1..Len(g) : k[i] = g[i]) /\ \A i \in 1..Len(y) : k[Len(g) + i] = y[i]
  <2>1. g \in Seq(Symbol) /\ y \in Seq(Symbol)
    BY <1>1, <1>4
  <2> QED BY <2>1, ConcatIs
<1> HIDE DEF k
<1>6. /\ h \in Seq(Symbol) /\ Len(h) = Len(k) + b
      /\ (\A i \in 1..Len(k) : h[i] = k[i]) /\ \A i \in 1..b : h[Len(k) + i] = v2[i]
  <2>1. k \in Seq(Symbol) /\ v2 \in Seq(Symbol)
    BY <1>2, <1>5
  <2>2. /\ k \o v2 \in Seq(Symbol) /\ Len(k \o v2) = Len(k) + b
        /\ (\A i \in 1..Len(k) : (k \o v2)[i] = k[i]) /\ \A i \in 1..b : (k \o v2)[Len(k) + i] = v2[i]
    BY <2>1, ConcatIs
  <2> QED BY <1>3, <2>2
<1> HIDE DEF a, b
<1>7. Len(g) = a + 4 /\ Len(k) = a + 8 /\ Len(h) = a + 8 + b
  BY <1>1, <1>4, <1>5, <1>6
<1>8. h[1] = "PrivateToken" /\ h[2] = Space /\ h[3] = n1 /\ h[4] = "="
  <2>1. \A i \in {1, 2, 3, 4} : i \in 1..Len(x) /\ i \in 1..Len(g) /\ i \in 1..Len(k)
    BY <1>1, <1>7
  <2> QED BY <1>1, <1>4, <1>5, <1>6, <2>1
<1>9. \A i \in 1..a : h[4 + i] = v1[i]
  <2> TAKE i \in 1..a
  <2>1. 4 + i \in 1..Len(g) /\ 4 + i \in 1..Len(k)
    BY <1>1, <1>7
  <2>2. h[4 + i] = g[4 + i]
    BY <1>5, <1>6, <2>1
  <2> QED BY <1>1, <1>4, <2>2
<1>10. h[a + 5] = Comma /\ h[a + 6] = Space /\ h[a + 7] = n2 /\ h[a + 8] = "="
  <2>1. \A i \in {1, 2, 3, 4} : i \in 1..Len(y) /\ Len(g) + i \in 1..Len(k)
    BY <1>1, <1>7
  <2>2. \A i \in {1, 2, 3, 4} : h[Len(g) + i] = y[i]
    BY <1>5, <1>6, <2>1
  <2>3. a + 5 = Len(g) + 1 /\ a + 6 = Len(g) + 2 /\ a + 7 = Len(g) + 3 /\ a + 8 = Len(g) + 4
    BY <1>1, <1>7
  <2> QED BY <1>1, <2>2, <2>3
<1>11. \A i \in 1..b : h[(a + 8) + i] = v2[i]
  BY <1>6, <1>7
<1>12. h[Len(h)] # Space
  <2>1. CASE b = 0
    <3>1. Len(h) = a + 8
      BY <1>1, <1>7, <2>1
    <3> QED BY <1>10, <3>1, Marks
  <2>2. CASE b # 0
    <3>1. b \in 1..b /\ Len(h) = (a + 8) + b
      BY <1>1, <1>7, <2>2
    <3>2. h[Len(h)] = v2[b]
      BY <1>11, <3>1
    <3>3. v2[b] \in Value
      BY <3>1, ElementOfSeq DEF b
    <3> QED BY <3>2, <3>3, Marks DEF Value
  <2> QED BY <2>1, <2>2
<1>13. Len(h) # 0 /\ Len(h) \in Nat
  BY <1>1, <1>7
<1>14. AfterScheme(h) = {Tail(h)}
  BY <1>6, <1>8, <1>12, <1>13, SchemeIs
<1> DEFINE t == Tail(h)
<1>15. t \in Seq(Symbol) /\ Len(t) = a + 7 + b /\ \A i \in 1 .. a + 7 + b : t[i] = h[i + 1]
  <2>1. Len(h) - 1 = a + 7 + b
    BY <1>1, <1>7
  <2> QED BY <1>6, <1>13, <2>1, TailIs
<1> HIDE DEF t
<1>16. t[1] = Space /\ t[2] = n1 /\ t[3] = "="
  <2>1. \A i \in {1, 2, 3} : i \in 1 .. a + 7 + b
    BY <1>1
  <2>2. t[1] = h[1 + 1] /\ t[2] = h[2 + 1] /\ t[3] = h[3 + 1]
    BY <1>15, <2>1
  <2> QED BY <1>8, <2>2
<1>17. Holds(t, 3, v1)
  <2>1. \A i \in 1..a : 3 + i \in 1 .. a + 7 + b /\ (3 + i) + 1 = 4 + i
    BY <1>1
  <2>2. 3 + a <= Len(t)
    BY <1>1, <1>15
  <2>3. \A i \in 1..a : t[3 + i] = v1[i]
    BY <1>9, <1>15, <2>1
  <2> QED BY <2>2, <2>3 DEF Holds, a
<1>18. t[a + 4] = Comma /\ t[a + 5] = Space /\ t[a + 6] = n2 /\ t[a + 7] = "="
  <2>1. \A i \in {4, 5, 6, 7} : a + i \in 1 .. a + 7 + b
    BY <1>1
  <2>2. (a + 4) + 1 = a + 5 /\ (a + 5) + 1 = a + 6 /\ (a + 6) + 1 = a + 7 /\ (a + 7) + 1 = a + 8
    BY <1>1
  <2>3. t[a + 4] = h[(a + 4) + 1] /\ t[a + 5] = h[(a + 5) + 1] /\ t[a + 6] = h[(a + 6) + 1] /\ t[a + 7] = h[(a + 7) + 1]
    BY <1>15, <2>1
  <2> QED BY <1>10, <2>2, <2>3
<1>19. Holds(t, a + 7, v2)
  <2>1. \A i \in 1..b : (a + 7) + i \in 1 .. a + 7 + b /\ ((a + 7) + i) + 1 = (a + 8) + i
    BY <1>1
  <2>2. (a + 7) + b <= Len(t)
    BY <1>1, <1>15
  <2>3. \A i \in 1..b : t[(a + 7) + i] = v2[i]
    BY <1>11, <1>15, <2>1
  <2> QED BY <2>2, <2>3 DEF Holds, b
<1>20. Len(t) = 7 + a + b
  BY <1>1, <1>15
<1>21. IsParams(t, n1, v1, n2, v2)
  BY <1>16, <1>17, <1>18, <1>19, <1>20 DEF IsParams, a, b
<1> QED BY <1>14, <1>15, <1>21 DEF t

\* The only "=" are the two after the names.
LEMMA EqualsIs ==
  ASSUME NEW n1 \in Word, NEW n2 \in Word, NEW v1 \in Seq(Value), NEW v2 \in Seq(Value),
         NEW t \in Seq(Symbol), IsParams(t, n1, v1, n2, v2), NEW j \in 1..Len(t), t[j] = "="
  PROVE  j = 3 \/ j = Len(v1) + 7
<1> DEFINE a == Len(v1)
           b == Len(v2)
<1>0. a \in Nat /\ b \in Nat /\ Len(t) = 7 + a + b
  BY DEF IsParams
<1>1. \A x \in Value : x # "="
  BY Marks DEF Value
<1>2. t[1] # "=" /\ t[2] # "=" /\ t[a + 4] # "=" /\ t[a + 5] # "=" /\ t[a + 6] # "="
  BY Marks DEF IsParams
<1>3. \A i \in 1..a : t[3 + i] # "="
  BY <1>1, ElementOfSeq DEF IsParams, Holds
<1>4. \A i \in 1..b : t[(a + 7) + i] # "="
  BY <1>1, ElementOfSeq DEF IsParams, Holds
<1> HIDE DEF a, b
<1>5. \/ j = 1 \/ j = 2 \/ j = 3 \/ (j - 3 \in 1..a /\ 3 + (j - 3) = j)
      \/ j = a + 4 \/ j = a + 5 \/ j = a + 6 \/ j = a + 7
      \/ (j - (a + 7) \in 1..b /\ (a + 7) + (j - (a + 7)) = j)
  BY <1>0
<1>6. ~(j - 3 \in 1..a /\ 3 + (j - 3) = j)
  BY <1>3
<1>7. ~(j - (a + 7) \in 1..b /\ (a + 7) + (j - (a + 7)) = j)
  BY <1>4
<1> QED BY <1>2, <1>5, <1>6, <1>7 DEF a

\* Both parameters are found, and no other.
LEMMA ParamsRead ==
  ASSUME NEW n1 \in Word, NEW n2 \in Word, n1 # n2, NEW v1 \in Seq(Value), NEW v2 \in Seq(Value),
         NEW t \in Seq(Symbol), IsParams(t, n1, v1, n2, v2)
  PROVE  /\ \E s : AfterParam(t, n1) = {s} /\ UpToComma(s) = v1
         /\ AfterParam(t, n2) = {v2} /\ UpToComma(v2) = v2
         /\ \A name : name # n1 /\ name # n2 => AfterParam(t, name) = {}
<1> DEFINE a == Len(v1)
           b == Len(v2)
<1>0. a \in Nat /\ b \in Nat /\ Len(t) = 7 + a + b
  BY DEF IsParams
<1>1. v1 \in Seq(Symbol) /\ v2 \in Seq(Symbol)
  BY DEF Symbol, Value
<1>2. (\A i \in 1..a : v1[i] # Comma) /\ \A i \in 1..b : v2[i] # Comma
  <2>1. \A x \in Value : x # Comma
    BY Marks DEF Value
  <2> QED BY <2>1, ElementOfSeq
<1>3. \A m \in 1 .. Len(t) - 1 : t[m + 1] = "=" => m = 2 \/ m = a + 6
  <2> SUFFICES ASSUME NEW m \in 1 .. Len(t) - 1, t[m + 1] = "=" PROVE m = 2 \/ m = a + 6
    OBVIOUS
  <2>1. m + 1 \in 1..Len(t) /\ m \in Nat
    BY <1>0
  <2>2. m + 1 = 3 \/ m + 1 = Len(v1) + 7
    BY <2>1, EqualsIs
  <2> QED BY <1>0, <2>1, <2>2
<1>4. t[2] = n1 /\ t[a + 6] = n2 /\ t[3] = "=" /\ t[a + 7] = "=" /\ t[a + 4] = Comma
  BY DEF IsParams
<1>5. Holds(t, 3, v1) /\ Holds(t, a + 7, v2)
  BY DEF IsParams
<1> HIDE DEF a, b
<1>6. AfterParam(t, n1) = {SubSeq(t, 4, Len(t))}
  <2>1. 2 \in 1 .. Len(t) - 1 /\ 2 + 1 = 3 /\ 2 + 2 = 4
    BY <1>0
  <2>2. \A m \in 1 .. Len(t) - 1 : t[m] = n1 /\ t[m + 1] = "=" => 2 <= m
    BY <1>0, <1>3
  <2>3. t[2 + 1] = "="
    BY <1>4, <2>1
  <2>4. AfterParam(t, n1) = {SubSeq(t, 2 + 2, Len(t))}
    BY <1>4, <2>1, <2>2, <2>3, ParamIs
  <2> QED BY <2>1, <2>4
<1>7. AfterParam(t, n2) = {v2}
  <2> DEFINE i == a + 6
  <2>1. i \in 1 .. Len(t) - 1 /\ i + 1 = a + 7 /\ i + 2 = (a + 7) + 1 /\ Len(t) = (a + 7) + b /\ a + 7 \in Nat
    BY <1>0
  <2>2. \A m \in 1 .. Len(t) - 1 : t[m] = n2 /\ t[m + 1] = "=" => i <= m
    BY <1>0, <1>3, <1>4
  <2>3. t[i] = n2 /\ t[i + 1] = "="
    BY <1>4, <2>1
  <2> HIDE DEF i
  <2>4. AfterParam(t, n2) = {SubSeq(t, i + 2, Len(t))}
    BY <2>1, <2>2, <2>3, ParamIs
  <2> DEFINE c == a + 7
  <2>5. c \in Nat /\ Holds(t, c, v2) /\ i + 2 = c + 1 /\ Len(t) = c + b
    BY <1>5, <2>1
  <2> HIDE DEF c
  <2>6. SubSeq(t, c + 1, c + Len(v2)) = v2
    BY <1>1, <2>5, HeldIs
  <2> QED BY <2>4, <2>5, <2>6 DEF b
<1>8. UpToComma(v2) = v2
  <2>1. Holds(v2, 0, v2)
    BY DEF Holds
  <2> QED BY <1>1, <1>2, <2>1, CommaIs DEF b
<1>9. UpToComma(SubSeq(t, 4, Len(t))) = v1
  <2> DEFINE n == Len(t)
             s == SubSeq(t, 4, n)
  <2>1. 4 \in Nat \ {0} /\ n \in Nat /\ 4 - 1 <= n /\ n <= Len(t) /\ n - (4 - 1) = 4 + a + b /\ 4 - 1 = 3
    BY <1>0
  <2>2. s \in Seq(Symbol) /\ Len(s) = 4 + a + b /\ \A i \in 1 .. 4 + a + b : s[i] = t[i + 3]
    <3> HIDE DEF n
    <3> QED BY <2>1, SubSeqIs
  <2> HIDE DEF s
  <2>3. Holds(s, 0, v1)
    <3>1. \A i \in 1..a : i \in 1 .. 4 + a + b /\ i + 3 = 3 + i /\ 0 + i = i
      BY <1>0
    <3>2. \A i \in 1..a : t[3 + i] = v1[i]
      BY <1>5 DEF Holds, a
    <3>3. \A i \in 1..a : s[0 + i] = v1[i]
      BY <2>2, <3>1, <3>2
    <3>4. 0 + a <= Len(s)
      BY <1>0, <2>2
    <3> QED BY <3>3, <3>4 DEF Holds, a
  <2>4. s[a + 1] = Comma
    <3>1. a + 1 \in 1 .. 4 + a + b /\ (a + 1) + 3 = a + 4
      BY <1>0
    <3> QED BY <1>4, <2>2, <3>1
  <2>5. UpToComma(s) = v1
    BY <1>1, <1>2, <2>2, <2>3, <2>4, CommaIs DEF a
  <2> QED BY <2>5 DEF s
<1>10. ASSUME NEW name, name # n1, name # n2 PROVE AfterParam(t, name) = {}
  <2>1. \A m \in 1 .. Len(t) - 1 : t[m + 1] = "=" => t[m] # name
    BY <1>3, <1>4, <1>10
  <2> QED BY <2>1, ParamMissing
<1> QED BY <1>6, <1>7, <1>8, <1>9, <1>10

\* The challenge and the key are read from a header of both, in either order,
\* and no token is.
LEMMA WWWReads ==
  ASSUME NEW n1 \in Word, NEW n2 \in Word, NEW c \in Seq(Word), NEW k \in Seq(Word), NEW v1, NEW v2,
         (n1 = "challenge" /\ n2 = "token-key") \/ (n1 = "token-key" /\ n2 = "challenge"),
         n1 = "challenge" => Wrapped(v1, c) /\ Wrapped(v2, k), n1 = "token-key" => Wrapped(v1, k) /\ Wrapped(v2, c)
  PROVE  /\ ParseWWWAuthenticate(Params(n1, v1, n2, v2)) = {<<c, k>>}
         /\ ParseAuthorization(Params(n1, v1, n2, v2)) = {}
<1> DEFINE h == Params(n1, v1, n2, v2)
           t == Tail(h)
           get(name) == UNION {DecodeValue(TrimOff(TrimOff(UpToComma(s), Space), Quote)) : s \in AfterParam(t, name)}
<1>1. n1 # n2 /\ ((n1 = "challenge" /\ n2 = "token-key") \/ (n1 = "token-key" /\ n2 = "challenge"))
  OBVIOUS
<1>2. PICK w1 \in Seq(Word), w2 \in Seq(Word) :
         /\ Wrapped(v1, w1) /\ Wrapped(v2, w2)
         /\ (n1 = "challenge" => w1 = c /\ w2 = k) /\ (n1 = "token-key" => w1 = k /\ w2 = c)
  BY <1>1
<1>3. /\ v1 \in Seq(Value) /\ TrimOff(v1, Space) = v1 /\ DecodeValue(TrimOff(v1, Quote)) = {w1}
      /\ v2 \in Seq(Value) /\ TrimOff(v2, Space) = v2 /\ DecodeValue(TrimOff(v2, Quote)) = {w2}
  BY <1>2, WrappedIs
<1>4. AfterScheme(h) = {t} /\ t \in Seq(Symbol) /\ IsParams(t, n1, v1, n2, v2)
  BY <1>3, ParamsIs
<1> HIDE DEF t, h
<1>5. PICK s : AfterParam(t, n1) = {s} /\ UpToComma(s) = v1
  BY <1>1, <1>3, <1>4, ParamsRead
<1>6. /\ AfterParam(t, n2) = {v2} /\ UpToComma(v2) = v2
      /\ \A name : name # n1 /\ name # n2 => AfterParam(t, name) = {}
  BY <1>1, <1>3, <1>4, ParamsRead
<1>7. get(n1) = {w1} /\ get(n2) = {w2}
  BY <1>3, <1>5, <1>6
<1>8. get("challenge") = {c} /\ get("token-key") = {k}
  BY <1>1, <1>2, <1>7
<1>9. ParseWWWAuthenticate(h) = UNION {get("challenge") \X get("token-key") : r \in {t}}
  BY <1>4 DEF ParseWWWAuthenticate
<1> HIDE DEF get
<1>10. ParseWWWAuthenticate(h) = {<<c, k>>}
  BY <1>8, <1>9
<1>11. AfterParam(t, "token") = {}
  BY <1>1, <1>6
<1>12. ParseAuthorization(h) = {}
  BY <1>4, <1>11 DEF ParseAuthorization
<1> QED BY <1>10, <1>12 DEF h

\* The token is read from its header, with or without a comma after it.
LEMMA TokenReads ==
  ASSUME NEW c \in Seq(Word), NEW w, Wrapped(w, c)
  PROVE  ParseAuthorization(Authorization(w) \o <<Comma, Space>>) = {c}
<1> DEFINE x == <<"PrivateToken", Space, "token", "=">>
           b == Len(w)
           g == x \o w
           h == g \o <<Comma, Space>>
           k == g \o <<Comma>>
           t == Tail(k)
           v == w \o <<Comma>>
<1>1. w \in Seq(Value) /\ DecodeValue(TrimOff(w, Quote)) = {c} /\ b \in Nat
  BY WrappedIs
<1>2. /\ x \in Seq(Symbol) /\ Len(x) = 4 /\ x[1] = "PrivateToken" /\ x[2] = Space /\ x[3] = "token" /\ x[4] = "="
      /\ <<Comma, Space>> \in Seq(Symbol) /\ <<Comma>> \in Seq(Symbol)
  BY DEF Symbol, Word
<1>3. w \in Seq(Symbol)
  BY <1>1 DEF Symbol, Value
<1>4. Authorization(w) \o <<Comma, Space>> = h
  BY DEF Authorization
<1> HIDE DEF x
<1>5. /\ g \in Seq(Symbol) /\ Len(g) = Len(x) + b
      /\ (\A i \in 1..Len(x) : g[i] = x[i]) /\ \A i \in 1..b : g[Len(x) + i] = w[i]
  <2>1. x \in Seq(Symbol)
    BY <1>2
  <2> QED BY <1>3, <2>1, ConcatIs
<1> HIDE DEF g, b
<1>6. g[1] = "PrivateToken" /\ g[2] = Space /\ g[3] = "token" /\ g[4] = "=" /\ Len(g) = 4 + b /\ \A i \in 1..b : g[4 + i] = w[i]
  <2>1. \A i \in {1, 2, 3, 4} : i \in 1..Len(x)
    BY <1>2
  <2> QED BY <1>2, <1>5, <2>1
<1>7. /\ h \in Seq(Symbol) /\ Len(h) = Len(g) + 2
      /\ (\A i \in 1..Len(g) : h[i] = g[i]) /\ h[Len(g) + 1] = Comma /\ h[Len(g) + 2] = Space
  <2>1. g \in Seq(Symbol) /\ <<Comma, Space>> \in Seq(Symbol)
    BY <1>2, <1>5
  <2> QED BY <2>1
<1>8. /\ k \in Seq(Symbol) /\ Len(k) = Len(g) + 1
      /\ (\A i \in 1..Len(g) : k[i] = g[i]) /\ k[Len(g) + 1] = Comma
  <2>1. g \in Seq(Symbol) /\ <<Comma>> \in Seq(Symbol)
    BY <1>2, <1>5
  <2> QED BY <2>1
<1>9. /\ v \in Seq(Symbol) /\ Len(v) = b + 1 /\ (\A i \in 1..b : v[i] = w[i]) /\ v[b + 1] = Comma
  BY <1>2, <1>3 DEF b
<1> HIDE DEF h, k, v
<1>10. TrimOff(h, Space) = k
  <2>1. Holds(h, 0, k)
    <3>1. 0 + Len(k) <= Len(h)
      BY <1>1, <1>6, <1>7, <1>8
    <3>2. \A i \in 1..Len(k) : 0 + i = i /\ (i \in 1..Len(g) \/ i = Len(g) + 1)
      BY <1>1, <1>6, <1>8
    <3>3. \A i \in 1..Len(k) : h[0 + i] = k[i]
      BY <1>7, <1>8, <3>2
    <3> QED BY <3>1, <3>3 DEF Holds
  <2>2. Outside(h, 0, k, Space)
    <3>1. \A i \in 1..Len(h) : i <= 0 \/ i > 0 + Len(k) => i = Len(g) + 2
      BY <1>1, <1>6, <1>7, <1>8
    <3> QED BY <1>7, <3>1 DEF Outside
  <2>3. 1 \in 1..Len(g) /\ Len(k) = Len(g) + 1
    BY <1>1, <1>6, <1>8
  <2>4. k[1] # Space /\ k[Len(k)] # Space
    BY <1>6, <1>8, <2>3, Marks
  <2> QED BY <1>7, <1>8, <2>1, <2>2, <2>4, TrimIs
<1>11. AfterScheme(h) = {t}
  <2>1. 1 \in 1..Len(g) /\ Len(k) # 0
    BY <1>1, <1>6, <1>8
  <2>2. k[1] = "PrivateToken"
    BY <1>6, <1>8, <2>1
  <2>3. Head(k) = "PrivateToken" /\ k # <<>>
    BY <1>8, <2>1, <2>2
  <2> QED BY <1>10, <2>3 DEF AfterScheme
<1>12. t \in Seq(Symbol) /\ Len(t) = 4 + b /\ \A i \in 1 .. 4 + b : t[i] = k[i + 1]
  <2>1. Len(k) # 0 /\ Len(k) - 1 = 4 + b
    BY <1>1, <1>6, <1>8
  <2> QED BY <1>8, <2>1, TailIs
<1> HIDE DEF t
<1>13. t[2] = "token" /\ t[3] = "=" /\ t[1] # "token"
  <2>1. \A i \in {1, 2, 3} : i \in 1 .. 4 + b /\ i + 1 \in 1..Len(g)
    BY <1>1, <1>6
  <2>2. t[1] = g[1 + 1] /\ t[2] = g[2 + 1] /\ t[3] = g[3 + 1]
    BY <1>8, <1>12, <2>1
  <2>3. Space # "token"
    BY Marks DEF Word
  <2> QED BY <1>6, <2>2, <2>3
<1>14. AfterParam(t, "token") = {SubSeq(t, 4, Len(t))}
  <2>1. 2 \in 1 .. Len(t) - 1 /\ 2 + 1 = 3 /\ 2 + 2 = 4
    BY <1>1, <1>12
  <2>2. \A m \in 1 .. Len(t) - 1 : t[m] = "token" /\ t[m + 1] = "=" => 2 <= m
    <3> SUFFICES ASSUME NEW m \in 1 .. Len(t) - 1, t[m] = "token" PROVE 2 <= m
      OBVIOUS
    <3>1. m # 1 /\ m \in Nat /\ m >= 1
      BY <1>1, <1>12, <1>13
    <3> QED BY <3>1
  <2>3. t[2 + 1] = "="
    BY <1>13, <2>1
  <2>4. AfterParam(t, "token") = {SubSeq(t, 2 + 2, Len(t))}
    BY <1>12, <1>13, <2>1, <2>2, <2>3, ParamIs
  <2> QED BY <2>1, <2>4
<1>15. SubSeq(t, 4, Len(t)) = v
  <2>1. Holds(t, 3, v)
    <3>1. 3 + Len(v) <= Len(t)
      BY <1>1, <1>9, <1>12
    <3>2. \A i \in 1..Len(v) : /\ 3 + i \in 1 .. 4 + b /\ (3 + i) + 1 = 4 + i
                               /\ (i \in 1..b /\ 4 + i \in 1..Len(g)) \/ (i = b + 1 /\ 4 + i = Len(g) + 1)
      BY <1>1, <1>6, <1>9
    <3>3. \A i \in 1..Len(v) : k[4 + i] = v[i]
      BY <1>6, <1>8, <1>9, <3>2
    <3>4. \A i \in 1..Len(v) : t[3 + i] = v[i]
      BY <1>12, <3>2, <3>3
    <3> QED BY <3>1, <3>4 DEF Holds
  <2>2. 3 + 1 = 4 /\ 3 + Len(v) = Len(t)
    BY <1>1, <1>9, <1>12
  <2>3. SubSeq(t, 3 + 1, 3 + Len(v)) = v
    BY <1>9, <1>12, <2>1, HeldIs
  <2> QED BY <2>2, <2>3
<1>16. TrimOff(v, Space) = v
  <2>1. v[1] # Space /\ v[Len(v)] # Space
    <3>1. v[Len(v)] # Space
      BY <1>9, Marks
    <3>2. CASE b = 0
      BY <1>9, <3>1, <3>2
    <3>3. CASE b # 0
      <4>1. 1 \in 1..b
        BY <1>1, <3>3
      <4>2. v[1] = w[1] /\ w[1] \in Value
        BY <1>1, <1>9, <4>1, ElementOfSeq DEF b
      <4> QED BY <3>1, <4>2, Marks DEF Value
    <3> QED BY <3>2, <3>3
  <2> QED BY <1>9, <2>1, TrimKeeps
<1>17. v # <<>> /\ Last(v) = Comma /\ Front(v) = w
  <2>1. v # <<>> /\ Len(v) - 1 = b /\ Len(v) = b + 1
    BY <1>1, <1>9
  <2>2. Last(v) = Comma
    BY <1>9, <2>1 DEF Last
  <2>3. Holds(v, 0, w)
    <3>1. 0 + b <= Len(v) /\ \A i \in 1..b : 0 + i = i
      BY <1>1, <1>9
    <3> QED BY <1>9, <3>1 DEF Holds, b
  <2>4. SubSeq(v, 0 + 1, 0 + Len(w)) = w
    BY <1>3, <1>9, <2>3, HeldIs
  <2>5. 0 + 1 = 1 /\ 0 + Len(w) = Len(v) - 1
    BY <1>1, <2>1 DEF b
  <2>6. Front(v) = w
    BY <2>4, <2>5 DEF Front
  <2> QED BY <2>1, <2>2, <2>6
<1>18. ParseAuthorization(h) = {c}
  <2> DEFINE read(s) == LET z == TrimOff(s, Space) IN
                        DecodeValue(TrimOff(IF z # <<>> /\ Last(z) = Comma THEN Front(z) ELSE z, Quote))
  <2>1. read(v) = {c}
    BY <1>1, <1>16, <1>17
  <2>2. ParseAuthorization(h) = UNION {UNION {read(s) : s \in AfterParam(r, "token")} : r \in {t}}
    BY <1>11 DEF ParseAuthorization
  <2>3. AfterParam(t, "token") = {v}
    BY <1>14, <1>15
  <2> HIDE DEF read
  <2> QED BY <2>1, <2>2, <2>3
<1> QED BY <1>4, <1>18

HeaderDoc == [c : Seq(Word), k : Seq(Word), layout : {"plain", "quoted", "swapped"}]

\* Every layout of the headers is read as it was written.
LEMMA HeadersRead ==
  ASSUME NEW d \in HeaderDoc
  PROVE  /\ ParseWWWAuthenticate(HeaderOf(d).www) = {<<d.c, d.k>>}
         /\ ParseAuthorization(HeaderOf(d).authorization) = {d.c}
         /\ ParseAuthorization(HeaderOf(d).www) = {}
<1> DEFINE c == d.c
           k == d.k
           u == IF d.layout = "quoted" THEN Quotes(c) ELSE c
           v == IF d.layout = "quoted" THEN Quotes(k) ELSE k
<1>1. c \in Seq(Word) /\ k \in Seq(Word) /\ d.layout \in {"plain", "quoted", "swapped"}
  BY DEF HeaderDoc
<1>2. /\ HeaderOf(d).www = IF d.layout = "swapped" THEN Params("token-key", k, "challenge", c)
                          ELSE Params("challenge", u, "token-key", v)
      /\ HeaderOf(d).authorization = Authorization(u) \o <<Comma, Space>>
  BY DEF HeaderOf, Params, WWWAuthenticate, Quotes
<1>3. Wrapped(u, c) /\ Wrapped(v, k) /\ Wrapped(c, c) /\ Wrapped(k, k)
  BY DEF Wrapped
<1>4. "challenge" \in Word /\ "token-key" \in Word
  BY DEF Word
<1> HIDE DEF u, v, c, k
<1>5. /\ ParseWWWAuthenticate(Params("token-key", k, "challenge", c)) = {<<c, k>>}
      /\ ParseAuthorization(Params("token-key", k, "challenge", c)) = {}
  BY <1>1, <1>3, <1>4, WWWReads
<1>6. /\ ParseWWWAuthenticate(Params("challenge", u, "token-key", v)) = {<<c, k>>}
      /\ ParseAuthorization(Params("challenge", u, "token-key", v)) = {}
  BY <1>1, <1>3, <1>4, WWWReads
<1>7. ParseAuthorization(Authorization(u) \o <<Comma, Space>>) = {c}
  BY <1>1, <1>3, TokenReads
<1> QED BY <1>2, <1>5, <1>6, <1>7 DEF c, k

-----------------------------------------------------------------------------
(* Prefixes and suffixes.                                                  *)

\* A prefix stands at the start.
LEMMA PrefixIs ==
  ASSUME NEW S, NEW s \in Seq(S), NEW t \in Seq(S)
  PROVE  IsPrefix(s, t) <=> Holds(t, 0, s)
<1>0. Len(s) \in Nat /\ Len(t) \in Nat /\ 0 + Len(s) = Len(s) /\ 0 + 1 = 1 /\ SubSeq(s, 1, Len(s)) = s
  OBVIOUS
<1>1. ASSUME Holds(t, 0, s) PROVE IsPrefix(s, t)
  <2>1. SubSeq(t, 0 + 1, 0 + Len(s)) = s
    BY <1>1, HeldIs
  <2>2. Len(s) <= Len(t)
    BY <1>0, <1>1 DEF Holds
  <2> QED BY <1>0, <2>1, <2>2 DEF IsPrefix
<1>2. ASSUME IsPrefix(s, t) PROVE Holds(t, 0, s)
  <2>1. Len(s) <= Len(t) /\ SubSeq(t, 1, Len(s)) = s
    BY <1>0, <1>2 DEF IsPrefix
  <2>2. \A i \in 1..Len(s) : SubSeq(t, 1, Len(s))[i] = t[0 + i]
    BY <1>0, <2>1
  <2> QED BY <1>0, <2>1, <2>2 DEF Holds
<1> QED BY <1>1, <1>2

\* A reversed sequence, element by element.
LEMMA ReverseIs ==
  ASSUME NEW S, NEW s \in Seq(S)
  PROVE  Reverse(s) \in Seq(S) /\ Len(Reverse(s)) = Len(s) /\ \A i \in 1..Len(s) : Reverse(s)[i] = s[(Len(s) - i) + 1]
<1>0. Len(s) \in Nat /\ \A i \in 1..Len(s) : (Len(s) - i) + 1 \in 1..Len(s)
  OBVIOUS
<1>1. \A i \in 1..Len(s) : s[(Len(s) - i) + 1] \in S
  BY <1>0, ElementOfSeq
<1>2. Reverse(s) = [i \in 1..Len(s) |-> s[(Len(s) - i) + 1]]
  BY DEF Reverse
<1>3. [i \in 1..Len(s) |-> s[(Len(s) - i) + 1]] \in Seq(S)
  BY <1>0, <1>1
<1> QED BY <1>0, <1>2, <1>3

\* A suffix stands at the end.
LEMMA SuffixIs ==
  ASSUME NEW S, NEW s \in Seq(S), NEW t \in Seq(S)
  PROVE  IsSuffix(s, t) <=> Len(s) <= Len(t) /\ \A i \in 1..Len(s) : t[(Len(t) - Len(s)) + i] = s[i]
<1> DEFINE a == Reverse(s)
           b == Reverse(t)
           m == Len(s)
           n == Len(t)
<1>1. a \in Seq(S) /\ Len(a) = m /\ (\A i \in 1..m : a[i] = s[(m - i) + 1]) /\ m \in Nat
  BY ReverseIs
<1>2. b \in Seq(S) /\ Len(b) = n /\ (\A i \in 1..n : b[i] = t[(n - i) + 1]) /\ n \in Nat
  BY ReverseIs
<1> HIDE DEF a, b
<1>3. IsSuffix(s, t) <=> Holds(b, 0, a)
  BY <1>1, <1>2, PrefixIs DEF IsSuffix, a, b
<1> HIDE DEF m, n
<1>4. Holds(b, 0, a) <=> m <= n /\ \A i \in 1..m : b[i] = a[i]
  <2>1. 0 + m = m /\ \A i \in 1..m : 0 + i = i
    BY <1>1
  <2> QED BY <1>1, <1>2, <2>1 DEF Holds
<1>5. ASSUME m <= n, \A i \in 1..m : b[i] = a[i], NEW i \in 1..m PROVE t[(n - m) + i] = s[i]
  <2> DEFINE j == (m - i) + 1
  <2>1. j \in 1..m /\ j \in 1..n /\ (m - j) + 1 = i /\ (n - j) + 1 = (n - m) + i
    BY <1>1, <1>2, <1>5
  <2> HIDE DEF j
  <2>2. b[j] = a[j] /\ b[j] = t[(n - j) + 1] /\ a[j] = s[(m - j) + 1]
    BY <1>1, <1>2, <1>5, <2>1
  <2> QED BY <2>1, <2>2
<1>6. ASSUME m <= n, \A i \in 1..m : t[(n - m) + i] = s[i], NEW j \in 1..m PROVE b[j] = a[j]
  <2> DEFINE i == (m - j) + 1
  <2>1. i \in 1..m /\ j \in 1..n /\ (n - j) + 1 = (n - m) + i
    BY <1>1, <1>2, <1>6
  <2>2. a[j] = s[i] /\ b[j] = t[(n - j) + 1]
    BY <1>1, <1>2, <2>1
  <2> HIDE DEF i
  <2>3. t[(n - m) + i] = s[i]
    BY <1>6, <2>1
  <2> QED BY <2>1, <2>2, <2>3
<1> QED BY <1>3, <1>4, <1>5, <1>6 DEF m, n

-----------------------------------------------------------------------------
(* Lower case.                                                             *)

Letter == STRING \cup {"a", "v", "d", "@", "+", "."}

Lowered(c) == IF c \in DOMAIN LowerCase THEN LowerCase[c] ELSE c

\* Lower case makes no "@" and no ".", and keeps those there are.
LEMMA LoweredIs ==
  ASSUME NEW c
  PROVE  /\ c \in Letter => Lowered(c) \in Letter
         /\ Lowered(c) = "@" <=> c = "@"
         /\ Lowered(c) = "." <=> c = "."
<1>1. DOMAIN LowerCase = {"A", "V", "D"} /\ LowerCase["A"] = "a" /\ LowerCase["V"] = "v" /\ LowerCase["D"] = "d"
  BY DEF LowerCase
<1>2. CASE c \in {"A", "V", "D"}
  BY <1>1, <1>2 DEF Lowered, Letter
<1>3. CASE c \notin {"A", "V", "D"}
  BY <1>1, <1>3 DEF Lowered
<1> QED BY <1>2, <1>3

\* Lower case makes no space, and keeps those there are.
LEMMA LoweredSpace ==
  ASSUME NEW c
  PROVE  Lowered(c) = Space <=> c = Space
<1>1. DOMAIN LowerCase = {"A", "V", "D"} /\ LowerCase["A"] = "a" /\ LowerCase["V"] = "v" /\ LowerCase["D"] = "d"
  BY DEF LowerCase
<1>2. Space # "a" /\ Space # "v" /\ Space # "d" /\ Space # "A" /\ Space # "V" /\ Space # "D"
  BY Zenon DEF Space
<1> QED BY <1>1, <1>2 DEF Lowered

\* A text in lower case, element by element.
LEMMA ToLowerIs ==
  ASSUME NEW s \in Seq(Letter)
  PROVE  /\ ToLower(s) \in Seq(Letter) /\ Len(ToLower(s)) = Len(s)
         /\ \A i \in 1..Len(s) : ToLower(s)[i] = Lowered(s[i])
<1>1. ToLower(s) = [i \in 1..Len(s) |-> Lowered(s[i])] /\ Len(s) \in Nat
  BY DEF ToLower, Lowered
<1>2. \A i \in 1..Len(s) : Lowered(s[i]) \in Letter
  BY LoweredIs, ElementOfSeq
<1>3. [i \in 1..Len(s) |-> Lowered(s[i])] \in Seq(Letter)
  BY <1>1, <1>2
<1> QED BY <1>1, <1>3

\* What is left of a text is a text.
LEMMA TrimType ==
  ASSUME NEW S, NEW s \in Seq(S), NEW c
  PROVE  TrimOff(s, c) \in Seq(S)
<1> DEFINE kept == {i \in DOMAIN s : s[i] # c}
           lo == CHOOSE i \in kept : \A k \in kept : i <= k
           hi == CHOOSE i \in kept : \A k \in kept : k <= i
<1>0. DOMAIN s = 1..Len(s) /\ Len(s) \in Nat /\ kept \in SUBSET Nat /\ \A i \in kept : i \in 1..Len(s)
  OBVIOUS
<1>1. TrimOff(s, c) = IF kept = {} THEN <<>> ELSE SubSeq(s, lo, hi)
  BY DEF TrimOff
<1> HIDE DEF kept
<1>2. CASE kept = {}
  BY <1>1, <1>2
<1>3. CASE kept # {}
  <2>1. \E i \in kept : \A k \in kept : i <= k
    BY <1>0, <1>3, LeastNatural
  <2>2. lo \in kept /\ \A k \in kept : lo <= k
    BY <2>1
  <2> DEFINE T == {Len(s) - i : i \in kept}
  <2>3. T \in SUBSET Nat /\ T # {}
    <3>1. \A i \in kept : Len(s) - i \in Nat
      BY <1>0
    <3> QED BY <1>3, <3>1
  <2>4. PICK x \in T : \A y \in T : x <= y
    <3> HIDE DEF T
    <3> QED BY <2>3, LeastNatural
  <2>5. PICK i \in kept : x = Len(s) - i
    BY <2>4
  <2>6. \A k \in kept : k <= i
    <3> TAKE k \in kept
    <3>1. x <= Len(s) - k /\ i \in 1..Len(s) /\ k \in 1..Len(s)
      BY <1>0, <2>4, <2>5
    <3> QED BY <1>0, <2>5, <3>1
  <2>7. hi \in kept /\ \A k \in kept : k <= hi
    BY <2>6
  <2> HIDE DEF lo, hi
  <2>8. lo \in Nat \ {0} /\ hi \in Nat /\ lo - 1 <= hi /\ hi <= Len(s)
    <3>1. lo \in 1..Len(s) /\ hi \in 1..Len(s) /\ lo <= hi
      BY <1>0, <2>2, <2>7
    <3> QED BY <1>0, <3>1
  <2>9. SubSeq(s, lo, hi) \in Seq(S)
    BY <2>8, SubSeqIs
  <2> QED BY <1>1, <1>3, <2>9
<1> QED BY <1>2, <1>3

-----------------------------------------------------------------------------
(* Which session a mail names.                                             *)

\* What is before the suffix y of s, and what is between its prefix x and y.
Halves(s, x, y, local, tag) ==
    local = SubSeq(s, 1, Len(s) - Len(y)) /\ tag = SubSeq(s, Len(x) + 1, Len(s) - Len(y))

\* Whether a text is read from its ends or compared with what its tag is put in.
LEMMA AddressIs ==
  ASSUME NEW s \in Seq(Letter), NEW x \in Seq(Letter), NEW y \in Seq(Letter), NEW local, NEW tag,
         Halves(s, x, y, local, tag)
  PROVE  /\ (IsSuffix(y, s) /\ IsPrefix(x, local) /\ Len(local) > Len(x))
                <=> (s = (x \o tag) \o y /\ tag # <<>>)
         /\ IsSuffix(y, s) /\ Len(local) > Len(x) => SubSeq(local, Len(x) + 1, Len(local)) = tag
<1> DEFINE n == Len(s)
           px == Len(x)
           py == Len(y)
           k == n - py
           l == k - px
<1>0. local = SubSeq(s, 1, k) /\ tag = SubSeq(s, px + 1, k) /\ n \in Nat /\ px \in Nat /\ py \in Nat
  BY DEF Halves
<1>1. IsSuffix(y, s) <=> py <= n /\ \A i \in 1..py : s[k + i] = y[i]
  BY SuffixIs
<1>2. CASE k <= px
  <2>1. k \in Int /\ px + 1 > k
    BY <1>0, <1>2
  <2>2. tag = <<>>
    BY <1>0, <2>1
  <2>3. py <= n => Len(local) = k
    BY <1>0
  <2>4. ~(IsSuffix(y, s) /\ Len(local) > px)
    BY <1>0, <1>1, <1>2, <2>3
  <2> QED BY <2>2, <2>4
<1>3. CASE k > px
  <2>1. k \in Nat /\ l \in Nat /\ l >= 1 /\ px + l = k /\ k + py = n /\ k <= n /\ py <= n /\ px <= k
    BY <1>0, <1>3
  <2>0. k = n - py
    OBVIOUS
  <2> HIDE DEF k, l
  <2>2. local \in Seq(Letter) /\ Len(local) = k /\ \A i \in 1..k : local[i] = s[i]
    BY <1>0, <2>1
  <2>3. tag \in Seq(Letter) /\ Len(tag) = l /\ \A i \in 1..l : tag[i] = s[i + px]
    <3> DEFINE m == px + 1
    <3>1. m \in Nat \ {0} /\ m - 1 <= k /\ m - 1 = px /\ k - (m - 1) = l
      BY <1>0, <2>1
    <3> HIDE DEF m
    <3>2. /\ SubSeq(s, m, k) \in Seq(Letter) /\ Len(SubSeq(s, m, k)) = l
          /\ \A i \in 1..l : SubSeq(s, m, k)[i] = s[i + px]
      BY <2>1, <3>1, SubSeqIs
    <3> QED BY <1>0, <3>2 DEF m
  <2> DEFINE w == SubSeq(local, px + 1, k)
  <2>4. w \in Seq(Letter) /\ Len(w) = l /\ \A i \in 1..l : w[i] = local[i + px]
    <3> DEFINE m == px + 1
    <3>1. m \in Nat \ {0} /\ m - 1 <= k /\ m - 1 = px /\ k - (m - 1) = l
      BY <1>0, <2>1
    <3> HIDE DEF m
    <3>2. /\ SubSeq(local, m, k) \in Seq(Letter) /\ Len(SubSeq(local, m, k)) = l
          /\ \A i \in 1..l : SubSeq(local, m, k)[i] = local[i + px]
      BY <2>1, <2>2, <3>1, SubSeqIs
    <3> QED BY <3>2 DEF m
  <2>5. w = tag
    <3>1. \A i \in 1..l : i + px \in 1..k
      BY <1>0, <2>1
    <3> HIDE DEF w
    <3>2. \A i \in 1..l : w[i] = tag[i]
      <4> TAKE i \in 1..l
      <4>1. w[i] = local[i + px] /\ tag[i] = s[i + px] /\ i + px \in 1..k
        BY <2>3, <2>4, <3>1
      <4> QED BY <2>2, <4>1
    <3> QED BY <2>3, <2>4, <3>2, SeqEqual
  <2>6. tag # <<>>
    <3>1. Len(tag) # 0
      BY <2>1, <2>3
    <3>2. Len(<<>>) = 0
      OBVIOUS
    <3> QED BY <3>1, <3>2
  <2>7. IsPrefix(x, local) <=> \A i \in 1..px : s[i] = x[i]
    <3>1. IsPrefix(x, local) <=> Holds(local, 0, x)
      BY <2>2, PrefixIs
    <3>2. Holds(local, 0, x) <=> \A i \in 1..px : local[0 + i] = x[i]
      <4>1. 0 + px <= k
        BY <1>0, <2>1
      <4> QED BY <2>2, <4>1 DEF Holds
    <3>3. \A i \in 1..px : 0 + i = i /\ i \in 1..k
      BY <1>0, <2>1
    <3> QED BY <2>2, <3>1, <3>2, <3>3
  <2> DEFINE g == x \o tag
             h == g \o y
  <2>8. /\ g \in Seq(Letter) /\ Len(g) = k /\ \A i \in 1..px : g[i] = x[i]
        /\ \A i \in 1..l : g[px + i] = tag[i]
    <3>1. /\ g \in Seq(Letter) /\ Len(g) = px + Len(tag) /\ \A i \in 1..px : g[i] = x[i]
          /\ \A i \in 1..Len(tag) : g[px + i] = tag[i]
      BY <2>3, ConcatIs
    <3> HIDE DEF g
    <3> QED BY <2>1, <2>3, <3>1
  <2> HIDE DEF g
  <2>9. /\ h \in Seq(Letter) /\ Len(h) = n /\ \A i \in 1..k : h[i] = g[i]
        /\ \A i \in 1..py : h[k + i] = y[i]
    <3>1. /\ h \in Seq(Letter) /\ Len(h) = Len(g) + py /\ \A i \in 1..Len(g) : h[i] = g[i]
          /\ \A i \in 1..py : h[Len(g) + i] = y[i]
      <4>1. g \in Seq(Letter)
        BY <2>8
      <4> QED BY <4>1, ConcatIs
    <3> HIDE DEF h
    <3> QED BY <2>1, <2>8, <3>1
  <2> HIDE DEF h
  <2>10. ASSUME NEW i \in 1..n PROVE i \in 1..px \/ i - px \in 1..l \/ i - k \in 1..py
    BY <1>0, <2>1
  <2>11. ASSUME NEW i \in 1..l PROVE h[px + i] = s[px + i]
    <3>1. px + i \in 1..k /\ i + px = px + i
      BY <1>0, <2>1
    <3> QED BY <2>3, <2>8, <2>9, <3>1
  <2>12. ASSUME NEW i \in 1..px PROVE h[i] = x[i]
    <3>1. i \in 1..k
      BY <1>0, <2>1
    <3> QED BY <2>8, <2>9, <3>1
  <2>13. ASSUME \A i \in 1..py : s[k + i] = y[i], \A i \in 1..px : s[i] = x[i] PROVE s = h
    <3>1. ASSUME NEW i \in 1..n PROVE s[i] = h[i]
      <4>1. CASE i \in 1..px
        BY <2>12, <2>13, <4>1
      <4>2. CASE i - px \in 1..l
        <5> DEFINE j == i - px
        <5>1. j \in 1..l /\ px + j = i
          BY <1>0, <4>2
        <5> HIDE DEF j
        <5> QED BY <2>11, <5>1
      <4>3. CASE i - k \in 1..py
        <5> DEFINE j == i - k
        <5>1. j \in 1..py /\ k + j = i
          BY <1>0, <2>1, <4>3
        <5> HIDE DEF j
        <5> QED BY <2>9, <2>13, <5>1
      <4> QED BY <2>10, <4>1, <4>2, <4>3
    <3> QED BY <2>9, <3>1, SeqEqual
  <2>14. s = h => (\A i \in 1..py : s[k + i] = y[i]) /\ \A i \in 1..px : s[i] = x[i]
    BY <2>9, <2>12
  <2>15. (IsSuffix(y, s) /\ IsPrefix(x, local) /\ Len(local) > px) <=> s = h
    BY <1>1, <1>3, <2>1, <2>2, <2>7, <2>13, <2>14
  <2>16. SubSeq(local, px + 1, Len(local)) = tag
    BY <2>2, <2>5 DEF w
  <2> QED BY <2>6, <2>15, <2>16 DEF g, h
<1>4. k \in Int
  BY <1>0
<1> HIDE DEF k, l, px
<1>5. px \in Nat /\ (k <= px \/ k > px)
  BY <1>0, <1>4
<1> QED BY <1>2, <1>3, <1>5 DEF px

\* A text in lower case.
IsLower(s) == \A i \in 1..Len(s) : Lowered(s[i]) = s[i]

\* Lower case is of each part of a text, and a text in lower case is its own.
LEMMA LowerJoined ==
  ASSUME NEW a \in Seq(Letter), NEW b \in Seq(Letter)
  PROVE  ToLower(a \o b) = ToLower(a) \o ToLower(b)
<1> DEFINE c == a \o b
           A == ToLower(a)
           B == ToLower(b)
           C == ToLower(c)
           D == A \o B
<1>0. Len(a) \in Nat /\ Len(b) \in Nat
  OBVIOUS
<1>1. /\ c \in Seq(Letter) /\ Len(c) = Len(a) + Len(b) /\ \A i \in 1..Len(a) : c[i] = a[i]
      /\ \A i \in 1..Len(b) : c[Len(a) + i] = b[i]
  BY ConcatIs
<1> HIDE DEF c
<1>2. /\ A \in Seq(Letter) /\ Len(A) = Len(a) /\ \A i \in 1..Len(a) : A[i] = Lowered(a[i])
      /\ B \in Seq(Letter) /\ Len(B) = Len(b) /\ \A i \in 1..Len(b) : B[i] = Lowered(b[i])
      /\ C \in Seq(Letter) /\ Len(C) = Len(c) /\ \A i \in 1..Len(c) : C[i] = Lowered(c[i])
  BY <1>1, ToLowerIs
<1> HIDE DEF A, B, C
<1>3. /\ D \in Seq(Letter) /\ Len(D) = Len(a) + Len(b) /\ \A i \in 1..Len(a) : D[i] = A[i]
      /\ \A i \in 1..Len(b) : D[Len(a) + i] = B[i]
  <2>1. /\ D \in Seq(Letter) /\ Len(D) = Len(A) + Len(B) /\ \A i \in 1..Len(A) : D[i] = A[i]
        /\ \A i \in 1..Len(B) : D[Len(A) + i] = B[i]
    <3>1. A \in Seq(Letter) /\ B \in Seq(Letter)
      BY <1>2
    <3> QED BY <3>1, ConcatIs
  <2> HIDE DEF D
  <2> QED BY <1>2, <2>1
<1> HIDE DEF D
<1>4. ASSUME NEW i \in 1..Len(c) PROVE C[i] = D[i]
  <2>1. CASE i \in 1..Len(a)
    BY <1>1, <1>2, <1>3, <2>1
  <2>2. CASE i \notin 1..Len(a)
    <3> DEFINE j == i - Len(a)
    <3>1. j \in 1..Len(b) /\ Len(a) + j = i
      BY <1>0, <1>1, <2>2
    <3> HIDE DEF j
    <3>2. c[Len(a) + j] = b[j] /\ D[Len(a) + j] = B[j] /\ B[j] = Lowered(b[j])
      BY <1>1, <1>2, <1>3, <3>1
    <3> QED BY <1>2, <3>1, <3>2
  <2> QED BY <2>1, <2>2
<1>5. C = D
  BY <1>1, <1>2, <1>3, <1>4, SeqEqual
<1> QED BY <1>5 DEF A, B, C, D, c

LEMMA LowerKeeps ==
  ASSUME NEW s \in Seq(Letter)
  PROVE  ToLower(s) = s <=> IsLower(s)
<1>1. /\ ToLower(s) \in Seq(Letter) /\ Len(ToLower(s)) = Len(s)
      /\ \A i \in 1..Len(s) : ToLower(s)[i] = Lowered(s[i])
  BY ToLowerIs
<1>2. IsLower(s) => ToLower(s) = s
  <2> SUFFICES ASSUME IsLower(s) PROVE ToLower(s) = s
    OBVIOUS
  <2>1. \A i \in 1..Len(s) : ToLower(s)[i] = s[i]
    BY <1>1 DEF IsLower
  <2> QED BY <1>1, <2>1, SeqEqual
<1>3. ToLower(s) = s => IsLower(s)
  BY <1>1 DEF IsLower
<1> QED BY <1>2, <1>3

\* What was put into lower case is.
LEMMA LowerIsLower ==
  ASSUME NEW s \in Seq(Letter)
  PROVE  IsLower(ToLower(s))
<1>1. Len(ToLower(s)) = Len(s) /\ \A i \in 1..Len(s) : ToLower(s)[i] = Lowered(s[i])
  BY ToLowerIs
<1>2. \A c : Lowered(Lowered(c)) = Lowered(c)
  <2>1. DOMAIN LowerCase = {"A", "V", "D"} /\ LowerCase["A"] = "a" /\ LowerCase["V"] = "v" /\ LowerCase["D"] = "d"
    BY DEF LowerCase
  <2> QED BY <2>1 DEF Lowered
<1> QED BY <1>1, <1>2 DEF IsLower

\* What stands in the operator's configuration.
ConfigSound(cfg) ==
    cfg.VerifyLocalPart \in Seq(Letter) /\ cfg.MailDomain \in Seq(Letter) /\ cfg.Dev \in BOOLEAN

\* A text in lower case is made of the operator's local part, a tag and the domain
\* if that local part is in lower case and the text the verify address in lower case.
LEMMA SpellingIs ==
  ASSUME NEW cfg, ConfigSound(cfg), NEW s \in Seq(Letter), IsLower(s), NEW tag \in Seq(Letter), IsLower(tag)
  PROVE  s = ((cfg.VerifyLocalPart \o <<"+">>) \o tag) \o (<<"@">> \o ToLower(cfg.MailDomain))
            <=> ToLower(cfg.VerifyLocalPart) = cfg.VerifyLocalPart /\ s = ToLower(verifyAddress(cfg, tag))
<1> DEFINE v == cfg.VerifyLocalPart
           d == cfg.MailDomain
           x == v \o <<"+">>
           y == <<"@">> \o d
           X == ToLower(v) \o <<"+">>
           Y == <<"@">> \o ToLower(d)
<1>0. v \in Seq(Letter) /\ d \in Seq(Letter)
  BY DEF ConfigSound
<1> HIDE DEF v, d
<1>1. <<"+">> \in Seq(Letter) /\ <<"@">> \in Seq(Letter)
  BY DEF Letter
<1>2. ToLower(<<"+">>) = <<"+">> /\ ToLower(<<"@">>) = <<"@">>
  <2>1. Lowered("+") = "+" /\ Lowered("@") = "@"
    BY DEF Lowered, LowerCase
  <2>2. IsLower(<<"+">>) /\ IsLower(<<"@">>)
    BY <2>1 DEF IsLower
  <2> QED BY <1>1, <2>2, LowerKeeps
<1>3. x \in Seq(Letter) /\ y \in Seq(Letter) /\ x \o tag \in Seq(Letter)
  <2>1. x \in Seq(Letter) /\ y \in Seq(Letter)
    BY <1>0, <1>1, ConcatIs
  <2> HIDE DEF x, y
  <2> QED BY <2>1, ConcatIs
<1>4. ToLower(x) = X /\ ToLower(y) = Y
  <2> DEFINE plus == <<"+">>
             sign == <<"@">>
  <2>1. plus \in Seq(Letter) /\ sign \in Seq(Letter) /\ ToLower(plus) = plus /\ ToLower(sign) = sign
    BY <1>1, <1>2
  <2> HIDE DEF plus, sign
  <2>2. ToLower(v \o plus) = ToLower(v) \o ToLower(plus)
    BY <1>0, <2>1, LowerJoined, Zenon
  <2>3. ToLower(sign \o d) = ToLower(sign) \o ToLower(d)
    BY <1>0, <2>1, LowerJoined, Zenon
  <2> QED BY <2>1, <2>2, <2>3 DEF plus, sign
<1>5. ToLower(tag) = tag
  BY LowerKeeps
<1>6. ToLower((x \o tag) \o y) = (X \o tag) \o Y
  <2> HIDE DEF x, y, X, Y
  <2>1. ToLower((x \o tag) \o y) = ToLower(x \o tag) \o ToLower(y)
    BY <1>3, LowerJoined
  <2>2. ToLower(x \o tag) = ToLower(x) \o ToLower(tag)
    BY <1>3, LowerJoined
  <2> QED BY <1>4, <1>5, <2>1, <2>2
<1>7. verifyAddress(cfg, tag) = (x \o tag) \o y
  BY DEF verifyAddress, v, d
<1>8. ASSUME ToLower(v) = v PROVE X = x
  BY <1>8
<1>9. ASSUME s = (x \o tag) \o Y PROVE ToLower(v) = v
  <2>1. Y \in Seq(Letter)
    BY <1>0, <1>1, ToLowerIs, ConcatIs
  <2>2. \A i \in 1..Len(v) : x[i] = v[i] /\ i \in 1..Len(x)
    <3>1. Len(x) = Len(v) + Len(<<"+">>) /\ \A i \in 1..Len(v) : x[i] = v[i]
      BY <1>0, <1>1, ConcatIs
    <3>2. Len(<<"+">>) = 1 /\ Len(v) \in Nat
      BY <1>0
    <3> QED BY <3>1, <3>2
  <2> DEFINE g == x \o tag
  <2>3. g \in Seq(Letter) /\ Len(g) = Len(x) + Len(tag) /\ \A i \in 1..Len(x) : g[i] = x[i] /\ i \in 1..Len(g)
    <3>1. g \in Seq(Letter) /\ Len(g) = Len(x) + Len(tag) /\ \A i \in 1..Len(x) : g[i] = x[i]
      BY <1>3, ConcatIs
    <3>2. Len(x) \in Nat /\ Len(tag) \in Nat
      BY <1>3
    <3> QED BY <3>1, <3>2
  <2> HIDE DEF g, Y, x
  <2>4. \A i \in 1..Len(g) : s[i] = g[i] /\ i \in 1..Len(s)
    <3> DEFINE h == g \o Y
    <3>1. h \in Seq(Letter) /\ Len(h) = Len(g) + Len(Y) /\ \A i \in 1..Len(g) : h[i] = g[i]
      BY <2>1, <2>3, ConcatIs
    <3>2. Len(g) \in Nat /\ Len(Y) \in Nat
      BY <2>1, <2>3
    <3>3. s = h
      BY <1>9 DEF g
    <3> HIDE DEF h
    <3> QED BY <3>1, <3>2, <3>3
  <2>5. IsLower(v)
    <3> SUFFICES ASSUME NEW i \in 1..Len(v) PROVE Lowered(v[i]) = v[i]
      BY DEF IsLower
    <3>1. s[i] = v[i] /\ i \in 1..Len(s)
      BY <2>2, <2>3, <2>4
    <3> QED BY <3>1 DEF IsLower
  <2> QED BY <1>0, <2>5, LowerKeeps
<1>10. s = (x \o tag) \o Y <=> ToLower(v) = v /\ s = ToLower(verifyAddress(cfg, tag))
  <2> HIDE DEF x, y, X, Y
  <2> QED BY <1>6, <1>7, <1>8, <1>9
<1> QED BY <1>10 DEF v, d, x, Y

\* The tag taken from a recipient is the session its address names.
LEMMA TagIs ==
  ASSUME NEW cfg, ConfigSound(cfg), NEW r \in Seq(Letter)
  PROVE  TagOf(cfg, r) = NamedBy(cfg, r)
<1> DEFINE s == ToLower(TrimSpace(r))
           x == cfg.VerifyLocalPart \o <<"+">>
           y == <<"@">> \o ToLower(cfg.MailDomain)
           local == SubSeq(s, 1, Len(s) - Len(y))
           tag == SubSeq(s, Len(x) + 1, Len(s) - Len(y))
           low == ToLower(cfg.VerifyLocalPart) = cfg.VerifyLocalPart
<1>1. s \in Seq(Letter) /\ IsLower(s)
  <2>1. TrimSpace(r) \in Seq(Letter)
    BY TrimType DEF TrimSpace
  <2> QED BY <2>1, ToLowerIs, LowerIsLower
<1>2. x \in Seq(Letter) /\ y \in Seq(Letter) /\ Len(x) = Len(cfg.VerifyLocalPart) + 1 /\ Len(y) = Len(cfg.MailDomain) + 1
  <2>1. <<"+">> \in Seq(Letter) /\ <<"@">> \in Seq(Letter) /\ Len(<<"+">>) = 1 /\ Len(<<"@">>) = 1
    BY DEF Letter
  <2>2. /\ cfg.VerifyLocalPart \in Seq(Letter) /\ ToLower(cfg.MailDomain) \in Seq(Letter)
        /\ Len(ToLower(cfg.MailDomain)) = Len(cfg.MailDomain) /\ Len(cfg.MailDomain) \in Nat
    BY ToLowerIs DEF ConfigSound
  <2>3. x \in Seq(Letter) /\ Len(x) = Len(cfg.VerifyLocalPart) + Len(<<"+">>)
    BY <2>1, <2>2, ConcatIs
  <2>4. y \in Seq(Letter) /\ Len(y) = Len(<<"@">>) + Len(ToLower(cfg.MailDomain))
    BY <2>1, <2>2, ConcatIs
  <2> QED BY <2>1, <2>2, <2>3, <2>4
<1>3. TagOf(cfg, r) = IF IsSuffix(y, s) /\ IsPrefix(x, local) /\ Len(local) > Len(x)
                      THEN {SubSeq(local, Len(x) + 1, Len(local))} ELSE {}
  BY DEF TagOf
<1>4. tag = SubSeq(s, Len(cfg.VerifyLocalPart) + 2, Len(s) - (Len(cfg.MailDomain) + 1))
  <2>1. Len(x) + 1 = Len(cfg.VerifyLocalPart) + 2
    <3>1. Len(cfg.VerifyLocalPart) \in Nat
      BY DEF ConfigSound
    <3> QED BY <1>2, <3>1
  <2> QED BY <1>2, <2>1
<1>5. NamedBy(cfg, r) = {t \in {tag} : low /\ s = ToLower(verifyAddress(cfg, t)) /\ t # <<>>}
  BY <1>4 DEF NamedBy
<1> HIDE DEF s
<1>6. /\ (IsSuffix(y, s) /\ IsPrefix(x, local) /\ Len(local) > Len(x))
            <=> (s = (x \o tag) \o y /\ tag # <<>>)
      /\ IsSuffix(y, s) /\ Len(local) > Len(x) => SubSeq(local, Len(x) + 1, Len(local)) = tag
  <2> HIDE DEF local, tag, x, y
  <2>1. Halves(s, x, y, local, tag)
    BY DEF local, tag, Halves
  <2> QED BY <1>1, <1>2, <2>1, AddressIs
<1>7. tag \in Seq(Letter) /\ IsLower(tag)
  <2> DEFINE m == Len(x) + 1
             k == Len(s) - Len(y)
  <2>1. m \in Nat \ {0} /\ k \in Int /\ k <= Len(s) /\ m - 1 = Len(x) /\ Len(s) \in Nat /\ Len(x) \in Nat
    BY <1>1, <1>2
  <2> HIDE DEF x, y, m, k
  <2>2. tag = SubSeq(s, m, k)
    BY DEF m, k
  <2> HIDE DEF tag
  <2>3. CASE k < m
    <3>1. tag = <<>>
      BY <1>1, <2>1, <2>2, <2>3
    <3> QED BY <3>1 DEF IsLower
  <2>4. CASE m <= k
    <3>1. m - 1 <= k /\ k \in Nat
      BY <2>1, <2>4
    <3>2. tag \in Seq(Letter) /\ Len(tag) = k - (m - 1) /\ \A i \in 1..(k - (m - 1)) : tag[i] = s[i + (m - 1)]
      BY <1>1, <2>1, <2>2, <3>1, SubSeqIs
    <3>3. \A i \in 1..(k - (m - 1)) : i + (m - 1) \in 1..Len(s)
      BY <2>1, <3>1
    <3> QED BY <1>1, <3>2, <3>3 DEF IsLower
  <2> QED BY <2>1, <2>3, <2>4
<1>8. s = (x \o tag) \o y <=> low /\ s = ToLower(verifyAddress(cfg, tag))
  <2> HIDE DEF tag
  <2> QED BY <1>1, <1>7, SpellingIs
<1> HIDE DEF local, tag, x, y, low
<1> QED BY <1>3, <1>5, <1>6, <1>8

\* A mail is of the first recipient that names a session.
LEMMA SessionIs ==
  ASSUME NEW cfg, ConfigSound(cfg), NEW to \in Seq(Seq(Letter))
  PROVE  sessionTagFromRecipients(cfg, to) =
            UNION {NamedBy(cfg, to[n]) : n \in {n \in DOMAIN to : /\ NamedBy(cfg, to[n]) # {}
                                                                  /\ \A m \in 1 .. n - 1 : NamedBy(cfg, to[m]) = {}}}
<1> DEFINE T == {i \in DOMAIN to : TagOf(cfg, to[i]) # {}}
           A == {k \in T : \A m \in T : k <= m}
           B == {n \in DOMAIN to : NamedBy(cfg, to[n]) # {} /\ \A m \in 1 .. n - 1 : NamedBy(cfg, to[m]) = {}}
<1>0. DOMAIN to = 1..Len(to) /\ Len(to) \in Nat
  OBVIOUS
<1>1. \A i \in DOMAIN to : TagOf(cfg, to[i]) = NamedBy(cfg, to[i])
  BY TagIs
<1>2. sessionTagFromRecipients(cfg, to) = UNION {TagOf(cfg, to[i]) : i \in A}
  BY DEF sessionTagFromRecipients
<1>3. A = B
  <2>1. ASSUME NEW k \in A PROVE k \in B
    <3>1. k \in DOMAIN to /\ NamedBy(cfg, to[k]) # {}
      BY <1>1, <2>1
    <3>2. ASSUME NEW m \in 1 .. k - 1 PROVE NamedBy(cfg, to[m]) = {}
      <4>1. m \in DOMAIN to /\ ~(k <= m)
        BY <1>0, <3>1
      <4> QED BY <1>1, <2>1, <4>1
    <3> QED BY <3>1, <3>2
  <2>2. ASSUME NEW n \in B PROVE n \in A
    <3>1. n \in T
      BY <1>1, <2>2
    <3>2. ASSUME NEW m \in T PROVE n <= m
      <4>1. m \in DOMAIN to /\ NamedBy(cfg, to[m]) # {}
        BY <1>1
      <4>2. m \notin 1 .. n - 1
        BY <2>2, <4>1
      <4>3. m \in 1..Len(to) /\ n \in 1..Len(to)
        BY <1>0, <2>2, <4>1
      <4> QED BY <1>0, <4>2, <4>3
    <3> QED BY <3>1, <3>2
  <2> QED BY <2>1, <2>2
<1>4. \A i \in B : i \in DOMAIN to
  OBVIOUS
<1> HIDE DEF A, B
<1>5. UNION {TagOf(cfg, to[i]) : i \in B} = UNION {NamedBy(cfg, to[n]) : n \in B}
  BY <1>1, <1>4
<1> QED BY <1>2, <1>3, <1>5 DEF B

-----------------------------------------------------------------------------
(* Which sender is believed.                                               *)

\* strings.Cut at the first "@".
LEMMA CutIs ==
  ASSUME NEW S, NEW s \in Seq(S), NEW at \in 1..Len(s), s[at] = "@", \A i \in 1..Len(s) : s[i] = "@" => at <= i
  PROVE  CutAt(s) = {[local |-> SubSeq(s, 1, at - 1), domain |-> SubSeq(s, at + 1, Len(s))]}
<1> DEFINE A == {i \in DOMAIN s : s[i] = "@"}
           first == {k \in A : \A m \in A : k <= m}
           F(i) == [local |-> SubSeq(s, 1, i - 1), domain |-> SubSeq(s, i + 1, Len(s))]
<1>1. A \in SUBSET Nat /\ at \in A /\ \A m \in A : at <= m
  OBVIOUS
<1>2. CutAt(s) = {F(i) : i \in first}
  BY DEF CutAt
<1>3. first = {at}
  <2> HIDE DEF A
  <2> QED BY <1>1, LeastIs
<1> HIDE DEF first
<1> QED BY <1>2, <1>3

\* A text without an "@" is not cut.
LEMMA CutNone ==
  ASSUME NEW S, NEW s \in Seq(S)
  PROVE  CutAt(s) = {} <=> \A i \in 1..Len(s) : s[i] # "@"
<1>1. ASSUME \A i \in 1..Len(s) : s[i] # "@" PROVE CutAt(s) = {}
  <2>1. {i \in DOMAIN s : s[i] = "@"} = {}
    BY <1>1
  <2> QED BY <2>1 DEF CutAt
<1>2. ASSUME NEW j \in 1..Len(s), s[j] = "@" PROVE CutAt(s) # {}
  <2> DEFINE A == {i \in 1..Len(s) : s[i] = "@"}
  <2>1. A \in SUBSET Nat /\ A # {}
    BY <1>2
  <2>2. PICK at \in A : \A i \in A : at <= i
    <3> HIDE DEF A
    <3> QED BY <2>1, LeastNatural
  <2>3. at \in 1..Len(s) /\ s[at] = "@" /\ \A i \in 1..Len(s) : s[i] = "@" => at <= i
    BY <2>2
  <2> QED BY <2>3, CutIs
<1> QED BY <1>1, <1>2

\* The "@" of an address that has one, inside it.
Sole(s, at) ==
    /\ at \in 1..Len(s) /\ s[at] = "@" /\ \A i \in 1..Len(s) : s[i] = "@" => i = at
    /\ at # 1 /\ at # Len(s)

\* An address with one "@" is cut there.
LEMMA SoleCut ==
  ASSUME NEW S, NEW s \in Seq(S), NEW at, Sole(s, at)
  PROVE  CutAt(s) = {[local |-> SubSeq(s, 1, at - 1), domain |-> SubSeq(s, at + 1, Len(s))]}
<1>1. at \in 1..Len(s) /\ s[at] = "@" /\ \A i \in 1..Len(s) : s[i] = "@" => at <= i
  BY DEF Sole
<1> QED BY <1>1, CutIs

\* Both parts are there and the second has no "@" if there is one "@", inside.
LEMMA CanonicalCut ==
  ASSUME NEW S, NEW s \in Seq(S)
  PROVE  (\E a \in CutAt(s) : a.local # <<>> /\ a.domain # <<>> /\ CutAt(a.domain) = {}) <=> \E at : Sole(s, at)
<1>0. Len(s) \in Nat
  OBVIOUS
<1>1. ASSUME NEW at \in 1..Len(s), s[at] = "@", \A i \in 1..Len(s) : s[i] = "@" => at <= i
      PROVE  LET l == SubSeq(s, 1, at - 1)  d == SubSeq(s, at + 1, Len(s))
             IN  (l # <<>> /\ d # <<>> /\ CutAt(d) = {}) <=> Sole(s, at)
  <2> DEFINE l == SubSeq(s, 1, at - 1)
             d == SubSeq(s, at + 1, Len(s))
             m == at + 1
             n == Len(s)
             k == n - at
  <2>1. l # <<>> <=> at # 1
    <3>1. l \in Seq(S) /\ Len(l) = at - 1
      BY <1>0
    <3>2. l # <<>> <=> Len(l) # 0
      <4> HIDE DEF l
      <4> QED BY <3>1, EmptySeq
    <3> QED BY <1>0, <3>1, <3>2
  <2>2. d \in Seq(S) /\ Len(d) = k /\ k \in Nat /\ \A i \in 1..k : d[i] = s[i + at]
    <3>1. m \in Nat \ {0} /\ n \in Nat /\ m - 1 <= n /\ n <= Len(s) /\ n - (m - 1) = k /\ m - 1 = at /\ k \in Nat
      BY <1>0
    <3> HIDE DEF m, n, k
    <3>2. SubSeq(s, m, n) \in Seq(S) /\ Len(SubSeq(s, m, n)) = k /\ \A i \in 1..k : SubSeq(s, m, n)[i] = s[i + at]
      BY <3>1, SubSeqIs
    <3> QED BY <3>1, <3>2 DEF m, n
  <2> HIDE DEF l, d
  <2>3. d # <<>> <=> at # Len(s)
    <3>1. d # <<>> <=> Len(d) # 0
      BY <2>2, EmptySeq
    <3> QED BY <1>0, <2>2, <3>1
  <2>4. CutAt(d) = {} <=> \A i \in 1..k : d[i] # "@"
    BY <2>2, CutNone
  <2>5. (\A i \in 1..k : d[i] # "@") <=> \A i \in 1..Len(s) : s[i] = "@" => i = at
    <3>1. ASSUME \A i \in 1..k : d[i] # "@", NEW j \in 1..Len(s), s[j] = "@" PROVE j = at
      <4> SUFFICES ASSUME j # at PROVE FALSE
        OBVIOUS
      <4> DEFINE i == j - at
      <4>1. at <= j
        BY <1>1, <3>1
      <4>2. i \in 1..k /\ i + at = j
        BY <1>0, <4>1
      <4> HIDE DEF i
      <4> QED BY <2>2, <3>1, <4>2
    <3>2. ASSUME \A i \in 1..Len(s) : s[i] = "@" => i = at, NEW i \in 1..k PROVE d[i] # "@"
      <4>1. i + at \in 1..Len(s) /\ i + at # at
        BY <1>0
      <4> QED BY <2>2, <3>2, <4>1
    <3> QED BY <3>1, <3>2
  <2>6. (l # <<>> /\ d # <<>> /\ CutAt(d) = {}) <=> Sole(s, at)
    BY <1>1, <2>1, <2>3, <2>4, <2>5 DEF Sole
  <2> QED BY <2>6 DEF l, d
<1>2. ASSUME NEW at, Sole(s, at)
      PROVE  \E a \in CutAt(s) : a.local # <<>> /\ a.domain # <<>> /\ CutAt(a.domain) = {}
  <2>1. at \in 1..Len(s) /\ s[at] = "@" /\ \A i \in 1..Len(s) : s[i] = "@" => at <= i
    BY <1>2 DEF Sole
  <2> DEFINE a == [local |-> SubSeq(s, 1, at - 1), domain |-> SubSeq(s, at + 1, Len(s))]
  <2>2. CutAt(s) = {a}
    BY <1>2, SoleCut
  <2>3. a.local # <<>> /\ a.domain # <<>> /\ CutAt(a.domain) = {}
    BY <1>1, <1>2, <2>1
  <2> HIDE DEF a
  <2> QED BY <2>2, <2>3
<1>3. ASSUME NEW a \in CutAt(s), a.local # <<>>, a.domain # <<>>, CutAt(a.domain) = {}
      PROVE  \E at : Sole(s, at)
  <2>1. ~(\A i \in 1..Len(s) : s[i] # "@")
    BY <1>3, CutNone
  <2> DEFINE A == {i \in 1..Len(s) : s[i] = "@"}
  <2>2. A \in SUBSET Nat /\ A # {}
    BY <2>1
  <2>3. PICK at \in A : \A i \in A : at <= i
    <3> HIDE DEF A
    <3> QED BY <2>2, LeastNatural
  <2>4. at \in 1..Len(s) /\ s[at] = "@" /\ \A i \in 1..Len(s) : s[i] = "@" => at <= i
    BY <2>3
  <2>5. CutAt(s) = {[local |-> SubSeq(s, 1, at - 1), domain |-> SubSeq(s, at + 1, Len(s))]}
    BY <2>4, CutIs
  <2>6. a.local = SubSeq(s, 1, at - 1) /\ a.domain = SubSeq(s, at + 1, Len(s))
    BY <1>3, <2>5
  <2>7. Sole(s, at)
    BY <1>1, <1>3, <2>4, <2>6
  <2> QED BY <2>7
<1> QED BY <1>2, <1>3

\* A space of a parsed address is in its quoted local part, before the "@".
SpacesBeforeAt(from) ==
    \A i \in DOMAIN from : from[i] = Space => \E k \in DOMAIN from : i < k /\ from[k] = "@"

\* s is what is left of from when the k spaces before it are taken off.
Trimmed(from, s, k) ==
    /\ k \in Nat /\ s \in Seq(Letter) /\ Len(from) = k + Len(s)
    /\ \A i \in 1..k : from[i] = Space
    /\ \A i \in 1..Len(s) : from[k + i] = s[i]

\* Only the front of a parsed address is trimmed, and only once.
LEMMA TrimFront ==
  ASSUME NEW from \in Seq(Letter), SpacesBeforeAt(from)
  PROVE  \E k : Trimmed(from, TrimSpace(from), k) /\ TrimSpace(TrimSpace(from)) = TrimSpace(from)
<1> DEFINE n == Len(from)
<1>0. n \in Nat /\ DOMAIN from = 1..n
  OBVIOUS
<1>1. ASSUME n # 0 PROVE from[n] # Space
  <2>1. n \in DOMAIN from /\ ~ \E k \in DOMAIN from : n < k
    BY <1>0, <1>1
  <2> QED BY <2>1 DEF SpacesBeforeAt
<1>2. CASE n = 0
  <2>1. TrimSpace(from) = from
    BY <1>2, TrimKeeps DEF TrimSpace
  <2>2. Trimmed(from, from, 0)
    BY <1>2 DEF Trimmed
  <2> QED BY <2>1, <2>2
<1>3. CASE n # 0
  <2> DEFINE kept == {i \in 1..n : from[i] # Space}
  <2>1. kept \in SUBSET Nat /\ kept # {}
    <3>1. n \in kept
      BY <1>0, <1>1, <1>3
    <3> QED BY <3>1
  <2>2. PICK lo \in kept : \A i \in kept : lo <= i
    <3> HIDE DEF kept
    <3> QED BY <2>1, LeastNatural
  <2>3. lo \in 1..n /\ from[lo] # Space
    OBVIOUS
  <2> DEFINE k == lo - 1
             w == SubSeq(from, lo, n)
             l == n - k
  <2>4. k \in Nat /\ l \in Nat /\ l >= 1 /\ k + l = n /\ k + 1 = lo /\ lo \in Nat \ {0} /\ lo - 1 <= n /\ n - (lo - 1) = l
    BY <1>0, <2>3
  <2>5. \A i \in 1..k : from[i] = Space
    <3> TAKE i \in 1..k
    <3>1. i \in 1..n /\ ~(lo <= i)
      BY <1>0, <2>3
    <3> QED BY <2>2, <3>1
  <2>6. w \in Seq(Letter) /\ Len(w) = l /\ \A i \in 1..l : w[i] = from[i + k]
    <3>1. w \in Seq(Letter) /\ Len(w) = n - (lo - 1) /\ \A i \in 1..(n - (lo - 1)) : w[i] = from[i + (lo - 1)]
      BY <1>0, <2>4, SubSeqIs
    <3> QED BY <3>1
  <2> HIDE DEF kept, w, k, l
  <2>7. \A i \in 1..l : from[k + i] = w[i]
    <3>1. \A i \in 1..l : k + i = i + k
      BY <2>4
    <3> QED BY <2>6, <3>1
  <2>8. Trimmed(from, w, k)
    BY <2>4, <2>5, <2>6, <2>7 DEF Trimmed
  <2>9. w[1] # Space /\ w[Len(w)] # Space
    <3>1. 1 \in 1..l /\ l \in 1..l
      BY <2>4
    <3>2. w[1] = from[lo] /\ w[l] = from[n]
      BY <2>4, <2>7, <3>1
    <3> QED BY <1>1, <1>3, <2>3, <2>6, <3>2
  <2>10. TrimSpace(from) = w
    <3>1. Holds(from, k, w)
      BY <1>0, <2>4, <2>6, <2>7 DEF Holds
    <3>2. Outside(from, k, w, Space)
      <4> SUFFICES ASSUME NEW i \in 1..n, i <= k \/ i > k + Len(w) PROVE from[i] = Space
        BY DEF Outside
      <4>1. i \in 1..k
        BY <1>0, <2>4, <2>6
      <4> QED BY <2>5, <4>1
    <3> QED BY <2>4, <2>6, <2>9, <3>1, <3>2, TrimIs DEF TrimSpace
  <2>11. TrimSpace(w) = w
    BY <2>6, <2>9, TrimKeeps DEF TrimSpace
  <2> QED BY <2>8, <2>10, <2>11
<1> QED BY <1>2, <1>3

\* The canonical form of a trimmed address is itself in lower case, if it is one
\* mailbox and has no space.
LEMMA CanonicalIs ==
  ASSUME NEW s \in Seq(Letter), TrimSpace(s) = s
  PROVE  CanonicalEmail(s) =
            IF (\E at : Sole(s, at)) /\ \A i \in DOMAIN s : s[i] # Space THEN {ToLower(s)} ELSE {}
<1> DEFINE r == ToLower(s)
<1>0. r \in Seq(Letter) /\ Len(r) = Len(s) /\ \A i \in 1..Len(s) : r[i] = Lowered(s[i])
  BY ToLowerIs
<1>2. CanonicalEmail(s) =
        IF \E a \in CutAt(r) : a.local # <<>> /\ a.domain # <<>> /\ CutAt(a.domain) = {} /\ \A i \in DOMAIN r : r[i] # Space
        THEN {r} ELSE {}
  BY DEF CanonicalEmail
<1> HIDE DEF r
<1>3. (\A i \in DOMAIN r : r[i] # Space) <=> \A i \in DOMAIN s : s[i] # Space
  <2>1. DOMAIN r = 1..Len(s) /\ DOMAIN s = 1..Len(s)
    BY <1>0
  <2>2. \A i \in 1..Len(s) : r[i] = Space <=> s[i] = Space
    BY <1>0, LoweredSpace
  <2> QED BY <2>1, <2>2
<1>4. \A at : Sole(r, at) <=> Sole(s, at)
  <2>1. \A i \in 1..Len(s) : r[i] = "@" <=> s[i] = "@"
    BY <1>0, LoweredIs
  <2> QED BY <1>0, <2>1 DEF Sole
<1>5. (\E a \in CutAt(r) : a.local # <<>> /\ a.domain # <<>> /\ CutAt(a.domain) = {}) <=> \E at : Sole(r, at)
  BY <1>0, CanonicalCut
<1>6. CanonicalEmail(s) = IF (\E at : Sole(s, at)) /\ \A i \in DOMAIN s : s[i] # Space THEN {r} ELSE {}
  BY <1>2, <1>3, <1>4, <1>5
<1> QED BY <1>6 DEF r

\* Trimming does not change which domain has to vouch.
LEMMA TrimmedAligned ==
  ASSUME NEW from \in Seq(Letter), NEW s \in Seq(Letter), NEW k, Trimmed(from, s, k), NEW at, Sole(s, at), NEW dkim
  PROVE  verifyAlignedDKIM(dkim, from) <=> verifyAlignedDKIM(dkim, s)
<1> DEFINE bt == k + at
           n == Len(from)
           m == Len(s)
           c == SubSeq(from, bt + 1, n)
           d == SubSeq(s, at + 1, m)
<1>0. /\ k \in Nat /\ n \in Nat /\ m \in Nat /\ n = k + m /\ (\A i \in 1..k : from[i] = Space)
      /\ \A i \in 1..m : from[k + i] = s[i]
  BY DEF Trimmed
<1>1. at \in 1..m /\ s[at] = "@" /\ \A i \in 1..m : s[i] = "@" => i = at
  BY DEF Sole
<1>2. bt \in 1..n /\ from[bt] = "@"
  BY <1>0, <1>1
<1>3. \A i \in 1..n : from[i] = "@" => bt <= i
  <2> SUFFICES ASSUME NEW i \in 1..n, from[i] = "@", ~(bt <= i) PROVE FALSE
    OBVIOUS
  <2>1. Space # "@"
    BY Zenon DEF Space
  <2>2. CASE i \in 1..k
    BY <1>0, <2>1, <2>2
  <2>3. CASE i \notin 1..k
    <3> DEFINE j == i - k
    <3>1. j \in 1..m /\ k + j = i /\ j # at
      BY <1>0, <1>1, <2>3
    <3> HIDE DEF j
    <3>2. s[j] = "@"
      BY <1>0, <3>1
    <3> QED BY <1>1, <3>1, <3>2
  <2> QED BY <2>2, <2>3
<1>4. c = d
  <2> DEFINE l == m - at
             p == bt + 1
             z == at + 1
  <2>1. /\ l \in Nat /\ p \in Nat \ {0} /\ p - 1 <= n /\ n - (p - 1) = l /\ p - 1 = bt
        /\ z \in Nat \ {0} /\ z - 1 <= m /\ m - (z - 1) = l /\ z - 1 = at
        /\ \A i \in 1..l : i + at \in 1..m /\ k + (i + at) = i + bt
    BY <1>0, <1>1
  <2> HIDE DEF l, p, z, bt
  <2>2. SubSeq(from, p, n) \in Seq(Letter) /\ Len(SubSeq(from, p, n)) = l /\ \A i \in 1..l : SubSeq(from, p, n)[i] = from[i + bt]
    <3>1. /\ SubSeq(from, p, n) \in Seq(Letter) /\ Len(SubSeq(from, p, n)) = n - (p - 1)
          /\ \A i \in 1..(n - (p - 1)) : SubSeq(from, p, n)[i] = from[i + (p - 1)]
      BY <1>0, <2>1, SubSeqIs
    <3> QED BY <2>1, <3>1
  <2>3. SubSeq(s, z, m) \in Seq(Letter) /\ Len(SubSeq(s, z, m)) = l /\ \A i \in 1..l : SubSeq(s, z, m)[i] = s[i + at]
    <3>1. /\ SubSeq(s, z, m) \in Seq(Letter) /\ Len(SubSeq(s, z, m)) = m - (z - 1)
          /\ \A i \in 1..(m - (z - 1)) : SubSeq(s, z, m)[i] = s[i + (z - 1)]
      <4>1. z \in Nat \ {0} /\ m \in Nat /\ z - 1 <= m /\ m <= Len(s)
        BY <1>0, <2>1
      <4> HIDE DEF m
      <4> QED BY <4>1, SubSeqIs
    <3> QED BY <2>1, <3>1
  <2>4. \A i \in 1..l : s[i + at] = from[i + bt]
    BY <1>0, <2>1
  <2>5. SubSeq(from, p, n) = SubSeq(s, z, m)
    <3> DEFINE u == SubSeq(from, p, n)
               v == SubSeq(s, z, m)
    <3>1. u \in Seq(Letter) /\ v \in Seq(Letter) /\ Len(u) = l /\ Len(v) = l /\ \A i \in 1..l : u[i] = v[i]
      BY <2>2, <2>3, <2>4
    <3> HIDE DEF u, v
    <3>2. u = v
      BY <3>1, SeqEqual
    <3> QED BY <3>2 DEF u, v
  <2> QED BY <2>5 DEF p, z
<1>5. CutAt(from) = {[local |-> SubSeq(from, 1, bt - 1), domain |-> c]}
  <2> HIDE DEF bt
  <2> QED BY <1>2, <1>3, CutIs
<1>6. CutAt(s) = {[local |-> SubSeq(s, 1, at - 1), domain |-> d]}
  BY SoleCut
<1> DEFINE vouch(f) == \E v \in dkim : v.ok /\ Aligned(ToLower(f), ToLower(v.domain))
<1>7. verifyAlignedDKIM(dkim, from) <=> vouch(c)
  <2> DEFINE a == [local |-> SubSeq(from, 1, bt - 1), domain |-> c]
  <2>1. a.domain = c
    OBVIOUS
  <2>2. CutAt(from) = {a}
    BY <1>5
  <2> HIDE DEF a, c
  <2> QED BY <2>1, <2>2 DEF verifyAlignedDKIM
<1>8. verifyAlignedDKIM(dkim, s) <=> vouch(d)
  <2> DEFINE a == [local |-> SubSeq(s, 1, at - 1), domain |-> d]
  <2>1. a.domain = d
    OBVIOUS
  <2>2. CutAt(s) = {a}
    BY <1>6
  <2> HIDE DEF a, d
  <2> QED BY <2>1, <2>2 DEF verifyAlignedDKIM
<1> HIDE DEF vouch, c, d
<1> QED BY <1>4, <1>7, <1>8

\* The lower case of the end of a text, element by element.
LEMMA LowerTail ==
  ASSUME NEW s \in Seq(Letter), NEW i \in 1 .. Len(s) + 1
  PROVE  LET t == ToLower(SubSeq(s, i, Len(s)))
         IN  /\ t \in Seq(Letter) /\ Len(t) = Len(s) - (i - 1)
             /\ \A j \in 1 .. Len(s) - (i - 1) : t[j] = Lowered(s[j + (i - 1)])
<1> DEFINE n == Len(s)
           w == SubSeq(s, i, n)
<1>1. i \in Nat \ {0} /\ n \in Nat /\ i - 1 <= n /\ n <= Len(s) /\ n = Len(s)
  OBVIOUS
<1> HIDE DEF n
<1>2. w \in Seq(Letter) /\ Len(w) = n - (i - 1) /\ \A j \in 1 .. n - (i - 1) : w[j] = s[j + (i - 1)]
  BY <1>1, SubSeqIs
<1> HIDE DEF w
<1>3. ToLower(w) \in Seq(Letter) /\ Len(ToLower(w)) = Len(w) /\ \A j \in 1..Len(w) : ToLower(w)[j] = Lowered(w[j])
  BY <1>2, ToLowerIs
<1> QED BY <1>2, <1>3 DEF w, n

\* A signature's domain is aligned if it is the sender's, or what follows a dot in it.
LEMMA AlignedIs ==
  ASSUME NEW from \in Seq(Letter), NEW at \in 1..Len(from), NEW d \in Seq(Letter)
  PROVE  Aligned(ToLower(SubSeq(from, at + 1, Len(from))), ToLower(d)) <=>
            \E i \in at + 1 .. Len(from) + 1 :
                ToLower(SubSeq(from, i, Len(from))) = ToLower(d) /\ (i = at + 1 \/ from[i - 1] = ".")
<1> DEFINE n == Len(from)
           name(i) == ToLower(SubSeq(from, i, n))
           f == name(at + 1)
           g == ToLower(d)
           m == Len(g)
           p == <<".">> \o g
<1>0. n \in Nat /\ at \in Nat /\ at >= 1 /\ at <= n
  OBVIOUS
<1>1. \A i \in 1 .. n + 1 : /\ name(i) \in Seq(Letter) /\ Len(name(i)) = n - (i - 1)
                            /\ \A j \in 1 .. n - (i - 1) : name(i)[j] = Lowered(from[j + (i - 1)])
  BY LowerTail
<1>2. g \in Seq(Letter) /\ m \in Nat
  BY ToLowerIs
<1> HIDE DEF name, g, m, n
<1>3. f \in Seq(Letter) /\ Len(f) = n - at /\ \A j \in 1 .. n - at : f[j] = Lowered(from[j + at])
  <2> DEFINE i == at + 1
  <2>1. i \in 1 .. n + 1 /\ i - 1 = at
    BY <1>0
  <2> HIDE DEF i
  <2>2. name(i) \in Seq(Letter) /\ Len(name(i)) = n - at /\ \A j \in 1 .. n - at : name(i)[j] = Lowered(from[j + at])
    BY <1>1, <2>1
  <2> QED BY <2>2 DEF i
<1> HIDE DEF f
<1>4. p \in Seq(Letter) /\ Len(p) = m + 1 /\ p[1] = "." /\ \A j \in 1..m : p[1 + j] = g[j]
  <2>1. <<".">> \in Seq(Letter)
    BY DEF Letter
  <2> QED BY <1>2, <2>1 DEF m
<1> HIDE DEF p
<1>5. Aligned(f, g) <=> g = f \/ (m + 1 <= n - at /\ \A j \in 1..(m + 1) : f[((n - at) - (m + 1)) + j] = p[j])
  <2>1. IsSuffix(p, f) <=> Len(p) <= Len(f) /\ \A j \in 1..Len(p) : f[(Len(f) - Len(p)) + j] = p[j]
    BY <1>3, <1>4, SuffixIs
  <2> QED BY <1>3, <1>4, <2>1 DEF Aligned, p
<1>6. ASSUME Aligned(f, g) PROVE \E i \in at + 1 .. n + 1 : name(i) = g /\ (i = at + 1 \/ from[i - 1] = ".")
  <2>1. CASE g = f
    <3>1. at + 1 \in at + 1 .. n + 1
      BY <1>0
    <3> QED BY <2>1, <3>1 DEF f
  <2>2. CASE m + 1 <= n - at /\ \A j \in 1..(m + 1) : f[((n - at) - (m + 1)) + j] = p[j]
    <3> DEFINE i == (n + 1) - m
               k == (n - at) - (m + 1)
    <3>1. /\ i \in at + 1 .. n + 1 /\ i \in 1 .. n + 1 /\ n - (i - 1) = m /\ i - 1 \in 1..n
          /\ k \in Nat /\ k + 1 \in 1 .. n - at /\ (k + 1) + at = i - 1
          /\ \A j \in 1..m : /\ k + (1 + j) \in 1 .. n - at /\ (k + (1 + j)) + at = j + (i - 1) /\ 1 + j \in 1..(m + 1)
      <4>1. m + 1 <= n - at /\ m \in Nat
        BY <1>2, <2>2
      <4>2. i \in at + 1 .. n + 1 /\ i \in 1 .. n + 1 /\ n - (i - 1) = m /\ i - 1 \in 1..n
        BY <1>0, <4>1
      <4>3. k \in Nat /\ k + 1 \in 1 .. n - at /\ (k + 1) + at = i - 1
        BY <1>0, <4>1
      <4>4. \A j \in 1..m : /\ k + (1 + j) \in 1 .. n - at /\ (k + (1 + j)) + at = j + (i - 1)
                            /\ 1 + j \in 1..(m + 1)
        BY <1>0, <4>1
      <4> QED BY <4>2, <4>3, <4>4
    <3>2. \A j \in 1..(m + 1) : f[k + j] = p[j]
      BY <2>2
    <3> HIDE DEF i, k
    <3>3. 1 \in 1..(m + 1)
      BY <1>2
    <3>4. f[k + 1] = "." /\ f[k + 1] = Lowered(from[(k + 1) + at])
      BY <1>3, <1>4, <3>1, <3>2, <3>3
    <3>5. from[i - 1] = "."
      BY <3>1, <3>4, LoweredIs
    <3>6. \A j \in 1..m : name(i)[j] = g[j]
      <4> TAKE j \in 1..m
      <4>1. f[k + (1 + j)] = p[1 + j] /\ p[1 + j] = g[j]
        BY <1>4, <3>1, <3>2
      <4>2. f[k + (1 + j)] = Lowered(from[j + (i - 1)])
        BY <1>3, <3>1
      <4>3. name(i)[j] = Lowered(from[j + (i - 1)])
        BY <1>1, <3>1
      <4> QED BY <4>1, <4>2, <4>3
    <3>7. name(i) = g
      <4>1. name(i) \in Seq(Letter) /\ Len(name(i)) = m
        BY <1>1, <3>1
      <4> QED BY <1>2, <3>6, <4>1, SeqEqual DEF m
    <3> QED BY <3>1, <3>5, <3>7
  <2> QED BY <1>5, <1>6, <2>1, <2>2
<1>7. ASSUME NEW i \in at + 1 .. n + 1, name(i) = g, i = at + 1 \/ from[i - 1] = "." PROVE Aligned(f, g)
  <2>1. CASE i = at + 1
    BY <1>5, <1>7, <2>1 DEF f
  <2>2. CASE i # at + 1 /\ from[i - 1] = "."
    <3> DEFINE k == (n - at) - (m + 1)
    <3>1. i \in 1 .. n + 1 /\ m = n - (i - 1)
      <4>1. i \in 1 .. n + 1
        BY <1>0
      <4>2. Len(name(i)) = n - (i - 1)
        BY <1>1, <4>1
      <4> QED BY <1>7, <4>1, <4>2 DEF m
    <3>2. /\ m + 1 <= n - at /\ k \in Nat /\ k + 1 \in 1 .. n - at /\ (k + 1) + at = i - 1
          /\ \A j \in 1..m : k + (1 + j) \in 1 .. n - at /\ (k + (1 + j)) + at = j + (i - 1)
      BY <1>0, <2>2, <3>1
    <3> HIDE DEF k
    <3>3. f[k + 1] = "."
      <4>1. f[k + 1] = Lowered(from[(k + 1) + at])
        BY <1>3, <3>2
      <4> QED BY <2>2, <3>2, <4>1, LoweredIs
    <3>4. ASSUME NEW j \in 1..m PROVE f[k + (1 + j)] = g[j]
      <4>1. f[k + (1 + j)] = Lowered(from[j + (i - 1)])
        BY <1>3, <3>2
      <4>2. name(i)[j] = Lowered(from[j + (i - 1)])
        BY <1>1, <3>1
      <4> QED BY <1>7, <4>1, <4>2
    <3>5. \A j \in 1..(m + 1) : f[k + j] = p[j]
      <4> TAKE j \in 1..(m + 1)
      <4>1. CASE j = 1
        BY <1>4, <3>3, <4>1
      <4>2. CASE j # 1
        <5> DEFINE l == j - 1
        <5>1. l \in 1..m /\ 1 + l = j
          BY <1>2, <4>2
        <5> HIDE DEF l
        <5> QED BY <1>4, <3>4, <5>1
      <4> QED BY <4>1, <4>2
    <3> QED BY <1>5, <3>2, <3>5 DEF k
  <2> QED BY <1>7, <2>1, <2>2
<1> QED BY <1>6, <1>7 DEF f, g, name, n

\* A sender is accepted exactly if a signature vouches for the one mailbox it is.
LEMMA BelievedIs ==
  ASSUME NEW from \in Seq(Letter), SpacesBeforeAt(from), NEW dkim,
         \A v \in dkim : v.domain \in Seq(Letter), NEW dev \in BOOLEAN
  PROVE  (IF dev \/ verifyAlignedDKIM(dkim, from) THEN CanonicalEmail(from) ELSE {})
            = IF Believed(TrimSpace(from), dkim, dev) THEN {ToLower(TrimSpace(from))} ELSE {}
<1> DEFINE s == TrimSpace(from)
           vouched(at) == \E v \in dkim : v.ok /\ \E i \in at + 1 .. Len(s) + 1 :
                ToLower(SubSeq(s, i, Len(s))) = ToLower(v.domain) /\ (i = at + 1 \/ s[i - 1] = ".")
           plain == \A i \in DOMAIN s : s[i] # Space
<1>0. PICK k : Trimmed(from, s, k) /\ TrimSpace(s) = s
  BY TrimFront
<1>1. CanonicalEmail(from) = CanonicalEmail(s)
  BY <1>0 DEF CanonicalEmail
<1> HIDE DEF s
<1>2. s \in Seq(Letter)
  BY <1>0 DEF Trimmed
<1>3. Believed(s, dkim, dev) <=> \E at : Sole(s, at) /\ plain /\ (dev \/ vouched(at))
  <2>1. DOMAIN s = 1..Len(s)
    BY <1>2
  <2>2. Believed(s, dkim, dev) <=>
           \E at \in DOMAIN s : /\ s[at] = "@" /\ \A i \in DOMAIN s : s[i] = "@" => i = at
                                /\ at # 1 /\ at # Len(s) /\ plain
                                /\ dev \/ vouched(at)
    BY DEF Believed
  <2> HIDE DEF vouched, plain
  <2> QED BY <2>1, <2>2 DEF Sole
<1>4. CanonicalEmail(s) = IF (\E at : Sole(s, at)) /\ plain THEN {ToLower(s)} ELSE {}
  BY <1>0, <1>2, CanonicalIs
<1>5. ASSUME NEW at, Sole(s, at) PROVE verifyAlignedDKIM(dkim, from) <=> vouched(at)
  <2>1. at \in 1..Len(s)
    BY <1>5 DEF Sole
  <2> DEFINE a == [local |-> SubSeq(s, 1, at - 1), domain |-> SubSeq(s, at + 1, Len(s))]
             f == ToLower(SubSeq(s, at + 1, Len(s)))
  <2>2. CutAt(s) = {a}
    BY <1>2, <1>5, SoleCut
  <2>3. a.domain = SubSeq(s, at + 1, Len(s))
    OBVIOUS
  <2> HIDE DEF a
  <2>4. verifyAlignedDKIM(dkim, s) <=> \E v \in dkim : v.ok /\ Aligned(f, ToLower(v.domain))
    BY <2>2, <2>3 DEF verifyAlignedDKIM
  <2>5. \A v \in dkim : Aligned(f, ToLower(v.domain)) <=>
           \E i \in at + 1 .. Len(s) + 1 :
                ToLower(SubSeq(s, i, Len(s))) = ToLower(v.domain) /\ (i = at + 1 \/ s[i - 1] = ".")
    BY <1>2, <2>1, AlignedIs
  <2>6. verifyAlignedDKIM(dkim, from) <=> verifyAlignedDKIM(dkim, s)
    BY <1>0, <1>2, <1>5, TrimmedAligned
  <2> QED BY <2>4, <2>5, <2>6
<1>6. \A at, bt : Sole(s, at) /\ Sole(s, bt) => at = bt
  BY DEF Sole
<1> HIDE DEF vouched, plain
<1>7. (IF dev \/ verifyAlignedDKIM(dkim, from) THEN CanonicalEmail(from) ELSE {})
         = IF Believed(s, dkim, dev) THEN {ToLower(s)} ELSE {}
  BY <1>1, <1>3, <1>4, <1>5, <1>6
<1> QED BY <1>7 DEF s

\* What MailProvesSender says of one mail.
MailProves(to, from, dkim, cfg) ==
    LET first == {n \in DOMAIN to : NamedBy(cfg, to[n]) # {} /\ \A m \in 1 .. n - 1 : NamedBy(cfg, to[m]) = {}}
        waiting == {s \in DOMAIN LiveSessions : LiveSessions[s] = "send"}
        sender == TrimSpace(from)
    IN  incomingMail(LiveSessions, cfg, [to |-> to, from |-> from, dkim |-> dkim]) =
            {[session |-> s, mailbox |-> ToLower(sender)]
                : s \in {t \in waiting : /\ Believed(sender, dkim, cfg.Dev)
                                         /\ \E n \in first : t \in NamedBy(cfg, to[n])}}

\* What a mail proves, for every configuration, list of recipients, sender and set
\* of signatures.
LEMMA MailIs ==
  ASSUME NEW cfg, ConfigSound(cfg), NEW to \in Seq(Seq(Letter)), NEW from \in Seq(Letter), SpacesBeforeAt(from),
         NEW dkim, \A v \in dkim : v.domain \in Seq(Letter)
  PROVE  MailProves(to, from, dkim, cfg)
<1> DEFINE first == {n \in DOMAIN to : NamedBy(cfg, to[n]) # {} /\ \A m \in 1 .. n - 1 : NamedBy(cfg, to[m]) = {}}
           waiting == {s \in DOMAIN LiveSessions : LiveSessions[s] = "send"}
           mail == [to |-> to, from |-> from, dkim |-> dkim]
           A == {t \in sessionTagFromRecipients(cfg, to) : t \in DOMAIN LiveSessions /\ LiveSessions[t] = "send"}
           B == IF cfg.Dev \/ verifyAlignedDKIM(dkim, from) THEN CanonicalEmail(from) ELSE {}
           low == ToLower(TrimSpace(from))
           bel == Believed(TrimSpace(from), dkim, cfg.Dev)
           C == {t \in waiting : bel /\ \E n \in first : t \in NamedBy(cfg, to[n])}
<1> SUFFICES incomingMail(LiveSessions, cfg, mail) = {[session |-> s, mailbox |-> low] : s \in C}
  BY DEF MailProves
<1>1. mail.to = to /\ mail.from = from /\ mail.dkim = dkim
  OBVIOUS
<1>2. incomingMail(LiveSessions, cfg, mail) = {[session |-> s, mailbox |-> c] : s \in A, c \in B}
  <2> HIDE DEF mail
  <2> QED BY <1>1 DEF incomingMail
<1>3. sessionTagFromRecipients(cfg, to) = UNION {NamedBy(cfg, to[n]) : n \in first}
  BY SessionIs
<1>4. B = IF bel THEN {low} ELSE {}
  <2>1. cfg.Dev \in BOOLEAN
    BY DEF ConfigSound
  <2> QED BY <2>1, BelievedIs
<1> HIDE DEF B, bel, low, first, mail
<1>5. A = {t \in waiting : \E n \in first : t \in NamedBy(cfg, to[n])}
  BY <1>3
<1> HIDE DEF A, waiting
<1>6. CASE bel
  <2>1. C = A /\ B = {low}
    BY <1>4, <1>5, <1>6
  <2> HIDE DEF C
  <2>2. {[session |-> s, mailbox |-> c] : s \in A, c \in B} = {[session |-> s, mailbox |-> low] : s \in C}
    BY <2>1
  <2> QED BY <1>2, <2>2
<1>7. CASE ~bel
  <2>1. C = {} /\ B = {}
    BY <1>4, <1>7
  <2> HIDE DEF C
  <2>2. {[session |-> s, mailbox |-> c] : s \in A, c \in B} = {[session |-> s, mailbox |-> low] : s \in C}
    BY <2>1
  <2> QED BY <1>2, <2>2
<1> QED BY <1>6, <1>7
-----------------------------------------------------------------------------
(* Every input.                                                            *)

\* Two documents of a kind never have the same bytes.
LEMMA DocumentsBind ==
  ASSUME NEW kind \in SignedKinds, NEW c \in Documents(kind), NEW d \in Documents(kind),
         BytesRead(kind, c) \cap BytesRead(kind, d) # {}
  PROVE  c = d
<1>1. CASE kind = "binding"
  <2>1. BytesRead(kind, c) = {BindingInput(c)} /\ BytesRead(kind, d) = {BindingInput(d)}
    BY <1>1 DEF BytesRead
  <2>2. c \in Seq(Seq(Nat)) /\ d \in Seq(Seq(Nat))
    BY <1>1, SignedDocuments
  <2> QED BY <2>1, <2>2, BatchBinds
<1>2. CASE kind = "pseudonym"
  <2>1. BytesRead(kind, c) = {PseudonymInput(c)} /\ BytesRead(kind, d) = {PseudonymInput(d)}
    BY <1>2 DEF BytesRead
  <2>2. c \in [origin : Seq(Nat), holder : Seq(Nat)] /\ d \in [origin : Seq(Nat), holder : Seq(Nat)]
    BY <1>2, SignedDocuments
  <2> QED BY <2>1, <2>2, PseudonymBinds
<1>3. CASE kind = "presentation"
  <2>1. BytesRead(kind, c) = {PresentationMessage(c)} /\ BytesRead(kind, d) = {PresentationMessage(d)}
    BY <1>3 DEF BytesRead
  <2>2. c \in PresentationDoc /\ d \in PresentationDoc
    BY <1>3, SignedDocuments DEF PresentationDoc
  <2> QED BY <2>1, <2>2, PresentationBinds
<1>4. CASE kind = "context"
  <2>1. BytesRead(kind, c) = formatMsg(c) /\ BytesRead(kind, d) = formatMsg(d)
    BY <1>4 DEF BytesRead
  <2>2. c \in [ctx : Seq(Nat), msg : Seq(Nat)] /\ d \in [ctx : Seq(Nat), msg : Seq(Nat)]
    BY <1>4, SignedDocuments
  <2> QED BY <2>1, <2>2, ContextBinds
<1> QED BY <1>1, <1>2, <1>3, <1>4 DEF SignedKinds

\* What RoundingExact says of one input.
RoundsExactly(doc) ==
    LET t == power2Round(13, doc.r) IN
    /\ decompose(doc.p, doc.r) = FipsDecompose(doc.p, doc.r)
    /\ t[1] * 2^13 + t[2] = doc.r /\ t[2] > -(2^12) /\ t[2] <= 2^12
    /\ useHint(doc.p, makeHint(doc.p, Canonical(doc.z), doc.r), doc.r) = highBits(doc.p, addQ(doc.r, Canonical(doc.z)))

\* Every residue, hint and gamma2 is rounded exactly.
LEMMA EveryRounding ==
  ASSUME NEW doc \in Documents("rounding")
  PROVE  RoundsExactly(doc)
<1> DEFINE p == doc.p
           r == doc.r
           z == doc.z
<1>1. p.Gamma2 \in Gammas /\ r \in 0 .. q - 1 /\ z \in -p.Gamma2 .. p.Gamma2
  BY RoundedDocuments, Zenon
<1> HIDE DEF p, r, z
<1>2. Gammas = {95232, 261888} /\ q - 1 = 8380416
  BY SMT DEF Gammas, q
<1>3. p.Gamma2 \in {95232, 261888} /\ r \in Int /\ 0 <= r /\ r <= 8380416
  BY <1>1, <1>2, SMT
<1>4. z \in Int /\ -p.Gamma2 <= z /\ z <= p.Gamma2
  BY <1>1, <1>3, SMT
<1>5. decompose(p, r) = FipsDecompose(p, r)
  <2>1. CASE p.Gamma2 = 95232
    BY <1>3, <2>1, DecomposeIsFips88, SMT
  <2>2. CASE p.Gamma2 = 261888
    BY <1>3, <2>2, DecomposeIsFips32, SMT
  <2> QED BY <1>3, <2>1, <2>2, SMT
<1>6. LET t == power2Round(13, r) IN t[1] * 2^13 + t[2] = r /\ t[2] > -(2^12) /\ t[2] <= 2^12
  BY <1>3, Power2RoundSplits, SMT
<1>7. useHint(p, makeHint(p, Canonical(z), r), r) = highBits(p, addQ(r, Canonical(z)))
  BY <1>3, <1>4, HintRecovers, SMT
<1> QED BY <1>5, <1>6, <1>7, SMT DEF RoundsExactly, p, r, z

\* A step that takes a document, a token or a header.
LEMMA WireStep ==
  ASSUME WireInputs
  PROVE  EncodingsFaithful' /\ MailProvesSender'
<1>1. ASSUME NEW kind \in SignedKinds, NEW doc \in Documents(kind),
             input' = [alg |-> "wire", part |-> "document", kind |-> kind, doc |-> doc]
      PROVE  EncodingsFaithful' /\ MailProvesSender'
  <2>1. input'.alg = "wire" /\ input'.part = "document" /\ input'.kind = kind /\ input'.doc = doc
    BY <1>1
  <2>2. SignedBytesUnique'
    BY <2>1, DocumentsBind DEF SignedBytesUnique
  <2>3. TokensCarried'
    BY <2>1 DEF TokensCarried
  <2>4. RoundingExact' /\ HintEncodingUnique' /\ MailProvesSender'
    BY <2>1 DEF RoundingExact, HintEncodingUnique, MailProvesSender
  <2> QED BY <2>2, <2>3, <2>4 DEF EncodingsFaithful
<1>2. ASSUME NEW part \in {"authorization", "burn", "private", "bytes", "header"}, NEW doc \in Documents(part),
             input' = [alg |-> "wire", part |-> part, doc |-> doc]
      PROVE  EncodingsFaithful' /\ MailProvesSender'
  <2>1. input'.alg = "wire" /\ input'.part = part /\ input'.doc = doc
    BY <1>2
  <2>2. SignedBytesUnique'
    <3>1. CASE part = "authorization"
      <4>1. Documents("authorization") \subseteq AuthorizationDoc /\ Documents("time") \subseteq Nat
        BY SignedDocuments DEF AuthorizationDoc
      <4>2. \A a \in Documents("authorization"), now \in Documents("time") :
                VerifyAuthorization(a, SignAuthorization(doc), now)
                    <=> /\ [a EXCEPT !.bindingHex = binding(a)] = [doc EXCEPT !.bindingHex = binding(doc)]
                        /\ binding(a) # {} /\ now <= a.exp /\ a.maxBatch > 0
        BY <3>1, <4>1, AuthorizationBinds
      <4> QED BY <2>1, <3>1, <4>2 DEF SignedBytesUnique
    <3>2. CASE part # "authorization"
      BY <2>1, <3>2 DEF SignedBytesUnique
    <3> QED BY <3>1, <3>2
  <2>3. TokensCarried'
    <3>1. part = "burn" => ParseBurnToken(BurnBytes(doc)) = {doc}
      BY CarriedDocuments, BurnParses DEF BurnDoc
    <3>2. part = "private" => ParsePrivateIdentityToken(PrivateIdentityBytes(doc)) = {doc}
      BY CarriedDocuments, PrivateParses DEF PrivateDoc
    <3>3. part = "bytes" =>
            /\ \A t \in ParseBurnToken(doc) : BurnBytes(t) = doc /\ Len(t.auth) > authenticatorRandomLength
            /\ \A t \in ParsePrivateIdentityToken(doc) :
                    PrivateIdentityBytes(t) = doc /\ Len(t.auth) > authenticatorRandomLength
            /\ ParseBurnToken(doc) = {} \/ ParsePrivateIdentityToken(doc) = {}
      BY CarriedDocuments, BytesParsed
    <3>4. part = "header" =>
            /\ ParseWWWAuthenticate(HeaderOf(doc).www) = {<<doc.c, doc.k>>}
            /\ ParseAuthorization(HeaderOf(doc).authorization) = {doc.c}
            /\ ParseAuthorization(HeaderOf(doc).www) = {}
      BY CarriedDocuments, HeadersRead DEF HeaderDoc
    <3> QED BY <2>1, <3>1, <3>2, <3>3, <3>4 DEF TokensCarried
  <2>4. RoundingExact' /\ HintEncodingUnique' /\ MailProvesSender'
    BY <2>1 DEF RoundingExact, HintEncodingUnique, MailProvesSender
  <2> QED BY <2>2, <2>3, <2>4 DEF EncodingsFaithful
<1> QED BY <1>1, <1>2 DEF WireInputs

\* A step that takes a residue.
LEMMA RoundingStep ==
  ASSUME RoundingInputs
  PROVE  EncodingsFaithful' /\ MailProvesSender'
<1>1. PICK doc \in Documents("rounding") : input' = [alg |-> "rounding", part |-> "input", doc |-> doc]
  BY DEF RoundingInputs
<1>2. input'.alg = "rounding" /\ input'.part = "input" /\ input'.doc = doc
  BY <1>1
<1>3. RoundingExact'
  <2>1. RoundsExactly(doc)
    BY EveryRounding
  <2> QED BY <1>2, <2>1 DEF RoundingExact, RoundsExactly, FipsDecompose
<1>4. SignedBytesUnique' /\ TokensCarried' /\ HintEncodingUnique' /\ MailProvesSender'
  BY <1>2 DEF SignedBytesUnique, TokensCarried, HintEncodingUnique, MailProvesSender
<1> QED BY <1>3, <1>4 DEF EncodingsFaithful

\* A step that takes a hint vector or its bytes.
LEMMA HintStep ==
  ASSUME HintInputs
  PROVE  EncodingsFaithful' /\ MailProvesSender'
<1>0. input'.alg = "hints" /\ (input'.part = "input" \/ input'.part = "packed")
  BY DEF HintInputs
<1>1. SignedBytesUnique' /\ TokensCarried' /\ RoundingExact' /\ MailProvesSender'
  BY <1>0 DEF SignedBytesUnique, TokensCarried, RoundingExact, MailProvesSender
<1>2. /\ \A src \in Documents("encodedHint") : Encoded(HintShape, src)
      /\ \A h \in Documents("hint") : HintVector(HintShape, h)
  BY RoundedDocuments DEF Encoded, HintVector
<1>3. ASSUME NEW src \in Documents("encodedHint"), input' = [alg |-> "hints", part |-> "input", doc |-> src]
      PROVE  HintEncodingUnique'
  <2>1. input'.alg = "hints" /\ input'.part = "input" /\ input'.doc = src
    BY <1>3
  <2>2. \A h \in hintBitUnpack(HintShape, src) : hintBitPack(HintShape, h) = src
    BY <1>2, HintsEncodeUniquely
  <2> QED BY <2>1, <2>2 DEF HintEncodingUnique
<1>4. ASSUME NEW h \in Documents("hint"), input' = [alg |-> "hints", part |-> "packed", doc |-> h]
      PROVE  HintEncodingUnique'
  <2>1. input'.alg = "hints" /\ input'.part = "packed" /\ input'.doc = h
    BY <1>4
  <2>2. hintBitUnpack(HintShape, hintBitPack(HintShape, h)) = {h}
    BY <1>2, HintsEncodeUniquely
  <2> QED BY <2>1, <2>2 DEF HintEncodingUnique
<1>5. HintEncodingUnique'
  BY <1>3, <1>4 DEF HintInputs
<1> QED BY <1>1, <1>5 DEF EncodingsFaithful

\* A step that takes a mail.
LEMMA MailStep ==
  ASSUME MailInputs
  PROVE  EncodingsFaithful' /\ MailProvesSender'
<1>1. PICK doc \in Documents("mail") : input' = [alg |-> "mail", part |-> "input", doc |-> doc]
  BY DEF MailInputs
<1>2. input'.alg = "mail" /\ input'.part = "input" /\ input'.doc = doc
  BY <1>1
<1>3. EncodingsFaithful'
  BY <1>2 DEF EncodingsFaithful, SignedBytesUnique, TokensCarried, RoundingExact, HintEncodingUnique
<1> DEFINE to == doc.to
           from == doc.from
<1>4. doc \in [to : Seq(Seq(STRING)), from : Seq(STRING)] /\ SpacesBeforeAt(from)
  BY MailDocuments DEF SpacesBeforeAt
<1>5. to \in Seq(Seq(STRING)) /\ from \in Seq(STRING)
  BY <1>4
<1> HIDE DEF to, from
<1>6. from \in Seq(Letter) /\ to \in Seq(Seq(Letter)) /\ \A s \in Seq(STRING) : s \in Seq(Letter)
  <2>1. \A s \in Seq(STRING) : s \in Seq(Letter)
    BY DEF Letter
  <2>2. \A i \in 1..Len(to) : to[i] \in Seq(Letter)
    BY <1>5, <2>1
  <2> QED BY <1>5, <2>1, <2>2
<1>7. \A dkim \in Documents("dkim") : \A v \in dkim : v.domain \in Seq(Letter)
  <2>1. \A dkim \in Documents("dkim") : dkim \subseteq [domain : Seq(STRING), ok : BOOLEAN]
    BY MailDocuments
  <2> QED BY <2>1 DEF Letter
<1>8. \A cfg \in Documents("config") : ConfigSound(cfg)
  <2> TAKE cfg \in Documents("config")
  <2>1. cfg \in [VerifyLocalPart : Seq(STRING), MailDomain : Seq(STRING), Dev : BOOLEAN]
    BY MailDocuments
  <2>2. cfg.VerifyLocalPart \in Seq(STRING) /\ cfg.MailDomain \in Seq(STRING) /\ cfg.Dev \in BOOLEAN
    BY <2>1
  <2> QED BY <1>6, <2>2 DEF ConfigSound
<1>9. \A dkim \in Documents("dkim"), cfg \in Documents("config") : MailProves(to, from, dkim, cfg)
  BY <1>4, <1>6, <1>7, <1>8, MailIs
<1>10. MailProvesSender'
  <2>1. input'.doc.to = to /\ input'.doc.from = from
    BY <1>2 DEF to, from
  <2>2. (\A dkim \in Documents("dkim"), cfg \in Documents("config") : MailProves(input'.doc.to, input'.doc.from, dkim, cfg))
            => MailProvesSender'
    BY DEF MailProvesSender, MailProves
  <2> QED BY <1>9, <2>1, <2>2
<1> QED BY <1>3, <1>10

\* Whatever input is taken, the properties hold of it.
LEMMA EncodingStep ==
  ASSUME EncodingNext
  PROVE  EncodingsFaithful' /\ MailProvesSender'
  BY WireStep, RoundingStep, HintStep, MailStep DEF EncodingNext

\* Before an input is taken nothing is claimed.
LEMMA EncodingStarts ==
  ASSUME input.part = "start"
  PROVE  EncodingsFaithful /\ MailProvesSender
  BY DEF EncodingsFaithful, SignedBytesUnique, TokensCarried, RoundingExact, HintEncodingUnique, MailProvesSender

\* Whatever is signed, hashed, carried, rounded or encoded (tokenprofile,
\* tokenauth, mldsa) is one thing to its reader: no two documents have the same
\* bytes, an authorization verifies only as it was signed, a parsed token, a
\* parsed header and an unpacked hint vector are what was written, and useHint
\* recovers the high bits the signer had, for every input there is.
THEOREM EncodingsAreFaithful == EncodingSpec => []EncodingsFaithful
<1>1. EncodingInit => EncodingsFaithful
  BY EncodingStarts DEF EncodingInit
<1>2. EncodingsFaithful /\ [EncodingNext]_input => EncodingsFaithful'
  <2>1. CASE EncodingNext
    BY <2>1, EncodingStep
  <2>2. CASE UNCHANGED input
    BY <2>2 DEF EncodingsFaithful, SignedBytesUnique, TokensCarried, RoundingExact, HintEncodingUnique
  <2> QED BY <2>1, <2>2
<1> QED BY <1>1, <1>2, PTL DEF EncodingSpec

\* A mail proves its sender, trimmed and in lower case, to the session of its
\* first verify address, and to no other, and only if a valid signature is of the
\* sender's domain or of a parent of it; under a local part that is not in lower
\* case it proves nothing (issuerd's handleIncomingMail), for every mail, every
\* configuration and whatever sessions are waiting.
THEOREM MailsProveSenders == EncodingSpec => []MailProvesSender
<1>1. EncodingInit => MailProvesSender
  BY EncodingStarts DEF EncodingInit
<1>2. MailProvesSender /\ [EncodingNext]_input => MailProvesSender'
  <2>1. CASE EncodingNext
    BY <2>1, EncodingStep
  <2>2. CASE MailProvesSender /\ UNCHANGED input
    <3> DEFINE P(doc) == \A dkim \in Documents("dkim"), cfg \in Documents("config") :
                            MailProves(doc.to, doc.from, dkim, cfg)
    <3>1. MailProvesSender <=> ((input.alg = "mail" /\ input.part = "input") => P(input.doc))
      BY DEF MailProvesSender, MailProves
    <3>2. MailProvesSender' <=> ((input'.alg = "mail" /\ input'.part = "input") => P(input'.doc))
      BY DEF MailProvesSender, MailProves
    <3> HIDE DEF P
    <3> QED BY <2>2, <3>1, <3>2
  <2> QED BY <2>1, <2>2
<1> QED BY <1>1, <1>2, PTL DEF EncodingSpec
=============================================================================
