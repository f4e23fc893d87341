---------------------------- MODULE Presentation ----------------------------
(***************************************************************************)
(* emailtoken, the EVP request signature and the private identity of       *)
(* tokenprofile: the rows that a holder presents with a proof of its key.  *)
(* Issuers sign tokens, holders (some of them dishonest) sign proofs for   *)
(* any token, and the network combines any token with any proof.  Verifiers*)
(* keep no state, so what they accept is a predicate of what has been      *)
(* signed.  The state is who signed what; what travels is made from it.    *)
(*                                                                         *)
(* A signature is the key that made it and what it covers; a kid is the    *)
(* key it is the hash of; sd_hash and the token digest are the token.      *)
(* Times and durations are counted in ticks, Second of them to a second of *)
(* the claims.  Every party reads a clock of its own: a time is an input.  *)
(***************************************************************************)
EXTENDS Integers, FiniteSets

CONSTANTS
    Issuer,       \* the Ed25519 signer whose tokens verifiers accept
    PQIssuer,     \* the ML-DSA-44 signer of the same issuer
    Epoch,        \* the blind signing keys, by key version
    OKP,          \* holder keys of type OKP/Ed25519
    AKP,          \* holder keys of type AKP/ML-DSA-44
    FAEST,        \* holder keys of FAEST-128s, for private identities only
    Mallory,      \* a holder that also signs tokens of its own making
    Server,       \* authorities that browsers send requests to
    Home,         \* the authority of this server
    Email, Audience, Nonce,
    Policy,       \* what decisions bind a policy token to, "" for nothing
    Second,       \* ticks in a second
    Time,         \* what clocks show, in ticks
    TTL,          \* lifetimes that services give tokens, 0 for none, in ticks
    EVTMaxAge, KBMaxAge, MaxSkew,   \* in ticks
    SigMaxAge,    \* evpSigMaxAgeSecs
    MaxTokens, MaxProofs, MaxSigned, MaxShown

\* 0 is Go's zero time and, in exp, a claim not set; no clock shows it.
ASSUME PresentationAssumption ==
    /\ Mallory \in OKP /\ Home \in Server
    /\ Second \in Nat \ {0} /\ Time \subseteq Nat /\ \A t \in Time : t >= Second
    /\ {EVTMaxAge, KBMaxAge, SigMaxAge, MaxSkew} \subseteq Nat
    /\ TTL \subseteq Nat

\* A key is of one type, and no holder has a key of the issuer.
ASSUME KeysApart ==
    /\ OKP \cap AKP = {} /\ FAEST \cap (OKP \cup AKP) = {} /\ Issuer # PQIssuer
    /\ {Issuer, PQIssuer} \cap (OKP \cup AKP) = {}

VARIABLES
    requests,   \* [key, to, created] that browsers signed to ask for an EVT
    issued,     \* [row, email, holder, policy, at, ttl, req] that the issuer signed,
                \* req the request it answered, if one
    pids,       \* private identity tokens with the key that signed them
    presented,  \* [holder, token, aud, nonce, at] that holders signed in KB-JWTs
    shown       \* [holder, token, origin, nonce, at] that holders signed to show
                \* a private identity

vars == <<requests, issued, pids, presented, shown>>

Holder == OKP \cup AKP
Owner == Holder \cup FAEST
Row == {"evt", "policy", "policyPQ"}
Alg(key) == IF key \in AKP \cup {PQIssuer} THEN "ML-DSA-44" ELSE "EdDSA"

\* time.Unix: whole seconds.
Unix(t) == t \div Second

Distance(a, b) == IF a < b THEN b - a ELSE a - b

\* The bounds on what is signed.  Email tokens and private identities do not read
\* each other's state, so that a behaviour is of one kind or of the other.
RoomToSign ==
    pids = {} /\ Cardinality(requests) + Cardinality(issued) + Cardinality(presented) < MaxSigned
RoomForToken == RoomToSign /\ Cardinality(issued) < MaxTokens
RoomForProof == RoomToSign /\ Cardinality(presented) < MaxProofs
RoomForIdentity == requests \cup issued \cup presented = {} /\ Cardinality(pids) < MaxTokens
RoomToShow == Cardinality(shown) < MaxShown

Init == requests = {} /\ issued = {} /\ pids = {} /\ presented = {} /\ shown = {}

-----------------------------------------------------------------------------
(* Issuing.                                                                *)

\* A compact JWS and what is around it: signJWS and pqSignJWS.
JWS(key, typ, kid, claims) ==
    [key |-> key, alg |-> Alg(key), typ |-> typ, kid |-> kid, claims |-> claims]

TypOf(row) == IF row = "evt" THEN "evt+jwt" ELSE "tamayo-policy-email+jwt"
SignerOf(row) == IF row = "policyPQ" THEN PQIssuer ELSE Issuer

\* The exp claim, left out when there is no lifetime.
Exp(at, ttl) == IF ttl > 0 THEN Unix(at + ttl) ELSE 0

\* The token for i, signed with key.
EmailToken(key, i) ==
    JWS(key, TypOf(i.row), SignerOf(i.row),
        [iss |-> Issuer, iat |-> Unix(i.at), exp |-> Exp(i.at, i.ttl),
         cnf |-> i.holder, email |-> i.email, policy |-> i.policy])

\* checkHolderJWK, and Ed25519PublicKey where AKP keys are not allowed.
checkHolderJWK(key, allowAKP) == key \in OKP \/ (allowAKP /\ key \in AKP)

\* The signer of the row: at is the caller's time.
Issue(row, email, holder, policy, at, ttl, req) ==
    /\ RoomForToken
    /\ email # "" /\ checkHolderJWK(holder, row = "policyPQ")
    /\ issued' = issued \cup
        {[row |-> row, email |-> email, holder |-> holder, policy |-> policy,
          at |-> at, ttl |-> ttl, req |-> req]}
    /\ UNCHANGED <<requests, pids, presented, shown>>

\* IssueGoogleEVT, IssuePolicyEmail and IssuePolicyEmailPQ for a service that
\* has verified the address.
IssueGoogleEVT(email, holder, at, ttl) == Issue("evt", email, holder, "", at, ttl, {})

checkPolicyBinding(policy) == policy # ""

IssuePolicyEmail(email, holder, policy, at, ttl) ==
    checkPolicyBinding(policy) /\ Issue("policy", email, holder, policy, at, ttl, {})
IssuePolicyEmailPQ(email, holder, policy, at, ttl) ==
    checkPolicyBinding(policy) /\ Issue("policyPQ", email, holder, policy, at, ttl, {})

\* Mutant: a request is good for every server.
evpSignatureBaseAnywhere(authority, key, created) == <<key, created>>

\* evpSignatureBase: method and path are fixed, the body is not covered.
evpSignatureBase(authority, key, created) == <<authority, key, created>>

\* signEVPRequest: the browser writes any creation time, in seconds.
SignRequest(browser, authority, created) ==
    /\ RoomToSign
    /\ requests' = requests \cup {[key |-> browser, to |-> authority, created |-> created]}
    /\ UNCHANGED <<issued, pids, presented, shown>>

SignatureOf(r) == [key |-> r.key, base |-> evpSignatureBase(r.to, r.key, r.created)]

\* verifyEVPMessageSignature of headers that name a key and a time.
verifyEVPMessageSignature(sig, authority, key, created, now) ==
    /\ key \in OKP
    /\ Distance(created, now) <= SigMaxAge
    /\ sig.key = key /\ sig.base = evpSignatureBase(authority, key, created)

\* handleEVPIssuance once the mailed code is verified: the time in seconds is
\* the time of issue too, and no lifetime is set.
IssueEVT(r, key, created, email, now) ==
    /\ verifyEVPMessageSignature(SignatureOf(r), Home, key, created, Unix(now))
    /\ Issue("evt", email, key, "", Unix(now) * Second, 0, {r})

\* HolderAlg of a key, and the length of its public key: holderPubLen.  Keys of
\* Ed25519 and FAEST-128s are of one length.
HolderAlg(key) ==
    CASE key \in OKP -> "Ed25519" [] key \in AKP -> "MLDSA44" [] key \in FAEST -> "FAEST128s"
PubLen(alg) == IF alg = "MLDSA44" THEN 1312 ELSE 32

\* A blind signature under the key of epoch on an input of the holder's choice,
\* which parses if the length of the key is that of the algorithm it names.  named
\* is the key that the input names, by version and key ID.
MintPrivateIdentity(epoch, named, alg, holder) ==
    /\ RoomForIdentity
    /\ PubLen(HolderAlg(holder)) = PubLen(alg)
    /\ pids' = pids \cup
        {[key |-> epoch, named |-> named, holderAlg |-> alg, holderPub |-> holder]}
    /\ UNCHANGED <<requests, issued, presented, shown>>

-----------------------------------------------------------------------------
(* Presenting.                                                             *)

Tokens == {EmailToken(SignerOf(i.row), i) : i \in issued}

\* What Mallory passes off as tokens: self-signed, for its own key.
Forged ==
    {EmailToken(Mallory, i) :
        i \in [row : Row, email : Email, holder : {Mallory}, policy : Policy \ {""}, at : Time,
               ttl : {0}, req : {{}}]}

\* SignKBJWT and SignKBJWTMLDSA44: any token, the holder's or not, any time.
SignKBJWT(holder, token, aud, nonce, at) ==
    /\ RoomForProof
    /\ presented' = presented \cup
        {[holder |-> holder, token |-> token, aud |-> aud, nonce |-> nonce, at |-> at]}
    /\ UNCHANGED <<requests, issued, pids, shown>>

KBJWT(p) ==
    JWS(p.holder, "kb+jwt", "",
        [aud |-> p.aud, nonce |-> p.nonce, iat |-> Unix(p.at), sd_hash |-> p.token])

\* PrivateIdentityPresentationMessage
Message(origin, nonce, token, issuedAt) == <<origin, nonce, token, issuedAt>>

\* The holder's device: any token, any origin, "" too, any time.
SignPrivateIdentity(holder, token, origin, nonce, at) ==
    /\ RoomToShow
    /\ shown' = shown \cup
        {[holder |-> holder, token |-> token, origin |-> origin, nonce |-> nonce, at |-> at]}
    /\ UNCHANGED <<requests, issued, pids, presented>>

Proof(s) == [key |-> s.holder, message |-> Message(s.origin, s.nonce, s.token, Unix(s.at))]

Next ==
    \/ \E email \in Email, holder \in Holder, at \in Time, ttl \in TTL :
        \/ IssueGoogleEVT(email, holder, at, ttl)
        \/ \E policy \in Policy :
            \/ IssuePolicyEmail(email, holder, policy, at, ttl)
            \/ IssuePolicyEmailPQ(email, holder, policy, at, ttl)
    \/ \E browser \in OKP, authority \in Server, t \in Time :
        SignRequest(browser, authority, Unix(t))
    \/ \E r \in requests, key \in OKP, t \in Time, email \in Email, now \in Time :
        IssueEVT(r, key, Unix(t), email, now)
    \/ \E epoch, named \in Epoch, alg \in {"Ed25519", "MLDSA44", "FAEST128s"}, holder \in Owner :
        MintPrivateIdentity(epoch, named, alg, holder)
    \/ \E holder \in Holder, token \in Tokens \cup Forged, aud \in Audience, nonce \in Nonce, at \in Time :
        SignKBJWT(holder, token, aud, nonce, at)
    \/ \E holder \in Owner, token \in pids, origin \in Audience \cup {""}, nonce \in Nonce, at \in Time :
        SignPrivateIdentity(holder, token, origin, nonce, at)

Spec == Init /\ [][Next]_vars

-----------------------------------------------------------------------------
(* Verifying.                                                              *)

\* verifyJWS, of an Ed25519 key, and pqVerifyJWS, of an ML-DSA-44 key.
verifyJWS(jws, pub) == Alg(pub) = "EdDSA" /\ jws.alg = "EdDSA" /\ jws.key = pub
pqVerifyJWS(jws, pub) == Alg(pub) = "ML-DSA-44" /\ jws.alg = "ML-DSA-44" /\ jws.key = pub

\* Mutant: the age is taken in whole seconds.
checkTimeInSeconds(iat, exp, now, maxAge) ==
    now # 0 => /\ exp > 0 => Unix(now) <= exp
               /\ maxAge > 0 => Distance(iat, Unix(now)) <= Unix(maxAge)

\* checkTime: the expiry is compared in whole seconds, the age is not.
checkTime(iat, exp, now, maxAge) ==
    now # 0 => /\ exp > 0 => Unix(now) <= exp
               /\ maxAge > 0 => Distance(iat * Second, now) <= maxAge

\* Mutant: the row of a token is read off its claims alone.
TypMatchesAny(jws, typ) == TRUE

\* The typ of the header.
TypMatches(jws, typ) == jws.typ = typ

\* The kid a verifier of the row expects, "" to skip the check.
Kids(row) == {"", SignerOf(row)}

\* VerifyEVT, and VerifyPolicyEmail of either verifier.
VerifyToken(row, kid, jws, now) ==
    /\ IF row = "policyPQ" THEN pqVerifyJWS(jws, PQIssuer) ELSE verifyJWS(jws, Issuer)
    /\ TypMatches(jws, TypOf(row)) /\ (kid # "" => jws.kid = kid)
    /\ jws.claims.iss = Issuer /\ jws.claims.email # ""
    /\ checkHolderJWK(jws.claims.cnf, row = "policyPQ")
    /\ row # "evt" => jws.claims.policy # ""
    /\ checkTime(jws.claims.iat, jws.claims.exp, now, EVTMaxAge)

\* checkKBClaims
checkKBClaims(kb, token, aud, nonce, now) ==
    /\ kb.typ = "kb+jwt"
    /\ kb.claims.aud = aud /\ kb.claims.sd_hash = token /\ kb.claims.nonce = nonce
    /\ checkTime(kb.claims.iat, 0, now, KBMaxAge)

\* verifyKBJWT, and verifyKBJWTJWK which looks at the type of the holder's key.
verifyKBJWT(row, kb, holder) ==
    IF row = "policyPQ" /\ holder \in AKP THEN pqVerifyJWS(kb, holder) ELSE verifyJWS(kb, holder)

\* VerifyPresentation and the two VerifyPolicyEmailPresentation.
VerifyPresentation(row, kid, token, kb, aud, nonce, now) ==
    /\ VerifyToken(row, kid, token, now)
    /\ verifyKBJWT(row, kb, token.claims.cnf)
    /\ checkKBClaims(kb, token, aud, nonce, now)

\* VerifyPrivateIdentityToken of the issuer of epoch.
VerifyPrivateIdentityToken(epoch, token) ==
    token.named = epoch /\ token.key = epoch

\* The three signature checks: each takes the bytes for a key of its own algorithm.
VerifiesAs(alg, pub, pop, message) ==
    HolderAlg(pub) = alg /\ pop.key = pub /\ pop.message = message

\* VerifyPrivateIdentityPresentation of the time issuedAt, in seconds.
VerifyPrivateIdentityPresentation(epoch, token, pop, origin, nonce, issuedAt, now) ==
    /\ VerifyPrivateIdentityToken(epoch, token)
    /\ origin # ""
    /\ issuedAt * Second <= now + MaxSkew /\ issuedAt * Second >= now - MaxSkew
    /\ VerifiesAs(token.holderAlg, token.holderPub, pop, Message(origin, nonce, token, issuedAt))

\* Mutant: the pseudonym is of the token, not of its holder.
PseudonymOfToken(token, origin) == <<origin, token>>

\* PseudonymForOrigin: what is hashed.
PseudonymForOrigin(token, origin) == <<origin, token.holderPub>>

-----------------------------------------------------------------------------
\* An age check of maxAge, seen from the time that was truncated to seconds: a
\* time ahead of the verifier's passes for up to one second longer.
InWindow(at, now, maxAge) == now - at <= maxAge /\ at - now < maxAge + Second

\* A time that survives the truncation: it is surely in the window.
WellInWindow(at, now, maxAge) == now - at + (Second - 1) <= maxAge /\ at - now <= maxAge

\* Whatever tokens, other rows' tokens, forged tokens and proofs are combined:
\* a verifier of a row, with or without a kid or a clock, learns an address only
\* of a holder to whom the issuer gave that row's token for that address, on a
\* proof that this holder made of this token for this audience and nonce; and by
\* its clock the proof and the token are no older than allowed, the token less
\* than a second past its end.
PresentationGenuine ==
    \A p \in presented, row \in Row, token \in Tokens \cup Forged, now \in Time \cup {0} :
        \A kid \in {k \in Kids(row) : VerifyToken(row, k, token, now)}, aud \in Audience, nonce \in Nonce :
            VerifyPresentation(row, kid, token, KBJWT(p), aud, nonce, now) =>
                /\ p.token = token /\ p.aud = aud /\ p.nonce = nonce
                /\ KBMaxAge > 0 /\ now # 0 => InWindow(p.at, now, KBMaxAge)
                /\ \E i \in issued :
                    /\ i.row = row /\ i.email = token.claims.email /\ i.holder = p.holder
                    /\ EVTMaxAge > 0 /\ now # 0 => InWindow(i.at, now, EVTMaxAge)
                    /\ i.ttl > 0 /\ now # 0 => now < i.at + i.ttl + Second

\* The two ends agree: what the issuer of a row signs for a holder, and that
\* holder presents, its verifier accepts to the end of the token's lifetime, of
\* either type of key, although claims are truncated to seconds and the clocks
\* of issuer and holder differ from the verifier's, as long as the ages stay a
\* second inside the limits.
HonestPresentationAccepted ==
    \A i \in issued, p \in presented : \A now \in Time, kid \in Kids(i.row) :
        LET token == EmailToken(SignerOf(i.row), i) IN
        /\ p.holder = i.holder /\ p.token = token
        /\ i.ttl > 0 => now <= i.at + i.ttl
        /\ EVTMaxAge > 0 => WellInWindow(i.at, now, EVTMaxAge)
        /\ KBMaxAge > 0 => WellInWindow(p.at, now, KBMaxAge)
        => VerifyPresentation(i.row, kid, token, KBJWT(p), p.aud, p.nonce, now)

\* An EVT of the EVP rail names the key of a browser that signed a request to
\* this server; it is issued within SigMaxAge seconds of the time the browser
\* wrote, which may be ahead, so that one signature is good for EVTs over twice
\* SigMaxAge and no longer.
EVTBoundToRequester ==
    \A i, j \in issued : \A r \in i.req :
        LET iat(k) == EmailToken(Issuer, k).claims.iat IN
        /\ r \in requests /\ r.key = EmailToken(Issuer, i).claims.cnf /\ r.to = Home
        /\ Distance(r.created, iat(i)) <= SigMaxAge
        /\ r \in j.req => Distance(iat(i), iat(j)) <= 2 * SigMaxAge

\* A pseudonym is its owner's: two presentations that are accepted, of whichever
\* tokens and epochs and at whichever times, have one pseudonym exactly if they
\* are for one origin and were made by one holder; the holder made each of them
\* for that origin, nonce and token, and no longer ago than the skew; and what an
\* owner of a well-formed token shows well inside the skew is accepted.
PseudonymsRecognised ==
    LET Accepted(s, epoch, now) ==
            VerifyPrivateIdentityPresentation(epoch, s.token, Proof(s), s.origin, s.nonce, Unix(s.at), now)
    IN  \A s \in shown, e \in Epoch, n \in Time :
        /\ Accepted(s, e, n) =>
            /\ s.token.holderPub = s.holder /\ s.token.key = e /\ InWindow(s.at, n, MaxSkew)
            /\ \A u \in shown, f \in Epoch, m \in Time : Accepted(u, f, m) =>
                (PseudonymForOrigin(s.token, s.origin) = PseudonymForOrigin(u.token, u.origin)
                    <=> s.origin = u.origin /\ s.holder = u.holder)
        /\ /\ s.token = [key |-> e, named |-> e, holderAlg |-> HolderAlg(s.holder), holderPub |-> s.holder]
           /\ s.origin # "" /\ WellInWindow(s.at, n, MaxSkew)
           => Accepted(s, e, n)
=============================================================================
