-------------------------------- MODULE Wire --------------------------------
(***************************************************************************)
(* The byte strings that are signed, hashed and carried: token inputs and  *)
(* tokens (tokenprofile), the binding of a batch, the signed authorization *)
(* of tokenauth, ML-DSA's formatted message and the PrivateToken headers.  *)
(*                                                                         *)
(* A byte is a small number.  Integers and 32-byte values are one byte     *)
(* long here; what varies in length in the code varies here.  A domain     *)
(* string is a number above the bytes.  A length is a number of any size:  *)
(* the code writes it as a uint32, and bodies of requests end at 1 MiB.    *)
(***************************************************************************)
EXTENDS Naturals, Sequences, SequencesExt

BurnTokenType == 1
PrivateIdentityTokenType == 2
authenticatorRandomLength == 1
MaxContext == 2           \* 255 in the code

-----------------------------------------------------------------------------
(* Token inputs and tokens.                                                *)

burnInputLen == 4
privateIdentityInputHead == 4

\* In a token the type is a field; BurnInput is signed with the constant, and parser
\* and verifier admit no other.
BurnInput(t) == <<BurnTokenType, t.nonce, t.challenge, t.kid>>

BurnBytes(t) == BurnInput(t) \o t.auth

\* What a parser accepts is a set of at most one token.
ParseBurnToken(b) ==
    IF Len(b) <= burnInputLen + authenticatorRandomLength \/ b[1] # BurnTokenType THEN {}
    ELSE {[nonce |-> b[2], challenge |-> b[3], kid |-> b[4], auth |-> SubSeq(b, 5, Len(b))]}

PrivateIdentityInput(t) ==
    <<PrivateIdentityTokenType, t.version, t.kid, t.alg>> \o t.holder

PrivateIdentityBytes(t) == PrivateIdentityInput(t) \o t.auth

\* Ed25519 and FAEST keys have one length, ML-DSA keys a greater one.
holderPubLen(alg) == CASE alg \in {1, 3} -> {1} [] alg = 2 -> {2} [] OTHER -> {}

\* The input at the head of b, and how many bytes it takes.
parsePrivateIdentityInputPrefix(b) ==
    IF Len(b) < privateIdentityInputHead \/ b[1] # PrivateIdentityTokenType THEN {}
    ELSE {[version |-> b[2], kid |-> b[3], alg |-> b[4], end |-> privateIdentityInputHead + len]
            : len \in {n \in holderPubLen(b[4]) : Len(b) >= privateIdentityInputHead + n}}

ParsePrivateIdentityToken(b) ==
    {[version |-> p.version, kid |-> p.kid, alg |-> p.alg,
      holder |-> SubSeq(b, privateIdentityInputHead + 1, p.end), auth |-> SubSeq(b, p.end + 1, Len(b))]
        : p \in {x \in parsePrivateIdentityInputPrefix(b) : Len(b) - x.end > authenticatorRandomLength}}

-----------------------------------------------------------------------------
(* What is hashed and signed around tokens.                                *)

Prefixed(s) == <<Len(s)>> \o s

\* Mutant: the targets are hashed one after the other.
BindingInputRunTogether(blinded) == <<101, Len(blinded)>> \o FlattenSeq(blinded)

\* BindingOf, up to the digest.
BindingInput(blinded) ==
    <<101, Len(blinded)>> \o FlattenSeq([i \in DOMAIN blinded |-> Prefixed(blinded[i])])

PseudonymInput(doc) == <<102>> \o Prefixed(doc.origin) \o doc.holder

PresentationMessage(doc) ==
    <<103>> \o Prefixed(doc.origin) \o <<doc.nonce, doc.digest, doc.issuedAt>>

\* ML-DSA's pure message: the context's length has to fit its byte.
formatMsg(doc) ==
    IF Len(doc.ctx) > MaxContext THEN {}
    ELSE {<<0, Len(doc.ctx) % (MaxContext + 1)>> \o doc.ctx \o doc.msg}

-----------------------------------------------------------------------------
(* Issuance authorizations.                                                *)

AuthorizationVersion == 1

\* The binding is written in hexadecimal, in either case.
HexValue == [x \in {"0a", "0A", "1b"} |-> IF x = "1b" THEN 1 ELSE 0]
binding(a) == IF a.bindingHex \in DOMAIN HexValue THEN {HexValue[a.bindingHex]} ELSE {}

SignedBytes(a) ==
    {<<104, a.version, b>> \o Prefixed(a.rateLimitID)
        \o Prefixed(a.policyLabel) \o <<a.maxBatch, a.exp, a.iat>> : b \in binding(a)}

\* AttesterSigner.Sign: the signature is the bytes it is over.
SignAuthorization(a) == SignedBytes(a)

\* IssuanceAuthorization.Verify at time now.
VerifyAuthorization(a, sig, now) ==
    /\ a.version = AuthorizationVersion
    /\ a.maxBatch # 0
    /\ now <= a.exp
    /\ SignedBytes(a) # {} /\ sig = SignedBytes(a)

-----------------------------------------------------------------------------
(* The PrivateToken headers.  A header is a sequence of words and marks; an *)
(* encoded value is a sequence of words that may look like parameter names. *)

Space == " "
Comma == ","
Quote == "\""

Word == {"x", "token", "token-key", "challenge"}

WWWAuthenticate(challenge, key) ==
    <<"PrivateToken", Space, "challenge", "=">> \o challenge
        \o <<Comma, Space, "token-key", "=">> \o key

Authorization(token) == <<"PrivateToken", Space, "token", "=">> \o token

\* strings.Cut: what follows the first name=.
AfterParam(header, name) ==
    LET at == {i \in 1 .. Len(header) - 1 : header[i] = name /\ header[i + 1] = "="} IN
    {SubSeq(header, i + 2, Len(header)) : i \in {k \in at : \A m \in at : k <= m}}

\* strings.Cut: what is before the first comma.
UpToComma(s) ==
    LET commas == {i \in DOMAIN s : s[i] = Comma} IN
    SubSeq(s, 1, IF commas = {} THEN Len(s) ELSE (CHOOSE i \in commas : \A m \in commas : i <= m) - 1)

\* strings.Trim: c taken off both ends.
TrimOff(s, c) ==
    LET kept == {i \in DOMAIN s : s[i] # c} IN
    IF kept = {} THEN <<>>
    ELSE SubSeq(s, CHOOSE i \in kept : \A k \in kept : i <= k, CHOOSE i \in kept : \A k \in kept : k <= i)

\* The encoded value, if it is one.
DecodeValue(s) == IF \A i \in DOMAIN s : s[i] \in Word THEN {s} ELSE {}

\* What follows the name of the scheme.
AfterScheme(header) ==
    LET h == TrimOff(header, Space) IN
    IF h # <<>> /\ Head(h) = "PrivateToken" THEN {Tail(h)} ELSE {}

ParseAuthorization(header) ==
    UNION {UNION {LET v == TrimOff(s, Space) IN
                  DecodeValue(TrimOff(IF v # <<>> /\ Last(v) = Comma THEN Front(v) ELSE v, Quote))
                      : s \in AfterParam(rest, "token")} : rest \in AfterScheme(header)}

ParseWWWAuthenticate(header) ==
    UNION {LET get(name) == UNION {DecodeValue(TrimOff(TrimOff(UpToComma(s), Space), Quote))
                                        : s \in AfterParam(rest, name)} IN
           get("challenge") \X get("token-key") : rest \in AfterScheme(header)}
=============================================================================
