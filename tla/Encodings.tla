------------------------------ MODULE Encodings ------------------------------
(***************************************************************************)
(* What is written is what is read: the byte strings that are signed,      *)
(* hashed and carried (Wire), ML-DSA's rounding, hints and their encoding  *)
(* (Rounding) and what a mail proves (Ingress), each against what it       *)
(* should be.  A behaviour takes one input; the sets the inputs are taken  *)
(* from are parameters, so that TLC checks the properties on small sets    *)
(* and TokenProofs proves them for every input there is.                   *)
(***************************************************************************)
EXTENDS Ingress, Rounding

CONSTANTS Documents(_),    \* for each kind of input, the set it is taken from
          HintShape,       \* the parameters of a hint vector
          LiveSessions     \* the mode of each session waiting for its mailbox

Gammas == {(q - 1) \div 88, (q - 1) \div 32}

HolderBytes(t) == t.alg \in {1, 2, 3} /\ Len(t.holder) \in holderPubLen(t.alg)

\* Bytes are naturals.  Tokens and authorizations are as the issuers make them;
\* a position in a hint is a byte, and 256 coefficients have every byte for
\* their index; an address the mail parser returns has spaces only in its local
\* part, where quotes allow them.
ASSUME SignedDocuments ==
    /\ Documents("binding") \subseteq Seq(Seq(Nat))
    /\ Documents("pseudonym") \subseteq [origin : Seq(Nat), holder : Seq(Nat)]
    /\ Documents("presentation") \subseteq [origin : Seq(Nat), nonce : Nat, digest : Nat, issuedAt : Nat]
    /\ Documents("context") \subseteq [ctx : Seq(Nat), msg : Seq(Nat)]
    /\ Documents("authorization") \subseteq
           [version : {AuthorizationVersion}, bindingHex : STRING, rateLimitID : Seq(Nat),
            policyLabel : Seq(Nat), maxBatch : Nat, exp : Nat, iat : Nat]
    /\ Documents("time") \subseteq Nat

ASSUME CarriedDocuments ==
    /\ Documents("burn") \subseteq [nonce : Nat, challenge : Nat, kid : Nat, auth : Seq(Nat)]
    /\ \A t \in Documents("burn") : Len(t.auth) > authenticatorRandomLength
    /\ Documents("private") \subseteq
           [version : Nat, kid : Nat, alg : Nat, holder : Seq(Nat), auth : Seq(Nat)]
    /\ \A t \in Documents("private") : HolderBytes(t) /\ Len(t.auth) > authenticatorRandomLength
    /\ Documents("bytes") \subseteq Seq(Nat)
    /\ Documents("header") \subseteq [c : Seq(Word), k : Seq(Word), layout : {"plain", "quoted", "swapped"}]

ASSUME RoundedDocuments ==
    /\ HintShape \in [K : Nat, Omega : Nat, n : Nat]
    /\ \A d \in Documents("rounding") :
           d.p.Gamma2 \in Gammas /\ d.r \in 0 .. q - 1 /\ d.z \in -d.p.Gamma2 .. d.p.Gamma2
    /\ \A src \in Documents("encodedHint") :
           /\ src \in [1 .. HintShape.Omega + HintShape.K -> Nat]
           /\ \A t \in 1 .. HintShape.Omega : src[t] < HintShape.n
    /\ \A h \in Documents("hint") :
           /\ h \in [0 .. HintShape.K - 1 -> [0 .. HintShape.n - 1 -> {0, 1}]]
           /\ Cardinality(Ones(HintShape, h)) <= HintShape.Omega

ASSUME MailDocuments ==
    /\ Documents("mail") \subseteq [to : Seq(Seq(STRING)), from : Seq(STRING)]
    /\ \A m \in Documents("mail") : \A i \in DOMAIN m.from :
           m.from[i] = Space => \E k \in DOMAIN m.from : i < k /\ m.from[k] = "@"
    /\ Documents("config") \subseteq
           [VerifyLocalPart : Seq(STRING), MailDomain : Seq(STRING), Dev : BOOLEAN]
    /\ \A dkim \in Documents("dkim") : dkim \subseteq [domain : Seq(STRING), ok : BOOLEAN]
    /\ \A s \in DOMAIN LiveSessions : s \in Seq(STRING)

VARIABLE input

-----------------------------------------------------------------------------
(* What is signed, hashed and carried.                                     *)

BytesRead(kind, doc) ==
    CASE kind = "binding" -> {BindingInput(doc)}
      [] kind = "pseudonym" -> {PseudonymInput(doc)}
      [] kind = "presentation" -> {PresentationMessage(doc)}
      [] kind = "context" -> formatMsg(doc)

SignedKinds == {"binding", "pseudonym", "presentation", "context"}

\* Two things are never the same bytes: a batch, a presentation, a pseudonym's
\* source, a message with its context; and an authorization verifies only as it
\* was signed, every field of it, before its expiry, for a batch that is not empty.
SignedBytesUnique ==
    input.alg = "wire" =>
        /\ input.part = "document" =>
            \A doc \in Documents(input.kind) :
                BytesRead(input.kind, doc) \cap BytesRead(input.kind, input.doc) # {} => doc = input.doc
        /\ input.part = "authorization" =>
            \A a \in Documents("authorization"), now \in Documents("time") :
                VerifyAuthorization(a, SignAuthorization(input.doc), now)
                    <=> /\ [a EXCEPT !.bindingHex = binding(a)]
                                = [input.doc EXCEPT !.bindingHex = binding(input.doc)]
                        /\ binding(a) # {} /\ now <= a.exp /\ a.maxBatch > 0

\* A header as a server, or the holder, writes it.
HeaderOf(doc) ==
    LET quote(v) == IF doc.layout = "quoted" THEN <<Quote>> \o v \o <<Quote>> ELSE v
    IN  [www |-> IF doc.layout = "swapped"
                 THEN <<"PrivateToken", Space, "token-key", "=">> \o doc.k
                          \o <<Comma, Space, "challenge", "=">> \o doc.c
                 ELSE WWWAuthenticate(quote(doc.c), quote(doc.k)),
         authorization |-> Authorization(quote(doc.c)) \o <<Comma, Space>>]

\* A token is parsed back from its bytes, what a parser accepts is the bytes of
\* what it returns, no bytes are a token of both kinds, and a challenge or a token
\* survives its header whatever its encoding looks like.
TokensCarried ==
    input.alg = "wire" =>
        /\ input.part = "burn" => ParseBurnToken(BurnBytes(input.doc)) = {input.doc}
        /\ input.part = "private" => ParsePrivateIdentityToken(PrivateIdentityBytes(input.doc)) = {input.doc}
        /\ input.part = "bytes" =>
            LET burn == ParseBurnToken(input.doc)  private == ParsePrivateIdentityToken(input.doc) IN
            /\ \A t \in burn : BurnBytes(t) = input.doc /\ Len(t.auth) > authenticatorRandomLength
            /\ \A t \in private : PrivateIdentityBytes(t) = input.doc /\ Len(t.auth) > authenticatorRandomLength
            /\ burn = {} \/ private = {}
        /\ input.part = "header" =>
            /\ ParseWWWAuthenticate(HeaderOf(input.doc).www) = {<<input.doc.c, input.doc.k>>}
            /\ ParseAuthorization(HeaderOf(input.doc).authorization) = {input.doc.c}
            /\ ParseAuthorization(HeaderOf(input.doc).www) = {}

-----------------------------------------------------------------------------
(* What ML-DSA rounds and encodes.                                         *)

\* decompose's multiply-and-shift form is the rounding of FIPS 204, the
\* wraparound at q-1 included, power2Round splits exactly, and a hint made for z
\* lets useHint recover the high bits of r + z for |z| <= gamma2: the verifier
\* recomputes the signer's w1 through it.
RoundingExact ==
    (input.alg = "rounding" /\ input.part = "input") =>
        LET p == input.doc.p  r == input.doc.r  z == Canonical(input.doc.z)
            low == r % (2 * p.Gamma2)
            r0 == IF low > p.Gamma2 THEN low - 2 * p.Gamma2 ELSE low
            t == power2Round(13, r)
        IN  /\ decompose(p, r) = IF r - r0 = q - 1 THEN <<0, r0 - 1>>
                                 ELSE <<(r - r0) \div (2 * p.Gamma2), r0>>
            /\ t[1] * 2^13 + t[2] = r /\ t[2] > -(2^12) /\ t[2] <= 2^12
            /\ useHint(p, makeHint(p, z, r), r) = highBits(p, addQ(r, z))

\* A hint vector has exactly one encoding hintBitUnpack accepts: what it accepts
\* packs back to the same bytes, and what hintBitPack writes it accepts.  A
\* second encoding would make a second valid signature.
HintEncodingUnique ==
    input.alg = "hints" =>
        /\ input.part = "input" =>
            \A h \in hintBitUnpack(HintShape, input.doc) : hintBitPack(HintShape, h) = input.doc
        /\ input.part = "packed" =>
            hintBitUnpack(HintShape, hintBitPack(HintShape, input.doc)) = {input.doc}

\* Bytes name one thing: what is signed, what is carried and parsed, what is
\* rounded and hinted (tokenprofile, tokenauth, mldsa).
EncodingsFaithful == SignedBytesUnique /\ TokensCarried /\ RoundingExact /\ HintEncodingUnique

-----------------------------------------------------------------------------
(* What a mail proves.                                                     *)

\* The sessions named by a recipient, if it is a verify address in any spelling.
\* A local part that is not in lower case names none.
NamedBy(cfg, recipient) ==
    LET addr == ToLower(TrimSpace(recipient))
        tag == SubSeq(addr, Len(cfg.VerifyLocalPart) + 2, Len(addr) - (Len(cfg.MailDomain) + 1))
    IN  {t \in {tag} : /\ ToLower(cfg.VerifyLocalPart) = cfg.VerifyLocalPart
                      /\ addr = ToLower(verifyAddress(cfg, t)) /\ t # <<>>}

\* The sender is one mailbox, and a valid signature is of the domain it is in or
\* of a parent of that domain, label by label.
Believed(from, dkim, dev) ==
    LET name(i) == ToLower(SubSeq(from, i, Len(from)))
        vouched(at) == \E v \in dkim : v.ok /\ \E i \in at + 1 .. Len(from) + 1 :
            name(i) = ToLower(v.domain) /\ (i = at + 1 \/ from[i - 1] = ".")
    IN  \E at \in DOMAIN from :
            /\ from[at] = "@" /\ \A i \in DOMAIN from : from[i] = "@" => i = at
            /\ at # 1 /\ at # Len(from) /\ \A i \in DOMAIN from : from[i] # Space
            /\ dev \/ vouched(at)

\* A mail binds its sender, trimmed and in lower case, to the session of its first
\* verify address, in any spelling, if that session waits for mail; and the sender
\* is believed only if a valid signature is of its domain or of a parent domain,
\* label by label.  With a local part that is not in lower case no mail binds
\* anyone (issuerd's handleIncomingMail).
MailProvesSender ==
    (input.alg = "mail" /\ input.part = "input") =>
        LET to == input.doc.to  from == input.doc.from
            sender == TrimSpace(from)
            first(cfg) == {n \in DOMAIN to : /\ NamedBy(cfg, to[n]) # {}
                                             /\ \A m \in 1 .. n - 1 : NamedBy(cfg, to[m]) = {}}
            waiting == {s \in DOMAIN LiveSessions : LiveSessions[s] = "send"}
        IN  \A dkim \in Documents("dkim"), cfg \in Documents("config") :
                incomingMail(LiveSessions, cfg, [to |-> to, from |-> from, dkim |-> dkim]) =
                    {[session |-> s, mailbox |-> ToLower(sender)]
                        : s \in {t \in waiting : /\ Believed(sender, dkim, cfg.Dev)
                                                 /\ \E n \in first(cfg) : t \in NamedBy(cfg, to[n])}}

-----------------------------------------------------------------------------
EncodingAlgorithms == {"wire", "rounding", "hints", "mail"}

WireInputs ==
    \/ \E kind \in SignedKinds : \E doc \in Documents(kind) :
        input' = [alg |-> "wire", part |-> "document", kind |-> kind, doc |-> doc]
    \/ \E part \in {"authorization", "burn", "private", "bytes", "header"} : \E doc \in Documents(part) :
        input' = [alg |-> "wire", part |-> part, doc |-> doc]

RoundingInputs ==
    \E doc \in Documents("rounding") : input' = [alg |-> "rounding", part |-> "input", doc |-> doc]

HintInputs ==
    \/ \E src \in Documents("encodedHint") : input' = [alg |-> "hints", part |-> "input", doc |-> src]
    \/ \E h \in Documents("hint") : input' = [alg |-> "hints", part |-> "packed", doc |-> h]

MailInputs ==
    \E doc \in Documents("mail") : input' = [alg |-> "mail", part |-> "input", doc |-> doc]

EncodingInit == input \in [alg : EncodingAlgorithms, part : {"start"}]

EncodingNext ==
    /\ input.part = "start"
    /\ \/ input.alg = "wire" /\ WireInputs
       \/ input.alg = "rounding" /\ RoundingInputs
       \/ input.alg = "hints" /\ HintInputs
       \/ input.alg = "mail" /\ MailInputs

EncodingSpec == EncodingInit /\ [][EncodingNext]_input
=============================================================================
