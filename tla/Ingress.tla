------------------------------- MODULE Ingress -------------------------------
(***************************************************************************)
(* services/issuerd/ingress.go: what a raw mail proves, that is, which     *)
(* session it names and which sender is believed.  Texts are sequences of  *)
(* characters; an upper-case letter is a key of LowerCase.  Parsing the    *)
(* message, and checking its DKIM signatures, is left to the libraries.    *)
(***************************************************************************)
EXTENDS Wire

LowerCase == [c \in {"A", "V", "D"} |-> CASE c = "A" -> "a" [] c = "V" -> "v" [] c = "D" -> "d"]

ToLower(s) == [i \in DOMAIN s |-> IF s[i] \in DOMAIN LowerCase THEN LowerCase[s[i]] ELSE s[i]]

TrimSpace(s) == TrimOff(s, Space)

\* strings.Cut at the first "@": nothing, or what is before and after it.
CutAt(s) ==
    LET at == {i \in DOMAIN s : s[i] = "@"} IN
    {[local |-> SubSeq(s, 1, i - 1), domain |-> SubSeq(s, i + 1, Len(s))]
        : i \in {k \in at : \A m \in at : k <= m}}

\* CanonicalEmail (mailbox): at most one address.
CanonicalEmail(raw) ==
    LET s == ToLower(TrimSpace(raw)) IN
    IF \E a \in CutAt(s) : a.local # <<>> /\ a.domain # <<>> /\ CutAt(a.domain) = {}
       /\ \A i \in DOMAIN s : s[i] # Space
    THEN {s} ELSE {}

-----------------------------------------------------------------------------
\* verifyAddress: where the mail for a session goes, in the spelling of the
\* operator's cfg.
verifyAddress(cfg, tag) == cfg.VerifyLocalPart \o <<"+">> \o tag \o (<<"@">> \o cfg.MailDomain)

\* The tag in a recipient, if it is a verify address.  The recipient and the
\* domain are in lower case, the local part is as the operator wrote it.
TagOf(cfg, candidate) ==
    LET addr == ToLower(TrimSpace(candidate))
        prefix == cfg.VerifyLocalPart \o <<"+">>
        suffix == <<"@">> \o ToLower(cfg.MailDomain)
        local == SubSeq(addr, 1, Len(addr) - Len(suffix))
    IN  IF IsSuffix(suffix, addr) /\ IsPrefix(prefix, local) /\ Len(local) > Len(prefix)
        THEN {SubSeq(local, Len(prefix) + 1, Len(local))} ELSE {}

\* sessionTagFromRecipients: the recipients of To, Cc, Delivered-To and
\* X-Original-To in that order; the first verify address counts.
sessionTagFromRecipients(cfg, candidates) ==
    LET tagged == {i \in DOMAIN candidates : TagOf(cfg, candidates[i]) # {}} IN
    UNION {TagOf(cfg, candidates[i]) : i \in {k \in tagged : \A m \in tagged : k <= m}}

-----------------------------------------------------------------------------
\* Mutant: a domain that ends in the same letters is taken for a subdomain.
AlignedByLetters(fromDomain, signer) == signer = fromDomain \/ IsSuffix(signer, fromDomain)

\* Relaxed alignment: the signer is the From domain or a parent of it.
Aligned(fromDomain, signer) == signer = fromDomain \/ IsSuffix(<<".">> \o signer, fromDomain)

\* verifications: [domain, ok] of each DKIM signature.
verifyAlignedDKIM(verifications, from) ==
    \E a \in CutAt(from) : \E v \in verifications :
        v.ok /\ Aligned(ToLower(a.domain), ToLower(v.domain))

\* handleIncomingMail up to markVerified: the session and the mailbox proved.
\* modes maps the ids of live sessions to their mode.
incomingMail(modes, cfg, mail) ==
    {[session |-> s, mailbox |-> c] :
        s \in {t \in sessionTagFromRecipients(cfg, mail.to) : t \in DOMAIN modes /\ modes[t] = "send"},
        c \in IF cfg.Dev \/ verifyAlignedDKIM(mail.dkim, mail.from) THEN CanonicalEmail(mail.from) ELSE {}}
=============================================================================
