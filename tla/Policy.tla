------------------------------- MODULE Policy -------------------------------
(***************************************************************************)
(* tokenauth: what a policy file must satisfy to compile, and when the     *)
(* compiled policy authorizes a mint request.  "" is an unset field, as in *)
(* Go.  The map of claims of an eligibility is a function on ClaimName.    *)
(***************************************************************************)
EXTENDS Integers, Sequences, FiniteSetsExt, TLC

Family == {"burn", "private_identity", "policy_email"}
ClaimName == {"email", "host", "domain"}

\* strings.TrimSpace and strings.EqualFold, on the few strings that matter.
TrimSpace(s) == CASE s = " " -> "" [] s = "site " -> "site" [] OTHER -> s
Lower(s) ==
    CASE s = "Alice" -> "alice"
      [] s = "VERIFIED" -> "verified"
      [] s = "Software-Witness" -> "software-witness"
      [] OTHER -> s
EqualFold(s, t) == Lower(s) = Lower(t)

\* namePattern: every name of a small instance but these matches it.
validName(name) == name \notin {"", " ", "Bad Name"}

-----------------------------------------------------------------------------
(* Compile.                                                                *)

\* TokenRule, GateRule and BudgetRule, as the decoder fills them.
TokenRule ==
    [enabled : BOOLEAN, allowed_gates : SUBSET STRING, allowed_origins : SUBSET STRING,
     budget_group : STRING, max_batch : Int, requires_address_claim : BOOLEAN,
     requires_attestation : BOOLEAN, requires_origin : BOOLEAN]
GateRule ==
    [enabled : BOOLEAN, bucket_claim : STRING, bucket_source : STRING,
     address_claim : STRING, allowed_hosts : SUBSET STRING]
BudgetRule == [limit : Int, window : Int]

ModeOf(src) == IF src.mode = "" THEN "production" ELSE src.mode

HeadOK(src) ==
    /\ src.version = 1
    /\ ModeOf(src) \in {"development", "production"}
    /\ ~(ModeOf(src) = "production" /\ src.allow_software_witness)
    /\ src.max_batch > 0 /\ src.authorization_ttl > 0
    /\ {} \notin {DOMAIN src.token_families, DOMAIN src.gates, DOMAIN src.budgets}

BudgetsOK(src) ==
    \A name \in DOMAIN src.budgets :
        /\ validName(name)
        /\ src.budgets[name].limit > 0 /\ src.budgets[name].window > 0

\* Where a gate says its bucket_id comes from.
BucketSource(gate) ==
    IF gate.bucket_source = "" /\ gate.bucket_claim # "" THEN "claim" ELSE gate.bucket_source

GatesOK(src) ==
    \A name \in DOMAIN src.gates : LET gate == src.gates[name] IN
        /\ validName(name)
        /\ gate.bucket_source \in {"", "claim", "caller"}
        /\ gate.bucket_source = "claim" => gate.bucket_claim # ""
        /\ gate.bucket_source = "caller" => gate.bucket_claim = ""
        /\ \A h \in gate.allowed_hosts : TrimSpace(h) # ""

MaxBatchOf(src, rule) == IF rule.max_batch = 0 THEN src.max_batch ELSE rule.max_batch

GatesOfFamilyOK(src, rule) ==
    /\ rule.enabled => rule.allowed_gates # {}
    /\ \A g \in rule.allowed_gates :
        /\ validName(g) /\ g \in DOMAIN src.gates
        /\ rule.enabled => src.gates[g].enabled
        /\ rule.requires_address_claim => src.gates[g].address_claim # ""

FamiliesOK(src) ==
    \A f \in DOMAIN src.token_families : LET rule == src.token_families[f] IN
        /\ f \in Family
        /\ MaxBatchOf(src, rule) > 0
        /\ rule.budget_group \in DOMAIN src.budgets
        /\ GatesOfFamilyOK(src, rule)
        /\ \A o \in rule.allowed_origins : TrimSpace(o) # ""
        /\ f = "policy_email" => rule.requires_address_claim

\* anyMeasurementAllows
MeasurementAllows(src, f) == \E x \in src.measurements : f \in x.allow

MeasurementsOK(src) ==
    /\ \A x \in src.measurements :
        /\ TrimSpace(x.value_x) # "" /\ x.allow # {}
        /\ x.allow \subseteq Family \cap DOMAIN src.token_families
    /\ \A f \in DOMAIN src.token_families :
        src.token_families[f].enabled /\ src.token_families[f].requires_attestation
        => MeasurementAllows(src, f)

\* In production every gate an enabled family mints through states where its
\* bucket comes from.
ProvenanceOK(src) ==
    ModeOf(src) = "production" =>
        \A f \in DOMAIN src.token_families : src.token_families[f].enabled =>
            \A g \in src.token_families[f].allowed_gates : BucketSource(src.gates[g]) # ""

Compiles(src) ==
    /\ HeadOK(src) /\ BudgetsOK(src) /\ GatesOK(src) /\ FamiliesOK(src)
    /\ MeasurementsOK(src) /\ ProvenanceOK(src)

\* The policy Compile returns.
Compile(src) ==
    [mode |-> ModeOf(src), allowSoftwareWitness |-> src.allow_software_witness,
     ttl |-> src.authorization_ttl, budgets |-> src.budgets,
     tokens |-> [f \in DOMAIN src.token_families |->
        LET rule == src.token_families[f] IN
        [rule EXCEPT !.max_batch = MaxBatchOf(src, rule),
                     !.allowed_origins = {TrimSpace(o) : o \in @},
                     !.requires_origin = @ \/ rule.allowed_origins # {}]],
     gates |-> [g \in DOMAIN src.gates |->
        [src.gates[g] EXCEPT !.bucket_source = BucketSource(src.gates[g]),
                             !.allowed_hosts = {TrimSpace(h) : h \in @}]],
     measurements |-> src.measurements]

-----------------------------------------------------------------------------
(* AuthorizeMint, up to the reservation of the budget.                     *)

OriginAllowed(tok, req) ==
    tok.requires_origin =>
        /\ TrimSpace(req.origin) # ""
        /\ tok.allowed_origins # {} => req.origin \in tok.allowed_origins

Attested(p, tok, req) ==
    tok.requires_attestation =>
        /\ req.value_x # ""
        /\ \E x \in p.measurements : x.value_x = req.value_x /\ req.family \in x.allow

PlatformAllowed(p, req) ==
    EqualFold(req.platform, "software-witness") =>
        p.mode # "production" /\ p.allowSoftwareWitness

\* The eligibilities chooseEligibility does not skip, and their places.
Usable(p, tok, elig) ==
    /\ elig.bucket # "" /\ EqualFold(elig.assurance, "verified")
    /\ elig.gate \in tok.allowed_gates
    /\ elig.gate \in DOMAIN p.gates /\ p.gates[elig.gate].enabled

UsableAt(p, tok, all) == {i \in DOMAIN all : Usable(p, tok, all[i])}

\* chooseEligibility: the first one, and no other, even if it fails later.
chooseEligibility(p, tok, all) == all[Min(UsableAt(p, tok, all))]

\* A lookup in the map of claims.
Claim(elig, name) == IF name \in ClaimName THEN elig.claims[name] ELSE ""

BucketMatches(gate, elig) ==
    gate.bucket_claim # "" =>
        Claim(elig, gate.bucket_claim) # "" /\ Claim(elig, gate.bucket_claim) = elig.bucket

AddressMatches(tok, gate, elig, req) ==
    tok.requires_address_claim =>
        /\ Claim(elig, gate.address_claim) # ""
        /\ TrimSpace(req.address) # ""
        /\ EqualFold(Claim(elig, gate.address_claim), req.address)

HostOf(elig) == IF elig.claims["host"] = "" THEN elig.claims["domain"] ELSE elig.claims["host"]

\* Every check but the budget's.
Authorized(p, req) ==
    /\ req.family \in DOMAIN p.tokens
    /\ LET tok == p.tokens[req.family]
           elig == chooseEligibility(p, tok, req.eligibility) IN
        /\ tok.enabled
        /\ req.count > 0 /\ req.count <= tok.max_batch
        /\ req.keyVersion # 0 /\ req.binding # ""
        /\ OriginAllowed(tok, req) /\ Attested(p, tok, req) /\ PlatformAllowed(p, req)
        /\ UsableAt(p, tok, req.eligibility) # {}
        /\ LET gate == p.gates[elig.gate] IN
            /\ BucketMatches(gate, elig)
            /\ AddressMatches(tok, gate, elig, req)
            /\ gate.allowed_hosts # {} => HostOf(elig) \in gate.allowed_hosts
            /\ tok.budget_group \in DOMAIN p.budgets

\* The eligibility an authorized request is charged to, and its counter.
Chosen(p, req) == chooseEligibility(p, p.tokens[req.family], req.eligibility)
BudgetKey(p, req) ==
    <<Chosen(p, req).gate, Chosen(p, req).bucket, p.tokens[req.family].budget_group>>
BudgetOf(p, req) == p.budgets[p.tokens[req.family].budget_group]

=============================================================================
