--------------------------- MODULE MCTokenService ---------------------------
(* An instance of TokenService: the production policy an operator signed,  *)
(* one it signed that does not say where a bucket comes from, and a        *)
(* development policy that another operator signed.                        *)
EXTENDS TokenService

CONSTANTS n1, n2, c1, c2

gateMail == [enabled |-> TRUE, bucket_claim |-> "email", bucket_source |-> "",
             address_claim |-> "email", allowed_hosts |-> {}]
ruleBlind == [enabled |-> TRUE, allowed_gates |-> {"mail"}, allowed_origins |-> {},
              budget_group |-> "mint", max_batch |-> 0, requires_address_claim |-> FALSE,
              requires_attestation |-> FALSE, requires_origin |-> FALSE]
ruleEmail == [ruleBlind EXCEPT !.max_batch = 1, !.requires_address_claim = TRUE]

production ==
    [version |-> 1, mode |-> "", allow_software_witness |-> FALSE, max_batch |-> 2,
     authorization_ttl |-> 1, measurements |-> {},
     token_families |-> [f \in Family |-> IF f = "policy_email" THEN ruleEmail ELSE ruleBlind],
     gates |-> [g \in {"mail"} |-> gateMail],
     budgets |-> [b \in {"mint"} |-> [limit |-> 2, window |-> 1]]]
development ==
    [production EXCEPT !.mode = "development", !.gates["mail"].bucket_claim = ""]

unsourced == [production EXCEPT !.gates["mail"].bucket_claim = ""]

burn(n, k) ==
    [type |-> "burn", nonce |-> n, challenge |-> IF n = n1 THEN c1 ELSE c2, keyID |-> k]
pid == [type |-> "pid", keyID |-> 1, keyVersion |-> 1]

MCSource == {production, unsourced, development}
MCSidecar == {<<production, "operator">>, <<unsourced, "operator">>,
              <<development, "staging">>}
MCTrusted == {"operator"}
MCBatch == {<<burn(n1, 1)>>, <<burn(n1, 1), burn(n2, 1)>>, <<burn(n2, 1), pid>>,
            <<burn(n1, 2)>>}

\* The bucket and the email claim of an eligibility, verified or not.
elig(bucket, email, assurance) ==
    [gate |-> "mail", bucket |-> bucket, assurance |-> assurance,
     claims |-> [c \in ClaimName |-> IF c = "email" THEN email ELSE ""]]
MCEligibility ==
    {<<elig("alice", "alice", "VERIFIED")>>, <<elig("bob", "alice", "verified")>>,
     <<elig("bob", "bob", "claimed"), elig("alice", "alice", "verified")>>}

request(family, count, keyVersion, batch) ==
    [family |-> family, count |-> count, keyVersion |-> keyVersion, binding |-> batch,
     origin |-> "", value_x |-> "", platform |-> "mail", address |-> "",
     eligibility |-> <<elig("alice", "alice", "VERIFIED")>>]

MCRequest ==
    {request("burn", n, 1, b) : n \in {1, 2}, b \in MCBatch \ {<<burn(n1, 2)>>}}
    \cup {request("burn", 1, 2, b) : b \in {<<burn(n1, 1)>>, <<burn(n1, 2)>>}}
    \cup {request("private_identity", 2, 1, <<burn(n2, 1), pid>>)}
    \cup {[request("policy_email", 1, 1, <<pid>>) EXCEPT !.address = a, !.eligibility = e] :
             a \in {"Alice", "bob"}, e \in MCEligibility}
=============================================================================
