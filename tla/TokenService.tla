---------------------------- MODULE TokenService ----------------------------
(***************************************************************************)
(* tokenservice over tokenauth and tokenprofile: a policy is loaded, mints *)
(* are authorized and charged to a budget, blinded batches are signed and  *)
(* policy emails issued on the decisions, and burn tokens are redeemed.    *)
(* Callers keep their decisions and may use them late, again and in any    *)
(* order; the housekeeping calls (Prune, PruneEpochsBefore, Zeroize) come  *)
(* at any time.                                                            *)
(*                                                                         *)
(* A blinded target stands for its token input (blinding and the binding   *)
(* hash are injective, and the issuer looks into neither); a blind         *)
(* signature is the key that made it, and finalizes to a proof that        *)
(* verifies under that key alone.                                          *)
(***************************************************************************)
EXTENDS Policy

CONSTANTS
    Source,        \* policy files
    Sidecar,       \* <<file, operator key>> of the sidecars on disk
    Trusted,       \* -policy-pub keys; none switches the check off
    Bucket,        \* buckets that eligibilities name
    Challenge,     \* challenges of origins
    Nonce,         \* nonces of burn tokens
    Batch,         \* batches of token inputs that clients blind
    Request,       \* mint requests; the binding of one is a batch
    Address,       \* addresses a policy email is asked for
    Epoch,         \* key epochs, 1 the first
    MaxDecisions,  \* bound on the decisions
    MaxRedeemed,   \* bound on the redemptions of one nonce
    MaxTime        \* bound on the clock

ASSUME TokenServiceAssumption ==
    /\ Epoch \subseteq Nat \ {0} /\ 1 \in Epoch
    /\ MaxDecisions \in Nat
    /\ MaxTime \in Nat

\* Policy files, requests and batches are decoded into Go's types.
ASSUME DecodedAssumption ==
    /\ \A s \in Source :
        /\ \A f \in DOMAIN s.token_families : s.token_families[f] \in TokenRule
        /\ \A g \in DOMAIN s.gates : s.gates[g] \in GateRule
        /\ \A b \in DOMAIN s.budgets : s.budgets[b] \in BudgetRule
    /\ \A r \in Request :
        /\ r.count \in Int
        /\ Len(r.eligibility) \in Nat /\ DOMAIN r.eligibility = 1..Len(r.eligibility)
    /\ \A b \in Batch : Len(b) \in Nat /\ DOMAIN b = 1..Len(b)

VARIABLES
    clock,
    policy,     \* the policy in force
    used,       \* permits reserved, by budget key and window
    decisions,  \* decisions callers hold
    current,    \* the key epoch that signs
    wiped,      \* epochs whose secret key was overwritten
    sigs,       \* <<input, key>> of the blind signatures given out
    spent,      \* the spent set: <<epoch, nonce>>
    emails,     \* policy emails issued: <<address, decision>>
    pruned,     \* ghost: latest time Prune was called with
    keepFrom,   \* ghost: highest epoch PruneEpochsBefore kept
    paid,       \* ghost: <<input, budget key, window>> of the targets signed
    redeemed    \* ghost: the challenges a nonce was redeemed under, by epoch

budgetVars == <<used, pruned>>
issuerVars == <<current, wiped, sigs, paid>>
spendVars == <<spent, keepFrom, redeemed>>
vars == <<clock, policy, budgetVars, decisions, issuerVars, spendVars, emails>>

BudgetKeys == UNION {{<<g, b, s.token_families[f].budget_group>> :
                        g \in DOMAIN s.gates, b \in Bucket, f \in DOMAIN s.token_families} :
                     s \in Source}

\* Mutant: a sidecar of any operator will do.
VerifyPolicySidecarAnyKey(src, trusted) ==
    trusted = {} \/ \E k \in Sidecar : k[1] = src

\* VerifyPolicySidecar: no trusted keys, no check.
VerifyPolicySidecar(src, trusted) == trusted = {} \/ \E k \in trusted : <<src, k>> \in Sidecar

\* serve: the sidecar is checked, then the policy compiled.
Loads(src) == VerifyPolicySidecar(src, Trusted) /\ Compiles(src)

Init ==
    /\ clock = 0
    /\ \E src \in Source : Loads(src) /\ policy = Compile(src)
    /\ used = [k \in BudgetKeys \X (0..MaxTime) |-> 0]
    /\ pruned = 0
    /\ decisions = {}
    /\ current = 1 /\ wiped = {}
    /\ sigs = {} /\ paid = {}
    /\ spent = {} /\ keepFrom = 0 /\ redeemed = [k \in Epoch \X Nonce |-> <<>>]
    /\ emails = {}

-----------------------------------------------------------------------------
(* The budget store and the decision.                                      *)

WindowOf(p, req, now) == now \div BudgetOf(p, req).window

\* MemoryBudgetStore.Reserve
Fits(n, amount, limit) == n + amount <= limit

\* AuthorizeMint at the time the caller read before the call; every caller has
\* a budget store (without one nothing is charged).
AuthorizeMint(req, now) ==
    /\ Cardinality(decisions) < MaxDecisions
    /\ Authorized(policy, req)
    /\ LET key == <<BudgetKey(policy, req), WindowOf(policy, req, now)>> IN
        /\ Fits(used[key], req.count, BudgetOf(policy, req).limit)
        /\ used' = [used EXCEPT ![key] = @ + req.count]
        /\ decisions' = decisions \cup
            {[allow |-> TRUE, family |-> req.family, count |-> req.count,
              keyVersion |-> req.keyVersion, binding |-> req.binding, address |-> req.address,
              expires |-> now + policy.ttl, charge |-> key, request |-> req]}
    /\ UNCHANGED <<clock, policy, pruned, issuerVars, spendVars, emails>>

\* Prune: has the window ended at now?
EndedBefore(window, length, now) == (window + 1) * length <= now

\* MemoryBudgetStore.Prune; the length of a window is that of its budget.
Prune(now) ==
    /\ used' = [k \in DOMAIN used |->
                 IF k[1][3] \in DOMAIN policy.budgets
                    /\ EndedBefore(k[2], policy.budgets[k[1][3]].window, now)
                 THEN 0 ELSE used[k]]
    /\ used' # used
    /\ pruned' = IF now > pruned THEN now ELSE pruned
    /\ UNCHANGED <<clock, policy, decisions, issuerVars, spendVars, emails>>

-----------------------------------------------------------------------------
(* Issuing on a decision.                                                  *)

\* A caller may leave the time out: the expiry is then not looked at.
NoTime == -1
CallTime == 0..clock \cup {NoTime}

\* validateDecision
validateDecision(d, family, count, keyVersion, now) ==
    /\ d.allow /\ d.family = family
    /\ count > 0 /\ d.count = count
    /\ keyVersion # 0 => d.keyVersion = keyVersion
    /\ d.binding # "" /\ d.expires # 0
    /\ now # NoTime => now <= d.expires

\* Mutant: the binding is quoted but not compared.
BoundAny(d, batch) == TRUE

\* The decision is bound to these blinded targets.
Bound(d, batch) == d.binding = batch

\* What the signer makes: a wiped key still signs, with zeros for a seed.
KeyInUse == IF current \in wiped THEN 0 ELSE current

\* SignAuthorizedBlind and BlindSign: the whole batch or nothing.
SignAuthorizedBlind(d, family, batch, now) ==
    /\ family \in {"burn", "private_identity"}
    /\ validateDecision(d, family, Len(batch), current, now)
    /\ Bound(d, batch)
    /\ LET inputs == {batch[i] : i \in DOMAIN batch} IN
        /\ sigs' = sigs \cup {<<x, KeyInUse>> : x \in inputs}
        /\ paid' = paid \cup {<<x, d.charge>> : x \in inputs}
    /\ UNCHANGED <<clock, policy, budgetVars, decisions, current, wiped, spendVars, emails>>

\* Mutant: the address asked for is not compared with the decision's.
AddressOfAny(d, email) == TRUE

\* policyEmailOptions: the address of the decision, in any case.
AddressOf(d, email) == d.address # "" => EqualFold(d.address, email)

\* IssuePolicyEmail and IssuePolicyEmailPQ, up to the JWS.
IssuePolicyEmail(d, email, now) ==
    /\ validateDecision(d, "policy_email", 1, 0, now)
    /\ email # "" /\ AddressOf(d, email)
    /\ emails' = emails \cup {<<email, d>>}
    /\ UNCHANGED <<clock, policy, budgetVars, decisions, issuerVars, spendVars>>

\* The operator mounts the next epoch and may wipe the old key, or wipes early.
Rotate ==
    /\ current + 1 \in Epoch
    /\ current' = current + 1
    /\ UNCHANGED <<clock, policy, budgetVars, decisions, wiped, sigs, paid, spendVars, emails>>

Zeroize ==
    /\ wiped' = wiped \cup {current} /\ wiped' # wiped
    /\ UNCHANGED <<clock, policy, budgetVars, decisions, current, sigs, paid, spendVars, emails>>

-----------------------------------------------------------------------------
(* Redemption.                                                             *)

\* VerifyBurnToken of the issuer of an epoch: type, challenge, key id, proof.
VerifyBurnToken(epoch, token, challenge) ==
    /\ token.input.type = "burn" /\ token.input.challenge = challenge
    /\ token.input.keyID = epoch
    /\ token.key = epoch

\* A client shows a token to the verifier of an epoch, which marks its nonce.
Redeem(epoch, token, challenge) ==
    /\ VerifyBurnToken(epoch, token, challenge)
    /\ <<epoch, token.input.nonce>> \notin spent
    /\ Len(redeemed[<<epoch, token.input.nonce>>]) < MaxRedeemed
    /\ spent' = spent \cup {<<epoch, token.input.nonce>>}
    /\ redeemed' = [redeemed EXCEPT ![<<epoch, token.input.nonce>>] = Append(@, challenge)]
    /\ UNCHANGED <<clock, policy, budgetVars, decisions, issuerVars, keepFrom, emails>>

\* Mutant: the epoch to keep goes too.
RetiredThrough(epoch, keep) == epoch <= keep

\* PruneEpochsBefore: strictly older epochs are dropped.
Retired(epoch, keep) == epoch < keep

PruneEpochsBefore(keep) ==
    /\ spent' = {s \in spent : ~Retired(s[1], keep)} /\ spent' # spent
    /\ keepFrom' = IF keep > keepFrom THEN keep ELSE keepFrom
    /\ UNCHANGED <<clock, policy, budgetVars, decisions, issuerVars, redeemed, emails>>

Tick ==
    /\ clock < MaxTime
    /\ clock' = clock + 1
    /\ UNCHANGED <<policy, budgetVars, decisions, issuerVars, spendVars, emails>>

Token == {[input |-> s[1], key |-> s[2]] : s \in sigs}

Next ==
    \/ \E req \in Request, now \in 0..clock : AuthorizeMint(req, now)
    \/ \E now \in 0..clock : Prune(now)
    \/ \E d \in decisions, family \in Family, batch \in Batch, now \in CallTime :
        SignAuthorizedBlind(d, family, batch, now)
    \/ \E d \in decisions, email \in Address, now \in CallTime : IssuePolicyEmail(d, email, now)
    \/ \E epoch \in Epoch, token \in Token, challenge \in Challenge :
        Redeem(epoch, token, challenge)
    \/ \E keep \in Epoch : PruneEpochsBefore(keep)
    \/ Rotate \/ Zeroize \/ Tick

Spec == Init /\ [][Next]_vars

-----------------------------------------------------------------------------
\* "A decision cannot be replayed for different targets" (token-roadmap): the
\* distinct targets ever signed for a bucket and window are within its limit,
\* however callers reuse, delay and reorder their decisions, whatever count
\* they asked for and whatever batch they bound.  Prune frees no permit of a
\* window that ends after every time it was given; a window it has dropped
\* starts from zero for a reservation that comes late.
SignedWithinLimit ==
    \A c \in DOMAIN used :
        LET budget == policy.budgets[c[1][3]] IN
        c[1][3] \in DOMAIN policy.budgets /\ pruned < (c[2] + 1) * budget.window
        => Cardinality({p \in paid : p[2] = c}) <= budget.limit

\* A burn token is honoured once per key epoch, whatever challenge it is shown
\* to, and then for a target that some decision paid for, under the challenge
\* and the key its input names, unless PruneEpochsBefore was told that its
\* epoch is retired.
RedeemedOnceAndPaid ==
    \A r \in DOMAIN redeemed : r[1] >= keepFrom /\ redeemed[r] # <<>> =>
        \E p \in paid :
            /\ p[1].type = "burn" /\ p[1].nonce = r[2] /\ p[1].keyID = r[1]
            /\ redeemed[r] = <<p[1].challenge>>

\* With trusted operator keys configured, and operators that sign policies for
\* production only, no request names the bucket it is charged to: the bucket is
\* a verified claim, or one that the policy leaves to the calling service.
BucketsVouched ==
    Trusted # {} => \A d \in decisions :
        LET elig == Chosen(policy, d.request) IN
        \/ policy.gates[elig.gate].bucket_source = "caller"
        \/ \E c \in ClaimName : elig.claims[c] = elig.bucket

\* A policy email names the address that the gate verified for the request
\* its decision was made on, however late it is issued on that decision.
EmailOfVerifiedAddress ==
    \A e \in emails :
        LET elig == Chosen(policy, e[2].request) IN
        \E c \in ClaimName : elig.claims[c] # "" /\ EqualFold(elig.claims[c], e[1])
=============================================================================
