--------------------------- MODULE TokenServiceProofs ---------------------------
(***************************************************************************)
(* What the token service promises on the decisions its callers hold, for  *)
(* every policy, set of requests and batches, and order of calls.  Callers *)
(* reuse decisions at will, so the invariant counts what the decisions of  *)
(* a bucket could ever sign, not what was signed.                          *)
(***************************************************************************)
EXTENDS TokenService, TLAPS, FiniteSetTheorems, WellFoundedInduction

\* The policy in force was signed, if operators sign, and compiled.
PolicyLoaded == \E src \in Source : Loads(src) /\ policy = Compile(src)

\* A decision still says what was authorized.
DecisionSound(d) ==
    /\ d.request \in Request
    /\ Authorized(policy, d.request)
    /\ d.family = d.request.family
    /\ d.address = d.request.address

\* What the signer would sign on a decision, charged to c: nothing unless its
\* count is the length of the batch it is bound to.
Targets(c) ==
    UNION {{<<d.binding[i], c>> : i \in DOMAIN d.binding} :
             d \in {e \in decisions : e.charge = c /\ e.binding \in Batch
                                      /\ e.count = Len(e.binding)}}

\* No target was signed that a decision did not cover.
PaidByDecision == \A p \in paid : p \in Targets(p[2])

\* A window that Prune may not have freed.
Live(c) ==
    /\ c[1][3] \in DOMAIN policy.budgets
    /\ ~EndedBefore(c[2], policy.budgets[c[1][3]].window, pruned)

\* What the decisions of a live window could sign was reserved in it.
Reserved ==
    \A c \in DOMAIN used :
        /\ IsFiniteSet(Targets(c))
        /\ Live(c) => /\ Cardinality(Targets(c)) <= used[c]
                      /\ used[c] <= policy.budgets[c[1][3]].limit

BudgetInv ==
    /\ clock \in 0..MaxTime
    /\ pruned \in Nat
    /\ used \in [BudgetKeys \X (0..MaxTime) -> Nat]
    /\ PolicyLoaded
    /\ \A d \in decisions : DecisionSound(d)
    /\ PaidByDecision
    /\ Reserved

\* Every signature was paid for, and a redeemed token of an epoch still kept
\* is in the spent set.
SpendInv ==
    /\ keepFrom \in Nat
    /\ redeemed \in [Epoch \X Nonce -> Seq(Challenge)]
    /\ \A s \in sigs : \E p \in paid : p[1] = s[1]
    /\ \A r \in Epoch \X Nonce : r[1] >= keepFrom /\ redeemed[r] # <<>> => r \in spent
    /\ RedeemedOnceAndPaid

\* A policy email rests on a decision to send one to that address.
EmailInv ==
    \A e \in emails :
        /\ DecisionSound(e[2]) /\ e[2].family = "policy_email"
        /\ AddressOf(e[2], e[1])
-----------------------------------------------------------------------------
(* The operators of the policy.                                            *)

\* A set of naturals with a member has a least one.
LEMMA LeastNatural ==
  ASSUME NEW S \in SUBSET Nat, S # {}
  PROVE  Min(S) \in S
<1> DEFINE R == OpToRel(<, Nat)
<1>1. \E x \in S : \A y \in S : ~(<<y, x>> \in R)
  BY WFMin, NatLessThanWellFounded
<1>2. \A x, y \in Nat : ~(<<y, x>> \in R) => x <= y
  BY DEF OpToRel
<1>3. \E x \in S : \A y \in S : x <= y
  BY <1>1, <1>2
<1> QED BY <1>3 DEF Min

\* chooseEligibility returns one of the eligibilities it does not skip.
LEMMA ChosenUsable ==
  ASSUME NEW p, NEW req \in Request, Authorized(p, req)
  PROVE  Usable(p, p.tokens[req.family], Chosen(p, req))
<1> DEFINE S == UsableAt(p, p.tokens[req.family], req.eligibility)
<1>1. S # {}
  BY DEF Authorized
<1>2. S \subseteq Nat
  BY DecodedAssumption DEF UsableAt
<1>3. Min(S) \in S
  BY <1>1, <1>2, LeastNatural
<1> QED BY <1>3 DEF UsableAt, Chosen, chooseEligibility

\* Compile keeps what it does not normalize of a token family.
LEMMA CompiledToken ==
  ASSUME NEW src \in Source, NEW f \in DOMAIN src.token_families
  PROVE  LET tok == Compile(src).tokens[f]
             rule == src.token_families[f] IN
         /\ tok.enabled = rule.enabled
         /\ tok.allowed_gates = rule.allowed_gates
         /\ tok.requires_address_claim = rule.requires_address_claim
<1> DEFINE rule == src.token_families[f]
           batch == MaxBatchOf(src, rule)
           origins == {TrimSpace(o) : o \in rule.allowed_origins}
           needs == rule.requires_origin \/ rule.allowed_origins # {}
<1>1. rule \in TokenRule
  BY DecodedAssumption
<1>2. Compile(src).tokens[f]
        = [rule EXCEPT !.max_batch = batch, !.allowed_origins = origins, !.requires_origin = needs]
  BY DEF Compile
<1> HIDE DEF rule, batch, origins, needs
<1>3. LET tok == [rule EXCEPT !.max_batch = batch, !.allowed_origins = origins,
                              !.requires_origin = needs] IN
      /\ tok.enabled = rule.enabled
      /\ tok.allowed_gates = rule.allowed_gates
      /\ tok.requires_address_claim = rule.requires_address_claim
  BY <1>1 DEF TokenRule
<1> QED BY <1>2, <1>3 DEF rule

\* Compile resolves where the bucket of a gate comes from.
LEMMA CompiledGate ==
  ASSUME NEW src \in Source, NEW g \in DOMAIN src.gates
  PROVE  LET gate == Compile(src).gates[g] IN
         /\ gate.bucket_source = BucketSource(src.gates[g])
         /\ gate.bucket_claim = src.gates[g].bucket_claim
<1> DEFINE rule == src.gates[g]
           source == BucketSource(rule)
           hosts == {TrimSpace(h) : h \in rule.allowed_hosts}
<1>1. rule \in GateRule
  BY DecodedAssumption
<1>2. Compile(src).gates[g] = [rule EXCEPT !.bucket_source = source, !.allowed_hosts = hosts]
  BY DEF Compile
<1> HIDE DEF rule, source, hosts
<1>3. LET gate == [rule EXCEPT !.bucket_source = source, !.allowed_hosts = hosts] IN
      gate.bucket_source = source /\ gate.bucket_claim = rule.bucket_claim
  BY <1>1 DEF GateRule
<1> QED BY <1>2, <1>3 DEF rule, source

\* Compile leaves the budgets alone, and they are positive.
LEMMA CompiledBudgets ==
  ASSUME PolicyLoaded, NEW b \in DOMAIN policy.budgets
  PROVE  /\ policy.budgets[b].limit \in Nat
         /\ policy.budgets[b].window \in Nat \ {0}
<1>1. PICK src \in Source : Loads(src) /\ policy = Compile(src)
  BY DEF PolicyLoaded
<1>2. policy.budgets = src.budgets
  BY <1>1 DEF Compile
<1>3. src.budgets[b] \in BudgetRule
  BY <1>2, DecodedAssumption
<1>4. src.budgets[b].limit > 0 /\ src.budgets[b].window > 0
  BY <1>1, <1>2 DEF Loads, Compiles, BudgetsOK
<1> QED BY <1>2, <1>3, <1>4 DEF BudgetRule

\* A batch has no more distinct targets than its length.
LEMMA BatchTargets ==
  ASSUME NEW b \in Batch, NEW c
  PROVE  LET T == {<<b[i], c>> : i \in DOMAIN b} IN
         IsFiniteSet(T) /\ Cardinality(T) <= Len(b) /\ Cardinality(T) \in Nat
<1> DEFINE T == {<<b[i], c>> : i \in DOMAIN b}
           f == [i \in 1..Len(b) |-> <<b[i], c>>]
<1>1. Len(b) \in Nat /\ DOMAIN b = 1..Len(b)
  BY DecodedAssumption
<1>2. f \in Surjection(1..Len(b), T)
  <2>1. \A i \in 1..Len(b) : f[i] = <<b[i], c>> /\ <<b[i], c>> \in T
    BY <1>1
  <2>2. f \in [1..Len(b) -> T]
    BY <2>1
  <2>3. \A t \in T : \E i \in 1..Len(b) : f[i] = t
    BY <1>1
  <2> HIDE DEF f, T
  <2> QED BY <2>2, <2>3 DEF Surjection
<1>3. IsFiniteSet(1..Len(b)) /\ Cardinality(1..Len(b)) = Len(b)
  <2>1. \A n \in Nat : IsFiniteSet(1..n) /\ Cardinality(1..n) = n
    BY FS_Interval
  <2> QED BY <1>1, <2>1
<1>4. IsFiniteSet(T) /\ Cardinality(T) <= Cardinality(1..Len(b))
  BY <1>2, <1>3, FS_Surjection
<1> QED BY <1>3, <1>4, FS_CardinalityType

\* A window that ended at one time has ended at every later one.
LEMMA EndedForGood ==
  ASSUME NEW w \in Int, NEW l \in Int, NEW m \in Int, NEW n \in Int, m <= n,
         EndedBefore(w, l, m)
  PROVE  EndedBefore(w, l, n)
<1>1. (w + 1) * l \in Int
  OBVIOUS
<1> QED BY <1>1 DEF EndedBefore
-----------------------------------------------------------------------------
(* The budget.                                                             *)

\* Nothing is decided, reserved or signed at first.
LEMMA BudgetInitInv == Init => BudgetInv
<1> SUFFICES ASSUME Init PROVE BudgetInv
  OBVIOUS
<1>1. PolicyLoaded
  BY DEF Init, PolicyLoaded
<1>2. \A c : Targets(c) = {}
  BY DEF Init, Targets
<1>3. used \in [BudgetKeys \X (0..MaxTime) -> Nat] /\ \A c \in DOMAIN used : used[c] = 0
  BY DEF Init
<1>4. Reserved
  <2> SUFFICES ASSUME NEW c \in DOMAIN used
               PROVE  /\ IsFiniteSet(Targets(c))
                      /\ Live(c) => /\ Cardinality(Targets(c)) <= used[c]
                                    /\ used[c] <= policy.budgets[c[1][3]].limit
    BY DEF Reserved
  <2>1. IsFiniteSet(Targets(c)) /\ Cardinality(Targets(c)) = 0
    BY <1>2, FS_EmptySet
  <2>2. Live(c) => policy.budgets[c[1][3]].limit \in Nat
    BY <1>1, CompiledBudgets DEF Live
  <2> QED BY <2>1, <2>2, <1>3
<1> QED BY <1>1, <1>3, <1>4, TokenServiceAssumption DEF Init, BudgetInv, PaidByDecision

\* The decision AuthorizeMint gives out on a request.
Decision(req, now) ==
    [allow |-> TRUE, family |-> req.family, count |-> req.count,
     keyVersion |-> req.keyVersion, binding |-> req.binding, address |-> req.address,
     expires |-> now + policy.ttl,
     charge |-> <<BudgetKey(policy, req), WindowOf(policy, req, now)>>, request |-> req]

\* A new decision adds at most its count to what its window could sign, and
\* nothing to the others.
LEMMA NewTargets ==
  ASSUME NEW d, decisions' = decisions \cup {d}, NEW c, d.count \in Int, d.count > 0,
         IsFiniteSet(Targets(c))
  PROVE  /\ Targets(c) \subseteq Targets(c)'
         /\ IsFiniteSet(Targets(c)')
         /\ d.charge # c => Targets(c)' = Targets(c)
         /\ Cardinality(Targets(c)') <= Cardinality(Targets(c)) + d.count
<1> DEFINE T == {<<d.binding[i], c>> : i \in DOMAIN d.binding}
           signs == d.charge = c /\ d.binding \in Batch /\ d.count = Len(d.binding)
<1>0. Cardinality(Targets(c)) \in Nat
  BY FS_CardinalityType
<1>1. CASE ~signs
  <2>1. Targets(c)' = Targets(c)
    BY <1>1 DEF Targets
  <2> QED BY <2>1, <1>0
<1>2. CASE signs
  <2>1. Targets(c)' = Targets(c) \cup T
    BY <1>2 DEF Targets
  <2>2. IsFiniteSet(T) /\ Cardinality(T) <= d.count /\ Cardinality(T) \in Nat
    BY <1>2, BatchTargets
  <2> HIDE DEF T
  <2>3. /\ IsFiniteSet(Targets(c) \cup T)
        /\ Cardinality(Targets(c) \cup T)
             = Cardinality(Targets(c)) + Cardinality(T) - Cardinality(Targets(c) \cap T)
    BY <2>2, FS_Union
  <2>4. Cardinality(Targets(c) \cap T) \in Nat
    BY FS_Intersection, FS_CardinalityType
  <2>5. Cardinality(Targets(c) \cup T) <= Cardinality(Targets(c)) + d.count
    BY <1>0, <2>2, <2>3, <2>4
  <2> QED BY <1>2, <2>1, <2>3, <2>5
<1> QED BY <1>1, <1>2

\* AuthorizeMint reserves what the new decision could sign.
LEMMA AuthorizeKeepsBudget ==
  ASSUME BudgetInv, NEW req \in Request, NEW now \in 0..clock, AuthorizeMint(req, now)
  PROVE  BudgetInv'
<1> DEFINE d == Decision(req, now)
           key == d.charge
<1>1. /\ Authorized(policy, req) /\ key = <<BudgetKey(policy, req), WindowOf(policy, req, now)>>
      /\ used[key] + req.count <= BudgetOf(policy, req).limit
      /\ used' = [used EXCEPT ![key] = @ + req.count]
      /\ decisions' = decisions \cup {d}
      /\ UNCHANGED <<clock, policy, pruned, paid>>
  BY DEF AuthorizeMint, Decision, Fits, issuerVars
<1>2. /\ d.request = req /\ d.family = req.family /\ d.address = req.address
      /\ d.count = req.count
  BY DEF Decision
<1>3. req.count \in Int /\ req.count > 0
  BY <1>1, DecodedAssumption DEF Authorized
<1>4. key[1][3] = policy.tokens[req.family].budget_group
  BY <1>1 DEF BudgetKey
<1> HIDE DEF d
<1>5. PolicyLoaded'
  BY <1>1 DEF BudgetInv, PolicyLoaded
<1>6. \A e \in decisions' : DecisionSound(e)'
  BY <1>1, <1>2 DEF BudgetInv, DecisionSound
<1>7. \A c : IsFiniteSet(Targets(c)) =>
        /\ Targets(c) \subseteq Targets(c)'
        /\ IsFiniteSet(Targets(c)')
        /\ key # c => Targets(c)' = Targets(c)
        /\ Cardinality(Targets(c)') <= Cardinality(Targets(c)) + req.count
  BY <1>1, <1>2, <1>3, NewTargets
<1>8. PaidByDecision'
  <2>1. \A c : Targets(c) \subseteq Targets(c)'
    BY <1>1 DEF Targets
  <2> QED BY <2>1, <1>1 DEF BudgetInv, PaidByDecision
<1>9. used' \in [BudgetKeys \X (0..MaxTime) -> Nat]
  <2> DEFINE K == BudgetKeys \X (0..MaxTime)
  <2>1. used \in [K -> Nat]
    BY DEF BudgetInv
  <2> HIDE DEF K, key
  <2>2. \A k \in K : used[k] \in Nat /\ used[k] + req.count \in Nat
    BY <2>1, <1>3
  <2>3. used' = [used EXCEPT ![key] = used[key] + req.count]
    BY <1>1
  <2>4. used' \in [K -> Nat]
    BY <2>1, <2>2, <2>3
  <2> QED BY <2>4 DEF K
<1>10. Reserved'
  <2> SUFFICES ASSUME NEW c \in DOMAIN used
               PROVE  /\ IsFiniteSet(Targets(c)')
                      /\ Live(c) => /\ Cardinality(Targets(c)') <= used'[c]
                                    /\ used'[c] <= policy.budgets[c[1][3]].limit
    BY <1>1, <1>9 DEF Reserved, Live, BudgetInv
  <2>1. /\ IsFiniteSet(Targets(c)) /\ Cardinality(Targets(c)) \in Nat
        /\ Live(c) => /\ Cardinality(Targets(c)) <= used[c]
                      /\ used[c] <= policy.budgets[c[1][3]].limit
        /\ used[c] \in Nat
    BY FS_CardinalityType DEF BudgetInv, Reserved
  <2>2. CASE c # key
    <3>1. used'[c] = used[c] /\ Targets(c)' = Targets(c)
      BY <1>1, <1>7, <2>1, <2>2 DEF BudgetInv
    <3> QED BY <2>1, <3>1
  <2>3. CASE c = key
    <3>1. used'[c] = used[c] + req.count
      BY <1>1, <2>3 DEF BudgetInv
    <3>2. /\ IsFiniteSet(Targets(c)') /\ Cardinality(Targets(c)') \in Nat
          /\ Cardinality(Targets(c)') <= Cardinality(Targets(c)) + req.count
      BY <1>7, <2>1, FS_CardinalityType
    <3>3. used'[c] <= policy.budgets[c[1][3]].limit
      BY <1>1, <1>4, <2>3, <3>1 DEF BudgetOf
    <3> QED BY <1>3, <2>1, <3>1, <3>2, <3>3
  <2> QED BY <2>2, <2>3
<1> QED BY <1>1, <1>5, <1>6, <1>8, <1>9, <1>10 DEF BudgetInv

\* Prune frees windows that are not live afterwards.
LEMMA PruneKeepsBudget ==
  ASSUME BudgetInv, NEW now \in 0..clock, Prune(now)
  PROVE  BudgetInv'
<1>1. /\ UNCHANGED <<clock, policy, decisions, paid>>
      /\ pruned' = IF now > pruned THEN now ELSE pruned
      /\ used' = [k \in DOMAIN used |->
                    IF k[1][3] \in DOMAIN policy.budgets
                       /\ EndedBefore(k[2], policy.budgets[k[1][3]].window, now)
                    THEN 0 ELSE used[k]]
  BY DEF Prune, issuerVars
<1>2. now \in Nat /\ pruned \in Nat /\ pruned' \in Nat /\ now <= pruned' /\ pruned <= pruned'
  BY <1>1, TokenServiceAssumption DEF BudgetInv
<1>3. used' \in [BudgetKeys \X (0..MaxTime) -> Nat] /\ DOMAIN used' = DOMAIN used
  BY <1>1 DEF BudgetInv
<1>4. \A c : Targets(c)' = Targets(c)
  BY <1>1 DEF Targets
<1>5. PolicyLoaded' /\ PaidByDecision' /\ \A d \in decisions' : DecisionSound(d)'
  BY <1>1, <1>4 DEF BudgetInv, PolicyLoaded, PaidByDecision, DecisionSound
<1>6. Reserved'
  <2> SUFFICES ASSUME NEW c \in DOMAIN used
               PROVE  /\ IsFiniteSet(Targets(c))
                      /\ Live(c)' => /\ Cardinality(Targets(c)) <= used'[c]
                                     /\ used'[c] <= policy.budgets[c[1][3]].limit
    BY <1>1, <1>3, <1>4 DEF Reserved
  <2>1. IsFiniteSet(Targets(c))
    BY DEF BudgetInv, Reserved
  <2>2. ASSUME Live(c)'
        PROVE  Live(c) /\ used'[c] = used[c]
    <3>1. /\ c[1][3] \in DOMAIN policy.budgets
          /\ ~EndedBefore(c[2], policy.budgets[c[1][3]].window, pruned')
      BY <1>1, <2>2 DEF Live, EndedBefore
    <3>2. policy.budgets[c[1][3]].window \in Int
      BY <3>1, CompiledBudgets DEF BudgetInv
    <3>3. c[2] \in Int
      BY TokenServiceAssumption DEF BudgetInv
    <3>4. /\ ~EndedBefore(c[2], policy.budgets[c[1][3]].window, now)
          /\ ~EndedBefore(c[2], policy.budgets[c[1][3]].window, pruned)
      BY <1>2, <3>1, <3>2, <3>3, EndedForGood
    <3> QED BY <1>1, <3>1, <3>4 DEF Live
  <2> QED BY <2>1, <2>2 DEF BudgetInv, Reserved
<1> QED BY <1>1, <1>2, <1>3, <1>5, <1>6 DEF BudgetInv

\* SignAuthorizedBlind signs the batch its decision is bound to, of the length
\* its decision counts.
LEMMA SignKeepsBudget ==
  ASSUME BudgetInv, NEW d \in decisions, NEW family, NEW batch \in Batch,
         NEW now, SignAuthorizedBlind(d, family, batch, now)
  PROVE  BudgetInv'
<1>1. /\ UNCHANGED <<clock, policy, used, pruned, decisions>>
      /\ paid' = paid \cup {<<x, d.charge>> : x \in {batch[i] : i \in DOMAIN batch}}
      /\ d.binding = batch /\ d.count = Len(batch)
  BY DEF SignAuthorizedBlind, validateDecision, Bound, budgetVars
<1>2. \A c : Targets(c)' = Targets(c)
  BY <1>1 DEF Targets
<1>3. \A i \in DOMAIN batch : <<batch[i], d.charge>> \in Targets(d.charge)
  BY <1>1 DEF Targets
<1>4. PaidByDecision'
  <2> SUFFICES ASSUME NEW p \in paid' PROVE p \in Targets(p[2])
    BY <1>2 DEF PaidByDecision
  <2>1. CASE p \in paid
    BY <2>1 DEF BudgetInv, PaidByDecision
  <2>2. CASE p \notin paid
    <3>1. PICK i \in DOMAIN batch : p = <<batch[i], d.charge>>
      BY <1>1, <2>2
    <3> QED BY <1>3, <3>1
  <2> QED BY <2>1, <2>2
<1>5. PolicyLoaded' /\ \A e \in decisions' : DecisionSound(e)'
  BY <1>1 DEF BudgetInv, PolicyLoaded, DecisionSound
<1>6. Reserved'
  BY <1>1, <1>2 DEF BudgetInv, Reserved, Live
<1> QED BY <1>1, <1>4, <1>5, <1>6 DEF BudgetInv

\* The rest leaves decisions and budgets alone.
LEMMA OtherKeepsBudget ==
  ASSUME BudgetInv, clock' \in 0..MaxTime, UNCHANGED <<policy, used, pruned, decisions, paid>>
  PROVE  BudgetInv'
<1>1. \A c : Targets(c)' = Targets(c)
  BY DEF Targets
<1>2. PolicyLoaded' /\ PaidByDecision' /\ \A d \in decisions' : DecisionSound(d)'
  BY <1>1 DEF BudgetInv, PolicyLoaded, PaidByDecision, DecisionSound
<1>3. Reserved'
  BY <1>1 DEF BudgetInv, Reserved, Live
<1> QED BY <1>2, <1>3 DEF BudgetInv

\* One step per action.
LEMMA BudgetNextInv == BudgetInv /\ [Next]_vars => BudgetInv'
<1> SUFFICES ASSUME BudgetInv, [Next]_vars PROVE BudgetInv'
  OBVIOUS
<1>0. clock \in 0..MaxTime
  BY DEF BudgetInv
<1>1. ASSUME NEW req \in Request, NEW now \in 0..clock, AuthorizeMint(req, now) PROVE BudgetInv'
  BY <1>1, AuthorizeKeepsBudget
<1>2. ASSUME NEW now \in 0..clock, Prune(now) PROVE BudgetInv'
  BY <1>2, PruneKeepsBudget
<1>3. ASSUME NEW d \in decisions, NEW family \in Family, NEW batch \in Batch,
             NEW now \in CallTime, SignAuthorizedBlind(d, family, batch, now)
      PROVE  BudgetInv'
  BY <1>3, SignKeepsBudget
<1>4. ASSUME NEW d \in decisions, NEW email \in Address, NEW now \in CallTime,
             IssuePolicyEmail(d, email, now)
      PROVE  BudgetInv'
  BY <1>0, <1>4, OtherKeepsBudget DEF IssuePolicyEmail, budgetVars, issuerVars
<1>5. ASSUME NEW epoch \in Epoch, NEW token \in Token, NEW challenge \in Challenge,
             Redeem(epoch, token, challenge)
      PROVE  BudgetInv'
  BY <1>0, <1>5, OtherKeepsBudget DEF Redeem, budgetVars, issuerVars
<1>6. ASSUME NEW keep \in Epoch, PruneEpochsBefore(keep) PROVE BudgetInv'
  BY <1>0, <1>6, OtherKeepsBudget DEF PruneEpochsBefore, budgetVars, issuerVars
<1>7. CASE Rotate \/ Zeroize
  BY <1>0, <1>7, OtherKeepsBudget DEF Rotate, Zeroize, budgetVars
<1>8. CASE Tick
  <2>1. clock' \in 0..MaxTime
    BY <1>0, <1>8, TokenServiceAssumption DEF Tick
  <2> QED BY <1>8, <2>1, OtherKeepsBudget DEF Tick, budgetVars, issuerVars
<1>9. CASE UNCHANGED vars
  BY <1>0, <1>9, OtherKeepsBudget DEF vars, budgetVars, issuerVars
<1> QED BY <1>1, <1>2, <1>3, <1>4, <1>5, <1>6, <1>7, <1>8, <1>9 DEF Next

\* What decisions could sign stays reserved.
LEMMA BudgetAlwaysInv == Spec => []BudgetInv
  BY BudgetInitInv, BudgetNextInv, PTL DEF Spec

\* The distinct targets signed for a bucket and window are within its limit,
\* for any policy and however callers reuse their decisions, as long as Prune
\* was given no time after the window (AuthorizeMint, SignAuthorizedBlind).
THEOREM ServiceSignsWithinLimit == Spec => []SignedWithinLimit
<1>1. BudgetInv => SignedWithinLimit
  <2> SUFFICES ASSUME BudgetInv, NEW c \in DOMAIN used, Live(c)
               PROVE  Cardinality({p \in paid : p[2] = c}) <= policy.budgets[c[1][3]].limit
    <3> SUFFICES ASSUME BudgetInv, NEW c \in DOMAIN used, c[1][3] \in DOMAIN policy.budgets,
                        pruned < (c[2] + 1) * policy.budgets[c[1][3]].window
                 PROVE  Live(c)
      BY DEF SignedWithinLimit
    <3>1. policy.budgets[c[1][3]].window \in Int /\ c[2] \in Int /\ pruned \in Int
      BY CompiledBudgets, TokenServiceAssumption DEF BudgetInv
    <3>2. (c[2] + 1) * policy.budgets[c[1][3]].window \in Int
      BY <3>1
    <3> QED BY <3>1, <3>2 DEF Live, EndedBefore
  <2> DEFINE P == {p \in paid : p[2] = c}
  <2>1. /\ IsFiniteSet(Targets(c)) /\ used[c] \in Nat
        /\ Cardinality(Targets(c)) <= used[c] /\ used[c] <= policy.budgets[c[1][3]].limit
    BY DEF BudgetInv, Reserved
  <2>2. P \subseteq Targets(c)
    BY DEF BudgetInv, PaidByDecision
  <2>3. /\ Cardinality(P) <= Cardinality(Targets(c))
        /\ Cardinality(P) \in Nat /\ Cardinality(Targets(c)) \in Nat
    BY <2>1, <2>2, FS_Subset, FS_CardinalityType
  <2>4. policy.budgets[c[1][3]].limit \in Nat
    BY CompiledBudgets DEF BudgetInv, Live
  <2> QED BY <2>1, <2>3, <2>4
<1> QED BY <1>1, BudgetAlwaysInv, PTL
-----------------------------------------------------------------------------
(* Redemption.                                                             *)

\* A step that redeems, prunes and signs nothing keeps the spent set right.
LEMMA OtherKeepsSpend ==
  ASSUME SpendInv, UNCHANGED <<spendVars, sigs, paid>>
  PROVE  SpendInv'
<1>1. UNCHANGED <<spent, keepFrom, redeemed, sigs, paid>>
  BY DEF spendVars
<1> QED BY <1>1 DEF SpendInv, RedeemedOnceAndPaid

\* What the signer adds to the signatures it adds to what was paid for.
LEMMA SignKeepsSpend ==
  ASSUME SpendInv, NEW d, NEW family, NEW batch, NEW now,
         SignAuthorizedBlind(d, family, batch, now)
  PROVE  SpendInv'
<1> DEFINE inputs == {batch[i] : i \in DOMAIN batch}
<1>1. /\ sigs' = sigs \cup {<<x, KeyInUse>> : x \in inputs}
      /\ paid' = paid \cup {<<x, d.charge>> : x \in inputs}
      /\ UNCHANGED <<spent, keepFrom, redeemed>>
  BY DEF SignAuthorizedBlind, spendVars
<1> HIDE DEF inputs
<1>2. ASSUME NEW s \in sigs' PROVE \E p \in paid' : p[1] = s[1]
  <2>1. CASE s \in sigs
    BY <1>1, <2>1 DEF SpendInv
  <2>2. ASSUME NEW x \in inputs, s = <<x, KeyInUse>>
        PROVE  \E p \in paid' : p[1] = s[1]
    <3>1. <<x, d.charge>> \in paid' /\ <<x, d.charge>>[1] = s[1]
      BY <1>1, <2>2
    <3> QED BY <3>1
  <2> QED BY <1>1, <2>1, <2>2
<1>3. RedeemedOnceAndPaid'
  BY <1>1 DEF SpendInv, RedeemedOnceAndPaid
<1> QED BY <1>1, <1>2, <1>3 DEF SpendInv

\* Redeem honours a token of a kept epoch that was never honoured before.
LEMMA RedeemKeepsSpend ==
  ASSUME SpendInv, NEW epoch \in Epoch, NEW token \in Token, NEW challenge \in Challenge,
         Redeem(epoch, token, challenge)
  PROVE  SpendInv'
<1> DEFINE k == <<epoch, token.input.nonce>>
           K == Epoch \X Nonce
<1>1. /\ token.input.type = "burn" /\ token.input.keyID = epoch
      /\ token.input.challenge = challenge
      /\ k \notin spent /\ spent' = spent \cup {k}
      /\ redeemed' = [redeemed EXCEPT ![k] = Append(redeemed[k], challenge)]
      /\ UNCHANGED <<sigs, paid, keepFrom>>
  BY DEF Redeem, VerifyBurnToken, issuerVars
<1>2. PICK p \in paid : p[1] = token.input
  BY DEF Token, SpendInv
<1>3. redeemed \in [K -> Seq(Challenge)] /\ redeemed' \in [K -> Seq(Challenge)]
  <2>1. redeemed \in [K -> Seq(Challenge)]
    BY DEF SpendInv
  <2> HIDE DEF k, K
  <2>2. \A r \in K : Append(redeemed[r], challenge) \in Seq(Challenge)
    BY <2>1
  <2> QED BY <1>1, <2>1, <2>2
<1>4. \A r \in K : r # k => redeemed'[r] = redeemed[r]
  BY <1>1, <1>3
<1>5. k \in K => redeemed'[k] = Append(redeemed[k], challenge)
  BY <1>1, <1>3
<1>6. \A r \in K : r[1] >= keepFrom /\ redeemed[r] # <<>> => r \in spent
  BY DEF SpendInv
<1>7. k[1] = epoch /\ k[2] = token.input.nonce
  OBVIOUS
<1> HIDE DEF k
<1>8. \A r \in K : r[1] >= keepFrom /\ redeemed'[r] # <<>> => r \in spent'
  BY <1>1, <1>4, <1>6
<1>9. RedeemedOnceAndPaid'
  <2> SUFFICES ASSUME NEW r \in K, r[1] >= keepFrom, redeemed'[r] # <<>>
               PROVE  \E q \in paid : /\ q[1].type = "burn" /\ q[1].nonce = r[2]
                                      /\ q[1].keyID = r[1]
                                      /\ redeemed'[r] = <<q[1].challenge>>
    BY <1>1, <1>3 DEF RedeemedOnceAndPaid
  <2>1. CASE r # k
    <3>1. redeemed'[r] = redeemed[r] /\ redeemed[r] # <<>>
      BY <1>4, <2>1
    <3> QED BY <1>3, <3>1 DEF SpendInv, RedeemedOnceAndPaid
  <2>2. CASE r = k
    <3>1. redeemed[r] = <<>>
      BY <1>1, <1>6, <2>2
    <3>2. redeemed'[r] = <<challenge>>
      BY <1>5, <2>2, <3>1
    <3> QED BY <1>1, <1>2, <1>7, <2>2, <3>2
  <2> QED BY <2>1, <2>2
<1> HIDE DEF K
<1>10. /\ keepFrom' \in Nat /\ keepFrom' = keepFrom
       /\ \A s \in sigs' : \E q \in paid' : q[1] = s[1]
  BY <1>1 DEF SpendInv
<1> QED BY <1>3, <1>8, <1>9, <1>10 DEF SpendInv, K

\* PruneEpochsBefore drops what is not kept afterwards.
LEMMA RetireKeepsSpend ==
  ASSUME SpendInv, NEW keep \in Epoch, PruneEpochsBefore(keep)
  PROVE  SpendInv'
<1>1. /\ spent' = {s \in spent : ~(s[1] < keep)}
      /\ keepFrom' = IF keep > keepFrom THEN keep ELSE keepFrom
      /\ UNCHANGED <<redeemed, sigs, paid>>
  BY DEF PruneEpochsBefore, Retired, issuerVars
<1>2. /\ keep \in Nat /\ keepFrom \in Nat /\ keepFrom' \in Nat
      /\ keep <= keepFrom' /\ keepFrom <= keepFrom'
  BY <1>1, TokenServiceAssumption DEF SpendInv
<1>3. \A r \in Epoch \X Nonce : r[1] \in Nat
  BY TokenServiceAssumption
<1>4. \A r \in Epoch \X Nonce :
        r[1] >= keepFrom' => r[1] >= keepFrom /\ ~(r[1] < keep)
  BY <1>2, <1>3
<1>5. \A r \in Epoch \X Nonce : r[1] >= keepFrom' /\ redeemed[r] # <<>> => r \in spent'
  BY <1>1, <1>4 DEF SpendInv
<1>6. RedeemedOnceAndPaid'
  BY <1>1, <1>4 DEF SpendInv, RedeemedOnceAndPaid
<1> QED BY <1>1, <1>2, <1>5, <1>6 DEF SpendInv

\* Every step keeps the spent set right.
LEMMA SpendNextInv == SpendInv /\ [Next]_vars => SpendInv'
<1> SUFFICES ASSUME SpendInv, [Next]_vars PROVE SpendInv'
  OBVIOUS
<1>1. ASSUME NEW req \in Request, NEW now \in 0..clock, AuthorizeMint(req, now)
      PROVE  SpendInv'
  BY <1>1, OtherKeepsSpend DEF AuthorizeMint, issuerVars
<1>2. ASSUME NEW now \in 0..clock, Prune(now) PROVE SpendInv'
  BY <1>2, OtherKeepsSpend DEF Prune, issuerVars
<1>3. ASSUME NEW d \in decisions, NEW family \in Family, NEW batch \in Batch,
             NEW now \in CallTime, SignAuthorizedBlind(d, family, batch, now)
      PROVE  SpendInv'
  BY <1>3, SignKeepsSpend
<1>4. ASSUME NEW d \in decisions, NEW email \in Address, NEW now \in CallTime,
             IssuePolicyEmail(d, email, now)
      PROVE  SpendInv'
  BY <1>4, OtherKeepsSpend DEF IssuePolicyEmail, issuerVars
<1>5. ASSUME NEW epoch \in Epoch, NEW token \in Token, NEW challenge \in Challenge,
             Redeem(epoch, token, challenge)
      PROVE  SpendInv'
  BY <1>5, RedeemKeepsSpend
<1>6. ASSUME NEW keep \in Epoch, PruneEpochsBefore(keep) PROVE SpendInv'
  BY <1>6, RetireKeepsSpend
<1>7. CASE Rotate \/ Zeroize \/ Tick
  BY <1>7, OtherKeepsSpend DEF Rotate, Zeroize, Tick, issuerVars
<1>8. CASE UNCHANGED vars
  BY <1>8, OtherKeepsSpend DEF vars, issuerVars
<1> QED BY <1>1, <1>2, <1>3, <1>4, <1>5, <1>6, <1>7, <1>8 DEF Next

\* A burn token of an epoch still kept is honoured once, on a target that a
\* decision paid for and under the challenge and the key its input names, for
\* any epochs, nonces and challenges and any order of Redeem, PruneEpochsBefore, Rotate, Zeroize.
THEOREM ServiceRedeemsOnceAndPaid == Spec => []RedeemedOnceAndPaid
<1>1. Init => SpendInv
  <2> SUFFICES ASSUME Init PROVE SpendInv
    OBVIOUS
  <2>1. /\ redeemed \in [Epoch \X Nonce -> Seq(Challenge)]
        /\ \A r \in Epoch \X Nonce : redeemed[r] = <<>>
        /\ sigs = {} /\ keepFrom = 0
    BY DEF Init
  <2>2. RedeemedOnceAndPaid
    BY <2>1 DEF RedeemedOnceAndPaid
  <2> QED BY <2>1, <2>2 DEF SpendInv
<1>2. SpendInv => RedeemedOnceAndPaid
  BY DEF SpendInv
<1> QED BY <1>1, <1>2, SpendNextInv, PTL DEF Spec
-----------------------------------------------------------------------------
(* What a decision rests on.                                               *)

\* Issuing on a decision keeps the emails sound; no other step adds one.
LEMMA EmailNextInv == BudgetInv /\ EmailInv /\ [Next]_vars => EmailInv'
<1> SUFFICES ASSUME BudgetInv, EmailInv, [Next]_vars PROVE EmailInv'
  OBVIOUS
<1>1. UNCHANGED policy
  BY DEF Next, AuthorizeMint, Prune, SignAuthorizedBlind, IssuePolicyEmail, Redeem,
         PruneEpochsBefore, Rotate, Zeroize, Tick, vars
<1>2. \A d : DecisionSound(d)' <=> DecisionSound(d)
  BY <1>1 DEF DecisionSound
<1>3. ASSUME NEW d \in decisions, NEW email \in Address, NEW now \in CallTime,
             IssuePolicyEmail(d, email, now)
      PROVE  EmailInv'
  <2>1. emails' = emails \cup {<<email, d>>} /\ AddressOf(d, email) /\ d.family = "policy_email"
    BY <1>3 DEF IssuePolicyEmail, validateDecision
  <2>2. DecisionSound(d)
    BY DEF BudgetInv
  <2> SUFFICES ASSUME NEW e \in emails'
               PROVE  DecisionSound(e[2])' /\ e[2].family = "policy_email" /\ AddressOf(e[2], e[1])
    BY DEF EmailInv, AddressOf
  <2>3. CASE e \in emails
    BY <1>2, <2>3 DEF EmailInv
  <2>4. CASE e = <<email, d>>
    <3>1. e[1] = email /\ e[2] = d
      BY <2>4
    <3> QED BY <1>2, <2>1, <2>2, <3>1
  <2> QED BY <2>1, <2>3, <2>4
<1>4. CASE UNCHANGED emails
  BY <1>2, <1>4 DEF EmailInv, AddressOf
<1>5. \/ UNCHANGED emails
      \/ \E d \in decisions, email \in Address, now \in CallTime :
            IssuePolicyEmail(d, email, now)
  BY DEF Next, AuthorizeMint, Prune, SignAuthorizedBlind, Redeem, PruneEpochsBefore,
         Rotate, Zeroize, Tick, vars
<1> QED BY <1>3, <1>4, <1>5

\* What the gate verified for a sound decision to send a policy email.
LEMMA EmailDecisionVerified ==
  ASSUME PolicyLoaded, NEW d, DecisionSound(d), d.family = "policy_email"
  PROVE  /\ d.address # ""
         /\ \E c \in ClaimName : LET claim == Chosen(policy, d.request).claims[c] IN
              claim # "" /\ EqualFold(claim, d.address)
<1> DEFINE req == d.request
           tok == policy.tokens[req.family]
           elig == Chosen(policy, req)
           gate == policy.gates[elig.gate]
<1>1. PICK src \in Source : Loads(src) /\ policy = Compile(src)
  BY DEF PolicyLoaded
<1>2. req.family = "policy_email" /\ d.address = req.address /\ Authorized(policy, req)
  BY DEF DecisionSound
<1>3. DOMAIN policy.tokens = DOMAIN src.token_families
  BY <1>1 DEF Compile
<1>4. req.family \in DOMAIN src.token_families
  BY <1>2, <1>3 DEF Authorized
<1>5. src.token_families[req.family].requires_address_claim
  BY <1>1, <1>2, <1>4 DEF Loads, Compiles, FamiliesOK
<1>6. tok.requires_address_claim
  BY <1>1, <1>4, <1>5, CompiledToken
<1>7. AddressMatches(tok, gate, elig, req)
  BY <1>2 DEF Authorized, Chosen
<1> HIDE DEF tok, elig, gate, req
<1>8. /\ Claim(elig, gate.address_claim) # ""
      /\ TrimSpace(req.address) # ""
      /\ EqualFold(Claim(elig, gate.address_claim), req.address)
  BY <1>6, <1>7 DEF AddressMatches
<1>9. req.address # ""
  BY <1>8 DEF TrimSpace
<1>10. /\ gate.address_claim \in ClaimName
       /\ Claim(elig, gate.address_claim) = elig.claims[gate.address_claim]
  BY <1>8 DEF Claim
<1> QED BY <1>2, <1>8, <1>9, <1>10 DEF elig, req

\* A policy email names the address that the gate verified, for any policy
\* that compiles, any request and any delay (IssuePolicyEmail on AuthorizeMint).
THEOREM ServiceEmailsVerifiedAddress == Spec => []EmailOfVerifiedAddress
<1>1. Init => EmailInv
  BY DEF Init, EmailInv
<1>2. BudgetInv /\ EmailInv => EmailOfVerifiedAddress
  <2> SUFFICES ASSUME BudgetInv, EmailInv, NEW e \in emails
               PROVE  \E c \in ClaimName :
                        LET claim == Chosen(policy, e[2].request).claims[c] IN
                        claim # "" /\ EqualFold(claim, e[1])
    BY DEF EmailOfVerifiedAddress
  <2>1. DecisionSound(e[2]) /\ e[2].family = "policy_email" /\ AddressOf(e[2], e[1])
    BY DEF EmailInv
  <2>2. /\ e[2].address # ""
        /\ \E c \in ClaimName : LET claim == Chosen(policy, e[2].request).claims[c] IN
             claim # "" /\ EqualFold(claim, e[2].address)
    BY <2>1, EmailDecisionVerified DEF BudgetInv
  <2>3. EqualFold(e[2].address, e[1])
    BY <2>1, <2>2 DEF AddressOf
  <2> QED BY <2>2, <2>3 DEF EqualFold
<1> QED BY <1>1, <1>2, BudgetAlwaysInv, EmailNextInv, PTL DEF Spec

\* Operators put their key under production policies only.
OperatorsSignProduction ==
    \A src \in Source, k \in Trusted : <<src, k>> \in Sidecar => ModeOf(src) = "production"

\* The bucket of a sound decision under a policy for production.
LEMMA DecisionVouched ==
  ASSUME NEW src \in Source, Compiles(src), ModeOf(src) = "production",
         policy = Compile(src), NEW d, DecisionSound(d)
  PROVE  LET elig == Chosen(policy, d.request) IN
         \/ policy.gates[elig.gate].bucket_source = "caller"
         \/ \E c \in ClaimName : elig.claims[c] = elig.bucket
<1> DEFINE req == d.request
           tok == policy.tokens[req.family]
           rule == src.token_families[req.family]
           elig == Chosen(policy, req)
           gate == policy.gates[elig.gate]
           from == src.gates[elig.gate]
<1>1. req \in Request /\ Authorized(policy, req)
  BY DEF DecisionSound
<1>2. /\ DOMAIN policy.tokens = DOMAIN src.token_families
      /\ DOMAIN policy.gates = DOMAIN src.gates
  BY DEF Compile
<1>3. /\ req.family \in DOMAIN src.token_families
      /\ tok.enabled /\ BucketMatches(gate, elig)
  BY <1>1, <1>2 DEF Authorized, Chosen
<1>4. Usable(policy, tok, elig)
  BY <1>1, ChosenUsable
<1>5. elig.gate \in tok.allowed_gates /\ elig.gate \in DOMAIN src.gates
  BY <1>2, <1>4 DEF Usable
<1>6. tok.enabled = rule.enabled /\ tok.allowed_gates = rule.allowed_gates
  BY <1>3, CompiledToken
<1>7. BucketSource(from) # ""
  BY <1>3, <1>5, <1>6 DEF Compiles, ProvenanceOK
<1>8. gate.bucket_source = BucketSource(from) /\ gate.bucket_claim = from.bucket_claim
  BY <1>5, CompiledGate
<1>9. /\ from.bucket_source \in {"", "claim", "caller"}
      /\ from.bucket_source = "claim" => from.bucket_claim # ""
  BY <1>5 DEF Compiles, GatesOK
<1> HIDE DEF req, tok, rule, elig, gate, from
<1>10. gate.bucket_source = "caller" \/ gate.bucket_claim # ""
  BY <1>7, <1>8, <1>9 DEF BucketSource
<1>11. CASE gate.bucket_claim # ""
  <2>1. /\ Claim(elig, gate.bucket_claim) # ""
        /\ Claim(elig, gate.bucket_claim) = elig.bucket
    BY <1>3, <1>11 DEF BucketMatches
  <2>2. gate.bucket_claim \in ClaimName /\ elig.claims[gate.bucket_claim] = elig.bucket
    BY <2>1 DEF Claim
  <2> QED BY <2>2 DEF elig, req
<1> QED BY <1>10, <1>11 DEF elig, req, gate

\* With trusted keys whose operators sign production policies only, every mint
\* is charged to a bucket that a claim or the service vouches for, for any
\* policy files, sidecars and requests (VerifyPolicySidecar, Compile,
\* AuthorizeMint).
THEOREM ServiceBucketsVouched ==
  ASSUME OperatorsSignProduction
  PROVE  Spec => []BucketsVouched
<1> DEFINE Signed == \E src \in Source : /\ Loads(src) /\ policy = Compile(src)
                                         /\ Trusted # {} => ModeOf(src) = "production"
<1>1. Init => Signed
  BY OperatorsSignProduction DEF Init, Loads, VerifyPolicySidecar, OperatorsSignProduction
<1>2. Signed /\ [Next]_vars => Signed'
  <2> SUFFICES ASSUME Signed, [Next]_vars PROVE UNCHANGED policy
    OBVIOUS
  <2> QED BY DEF Next, AuthorizeMint, Prune, SignAuthorizedBlind, IssuePolicyEmail, Redeem,
                 PruneEpochsBefore, Rotate, Zeroize, Tick, vars
<1>3. Signed /\ BudgetInv => BucketsVouched
  <2> SUFFICES ASSUME Signed, BudgetInv, Trusted # {}, NEW d \in decisions
               PROVE  LET elig == Chosen(policy, d.request) IN
                      \/ policy.gates[elig.gate].bucket_source = "caller"
                      \/ \E c \in ClaimName : elig.claims[c] = elig.bucket
    BY DEF BucketsVouched
  <2>1. PICK src \in Source : /\ Loads(src) /\ policy = Compile(src)
                              /\ ModeOf(src) = "production"
    OBVIOUS
  <2>2. Compiles(src) /\ DecisionSound(d)
    BY <2>1 DEF Loads, BudgetInv
  <2> QED BY <2>1, <2>2, DecisionVouched
<1> QED BY <1>1, <1>2, <1>3, BudgetAlwaysInv, PTL DEF Spec
=============================================================================
