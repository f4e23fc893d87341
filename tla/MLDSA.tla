-------------------------------- MODULE MLDSA -------------------------------
(***************************************************************************)
(* mldsa: FIPS 204 as the code computes it, over the real modulus and the  *)
(* real rounding constants.  The ring degree p.n, the dropped bits p.d and *)
(* the dimensions of a parameter record p may be scaled down; the roots of *)
(* unity scale with the degree.  Hashes are symbolic: c~ is the pair (mu,  *)
(* w1) it hashes.                                                          *)
(***************************************************************************)
EXTENDS Rounding, Tables, SequencesExt

zeta == 1753

\* a * b mod q in steps that stay below 2^31: the code's product is an int64.
mulQ(a, b) ==
    LET at[i \in 0 .. 4] ==
            IF i = 4 THEN 0 ELSE (64 * at[i + 1] + a * ((b \div 64^i) % 64)) % q
    IN  at[0]

centered(a) == IF a > (q - 1) \div 2 THEN a - q ELSE a
Abs(c) == IF c < 0 THEN -c ELSE c

-----------------------------------------------------------------------------
(* Polynomials: functions on 0 .. n-1.                                     *)

\* Square and multiply.
PowQ(b, e) ==
    LET pow[i \in 0 .. e] ==
            IF i = 0 THEN 1
            ELSE LET half == pow[i \div 2]  sq == mulQ(half, half)
                 IN  IF i % 2 = 1 THEN mulQ(sq, b) ELSE sq
    IN  pow[e]

\* k with its Log(n) bits reversed, the root of order 2n, and its powers in that
\* order.
Degrees == {4, 8}
Log(n) == CHOOSE l \in 0 .. 8 : 2^l = n
BitRev(n, k) ==
    LET rev[l \in 0 .. Log(n)] == IF l = 0 THEN 0 ELSE 2 * rev[l - 1] + ((k \div 2^(l - 1)) % 2)
    IN  rev[Log(n)]
RootOf(n) == PowQ(zeta, 256 \div n)
Zetas == Eager([n \in Degrees |-> [k \in 0 .. n - 1 |-> PowQ(RootOf(n), BitRev(n, k))]])
NInv == Eager([n \in Degrees |-> CHOOSE x \in {(i * q + 1) \div n : i \in 0 .. 7} : mulQ(x, n) = 1])

\* One layer of butterflies over blocks of 2*length; k numbers the blocks of
\* all layers, so a layer's first block is n/(2*length).
NttLayer(n, a, length) ==
    Eager([j \in 0 .. n - 1 |->
        LET block == j \div (2 * length)  z == Zetas[n][n \div (2 * length) + block]
        IN  IF j % (2 * length) < length THEN addQ(a[j], mulQ(z, a[j + length]))
            ELSE subQ(a[j - length], mulQ(z, a[j]))])

ntt(n, a) ==
    LET layers[l \in 0 .. Log(n)] == IF l = 0 THEN a ELSE NttLayer(n, layers[l - 1], n \div 2^l)
    IN  layers[Log(n)]

\* The inverse takes the same blocks backwards, with -zeta.
InvLayer(n, a, length) ==
    Eager([j \in 0 .. n - 1 |->
        LET block == j \div (2 * length)
            z == q - Zetas[n][n \div length - 1 - block]
        IN  IF j % (2 * length) < length THEN addQ(a[j], a[j + length])
            ELSE mulQ(z, subQ(a[j - length], a[j]))])

invNTT(n, a) ==
    LET layers[l \in 0 .. Log(n)] == IF l = 0 THEN a ELSE InvLayer(n, layers[l - 1], 2^(l - 1))
        b == layers[Log(n)]
    IN  Eager([j \in 0 .. n - 1 |-> mulQ(NInv[n], b[j])])

mulHat(a, b) == [j \in DOMAIN a |-> mulQ(a[j], b[j])]
AddPoly(a, b) == [j \in DOMAIN a |-> addQ(a[j], b[j])]
SubPoly(a, b) == [j \in DOMAIN a |-> subQ(a[j], b[j])]

\* Vectors of polynomials.
normExceeds(v, bound) == \E i \in DOMAIN v : \E j \in DOMAIN v[i] : Abs(centered(v[i][j])) >= bound
VNtt(n, v) == Eager([i \in DOMAIN v |-> ntt(n, v[i])])
VInvNtt(n, v) == Eager([i \in DOMAIN v |-> invNTT(n, v[i])])
VAdd(v, w) == Eager([i \in DOMAIN v |-> AddPoly(v[i], w[i])])
VSub(v, w) == Eager([i \in DOMAIN v |-> SubPoly(v[i], w[i])])
vecMulHat(v, c) == Eager([i \in DOMAIN v |-> mulHat(v[i], c)])
\* f of every coefficient.
Coefs(v, f(_)) == Eager([i \in DOMAIN v |-> [j \in DOMAIN v[i] |-> f(v[i][j])]])

mulMatVecHat(n, a, u) ==
    Eager([r \in DOMAIN a |->
        LET sum[c \in 0 .. Cardinality(DOMAIN u)] ==
                IF c = 0 THEN [j \in 0 .. n - 1 |-> 0]
                ELSE Eager(AddPoly(sum[c - 1], mulHat(a[r][c - 1], u[c - 1])))
        IN  sum[Cardinality(DOMAIN u)]])

-----------------------------------------------------------------------------
(* Packing.                                                                *)

\* Whole bytes leave the accumulator.
Flush(st) ==
    LET f[k \in 0 .. 4] ==
            IF k = 0 THEN st
            ELSE LET x == f[k - 1] IN
                 IF x.nAcc < 8 THEN x
                 ELSE [acc |-> x.acc \div 256, nAcc |-> x.nAcc - 8, dst |-> Append(x.dst, x.acc % 256)]
    IN  f[4]

bitPack(a, bits) ==
    LET st[i \in 0 .. Cardinality(DOMAIN a)] ==
            IF i = 0 THEN [acc |-> 0, nAcc |-> 0, dst |-> <<>>]
            ELSE LET x == st[i - 1] IN
                 Flush([x EXCEPT !.acc = @ + a[i - 1] * 2^x.nAcc, !.nAcc = @ + bits])
    IN  st[Cardinality(DOMAIN a)].dst

\* Bytes are read until the next value is complete.
Fill(src, st, bits) ==
    LET f[k \in 0 .. 4] ==
            IF k = 0 THEN st
            ELSE LET x == f[k - 1] IN
                 IF x.nAcc >= bits THEN x
                 ELSE [x EXCEPT !.acc = @ + src[x.idx + 1] * 2^x.nAcc, !.nAcc = @ + 8, !.idx = @ + 1]
    IN  f[4]

bitUnpack(src, n, bits) ==
    LET st[i \in 0 .. n] ==
            IF i = 0 THEN [acc |-> 0, nAcc |-> 0, idx |-> 0, a |-> <<>>]
            ELSE LET x == Fill(src, st[i - 1], bits) IN
                 [x EXCEPT !.a = Append(@, x.acc % 2^bits), !.acc = @ \div 2^bits, !.nAcc = @ - bits]
    IN  [i \in 0 .. n - 1 |-> st[n].a[i + 1]]

bitLen(v) == CHOOSE l \in 0 .. 31 : v < 2^l /\ (l = 0 \/ v >= 2^(l - 1))

\* z in [-a, b] as b - z.
bitPackSigned(w, a, b) == bitPack([i \in DOMAIN w |-> b - centered(w[i])], bitLen(a + b))
bitUnpackSigned(src, n, a, b) ==
    LET w == bitUnpack(src, n, bitLen(a + b)) IN Eager([i \in 0 .. n - 1 |-> Canonical(b - w[i])])

-----------------------------------------------------------------------------
(* Keys, signing and verification.  What is sampled from a seed (A in the  *)
(* NTT domain, s1, s2, the masks y) is an argument; ball(c~) is            *)
(* sampleInBall of it.                                                     *)

\* The stream of bytes is read until a position at most i comes.
sampleInBall(n, tau, negative, stream) ==
    LET st[k \in 0 .. tau] ==
            IF k = 0 THEN [at |-> 0, c |-> [j \in 0 .. n - 1 |-> 0]]
            ELSE LET x == st[k - 1]
                     i == n - tau + k - 1
                     at == CHOOSE t \in x.at + 1 .. Len(stream) :
                              stream[t] <= i /\ \A u \in x.at + 1 .. t - 1 : stream[u] > i
                     j == stream[at]
                 IN  [at |-> at,
                      c |-> [[x.c EXCEPT ![i] = x.c[j]]
                                EXCEPT ![j] = IF k \in negative THEN q - 1 ELSE 1]]
    IN  st[tau].c

\* bitPackSigned of every polynomial.
VPackSigned(v, a, b) == [i \in DOMAIN v |-> bitPackSigned(v[i], a, b)]

t1Of(p, t) == Coefs(t, LAMBDA r : power2Round(p.d, r)[1])
t0Of(p, t) == Coefs(t, LAMBDA r : Canonical(power2Round(p.d, r)[2]))

KeyGen(p, A, s1, s2) ==
    LET pkEncode(t1) == [A |-> A, t1 |-> [i \in DOMAIN t1 |-> bitPack(t1[i], p.t1Bits)]]
        Keys(t) ==
            [pk |-> pkEncode(t1Of(p, t)),
             sk |-> [A |-> A, s1 |-> VPackSigned(s1, p.Eta, p.Eta), s2 |-> VPackSigned(s2, p.Eta, p.Eta),
                     t0 |-> VPackSigned(t0Of(p, t), 2^(p.d - 1) - 1, 2^(p.d - 1))]]
    IN  Keys(VAdd(VInvNtt(p.n, mulMatVecHat(p.n, A, VNtt(p.n, s1))), s2))

skDecode(p, sk) ==
    LET unpack(v, a, b) == Eager([i \in DOMAIN v |-> bitUnpackSigned(v[i], p.n, a, b)])
    IN  [s1 |-> unpack(sk.s1, p.Eta, p.Eta), s2 |-> unpack(sk.s2, p.Eta, p.Eta),
         t0 |-> unpack(sk.t0, 2^(p.d - 1) - 1, 2^(p.d - 1))]

sigEncode(p, cTilde, z, h) ==
    [cTilde |-> cTilde, h |-> hintBitPack(p, h), z |-> VPackSigned(z, p.Gamma1 - 1, p.Gamma1)]

lowBitsVec(p, v) == Coefs(v, LAMBDA c : Canonical(lowBits(p, c)))
highBitsVec(p, v) == Coefs(v, LAMBDA c : highBits(p, c))

\* Mutant: the low bits of w - c s2 are not bounded.
LowBitsAccepted(p, r) == TRUE

LowBitsOK(p, r) == ~normExceeds(lowBitsVec(p, r), p.Gamma2 - p.Beta)

hints(p, r, ct0) ==
    Eager([i \in DOMAIN r |-> [j \in DOMAIN r[i] |->
              makeHint(p, subQ(0, ct0[i][j]), addQ(r[i][j], ct0[i][j]))]])

Weight(h) == Cardinality({ij \in UNION {{i} \X DOMAIN h[i] : i \in DOMAIN h} : h[ij[1]][ij[2]] = 1})

\* The signature, unless one of the four checks rejects it; r is w - c s2.
Released(p, cTilde, z, r, ct0, h) ==
    IF \/ normExceeds(z, p.Gamma1 - p.Beta) \/ ~LowBitsOK(p, r)
       \/ normExceeds(ct0, p.Gamma2) \/ Weight(h) > p.Omega
    THEN {} ELSE {sigEncode(p, cTilde, z, h)}

\* One turn of the rejection loop: a signature, or {}; ball is the polynomial
\* sampleInBall makes of cTilde.
signAttempt(p, A, s, mu, y, ball) ==
    LET Times(v, cHat) == VInvNtt(p.n, vecMulHat(VNtt(p.n, v), cHat))
        WithR(w, z, r, ct0) == Released(p, <<mu, highBitsVec(p, w)>>, z, r, ct0, hints(p, r, ct0))
        WithW(w, cHat) ==
            WithR(w, VAdd(y, Times(s.s1, cHat)), VSub(w, Times(s.s2, cHat)), Times(s.t0, cHat))
    IN  WithW(VInvNtt(p.n, mulMatVecHat(p.n, A, VNtt(p.n, y))), ntt(p.n, ball))

\* The first mask of the sequence that is not rejected.
signMu(p, sk, mu, masks, ball) ==
    LET s == skDecode(p, sk)
        try[k \in 1 .. Len(masks) + 1] ==
            IF k > Len(masks) THEN {}
            ELSE LET Keep(sig) == IF sig # {} THEN sig ELSE try[k + 1]
                 IN  Keep(signAttempt(p, sk.A, s, mu, masks[k], ball))
    IN  try[1]

\* w1, recomputed from w - c s2 + c t0.
useHints(p, h, w) == [i \in DOMAIN w |-> [j \in DOMAIN w[i] |-> useHint(p, h[i][j], w[i][j])]]

verifyMu(p, pk, mu, sig, ball) ==
    LET t1 == [i \in DOMAIN pk.t1 |-> bitUnpack(pk.t1[i], p.n, p.t1Bits)]
        z == Eager([i \in DOMAIN sig.z |-> bitUnpackSigned(sig.z[i], p.n, p.Gamma1 - 1, p.Gamma1)])
        cHat == ntt(p.n, ball)
        scaled == Coefs(t1, LAMBDA c : mulQ(c, 2^p.d))
        wApprox == VInvNtt(p.n, VSub(mulMatVecHat(p.n, pk.A, VNtt(p.n, z)),
                                     vecMulHat(VNtt(p.n, scaled), cHat)))
    IN  \E h \in hintBitUnpack(p, sig.h) :
            /\ ~normExceeds(z, p.Gamma1 - p.Beta)
            /\ sig.cTilde = <<mu, useHints(p, h, wApprox)>>
=============================================================================
