---------------------------- MODULE Quicksilver ----------------------------
(***************************************************************************)
(* pomfrit: degree-2 QuickSilver and the circuit of the MAYO public map.   *)
(* The field is GF(16) itself, so lambda = 4, the embedding of GF(16) is   *)
(* the identity and its basis is 2, 4, 8.  A prover value of degree d is   *)
(* the polynomial 0 .. d of its MAC coefficients, the last one the         *)
(* committed value; a verifier value is [deg, mac], mac its value at Delta.*)
(***************************************************************************)
EXTENDS Mayo

lambda == 4
qs2MaxDeg == 2

-----------------------------------------------------------------------------
(* Values *)

Deg(a) == Cardinality(DOMAIN a) - 1
Value(a) == a[Deg(a)]

\* Mutant: the coefficients keep their places, the new ones come on top.
PLiftOnTop(a, d) == [i \in 0 .. d |-> IF i <= Deg(a) THEN a[i] ELSE 0]

PLift(a, d) == [i \in 0 .. d |-> IF i < d - Deg(a) THEN 0 ELSE a[i - (d - Deg(a))]]

PAdd(a, b) ==
    LET d == Max({Deg(a), Deg(b)})  x == PLift(a, d)  y == PLift(b, d)
    IN  Eager([i \in 0 .. d |-> Add(x[i], y[i])])

\* No value of a degree over qs2MaxDeg: the code panics.
PMul(a, b) ==
    CASE Deg(a) + Deg(b) <= qs2MaxDeg ->
        Eager([n \in 0 .. Deg(a) + Deg(b) |->
            SumOf(LAMBDA i : IF n - i \in DOMAIN b THEN Mul(a[i], b[n - i]) ELSE 0, 0, Deg(a))])

PMulScalar(a, c) == Eager([i \in DOMAIN a |-> Mul(a[i], c)])
PConst(c) == [i \in {0} |-> c]
PZero(d) == [i \in 0 .. d |-> 0]

deltaPowers(delta, n) == IF n = 1 THEN delta ELSE Mul(delta, delta)

VLift(delta, a, d) ==
    IF d = a.deg THEN a ELSE [deg |-> d, mac |-> Mul(a.mac, deltaPowers(delta, d - a.deg))]

VAddEl(delta, a, b) ==
    LET d == Max({a.deg, b.deg})
    IN  [deg |-> d, mac |-> Add(VLift(delta, a, d).mac, VLift(delta, b, d).mac)]

VMul(a, b) == CASE a.deg + b.deg <= qs2MaxDeg -> [deg |-> a.deg + b.deg, mac |-> Mul(a.mac, b.mac)]
VMulScalar(a, c) == [deg |-> a.deg, mac |-> Mul(a.mac, c)]
VConst(c) == [deg |-> 0, mac |-> c]
VZero(d) == [deg |-> d, mac |-> 0]

\* A witness is a function to bits, macs gives each bit its MAC (or its key).
combineEmbedTags(tags, at) ==
    Add(Add(tags[at], Mul(tags[at + 1], 2)), Add(Mul(tags[at + 2], 4), Mul(tags[at + 3], 8)))

PLoad4(witness, macs, at) ==
    Eager([i \in 0 .. 1 |-> IF i = 0 THEN combineEmbedTags(macs, at)
                            ELSE combineEmbedTags(witness, at)])

VLoad4(macs, at) == [deg |-> 1, mac |-> combineEmbedTags(macs, at)]

\* f.SumPoly over the lambda mask bits: Horner at the field element X.
SumPoly(macs, from) == combineEmbedTags(macs, from)

-----------------------------------------------------------------------------
(* The circuit: u + h + r, where u is the public map at s, all m equations  *)
(* combined by the random elements rho.  witness = r || s.                  *)

\* table[i, n]: n times rho[i].
sampleRandomEmbedding(p, rho) ==
    LET table[n \in 1 .. 15, i \in Eqs(p)] ==
            CASE n = 1 -> rho[i]
              [] n \in {2, 4, 8} -> Mul(n, rho[i])
              [] OTHER -> LET top == IF n > 8 THEN 8 ELSE IF n > 4 THEN 4 ELSE 2
                          IN  Add(table[top, i], table[n - top, i])
    IN  Eager([i \in Eqs(p), n \in Elem |-> IF n = 0 THEN 0 ELSE table[n, i]])

embedGF16Vec(p, table, vec) == SumOf(LAMBDA i : table[i, vec[i]], 0, p.M - 1)

combineP1P2P3(p, k, P3) ==
    [rc \in UpperPairs(p.N) |->
        CASE rc[2] < V(p) -> k.P1[rc]
          [] rc[1] < V(p) /\ rc[2] >= V(p) -> k.P2[rc[1], rc[2] - V(p)]
          [] OTHER -> P3[rc[1] - V(p), rc[2] - V(p)]]

\* The public map times X: one step of applyEP over all vectors.
applyEP(p, pk) == Eager([rc \in DOMAIN pk |-> Eager(TimesXModF(p, pk[rc]))])

\* MayoConstraintProve and MayoConstraintVerify differ in the values they
\* compute with; the pairs i <= j are visited from i = 0 and j = K-1 downwards.
MayoConstraint(p, table, pk, h, load(_), zero(_), const(_), lift(_, _), add(_, _), mul(_, _), scale(_, _)) ==
    LET Sum(f(_), hi, d) ==
            LET sum[n \in 0 .. hi] == IF n = 0 THEN zero(d) ELSE add(sum[n - 1], f(n - 1)) IN sum[hi]
        s == Eager([n \in 0 .. p.K * p.N - 1 |-> load(4 * (p.M + n))])
        rEmb == Sum(LAMBDA i : scale(load(4 * i), table[i, 1]), p.M, 1)
        tEmb == add(lift(const(embedGF16Vec(p, table, h)), 1), rEmb)
        order == [n \in 0 .. Cardinality(UpperPairs(p.K)) - 1 |->
                     CHOOSE ij \in UpperPairs(p.K) : ShiftOf(p, ij) = n]
        shifted[n \in DOMAIN order] == IF n = 0 THEN pk ELSE applyEP(p, shifted[n - 1])
        Form(n) ==
            LET i == order[n][1]  j == order[n][2]
                col == Eager([ab \in UpperPairs(p.N) |-> embedGF16Vec(p, table, shifted[n][ab])])
                Entry(a, b) ==
                    CASE a < b -> scale(s[j * p.N + b], col[a, b])
                      [] a = b /\ i = j -> scale(s[j * p.N + b], col[a, b])
                      [] a > b /\ i # j -> scale(s[j * p.N + b], col[b, a])
                      [] OTHER -> zero(1)
            IN  Sum(LAMBDA a : mul(Sum(LAMBDA b : Entry(a, b), p.N, 1), s[i * p.N + a]), p.N, 2)
    IN  add(Sum(Form, Cardinality(DOMAIN order), 2), tEmb)

MayoConstraintProve(p, table, pk, h, witness, macs) ==
    PLift(MayoConstraint(p, table, pk, h, LAMBDA at : PLoad4(witness, macs, at),
                         PZero, PConst, PLift, PAdd, PMul, PMulScalar), qs2MaxDeg)

MayoConstraintVerify(p, table, pk, h, keys, delta) ==
    VLift(delta, MayoConstraint(p, table, pk, h, LAMBDA at : VLoad4(keys, at),
                                VZero, VConst, LAMBDA a, d : VLift(delta, a, d),
                                LAMBDA a, b : VAddEl(delta, a, b), VMul, VMulScalar), qs2MaxDeg)

-----------------------------------------------------------------------------
(* Proof and check *)

\* The ZK hash of a sequence of constraints, closed with x1; z is its seed.
ZKHash(z, vs, x1) ==
    LET horner[n \in 0 .. Len(vs)] ==
            IF n = 0 THEN <<0, 0>>
            ELSE <<Add(Mul(horner[n - 1][1], z.s), vs[n]), Add(Mul(horner[n - 1][2], z.t), vs[n])>>
        h == horner[Len(vs)]
    IN  Add(Add(Mul(z.r0, h[1]), Mul(z.r1, h[2])), x1)

\* AddConstraint panics, and nothing is proved, unless the value is zero.
QS2Prove(z, cs, witness, macs, witnessBits) ==
    IF \E n \in DOMAIN cs : Value(cs[n]) # 0 THEN {}
    ELSE {[check |-> ZKHash(z, [n \in DOMAIN cs |-> cs[n][0]], SumPoly(macs, witnessBits)),
           proof |-> ZKHash(z, [n \in DOMAIN cs |-> cs[n][1]], SumPoly(witness, witnessBits))]}

QS2Verify(z, cs, keys, witnessBits, proof, delta) ==
    ZKHash(z, [n \in DOMAIN cs |-> cs[n].mac],
           Add(SumPoly(keys, witnessBits), Mul(proof, deltaPowers(delta, 1))))
=============================================================================
