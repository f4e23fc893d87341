-------------------------------- MODULE Mayo --------------------------------
(***************************************************************************)
(* mayo: key generation, the signer, the hash-free signer of the blind     *)
(* protocol, and verification, for a parameter record p (N, M, O, K and    *)
(* FTail).  An m-vector is a function on the equations 0 .. p.M-1: the     *)
(* limbs it is packed in, and the bins the matrix products accumulate in   *)
(* before the ladder of GF16, only change the layout.  A byte of a         *)
(* serialized vector is a pair of nibbles.                                 *)
(***************************************************************************)
EXTENDS GF16, SequencesExt

CONSTANT Attempts   \* the signer tries the counters 0 .. Attempts-1 (256 in the code)

V(p) == p.N - p.O
ACols(p) == p.K * p.O + 1
Eqs(p) == 0 .. p.M - 1
Vin(p) == 0 .. V(p) - 1
Oil(p) == 0 .. p.O - 1
Rows(p) == 0 .. p.K - 1

SumVec(p, f(_), lo, hi) == Eager([e \in Eqs(p) |-> SumOf(LAMBDA i : f(i)[e], lo, hi)])
Scale(a, vec) == [e \in DOMAIN vec |-> Mul(a, vec[e])]
AddVec(u, v) == Eager([e \in DOMAIN u |-> Add(u[e], v[e])])

\* SHAKE256 and AES-128-CTR: streams of nibbles fixed by what was absorbed, a
\* sequence of numbers.  Seed 0 has a zero oil space and a zero public map.
Absorbed(in) == FoldFunction(LAMBDA x, acc : (acc * 31 + x * 17 + 5) % 4099, 7, in)
Nibble(in, i) ==
    IF in[1] = 0 THEN 0
    ELSE LET s == Absorbed(in) + 97 * i IN (((s * s + 3 * s) % 8191) \div 16) % 16

\* decode and encode: two elements to a byte, low nibble first; with an odd
\* length the last byte holds one.
encode(elems, length) ==
    [i \in 0 .. (length + 1) \div 2 - 1 |->
        <<elems[2 * i], IF 2 * i + 1 < length THEN elems[2 * i + 1] ELSE 0>>]
decode(bytes, length) == [i \in 0 .. length - 1 |-> bytes[i \div 2][(i % 2) + 1]]

-----------------------------------------------------------------------------
(* Keys.  P1 is kept on the pairs r <= c, P2 on (vinegar, oil).            *)

UpperPairs(n) == {rc \in (0 .. n - 1) \X (0 .. n - 1) : rc[1] <= rc[2]}

expandP1P2(p, seed) ==
    [P1 |-> [rc \in UpperPairs(V(p)) |->
                [e \in Eqs(p) |-> Nibble(<<seed, 1>>, (rc[1] * V(p) + rc[2]) * p.M + e)]],
     P2 |-> [rc \in Vin(p) \X Oil(p) |->
                [e \in Eqs(p) |-> Nibble(<<seed, 2>>, (rc[1] * p.O + rc[2]) * p.M + e)]]]

OilSpace(p, seed) == [rc \in Vin(p) \X Oil(p) |-> Nibble(<<seed, 3>>, rc[1] * p.O + rc[2])]

p1TimesO(p, P1, o) ==
    [rc \in Vin(p) \X Oil(p) |->
        SumVec(p, LAMBDA c : Scale(o[c, rc[2]], P1[rc[1], c]), rc[1], V(p) - 1)]

mUpper(size, mat) ==
    [rc \in UpperPairs(size) |->
        IF rc[1] = rc[2] THEN mat[rc] ELSE AddVec(mat[rc], mat[rc[2], rc[1]])]

\* P3 = O^T (P1 O + P2), folded to its upper half.
computeP3(p, k, o) ==
    LET PO == Eager(p1TimesO(p, k.P1, o))
        p2 == [rc \in DOMAIN k.P2 |-> AddVec(k.P2[rc], PO[rc])]
    IN  mUpper(p.O, [rc \in Oil(p) \X Oil(p) |->
            SumVec(p, LAMBDA r : Scale(o[r, rc[1]], p2[r, rc[2]]), 0, V(p) - 1)])

\* The public key: the seed of P1 and P2, and P3.
keypairCompact(p, seed) == [seed |-> seed, P3 |-> computeP3(p, expandP1P2(p, seed), OilSpace(p, seed))]

\* Mutant: P1 instead of P1 + P1^T.
p1p1tTimesOUpper(p, P1, o, acc) ==
    [rc \in Vin(p) \X Oil(p) |->
        AddVec(acc[rc], SumVec(p, LAMBDA c : Scale(o[c, rc[2]], P1[rc[1], c]),
                               rc[1] + 1, V(p) - 1))]

\* L = (P1 + P1^T) O + P2: the diagonal of P1 cancels.
p1p1tTimesO(p, P1, o, acc) ==
    [rc \in Vin(p) \X Oil(p) |->
        AddVec(acc[rc],
               SumVec(p, LAMBDA c : Scale(IF c = rc[1] THEN 0 ELSE o[c, rc[2]],
                                          P1[Min({rc[1], c}), Max({rc[1], c})]),
                      0, V(p) - 1))]

expandSK(p, seed) ==
    LET k == Eager(expandP1P2(p, seed))  o == Eager(OilSpace(p, seed))
    IN  Eager([P1 |-> k.P1, P2 |-> k.P2, O |-> o, L |-> p1p1tTimesO(p, k.P1, o, k.P2)])

-----------------------------------------------------------------------------
(* The public map: sum over i <= j of X^l times a bilinear form.           *)

\* The pairs i <= j in the order computeRHS multiplies by X.
HornerPairs(p) ==
    SetToSortSeq({ij \in Rows(p) \X Rows(p) : ij[1] <= ij[2]},
                 LAMBDA x, y : x[1] > y[1] \/ (x[1] = y[1] /\ x[2] < y[2]))

\* temp * X mod f(X): the top coefficient comes back through the tail.
TimesXModF(p, temp) ==
    [e \in Eqs(p) |->
        Add(IF e = 0 THEN 0 ELSE temp[e - 1],
            IF e < 4 THEN Mul(temp[p.M - 1], p.FTail[e + 1]) ELSE 0)]

computeRHS(p, vpv, t) ==
    LET pairs == HornerPairs(p)
        temp[n \in 0 .. Len(pairs)] ==
            IF n = 0 THEN [e \in Eqs(p) |-> 0]
            ELSE LET ij == pairs[n]
                     sym == IF ij[1] = ij[2] THEN vpv[ij] ELSE AddVec(vpv[ij], vpv[ij[2], ij[1]])
                 IN  AddVec(TimesXModF(p, temp[n - 1]), sym)
    IN  AddVec(t, temp[Len(pairs)])

\* vinegar[i, r] is row i of V.  VL = V L and VPV = V (P1 V^T).
computeMAndVpv(p, vdec, L, P1) ==
    LET pv == Eager([rk \in Vin(p) \X Rows(p) |->
                  SumVec(p, LAMBDA c : Scale(vdec[rk[2], c], P1[rk[1], c]),
                         rk[1], V(p) - 1)])
    IN  [vl |-> [ic \in Rows(p) \X Oil(p) |->
                    SumVec(p, LAMBDA r : Scale(vdec[ic[1], r], L[r, ic[2]]), 0, V(p) - 1)],
         vpv |-> [ij \in Rows(p) \X Rows(p) |->
                    SumVec(p, LAMBDA r : Scale(vdec[ij[1], r], pv[r, ij[2]]), 0, V(p) - 1)]]

\* computeA numbers the pairs i <= j from i = 0 and j = K-1 downwards.
ShiftOf(p, ij) ==
    Cardinality({x \in Rows(p) \X Rows(p) : /\ x[1] <= x[2]
                                            /\ x[1] < ij[1] \/ (x[1] = ij[1] /\ x[2] > ij[2])})

\* Column (i, c) of A before the reduction: a polynomial in X.
ColumnPoly(p, vl, i, c) ==
    [d \in 0 .. p.M + (p.K * (p.K + 1)) \div 2 - 1 |->
        SumOf(LAMBDA j : LET s == d - ShiftOf(p, <<Min({i, j}), Max({i, j})>>) IN
                         IF s \in Eqs(p) THEN vl[j, c][s] ELSE 0,
              0, p.K - 1)]

\* Coefficients M, M+1, ... are folded into the ones M places below.
ReduceModF(p, poly) ==
    LET top == Cardinality(DOMAIN poly)
        red[d \in p.M - 1 .. top - 1] ==
            IF d = p.M - 1 THEN poly
            ELSE LET q == red[d - 1] IN
                 [e \in DOMAIN q |-> IF e - (d - p.M) \in 0 .. 3
                                     THEN Add(q[e], Mul(q[d], p.FTail[e - (d - p.M) + 1])) ELSE q[e]]
    IN  [e \in Eqs(p) |-> red[top - 1][e]]

\* Its last column is left zero.
computeA(p, vl) ==
    LET col == Eager([ic \in Rows(p) \X Oil(p) |-> ReduceModF(p, ColumnPoly(p, vl, ic[1], ic[2]))])
    IN  [ej \in Eqs(p) \X (0 .. ACols(p) - 1) |->
            IF ej[2] = p.K * p.O THEN 0 ELSE col[ej[2] \div p.O, ej[2] % p.O][ej[1]]]

-----------------------------------------------------------------------------
(* sampleSolution: A x = y with x prefilled.                               *)

\* The echelon form of (A | y - A x).
Augmented(p, a, y, x) ==
    LET ko == p.K * p.O
        zeroed == [rc \in DOMAIN a |-> IF rc[2] = ko THEN 0 ELSE a[rc]]
        ar == MatMul(zeroed, x, p.M, ACols(p))
    IN  EF([rc \in DOMAIN a |-> IF rc[2] = ko THEN Add(y[rc[1]], ar[rc[1]]) ELSE a[rc]],
           p.M, ACols(p))

\* One row of the back substitution.
BackRow(p, st, row) ==
    LET ko == p.K * p.O
        cols == {c \in row .. Min({row + Band \div (p.M - row), ko}) : st.a[row, c] # 0}
        col == Min(cols)
        u == st.a[row, ko]
    IN  IF cols = {} THEN st
        ELSE Eager([x |-> [st.x EXCEPT ![col] = Add(@, u)],
              a |-> [rc \in DOMAIN st.a |->
                        IF rc[2] = ko /\ rc[1] < row
                        THEN Add(st.a[rc], Mul(u, st.a[rc[1], col])) ELSE st.a[rc]]])

FullRank(p, a) == \E c \in 0 .. p.K * p.O - 1 : a[p.M - 1, c] # 0

\* From the echelon form e.
BackSubstitute(p, e, x) ==
    LET back[n \in 0 .. p.M] ==
            IF n = 0 THEN [x |-> x, a |-> e] ELSE BackRow(p, back[n - 1], p.M - n)
    IN  [x |-> back[p.M].x, ok |-> FullRank(p, e)]

sampleSolution(p, a, y, x) == BackSubstitute(p, Augmented(p, a, y, x), x)

-----------------------------------------------------------------------------
(* Signing and verification.                                               *)

\* One attempt of the loop: vinegar and x come from hashing (in, ctr).
Attempt(p, sk, t, in, ctr) ==
    LET bytes(i) == Nibble(in \o <<ctr>>, i)
        vdec == [ir \in Rows(p) \X Vin(p) |-> bytes(ir[1] * V(p) + ir[2])]
        mv == Eager(computeMAndVpv(p, vdec, sk.L, sk.P1))
        x == [c \in 0 .. ACols(p) - 1 |-> IF c = p.K * p.O THEN 0 ELSE bytes(p.K * V(p) + c)]
        A == Eager(computeA(p, mv.vl))
    IN  [vdec |-> vdec, A |-> A, sol |-> sampleSolution(p, A, computeRHS(p, mv.vpv, t), x)]

\* The first attempt that succeeds, or the last one.
LastAttempt(p, sk, t, in) ==
    LET try[ctr \in 0 .. Attempts - 1] ==
            LET Keep(a) == IF a.sol.ok \/ ctr = Attempts - 1 THEN a ELSE try[ctr + 1]
            IN  Keep(Attempt(p, sk, t, in, ctr))
    IN  try[0]

\* s = (v + O x, x), row by row, as one vector of K*N elements.
Assemble(p, sk, a) ==
    [n \in 0 .. p.K * p.N - 1 |->
        LET i == n \div p.N  r == n % p.N IN
        IF r >= V(p) THEN a.sol.x[i * p.O + r - V(p)]
        ELSE Add(a.vdec[i, r], SumOf(LAMBDA c : Mul(sk.O[r, c], a.sol.x[i * p.O + c]), 0, p.O - 1))]

\* mCalculatePsSps and evalPublicMap.
evalPublicMap(p, s, P1, P2, P3) ==
    LET at(r, c) == CASE c < V(p) -> P1[r, c]
                      [] r < V(p) /\ c >= V(p) -> P2[r, c - V(p)]
                      [] OTHER -> P3[r - V(p), c - V(p)]
        ps == Eager([rk \in (0 .. p.N - 1) \X Rows(p) |->
                  SumVec(p, LAMBDA c : Scale(s[rk[2] * p.N + c], at(rk[1], c)), rk[1], p.N - 1)])
        sps == [ij \in Rows(p) \X Rows(p) |->
                  SumVec(p, LAMBDA r : Scale(s[ij[1] * p.N + r], ps[r, ij[2]]), 0, p.N - 1)]
    IN  computeRHS(p, sps, [e \in Eqs(p) |-> 0])

\* t = SHAKE256(SHAKE256(msg), salt).
Target(p, msg, salt) == [e \in Eqs(p) |-> Nibble(<<5, msg, salt>>, e)]

mayoVerifySplit(p, msg, sig, P1, P2, P3) ==
    evalPublicMap(p, decode(sig.s, p.K * p.N), P1, P2, P3) = Target(p, msg, sig.salt)

mayoVerify(p, msg, sig, cpk) ==
    LET k == Eager(expandP1P2(p, cpk.seed)) IN mayoVerifySplit(p, msg, sig, k.P1, k.P2, cpk.P3)

\* The signature signSignature makes, before its fault check.
SignatureMade(p, msg, seed, randomizer) ==
    LET sk == expandSK(p, seed)
        salt == Nibble(<<6, msg, randomizer, seed>>, 0)
        From(a) == Eager([s |-> encode(Assemble(p, sk, a), p.K * p.N), salt |-> salt,
                          solved |-> a.sol.ok, A |-> a.A])
    IN  From(LastAttempt(p, sk, Target(p, msg, salt), <<seed, 7, msg, salt>>))

\* signSignature: the signature, or {} when the fault check fails.
signSignature(p, msg, seed, randomizer) ==
    LET Accepts(sk, sig) == mayoVerifySplit(p, msg, sig, sk.P1, sk.P2, computeP3(p, sk, sk.O))
    IN  {sig \in {SignatureMade(p, msg, seed, randomizer)} : Accepts(expandSK(p, seed), sig)}

\* SignWithoutHashing: the target t comes from the caller; nothing is returned
\* when no attempt succeeded.  There is no fault check.
SignWithoutHashing(p, t, seed) ==
    LET sk == expandSK(p, seed)
        From(a) == IF a.sol.ok THEN {Eager([s |-> encode(Assemble(p, sk, a), p.K * p.N), A |-> a.A])} ELSE {}
    IN  From(LastAttempt(p, sk, t, <<seed, 8>> \o [e \in 1 .. p.M |-> t[e - 1]]))
=============================================================================
