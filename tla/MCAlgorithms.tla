---------------------------- MODULE MCAlgorithms ----------------------------
(***************************************************************************)
(* The pure algorithms, checked on enumerated inputs: a behaviour picks an *)
(* algorithm and then one input for it; an invariant per algorithm relates *)
(* what the code computes on that input to what it should compute.         *)
(***************************************************************************)
EXTENDS Quicksilver, MLDSA, Pomfrit, Encodings

-----------------------------------------------------------------------------
(* gf16 *)

GF16Inputs ==
    \E s, a, b \in Elem : input' = [alg |-> "gf16", part |-> "input", s |-> s, a |-> a, b |-> b]

\* Every packed multiplication multiplies each of its lanes in the field, no
\* lane disturbing another, Inv inverts, and the bin ladder sums c * bins[c]
\* (MulU64, MulFx8, mVecMulAdd, mVecMultiplyBins).
PackedArithmetic ==
    (input.alg = "gf16" /\ input.part = "input") =>
        LET s == input.s  a == input.a  b == input.b
            lanes == [l \in 0 .. 1 |-> IF l = 0 THEN a ELSE b]
            w4 == Pack(lanes, 4)  w8 == Pack(lanes, 8)
            bins == [i \in Elem |-> IF i = 0 THEN {a} ELSE
                        Pack([l \in 0 .. 1 |-> (i * lanes[l] + s) % 16], 4)]
        IN  /\ Mul(s, Add(a, b)) = Add(Mul(s, a), Mul(s, b))
            /\ Mul(s, Mul(a, b)) = Mul(Mul(s, a), b)
            /\ s # 0 => Mul(s, Inv(s)) = 1
            /\ \A l \in 0 .. 1 :
                /\ Lane(MulU64(s, w4, 8), l, 4) = Mul(s, lanes[l])
                /\ Lane(mVecMulAdd(w4, s, {0, 7}, 8), l, 4)
                        = Add(Mul(s, lanes[l]), Lane({0, 7}, l, 4))
                /\ Lane(MulFx8(s, w8, 16), l, 8) = Mul(s, lanes[l])
                /\ s = b => Lane(mVecMultiplyBins(bins, 8), l, 4)
                        = SumOf(LAMBDA i : Mul(i, Lane(bins[i], l, 4)), 1, 15)

-----------------------------------------------------------------------------
(* mayo *)

Shape(m, o, k) == [N |-> o + 2, M |-> m, O |-> o, K |-> k, FTail |-> <<8, 1, 1, 0>>]

\* (equations, variables, the rows of the matrix)
Systems == {<<2, 2, [0 .. 1 -> {0, 1, 2, 7}]>>, <<2, 3, [0 .. 2 -> {0, 1, 7}]>>, <<3, 3, [0 .. 2 -> {0, 1}]>>,
            <<3, 4, [0 .. 3 -> {0, 1}]>>,
            <<4, 4, {[c \in 0 .. 3 |-> IF c \in ones THEN 1 ELSE 0]
                        : ones \in {{}, {0}, {1}, {2}, {3}, {0, 1, 3}}}>>}

SolveInputs ==
    \E sys \in Systems : LET p == Shape(sys[1], sys[2], 1) IN
        \E rows \in [Eqs(p) -> sys[3]], y \in [Eqs(p) -> {0, 1}] :
            input' = [alg |-> "solve", part |-> "input", p |-> p, rows |-> rows, y |-> y]

\* The determinant of the rows and columns given, of as many rows as columns, by
\* its first column; signs do not matter in GF(16).
Det(a, rows, cols) ==
    LET det[r \in SUBSET rows, c \in SUBSET cols] ==
            IF r = {} THEN 1
            ELSE FoldSet(LAMBDA i, sum : Add(sum, Mul(a[i, Min(c)], det[r \ {i}, c \ {Min(c)}])), 0, r)
    IN  det[rows, cols]

\* These rows and columns have a minor of size n that is not zero.
RankAtLeast(a, rows, cols, n) == \E r \in kSubset(n, rows), c \in kSubset(n, cols) : Det(a, r, c) # 0

\* The columns with a pivot, the n-th pivot being the first that raises the rank
\* of the columns so far to n.
Pivots(p, a) ==
    {nc \in (1 .. p.M) \X (0 .. p.K * p.O - 1) :
        /\ RankAtLeast(a, Eqs(p), 0 .. nc[2], nc[1])
        /\ ~RankAtLeast(a, Eqs(p), 0 .. nc[2] - 1, nc[1])}
Independent(p, a) == RankAtLeast(a, Eqs(p), 0 .. p.K * p.O - 1, p.M)

\* The rows EF searches have the pivot; and it is where back substitution looks.
SearchReaches(p, a) ==
    \A nc \in Pivots(p, a) : RankAtLeast(a, 0 .. Min({nc[2] + Band, p.M - 1}), 0 .. nc[2], nc[1])
InBand(p, a) ==
    SearchReaches(p, a) /\ \A nc \in Pivots(p, a) : nc[2] <= (nc[1] - 1) + Band \div (p.M - (nc[1] - 1))

\* When the windows of EF reach every pivot, sampleSolution reports the system
\* solved exactly if its rows are independent; when those of the back substitution
\* do too, what it returns then solves the system, whatever x held before.
\* Outside its windows (32 wide in the code, for up to 142 equations) it may report
\* dependent rows, or a wrong x, as solved.
SolvesFullRank ==
    (input.alg = "solve" /\ input.part = "input") =>
        LET p == input.p
            A == [rc \in Eqs(p) \X (0 .. p.O) |-> IF rc[2] = p.O THEN 9 ELSE input.rows[rc[1]][rc[2]]]
            x0 == [c \in 0 .. p.O |-> IF c = p.O THEN 0 ELSE (3 * c + 1) % 16]
            sol == sampleSolution(p, A, input.y, x0)
        IN  /\ SearchReaches(p, A) => (sol.ok <=> Independent(p, A))
            /\ sol.ok /\ InBand(p, A) =>
                \A e \in Eqs(p) : SumOf(LAMBDA j : Mul(A[e, j], sol.x[j]), 0, p.O - 1) = input.y[e]

MayoInputs ==
    \E p \in {[N |-> 5, M |-> 4, O |-> 2, K |-> 2, FTail |-> <<8, 1, 1, 0>>],
              [N |-> 5, M |-> 4, O |-> 4, K |-> 1, FTail |-> <<4, 0, 8, 1>>]},
       seed \in 0 .. 12, msg \in 1 .. 3, randomizer \in 1 .. 2 :
        input' = [alg |-> "mayo", part |-> "input", p |-> p, seed |-> seed, msg |-> msg,
                  randomizer |-> randomizer]

\* A signer whose loop found a solvable system inside the solver's windows returns
\* a signature and the public key accepts it; whatever it returns verifies, also
\* after Attempts singular systems and outside the windows, since it verifies the
\* result itself; and a preimage of SignWithoutHashing, which does not, maps to its
\* target inside the windows.
\* Signer (L, computeA) and verifier (P3, mCalculatePsSps) expand the key in
\* two different ways that must agree.
MayoSigns ==
    (input.alg = "mayo" /\ input.part = "input") =>
        LET p == input.p
            sigs == signSignature(p, input.msg, input.seed, input.randomizer)
            t == [e \in Eqs(p) |-> (input.msg * (e + 3) + input.randomizer) % 16]
            k == Eager(expandP1P2(p, input.seed))
        IN  \A cpk \in {keypairCompact(p, input.seed)} :
            /\ \A made \in {SignatureMade(p, input.msg, input.seed, input.randomizer)} :
                made.solved /\ InBand(p, made.A) => sigs # {}
            /\ \A sig \in sigs : mayoVerify(p, input.msg, sig, cpk)
            /\ \A pre \in SignWithoutHashing(p, t, input.seed) :
                InBand(p, pre.A) => evalPublicMap(p, decode(pre.s, p.K * p.N), k.P1, k.P2, cpk.P3) = t

\* gf16 as MAYO uses it: the packed products are exact, and so is the solver on
\* every system whose pivots its windows reach.
LinearAlgebraExact == PackedArithmetic /\ SolvesFullRank

-----------------------------------------------------------------------------
(* mldsa *)

\* The rounding constants are the real ones; the degree is 8, and more bits of t
\* are dropped so that two terms of c * t0 can exceed gamma2.
Lattice(eta, gamma1, gamma2, d) ==
    [K |-> 1, L |-> 1, Eta |-> eta, Tau |-> 2, Beta |-> 2 * eta, Gamma1 |-> gamma1,
     Gamma2 |-> gamma2, Omega |-> 2, n |-> 8, d |-> d, t1Bits |-> 24 - d]

\* Coefficients at the edges of the signer's checks.
EdgesOf(p) ==
    <<0, 1, -1, p.Gamma2 - p.Beta, p.Gamma2 - p.Beta - 1, p.Gamma2, -p.Gamma2, p.Gamma2 + 1,
      p.Gamma1 - p.Beta, p.Gamma1 - p.Beta - 1, p.Gamma1 - p.Beta + 1, 1 - p.Gamma1, p.Gamma1,
      1000, -70000, 12345>>

MaskPoly(p, k) ==
    [i \in {0} |-> [j \in 0 .. 7 |->
        Canonical(IF j = 0 THEN EdgesOf(p)[k] ELSE IF j = 1 THEN EdgesOf(p)[((k + 5) % 16) + 1]
                  ELSE 30011 * (j - 4))]]

Small(p, k) == [i \in {0} |-> [j \in 0 .. 7 |-> Canonical(((k * (j + 1) + j * j) % (2 * p.Eta + 1)) - p.Eta)]]

LatticeInputs ==
    \E p \in {Lattice(2, 2^17, (q - 1) \div 88, 17), Lattice(4, 2^19, (q - 1) \div 32, 18)},
       a \in {1, 3, 44, (q - 1) \div 2, q - 1, 1234567}, k \in 1 .. 16, s1, s2 \in {1, 3},
       stream \in {<<7, 0, 3>>, <<6, 6>>, <<2, 7>>}, negative \in {{}, {1}} :
        input' = [alg |-> "mldsa", part |-> "input", p |-> p, a |-> a, k |-> k, s1 |-> s1, s2 |-> s2,
                  stream |-> stream, negative |-> negative]

\* Whatever passes the checks of the rejection loop, verification accepts after
\* every encoding: the bounds on z, on the low bits, on c t0 and on the number
\* of hints are together enough for the verifier to recompute w1.
MldsaSigns ==
    (input.alg = "mldsa" /\ input.part = "input") =>
        LET p == input.p
            A == [r \in {0} |-> [c \in {0} |-> [j \in 0 .. 7 |-> input.a]]]
            c == Eager(sampleInBall(8, p.Tau, input.negative, input.stream))
            keys == KeyGen(p, A, Small(p, input.s1), Small(p, input.s2))
            sigs == signMu(p, keys.sk, "mu", <<MaskPoly(p, input.k), MaskPoly(p, 17 - input.k)>>, c)
        IN  /\ Cardinality({j \in 0 .. 7 : c[j] # 0}) = p.Tau
            /\ \A sig \in sigs : verifyMu(p, keys.pk, "mu", sig, c)

-----------------------------------------------------------------------------
(* faest *)

\* Trees of one deep and two shallow instances, and of deep ones only, where the
\* number of leaves is no power of two and a challenge crosses a byte.
Trees ==
    {[Tau |-> 3, K |-> 3, Tau1 |-> 1, Tau0 |-> 2, L |-> 16, Topen |-> 6, Lambda |-> 16, WGrind |-> 9],
     [Tau |-> 3, K |-> 3, Tau1 |-> 3, Tau0 |-> 0, L |-> 24, Topen |-> 6, Lambda |-> 16, WGrind |-> 7],
     [Tau |-> 3, K |-> 2, Tau1 |-> 1, Tau0 |-> 2, L |-> 8, Topen |-> 3, Lambda |-> 8, WGrind |-> 4]}
WithEM(t, em) == [x \in (DOMAIN t) \cup {"EM"} |-> IF x = "EM" THEN em ELSE t[x]]

BytesOf(n, count) == [i \in 1 .. count |-> (n \div 256^(i - 1)) % 256]

TreeInputs ==
    \/ \E t \in Trees, em \in BOOLEAN : \E delta \in 0 .. 2^(t.Lambda - t.WGrind) - 1 :
        input' = [alg |-> "tree", part |-> "input", p |-> WithEM(t, em),
                  chall |-> BytesOf(delta, t.Lambda \div 8)]
    \/ \E chall \in [1 .. 3 -> {0, 1, 90, 128, 255}], startBit \in 0 .. 7, k \in 1 .. 12 :
        input' = [alg |-> "tree", part |-> "bits", chall |-> chall, startBit |-> startBit, k |-> k]

\* The leaves of the instances share the tree without overlap; an opening lets
\* the verifier rebuild the commitment and derive every leaf but the Tau hidden
\* ones; and Open refuses exactly when the co-path exceeds Topen.
OpensAllButHidden ==
    (input.alg = "tree" /\ input.part = "input") =>
        LET p == input.p
            iDelta == DecodeChallenge(p, input.chall)
            order == LeafOrder(p)
            commit == Commit(p, <<"r">>, <<"iv">>)
            coPath == CoPath(p, Marked(p, iDelta))
            below[n \in Nodes(p)] == n \in Range(coPath) \/ (n # 0 /\ below[Parent(n)])
            opened == Open(p, commit.Keys, commit.Coms, iDelta)
        IN  /\ {order[n].alpha : n \in DOMAIN order} = Leaves(p) /\ Len(order) = p.L
            /\ {n \in Leaves(p) : below[n]} = Leaves(p) \ HiddenLeaves(p, iDelta)
            /\ opened = {} <=> Len(coPath) > p.Topen
            /\ \A op \in opened : \E rec \in Reconstruct(p, op, iDelta, <<"iv">>) : rec.Com = commit.Com

\* After the corrections, each column the verifier rebuilds is the signer's plus
\* u where the challenge has the column's bit: the bits DecodeChallenge reads are
\* the bits hashQMatrix tests, and the sums never outgrow their stack.
VoleCorrelated ==
    input.alg = "tree" =>
        /\ input.part = "bits" =>
            \A j \in 0 .. input.k - 1 : BitOf(challToU16(input.chall, input.startBit, input.k), j)
                                            = ChallengeBit(input.chall, input.startBit + j)
        /\ input.part = "input" =>
            LET p == input.p
                vc == VoleCommit(p, <<"r">>, <<"iv">>)
                stack(i) == convertToVole(p, i, [j \in 0 .. BavcMaxNodeIndex(p, i) - 1 |-> <<j>>], <<"iv">>)
            IN  /\ \A i \in Instances(p) : stack(i).peak <= VoleArrayLength(p, i)
                /\ \A op \in Open(p, vc.Keys, vc.Coms, DecodeChallenge(p, input.chall)) :
                     \A rec \in VoleReconstruct(p, input.chall, op, vc.C, <<"iv">>) :
                        \A row \in 0 .. p.Lambda - 1 :
                            rec.Q[row] = IF ChallengeBit(input.chall, row) = 1
                                         THEN SymDiff(vc.V[row], vc.U) ELSE vc.V[row]

\* FAEST's commitment: opened everywhere but at the hidden leaves, and
\* correlated as the proof system needs it.
FaestCommits == OpensAllButHidden /\ VoleCorrelated

FaestInputs ==
    \E t \in Trees, em \in BOOLEAN :
      \E first \in {2^(t.Lambda - t.WGrind), 2^(t.Lambda - t.WGrind - 1) - 1},
         second \in 0 .. 2^(t.Lambda - t.WGrind) - 1 :
        /\ second % 13 = 5
        /\ input' = [alg |-> "faest", part |-> "input", p |-> WithEM(t, em),
                     oracle |-> <<BytesOf(first, t.Lambda \div 8), BytesOf(second, t.Lambda \div 8)>>]

\* Every signature with one part of it replaced by another of its kind.
Altered(p, sig) ==
    {[sig EXCEPT !.cs[1] = SymDiff(@, sig.uTilde)], [sig EXCEPT !.uTilde = {}], [sig EXCEPT !.d = sig.uTilde],
     [sig EXCEPT !.a1 = sig.a2], [sig EXCEPT !.ivPre = <<"H3">>], [sig EXCEPT !.ctr = 1 - @]}
    \cup {[sig EXCEPT !.coms[i] = Zero] : i \in 1 .. p.Tau}
    \cup {[sig EXCEPT !.nodes[n] = <<"other">>] : n \in 1 .. p.Topen}
    \cup {[sig EXCEPT !.chall3.bytes[1] = (@ + 2^b) % 256] : b \in 0 .. 7}

\* The signer's loop skips the challenges that fail the grinding check or cannot
\* be opened; what it returns verifies, for its message and its key only, and no
\* part of it can be replaced, the padding after the co-path included.
FaestSigns ==
    (input.alg = "faest" /\ input.part = "input") =>
        LET p == input.p  sigs == faestSign(p, "m", "sk", "rho", input.oracle)
        IN  \A sig \in sigs :
                /\ \A m \in {"m", "other"}, sk \in {"sk", "other"} :
                    faestVerify(p, m, PublicKeyFromSecret(sk), sig, input.oracle) <=> m = "m" /\ sk = "sk"
                /\ \A bad \in Altered(p, sig) \ {sig} :
                    ~faestVerify(p, "m", PublicKeyFromSecret("sk"), bad, input.oracle)

-----------------------------------------------------------------------------
(* pomfrit *)

DeltaBits(n, count) == [j \in 0 .. count - 1 |-> BitOf(n, j)]

\* Trees of five and four levels, and one tree of five.
Forests == {[Tau |-> 2, Lambda |-> 9], [Tau |-> 1, Lambda |-> 5]}

ForestInputs ==
    \E p \in Forests : \E delta \in 0 .. 2^p.Lambda - 1 :
        /\ p.Tau = 1 \/ delta % 3 = 1
        /\ input' = [alg |-> "forest", part |-> "input", p |-> p, delta |-> DeltaBits(delta, p.Lambda)]

\* The verifier rebuilds the commitment from an opening, and each column of its
\* keys is the prover's plus u where Delta has the column's bit, though the
\* prover sums its leaves in Gray-code blocks and the verifier has no leaf 0.
ForestCorrelated ==
    (input.alg = "forest" /\ input.part = "input") =>
        LET p == input.p
            vc == MayoVoleCommit(p, <<"seed">>, <<"iv">>)
            opening == MayoForestOpen(p, vc.Forest, vc.HashedLeaves, input.delta)
            rec == mayoVoleReconstruct(p, <<"iv">>, opening, vc.Commitment, input.delta)
        IN  /\ rec.Check = vc.Check
            /\ rec.Q = Keyed(vc.V, input.delta, vc.U)

QuicksilverInputs ==
    \E p \in {[N |-> 3, M |-> 4, O |-> 1, K |-> 2, FTail |-> <<8, 1, 1, 0>>],
              [N |-> 2, M |-> 4, O |-> 1, K |-> 3, FTail |-> <<4, 0, 8, 1>>]},
       seed \in 1 .. 4, delta \in Elem, valid \in BOOLEAN :
        input' = [alg |-> "quicksilver", part |-> "input", p |-> p, seed |-> seed, delta |-> delta,
                  valid |-> valid]

\* At every Delta the verifier's value of the circuit is the prover's polynomial;
\* the committed value is the public map of s plus h plus r, as MAYO's own
\* evaluation computes it, in a random combination; a witness that satisfies it
\* is proved and its check recomputed; one that does not is refused.
QuicksilverProves ==
    (input.alg = "quicksilver" /\ input.part = "input") =>
        LET p == input.p  seed == input.seed  delta == input.delta
            bits == 4 * (p.M + p.K * p.N)
            witness == Eager([n \in 0 .. bits + lambda - 1 |-> Nibble(<<seed, 11>>, n) % 2])
            macs == Eager([n \in 0 .. bits + lambda - 1 |-> Nibble(<<seed, 12>>, n)])
            keys == Eager([n \in DOMAIN macs |-> Add(macs[n], Mul(delta, witness[n]))])
            nibbleAt(n) == combineEmbedTags(witness, 4 * n)
            s == Eager([n \in 0 .. p.K * p.N - 1 |-> nibbleAt(p.M + n)])
            k == Eager(expandP1P2(p, seed))
            P3 == computeP3(p, k, OilSpace(p, seed))
            map == evalPublicMap(p, s, k.P1, k.P2, P3)
            h == [e \in Eqs(p) |-> IF input.valid THEN Add(map[e], nibbleAt(e)) ELSE Nibble(<<seed, 13>>, e)]
            rho == [e \in Eqs(p) |-> Nibble(<<seed, 14>>, e)]
            table == sampleRandomEmbedding(p, rho)
            pk == Eager(combineP1P2P3(p, k, P3))
            c == MayoConstraintProve(p, table, pk, h, witness, macs)
            v == MayoConstraintVerify(p, table, pk, h, keys, delta)
            z == [r0 |-> 3, r1 |-> 7, s |-> 5, t |-> 9]
            proved == QS2Prove(z, <<c>>, witness, macs, bits)
        IN  /\ v.mac = Add(c[0], Add(Mul(c[1], delta), Mul(c[2], Mul(delta, delta))))
            /\ Value(c) = SumOf(LAMBDA e : Mul(rho[e], Add(Add(map[e], nibbleAt(e)), h[e])), 0, p.M - 1)
            /\ input.valid => proved # {}
            /\ \A pr \in proved : QS2Verify(z, <<v>>, keys, bits, pr.proof, delta) = pr.check

BlindInputs ==
    \E delta \in {0, 1, 37, 170, 300, 511} :
        input' = [alg |-> "blind", part |-> "input", p |-> [Tau |-> 2, Lambda |-> 9],
                  delta |-> DeltaBits(delta, 9)]

\* Every proof with one part of it replaced by another of its kind.
AlteredProof(proof) ==
    {[proof EXCEPT !.Commitment[1] = SymDiff(@, proof.UTilde)], [proof EXCEPT !.UTilde = {}],
     [proof EXCEPT !.D = {}], [proof EXCEPT !.QSProof = [@ EXCEPT ![5] = {}]],
     [proof EXCEPT !.Opening[0].hash = Zero], [proof EXCEPT !.Opening[1].sib[2] = Zero],
     [proof EXCEPT !.Delta.bits = [@ EXCEPT ![4] = 1 - @]], [proof EXCEPT !.IVPre = Zero]}

\* An honest round of blind signing ends in a proof that verifies for its
\* message, key and randomness and for no other; no part of the proof can be
\* replaced; and an answer that is no preimage of t, or none, yields none.
BlindSigns ==
    (input.alg = "blind" /\ input.part = "input") =>
        LET p == input.p
            proofs(round, bsig) == Sign3(p, "epk", round.h, bsig, round.st, "r", input.delta)
        IN  \A round \in {Sign1(p, "m", "r")} :
                /\ proofs(round, Preimage("epk", round.t)) # {}
                /\ proofs(round, Preimage("epk", {})) = {} /\ proofs(round, Nil) = {}
                /\ \A proof \in proofs(round, Preimage("epk", round.t)) :
                    /\ \A epk \in {"epk", "other"}, m \in {"m", "other"}, r \in {"r", "other"} :
                        BlindVerify(p, epk, m, proof, r, input.delta) <=> <<epk, m, r>> = <<"epk", "m", "r">>
                    /\ \A bad \in AlteredProof(proof) : ~BlindVerify(p, "epk", "m", bad, "r", input.delta)

\* PoMFRIT's commitment and the whole round of blind signing built on it.
PomfritSigns == ForestCorrelated /\ BlindSigns

-----------------------------------------------------------------------------
(* What Encodings takes its inputs from: tokenprofile, tokenauth, the edges of *)
(* mldsa's rounding, small hint vectors, and issuerd's mail.                *)

Strings(alphabet, low, high) == UNION {[1 .. n -> alphabet] : n \in low .. high}

BurnTokens == [nonce : 0 .. 2, challenge : {0, 2}, kid : {0, 1}, auth : Strings({0, 1}, 2, 3)]
PrivateTokens ==
    UNION {[version : 0 .. 1, kid : 0 .. 2, alg : {alg}, holder : Strings({0, 1}, len, len),
            auth : Strings({0, 1}, 2, 3)] : <<alg, len>> \in {<<1, 1>>, <<2, 2>>, <<3, 1>>}}
Authorizations ==
    [version : {AuthorizationVersion}, bindingHex : {"0a", "0A", "1b", "zz"}, rateLimitID : Strings({0, 1}, 0, 1),
     policyLabel : Strings({0, 1}, 0, 2), maxBatch : 0 .. 1, exp : 0 .. 1, iat : {1}]
TokenBytes ==
    {[i \in DOMAIN b |-> IF i = 1 THEN typ ELSE IF i = 4 THEN alg ELSE b[i]]
        : typ \in 1 .. 3, alg \in 0 .. 4, b \in Strings({0, 1}, 0, 8)}

RoundedAt(gamma2) ==
    {[p |-> [Gamma2 |-> gamma2], r |-> (m * gamma2 + o + q) % q, z |-> z]
        : m \in 0 .. (q - 1) \div gamma2, o \in -2 .. 2, z \in {0, 1, -1, 5000, gamma2 - 1, gamma2, -gamma2}}

\* Two polynomials of four coefficients, at most three hints.
MCHintShape == [K |-> 2, Omega |-> 3, n |-> 4]

\* Recipients a mail may list: verify addresses in several spellings, and what
\* only looks like one.
Config(local, domain, dev) == [VerifyLocalPart |-> <<local>>, MailDomain |-> <<domain>>, Dev |-> dev]
AddressOf(tag) == verifyAddress(Config("v", "d", FALSE), tag)
Recipients ==
    {AddressOf(<<"s">>), <<" ", "V", "+", "s", "@", "D">>, AddressOf(<<"c">>), AddressOf(<<>>),
     AddressOf(<<"n">>), <<"v", "+", "s", "@", "a", "d">>, <<"a", "v", "+", "s", "@", "d">>, <<"a", "@", "d">>, <<"d">>, <<>>}
\* Senders with spaces in a quoted local part.
Quoted ==
    {s \in Strings({"a", " ", "@"}, 0, 5) :
        \A i \in DOMAIN s : s[i] = " " => \E k \in DOMAIN s : i < k /\ s[k] = "@"}
Mails ==
    [to : {<<AddressOf(<<"s">>)>>}, from : Strings({"a", "A", ".", "@"}, 0, 5) \cup Quoted]
        \cup [to : Strings(Recipients, 0, 3), from : {<<"a", "@", "a">>}]
Signatures ==
    {{[domain |-> signer, ok |-> ok], [domain |-> <<"a">>, ok |-> FALSE]}
        : signer \in Strings({"a", "."}, 0, 3) \cup {<<"A">>}, ok \in BOOLEAN}

MCLiveSessions == [t \in {<<"s">>, <<"c">>} |-> IF t = <<"s">> THEN "send" ELSE "code"]

MCDocuments(kind) ==
    CASE kind = "binding" -> SeqOf(Strings({0, 1}, 0, 2), 2) \cup Strings(Strings({0, 1}, 0, 1), 3, 3)
      [] kind = "pseudonym" -> [origin : Strings({0, 1, 2}, 0, 2), holder : Strings({0, 1, 2}, 1, 2)]
      [] kind = "presentation" -> [origin : Strings({0, 1}, 0, 3), nonce : 0 .. 1, digest : 0 .. 2, issuedAt : 0 .. 1]
      [] kind = "context" -> [ctx : Strings({0, 1}, 0, MaxContext + 1), msg : Strings({0, 1, 2}, 0, 2)]
      [] kind = "authorization" -> Authorizations
      [] kind = "time" -> 0 .. 2
      [] kind = "burn" -> BurnTokens
      [] kind = "private" -> PrivateTokens
      [] kind = "bytes" -> TokenBytes
      [] kind = "header" -> [c : Strings(Word, 0, 2), k : Strings(Word, 0, 2), layout : {"plain", "quoted", "swapped"}]
      [] kind = "rounding" -> UNION {RoundedAt(gamma2) : gamma2 \in Gammas}
      [] kind = "encodedHint" -> {pos \o counts : pos \in [1 .. 3 -> 0 .. 3], counts \in [1 .. 2 -> 0 .. 4]}
      [] kind = "hint" -> {h \in [0 .. 1 -> [0 .. 3 -> {0, 1}]] : Cardinality(Ones(MCHintShape, h)) <= 3}
      [] kind = "mail" -> Mails
      [] kind = "dkim" -> Signatures
      [] kind = "config" -> {Config("v", "D", FALSE), Config("v", "d", TRUE), Config("V", "d", TRUE)}

-----------------------------------------------------------------------------
Algorithms == {"gf16", "solve", "mayo", "mldsa", "tree", "faest", "forest", "quicksilver", "blind"}

Init == input \in [alg : Algorithms, part : {"start"}] \/ EncodingInit

AlgorithmInputs ==
    /\ input.part = "start"
    /\ \/ input.alg = "gf16" /\ GF16Inputs
       \/ input.alg = "solve" /\ SolveInputs
       \/ input.alg = "mayo" /\ MayoInputs
       \/ input.alg = "mldsa" /\ LatticeInputs
       \/ input.alg = "tree" /\ TreeInputs
       \/ input.alg = "faest" /\ FaestInputs
       \/ input.alg = "forest" /\ ForestInputs
       \/ input.alg = "quicksilver" /\ QuicksilverInputs
       \/ input.alg = "blind" /\ BlindInputs

Next == AlgorithmInputs \/ EncodingNext

Spec == Init /\ [][Next]_input
=============================================================================
