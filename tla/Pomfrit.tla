------------------------------ MODULE Pomfrit ------------------------------
(***************************************************************************)
(* pomfrit: the forest of GGM trees, its VOLE correlations, and the blind  *)
(* signature over them, with the terms of Faest.  p has Tau and Lambda,    *)
(* the number of bits of Delta, one bit to a column.                       *)
(* Bytes are terms and have no length: the checks that refuse arguments of *)
(* the wrong size (sign.go:138, 214-244, 264 and 281, verify.go:185) are   *)
(* left out, but for the nil answer of an issuer.                          *)
(***************************************************************************)
EXTENDS Faest

-----------------------------------------------------------------------------
(* bavc.go *)

treeDepth(p, i) ==
    IF i < p.Lambda % p.Tau THEN (p.Lambda + p.Tau - 1) \div p.Tau ELSE p.Lambda \div p.Tau

DeltaOffset(p, i) == SumUpTo(LAMBDA n : treeDepth(p, n - 1), i)

NodeOf(p, i, parent, iv, level, x) == PRG(parent, iv, <<"tree", level * p.Tau + i>>, x % 2)

\* The node at (level, x) of tree i: its bits lead down from key at startDepth.
expandSubtree(p, i, iv, key, startDepth, level, x) ==
    LET node[l \in startDepth .. level] ==
            IF l = startDepth THEN key
            ELSE NodeOf(p, i, node[l - 1], iv, l, x \div 2^(level - l))
    IN  node[level]

leafShake(p, node, iv, i, part) == <<"SHAKE", node, iv, (treeDepth(p, i) + 1) * p.Tau + i, part>>

hashOfHashes(p, hashedLeaves) ==
    <<"SHAKE", [i \in Instances(p) |-> <<"SHAKE", hashedLeaves[i], 1>>], 1>>

LeavesOf(p, i) == 0 .. 2^treeDepth(p, i) - 1

MayoForestCommit(p, seed, iv) ==
    LET root(i) == PRG(seed, iv, <<"tree", 0>>, i)
        forest == [i \in Instances(p) |->
                      [lx \in UNION {{l} \X (0 .. 2^l - 1) : l \in 0 .. treeDepth(p, i)} |->
                          expandSubtree(p, i, iv, root(i), 0, lx[1], lx[2])]]
        leaf(i, x) == forest[i][treeDepth(p, i), x]
        hashed == [i \in Instances(p) |-> [x \in LeavesOf(p, i) |-> leafShake(p, leaf(i, x), iv, i, "hash")]]
    IN  [voleKeys |-> [i \in Instances(p) |-> [x \in LeavesOf(p, i) |-> leafShake(p, leaf(i, x), iv, i, "key")]],
         hashedLeaves |-> hashed, check |-> hashOfHashes(p, hashed), forest |-> forest]

\* Per tree, the siblings of the hidden path from the root down and the hash of
\* the hidden leaf.
MayoForestOpen(p, forest, hashedLeaves, delta) ==
    [i \in Instances(p) |->
        LET depth == treeDepth(p, i)
            hole(d) == delta[DeltaOffset(p, i) + depth - d]
            node[d \in 0 .. depth] == IF d = 0 THEN 0 ELSE 2 * node[d - 1] + hole(d)
        IN  [sib |-> [d \in 1 .. depth |-> forest[i][d, 2 * node[d - 1] + 1 - hole(d)]],
             hash |-> hashedLeaves[i][node[depth]]]]

leafIdxFromDelta(p, i, delta) ==
    SumUpTo(LAMBDA j : delta[DeltaOffset(p, i) + j - 1] * 2^(j - 1), treeDepth(p, i))

MayoForestVerify(p, iv, opening, delta) ==
    LET li(i) == leafIdxFromDelta(p, i, delta)
        leaf(i, x) ==
            LET depth == treeDepth(p, i)
                d == CHOOSE d \in 1 .. depth :
                        /\ x \div 2^(depth - d) # li(i) \div 2^(depth - d)
                        /\ x \div 2^(depth - d + 1) = li(i) \div 2^(depth - d + 1)
            IN  expandSubtree(p, i, iv, opening[i].sib[d], d, depth, x)
    IN  [voleKeys |-> [i \in Instances(p) |-> [x \in LeavesOf(p, i) |->
                          IF x = li(i) THEN Zero ELSE leafShake(p, leaf(i, x), iv, i, "key")]],
         check |-> hashOfHashes(p, [i \in Instances(p) |-> [x \in LeavesOf(p, i) |->
                          IF x = li(i) THEN opening[i].hash ELSE leafShake(p, leaf(i, x), iv, i, "hash")]])]

-----------------------------------------------------------------------------
(* svole.go.  Depths exceed voleWidthShift: a tree has two blocks or more.  *)

voleWidthShift == 3
voleWidth == 2^voleWidthShift

volePermuteKeyIndex(i) == XorIndex(i, ((i \div 2) \div voleWidth) * voleWidth, 16)

ReduceLayer(io, i) ==
    [n \in DOMAIN io |->
        LET d == n % 2^(i + 1) IN
        CASE d <= i -> SymDiff(io[n], io[n + 2^i])
          [] d = i + 1 -> io[n - d + 2^i]
          [] OTHER -> io[n]]

xorReduce(io) == ReduceLayer(ReduceLayer(ReduceLayer(io, 0), 1), 2)

TrailingZeros(n) == CHOOSE z \in 0 .. 16 : n % 2^z = 0 /\ n % 2^(z + 1) # 0

\* (i + voleWidth) | (1 << (k - 1))
OutputCol(k, i) == IF i + voleWidth = 2^k THEN k - 1 ELSE TrailingZeros(i + voleWidth)

\* One block of voleWidth leaves, its reduction already in prg.
VoleBlock(st, k, i, prg, ignore0) ==
    LET accum == IF ignore0 THEN st.accum ELSE SymDiff(st.accum, prg[0]) IN
    [accum |-> accum,
     cols |-> [c \in 0 .. k - 1 |->
                 SymDiff(IF c < voleWidthShift THEN SymDiff(st.cols[c], prg[c + 1]) ELSE st.cols[c],
                         IF ~ignore0 /\ c = OutputCol(k, i) THEN accum ELSE {})]]

\* voleSender and voleReceiver: the receiver has no leaf 0 and starts from the
\* corrections.
VoleBlocks(k, column, cols, receiver) ==
    LET st[n \in 0 .. 2^k \div voleWidth] ==
            IF n = 0 THEN [accum |-> {}, cols |-> cols]
            ELSE LET i == (n - 1) * voleWidth IN
                 VoleBlock(st[n - 1], k, i,
                           Eager(xorReduce([d \in 0 .. voleWidth - 1 |->
                                     IF receiver /\ i + d = 0 THEN {} ELSE column[i + d]])),
                           receiver /\ i = 0)
    IN  st[2^k \div voleWidth]

VoleColumn(key, iv, i) == {PRG(key, iv, <<"vole", i>>, "column")}

MayoVoleCommit(p, seed, iv) ==
    LET c == Eager(MayoForestCommit(p, seed, iv))
        depth == [i \in Instances(p) |-> treeDepth(p, i)]
        vole == Eager([i \in Instances(p) |->
                    VoleBlocks(depth[i], [n \in 0 .. 2^depth[i] - 1 |->
                                            VoleColumn(c.voleKeys[i][volePermuteKeyIndex(n)], iv, i)],
                               [k \in 0 .. depth[i] - 1 |-> {}], FALSE)])
    IN  [U |-> vole[0].accum, V |-> Columns(p, depth, [i \in Instances(p) |-> vole[i].cols]),
         Commitment |-> [i \in 1 .. p.Tau - 1 |-> SymDiff(vole[0].accum, vole[i].accum)],
         Check |-> c.check, Forest |-> c.forest, HashedLeaves |-> c.hashedLeaves]

mayoVoleReconstruct(p, iv, opening, commitment, delta) ==
    LET r == Eager(MayoForestVerify(p, iv, opening, delta))
        depth == [i \in Instances(p) |-> treeDepth(p, i)]
        keyAt(i, n) == r.voleKeys[i][XorIndex(volePermuteKeyIndex(n), leafIdxFromDelta(p, i, delta), 16)]
        corrections(i) ==
            [k \in 0 .. depth[i] - 1 |->
                IF i # 0 /\ delta[DeltaOffset(p, i) + k] = 1 THEN commitment[i] ELSE {}]
        vole == Eager([i \in Instances(p) |->
                    VoleBlocks(depth[i], [n \in 1 .. 2^depth[i] - 1 |-> VoleColumn(keyAt(i, n), iv, i)], corrections(i), TRUE)])
    IN  [Q |-> Columns(p, depth, [i \in Instances(p) |-> vole[i].cols]), Check |-> r.check]

-----------------------------------------------------------------------------
(* sign.go, verify.go *)

VoleSeed == <<"SHAKE", "seed", 3>>
IVPreOfSeed == <<"SHAKE", "ivPre", 3>>

Prove1(p, rAdditional) ==
    LET iv == hashIV(IVPreOfSeed)
        State(vc) == [VC |-> vc, IVPre |-> IVPreOfSeed, R |-> vc.U,
                      Chal1 |-> <<"chal1", rAdditional, vc.Check, vc.Commitment, iv>>]
    IN  State(MayoVoleCommit(p, VoleSeed, iv))

\* The part of a string that lies over the preimage s.
OverS(string) == {<<"s", x>> : x \in string}

\* The witness r || s || mask: u, with s in place of its part over s.
QSWitness(u, s) == SymDiff(u, SymDiff(OverS(u), {<<"s", s>>}))

\* sign_2, the issuer's SignWithoutHashing (module Mayo): a preimage of t, or nil
\* when no attempt found one.
Preimage(epk, t) == <<"preimage", epk, t>>
Nil == <<>>

\* The constraint: the public map of s is h + r, r being the witness's share of u.
ConstraintHolds(pk, witness) ==
    LET r == {x \in witness : x[1] = "PRG"}
    IN  witness = QSWitness(r, Preimage(pk.epk, SymDiff({pk.h}, r)))

\* The proof is ideal (module Quicksilver has the real one): it yields its check
\* only to keys that are its tags plus Delta times its witness.
qsProofOf(pk, chal2, v, witness) == <<"qs", pk, chal2, v, witness>>
qsCheckOf(proof) == <<"check", proof>>

Keyed(cols, delta, string) ==
    [c \in DOMAIN cols |-> IF delta[c] = 1 THEN SymDiff(cols[c], string) ELSE cols[c]]

qsVerify(pk, chal2, keys, delta, proof) ==
    LET witness == proof[5]
    IN  IF /\ ConstraintHolds(pk, witness)
           /\ proof = qsProofOf(pk, chal2, Keyed(keys, delta, witness), witness)
        THEN qsCheckOf(proof) ELSE <<"unrelated", proof>>

chal2Of(rAdditional, chal1, uTilde, colHashes, d) == <<"chal2", rAdditional, chal1, uTilde, colHashes, d>>

\* Mutant: Delta does not depend on the proof.
deltaOfChallenge(oracle, chal2, qsCheck, qsProof) == [bits |-> oracle, of |-> <<"delta", chal2>>]

\* The oracle's answer is given; it also names its query.
deltaOf(oracle, chal2, qsCheck, qsProof) == [bits |-> oracle, of |-> <<"delta", chal2, qsCheck, qsProof>>]

\* None when AddConstraint panics.
Prove2(p, st, pk, s, rAdditional, oracle) ==
    LET vc == st.VC
        d == SymDiff(OverS(vc.U), {<<"s", s>>})
        witness == QSWitness(vc.U, s)
        uTilde == hashUVector(vc.U)
        chal2 == chal2Of(rAdditional, st.Chal1, uTilde, hashVMatrix(vc.V), d)
        qsProof == qsProofOf(pk, chal2, vc.V, witness)
        delta == deltaOf(oracle, chal2, qsCheckOf(qsProof), qsProof)
    IN  IF ~ConstraintHolds(pk, witness) THEN {}
        ELSE {[Commitment |-> vc.Commitment, UTilde |-> uTilde, D |-> d, QSProof |-> qsProof,
               Opening |-> MayoForestOpen(p, vc.Forest, vc.HashedLeaves, delta.bits),
               Delta |-> delta, IVPre |-> st.IVPre]}

pomfritVerify(p, pk, rAdditional, proof, oracle) ==
    LET iv == hashIV(proof.IVPre)
        delta == proof.Delta.bits
        Accepts(rec) ==
            LET chal1 == <<"chal1", rAdditional, rec.Check, proof.Commitment, iv>>
                chal2 == chal2Of(rAdditional, chal1, proof.UTilde, Keyed(rec.Q, delta, proof.UTilde), proof.D)
                qsCheck == qsVerify(pk, chal2, Keyed(rec.Q, delta, proof.D), delta, proof.QSProof)
            IN  proof.Delta = deltaOf(oracle, chal2, qsCheck, proof.QSProof)
    IN  Accepts(mayoVoleReconstruct(p, iv, proof.Opening, proof.Commitment, delta))

BlindHash(m, commitment) == <<"SHAKE256", m, commitment>>

\* sign_1: t goes to the issuer, which answers with a preimage of t.
Sign1(p, m, rAdditional) ==
    LET Blind(st, h) == [t |-> SymDiff({h}, st.R), st |-> st, h |-> h]
        Hashed(st) == Blind(st, BlindHash(m, st.VC.Commitment))
    IN  Hashed(Prove1(p, rAdditional))

\* A bsig of the wrong length, nil above all, yields an empty proof.
Sign3(p, epk, h, bsig, st, rAdditional, oracle) ==
    IF bsig = Nil THEN {} ELSE Prove2(p, st, [epk |-> epk, h |-> h], bsig, rAdditional, oracle)

BlindVerify(p, epk, m, proof, rAdditional, oracle) ==
    pomfritVerify(p, [epk |-> epk, h |-> BlindHash(m, proof.Commitment)], rAdditional, proof, oracle)
=============================================================================
