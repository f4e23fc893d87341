------------------------------- MODULE Faest -------------------------------
(***************************************************************************)
(* FAEST: the batch all-but-one commitment over one GGM tree, the VOLE     *)
(* correlations drawn from it, and the signature that opens it.            *)
(*                                                                         *)
(* A string read from the PRG or from a random oracle is the tuple of what *)
(* was absorbed, so that two of them are equal exactly when they were read *)
(* at the same place from the same input.  A string of lHat bytes is the   *)
(* set of PRG outputs whose exclusive-or it is; {} is all zeroes.  p has   *)
(* the fields of Tau, the flag EM, WGrind and the challenge's bit length.  *)
(***************************************************************************)
EXTENDS Tables, Integers, SequencesExt

Zero == <<>>
PRG(key, iv, tweak, part) == <<"PRG", key, iv, tweak, part>>

-----------------------------------------------------------------------------
(* params.go *)

Instances(p) == 0 .. p.Tau - 1
Nodes(p) == 0 .. 2 * p.L - 2
Leaves(p) == p.L - 1 .. 2 * p.L - 2

Tau1Offset(p, i) == p.K * i

Tau0Offset(p, i) == p.Tau1 * p.K + (p.K - 1) * (i - p.Tau1)

BavcIndexOffset(p, i) ==
    IF i < p.Tau1 THEN 2^p.K * i ELSE p.Tau1 * 2^p.K + 2^(p.K - 1) * (i - p.Tau1)

BavcMaxNodeDepth(p, i) == IF i < p.Tau1 THEN p.K ELSE p.K - 1
BavcMaxNodeIndex(p, i) == 2^BavcMaxNodeDepth(p, i)

\* Mutant: the upper halves are laid out as if all instances had one.
PosInTreeAllDeep(p, i, j) ==
    IF j < 2^(p.K - 1) THEN p.L - 1 + p.Tau * j + i
    ELSE p.L - 1 + p.Tau * 2^(p.K - 1) + p.Tau * (j % 2^(p.K - 1)) + i

PosInTree(p, i, j) ==
    IF j < 2^(p.K - 1) THEN p.L - 1 + p.Tau * j + i
    ELSE p.L - 1 + p.Tau * 2^(p.K - 1) + p.Tau1 * (j % 2^(p.K - 1)) + i

SumUpTo(f(_), hi) ==
    LET sum[d \in 0 .. hi] == IF d = 0 THEN 0 ELSE sum[d - 1] + f(d) IN sum[hi]

VoleArrayLength(p, i) ==
    LET n == BavcMaxNodeIndex(p, i)  k == BavcMaxNodeDepth(p, i)
    IN  n \div 2 - SumUpTo(LAMBDA d : IF d < 2 THEN 0 ELSE n \div 2^d - 1, k - 1)

\* A challenge is a sequence of bytes.
challToU16(chall, startBit, k) ==
    LET byte(i) == chall[(startBit \div 8) + i + 1]
        bitOff == startBit % 8
        nbitsFirst == 8 - bitOff
        first == byte(0) \div 2^bitOff
    IN  IF k <= nbitsFirst THEN first % 2^k
        ELSE IF k <= 8 + nbitsFirst
        THEN first + (byte(1) % 2^(k - nbitsFirst)) * 2^nbitsFirst
        ELSE first + byte(1) * 2^nbitsFirst
             + (byte(2) % 2^(k - nbitsFirst - 8)) * 2^(nbitsFirst + 8)

DecodeChallenge(p, chall) ==
    [i \in Instances(p) |->
        IF i < p.Tau1 THEN challToU16(chall, Tau1Offset(p, i), p.K)
        ELSE challToU16(chall, Tau0Offset(p, i), p.K - 1)]

BitOf(n, j) == (n \div 2^j) % 2

-----------------------------------------------------------------------------
(* bavc.go *)

Parent(n) == (n - 1) \div 2

\* The child n of the node that holds key; the PRG is tweaked by the parent.
ChildKey(key, iv, n) == PRG(key, iv, <<"node", Parent(n)>>, n - 2 * Parent(n))

constructKeys(p, r, iv) ==
    LET keys[n \in Nodes(p)] == IF n = 0 THEN r ELSE ChildKey(keys[Parent(n)], iv, n) IN Eager(keys)

leafCommitEM(key, iv, tweak) == [sd |-> key, com |-> PRG(key, iv, tweak, "com")]

LeafCommit(r, iv, tweak, uhash) ==
    [sd |-> PRG(r, iv, tweak, "sd"), com |-> <<"LeafHash", uhash, PRG(r, iv, tweak, "hash")>>]

\* [sd, com] of a leaf of instance i.
CommitLeaf(p, key, iv, i) ==
    LET tweak == <<"leaf", i + p.L - 1>>
    IN  IF p.EM THEN leafCommitEM(key, iv, tweak) ELSE LeafCommit(key, iv, tweak, <<"H0", iv, i>>)

\* The leaves in the order Commit and Reconstruct visit them.
LeafOrder(p) ==
    FlattenSeq([n \in 1 .. p.Tau |->
        [m \in 1 .. BavcMaxNodeIndex(p, n - 1) |-> [i |-> n - 1, alpha |-> PosInTree(p, n - 1, m - 1)]]])

\* H1 over the H1 of each instance's leaf commitments.
ComHash(p, coms) ==
    <<"H1", [i \in Instances(p) |->
        <<"H1", SubSeq(coms, BavcIndexOffset(p, i) + 1, BavcIndexOffset(p, i) + BavcMaxNodeIndex(p, i))>>]>>

Commit(p, r, iv) ==
    LET leaves(order, keys) ==
            Eager([n \in DOMAIN order |-> CommitLeaf(p, keys[order[n].alpha], iv, order[n].i)])
        From(keys, leaf, coms) ==
            [Com |-> ComHash(p, coms), Keys |-> keys, Coms |-> coms,
             Seeds |-> [n \in DOMAIN leaf |-> leaf[n].sd]]
        WithLeaves(keys, leaf) == From(keys, leaf, [n \in DOMAIN leaf |-> leaf[n].com])
        WithKeys(keys) == WithLeaves(keys, leaves(LeafOrder(p), keys))
    IN  WithKeys(constructKeys(p, r, iv))

HiddenLeaves(p, iDelta) == {PosInTree(p, i, iDelta[i]) : i \in Instances(p)}

\* The hidden leaves and every node above one.
Marked(p, iDelta) ==
    LET path[n \in Nodes(p)] == IF n = 0 THEN {0} ELSE {n} \cup path[Parent(n)]
    IN  UNION {path[n] : n \in HiddenLeaves(p, iDelta)}

markNodes(p, s) == Cardinality(s) - 2 * p.Tau + 1 <= p.Topen

\* The unmarked children of nodes with one marked child, last node first.
CoPath(p, s) ==
    LET split == SelectSeq([n \in 1 .. p.L - 1 |-> p.L - 1 - n],
                           LAMBDA i : (2 * i + 1 \in s) # (2 * i + 2 \in s))
    IN  [n \in DOMAIN split |-> IF 2 * split[n] + 1 \in s THEN 2 * split[n] + 2 ELSE 2 * split[n] + 1]

\* The opening, or none when it would exceed Topen.
Open(p, keys, coms, iDelta) ==
    LET s == Marked(p, iDelta)  coPath == CoPath(p, s)
        coms1(i) == coms[BavcIndexOffset(p, i) + iDelta[i] + 1]
    IN  IF markNodes(p, s)
        THEN {[Coms |-> [n \in 1 .. p.Tau |-> coms1(n - 1)],
               Nodes |-> [n \in DOMAIN coPath |-> keys[coPath[n]]]]}
        ELSE {}

\* Mutant: nodes past the co-path are not looked at.
LeftoverIgnored(nodes, used) == TRUE

LeftoverZero(nodes, used) == \A n \in DOMAIN nodes : n > used => nodes[n] = Zero

reconstructKeys(p, nodes, s, iv) ==
    LET coPath == CoPath(p, s)
        given(n) == {d \in DOMAIN coPath : coPath[d] = n}
        keys[n \in Nodes(p)] ==
            IF n # 0 /\ Parent(n) \notin s THEN ChildKey(keys[Parent(n)], iv, n)
            ELSE IF given(n) # {} THEN nodes[CHOOSE d \in given(n) : TRUE]
            ELSE Zero
    IN  IF Len(nodes) >= Len(coPath) /\ LeftoverZero(nodes, Len(coPath)) THEN {Eager(keys)} ELSE {}

Reconstruct(p, op, iDelta, iv) ==
    LET s == Marked(p, iDelta)
        order == LeafOrder(p)
        hidden == {n \in DOMAIN order : order[n].alpha \in s}
        comIt(n) == Cardinality({m \in hidden : m <= n})
        seen == SelectSeq([n \in DOMAIN order |-> n], LAMBDA n : n \notin hidden)
        From(keys) ==
            LET leaf == Eager([n \in (DOMAIN order) \ hidden |->
                                  CommitLeaf(p, keys[order[n].alpha], iv, order[n].i)])
            IN  [Com |-> ComHash(p, [n \in DOMAIN order |->
                            IF n \in hidden THEN op.Coms[comIt(n)] ELSE leaf[n].com]),
                 Seeds |-> [n \in DOMAIN seen |-> leaf[seen[n]].sd]]
    IN  IF Len(op.Coms) < Cardinality(hidden) THEN {}
        ELSE {From(keys) : keys \in reconstructKeys(p, op.Nodes, s, iv)}

-----------------------------------------------------------------------------
(* vole.go *)

\* The stack of partial sums after a father of level d joined its left sibling.
FoldLevel(st, d) ==
    LET n == Len(st.rj) IN
    [st EXCEPT !.v[d + 1] = SymDiff(@, st.rj[n]),
               !.rj = Append(SubSeq(@, 1, n - 2), SymDiff(@[n - 1], @[n]))]

\* u, the k columns v, and the deepest the stack of sums got.
convertToVole(p, round, sd, iv) ==
    LET ni == BavcMaxNodeIndex(p, round)  k == BavcMaxNodeDepth(p, round)
        leaf(j) == {PRG(sd[j], iv, <<"vole", round>>, "column")}
        Pushed(st, i) ==
            [v |-> [st.v EXCEPT ![0] = SymDiff(@, leaf(2 * i + 1))],
             rj |-> Append(st.rj, SymDiff(leaf(2 * i), leaf(2 * i + 1))),
             peak |-> IF Len(st.rj) = st.peak THEN st.peak + 1 ELSE st.peak]
        levels(i) == Cardinality({d \in 0 .. k - 2 : (i + 1) % 2^(d + 1) = 0})
        Pair(st, i) ==
            LET fold[d \in 0 .. levels(i)] ==
                    IF d = 0 THEN Pushed(st, i) ELSE FoldLevel(fold[d - 1], d - 1)
            IN  fold[levels(i)]
        state[i \in 0 .. ni \div 2] ==
            IF i = 0 THEN [v |-> [d \in 0 .. k - 1 |-> {}], rj |-> <<>>, peak |-> 0]
            ELSE Pair(state[i - 1], i - 1)
        Result(end) == [u |-> end.rj[1], v |-> end.v, peak |-> end.peak]
    IN  Result(state[ni \div 2])

SeedOffset(p, i) == SumUpTo(LAMBDA n : BavcMaxNodeIndex(p, n - 1), i)

\* The columns of all instances, one after the other; the rest are zero.
Columns(p, depth, cols) ==
    LET offset(i) == SumUpTo(LAMBDA n : depth[n - 1], i) IN
    Eager([row \in 0 .. p.Lambda - 1 |->
        UNION {cols[i][row - offset(i)] :
                  i \in {i \in Instances(p) : row - offset(i) \in 0 .. depth[i] - 1}}])

VoleCommit(p, r, iv) ==
    LET depth == [i \in Instances(p) |-> BavcMaxNodeDepth(p, i)]
        voles(seeds) == Eager([i \in Instances(p) |->
                    convertToVole(p, i, [j \in 0 .. BavcMaxNodeIndex(p, i) - 1 |->
                                            seeds[SeedOffset(p, i) + j + 1]], iv)])
        From(commit, vole) ==
            [Com |-> commit.Com, Keys |-> commit.Keys, Coms |-> commit.Coms,
             U |-> vole[0].u, V |-> Columns(p, depth, [i \in Instances(p) |-> vole[i].v]),
             C |-> [i \in 1 .. p.Tau - 1 |-> SymDiff(vole[i].u, vole[0].u)]]
        Committed(commit) == From(commit, voles(commit.Seeds))
    IN  Committed(Commit(p, r, iv))

XorIndex(a, b, k) == SumUpTo(LAMBDA j : IF BitOf(a, j - 1) # BitOf(b, j - 1) THEN 2^(j - 1) ELSE 0, k)

\* The place of leaf j among the seeds that leave out leaf delta.
SeedSlot(j, delta) == IF j >= delta THEN j - 1 ELSE j

VoleReconstruct(p, chall, op, c, iv) ==
    LET iDelta == DecodeChallenge(p, chall)
        depth == [i \in Instances(p) |-> BavcMaxNodeDepth(p, i)]
        seedsOf(rec, i) ==
            [jXor \in 0 .. BavcMaxNodeIndex(p, i) - 1 |->
                IF jXor = 0 THEN Zero
                ELSE rec.Seeds[SeedOffset(p, i) - i
                        + SeedSlot(XorIndex(jXor, iDelta[i], p.K), iDelta[i]) + 1]]
        From(rec) ==
            LET vole == Eager([i \in Instances(p) |-> convertToVole(p, i, seedsOf(rec, i), iv)])
            IN  [Com |-> rec.Com,
                 Q |-> Columns(p, depth, [i \in Instances(p) |-> [j \in DOMAIN vole[i].v |->
                         IF i # 0 /\ BitOf(iDelta[i], j) = 1 THEN SymDiff(vole[i].v[j], c[i])
                         ELSE vole[i].v[j]]])]
    IN  {From(rec) : rec \in Reconstruct(p, op, iDelta, iv)}

-----------------------------------------------------------------------------
(* faest_fs.go, faest_sign.go *)

hashMu(pk, msg) == <<"H2a", pk, msg>>
hashR(sk, mu, rho) == <<"H3", "r", sk, mu, rho>>
hashIVPre(sk, mu, rho) == <<"H3", "iv", sk, mu, rho>>
hashIV(ivPre) == <<"H4", ivPre>>
hashChallenge1(mu, hcom, c, iv) == <<"H2b", mu, hcom, c, iv>>
hashChallenge2(chall1, uTilde, rows, d) == <<"H2c", chall1, uTilde, rows, d>>

\* The oracle's answers to the queries of ctr = 0, 1, ... are given; an answer
\* also names its query.
hashChallenge3(oracle, chall2, a0, a1, a2, ctr) ==
    [bytes |-> oracle[ctr + 1], of |-> <<"H2d", chall2, a0, a1, a2, ctr>>]

checkChallenge3(p, bytes) ==
    LET startByte == (p.Lambda - p.WGrind) \div 8 IN
    /\ bytes[startByte + 1] \div 2^((p.Lambda - p.WGrind) % 8) = 0
    /\ \A n \in DOMAIN bytes : n > startByte + 1 => bytes[n] = 0

ChallengeBit(bytes, i) == BitOf(bytes[(i \div 8) + 1], i % 8)

\* VoleHash is linear, and stands for its argument: chall1, its key, is absorbed
\* with the hashed rows.
hashUVector(u) == u
hashVMatrix(v) == v
hashQMatrix(q, uTilde, chall) ==
    [row \in DOMAIN q |-> IF ChallengeBit(chall, row) = 1 THEN SymDiff(q[row], uTilde) ELSE q[row]]

PublicKeyFromSecret(sk) == <<"OWF", sk>>
ExtendWitness(pk) == {<<"witness", pk>>}

\* The proof system is ideal: a0, a1 and a2 are the coefficients of the proof of
\* the witness masked by u under the tags v, and the verifier, who holds q = v +
\* delta u, recomputes a0 from a1, a2 and a witness of pk only.
AesProve(witness, u, v, pk, chall2) ==
    [a0 |-> <<"a0", pk, chall2, v>>, a1 |-> <<"a1", pk, chall2, v, u, witness>>,
     a2 |-> <<"a2", pk, chall2, v, u, witness>>]

AesVerify(q, d, pk, chall2, chall, a1, a2) ==
    LET u == SymDiff(d, ExtendWitness(pk))
        v == [row \in DOMAIN q |-> IF ChallengeBit(chall, row) = 1 THEN SymDiff(q[row], u) ELSE q[row]]
        a == AesProve(ExtendWitness(pk), u, v, pk, chall2)
    IN  IF a1 = a.a1 /\ a2 = a.a2 THEN a.a0 ELSE <<"unrelated", a1, a2>>

\* The first counter whose challenge passes the grinding check and can be
\* opened, with the opening; none if the oracle has no such answer.
Grind(p, vc, oracle) ==
    LET tries == Eager([ctr \in 0 .. Len(oracle) - 1 |->
                     IF checkChallenge3(p, oracle[ctr + 1])
                     THEN Open(p, vc.Keys, vc.Coms, DecodeChallenge(p, oracle[ctr + 1])) ELSE {}])
        First(t) == {ctr \in DOMAIN t : t[ctr] # {} /\ \A other \in 0 .. ctr - 1 : t[other] = {}}
    IN  {[ctr |-> ctr, op |-> CHOOSE op \in tries[ctr] : TRUE] : ctr \in First(tries)}

faestSign(p, msg, sk, rho, oracle) ==
    LET pk == PublicKeyFromSecret(sk)
        mu == hashMu(pk, msg)
        ivPre == hashIVPre(sk, mu, rho)
        iv == hashIV(ivPre)
        d(vc) == SymDiff(ExtendWitness(pk), vc.U)
        chall1(vc) == hashChallenge1(mu, vc.Com, vc.C, iv)
        chall2Of(vc) == hashChallenge2(chall1(vc), hashUVector(vc.U), hashVMatrix(vc.V), d(vc))
        padding(nodes) == [n \in 1 .. p.Topen - Len(nodes) |-> Zero]
        Proved(vc, chall2, a) ==
            {[cs |-> vc.C, uTilde |-> hashUVector(vc.U), d |-> d(vc), a1 |-> a.a1, a2 |-> a.a2,
              coms |-> g.op.Coms, nodes |-> g.op.Nodes \o padding(g.op.Nodes),
              chall3 |-> hashChallenge3(oracle, chall2, a.a0, a.a1, a.a2, g.ctr),
              ivPre |-> ivPre, ctr |-> g.ctr] : g \in Grind(p, vc, oracle)}
        Challenged(vc, chall2) ==
            Proved(vc, chall2, AesProve(ExtendWitness(pk), vc.U, vc.V, pk, chall2))
        Committed(vc) == Challenged(vc, chall2Of(vc))
    IN  Committed(VoleCommit(p, hashR(sk, mu, rho), iv))

faestVerify(p, msg, pk, sig, oracle) ==
    LET chall == sig.chall3.bytes
        iv == hashIV(sig.ivPre)
        Accepts(rec) ==
            LET chall1 == hashChallenge1(hashMu(pk, msg), rec.Com, sig.cs, iv)
                chall2 == hashChallenge2(chall1, sig.uTilde,
                              hashQMatrix(rec.Q, sig.uTilde, chall), sig.d)
                a0 == AesVerify(rec.Q, sig.d, pk, chall2, chall, sig.a1, sig.a2)
            IN  sig.chall3 = hashChallenge3(oracle, chall2, a0, sig.a1, sig.a2, sig.ctr)
    IN  /\ Len(sig.nodes) = p.Topen /\ Len(sig.coms) = p.Tau
        /\ checkChallenge3(p, chall)
        /\ \E rec \in VoleReconstruct(p, chall, [Coms |-> sig.coms, Nodes |-> sig.nodes], sig.cs, iv) :
               Accepts(rec)
=============================================================================
