------------------------------ MODULE Rounding ------------------------------
(***************************************************************************)
(* mldsa: the rounding of coefficients, the hints that undo it and their   *)
(* encoding, over the real modulus and the real rounding constants.  A     *)
(* parameter record p has Gamma2, or the shape of a hint vector: K         *)
(* polynomials of n coefficients, at most Omega ones.                      *)
(***************************************************************************)
EXTENDS Integers, Sequences, FiniteSets

q == 8380417

addQ(a, b) == LET c == a + b - q IN IF c < 0 THEN c + q ELSE c
subQ(a, b) == LET c == a - b IN IF c < 0 THEN c + q ELSE c

Canonical(c) == IF c < 0 THEN c + q ELSE c

-----------------------------------------------------------------------------
(* Rounding.                                                               *)

\* (r1, r0), r0 in (-2^(d-1), 2^(d-1)].
power2Round(d, r) ==
    LET low == r % 2^d  r0 == IF low > 2^(d - 1) THEN low - 2^d ELSE low
    IN  <<(r - r0) \div 2^d, r0>>

\* The multiply-and-shift form; the wraparound at q-1 makes r1 = 0.
decompose(p, r) ==
    LET s == (r + 127) \div 128
        big == (s * 11275 + 2^23) \div 2^24
        r1 == IF p.Gamma2 = (q - 1) \div 32 THEN ((s * 1025 + 2^21) \div 2^22) % 16
              ELSE IF big > 43 THEN 0 ELSE big
        r0 == r - r1 * 2 * p.Gamma2
    IN  <<r1, IF r0 > (q - 1) \div 2 THEN r0 - q ELSE r0>>

highBits(p, r) == decompose(p, r)[1]
lowBits(p, r) == decompose(p, r)[2]

makeHint(p, z, r) == IF highBits(p, r) # highBits(p, addQ(r, z)) THEN 1 ELSE 0

useHint(p, h, r) ==
    LET m == (q - 1) \div (2 * p.Gamma2)  d == decompose(p, r) IN
    IF h = 0 THEN d[1] ELSE IF d[2] > 0 THEN (d[1] + 1) % m ELSE (d[1] - 1 + m) % m

-----------------------------------------------------------------------------
(* The encoding of hints.                                                  *)

\* The places <<polynomial, coefficient>> of the ones, which the two loops visit
\* in this order.
Ones(p, h) == {x \in (0 .. p.K - 1) \X (0 .. p.n - 1) : h[x[1]][x[2]] = 1}
Earlier(x, y) == x[1] < y[1] \/ (x[1] = y[1] /\ x[2] < y[2])
Before(ones, x) == {y \in ones : Earlier(y, x)}

\* The positions of the ones, then a running count per polynomial; the unused
\* positions stay zero.
hintBitPack(p, h) ==
    LET ones == Ones(p, h)
        at(t) == CHOOSE x \in ones : Cardinality(Before(ones, x)) = t - 1
    IN  [t \in 1 .. p.Omega |-> IF t <= Cardinality(ones) THEN at(t)[2] ELSE 0]
            \o [i \in 1 .. p.K |-> Cardinality({x \in ones : x[1] < i})]

\* The positions of polynomial i are src[HintEnd(i-1)+1 .. HintEnd(i)].
HintEnd(p, src, i) == IF i = 0 THEN 0 ELSE src[p.Omega + i]

HintsIncrease(p, src) ==
    \A i \in 1 .. p.K : \A t \in HintEnd(p, src, i - 1) + 2 .. HintEnd(p, src, i) : src[t - 1] < src[t]

\* {} for a malformed encoding.
hintBitUnpack(p, src) ==
    LET end(i) == HintEnd(p, src, i) IN
    IF /\ \A i \in 1 .. p.K : end(i - 1) <= end(i) /\ end(i) <= p.Omega
       /\ HintsIncrease(p, src)
       /\ \A t \in end(p.K) + 1 .. p.Omega : src[t] = 0
    THEN {[i \in 0 .. p.K - 1 |-> [j \in 0 .. p.n - 1 |->
             IF \E t \in end(i) + 1 .. end(i + 1) : src[t] = j THEN 1 ELSE 0]]}
    ELSE {}
=============================================================================
