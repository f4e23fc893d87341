-------------------------------- MODULE GF16 --------------------------------
(***************************************************************************)
(* gf16: the field GF(2)[x]/(x^4+x+1), its packed multiplications and the  *)
(* echelon form.  A machine word is the set of the positions of its one    *)
(* bits, so XOR is the symmetric difference and a shift moves positions.   *)
(* A word has w bits, fewer than the code's 64.                            *)
(***************************************************************************)
EXTENDS Tables, Integers, Sequences, FiniteSets, FiniteSetsExt, Functions

CONSTANT Band   \* how far from the diagonal the solver looks for pivots (32 in the code)

ASSUME BandAssumption == Band \in Nat

Elem == 0 .. 15

Bits(n, w) == {i \in 0 .. w - 1 : (n \div 2^i) % 2 = 1}
ValueOf(word) ==    \* of at most a byte
    LET val[i \in 0 .. 8] == IF i = 0 THEN 0 ELSE val[i - 1] + (IF i - 1 \in word THEN 2^(i - 1) ELSE 0)
    IN  val[8]
XorWord(a, b) == (a \ b) \cup (b \ a)
Shl(word, s, w) == {i + s : i \in word} \cap 0 .. w - 1
Shr(word, s) == {i - s : i \in {j \in word : j >= s}}
\* word * c for a word whose ones are too far apart for the product to carry.
Times(word, c) == {i + j : i \in word, j \in Bits(c, 8)}
MaskIf(cond, word) == IF cond THEN word ELSE {}

AddTable == Eager([a, b \in Elem |-> ValueOf(XorWord(Bits(a, 4), Bits(b, 4)))])
Add(a, b) == AddTable[a, b]

Fold(p) ==
    LET hi == {i \in p : i >= 4} IN XorWord(XorWord(p, Shr(hi, 4)), Shr(hi, 3)) \cap 0 .. 3

\* The carry-less product: bit i of a contributes b << i.
ClMul(a, b) ==
    XorWord(XorWord(MaskIf(0 \in a, b), MaskIf(1 \in a, Shl(b, 1, 8))),
            XorWord(MaskIf(2 \in a, Shl(b, 2, 8)), MaskIf(3 \in a, Shl(b, 3, 8))))

MulTableOf == Eager([a, b \in Elem |-> ValueOf(Fold(ClMul(Bits(a, 4), Bits(b, 4))))])
Mul(a, b) == MulTableOf[a, b]

Inv(a) ==
    LET a2 == Mul(a, a)  a4 == Mul(a2, a2)  a8 == Mul(a4, a4) IN Mul(a8, Mul(a4, a2))

-----------------------------------------------------------------------------
(* Packed words: lanes of 4 bits (MulU64, mVecMulAdd) or of 8 (MulFx8).    *)

Lane(word, l, size) == ValueOf({i - l * size : i \in word \cap l * size .. l * size + size - 1})
Pack(lanes, size) ==
    UNION {{l * size + i : i \in Bits(lanes[l], size)} : l \in DOMAIN lanes}

MaskAt(bit, w) == {i \in 0 .. w - 1 : i % 4 = bit}

\* Mutant: the high bits are not cleared before the shift and cross the lanes.
TimesXCarries(v, w) ==
    LET hi == v \cap MaskAt(3, w) IN XorWord(Shl(v, 1, w), Times(Shr(hi, 3), 3))

\* v * x in every lane.
TimesX(v, w) ==
    LET hi == v \cap MaskAt(3, w) IN XorWord(Shl(XorWord(v, hi), 1, w), Times(Shr(hi, 3), 3))

\* v / x in every lane: the step of binsMulAddXInv.
TimesXInv(v, w) ==
    LET t == v \cap MaskAt(0, w) IN XorWord(Shr(XorWord(v, t), 1), Times(t, 9))

MulU64(s, v, w) ==
    LET vs == [i \in 0 .. 3 |->
                  IF i = 0 THEN v ELSE IF i = 1 THEN TimesX(v, w)
                  ELSE IF i = 2 THEN TimesX(TimesX(v, w), w)
                  ELSE TimesX(TimesX(TimesX(v, w), w), w)]
        r == [i \in 0 .. 3 |-> MaskIf(i \in Bits(s, 4), vs[i])]
    IN  XorWord(XorWord(r[0], r[1]), XorWord(r[2], r[3]))

\* Nibble i of MulTable(b): b * 2^i, folded.
MulTable(b, i) == ValueOf(Fold(Shl(Bits(b, 4), i, 8)))

mVecMulAdd(src, a, acc, w) ==
    LET t(i) == Times(Shr(src, i) \cap MaskAt(0, w), MulTable(a, i))
    IN  XorWord(acc, XorWord(XorWord(t(0), t(1)), XorWord(t(2), t(3))))

\* w bits in bytes; the products (a & 2^i) * b shift b by i inside its byte.
MulFx8(a, b, w) ==
    LET t(i) == MaskIf(i \in Bits(a, 4), Shl(b, i, w))
        p == XorWord(XorWord(t(0), t(1)), XorWord(t(2), t(3)))
        topP == {i \in p : i % 8 >= 4}
    IN  {i \in XorWord(XorWord(p, Shr(topP, 4)), Shr(topP, 3)) : i % 8 < 4}

\* mVecMultiplyBins, on bins of one word each: (from, to) in the code's order,
\* odd steps divide by x, even steps multiply.
Ladder == <<<<5, 10>>, <<11, 12>>, <<10, 7>>, <<12, 6>>, <<7, 14>>, <<6, 3>>, <<14, 15>>,
            <<3, 8>>, <<15, 13>>, <<8, 4>>, <<13, 9>>, <<4, 2>>, <<9, 1>>, <<2, 1>>>>

mVecMultiplyBins(bins, w) ==
    LET step[n \in 0 .. Len(Ladder)] ==
            IF n = 0 THEN bins
            ELSE LET b == step[n - 1]  src == b[Ladder[n][1]] IN
                 [b EXCEPT ![Ladder[n][2]] =
                     XorWord(@, IF n % 2 = 1 THEN TimesXInv(src, w) ELSE TimesX(src, w))]
    IN  step[Len(Ladder)][1]

-----------------------------------------------------------------------------
(* Vectors and matrices of elements, indexed from 0; a matrix is a         *)
(* function of (row, column).                                              *)

\* f(lo) + ... + f(hi).
SumOf(f(_), lo, hi) ==
    LET sum[i \in lo - 1 .. hi] == IF i < lo THEN 0 ELSE Add(sum[i - 1], f(i)) IN sum[hi]

MatMul(a, x, nrows, ncols) ==
    Eager([i \in 0 .. nrows - 1 |-> SumOf(LAMBDA j : Mul(a[i, j], x[j]), 0, ncols - 1)])

\* The pivot row EF assembles: row pr, and rows below it are added until the
\* pivot is nonzero.
PivotRow(a, pr, col, lo, hi, ncols) ==
    LET row[r \in lo - 1 .. hi] ==
            IF r = lo - 1 THEN [j \in 0 .. ncols - 1 |-> 0]
            ELSE LET prev == row[r - 1] IN
                 IF r = pr \/ (r > pr /\ prev[col] = 0)
                 THEN Eager([j \in 0 .. ncols - 1 |-> Add(prev[j], a[r, j])]) ELSE prev
    IN  row[hi]

\* Its column col is cleared below the pivots with the row unit.
EliminateBelow(a, pr, col, lo, unit) ==
    [rc \in DOMAIN a |->
        IF rc[1] >= lo /\ rc[1] > pr THEN Add(a[rc], Mul(a[rc[1], col], unit[rc[2]])) ELSE a[rc]]

\* One column of EF: the matrix and the number of pivots so far.
EFColumn(st, col, nrows, ncols) ==
    LET lo == Max({0, col + nrows - ncols})
        hi == Min({col, nrows - 1})
        WithPivot(pivot, unit) ==
            [a |-> EliminateBelow(Eager([rc \in DOMAIN st.a |->
                                      IF rc[1] = st.pr /\ rc[1] \in lo .. hi /\ pivot[col] # 0
                                      THEN unit[rc[2]] ELSE st.a[rc]]),
                                  st.pr, col, lo, unit),
             pr |-> IF pivot[col] # 0 THEN st.pr + 1 ELSE st.pr]
        Normalised(pivot) ==
            WithPivot(pivot, Eager([j \in 0 .. ncols - 1 |-> Mul(Inv(pivot[col]), pivot[j])]))
    IN  Normalised(PivotRow(st.a, st.pr, col, lo, Min({hi + Band, nrows - 1}), ncols))

EF(a, nrows, ncols) ==
    LET after[c \in 0 .. ncols] ==
            IF c = 0 THEN [a |-> Eager(a), pr |-> 0]
            ELSE Eager(EFColumn(after[c - 1], c - 1, nrows, ncols))
    IN  after[ncols].a
=============================================================================
