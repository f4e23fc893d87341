---------------------------- MODULE ServeKTProofs ----------------------------
(***************************************************************************)
(* Proofs about the key log, its clients and the server that publishes it, *)
(* for logs of any length, any number of clients, operators and starts.    *)
(* The chain of heads is a recursive function: what it says of every log   *)
(* is proved by induction on the set of lengths it holds for.              *)
(***************************************************************************)
EXTENDS ServeKT, SequenceTheorems, FiniteSetTheorems, WellFoundedInduction, TLAPS

\* A set of naturals with a member has a least one.
LEMMA LeastNatural ==
  ASSUME NEW S \in SUBSET Nat, S # {}
  PROVE  \E x \in S : \A y \in S : x <= y
<1> DEFINE R == OpToRel(<, Nat)
<1>1. \E x \in S : \A y \in S : ~(<<y, x>> \in R)
  BY WFMin, NatLessThanWellFounded
<1>2. \A x, y \in Nat : ~(<<y, x>> \in R) => x <= y
  BY DEF OpToRel
<1> QED BY <1>1, <1>2

\* A set with 0 that has n + 1 whenever it has n has every natural number.
LEMMA Induction ==
  ASSUME NEW S, 0 \in S, \A n \in Nat : n \in S => n + 1 \in S
  PROVE  \A n \in Nat : n \in S
<1> DEFINE T == Nat \ S
<1> SUFFICES ASSUME T # {} PROVE FALSE
  OBVIOUS
<1>1. PICK m \in T : \A y \in T : m <= y
  BY LeastNatural
<1>2. m # 0 /\ m - 1 \in Nat /\ (m - 1) + 1 = m /\ ~(m <= m - 1)
  BY <1>1
<1>3. m - 1 \in S
  BY <1>1, <1>2
<1> QED BY <1>1, <1>2, <1>3

-----------------------------------------------------------------------------
(* The chain of heads.                                                     *)

\* chainHeads starts at the genesis head and hashes one record at a time.
LEMMA ChainOfHeads ==
  ASSUME NEW l, Len(l) \in Nat
  PROVE  /\ chainHeads(l)[0] = genesisHead
         /\ \A i \in 1..Len(l) : chainHeads(l)[i] = step(chainHeads(l)[i - 1], leafHash(l[i]))
<1> DEFINE Chain(f, n) ==
      f = [i \in 0..n |-> IF i = 0 THEN genesisHead ELSE step(f[i - 1], leafHash(l[i]))]
           S == {n \in Nat : \E f : Chain(f, n)}
<1>1. 0 \in S
  <2> DEFINE f == [i \in 0..0 |-> genesisHead]
  <2>1. Chain(f, 0)
    OBVIOUS
  <2> QED BY <2>1
<1>2. ASSUME NEW n \in Nat, n \in S PROVE n + 1 \in S
  <2>1. PICK f : Chain(f, n)
    BY <1>2
  <2> DEFINE g == [i \in 0..(n + 1) |->
                     IF i <= n THEN f[i] ELSE step(f[n], leafHash(l[n + 1]))]
  <2>2. \A i \in 0..n : f[i] = IF i = 0 THEN genesisHead ELSE step(f[i - 1], leafHash(l[i]))
    BY <2>1
  <2>3. \A i \in 0..(n + 1) :
          g[i] = IF i = 0 THEN genesisHead ELSE step(g[i - 1], leafHash(l[i]))
    <3> TAKE i \in 0..(n + 1)
    <3>1. CASE i = 0
      BY <2>2, <3>1
    <3>2. CASE i \in 1..n
      <4>1. i - 1 \in 0..n /\ i \in 0..n /\ i # 0 /\ i <= n /\ i - 1 <= n
        BY <3>2
      <4>2. g[i] = f[i] /\ g[i - 1] = f[i - 1]
        BY <4>1
      <4> QED BY <2>2, <4>1, <4>2
    <3>3. CASE i = n + 1
      BY <3>3
    <3> QED BY <3>1, <3>2, <3>3
  <2>4. g = [i \in 0..(n + 1) |-> g[i]]
    OBVIOUS
  <2> HIDE DEF g
  <2>5. Chain(g, n + 1)
    BY <2>3, <2>4
  <2> QED BY <2>5
<1>3. \E f : Chain(f, Len(l))
  <2> HIDE DEF S
  <2>1. Len(l) \in S
    BY <1>1, <1>2, Induction
  <2> QED BY <2>1 DEF S
<1> DEFINE c == chainHeads(l)
<1>4. c = CHOOSE f : Chain(f, Len(l))
  BY DEF chainHeads
<1>5. Chain(c, Len(l))
  BY <1>3, <1>4
<1>6. \A i \in 0..Len(l) : c[i] = IF i = 0 THEN genesisHead ELSE step(c[i - 1], leafHash(l[i]))
  BY <1>5
<1> HIDE DEF c
<1>7. c[0] = genesisHead
  BY <1>6
<1>8. \A i \in 1..Len(l) : c[i] = step(c[i - 1], leafHash(l[i]))
  BY <1>6
<1> QED BY <1>7, <1>8 DEF c

\* A hash binds what is hashed.
LEMMA StepBinds ==
  ASSUME NEW p, NEW q, NEW x, NEW y, step(p, x) = step(q, y)
  PROVE  p = q /\ x = y
  BY DEF step

\* Equal heads cover equal records.
LEMMA HeadsBind ==
  ASSUME NEW l, NEW m, Len(l) \in Nat, Len(m) \in Nat,
         NEW n \in Nat, n <= Len(l), n <= Len(m), chainHeads(l)[n] = chainHeads(m)[n]
  PROVE  \A i \in 1..n : leafHash(l[i]) = leafHash(m[i])
<1> DEFINE a == chainHeads(l)
           b == chainHeads(m)
           S == {k \in Nat : k <= n /\ a[k] = b[k]
                                => \A i \in 1..k : leafHash(l[i]) = leafHash(m[i])}
<1>1. 0 \in S
  OBVIOUS
<1>2. ASSUME NEW k \in Nat, k \in S PROVE k + 1 \in S
  <2> SUFFICES ASSUME k + 1 <= n, a[k + 1] = b[k + 1]
               PROVE  \A i \in 1..(k + 1) : leafHash(l[i]) = leafHash(m[i])
    OBVIOUS
  <2>1. k + 1 \in 1..Len(l) /\ k + 1 \in 1..Len(m) /\ (k + 1) - 1 = k
    OBVIOUS
  <2>2. /\ a[k + 1] = step(a[k], leafHash(l[k + 1]))
        /\ b[k + 1] = step(b[k], leafHash(m[k + 1]))
    BY <2>1, ChainOfHeads
  <2>3. a[k] = b[k] /\ leafHash(l[k + 1]) = leafHash(m[k + 1])
    <3>1. step(a[k], leafHash(l[k + 1])) = step(b[k], leafHash(m[k + 1]))
      BY <2>2
    <3> HIDE DEF a, b
    <3> QED BY <3>1, StepBinds
  <2>4. \A i \in 1..k : leafHash(l[i]) = leafHash(m[i])
    BY <1>2, <2>3
  <2> QED BY <2>3, <2>4
<1> HIDE DEF S
<1>3. n \in S
  BY <1>1, <1>2, Induction
<1> QED BY <1>3 DEF S

\* A log: a sequence of records, each with its three fields.
IsLog(l) ==
    /\ Len(l) \in Nat
    /\ l = [i \in 1..Len(l) |->
              [seq |-> l[i].seq, key |-> l[i].key, notBefore |-> l[i].notBefore]]

\* A leaf hash binds the record.
LEMMA LeavesBind ==
  ASSUME NEW l, NEW m, IsLog(l), IsLog(m), NEW i, i \in 1..Len(l), i \in 1..Len(m),
         leafHash(l[i]) = leafHash(m[i])
  PROVE  l[i] = m[i]
<1>1. /\ l[i] = [seq |-> l[i].seq, key |-> l[i].key, notBefore |-> l[i].notBefore]
      /\ m[i] = [seq |-> m[i].seq, key |-> m[i].key, notBefore |-> m[i].notBefore]
  BY DEF IsLog
<1>2. l[i].seq = m[i].seq /\ l[i].key = m[i].key /\ l[i].notBefore = m[i].notBefore
  BY DEF leafHash
<1> QED BY <1>1, <1>2

\* Two logs with one head and one length are one log.
LEMMA HeadBindsLog ==
  ASSUME NEW l, NEW m, IsLog(l), IsLog(m), Len(l) = Len(m), HeadOf(l) = HeadOf(m)
  PROVE  l = m
<1>1. \A i \in 1..Len(l) : leafHash(l[i]) = leafHash(m[i])
  BY HeadsBind DEF IsLog, HeadOf
<1>2. \A i \in 1..Len(l) : l[i] = m[i]
  BY <1>1, LeavesBind
<1>3. l = [i \in 1..Len(l) |-> l[i]] /\ m = [i \in 1..Len(l) |-> m[i]]
  BY DEF IsLog
<1> QED BY <1>2, <1>3

\* A log in which the head of another reappears extends it.
LEMMA OldHeadMeansPrefix ==
  ASSUME NEW l, NEW m, IsLog(l), IsLog(m), Len(l) <= Len(m),
         chainHeads(m)[Len(l)] = HeadOf(l)
  PROVE  IsPrefix(l, m)
<1>1. \A i \in 1..Len(l) : leafHash(l[i]) = leafHash(m[i])
  <2>1. Len(l) \in Nat /\ Len(m) \in Nat /\ Len(l) <= Len(l)
    BY DEF IsLog
  <2>2. chainHeads(l)[Len(l)] = chainHeads(m)[Len(l)]
    BY DEF HeadOf
  <2> QED BY <2>1, <2>2, HeadsBind
<1>2. \A i \in 1..Len(l) : i \in 1..Len(m)
  BY DEF IsLog
<1>3. \A i \in 1..Len(l) : l[i] = m[i]
  BY <1>1, <1>2, LeavesBind
<1> DEFINE R == {l[i] : i \in 1..Len(l)} \cup {m[i] : i \in 1..Len(m)}
<1>4. l \in [1..Len(l) -> R] /\ m \in [1..Len(m) -> R]
  BY DEF IsLog
<1>5. l \in Seq(R) /\ m \in Seq(R)
  <2>1. \A n \in Nat : [1..n -> R] \subseteq Seq(R)
    BY SeqDef
  <2> HIDE DEF R
  <2> QED BY <1>4, <2>1 DEF IsLog
<1> HIDE DEF R
<1>6. SubSeq(l, 1, Len(l)) = [i \in 1..Len(l) |-> l[i]]
  BY <1>5 DEF IsLog
<1>7. SubSeq(m, 1, Len(l)) = [i \in 1..Len(l) |-> m[i]]
  BY <1>5 DEF IsLog
<1> QED BY <1>3, <1>6, <1>7 DEF IsPrefix

-----------------------------------------------------------------------------
(* The published log.                                                      *)

\* s enumerates T in ascending order.
Ascends(s, T) ==
    /\ {s[i] : i \in DOMAIN s} = T
    /\ \A i, j \in DOMAIN s : i < j => s[i] < s[j]

\* Finitely many key versions can be put in ascending order.
LEMMA OrderExists ==
  ASSUME NEW T, T \in SUBSET Nat, IsFiniteSet(T)
  PROVE  \E s \in [1..Cardinality(T) -> T] : Ascends(s, T)
<1> DEFINE S == {n \in Nat : \A U \in SUBSET Nat : IsFiniteSet(U) /\ Cardinality(U) = n
                                => \E s \in [1..n -> U] : Ascends(s, U)}
<1>1. 0 \in S
  <2> SUFFICES ASSUME NEW U \in SUBSET Nat, IsFiniteSet(U), Cardinality(U) = 0
               PROVE  \E s \in [1..0 -> U] : Ascends(s, U)
    OBVIOUS
  <2>1. U = {}
    BY FS_EmptySet
  <2> DEFINE s == [i \in 1..0 |-> 0]
  <2>2. s \in [1..0 -> U] /\ DOMAIN s = {}
    OBVIOUS
  <2> HIDE DEF s
  <2>3. Ascends(s, U)
    BY <2>1, <2>2 DEF Ascends
  <2> QED BY <2>2, <2>3
<1>2. ASSUME NEW n \in Nat, n \in S PROVE n + 1 \in S
  <2> SUFFICES ASSUME NEW U \in SUBSET Nat, IsFiniteSet(U), Cardinality(U) = n + 1
               PROVE  \E s \in [1..(n + 1) -> U] : Ascends(s, U)
    OBVIOUS
  <2>1. U # {}
    BY FS_EmptySet
  <2>2. PICK m \in U : \A y \in U : m <= y
    BY <2>1, LeastNatural
  <2> DEFINE V == U \ {m}
  <2>3. V \in SUBSET Nat /\ IsFiniteSet(V) /\ Cardinality(V) = n
    <3>1. IsFiniteSet(V) /\ Cardinality(V) = Cardinality(U) - 1
      BY FS_RemoveElement, Zenon
    <3> HIDE DEF V
    <3>2. Cardinality(V) = n
      BY <3>1
    <3> QED BY <3>1, <3>2 DEF V
  <2>4. PICK t \in [1..n -> V] : Ascends(t, V)
    BY <1>2, <2>3
  <2> DEFINE s == [i \in 1..(n + 1) |-> IF i = 1 THEN m ELSE t[i - 1]]
  <2>5. \A i \in 2..(n + 1) : i - 1 \in 1..n /\ s[i] = t[i - 1] /\ s[i] \in V
    OBVIOUS
  <2>6. s[1] = m /\ DOMAIN s = 1..(n + 1)
    OBVIOUS
  <2>7. \A i \in 1..(n + 1) : s[i] \in U
    BY <2>5, <2>6
  <2>8. s \in [1..(n + 1) -> U]
    BY <2>7
  <2> HIDE DEF s
  <2>9. ASSUME NEW x \in U PROVE \E i \in DOMAIN s : s[i] = x
    <3>1. CASE x = m
      BY <2>6, <3>1
    <3>2. CASE x # m
      <4>1. PICK i \in 1..n : t[i] = x
        BY <2>4, <3>2 DEF Ascends
      <4>2. i + 1 \in 2..(n + 1) /\ (i + 1) - 1 = i
        OBVIOUS
      <4>3. s[i + 1] = x /\ i + 1 \in DOMAIN s
        BY <2>5, <2>6, <4>1, <4>2
      <4> QED BY <4>3
    <3> QED BY <3>1, <3>2
  <2>10. {s[i] : i \in DOMAIN s} = U
    BY <2>6, <2>7, <2>9
  <2>11. ASSUME NEW i \in DOMAIN s, NEW j \in DOMAIN s, i < j PROVE s[i] < s[j]
    <3>1. j \in 2..(n + 1) /\ j - 1 \in 1..n
      BY <2>6, <2>11
    <3>2. CASE i = 1
      <4>1. s[j] \in V /\ s[j] # m /\ m <= s[j] /\ s[j] \in Nat /\ m \in Nat
        BY <2>2, <2>5, <3>1
      <4> QED BY <2>6, <3>2, <4>1
    <3>3. CASE i # 1
      <4>1. i \in 2..(n + 1) /\ i - 1 \in 1..n /\ i - 1 < j - 1
        BY <2>6, <2>11, <3>1, <3>3
      <4>2. t[i - 1] < t[j - 1]
        BY <2>4, <3>1, <4>1 DEF Ascends
      <4> QED BY <2>5, <3>1, <4>1, <4>2
    <3> QED BY <3>2, <3>3
  <2>12. Ascends(s, U)
    BY <2>10, <2>11 DEF Ascends
  <2> QED BY <2>8, <2>12
<1> HIDE DEF S
<1>3. Cardinality(T) \in Nat
  BY FS_CardinalityType
<1>4. Cardinality(T) \in S
  BY <1>1, <1>2, <1>3, Induction
<1> QED BY <1>4 DEF S

\* The order sort.Slice leaves: one place per epoch.
LEMMA OrderedEpochs ==
  ASSUME NEW T, T \in SUBSET Nat, IsFiniteSet(T)
  PROVE  /\ Ordered(T) \in Seq(T) /\ Len(Ordered(T)) = Cardinality(T)
         /\ \A x \in T : \E i \in 1..Len(Ordered(T)) : Ordered(T)[i] = x
<1> DEFINE o == Ordered(T)
           n == Cardinality(T)
<1>1. n \in Nat
  BY FS_CardinalityType
<1>2. o \in [1..n -> T] /\ Ascends(o, T)
  <2>1. \E s \in [1..n -> T] : Ascends(s, T)
    BY OrderExists
  <2> QED BY <2>1 DEF Ordered, Ascends
<1> HIDE DEF o, n
<1>3. o \in Seq(T) /\ DOMAIN o = 1..n
  BY <1>1, <1>2, SeqDef
<1>4. Len(o) = n
  BY <1>1, <1>3, LenProperties
<1>5. \A x \in T : \E i \in 1..Len(o) : o[i] = x
  BY <1>2, <1>3, <1>4 DEF Ascends
<1> QED BY <1>3, <1>4, <1>5 DEF o, n

\* The loop of initKT appends one record for each epoch, numbered from 0.
LEMMA PublishedLog ==
  ASSUME NEW T, T \in SUBSET Nat, IsFiniteSet(T), NEW now
  PROVE  /\ IsLog(Published(T, now))
         /\ Len(Published(T, now)) = Cardinality(T)
         /\ \A x \in T : VerifyInclusion(Published(T, now), x)
<1> DEFINE o == Ordered(T)
           N == Len(o)
           Rec(i) == [seq |-> i - 1, key |-> o[i], notBefore |-> now]
           R == {Rec(i) : i \in 1..N}
           First(n) == [i \in 1..n |-> Rec(i)]
           Loop(f, n) ==
             f = [i \in 0..n |-> IF i = 0 THEN <<>> ELSE Append1(f[i - 1], o[i], now)]
           f0 == [n \in 0..N |-> First(n)]
<1>1. /\ o \in Seq(T) /\ N = Cardinality(T) /\ N \in Nat
      /\ \A x \in T : \E i \in 1..N : o[i] = x
  BY OrderedEpochs, LenProperties
<1> HIDE DEF o
<1>2. \A n \in 0..N : First(n) \in Seq(R) /\ Len(First(n)) = n
  <2> TAKE n \in 0..N
  <2>0. n \in Nat /\ \A i \in 1..n : i \in 1..N
    BY <1>1
  <2>1. First(n) \in [1..n -> R]
    BY <2>0
  <2> HIDE DEF R, First
  <2>2. First(n) \in Seq(R)
    BY <2>0, <2>1, SeqDef
  <2> QED BY <2>0, <2>1, <2>2, LenProperties
<1>3. \A n \in 1..N : First(n) = Append1(First(n - 1), o[n], now)
  <2> TAKE n \in 1..N
  <2>0. n - 1 \in 0..N /\ n \in 0..N /\ (n - 1) + 1 = n /\ n \in Nat /\ n - 1 \in Nat
    BY <1>1
  <2> DEFINE r == [seq |-> Len(First(n - 1)), key |-> o[n], notBefore |-> now]
             a == Append(First(n - 1), r)
  <2>1. r = Rec(n) /\ r \in R
    BY <1>2, <2>0
  <2>2. First(n - 1) \in Seq(R) /\ Len(First(n - 1)) = n - 1
    BY <1>2, <2>0
  <2>3. \A i \in 1..(n - 1) : First(n - 1)[i] = Rec(i)
    OBVIOUS
  <2>4. /\ a \in Seq(R) /\ Len(a) = n /\ a[n] = r
        /\ \A i \in 1..(n - 1) : a[i] = First(n - 1)[i]
    <3> HIDE DEF R, First, r
    <3> QED BY <2>0, <2>1, <2>2, AppendProperties
  <2>5. \A i \in 1..n : a[i] = Rec(i)
    <3> TAKE i \in 1..n
    <3>1. i = n \/ i \in 1..(n - 1)
      BY <2>0
    <3>2. a[n] = Rec(n)
      BY <2>1, <2>4, Zenon
    <3>3. i \in 1..(n - 1) => a[i] = Rec(i)
      BY <2>3, <2>4, Zenon
    <3> HIDE DEF First, r, a, Rec, R
    <3> QED BY <3>1, <3>2, <3>3
  <2>6. a = [i \in 1..n |-> a[i]]
    <3> HIDE DEF a, R
    <3> QED BY <2>4, LenProperties
  <2>7. a = First(n)
    <3> HIDE DEF a, Rec
    <3> QED BY <2>5, <2>6
  <2> QED BY <2>7 DEF Append1
<1>4. First(0) = <<>>
  OBVIOUS
<1>5. Loop(f0, N)
  <2>1. \A i \in 0..N : f0[i] = IF i = 0 THEN <<>> ELSE Append1(f0[i - 1], o[i], now)
    <3> TAKE i \in 0..N
    <3>1. CASE i = 0
      BY <1>4, <3>1
    <3>2. CASE i # 0
      <4>1. i \in 1..N /\ i - 1 \in 0..N
        BY <1>1, <3>2
      <4>2. f0[i] = First(i) /\ f0[i - 1] = First(i - 1)
        BY <4>1
      <4> HIDE DEF f0, First
      <4> QED BY <1>3, <3>2, <4>1, <4>2
    <3> QED BY <3>1, <3>2
  <2>2. f0 = [i \in 0..N |-> f0[i]]
    OBVIOUS
  <2> HIDE DEF f0
  <2> QED BY <2>1, <2>2
<1>6. ASSUME NEW f, Loop(f, N) PROVE f[N] = First(N)
  <2> DEFINE S == {n \in Nat : n <= N => f[n] = First(n)}
  <2>0. \A i \in 0..N : f[i] = IF i = 0 THEN <<>> ELSE Append1(f[i - 1], o[i], now)
    BY <1>6
  <2> HIDE DEF First
  <2>1. 0 \in S
    BY <1>1, <1>4, <2>0
  <2>2. ASSUME NEW n \in Nat, n \in S PROVE n + 1 \in S
    <3> SUFFICES ASSUME n + 1 <= N PROVE f[n + 1] = First(n + 1)
      OBVIOUS
    <3>1. n + 1 \in 1..N /\ n + 1 \in 0..N /\ (n + 1) - 1 = n /\ n + 1 # 0 /\ n <= N
      BY <1>1
    <3>2. f[n + 1] = Append1(f[n], o[n + 1], now)
      BY <2>0, <3>1
    <3>3. f[n] = First(n)
      BY <2>2, <3>1
    <3> QED BY <1>3, <3>1, <3>2, <3>3
  <2> HIDE DEF S
  <2>3. N \in S
    BY <1>1, <2>1, <2>2, Induction
  <2> QED BY <1>1, <2>3 DEF S
<1> DEFINE p == Published(T, now)
<1>7. p = First(N)
  <2>1. p = (CHOOSE f : Loop(f, N))[N]
    BY DEF Published, o
  <2>2. Loop(CHOOSE f : Loop(f, N), N)
    BY <1>5
  <2> HIDE DEF Loop, First
  <2> QED BY <1>6, <2>1, <2>2
<1>8. Len(p) = N /\ DOMAIN p = 1..N /\ \A i \in 1..N : p[i] = Rec(i)
  BY <1>1, <1>2, <1>7
<1>9. IsLog(p)
  BY <1>1, <1>7, <1>8 DEF IsLog
<1>10. \A x \in T : VerifyInclusion(p, x)
  <2> TAKE x \in T
  <2>1. PICK i \in 1..N : o[i] = x
    BY <1>1
  <2>2. i \in DOMAIN p /\ p[i].key = x
    BY <1>8, <2>1
  <2> HIDE DEF p
  <2> QED BY <2>2 DEF VerifyInclusion
<1> QED BY <1>1, <1>8, <1>9, <1>10

-----------------------------------------------------------------------------
(* The inductive invariant.                                                *)

\* A served log of at least one record, that of key version v among them,
\* with its head signed by log key k.
Serves(s, k, v) ==
    /\ s.logPub = k /\ s.sth = Sign(s.records, k)
    /\ IsLog(s.records) /\ Len(s.records) # 0
    /\ VerifyInclusion(s.records, v)

\* The running server serves a log of its epochs under the key of this start.
ServerSound ==
    /\ start \in Nat \ {0}
    /\ live \in SUBSET Nat /\ IsFiniteSet(live) /\ signing \in live
    /\ Serves(kt, start, signing)
    /\ <<start, kt.records>> \in signed

\* What was signed is a log, under the key of another operator or of a start;
\* this start signed the served log only.
SignedSound ==
    \A q \in signed :
        /\ q = <<q[1], q[2]>> /\ IsLog(q[2])
        /\ q[1] \in OtherKey \cup 1..start
        /\ q[1] = start => q[2] = kt.records

\* A client has met no log, or goes on from a log its pinned key signed and
\* from the head of that log.
ClientSound ==
    /\ DOMAIN pin = Client /\ DOMAIN seen = Client /\ DOMAIN view = Client
    /\ \A c \in Client :
        \/ pin[c] = NoPin /\ view[c] = <<>> /\ seen[c].seq = 0
        \/ /\ pin[c] # NoPin
           /\ <<pin[c], view[c]>> \in signed
           /\ seen[c].seq \in Nat
           /\ seen[c].seq + 1 = Len(view[c])
           /\ seen[c].head = HeadOf(view[c])

KTInv ==
    /\ ServerSound
    /\ SignedSound
    /\ ClientSound
    /\ alarm \subseteq Client
    /\ NoAlarmWithinStart

\* The key an operator signs with is never the mark of a client without a pin,
\* and no key of another operator is that of a start.
LEMMA KeysApart ==
  /\ NoPin = 0 /\ \A k \in OtherKey : k \in Int /\ k < 0
  /\ \A n \in Nat : \A k \in OtherKey \cup 1..n : k # NoPin
  BY KTAssumption

\* A log that passes the checks is the log under the head that came with it,
\* and extends the log the client had.
LEMMA AcceptedLog ==
  ASSUME KTInv, NEW c \in Client, NEW p \in signed, NEW q \in signed, NEW key,
         NEW sth \in HeadsOf(q[1], q[2]), Checks(c, q[1], key, p[2], sth)
  PROVE  /\ p[2] = q[2] /\ Len(p[2]) \in Nat \ {0} /\ sth.seq \in Nat
         /\ sth.seq + 1 = Len(p[2]) /\ sth.head = HeadOf(p[2])
         /\ q[1] # NoPin /\ (pin[c] # NoPin => pin[c] = q[1])
         /\ IsPrefix(view[c], p[2])
<1>1. IsLog(p[2]) /\ IsLog(q[2])
  BY DEF KTInv, SignedSound
<1>2. Len(p[2]) \in Nat \ {0} /\ Len(q[2]) \in Nat
  <2>1. \E i \in DOMAIN p[2] : TRUE
    BY DEF Checks, VerifyInclusion
  <2>2. DOMAIN p[2] = 1..Len(p[2]) /\ Len(p[2]) \in Nat /\ Len(q[2]) \in Nat
    BY <1>1 DEF IsLog
  <2> QED BY <2>1, <2>2
<1>3. /\ sth.head = HeadOf(q[2]) /\ sth.sig = q[1]
      /\ sth.seq = -1 \/ sth.seq = IF Len(q[2]) > 0 THEN Len(q[2]) - 1 ELSE 0
  BY DEF HeadsOf, Sign
<1>4. /\ sth.seq + 1 = Len(p[2]) /\ HeadOf(p[2]) = sth.head
      /\ sth.sig = IF pin[c] = NoPin THEN q[1] ELSE pin[c]
  BY DEF Checks, VerifyLog
<1>5. sth.seq \in Nat /\ (Len(q[2]) = 0 => Len(p[2]) = 1) /\ (Len(q[2]) # 0 => Len(q[2]) = Len(p[2]))
  <2>1. PICK n, m, k : n = Len(p[2]) /\ m = Len(q[2]) /\ k = sth.seq
    OBVIOUS
  <2>2. n \in Nat \ {0} /\ m \in Nat /\ k + 1 = n /\ (k = -1 \/ k = IF m > 0 THEN m - 1 ELSE 0)
    BY <1>2, <1>3, <1>4, <2>1
  <2>3. k \in Nat /\ (m = 0 => n = 1) /\ (m # 0 => m = n)
    BY <2>2
  <2> QED BY <2>1, <2>3
<1>6. Len(q[2]) # 0
  <2> SUFFICES ASSUME Len(q[2]) = 0 PROVE FALSE
    OBVIOUS
  <2>1. HeadOf(q[2]) = genesisHead
    BY <1>2, ChainOfHeads DEF HeadOf
  <2>2. HeadOf(p[2]) = step(chainHeads(p[2])[0], leafHash(p[2][1]))
    <3>0. Len(p[2]) = 1
      BY <1>5
    <3>1. Len(p[2]) = 1 /\ 1 \in 1..Len(p[2]) /\ 1 - 1 = 0
      BY <3>0
    <3>2. chainHeads(p[2])[1] = step(chainHeads(p[2])[1 - 1], leafHash(p[2][1]))
      BY <1>2, <3>1, ChainOfHeads
    <3> QED BY <3>1, <3>2 DEF HeadOf
  <2>3. \A a, b : step(a, b) # genesisHead
    BY DEF step, genesisHead
  <2> QED BY <1>3, <1>4, <2>1, <2>2, <2>3
<1>7. p[2] = q[2]
  BY <1>1, <1>3, <1>4, <1>5, <1>6, HeadBindsLog
<1>8. q[1] # NoPin
  BY KeysApart DEF KTInv, SignedSound, ServerSound
<1>9. pin[c] # NoPin => pin[c] = q[1]
  BY <1>3, <1>4
<1>10. IsPrefix(view[c], p[2])
  <2>1. CASE pin[c] = NoPin
    <3>1. view[c] = <<>>
      BY <2>1 DEF KTInv, ClientSound
    <3>2. Len(<<>>) = 0 /\ SubSeq(<<>>, 1, 0) = <<>> /\ SubSeq(p[2], 1, 0) = <<>>
      OBVIOUS
    <3> QED BY <1>2, <3>1, <3>2 DEF IsPrefix
  <2>2. CASE pin[c] # NoPin
    <3>1. /\ <<pin[c], view[c]>> \in signed /\ seen[c].seq \in Nat
          /\ seen[c].seq + 1 = Len(view[c]) /\ seen[c].head = HeadOf(view[c])
      BY <2>2 DEF KTInv, ClientSound
    <3>2. IsLog(view[c])
      BY <3>1 DEF KTInv, SignedSound
    <3>3. seen[c].seq < Len(p[2]) /\ chainHeads(p[2])[seen[c].seq + 1] = seen[c].head
      BY <2>2 DEF Checks, VerifyConsistency
    <3>4. Len(view[c]) <= Len(p[2]) /\ chainHeads(p[2])[Len(view[c])] = HeadOf(view[c])
      BY <1>2, <3>1, <3>3
    <3> QED BY <1>1, <3>2, <3>4, OldHeadMeansPrefix
  <2> QED BY <2>1, <2>2
<1> QED BY <1>2, <1>4, <1>5, <1>7, <1>8, <1>9, <1>10

\* A client's own log is a prefix of itself.
LEMMA ViewPrefix ==
  ASSUME KTInv, NEW c \in Client PROVE IsPrefix(view[c], view[c])
<1>1. Len(view[c]) \in Nat
  BY DEF KTInv, ClientSound, SignedSound, IsLog
<1> QED BY <1>1 DEF IsPrefix

\* A client that accepts goes on soundly and keeps its pin.
LEMMA AcceptKeeps ==
  ASSUME KTInv, NEW c \in Client, NEW p \in signed, NEW q \in signed, NEW key,
         NEW sth \in HeadsOf(q[1], q[2]), Checks(c, q[1], key, p[2], sth),
         Accept(c, q[1], p[2], sth), signed' = signed
  PROVE  /\ ClientSound'
         /\ \A d \in Client : IsPrefix(view[d], view'[d])
         /\ \A d \in Client : pin[d] # NoPin => pin'[d] = pin[d]
<1>1. /\ p[2] = q[2] /\ Len(p[2]) \in Nat \ {0} /\ sth.seq \in Nat
      /\ sth.seq + 1 = Len(p[2]) /\ sth.head = HeadOf(p[2])
      /\ q[1] # NoPin /\ (pin[c] # NoPin => pin[c] = q[1])
      /\ IsPrefix(view[c], p[2])
  BY AcceptedLog
<1>2. /\ DOMAIN pin = Client /\ DOMAIN seen = Client /\ DOMAIN view = Client
  BY DEF KTInv, ClientSound
<1>3. /\ DOMAIN pin' = Client /\ DOMAIN seen' = Client /\ DOMAIN view' = Client
      /\ pin'[c] = q[1] /\ seen'[c] = sth /\ view'[c] = p[2]
      /\ \A d \in Client : d # c => pin'[d] = pin[d] /\ seen'[d] = seen[d] /\ view'[d] = view[d]
  BY <1>1, <1>2 DEF Accept
<1>4. q = <<q[1], q[2]>>
  BY DEF KTInv, SignedSound
<1>5. ClientSound'
  <2>1. <<pin'[c], view'[c]>> \in signed
    BY <1>1, <1>3, <1>4
  <2> QED BY <1>1, <1>3, <2>1 DEF KTInv, ClientSound
<1>6. \A d \in Client : IsPrefix(view[d], view'[d])
  BY <1>1, <1>3, ViewPrefix
<1> QED BY <1>1, <1>3, <1>5, <1>6

\* The log of a start with epochs T.
LEMMA ServedLog ==
  ASSUME NEW T, T \in SUBSET Nat, IsFiniteSet(T), NEW v \in T, NEW k, NEW now
  PROVE  Serves(initKT(T, k, now), k, v)
<1> DEFINE s == initKT(T, k, now)
<1>1. Cardinality(T) # 0
  BY FS_EmptySet
<1>2. s.records = Published(T, now) /\ s.logPub = k /\ s.sth = Sign(Published(T, now), k)
  BY DEF initKT
<1> HIDE DEF s
<1>3. Serves(s, k, v)
  BY <1>1, <1>2, PublishedLog DEF Serves
<1> QED BY <1>3 DEF s

-----------------------------------------------------------------------------
(* The invariant holds at first and is kept by every step.                 *)

\* The first start serves a log of one epoch, and no client has met it.
LEMMA KTInit == Init => KTInv
<1> SUFFICES ASSUME Init PROVE KTInv
  OBVIOUS
<1>1. /\ start = 1 /\ live = {1} /\ signing = 1 /\ signed = {<<1, kt.records>>}
      /\ kt = initKT({1}, 1, 0) /\ alarm = {}
  BY DEF Init
<1>2. {1} \in SUBSET Nat /\ IsFiniteSet({1}) /\ 1 \in {1}
  <2>1. IsFiniteSet({1})
    BY FS_Singleton, Zenon
  <2> QED BY <2>1
<1>3. Serves(kt, 1, 1)
  BY <1>1, <1>2, ServedLog
<1>4. ServerSound
  BY <1>1, <1>2, <1>3 DEF ServerSound
<1>5. SignedSound
  BY <1>1, <1>3 DEF SignedSound, Serves
<1>6. ClientSound
  BY DEF Init, ClientInit, ClientSound, NoHead
<1> QED BY <1>1, <1>4, <1>5, <1>6 DEF KTInv, NoAlarmWithinStart

\* A new start signs a new log under a new key; clients keep their pins.
LEMMA RotateKeeps ==
  ASSUME KTInv, Rotate
  PROVE  KTInv' /\ view' = view
<1>1. /\ start' = start + 1 /\ signing' \in live' /\ kt' = initKT(live', start', clock)
      /\ signed' = signed \cup {<<start', kt'.records>>}
      /\ UNCHANGED <<pin, seen, view, alarm>>
  BY DEF Rotate, clientVars
<1>2. live' \in SUBSET Nat /\ IsFiniteSet(live')
  <2>1. live \in SUBSET Nat /\ IsFiniteSet(live) /\ Cardinality(live) + 1 \in Nat
    BY FS_CardinalityType DEF KTInv, ServerSound
  <2>2. IsFiniteSet(live \cup {Cardinality(live) + 1})
    BY <2>1, FS_AddElement
  <2> QED BY <2>1, <2>2 DEF Rotate
<1>3. Serves(kt', start', signing') /\ IsLog(kt'.records)
  <2>1. Serves(initKT(live', start', clock), start', signing')
    BY <1>1, <1>2, ServedLog, Zenon
  <2>2. Serves(kt', start', signing')
    BY <1>1, <2>1, Zenon
  <2> QED BY <2>2 DEF Serves
<1>4. start \in Nat \ {0} /\ start' \in Nat \ {0} /\ start < start' /\ 1..start \subseteq 1..start'
      /\ start' \in 1..start' /\ start' \notin OtherKey \cup 1..start
  BY <1>1, KeysApart DEF KTInv, ServerSound
<1>5. ServerSound'
  BY <1>1, <1>2, <1>3, <1>4 DEF ServerSound
<1>6. SignedSound'
  <2>1. ASSUME NEW q \in signed
        PROVE  /\ q = <<q[1], q[2]>> /\ IsLog(q[2]) /\ q[1] \in OtherKey \cup 1..start' /\ q[1] # start'
    BY <1>4 DEF KTInv, SignedSound
  <2>2. PICK n : n = <<start', kt'.records>>
    OBVIOUS
  <2>3. n = <<n[1], n[2]>> /\ IsLog(n[2]) /\ n[1] \in OtherKey \cup 1..start' /\ n[2] = kt'.records
    BY <1>3, <1>4, <2>2
  <2> QED BY <1>1, <2>1, <2>2, <2>3 DEF SignedSound
<1>7. ClientSound'
  BY <1>1 DEF KTInv, ClientSound
<1>8. NoAlarmWithinStart' /\ alarm' \subseteq Client
  <2>1. ASSUME NEW c \in alarm PROVE pin[c] \notin {NoPin, start'}
    <3>1. c \in Client /\ pin[c] # NoPin
      BY DEF KTInv, NoAlarmWithinStart
    <3>2. PICK q \in signed : q = <<pin[c], view[c]>>
      BY <3>1 DEF KTInv, ClientSound
    <3>3. pin[c] \in OtherKey \cup 1..start
      BY <3>2 DEF KTInv, SignedSound
    <3> QED BY <1>4, <3>1, <3>3
  <2> QED BY <1>1, <2>1 DEF KTInv, NoAlarmWithinStart
<1> QED BY <1>1, <1>5, <1>6, <1>7, <1>8 DEF KTInv

\* Another operator signs any log it likes.
LEMMA SignHeadKeeps ==
  ASSUME KTInv, NEW k \in OtherKey, NEW l \in Log, SignHead(k, l),
         UNCHANGED <<clock, serverVars, alarm>>
  PROVE  KTInv' /\ view' = view
<1>1. /\ signed' = signed \cup {<<k, l>>}
      /\ UNCHANGED <<pin, seen, view, alarm, start, live, signing, kt>>
  BY DEF SignHead, clientVars, serverVars
<1>2. IsLog(l)
  <2>1. PICK ks \in BoundedSeq(Key, MaxRecords) : l = LogOf(ks)
    BY DEF Log
  <2>2. PICK n \in 0..MaxRecords : ks \in [1..n -> Key]
    BY <2>1 DEF BoundedSeq, SeqOf
  <2>3. n \in Nat /\ DOMAIN ks = 1..n
    BY <2>2, KeyLogAssumption
  <2> DEFINE R == {l[i] : i \in 1..n}
  <2>4. l \in [1..n -> R]
    BY <2>1, <2>3 DEF LogOf
  <2>5. l \in Seq(R) /\ DOMAIN l = 1..n
    <3> HIDE DEF R
    <3> QED BY <2>3, <2>4, SeqDef
  <2>6. Len(l) = n
    <3> HIDE DEF R
    <3> QED BY <2>3, <2>5, LenProperties
  <2>7. l = [i \in 1..n |-> [seq |-> l[i].seq, key |-> l[i].key, notBefore |-> l[i].notBefore]]
    BY <2>1, <2>3 DEF LogOf
  <2> QED BY <2>3, <2>6, <2>7 DEF IsLog
<1>3. SignedSound'
  <2>1. PICK n : n = <<k, l>>
    OBVIOUS
  <2>2. n = <<n[1], n[2]>> /\ IsLog(n[2]) /\ n[1] \in OtherKey \cup 1..start /\ n[1] # start
    BY <1>2, <2>1, KeysApart DEF KTInv, ServerSound
  <2> QED BY <1>1, <2>1, <2>2 DEF KTInv, SignedSound
<1>4. ServerSound' /\ ClientSound' /\ NoAlarmWithinStart' /\ alarm' \subseteq Client
  BY <1>1 DEF KTInv, ServerSound, ClientSound, NoAlarmWithinStart
<1> QED BY <1>1, <1>3, <1>4 DEF KTInv

\* A client accepts: the server and what was signed stay as they are.
LEMMA AcceptKeepsInv ==
  ASSUME KTInv, NEW c \in Client, NEW p \in signed, NEW q \in signed, NEW key,
         NEW sth \in HeadsOf(q[1], q[2]), Checks(c, q[1], key, p[2], sth),
         Accept(c, q[1], p[2], sth), UNCHANGED <<serverVars, signed, alarm>>
  PROVE  KTInv' /\ \A d \in Client : IsPrefix(view[d], view'[d])
<1>1. UNCHANGED <<start, live, signing, kt, signed, alarm>>
  BY DEF serverVars
<1>2. /\ ClientSound' /\ \A d \in Client : IsPrefix(view[d], view'[d])
      /\ \A d \in Client : pin[d] # NoPin => pin'[d] = pin[d]
  BY <1>1, AcceptKeeps
<1>3. ServerSound' /\ SignedSound'
  BY <1>1 DEF KTInv, ServerSound, SignedSound
<1>4. NoAlarmWithinStart' /\ alarm' \subseteq Client
  BY <1>1, <1>2 DEF KTInv, NoAlarmWithinStart
<1> QED BY <1>2, <1>3, <1>4 DEF KTInv

\* The log the server serves passes the checks of every client that pinned
\* this start or no log yet.
LEMMA ServedLogPasses ==
  ASSUME KTInv, NEW c \in Client, pin[c] \in {NoPin, start}
  PROVE  Checks(c, kt.logPub, signing, kt.records, kt.sth)
<1>1. /\ kt.logPub = start /\ kt.sth = Sign(kt.records, start)
      /\ Len(kt.records) \in Nat \ {0}
      /\ VerifyInclusion(kt.records, signing)
  BY DEF KTInv, ServerSound, Serves, IsLog
<1>2. VerifyLog(IF pin[c] = NoPin THEN kt.logPub ELSE pin[c], kt.records, kt.sth)
  BY <1>1 DEF VerifyLog, Sign
<1>3. ASSUME pin[c] # NoPin PROVE VerifyConsistency(seen[c], kt.records)
  <2>1. /\ <<start, view[c]>> \in signed /\ seen[c].seq \in Nat
        /\ seen[c].seq + 1 = Len(view[c]) /\ seen[c].head = HeadOf(view[c])
    BY <1>3 DEF KTInv, ClientSound
  <2>2. view[c] = kt.records
    <3>1. PICK q \in signed : q = <<start, view[c]>>
      BY <2>1
    <3> QED BY <3>1 DEF KTInv, SignedSound
  <2> QED BY <1>1, <2>1, <2>2 DEF VerifyConsistency, HeadOf
<1> QED BY <1>1, <1>2, <1>3 DEF Checks

\* One step per action; the records of a client only grow.
LEMMA KTNext ==
  ASSUME KTInv, [Next]_vars
  PROVE  KTInv' /\ \A c \in Client : IsPrefix(view[c], view'[c])
<1>1. ASSUME view' = view PROVE \A c \in Client : IsPrefix(view[c], view'[c])
  BY <1>1, ViewPrefix
<1>2. CASE Rotate
  BY <1>1, <1>2, RotateKeeps
<1>3. CASE Tick \/ UNCHANGED vars
  <2>1. UNCHANGED <<start, live, signing, kt, signed, pin, seen, view, alarm>>
    BY <1>3 DEF Tick, vars, serverVars, clientVars
  <2> QED BY <1>1, <2>1 DEF KTInv, ServerSound, SignedSound, ClientSound, NoAlarmWithinStart
<1>4. ASSUME NEW k \in OtherKey, NEW l \in Log, SignHead(k, l),
             UNCHANGED <<clock, serverVars, alarm>>
      PROVE  KTInv' /\ \A c \in Client : IsPrefix(view[c], view'[c])
  BY <1>1, <1>4, SignHeadKeeps
<1>5. ASSUME NEW c \in Client, Replayed(c)
      PROVE  KTInv' /\ \A d \in Client : IsPrefix(view[d], view'[d])
  <2>1. PICK p \in signed, q \in signed, key \in Key : \E sth \in HeadsOf(q[1], q[2]) :
          Served(c, q[1], key, p[2], sth) /\ UNCHANGED <<clock, serverVars, alarm>>
    BY <1>5 DEF Replayed
  <2>2. PICK sth \in HeadsOf(q[1], q[2]) :
          Served(c, q[1], key, p[2], sth) /\ UNCHANGED <<clock, serverVars, alarm>>
    BY <2>1
  <2>3. /\ Checks(c, q[1], key, p[2], sth) /\ Accept(c, q[1], p[2], sth)
        /\ UNCHANGED <<serverVars, signed, alarm>>
    BY <2>2 DEF Served
  <2> QED BY <2>3, AcceptKeepsInv
<1>6. ASSUME NEW c \in Client, Fetch(c)
      PROVE  KTInv' /\ \A d \in Client : IsPrefix(view[d], view'[d])
  <2>1. CASE Checks(c, kt.logPub, signing, kt.records, kt.sth)
    <3>1. PICK q, key, sth : q = <<start, kt.records>> /\ key = signing /\ sth = kt.sth
      OBVIOUS
    <3>2. /\ q \in signed /\ q[1] = kt.logPub /\ q[2] = kt.records
          /\ sth \in HeadsOf(q[1], q[2])
      BY <3>1 DEF KTInv, ServerSound, Serves, HeadsOf
    <3>3. /\ Checks(c, q[1], key, q[2], sth) /\ Accept(c, q[1], q[2], sth)
          /\ UNCHANGED <<serverVars, signed, alarm>>
      BY <1>6, <2>1, <3>1, <3>2 DEF Fetch
    <3> QED BY <3>2, <3>3, AcceptKeepsInv
  <2>2. CASE ~Checks(c, kt.logPub, signing, kt.records, kt.sth)
    <3>1. /\ UNCHANGED <<start, live, signing, kt, signed, pin, seen, view>>
          /\ alarm' = alarm \cup {c}
      BY <1>6, <2>2 DEF Fetch, serverVars, clientVars
    <3>2. pin[c] \notin {NoPin, start}
      BY <2>2, ServedLogPasses
    <3>3. KTInv'
      BY <3>1, <3>2 DEF KTInv, ServerSound, SignedSound, ClientSound, NoAlarmWithinStart
    <3> QED BY <1>1, <3>1, <3>3
  <2> QED BY <2>1, <2>2
<1> QED BY <1>2, <1>3, <1>4, <1>5, <1>6 DEF Next

\* What a client accepted is a log that the key it pinned signed, whatever
\* records and heads the network mixes and however long the logs are
\* (VerifyLog), and it never goes on from a head with a negative index.
THEOREM ClientsHoldCommitted == Spec => []RecordsCommitted
<1>1. KTInv => RecordsCommitted
  BY DEF KTInv, ClientSound, RecordsCommitted
<1> QED BY <1>1, KTInit, KTNext, PTL DEF Spec

\* The log one start of the server publishes passes the checks of every client
\* that pinned it or no log yet, for any number of epochs (initKT).
THEOREM ServerNeverAlarms == Spec => []NoAlarmWithinStart
<1>1. KTInv => NoAlarmWithinStart
  BY DEF KTInv
<1> QED BY <1>1, KTInit, KTNext, PTL DEF Spec

\* The records a client accepts extend the ones it accepted before, even when
\* the operator it pinned signs a fork (VerifyConsistency).
THEOREM ClientsFollowOneHistory == Spec => HistoryAppended
<1>1. KTInv /\ [Next]_vars
        => [\A c \in Client : IsPrefix(view[c], view'[c])]_<<signed, clientVars>>
  BY KTNext
<1> QED BY <1>1, KTInit, KTNext, PTL DEF Spec, HistoryAppended
=============================================================================
