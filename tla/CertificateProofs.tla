------------------------- MODULE CertificateProofs --------------------------
(***************************************************************************)
(* Certificates of any content, changed in any way on their journey.  The  *)
(* lemmas follow the encoder: integers and lengths round-trip, a written   *)
(* TLV reads back with what follows it left over and does not read when    *)
(* cut, and so do lists of them, a certificate's details and the two forms *)
(* of a certificate.  Signed bytes are details, curve and key without      *)
(* lengths between them; because details are self-delimiting they come     *)
(* apart in one way only, so equal signed bytes mean equal certificates.   *)
(***************************************************************************)
EXTENDS Certificate, WellFoundedInduction, TLAPS

(* Induction and recursion on the naturals.                                *)

\* Every nonempty set of naturals has a least element.
LEMMA LeastNat ==
    ASSUME NEW T, T \subseteq Nat, T # {}
    PROVE  \E x \in T : \A y \in T : x <= y
<1>1. PICK R : IsWellFoundedOn(R, Nat) /\ \A x, y \in Nat : y < x => <<y, x>> \in R
  <2> DEFINE L == OpToRel(<, Nat)
  <2>1. IsWellFoundedOn(L, Nat)
    BY NatLessThanWellFounded
  <2>2. \A x, y \in Nat : y < x => <<y, x>> \in L
    BY DEF OpToRel
  <2> HIDE DEF L
  <2> QED
    BY <2>1, <2>2
<1>2. PICK x \in T : \A y \in T : ~(<<y, x>> \in R)
  BY <1>1, WFMin
<1>3. ASSUME NEW y \in T PROVE x <= y
  <2>1. x \in Nat /\ y \in Nat
    OBVIOUS
  <2>2. ~(y < x)
    BY <1>1, <1>2, <2>1
  <2> QED
    BY <2>1, <2>2
<1> QED
  BY <1>3

\* What holds of 0, and of n + 1 when it holds of n, holds of every natural.
LEMMA Induction ==
    ASSUME NEW S, 0 \in S, \A n \in Nat : n \in S => n + 1 \in S
    PROVE  \A n \in Nat : n \in S
<1> DEFINE T == Nat \ S
<1> SUFFICES ASSUME T # {} PROVE FALSE
  OBVIOUS
<1>1. PICK m \in T : \A y \in T : m <= y
  <2>1. T \subseteq Nat
    OBVIOUS
  <2> HIDE DEF T
  <2> QED
    BY <2>1, LeastNat
<1>2. m \in Nat /\ m \notin S /\ m # 0
  OBVIOUS
<1>3. PICK k \in Nat : m = k + 1
  <2>1. m - 1 \in Nat /\ m = (m - 1) + 1
    BY <1>2
  <2> QED
    BY <2>1
<1>4. k \in S
  <2>1. ~(m <= k)
    BY <1>3
  <2> QED
    BY <1>1, <2>1
<1> QED
  BY <1>2, <1>3, <1>4

\* g is the recursion's beginning, up to n.
Begins(g, n, D, base, G) ==
    /\ g \in [0..n -> D]
    /\ g[0] = base
    /\ \A i \in 0..(n - 1) : g[i + 1] = G[i + 1][g[i]]

LEMMA Beginnings ==
    ASSUME NEW D, NEW base \in D, NEW G \in [Nat -> [D -> D]]
    PROVE  \A n \in Nat : \E g : Begins(g, n, D, base, G)
<1> DEFINE Good == {n \in Nat : \E g : Begins(g, n, D, base, G)}
<1>1. \A n \in Nat : n \in Good
  <2>1. 0 \in Good
    <3>1. Begins([i \in 0..0 |-> base], 0, D, base, G)
      BY DEF Begins
    <3> QED
      BY <3>1
  <2>2. ASSUME NEW n \in Nat, n \in Good PROVE n + 1 \in Good
    <3>1. PICK g : Begins(g, n, D, base, G)
      BY <2>2
    <3>2. g \in [0..n -> D] /\ g[0] = base /\ \A i \in 0..(n - 1) : g[i + 1] = G[i + 1][g[i]]
      BY <3>1 DEF Begins
    <3>3. PICK x \in D : x = G[n + 1][g[n]]
      BY <3>2
    <3> DEFINE h == [i \in 0..(n + 1) |-> IF i = n + 1 THEN x ELSE g[i]]
    <3>4. h \in [0..(n + 1) -> D]
      BY <3>2
    <3>5. h[0] = base
      BY <3>2
    <3>6. ASSUME NEW i \in 0..((n + 1) - 1) PROVE h[i + 1] = G[i + 1][h[i]]
      <4>1. CASE i = n
        BY <3>3, <4>1
      <4>2. CASE i # n
        BY <3>2, <4>2
      <4> QED
        BY <4>1, <4>2
    <3> HIDE DEF h
    <3>7. Begins(h, n + 1, D, base, G)
      BY <3>4, <3>5, <3>6 DEF Begins
    <3> QED
      BY <3>7
  <2> HIDE DEF Good
  <2> QED
    BY <2>1, <2>2, Induction
<1> QED
  BY <1>1

\* f is defined by its value at 0 and a step from each value to the next.
Follows(f, D, base, G) ==
    /\ f \in [Nat -> D]
    /\ f[0] = base
    /\ \A i \in Nat : f[i + 1] = G[i + 1][f[i]]

\* There is a function with a given value at 0 and given steps.
LEMMA Recursion ==
    ASSUME NEW D, NEW base \in D, NEW G \in [Nat -> [D -> D]]
    PROVE  \E f : Follows(f, D, base, G)
<1>1. \A n \in Nat : \E g : Begins(g, n, D, base, G)
  BY Beginnings
<1>2. ASSUME NEW n \in Nat, NEW m \in Nat, NEW g, NEW h,
             Begins(g, n, D, base, G), Begins(h, m, D, base, G)
      PROVE  \A i \in Nat : i <= n /\ i <= m => g[i] = h[i]
  <2> DEFINE Same == {i \in Nat : i <= n /\ i <= m => g[i] = h[i]}
  <2>1. 0 \in Same
    BY <1>2 DEF Begins
  <2>2. ASSUME NEW i \in Nat, i \in Same PROVE i + 1 \in Same
    BY <1>2, <2>2 DEF Begins
  <2>3. \A i \in Nat : i \in Same
    <3> HIDE DEF Same
    <3> QED
      BY <2>1, <2>2, Induction
  <2> QED
    BY <2>3
<1> DEFINE Of(n) == CHOOSE g : Begins(g, n, D, base, G)
           f == [n \in Nat |-> Of(n)[n]]
<1>3. \A n \in Nat : Begins(Of(n), n, D, base, G)
  BY <1>1
<1> HIDE DEF Of
<1>4. f \in [Nat -> D]
  BY <1>3 DEF Begins
<1>5. f[0] = base
  BY <1>3 DEF Begins
<1>6. ASSUME NEW i \in Nat PROVE f[i + 1] = G[i + 1][f[i]]
  <2>1. PICK g : g = Of(i + 1)
    OBVIOUS
  <2>2. PICK h : h = Of(i)
    OBVIOUS
  <2>3. Begins(g, i + 1, D, base, G) /\ Begins(h, i, D, base, G)
    BY <1>3, <2>1, <2>2
  <2>4. g[i] = h[i]
    <3>1. i <= i + 1 /\ i <= i /\ i + 1 \in Nat
      OBVIOUS
    <3> QED
      BY <1>2, <2>3, <3>1
  <2>5. g[i + 1] = G[i + 1][g[i]]
    BY <2>3 DEF Begins
  <2> QED
    BY <2>1, <2>2, <2>4, <2>5
<1> HIDE DEF f
<1> QED
  BY <1>4, <1>5, <1>6 DEF Follows

-----------------------------------------------------------------------------
(* Numbers.                                                                *)

LEMMA HighIs ==
    ASSUME NEW v \in Int
    PROVE  /\ High(v, 0) = v
           /\ \A k \in Nat : High(v, k) \in Int /\ High(v, k + 1) = High(v, k) \div 256
<1> DEFINE G == [i \in Nat |-> [x \in Int |-> x \div 256]]
<1>1. PICK f : Follows(f, Int, v, G)
  <2>1. G \in [Nat -> [Int -> Int]]
    OBVIOUS
  <2> HIDE DEF G
  <2> QED
    BY <2>1, Recursion
<1>2. f = [i \in Nat |-> IF i = 0 THEN v ELSE f[i - 1] \div 256]
  <2>1. ASSUME NEW i \in Nat PROVE f[i] = IF i = 0 THEN v ELSE f[i - 1] \div 256
    <3>1. CASE i # 0
      <4>1. PICK j \in Nat : j = i - 1 /\ i = j + 1
        BY <3>1
      <4> QED
        BY <1>1, <3>1, <4>1 DEF Follows
    <3> QED
      BY <1>1, <3>1 DEF Follows
  <2> QED
    BY <1>1, <2>1 DEF Follows
<1> DEFINE h == CHOOSE g : g = [i \in Nat |-> IF i = 0 THEN v ELSE g[i - 1] \div 256]
<1>3. h = [i \in Nat |-> IF i = 0 THEN v ELSE h[i - 1] \div 256]
  BY <1>2
<1>4. \A k : High(v, k) = h[k]
  BY DEF High
<1> HIDE DEF h
<1>5. h[0] = v
  BY <1>3
<1>6. \A k \in Nat : h[k + 1] = h[k] \div 256
  BY <1>3
<1>7. \A k \in Nat : h[k] \in Int
  <2> DEFINE S == {k \in Nat : h[k] \in Int}
  <2>1. 0 \in S
    BY <1>5
  <2>2. \A k \in Nat : k \in S => k + 1 \in S
    BY <1>6
  <2>3. \A k \in Nat : k \in S
    <3> HIDE DEF S
    <3> QED
      BY <2>1, <2>2, Induction
  <2> QED
    BY <2>3
<1> QED
  BY <1>4, <1>5, <1>6, <1>7

\* The values of the prefixes of b.
Accumulates(s, b, fill) ==
    /\ s[0] = fill
    /\ \A i \in 0..Len(b) : s[i] \in Int
    /\ \A i \in 0..(Len(b) - 1) : s[i + 1] = 256 * s[i] + b[i + 1]
    /\ Value(b, fill) = s[Len(b)]

LEMMA ValueIs ==
    ASSUME NEW b \in Bytes, NEW fill \in Int
    PROVE  \E s : Accumulates(s, b, fill)
<1>1. PICK n \in Nat : n = Len(b)
  BY DEF Bytes
<1>2. \A i \in 1..n : b[i] \in Int
  BY <1>1 DEF Bytes, Byte
<1> DEFINE G == [i \in Nat |-> [x \in Int |-> IF i \in 1..n THEN 256 * x + b[i] ELSE 0]]
<1>3. PICK f : Begins(f, n, Int, fill, G)
  <2>1. G \in [Nat -> [Int -> Int]]
    BY <1>2
  <2> HIDE DEF G
  <2> QED
    BY <2>1, Beginnings
<1>4. f \in [0..n -> Int] /\ f[0] = fill /\ \A i \in 0..(n - 1) : f[i + 1] = 256 * f[i] + b[i + 1]
  <2>1. f \in [0..n -> Int] /\ f[0] = fill /\ \A i \in 0..(n - 1) : f[i + 1] = G[i + 1][f[i]]
    BY <1>3 DEF Begins
  <2>2. ASSUME NEW i \in 0..(n - 1) PROVE f[i + 1] = 256 * f[i] + b[i + 1]
    <3>1. i + 1 \in Nat /\ i + 1 \in 1..n /\ i \in 0..n
      OBVIOUS
    <3>2. PICK x \in Int : x = f[i]
      BY <2>1, <3>1
    <3>3. G[i + 1][x] = 256 * x + b[i + 1]
      BY <3>1
    <3> HIDE DEF G
    <3> QED
      BY <2>1, <3>2, <3>3
  <2> QED
    BY <2>1, <2>2
<1>5. f = [i \in 0..n |-> IF i = 0 THEN fill ELSE 256 * f[i - 1] + b[i]]
  <2>1. ASSUME NEW i \in 0..n PROVE f[i] = IF i = 0 THEN fill ELSE 256 * f[i - 1] + b[i]
    <3>1. CASE i # 0
      <4>1. PICK j \in 0..(n - 1) : j = i - 1 /\ i = j + 1
        BY <3>1
      <4> QED
        BY <1>4, <3>1, <4>1
    <3> QED
      BY <1>4, <3>1
  <2> QED
    BY <1>4, <2>1
<1> DEFINE h == CHOOSE g : g = [i \in 0..n |-> IF i = 0 THEN fill ELSE 256 * g[i - 1] + b[i]]
<1>6. h = [i \in 0..n |-> IF i = 0 THEN fill ELSE 256 * h[i - 1] + b[i]]
  BY <1>5
<1>7. Value(b, fill) = h[n]
  BY <1>1 DEF Value
<1> HIDE DEF h
<1>8. h[0] = fill /\ \A i \in 0..(n - 1) : h[i + 1] = 256 * h[i] + b[i + 1]
  BY <1>6
<1> DEFINE S == {k \in Nat : k <= n => h[k] \in Int}
<1>9. \A i \in Nat : i \in S
  <2>1. 0 \in S
    BY <1>8
  <2>2. ASSUME NEW k \in Nat, k \in S PROVE k + 1 \in S
    <3>1. CASE k + 1 <= n
      <4>1. k \in 0..(n - 1) /\ k + 1 \in 1..n /\ h[k] \in Int
        BY <2>2, <3>1
      <4>2. h[k + 1] = 256 * h[k] + b[k + 1] /\ b[k + 1] \in Int
        BY <1>2, <1>8, <4>1
      <4> QED
        BY <4>1, <4>2
    <3> QED
      BY <3>1
  <2> HIDE DEF S
  <2> QED
    BY <2>1, <2>2, Induction
<1>10. \A i \in 0..n : h[i] \in Int
  BY <1>9
<1>11. Accumulates(h, b, fill)
  BY <1>1, <1>7, <1>8, <1>10 DEF Accumulates
<1> QED
  BY <1>11

\* to_be_bytes gives bytes, the last ones of which are those of fewer bytes.
LEMMA BigEndianIs ==
    ASSUME NEW v \in Int, NEW w \in Nat
    PROVE  /\ BigEndian(v, w) \in Bytes
           /\ Len(BigEndian(v, w)) = w
           /\ \A i \in 1..w : BigEndian(v, w)[i] = High(v, w - i) % 256
           /\ \A i \in 1..w : SubSeq(BigEndian(v, w), i, w) = BigEndian(v, w - i + 1)
<1>1. ASSUME NEW m \in Nat
      PROVE  /\ BigEndian(v, m) \in Bytes
             /\ Len(BigEndian(v, m)) = m
             /\ \A i \in 1..m : BigEndian(v, m)[i] = High(v, m - i) % 256
  <2>1. ASSUME NEW i \in 1..m PROVE High(v, m - i) % 256 \in Byte
    <3>1. m - i \in Nat
      OBVIOUS
    <3>2. PICK x \in Int : x = High(v, m - i)
      BY <3>1, HighIs
    <3> QED
      BY <3>2 DEF Byte
  <2>2. BigEndian(v, m) = [i \in 1..m |-> High(v, m - i) % 256]
    BY DEF BigEndian
  <2>3. BigEndian(v, m) \in [1..m -> Byte]
    BY <2>1, <2>2
  <2> HIDE DEF Byte
  <2> QED
    BY <2>2, <2>3 DEF Bytes
<1>2. ASSUME NEW i \in 1..w PROVE SubSeq(BigEndian(v, w), i, w) = BigEndian(v, w - i + 1)
  <2>1. PICK m \in Nat : m = w - i + 1
    OBVIOUS
  <2>2. PICK b : b = BigEndian(v, w)
    OBVIOUS
  <2>3. PICK c : c = BigEndian(v, m)
    OBVIOUS
  <2>4. b \in Seq(Byte) /\ Len(b) = w /\ \A j \in 1..w : b[j] = High(v, w - j) % 256
    BY <1>1, <2>2 DEF Bytes
  <2>5. c \in Seq(Byte) /\ Len(c) = m /\ \A j \in 1..m : c[j] = High(v, m - j) % 256
    BY <1>1, <2>3 DEF Bytes
  <2> HIDE DEF Byte
  <2>6. SubSeq(b, i, w) \in Seq(Byte) /\ Len(SubSeq(b, i, w)) = m
    BY <2>1, <2>4
  <2>7. ASSUME NEW j \in 1..m PROVE SubSeq(b, i, w)[j] = c[j]
    <3>1. SubSeq(b, i, w)[j] = b[i + j - 1]
      BY <2>1, <2>4
    <3>2. i + j - 1 \in 1..w /\ w - (i + j - 1) = m - j
      BY <2>1
    <3> QED
      BY <2>4, <2>5, <3>1, <3>2
  <2>8. SubSeq(b, i, w) = c
    BY <2>5, <2>6, <2>7
  <2> QED
    BY <2>1, <2>2, <2>3, <2>8
<1> QED
  BY <1>1, <1>2

\* from_be_bytes undoes it.
LEMMA BigEndianValue ==
    ASSUME NEW v \in Int, NEW w \in Nat
    PROVE  Value(BigEndian(v, w), High(v, w)) = v
<1>1. PICK b : b = BigEndian(v, w)
  OBVIOUS
<1>2. b \in Bytes /\ Len(b) = w /\ \A i \in 1..w : b[i] = High(v, w - i) % 256
  BY <1>1, BigEndianIs
<1>3. PICK fill \in Int : fill = High(v, w)
  BY HighIs
<1>4. PICK s : Accumulates(s, b, fill)
  BY <1>2, ValueIs
<1>a. /\ s[0] = fill
      /\ Value(b, fill) = s[w]
      /\ \A i \in 0..(w - 1) : s[i + 1] = 256 * s[i] + b[i + 1]
  BY <1>2, <1>4 DEF Accumulates
<1> DEFINE S == {i \in Nat : i <= w => s[i] = High(v, w - i)}
<1>5. 0 \in S
  BY <1>3, <1>a
<1>6. ASSUME NEW i \in Nat, i \in S PROVE i + 1 \in S
  <2>1. CASE i + 1 <= w
    <3>1. PICK k \in Nat : k = w - (i + 1) /\ k + 1 = w - i
      BY <2>1
    <3>2. PICK x \in Int : x = High(v, k)
      BY HighIs
    <3>3. High(v, k + 1) = x \div 256
      BY <3>2, HighIs
    <3>4. s[i] = x \div 256
      BY <1>6, <2>1, <3>1, <3>3
    <3>5. b[i + 1] = x % 256
      BY <1>2, <2>1, <3>1, <3>2
    <3>6. s[i + 1] = 256 * s[i] + b[i + 1]
      BY <1>a, <2>1
    <3>7. s[i + 1] = x
      BY <3>4, <3>5, <3>6
    <3> QED
      BY <3>1, <3>2, <3>7
  <2> QED
    BY <2>1
<1>7. \A i \in Nat : i \in S
  <2> HIDE DEF S
  <2> QED
    BY <1>5, <1>6, Induction
<1>8. s[w] = High(v, 0)
  BY <1>7
<1> QED
  BY <1>1, <1>3, <1>a, <1>8, HighIs

LEMMA ValueNat ==
    ASSUME NEW b \in Bytes
    PROVE  Value(b, 0) \in Nat
<1>1. PICK s : Accumulates(s, b, 0)
  BY ValueIs
<1>2. PICK n \in Nat : n = Len(b)
  BY DEF Bytes
<1>3. \A i \in 1..n : b[i] \in Nat
  BY <1>2 DEF Bytes, Byte
<1> DEFINE S == {i \in Nat : i <= n => s[i] \in Nat}
<1>4. 0 \in S
  BY <1>1 DEF Accumulates
<1>5. ASSUME NEW i \in Nat, i \in S PROVE i + 1 \in S
  <2>1. CASE i + 1 <= n
    <3>1. i \in 0..(n - 1) /\ i + 1 \in 1..n /\ s[i] \in Nat
      BY <1>5, <2>1
    <3>2. s[i + 1] = 256 * s[i] + b[i + 1] /\ b[i + 1] \in Nat
      BY <1>1, <1>2, <1>3, <3>1 DEF Accumulates
    <3> QED
      BY <3>1, <3>2
  <2> QED
    BY <2>1
<1>6. \A i \in Nat : i \in S
  <2> HIDE DEF S
  <2> QED
    BY <1>4, <1>5, Induction
<1> QED
  BY <1>1, <1>2, <1>6 DEF Accumulates

\* A shift to the right keeps the order, and what is not negative.
LEMMA HighMonotone ==
    ASSUME NEW a \in Nat, NEW v \in Nat, a <= v
    PROVE  \A k \in Nat : High(a, k) \in Nat /\ High(v, k) \in Nat /\ High(a, k) <= High(v, k)
<1> DEFINE S == {k \in Nat : /\ High(a, k) \in Nat /\ High(v, k) \in Nat
                             /\ High(a, k) <= High(v, k)}
<1>1. 0 \in S
  <2>1. High(a, 0) = a /\ High(v, 0) = v
    BY HighIs
  <2> QED
    BY <2>1
<1>2. ASSUME NEW k \in Nat, k \in S PROVE k + 1 \in S
  <2>1. PICK x \in Nat : x = High(a, k)
    BY <1>2
  <2>2. PICK y \in Nat : y = High(v, k)
    BY <1>2
  <2>3. High(a, k + 1) = x \div 256 /\ High(v, k + 1) = y \div 256
    BY <2>1, <2>2, HighIs
  <2>4. x <= y
    BY <1>2, <2>1, <2>2
  <2>5. x \div 256 \in Nat /\ y \div 256 \in Nat /\ x \div 256 <= y \div 256
    BY <2>4
  <2> QED
    BY <2>3, <2>5
<1>3. \A k \in Nat : k \in S
  <2> HIDE DEF S
  <2> QED
    BY <1>1, <1>2, Induction
<1> QED
  BY <1>3

LEMMA LenBytes == LEN_BYTES \in Nat /\ LEN_BYTES >= 1 /\ LEN_BYTES < 128
  BY CertificateAssumption

\* A buffer inside one whose length is a usize has a length that is one.
LEMMA UsizeInside ==
    ASSUME NEW a \in Nat, NEW v \in Nat, a <= v, IsUsize(v)
    PROVE  IsUsize(a)
<1>1. High(a, LEN_BYTES) \in Nat /\ High(a, LEN_BYTES) <= High(v, LEN_BYTES)
  BY LenBytes, HighMonotone
<1> QED
  BY <1>1 DEF IsUsize

\* Above the first m bytes there is nothing when all the bytes there are 0.
LEMMA ZerosAbove ==
    ASSUME NEW v \in Int, NEW w \in Nat, NEW m \in 0..w, High(v, w) = 0,
           \A k \in m..(w - 1) : High(v, k) % 256 = 0
    PROVE  High(v, m) = 0
<1> DEFINE S == {d \in Nat : d <= w - m => High(v, w - d) = 0}
<1>1. 0 \in S
  OBVIOUS
<1>2. ASSUME NEW d \in Nat, d \in S PROVE d + 1 \in S
  <2>1. CASE d + 1 <= w - m
    <3>1. PICK k \in Nat : k = w - (d + 1) /\ k + 1 = w - d /\ k \in m..(w - 1)
      BY <2>1
    <3>2. PICK x \in Int : x = High(v, k)
      BY HighIs
    <3>3. High(v, k + 1) = x \div 256
      BY <3>2, HighIs
    <3>4. x \div 256 = 0
      BY <1>2, <2>1, <3>1, <3>3
    <3>5. x % 256 = 0
      BY <3>1, <3>2
    <3>6. x = 0
      BY <3>4, <3>5
    <3> QED
      BY <3>1, <3>2, <3>6
  <2> QED
    BY <2>1
<1>3. \A d \in Nat : d \in S
  <2> HIDE DEF S
  <2> QED
    BY <1>1, <1>2, Induction
<1>4. w - m \in Nat /\ w - (w - m) = m
  OBVIOUS
<1>5. w - m \in S
  BY <1>3, <1>4
<1> QED
  BY <1>4, <1>5

\* What From leaves out has none of the stops in it.
LEMMA FromIs ==
    ASSUME NEW b \in Bytes, Len(b) >= 1, NEW stops, stops \subseteq 1..Len(b)
    PROVE  \E i \in 1..Len(b) : /\ From(b, stops) = SubSeq(b, i, Len(b))
                                /\ \A j \in 1..(i - 1) : j \notin stops
<1>1. PICK n \in Nat : n = Len(b) /\ n >= 1
  BY DEF Bytes
<1>2. \E i \in stops \cup {n} : \A j \in stops : i <= j
  <2>1. CASE stops = {}
    BY <2>1
  <2>2. CASE stops # {}
    <3>1. stops \subseteq Nat
      BY <1>1
    <3> QED
      BY <2>2, <3>1, LeastNat
  <2> QED
    BY <2>1, <2>2
<1> DEFINE i == CHOOSE i \in stops \cup {n} : \A j \in stops : i <= j
<1>3. i \in stops \cup {n} /\ \A j \in stops : i <= j
  BY <1>2
<1>4. From(b, stops) = SubSeq(b, i, n)
  BY <1>1 DEF From
<1> HIDE DEF i
<1>5. i \in 1..n
  BY <1>1, <1>3
<1>6. \A j \in 1..(i - 1) : j \notin stops
  BY <1>3, <1>5
<1> QED
  BY <1>1, <1>4, <1>5, <1>6

-----------------------------------------------------------------------------
(* Lengths and integers.                                                   *)

\* A length below 128 is its own byte; a longer one is written as the number of
\* bytes behind it, and these, of which the first is not 0.
LEMMA WriteLengthIs ==
    ASSUME NEW len \in Nat, len >= 128
    PROVE  \E m \in 1..LEN_BYTES :
               /\ write_length(len) = <<128 + m>> \o BigEndian(len, m)
               /\ IsUsize(len) => High(len, m) = 0
<1>1. PICK w \in Nat : w = LEN_BYTES /\ w >= 1
  BY LenBytes
<1>0. len \in Int
  OBVIOUS
<1>2. PICK b : b = BigEndian(len, w)
  OBVIOUS
<1>3. /\ b \in Bytes /\ Len(b) = w
      /\ \A i \in 1..w : b[i] = High(len, w - i) % 256
      /\ \A i \in 1..w : SubSeq(b, i, w) = BigEndian(len, w - i + 1)
  <2>1. PICK v \in Int : v = len
    BY <1>0
  <2>2. /\ BigEndian(v, w) \in Bytes /\ Len(BigEndian(v, w)) = w
        /\ \A i \in 1..w : BigEndian(v, w)[i] = High(v, w - i) % 256
        /\ \A i \in 1..w : SubSeq(BigEndian(v, w), i, w) = BigEndian(v, w - i + 1)
    BY BigEndianIs
  <2> QED
    BY <1>2, <2>1, <2>2
<1>4. PICK stops : stops = {i \in DOMAIN b : b[i] # 0}
  OBVIOUS
<1>5. stops \subseteq 1..w
  BY <1>3, <1>4 DEF Bytes
<1>6. PICK i \in 1..w : /\ From(b, stops) = SubSeq(b, i, w)
                        /\ \A j \in 1..(i - 1) : j \notin stops
  BY <1>1, <1>3, <1>5, FromIs
<1>7. PICK m \in 1..w : m = w - i + 1
  OBVIOUS
<1>8. From(b, stops) = BigEndian(len, m) /\ Len(BigEndian(len, m)) = m
  <2>1. SubSeq(b, i, w) = BigEndian(len, m)
    BY <1>3, <1>7
  <2> QED
    BY <1>0, <1>6, <2>1, BigEndianIs
<1>9. write_length(len) = <<128 + m>> \o BigEndian(len, m)
  <2> DEFINE significant == From(b, stops)
  <2>1. ~(len < 128)
    OBVIOUS
  <2>2. write_length(len) = IF len < 128 THEN <<len>> ELSE <<128 + Len(significant)>> \o significant
    BY <1>1, <1>2, <1>4, Zenon DEF write_length
  <2> QED
    BY <1>8, <2>1, <2>2
<1>10. ASSUME IsUsize(len) PROVE High(len, m) = 0
  <2>1. High(len, w) = 0
    BY <1>1, <1>10 DEF IsUsize
  <2>2. ASSUME NEW k \in m..(w - 1) PROVE High(len, k) % 256 = 0
    <3>1. PICK j \in 1..(i - 1) : j = w - k /\ k = w - j /\ j \in 1..w
      BY <1>7
    <3>2. j \in DOMAIN b
      BY <1>3, <3>1 DEF Bytes
    <3>3. b[j] = 0
      BY <1>4, <1>6, <3>2
    <3> QED
      BY <1>3, <3>1, <3>3
  <2> QED
    BY <2>1, <2>2, ZerosAbove
<1> QED
  BY <1>1, <1>9, <1>10

\* The shortest two's complement of an i64 decodes to it.
LEMMA IntRoundTrip ==
    ASSUME NEW v \in I64
    PROVE  /\ encode_der_int(v) \in Bytes
           /\ decode_der_int(encode_der_int(v)) = {v}
<1>1. PICK w \in Nat : w = INT_BYTES /\ w >= 1
  BY CertificateAssumption
<1>2. PICK b : b = BigEndian(v, w)
  OBVIOUS
<1>0. v \in Int
  BY DEF I64
<1>3. /\ b \in Bytes /\ Len(b) = w
      /\ \A i \in 1..w : b[i] = High(v, w - i) % 256
      /\ \A i \in 1..w : SubSeq(b, i, w) = BigEndian(v, w - i + 1)
  BY <1>0, <1>2, BigEndianIs
<1>4. PICK stops : stops = {i \in 1..(w - 1) : b[i] # 0 \/ b[i + 1] >= 128}
  OBVIOUS
<1>5. stops \subseteq 1..w
  BY <1>4
<1>6. PICK i \in 1..w : /\ From(b, stops) = SubSeq(b, i, w)
                        /\ \A j \in 1..(i - 1) : j \notin stops
  BY <1>1, <1>3, <1>5, FromIs
<1>7. PICK m \in 1..w : m = w - i + 1
  OBVIOUS
<1>8. PICK e : e = BigEndian(v, m)
  OBVIOUS
<1>9. encode_der_int(v) = e
  BY <1>1, <1>2, <1>3, <1>4, <1>6, <1>7, <1>8 DEF encode_der_int
<1>10. e \in Bytes /\ Len(e) = m /\ e[1] = High(v, m - 1) % 256
  BY <1>0, <1>8, BigEndianIs
<1>11. PICK top \in Int : top = High(v, w - 1)
  BY <1>0, <1>1, HighIs
<1>12. -128 <= top /\ top <= 127 /\ High(v, w) = top \div 256
  <2>1. -128 <= top /\ top <= 127
    BY <1>1, <1>11 DEF I64
  <2>2. w - 1 \in Nat /\ (w - 1) + 1 = w
    BY <1>1
  <2> QED
    BY <1>0, <1>11, <2>1, <2>2, HighIs
<1>13. High(v, m) = IF e[1] >= 128 THEN -1 ELSE 0
  <2>1. CASE i = 1
    <3>1. m = w
      BY <1>7, <2>1
    <3> QED
      BY <1>10, <1>11, <1>12, <3>1
  <2>2. CASE i # 1
    <3>1. ASSUME NEW j \in 1..(i - 1) PROVE b[j] = 0 /\ ~(b[j + 1] >= 128)
      BY <1>4, <1>6
    <3>2. b[1] = 0
      BY <2>2, <3>1
    <3>3. b[1] = top % 256
      BY <1>1, <1>3, <1>11
    <3>4. top = 0
      BY <1>12, <3>2, <3>3
    <3>5. High(v, w) = 0
      BY <1>12, <3>4
    <3>6. ASSUME NEW k \in m..(w - 1) PROVE High(v, k) % 256 = 0
      <4>1. PICK j \in 1..(i - 1) : j = w - k /\ k = w - j /\ j \in 1..w
        BY <1>7
      <4> QED
        BY <1>3, <3>1, <4>1
    <3>7. High(v, m) = 0
      BY <1>0, <3>5, <3>6, ZerosAbove
    <3>8. e[1] = b[i]
      <4>1. m - 1 = w - i
        BY <1>7
      <4>2. b[i] = High(v, w - i) % 256
        BY <1>3
      <4>3. High(v, w - i) = High(v, m - 1)
        BY <4>1
      <4> QED
        BY <1>10, <4>2, <4>3
    <3>9. ~(b[i] >= 128)
      <4>1. PICK j \in 1..(i - 1) : j = i - 1 /\ j + 1 = i
        BY <2>2
      <4> QED
        BY <3>1, <4>1
    <3> QED
      BY <3>7, <3>8, <3>9
  <2> QED
    BY <2>1, <2>2
<1>14. Value(e, High(v, m)) = v
  BY <1>0, <1>8, BigEndianValue
<1>15. Value(e, IF e[1] >= 128 THEN -1 ELSE 0) = v
  BY <1>13, <1>14
<1> QED
  BY <1>1, <1>9, <1>10, <1>15 DEF decode_der_int

LEMMA WriteLengthBytes ==
    ASSUME NEW len \in Nat
    PROVE  write_length(len) \in Bytes /\ Len(write_length(len)) >= 1
<1>1. CASE len < 128
  <2>1. write_length(len) = <<len>> /\ len \in Byte
    BY <1>1 DEF write_length, Byte
  <2> QED
    BY <2>1 DEF Bytes
<1>2. CASE len >= 128
  <2>1. PICK m \in 1..LEN_BYTES : write_length(len) = <<128 + m>> \o BigEndian(len, m)
    BY <1>2, WriteLengthIs
  <2>2. m \in Nat /\ len \in Int /\ 128 + m \in Byte
    BY LenBytes DEF Byte
  <2>3. PICK b : b = BigEndian(len, m)
    OBVIOUS
  <2>4. b \in Seq(Byte)
    BY <2>2, <2>3, BigEndianIs DEF Bytes
  <2>5. PICK h \in Byte : h = 128 + m
    BY <2>2
  <2>6. write_length(len) = <<h>> \o b
    BY <2>1, <2>3, <2>5
  <2> QED
    BY <2>4, <2>6 DEF Bytes
<1> QED
  BY <1>1, <1>2

-----------------------------------------------------------------------------
(* A string inside another.                                                *)

At(data, pos, s) ==
    /\ pos + Len(s) - 1 <= Len(data)
    /\ \A i \in 1..Len(s) : data[pos + i - 1] = s[i]

LEMMA AtCat ==
    ASSUME NEW data \in Bytes, NEW pos \in Nat \ {0}, NEW s \in Bytes, NEW t \in Bytes,
           At(data, pos, s \o t)
    PROVE  At(data, pos, s) /\ At(data, pos + Len(s), t)
<1>1. PICK m \in Nat, n \in Nat, d \in Nat : m = Len(s) /\ n = Len(t) /\ d = Len(data)
  BY DEF Bytes
<1>2. PICK u : u = s \o t
  OBVIOUS
<1>3. /\ Len(u) = m + n
      /\ \A i \in 1..m : u[i] = s[i]
      /\ \A i \in 1..n : u[m + i] = t[i]
  BY <1>1, <1>2 DEF Bytes
<1>4. pos + (m + n) - 1 <= d /\ \A i \in 1..(m + n) : data[pos + i - 1] = u[i]
  BY <1>1, <1>2, <1>3 DEF At
<1>5. At(data, pos, s)
  <2>1. ASSUME NEW i \in 1..m PROVE data[pos + i - 1] = s[i]
    BY <1>3, <1>4
  <2> QED
    BY <1>1, <1>4, <2>1 DEF At
<1>6. At(data, pos + m, t)
  <2>1. ASSUME NEW i \in 1..n PROVE data[(pos + m) + i - 1] = t[i]
    <3>1. m + i \in 1..(m + n) /\ pos + (m + i) - 1 = (pos + m) + i - 1
      OBVIOUS
    <3> QED
      BY <1>3, <1>4, <3>1
  <2> QED
    BY <1>1, <1>4, <2>1 DEF At
<1> QED
  BY <1>1, <1>5, <1>6

LEMMA AtFirst ==
    ASSUME NEW s \in Bytes, NEW t \in Bytes
    PROVE  At(s \o t, 1, s) /\ At(s, 1, s)
<1>1. At(s \o t, 1, s)
  BY DEF At, Bytes
<1> QED
  BY <1>1 DEF At, Bytes

LEMMA AtWithin ==
    ASSUME NEW s \in Bytes, NEW t \in Bytes, NEW u \in Bytes, At(s, 1, t), At(t, 1, u)
    PROVE  At(s, 1, u)
<1>1. PICK m \in Nat, n \in Nat, k \in Nat : m = Len(s) /\ n = Len(t) /\ k = Len(u)
  BY DEF Bytes
<1>2. /\ n <= m /\ k <= n
      /\ \A i \in 1..n : s[i] = t[i]
      /\ \A i \in 1..k : t[i] = u[i]
  BY <1>1 DEF At
<1>3. \A i \in 1..k : s[i] = u[i]
  BY <1>2
<1> QED
  BY <1>1, <1>2, <1>3 DEF At

LEMMA AtSlice ==
    ASSUME NEW data \in Bytes, NEW pos \in Nat \ {0}, NEW s \in Bytes, At(data, pos, s)
    PROVE  SubSeq(data, pos, pos + Len(s) - 1) = s
<1>1. PICK n \in Nat, d \in Nat : n = Len(s) /\ d = Len(data)
  BY DEF Bytes
<1>2. pos + n - 1 <= d /\ \A i \in 1..n : data[pos + i - 1] = s[i]
  BY <1>1 DEF At
<1>3. PICK u : u = SubSeq(data, pos, pos + n - 1)
  OBVIOUS
<1>4. /\ u \in Seq(Byte) /\ Len(u) = n
      /\ \A i \in 1..n : u[i] = data[pos + i - 1]
  BY <1>1, <1>2, <1>3 DEF Bytes
<1>5. u = s
  BY <1>1, <1>2, <1>4 DEF Bytes
<1> QED
  BY <1>1, <1>3, <1>5

-----------------------------------------------------------------------------
(* TLVs.                                                                   *)

\* A length that was written reads as it was.
LEMMA ReadLengthWritten ==
    ASSUME NEW data \in Bytes, NEW pos \in Nat \ {0}, NEW len \in Nat, IsUsize(len),
           At(data, pos, write_length(len))
    PROVE  read_length(data, pos) = {<<len, pos + Len(write_length(len))>>}
<1>1. PICK d \in Nat : d = Len(data)
  BY DEF Bytes
<1>2. CASE len < 128
  <2>1. write_length(len) = <<len>>
    BY <1>2 DEF write_length
  <2>2. pos <= d /\ data[pos] = len
    BY <1>1, <2>1 DEF At
  <2> QED
    BY <1>1, <1>2, <2>1, <2>2 DEF read_length
<1>3. CASE len >= 128
  <2>1. PICK m \in 1..LEN_BYTES : /\ write_length(len) = <<128 + m>> \o BigEndian(len, m)
                                  /\ High(len, m) = 0
    BY <1>3, WriteLengthIs
  <2>2. PICK sig : sig = BigEndian(len, m)
    OBVIOUS
  <2>3. m \in Nat /\ m <= LEN_BYTES /\ len \in Int /\ 128 + m \in Byte
    BY LenBytes DEF Byte
  <2>4. sig \in Bytes /\ Len(sig) = m /\ Value(sig, 0) = len
    BY <2>1, <2>2, <2>3, BigEndianIs, BigEndianValue
  <2>5. PICK head \in Bytes : head = <<128 + m>> /\ Len(head) = 1 /\ head[1] = 128 + m
    <3>1. <<128 + m>> \in Bytes
      BY <2>3 DEF Bytes
    <3> QED
      BY <3>1
  <2>6. write_length(len) = head \o sig /\ Len(head \o sig) = m + 1
    BY <2>1, <2>2, <2>4, <2>5 DEF Bytes
  <2>7. At(data, pos, head) /\ At(data, pos + 1, sig)
    <3>1. At(data, pos, head \o sig)
      BY <2>6
    <3>2. At(data, pos, head) /\ At(data, pos + Len(head), sig)
      BY <2>4, <3>1, AtCat
    <3> QED
      BY <2>5, <3>2
  <2>8. data[pos] = 128 + m /\ pos + m <= d
    BY <1>1, <2>3, <2>4, <2>5, <2>7 DEF At
  <2>9. SubSeq(data, pos + 1, pos + m) = sig
    <3>1. pos + 1 \in Nat \ {0} /\ (pos + 1) + m - 1 = pos + m
      BY <2>3
    <3> QED
      BY <2>4, <2>7, <3>1, AtSlice
  <2>10. /\ ~(pos > Len(data)) /\ ~(data[pos] < 128) /\ data[pos] - 128 = m
         /\ ~(m = 0 \/ m > LEN_BYTES \/ pos + m > Len(data))
    BY <1>1, <2>3, <2>8, LenBytes
  <2>11. read_length(data, pos) = {<<Value(SubSeq(data, pos + 1, pos + m), 0), pos + m + 1>>}
    BY <2>10 DEF read_length
  <2>12. pos + m + 1 = pos + Len(write_length(len))
    BY <2>3, <2>6
  <2> QED
    BY <2>4, <2>9, <2>11, <2>12
<1> QED
  BY <1>2, <1>3

\* A length of which the end is missing does not read.
LEMMA ReadLengthCut ==
    ASSUME NEW data \in Bytes, NEW pos \in Nat \ {0}, NEW len \in Nat,
           Len(data) < pos + Len(write_length(len)) - 1,
           pos <= Len(data) => data[pos] = write_length(len)[1]
    PROVE  read_length(data, pos) = {}
<1>1. PICK d \in Nat : d = Len(data)
  BY DEF Bytes
<1>2. CASE d < pos
  BY <1>1, <1>2 DEF read_length
<1>3. CASE d >= pos
  <2>1. len >= 128
    <3>1. CASE len < 128
      <4>1. write_length(len) = <<len>>
        BY <3>1 DEF write_length
      <4> QED
        BY <1>1, <1>3, <4>1
    <3> QED
      BY <3>1
  <2>2. PICK m \in 1..LEN_BYTES : write_length(len) = <<128 + m>> \o BigEndian(len, m)
    BY <2>1, WriteLengthIs
  <2>3. PICK sig : sig = BigEndian(len, m)
    OBVIOUS
  <2>4. m \in Nat /\ m <= LEN_BYTES /\ len \in Int /\ 128 + m \in Nat
    BY LenBytes
  <2>5. sig \in Seq(Byte) /\ Len(sig) = m
    BY <2>3, <2>4, BigEndianIs DEF Bytes
  <2>6. PICK wl : wl = write_length(len)
    OBVIOUS
  <2>7. wl = <<128 + m>> \o sig
    BY <2>2, <2>3, <2>6
  <2>8. Len(wl) = m + 1 /\ wl[1] = 128 + m
    <3>1. sig \in Seq(Nat)
      BY <2>5 DEF Byte
    <3> QED
      BY <2>4, <2>5, <2>7, <3>1
  <2>9. data[pos] = 128 + m /\ d < pos + m
    BY <1>1, <1>3, <2>4, <2>6, <2>8
  <2>10. /\ ~(pos > Len(data)) /\ ~(data[pos] < 128) /\ data[pos] - 128 = m
         /\ pos + m > Len(data)
    BY <1>1, <1>3, <2>4, <2>9
  <2> QED
    BY <2>10 DEF read_length
<1> QED
  BY <1>1, <1>2, <1>3

\* What a length reads as, whatever the bytes are.
LEMMA ReadLengthIs ==
    ASSUME NEW data \in Bytes, NEW pos \in Nat \ {0}, NEW l \in read_length(data, pos)
    PROVE  \E len \in Nat, next \in Nat :
              /\ l = <<len, next>> /\ pos < next /\ next <= Len(data) + 1
              /\ \A other \in Bytes :
                    /\ next - 1 <= Len(other)
                    /\ \A i \in 1..(next - 1) : other[i] = data[i]
                    => l \in read_length(other, pos)
<1>1. PICK d \in Nat : d = Len(data)
  BY DEF Bytes
<1>2. pos <= d
  BY <1>1 DEF read_length
<1>3. PICK h \in Nat : h = data[pos]
  BY <1>1, <1>2 DEF Bytes, Byte
<1>4. CASE h < 128
  <2>1. l = <<h, pos + 1>>
    BY <1>1, <1>2, <1>3, <1>4 DEF read_length
  <2>2. ASSUME NEW other \in Bytes, (pos + 1) - 1 <= Len(other),
               \A i \in 1..((pos + 1) - 1) : other[i] = data[i]
        PROVE  l \in read_length(other, pos)
    <3>1. PICK k \in Nat : k = Len(other)
      BY DEF Bytes
    <3>2. other[pos] = h /\ ~(pos > k)
      BY <1>3, <2>2, <3>1
    <3> QED
      BY <1>4, <2>1, <3>1, <3>2 DEF read_length
  <2>3. pos + 1 \in Nat /\ pos < pos + 1 /\ pos + 1 <= d + 1
    BY <1>2
  <2> QED
    BY <1>1, <2>1, <2>2, <2>3
<1>5. CASE h >= 128
  <2>1. PICK n \in Nat : n = h - 128
    BY <1>5
  <2>2. /\ ~(n = 0 \/ n > LEN_BYTES) /\ pos + n <= d
        /\ l = <<Value(SubSeq(data, pos + 1, pos + n), 0), pos + n + 1>>
    BY <1>1, <1>2, <1>3, <1>5, <2>1 DEF read_length
  <2>3. PICK b : b = SubSeq(data, pos + 1, pos + n)
    OBVIOUS
  <2>4. b \in Bytes
    BY <1>1, <2>2, <2>3 DEF Bytes
  <2>5. PICK len \in Nat : len = Value(b, 0)
    BY <2>4, ValueNat
  <2>6. l = <<len, pos + n + 1>>
    BY <2>2, <2>3, <2>5
  <2>7. ASSUME NEW other \in Bytes, (pos + n + 1) - 1 <= Len(other),
               \A i \in 1..((pos + n + 1) - 1) : other[i] = data[i]
        PROVE  l \in read_length(other, pos)
    <3>1. PICK k \in Nat : k = Len(other)
      BY DEF Bytes
    <3>2. other[pos] = h /\ ~(pos > k) /\ ~(pos + n > k) /\ pos + n <= k
      BY <1>3, <2>7, <3>1
    <3>3. SubSeq(other, pos + 1, pos + n) = b
      <4>1. PICK c : c = SubSeq(other, pos + 1, pos + n)
        OBVIOUS
      <4>2. /\ c \in Seq(Byte) /\ Len(c) = n
            /\ \A i \in 1..n : c[i] = other[pos + i]
        BY <3>1, <3>2, <4>1 DEF Bytes
      <4>3. /\ b \in Seq(Byte) /\ Len(b) = n
            /\ \A i \in 1..n : b[i] = data[pos + i]
        BY <1>1, <2>2, <2>3 DEF Bytes
      <4>4. \A i \in 1..n : other[pos + i] = data[pos + i]
        BY <2>7
      <4>5. \A i \in 1..n : c[i] = b[i]
        BY <4>2, <4>3, <4>4
      <4>6. c = b
        BY <4>2, <4>3, <4>5
      <4> QED
        BY <4>1, <4>6
    <3>4. read_length(other, pos) = {<<Value(SubSeq(other, pos + 1, pos + n), 0), pos + n + 1>>}
      BY <1>5, <2>1, <2>2, <3>1, <3>2 DEF read_length
    <3> QED
      BY <2>5, <2>6, <3>3, <3>4
  <2>8. pos + n + 1 \in Nat /\ pos < pos + n + 1 /\ pos + n + 1 <= d + 1
    BY <2>2
  <2> QED
    BY <1>1, <2>6, <2>7, <2>8
<1> QED
  BY <1>4, <1>5

\* A TLV, as the reader returns it.
Tlv == [content : Bytes, raw : Bytes, pos : Nat \ {0}]

LEMMA WriteTlvBytes ==
    ASSUME NEW tag \in Byte, NEW content \in Bytes
    PROVE  /\ write_tlv(tag, content) \in Bytes
           /\ Len(content) < Len(write_tlv(tag, content))
           /\ write_tlv(tag, content)[1] = tag
           /\ Len(content) \in Nat /\ Len(write_tlv(tag, content)) \in Nat
<1>1. PICK n \in Nat : n = Len(content)
  BY DEF Bytes
<1>2. PICK wl \in Bytes : wl = write_length(n) /\ Len(wl) >= 1
  BY WriteLengthBytes
<1>3. write_tlv(tag, content) = <<tag>> \o wl \o content
  BY <1>1, <1>2 DEF write_tlv
<1> QED
  BY <1>1, <1>2, <1>3 DEF Bytes

\* A TLV that was written reads as it was.
LEMMA ReadWritten ==
    ASSUME NEW data \in Bytes, NEW pos \in Nat \ {0}, NEW tag \in Byte, NEW content \in Bytes,
           At(data, pos, write_tlv(tag, content)), IsUsize(Len(content))
    PROVE  read_tlv(data, pos, tag) =
              {[content |-> content, raw |-> write_tlv(tag, content),
                pos |-> pos + Len(write_tlv(tag, content))]}
<1>1. PICK n \in Nat, d \in Nat : n = Len(content) /\ d = Len(data)
  BY DEF Bytes
<1>2. PICK wl \in Bytes : wl = write_length(n) /\ Len(wl) >= 1
  BY WriteLengthBytes
<1>3. PICK head \in Bytes : head = <<tag>> /\ Len(head) = 1 /\ head[1] = tag
  <2>1. <<tag>> \in Bytes
    BY DEF Bytes
  <2> QED
    BY <2>1
<1>4. PICK w \in Bytes : w = write_tlv(tag, content)
  BY WriteTlvBytes
<1>5. w = (head \o wl) \o content
  BY <1>1, <1>2, <1>3, <1>4 DEF write_tlv
<1>6. PICK k \in Nat : k = Len(wl) /\ k >= 1
  BY <1>2 DEF Bytes
<1>7. head \o wl \in Bytes /\ Len(head \o wl) = k + 1 /\ Len(w) = k + 1 + n
  BY <1>1, <1>3, <1>5, <1>6 DEF Bytes
<1>8. At(data, pos, head \o wl) /\ At(data, pos + (k + 1), content)
  <2>1. At(data, pos, (head \o wl) \o content)
    BY <1>4, <1>5
  <2>2. At(data, pos, head \o wl) /\ At(data, pos + Len(head \o wl), content)
    BY <1>7, <2>1, AtCat
  <2> QED
    BY <1>7, <2>2
<1>9. At(data, pos, head) /\ At(data, pos + 1, wl)
  <2>1. At(data, pos, head) /\ At(data, pos + Len(head), wl)
    BY <1>8, AtCat
  <2> QED
    BY <1>3, <2>1
<1>10. pos <= d /\ data[pos] = tag
  BY <1>1, <1>3, <1>9 DEF At
<1>11. read_length(data, pos + 1) = {<<n, pos + 1 + k>>}
  <2>1. PICK p \in Nat \ {0} : p = pos + 1
    OBVIOUS
  <2>2. IsUsize(n) /\ At(data, p, write_length(n))
    BY <1>1, <1>2, <1>9, <2>1
  <2>3. read_length(data, p) = {<<n, p + Len(write_length(n))>>}
    BY <2>2, ReadLengthWritten
  <2> QED
    BY <1>2, <1>6, <2>1, <2>3
<1>12. SubSeq(data, pos + 1 + k, pos + 1 + k + n - 1) = content /\ pos + 1 + k + n - 1 <= d
  <2>1. PICK p \in Nat \ {0} : p = pos + 1 + k /\ p = pos + (k + 1)
    OBVIOUS
  <2>2. SubSeq(data, p, p + n - 1) = content
    BY <1>1, <1>8, <2>1, AtSlice
  <2>3. p + n - 1 <= d
    BY <1>1, <1>8, <2>1 DEF At
  <2> QED
    BY <2>1, <2>2, <2>3
<1>13. SubSeq(data, pos, pos + 1 + k + n - 1) = w
  <2>1. pos + Len(w) - 1 = pos + 1 + k + n - 1
    BY <1>7
  <2>2. SubSeq(data, pos, pos + Len(w) - 1) = w
    BY <1>4, AtSlice
  <2> QED
    BY <2>1, <2>2
<1>14. PICK l : l = <<n, pos + 1 + k>> /\ l[1] = n /\ l[2] = pos + 1 + k
  <2> DEFINE x == <<n, pos + 1 + k>>
  <2>1. x = <<n, pos + 1 + k>> /\ x[1] = n /\ x[2] = pos + 1 + k
    OBVIOUS
  <2> HIDE DEF x
  <2> QED
    BY <2>1
<1>15. {x \in read_length(data, pos + 1) : x[2] + x[1] - 1 <= Len(data)} = {l}
  BY <1>1, <1>11, <1>12, <1>14
<1>16. read_tlv(data, pos, tag) =
          {[content |-> SubSeq(data, l[2], l[2] + l[1] - 1),
            raw |-> SubSeq(data, pos, l[2] + l[1] - 1), pos |-> l[2] + l[1]]}
  BY <1>1, <1>10, <1>15 DEF read_tlv
<1>17. l[2] + l[1] = pos + Len(w)
  BY <1>7, <1>14
<1> QED
  BY <1>4, <1>12, <1>13, <1>14, <1>16, <1>17

\* A TLV of which the end is missing does not read.
LEMMA ReadCut ==
    ASSUME NEW tag \in Byte, NEW content \in Bytes, IsUsize(Len(content)),
           NEW n \in 0..(Len(write_tlv(tag, content)) - 1)
    PROVE  read_tlv(SubSeq(write_tlv(tag, content), 1, n), 1, tag) = {}
<1>1. PICK c \in Nat : c = Len(content)
  BY DEF Bytes
<1>2. PICK wl \in Bytes : wl = write_length(c) /\ Len(wl) >= 1
  BY WriteLengthBytes
<1>3. PICK k \in Nat : k = Len(wl) /\ k >= 1
  BY <1>2 DEF Bytes
<1>4. PICK w \in Bytes : w = write_tlv(tag, content)
  BY WriteTlvBytes
<1>5. w = (<<tag>> \o wl) \o content
  BY <1>1, <1>2, <1>4 DEF write_tlv
<1>6. /\ Len(w) = k + 1 + c /\ w[1] = tag
      /\ \A i \in 1..k : w[1 + i] = wl[i]
  BY <1>1, <1>3, <1>5 DEF Bytes
<1>7. PICK data : data = SubSeq(w, 1, n)
  OBVIOUS
<1>8. n \in 0..(k + c)
  BY <1>4, <1>6
<1>9. data \in Bytes /\ Len(data) = n /\ \A i \in 1..n : data[i] = w[i]
  BY <1>6, <1>7, <1>8 DEF Bytes
<1>10. CASE n = 0
  BY <1>4, <1>7, <1>9, <1>10 DEF read_tlv
<1>11. CASE n > 0 /\ n < k + 1
  <2>1. read_length(data, 2) = {}
    <3>1. Len(data) < 2 + Len(write_length(c)) - 1
      BY <1>2, <1>3, <1>8, <1>9, <1>11
    <3>2. 2 <= Len(data) => data[2] = write_length(c)[1]
      BY <1>2, <1>3, <1>6, <1>8, <1>9
    <3> QED
      BY <1>9, <3>1, <3>2, ReadLengthCut
  <2>2. read_tlv(data, 1, tag) = {}
    BY <2>1 DEF read_tlv
  <2> QED
    BY <1>4, <1>7, <2>2
<1>12. CASE n >= k + 1
  <2>1. At(data, 2, write_length(c))
    <3>1. ASSUME NEW i \in 1..k PROVE data[2 + i - 1] = wl[i]
      BY <1>6, <1>8, <1>9, <1>12
    <3> QED
      BY <1>2, <1>3, <1>8, <1>9, <1>12, <3>1 DEF At
  <2>2. read_length(data, 2) = {<<c, 2 + k>>}
    <3>1. IsUsize(c)
      BY <1>1
    <3>2. read_length(data, 2) = {<<c, 2 + Len(write_length(c))>>}
      BY <1>9, <2>1, <3>1, ReadLengthWritten
    <3> QED
      BY <1>2, <1>3, <3>2
  <2>3. {x \in read_length(data, 2) : x[2] + x[1] - 1 <= Len(data)} = {}
    <3>1. ASSUME NEW x \in read_length(data, 2) PROVE ~(x[2] + x[1] - 1 <= Len(data))
      <4>1. x[1] = c /\ x[2] = 2 + k
        BY <2>2
      <4> QED
        BY <1>8, <1>9, <4>1
    <3> QED
      BY <3>1
  <2>4. read_tlv(data, 1, tag) = {}
    BY <2>3 DEF read_tlv
  <2> QED
    BY <1>4, <1>7, <2>4
<1> QED
  BY <1>8, <1>10, <1>11, <1>12

\* What a TLV reads as, whatever the bytes are: a slice, and the same slice of
\* every string that begins as this one.
LEMMA ReadTlvIs ==
    ASSUME NEW data \in Bytes, NEW pos \in Nat \ {0}, NEW tag, NEW r \in read_tlv(data, pos, tag)
    PROVE  /\ r \in Tlv
           /\ pos < r.pos /\ r.pos <= Len(data) + 1
           /\ r.raw = SubSeq(data, pos, r.pos - 1)
           /\ \A other \in Bytes :
                 /\ r.pos - 1 <= Len(other)
                 /\ \A i \in 1..(r.pos - 1) : other[i] = data[i]
                 => r \in read_tlv(other, pos, tag)
<1>1. PICK d \in Nat : d = Len(data)
  BY DEF Bytes
<1>2. pos <= d /\ data[pos] = tag
  BY <1>1 DEF read_tlv
<1>3. PICK l \in read_length(data, pos + 1) :
          /\ l[2] + l[1] - 1 <= d
          /\ r = [content |-> SubSeq(data, l[2], l[2] + l[1] - 1),
                  raw |-> SubSeq(data, pos, l[2] + l[1] - 1), pos |-> l[2] + l[1]]
  BY <1>1, <1>2 DEF read_tlv
<1>4. PICK p \in Nat \ {0} : p = pos + 1
  OBVIOUS
<1>5. PICK len \in Nat, next \in Nat :
          /\ l = <<len, next>> /\ p < next /\ next <= Len(data) + 1
          /\ \A other \in Bytes :
                /\ next - 1 <= Len(other)
                /\ \A i \in 1..(next - 1) : other[i] = data[i]
                => l \in read_length(other, p)
  BY <1>3, <1>4, ReadLengthIs
<1>6. l[1] = len /\ l[2] = next
  BY <1>5
<1>7. PICK e \in Nat : e = next + len - 1 /\ e <= d /\ e + 1 = next + len
  BY <1>3, <1>4, <1>5, <1>6
<1>8. r = [content |-> SubSeq(data, next, e), raw |-> SubSeq(data, pos, e), pos |-> e + 1]
  BY <1>3, <1>6, <1>7
<1>9. SubSeq(data, next, e) \in Bytes /\ SubSeq(data, pos, e) \in Bytes
  BY <1>1, <1>4, <1>5, <1>7 DEF Bytes
<1>10. r \in Tlv
  BY <1>8, <1>9 DEF Tlv
<1>11. pos < e + 1 /\ e + 1 <= d + 1 /\ (e + 1) - 1 = e
  BY <1>4, <1>5, <1>7
<1>12. ASSUME NEW other \in Bytes, e <= Len(other), \A i \in 1..e : other[i] = data[i]
       PROVE  r \in read_tlv(other, pos, tag)
  <2>1. PICK o \in Nat : o = Len(other)
    BY DEF Bytes
  <2>2. l \in read_length(other, p)
    <3>1. next - 1 <= Len(other)
      BY <1>5, <1>7, <1>12, <2>1
    <3>2. \A i \in 1..(next - 1) : other[i] = data[i]
      BY <1>7, <1>12
    <3> QED
      BY <1>5, <3>1, <3>2
  <2>3. ASSUME NEW a \in Nat \ {0}, a <= e + 1
        PROVE  SubSeq(other, a, e) = SubSeq(data, a, e)
    <3>1. PICK u, t : u = SubSeq(other, a, e) /\ t = SubSeq(data, a, e)
      OBVIOUS
    <3>2. /\ u \in Seq(Byte) /\ Len(u) = e - a + 1
          /\ \A i \in 1..(e - a + 1) : u[i] = other[a + i - 1]
      BY <1>12, <2>1, <2>3, <3>1 DEF Bytes
    <3>3. /\ t \in Seq(Byte) /\ Len(t) = e - a + 1
          /\ \A i \in 1..(e - a + 1) : t[i] = data[a + i - 1]
      BY <1>1, <1>7, <2>3, <3>1 DEF Bytes
    <3>4. \A i \in 1..(e - a + 1) : u[i] = t[i]
      <4>1. ASSUME NEW i \in 1..(e - a + 1) PROVE other[a + i - 1] = data[a + i - 1]
        BY <1>12
      <4> QED
        BY <3>2, <3>3, <4>1
    <3>5. u = t
      BY <3>2, <3>3, <3>4
    <3> QED
      BY <3>1, <3>5
  <2>4. SubSeq(other, next, e) = SubSeq(data, next, e) /\ SubSeq(other, pos, e) = SubSeq(data, pos, e)
    BY <1>4, <1>5, <1>7, <2>3
  <2>5. ~(pos > Len(other)) /\ other[pos] = tag
    BY <1>2, <1>11, <1>12, <2>1
  <2>6. l \in {x \in read_length(other, pos + 1) : x[2] + x[1] - 1 <= Len(other)}
    BY <1>4, <1>6, <1>7, <1>12, <2>1, <2>2
  <2>7. [content |-> SubSeq(other, l[2], l[2] + l[1] - 1),
         raw |-> SubSeq(other, pos, l[2] + l[1] - 1), pos |-> l[2] + l[1]] = r
    BY <1>6, <1>7, <1>8, <2>4
  <2> QED
    BY <2>5, <2>6, <2>7 DEF read_tlv
<1> QED
  BY <1>1, <1>8, <1>10, <1>11, <1>12

-----------------------------------------------------------------------------
(* Concatenation.                                                          *)

\* out[k] is the concatenation of the first k parts.
Cumulates(out, parts) ==
    /\ out[0] = <<>>
    /\ \A i \in 0..Len(parts) : out[i] \in Bytes /\ Len(out[i]) \in Nat
    /\ \A i \in 0..(Len(parts) - 1) : out[i + 1] = out[i] \o parts[i + 1]
    /\ Concat(parts) = out[Len(parts)]

LEMMA ConcatIs ==
    ASSUME NEW parts \in Seq(Bytes)
    PROVE  \E out : Cumulates(out, parts)
<1>1. PICK n \in Nat : n = Len(parts)
  OBVIOUS
<1>2. \A i \in 1..n : parts[i] \in Bytes
  BY <1>1
<1> DEFINE G == [i \in Nat |-> [x \in Bytes |-> IF i \in 1..n THEN x \o parts[i] ELSE x]]
<1>3. <<>> \in Bytes /\ \A x, y \in Bytes : x \o y \in Bytes
  BY DEF Bytes
<1>4. PICK f : Begins(f, n, Bytes, <<>>, G)
  <2>1. G \in [Nat -> [Bytes -> Bytes]]
    BY <1>2, <1>3
  <2> HIDE DEF G
  <2> QED
    BY <1>3, <2>1, Beginnings
<1>5. /\ f \in [0..n -> Bytes] /\ f[0] = <<>>
      /\ \A i \in 0..(n - 1) : f[i + 1] = f[i] \o parts[i + 1]
  <2>1. /\ f \in [0..n -> Bytes] /\ f[0] = <<>>
        /\ \A i \in 0..(n - 1) : f[i + 1] = G[i + 1][f[i]]
    BY <1>4 DEF Begins
  <2>2. ASSUME NEW i \in 0..(n - 1) PROVE f[i + 1] = f[i] \o parts[i + 1]
    <3>1. i + 1 \in Nat /\ i + 1 \in 1..n /\ i \in 0..n
      OBVIOUS
    <3>2. PICK x \in Bytes : x = f[i]
      BY <2>1, <3>1
    <3>3. G[i + 1][x] = x \o parts[i + 1]
      BY <3>1
    <3> HIDE DEF G
    <3> QED
      BY <2>1, <3>2, <3>3
  <2> QED
    BY <2>1, <2>2
<1>6. f = [i \in 0..n |-> IF i = 0 THEN <<>> ELSE f[i - 1] \o parts[i]]
  <2>1. ASSUME NEW i \in 0..n PROVE f[i] = IF i = 0 THEN <<>> ELSE f[i - 1] \o parts[i]
    <3>1. CASE i # 0
      <4>1. PICK j \in 0..(n - 1) : j = i - 1 /\ i = j + 1
        BY <3>1
      <4> QED
        BY <1>5, <3>1, <4>1
    <3> QED
      BY <1>5, <3>1
  <2> QED
    BY <1>5, <2>1
<1> DEFINE h == CHOOSE g : g = [i \in 0..n |-> IF i = 0 THEN <<>> ELSE g[i - 1] \o parts[i]]
<1>7. h = [i \in 0..n |-> IF i = 0 THEN <<>> ELSE h[i - 1] \o parts[i]]
  BY <1>6
<1>8. Concat(parts) = h[n]
  BY <1>1 DEF Concat
<1> HIDE DEF h
<1>9. h[0] = <<>> /\ \A i \in 0..(n - 1) : h[i + 1] = h[i] \o parts[i + 1]
  BY <1>7
<1> DEFINE S == {k \in Nat : k <= n => h[k] \in Bytes}
<1>10. \A i \in Nat : i \in S
  <2>1. 0 \in S
    BY <1>3, <1>9
  <2>2. ASSUME NEW k \in Nat, k \in S PROVE k + 1 \in S
    <3>1. CASE k + 1 <= n
      <4>1. k \in 0..(n - 1) /\ k + 1 \in 1..n /\ h[k] \in Bytes
        BY <2>2, <3>1
      <4>2. h[k + 1] = h[k] \o parts[k + 1] /\ parts[k + 1] \in Bytes
        BY <1>2, <1>9, <4>1
      <4>3. h[k + 1] \in Bytes
        BY <1>3, <4>1, <4>2, Zenon
      <4> QED
        BY <4>3
    <3> QED
      BY <3>1
  <2> HIDE DEF S
  <2> QED
    BY <2>1, <2>2, Induction
<1>11. \A i \in 0..n : h[i] \in Bytes
  BY <1>10
<1>12. \A i \in 0..n : Len(h[i]) \in Nat
  BY <1>11 DEF Bytes
<1>13. Cumulates(h, parts)
  BY <1>1, <1>8, <1>9, <1>11, <1>12 DEF Cumulates
<1> QED
  BY <1>13

LEMMA ConcatBytes ==
    ASSUME NEW parts \in Seq(Bytes)
    PROVE  Concat(parts) \in Bytes
<1>1. PICK out : Cumulates(out, parts)
  BY ConcatIs
<1>2. Len(parts) \in 0..Len(parts)
  OBVIOUS
<1> QED
  BY <1>1, <1>2 DEF Cumulates

\* The parts follow one another in the whole.
LEMMA PartsAt ==
    ASSUME NEW parts \in Seq(Bytes), NEW out, Cumulates(out, parts), NEW k \in 1..Len(parts)
    PROVE  /\ At(Concat(parts), Len(out[k - 1]) + 1, parts[k])
           /\ Len(out[k]) = Len(out[k - 1]) + Len(parts[k])
           /\ Len(out[k]) <= Len(Concat(parts))
           /\ Len(parts[k]) \in Nat /\ Len(parts[k]) <= Len(Concat(parts))
<1>1. PICK n \in Nat : n = Len(parts)
  OBVIOUS
<1>2. /\ out[0] = <<>>
      /\ \A i \in 0..n : out[i] \in Bytes
      /\ \A i \in 0..(n - 1) : out[i + 1] = out[i] \o parts[i + 1]
      /\ Concat(parts) = out[n]
  BY <1>1 DEF Cumulates
<1> DEFINE S == {d \in Nat : k + d <= n => At(out[k + d], 1, out[k])}
<1>3. \A d \in Nat : d \in S
  <2>1. 0 \in S
    <3>1. At(out[k], 1, out[k])
      BY <1>1, <1>2, AtFirst
    <3> QED
      BY <3>1
  <2>2. ASSUME NEW d \in Nat, d \in S PROVE d + 1 \in S
    <3>1. CASE k + (d + 1) <= n
      <4>1. PICK j \in 0..(n - 1) : j = k + d /\ j + 1 = k + (d + 1)
        BY <3>1
      <4>2. At(out[j], 1, out[k])
        BY <2>2, <4>1
      <4>3. /\ out[j + 1] = out[j] \o parts[j + 1]
            /\ out[j] \in Bytes /\ out[j + 1] \in Bytes /\ parts[j + 1] \in Bytes /\ out[k] \in Bytes
        <5>1. j \in 0..n /\ j + 1 \in 0..n /\ j + 1 \in 1..n /\ k \in 0..n
          BY <1>1
        <5>2. parts[j + 1] \in Bytes
          BY <1>1, <5>1
        <5> QED
          BY <1>2, <5>1, <5>2
      <4>4. At(out[j + 1], 1, out[j])
        BY <4>3, AtFirst
      <4>5. At(out[j + 1], 1, out[k])
        BY <4>2, <4>3, <4>4, AtWithin
      <4> QED
        BY <4>1, <4>5
    <3> QED
      BY <3>1
  <2> HIDE DEF S
  <2> QED
    BY <2>1, <2>2, Induction
<1>4. At(Concat(parts), 1, out[k])
  <2>1. n - k \in Nat /\ k + (n - k) = n
    BY <1>1
  <2>2. n - k \in S
    BY <1>3, <2>1
  <2> QED
    BY <1>2, <2>1, <2>2
<1>5. PICK s \in Bytes, t \in Bytes, w \in Bytes : s = out[k - 1] /\ t = parts[k] /\ w = Concat(parts)
  BY <1>1, <1>2
<1>6. out[k] = s \o t
  <2>1. PICK j \in 0..(n - 1) : j = k - 1 /\ j + 1 = k
    BY <1>1
  <2> QED
    BY <1>2, <1>5, <2>1
<1>7. At(w, 1 + Len(s), t)
  <2>1. At(w, 1, s \o t)
    BY <1>4, <1>5, <1>6
  <2> QED
    BY <2>1, AtCat
<1>8. Len(s) \in Nat /\ Len(t) \in Nat /\ Len(s \o t) = Len(s) + Len(t) /\ Len(w) \in Nat
  BY DEF Bytes
<1>9. Len(s \o t) <= Len(w)
  <2>1. PICK u \in Bytes : u = s \o t
    <3>1. s \o t \in Bytes
      BY DEF Bytes
    <3> QED
      BY <3>1
  <2>2. At(w, 1, u)
    BY <1>4, <1>5, <1>6, <2>1
  <2>3. 1 + Len(u) - 1 <= Len(w) /\ Len(u) \in Nat
    BY <2>2 DEF At, Bytes
  <2> QED
    BY <1>8, <2>1, <2>3
<1>10. At(w, Len(s) + 1, t)
  <2>1. 1 + Len(s) = Len(s) + 1
    BY <1>8
  <2> QED
    BY <1>7, <2>1
<1>11. Len(out[k]) = Len(s) + Len(t) /\ Len(out[k]) <= Len(w) /\ Len(t) <= Len(w)
  BY <1>6, <1>8, <1>9
<1> QED
  BY <1>5, <1>8, <1>10, <1>11

-----------------------------------------------------------------------------
(* Lists of TLVs.                                                          *)

\* A turn of read_all's loop.
AllTurn(data, tag, r) ==
    IF r.pos > Len(data) THEN {r}
    ELSE {[list |-> Append(r.list, f.content), pos |-> f.pos] : f \in read_tlv(data, r.pos, tag)}

Turns(s, data, tag) ==
    /\ s[0] = {[list |-> <<>>, pos |-> 1]}
    /\ \A i \in 0..(Len(data) - 1) : s[i + 1] = UNION {AllTurn(data, tag, r) : r \in s[i]}
    /\ read_all(data, tag) = {r.list : r \in s[Len(data)]}

LEMMA ReadAllIs ==
    ASSUME NEW data \in Bytes, NEW tag
    PROVE  \E s : Turns(s, data, tag)
<1>1. PICK n \in Nat : n = Len(data)
  BY DEF Bytes
<1> DEFINE Lists == [list : Seq(Bytes), pos : Nat \ {0}]
           D == SUBSET Lists
           Step(x) == UNION {AllTurn(data, tag, r) : r \in x}
           G == [i \in Nat |-> [x \in D |-> Step(x)]]
           base == {[list |-> <<>>, pos |-> 1]}
<1>2. base \in D
  OBVIOUS
<1>3. ASSUME NEW r \in Lists PROVE AllTurn(data, tag, r) \in D
  <2>1. r.pos \in Nat \ {0} /\ r.list \in Seq(Bytes)
    OBVIOUS
  <2>2. ASSUME NEW f \in read_tlv(data, r.pos, tag)
        PROVE  [list |-> Append(r.list, f.content), pos |-> f.pos] \in Lists
    <3>1. f \in Tlv
      BY <2>1, ReadTlvIs
    <3>2. f.content \in Bytes /\ f.pos \in Nat \ {0}
      BY <3>1 DEF Tlv
    <3> QED
      BY <2>1, <3>2
  <2> QED
    BY <2>2 DEF AllTurn
<1>4. \A x \in D : Step(x) \in D
  <2> HIDE DEF Lists
  <2> QED
    BY <1>3
<1>5. PICK f : Begins(f, n, D, base, G)
  <2>1. G \in [Nat -> [D -> D]]
    <3> HIDE DEF D, Step
    <3> QED
      BY <1>4
  <2> HIDE DEF G, D, base
  <2> QED
    BY <1>2, <2>1, Beginnings
<1> HIDE DEF D, base
<1>6. /\ f \in [0..n -> D] /\ f[0] = base
      /\ \A i \in 0..(n - 1) : f[i + 1] = Step(f[i])
  <2>1. /\ f \in [0..n -> D] /\ f[0] = base
        /\ \A i \in 0..(n - 1) : f[i + 1] = G[i + 1][f[i]]
    <3> HIDE DEF G
    <3> QED
      BY <1>5 DEF Begins
  <2>2. ASSUME NEW i \in 0..(n - 1) PROVE f[i + 1] = Step(f[i])
    <3> HIDE DEF Step
    <3>1. i + 1 \in Nat /\ i \in 0..n
      OBVIOUS
    <3>2. PICK x \in D : x = f[i]
      BY <2>1, <3>1
    <3>3. G[i + 1][x] = Step(x)
      BY <3>1
    <3> HIDE DEF G
    <3> QED
      BY <2>1, <3>2, <3>3
  <2> HIDE DEF Step
  <2> QED
    BY <2>1, <2>2
<1>7. f = [i \in 0..n |-> IF i = 0 THEN base ELSE Step(f[i - 1])]
  <2> HIDE DEF Step
  <2>1. ASSUME NEW i \in 0..n PROVE f[i] = IF i = 0 THEN base ELSE Step(f[i - 1])
    <3>1. CASE i # 0
      <4>1. PICK j \in 0..(n - 1) : j = i - 1 /\ i = j + 1
        BY <3>1
      <4> QED
        BY <1>6, <3>1, <4>1
    <3> QED
      BY <1>6, <3>1
  <2> QED
    BY <1>6, <2>1
<1> DEFINE h == CHOOSE g : g = [i \in 0..n |-> IF i = 0 THEN base ELSE Step(g[i - 1])]
<1>8. h = [i \in 0..n |-> IF i = 0 THEN base ELSE Step(h[i - 1])]
  <2> HIDE DEF Step
  <2> QED
    BY <1>7
<1>9. read_all(data, tag) = {r.list : r \in h[n]}
  BY <1>1 DEF read_all, AllTurn, base
<1> HIDE DEF h
<1>10. h[0] = base /\ \A i \in 0..(n - 1) : h[i + 1] = Step(h[i])
  <2> HIDE DEF Step
  <2> QED
    BY <1>8
<1>11. Turns(h, data, tag)
  BY <1>1, <1>9, <1>10 DEF Turns, base
<1> QED
  BY <1>11

TlvsOf(parts, tag, list) == parts = [i \in DOMAIN list |-> write_tlv(tag, list[i])]

\* A list of TLVs reads as what was written.
LEMMA ReadAllWritten ==
    ASSUME NEW tag \in Byte, NEW list \in Seq(Bytes), NEW parts,
           TlvsOf(parts, tag, list), IsUsize(Len(Concat(parts)))
    PROVE  /\ Concat(parts) \in Bytes
           /\ read_all(Concat(parts), tag) = {list}
<1>1. PICK n \in Nat : n = Len(list) /\ DOMAIN list = 1..n
  OBVIOUS
<1>2. \A i \in 1..n : list[i] \in Bytes /\ parts[i] = write_tlv(tag, list[i]) /\ parts[i] \in Bytes
  BY <1>1, WriteTlvBytes DEF TlvsOf
<1>3. parts \in Seq(Bytes) /\ Len(parts) = n
  <2>1. parts \in [1..n -> Bytes]
    BY <1>1, <1>2 DEF TlvsOf
  <2> QED
    BY <2>1
<1>4. PICK out : Cumulates(out, parts)
  BY <1>3, ConcatIs
<1>5. PICK data \in Bytes : data = Concat(parts)
  BY <1>3, ConcatBytes
<1>6. PICK s : Turns(s, data, tag)
  BY ReadAllIs
<1>7. PICK d \in Nat : d = Len(data)
  BY DEF Bytes
<1>8. /\ out[0] = <<>>
      /\ \A i \in 0..n : Len(out[i]) \in Nat
      /\ out[n] = data
  BY <1>3, <1>4, <1>5 DEF Cumulates
<1>9. ASSUME NEW k \in 1..n
      PROVE  /\ At(data, Len(out[k - 1]) + 1, parts[k])
             /\ \E a, b, z, q \in Nat :
                   /\ a = Len(out[k - 1]) /\ b = Len(out[k])
                   /\ z = Len(parts[k]) /\ q = Len(list[k])
                   /\ b = a + z /\ b <= d /\ q < z
  <2>1. /\ At(data, Len(out[k - 1]) + 1, parts[k])
        /\ Len(out[k]) = Len(out[k - 1]) + Len(parts[k])
        /\ Len(out[k]) <= d
        /\ Len(parts[k]) \in Nat /\ Len(parts[k]) <= d
    BY <1>3, <1>4, <1>5, <1>7, PartsAt
  <2>2. Len(parts[k]) > Len(list[k]) /\ Len(list[k]) \in Nat
    BY <1>2, WriteTlvBytes
  <2>3. Len(out[k]) \in Nat /\ Len(out[k - 1]) \in Nat
    BY <1>8
  <2> QED
    BY <2>1, <2>2, <2>3
\* The reader's state when it has read the first i elements.
<1> DEFINE Read(i) == [list |-> SubSeq(list, 1, i), pos |-> Len(out[i]) + 1]
           S == {i \in Nat : /\ i <= d
                             => IF i <= n THEN s[i] = {Read(i)} /\ Len(out[i]) >= i
                                ELSE s[i] = {Read(n)}}
<1>10. ASSUME NEW r PROVE UNION {AllTurn(data, tag, x) : x \in {r}} = AllTurn(data, tag, r)
  OBVIOUS
<1>11. AllTurn(data, tag, Read(n)) = {Read(n)}
  <2>1. Read(n).pos > Len(data)
    BY <1>7, <1>8
  <2> HIDE DEF Read
  <2> QED
    BY <2>1 DEF AllTurn
<1>12. ASSUME NEW i \in 0..(n - 1) PROVE AllTurn(data, tag, Read(i)) = {Read(i + 1)}
  <2>1. PICK k \in 1..n : k = i + 1 /\ k - 1 = i
    OBVIOUS
  <2>2. PICK pos \in Nat \ {0} : pos = Len(out[i]) + 1
    BY <1>8
  <2>3. PICK c \in Bytes : c = list[k]
    BY <1>2
  <2>a. PICK a, b, z, q \in Nat :
            /\ a = Len(out[k - 1]) /\ b = Len(out[k])
            /\ z = Len(parts[k]) /\ q = Len(list[k])
            /\ b = a + z /\ b <= d /\ q < z
    BY <1>9
  <2>b. /\ a \in Nat /\ b \in Nat /\ z \in Nat /\ q \in Nat
        /\ b = a + z /\ b <= d /\ q < z
    BY <2>a
  <2>c. Len(c) = q /\ Len(parts[k]) = z /\ Len(out[i + 1]) = b /\ Len(out[i]) = a
    BY <2>1, <2>3, <2>a
  <2>d. pos = a + 1
    BY <2>2, <2>c
  <2>4. At(data, pos, write_tlv(tag, c)) /\ IsUsize(Len(c))
    <3>1. At(data, pos, write_tlv(tag, c))
      BY <1>2, <1>9, <2>1, <2>2, <2>3
    <3>2. Len(c) \in Nat /\ Len(c) <= d
      BY <2>b, <2>c
    <3> QED
      BY <1>5, <1>7, <3>1, <3>2, UsizeInside
  <2>5. read_tlv(data, pos, tag) =
            {[content |-> c, raw |-> write_tlv(tag, c), pos |-> pos + Len(write_tlv(tag, c))]}
    BY <2>4, ReadWritten
  <2>6. pos <= d
    BY <2>b, <2>d
  <2>7. pos + Len(write_tlv(tag, c)) = Len(out[i + 1]) + 1
    <3>1. write_tlv(tag, c) = parts[k]
      BY <1>2, <2>3
    <3>2. pos + z = b + 1
      BY <2>b, <2>d
    <3> QED
      BY <2>c, <3>1, <3>2
  <2>8. Append(SubSeq(list, 1, i), c) = SubSeq(list, 1, i + 1)
    BY <1>1, <2>1, <2>3
  <2>9. Read(i).pos = pos /\ Read(i).list = SubSeq(list, 1, i)
    BY <2>2
  <2> HIDE DEF Read
  <2>10. AllTurn(data, tag, Read(i)) =
            {[list |-> Append(SubSeq(list, 1, i), c), pos |-> pos + Len(write_tlv(tag, c))]}
    <3>1. ~(pos > Len(data))
      BY <1>7, <2>6
    <3>2. AllTurn(data, tag, Read(i)) =
             {[list |-> Append(Read(i).list, f.content), pos |-> f.pos] :
                 f \in read_tlv(data, pos, tag)}
      BY <2>9, <3>1 DEF AllTurn
    <3> QED
      BY <2>5, <2>9, <3>2
  <2> QED
    BY <2>7, <2>8, <2>10 DEF Read
<1>13. \A i \in Nat : i \in S
  <2>1. 0 \in S
    <3>1. Read(0) = [list |-> <<>>, pos |-> 1]
      BY <1>1, <1>8
    <3> HIDE DEF Read
    <3> QED
      BY <1>6, <1>8, <3>1 DEF Turns
  <2>2. ASSUME NEW i \in Nat, i \in S PROVE i + 1 \in S
    <3> HIDE DEF Read
    <3>1. CASE i + 1 <= d
      <4>1. s[i + 1] = UNION {AllTurn(data, tag, r) : r \in s[i]}
        BY <1>6, <1>7, <3>1 DEF Turns
      <4>2. CASE i < n
        <5>1. s[i] = {Read(i)} /\ Len(out[i]) >= i
          BY <2>2, <3>1, <4>2
        <5>2. s[i + 1] = {Read(i + 1)}
          BY <1>10, <1>12, <4>1, <4>2, <5>1
        <5>3. Len(out[i + 1]) >= i + 1
          <6>1. PICK k \in 1..n : k = i + 1 /\ k - 1 = i
            BY <4>2
          <6>2. PICK a, b, z, q \in Nat :
            /\ a = Len(out[k - 1]) /\ b = Len(out[k])
            /\ z = Len(parts[k]) /\ q = Len(list[k])
            /\ b = a + z /\ b <= d /\ q < z
            BY <1>9
          <6>3. /\ a \in Nat /\ b \in Nat /\ z \in Nat /\ q \in Nat
                /\ b = a + z /\ b <= d /\ q < z
            BY <6>2
          <6>4. Len(out[i + 1]) = b /\ a >= i
            BY <5>1, <6>1, <6>2
          <6>5. b >= i + 1
            BY <6>3, <6>4
          <6> QED
            BY <6>4, <6>5
        <5> QED
          BY <4>2, <5>2, <5>3
      <4>3. CASE i >= n
        <5>1. s[i] = {Read(n)}
          BY <2>2, <3>1, <4>3
        <5>2. s[i + 1] = {Read(n)}
          BY <1>10, <1>11, <4>1, <5>1
        <5> QED
          BY <4>3, <5>2
      <4> QED
        BY <4>2, <4>3
    <3> QED
      BY <3>1
  <2> HIDE DEF S
  <2> QED
    BY <2>1, <2>2, Induction
<1>14. s[d] = {Read(n)}
  <2> HIDE DEF Read
  <2>1. CASE n <= d
    BY <1>13, <2>1
  <2>2. CASE d < n
    <3>1. d \in S
      BY <1>13
    <3>2. Len(out[d]) >= d
      BY <2>2, <3>1
    <3>3. PICK k \in 1..n : k = d + 1 /\ k - 1 = d
      BY <2>2
    <3>4. PICK a, b, z, q \in Nat :
            /\ a = Len(out[k - 1]) /\ b = Len(out[k])
            /\ z = Len(parts[k]) /\ q = Len(list[k])
            /\ b = a + z /\ b <= d /\ q < z
      BY <1>9
    <3>5. a >= d
      BY <3>2, <3>3, <3>4
    <3>6. b = a + z /\ b <= d /\ q < z
      BY <3>4
    <3>7. a \in Nat /\ b \in Nat /\ z \in Nat /\ q \in Nat /\ d \in Nat
      BY <3>4
    <3> QED
      BY <3>5, <3>6, <3>7
  <2> QED
    BY <2>1, <2>2
<1>15. Read(n).list = list
  BY <1>1
<1> QED
  <2> HIDE DEF Read
  <2> QED
    BY <1>5, <1>6, <1>7, <1>14, <1>15 DEF Turns

-----------------------------------------------------------------------------
(* Fields in their order.                                                  *)

Fields == Seq(Byte \X BOOLEAN)

Field(data, pos, field) == IF field[2] THEN read_tlv_opt(data, pos, field[1])
                           ELSE read_tlv(data, pos, field[1])

EndOf(r) == IF r = <<>> THEN 1 ELSE r[Len(r)].pos

FieldTurn(data, field, x) == UNION {{Append(r, f) : f \in Field(data, EndOf(r), field)} : r \in x}

FieldTurns(s, data, fields) ==
    /\ s[0] = {<<>>}
    /\ \A i \in 0..(Len(fields) - 1) : s[i + 1] = FieldTurn(data, fields[i + 1], s[i])
    /\ read_fields(data, fields) = s[Len(fields)]

LEMMA FieldTyped ==
    ASSUME NEW data \in Bytes, NEW pos \in Nat \ {0}, NEW field
    PROVE  Field(data, pos, field) \subseteq Tlv
<1>1. read_tlv(data, pos, field[1]) \subseteq Tlv
  BY ReadTlvIs
<1>2. [content |-> <<>>, raw |-> <<>>, pos |-> pos] \in Tlv
  BY DEF Tlv, Bytes
<1> QED
  BY <1>1, <1>2 DEF Field, read_tlv_opt

LEMMA TurnTyped ==
    ASSUME NEW data \in Bytes, NEW field, NEW x \in SUBSET Seq(Tlv)
    PROVE  FieldTurn(data, field, x) \in SUBSET Seq(Tlv)
<1>1. ASSUME NEW r \in x, NEW f \in Field(data, EndOf(r), field)
      PROVE  Append(r, f) \in Seq(Tlv)
  <2>1. r \in Seq(Tlv)
    OBVIOUS
  <2>2. EndOf(r) \in Nat \ {0}
    <3>1. CASE r = <<>>
      BY <3>1 DEF EndOf
    <3>2. CASE r # <<>>
      <4>1. r[Len(r)] \in Tlv
        BY <2>1, <3>2
      <4>2. r[Len(r)].pos \in Nat \ {0}
        BY <4>1 DEF Tlv
      <4> QED
        BY <3>2, <4>2 DEF EndOf
    <3> QED
      BY <3>1, <3>2
  <2>3. f \in Tlv
    BY <2>2, FieldTyped
  <2> QED
    BY <2>1, <2>3
<1> QED
  BY <1>1 DEF FieldTurn

LEMMA ReadFieldsIs ==
    ASSUME NEW data \in Bytes, NEW fields \in Fields
    PROVE  \E s : FieldTurns(s, data, fields)
<1>1. PICK n \in Nat : n = Len(fields)
  BY DEF Fields
<1> DEFINE D == SUBSET Seq(Tlv)
           Step(i, x) == FieldTurn(data, fields[i], x)
           G == [i \in Nat |-> [x \in D |-> Step(i, x)]]
           base == {<<>>}
<1>2. base \in D
  OBVIOUS
<1>3. \A x \in D, i \in Nat : Step(i, x) \in D
  BY TurnTyped
<1>4. PICK f : Begins(f, n, D, base, G)
  <2>1. G \in [Nat -> [D -> D]]
    <3> HIDE DEF D, Step
    <3> QED
      BY <1>3
  <2> HIDE DEF G, D, base
  <2> QED
    BY <1>2, <2>1, Beginnings
<1> HIDE DEF D, base
<1>5. /\ f \in [0..n -> D] /\ f[0] = base
      /\ \A i \in 0..(n - 1) : f[i + 1] = Step(i + 1, f[i])
  <2>1. /\ f \in [0..n -> D] /\ f[0] = base
        /\ \A i \in 0..(n - 1) : f[i + 1] = G[i + 1][f[i]]
    <3> HIDE DEF G
    <3> QED
      BY <1>4 DEF Begins
  <2>2. ASSUME NEW i \in 0..(n - 1) PROVE f[i + 1] = Step(i + 1, f[i])
    <3> HIDE DEF Step
    <3>1. i + 1 \in Nat /\ i \in 0..n
      OBVIOUS
    <3>2. PICK x \in D : x = f[i]
      BY <2>1, <3>1
    <3>3. G[i + 1][x] = Step(i + 1, x)
      BY <3>1
    <3> HIDE DEF G
    <3> QED
      BY <2>1, <3>2, <3>3
  <2> HIDE DEF Step
  <2> QED
    BY <2>1, <2>2
<1>6. f = [i \in 0..n |-> IF i = 0 THEN base ELSE Step(i, f[i - 1])]
  <2> HIDE DEF Step
  <2>1. ASSUME NEW i \in 0..n PROVE f[i] = IF i = 0 THEN base ELSE Step(i, f[i - 1])
    <3>1. CASE i # 0
      <4>1. PICK j \in 0..(n - 1) : j = i - 1 /\ i = j + 1
        BY <3>1
      <4> QED
        BY <1>5, <3>1, <4>1
    <3> QED
      BY <1>5, <3>1
  <2> QED
    BY <1>5, <2>1
<1> DEFINE h == CHOOSE g : g = [i \in 0..n |-> IF i = 0 THEN base ELSE Step(i, g[i - 1])]
<1>7. h = [i \in 0..n |-> IF i = 0 THEN base ELSE Step(i, h[i - 1])]
  <2> HIDE DEF Step
  <2> QED
    BY <1>6
<1>8. read_fields(data, fields) = h[n]
  BY <1>1 DEF read_fields, FieldTurn, Field, EndOf, base
<1> HIDE DEF h
<1>9. h[0] = base /\ \A i \in 0..(n - 1) : h[i + 1] = Step(i + 1, h[i])
  <2> HIDE DEF Step
  <2> QED
    BY <1>7
<1>10. FieldTurns(h, data, fields)
  BY <1>1, <1>8, <1>9 DEF FieldTurns, base
<1> QED
  BY <1>10

\* What fields read as, whatever the bytes are.
LEMMA FieldsTyped ==
    ASSUME NEW data \in Bytes, NEW fields \in Fields, NEW f \in read_fields(data, fields)
    PROVE  /\ \A k \in 1..Len(fields) : f[k] \in Tlv
           /\ Len(fields) >= 1 => f[1] \in Field(data, 1, fields[1])
<1>1. PICK n \in Nat : n = Len(fields)
  BY DEF Fields
<1>2. PICK s : FieldTurns(s, data, fields)
  BY ReadFieldsIs
<1>3. /\ s[0] = {<<>>} /\ f \in s[n]
      /\ \A i \in 0..(n - 1) : s[i + 1] = FieldTurn(data, fields[i + 1], s[i])
  BY <1>1, <1>2 DEF FieldTurns
<1> DEFINE Good(i, r) == r \in Seq(Tlv) /\ Len(r) = i /\ (i >= 1 => r[1] \in Field(data, 1, fields[1]))
           S == {i \in Nat : i <= n => \A r \in s[i] : Good(i, r)}
<1>4. \A i \in Nat : i \in S
  <2>1. 0 \in S
    <3>1. Good(0, <<>>)
      OBVIOUS
    <3> HIDE DEF Good
    <3> QED
      BY <1>3, <3>1
  <2>2. ASSUME NEW i \in Nat, i \in S PROVE i + 1 \in S
    <3>1. CASE i + 1 <= n
      <4>1. s[i + 1] = FieldTurn(data, fields[i + 1], s[i])
        BY <1>3, <3>1
      <4>2. ASSUME NEW q \in s[i + 1] PROVE Good(i + 1, q)
        <5>0. PICK r \in s[i] : \E g \in Field(data, EndOf(r), fields[i + 1]) : q = Append(r, g)
          BY <4>1 DEF FieldTurn
        <5>1. PICK g \in Field(data, EndOf(r), fields[i + 1]) : q = Append(r, g)
          BY <5>0
        <5>2. Good(i, r)
          BY <2>2, <3>1
        <5>3. r \in Seq(Tlv) /\ Len(r) = i
          BY <5>2
        <5>4. q \in Seq(Tlv)
          <6>1. {r} \in SUBSET Seq(Tlv) /\ q \in FieldTurn(data, fields[i + 1], {r})
            BY <5>1, <5>3 DEF FieldTurn
          <6> QED
            BY <6>1, TurnTyped
        <5>5. Len(q) = i + 1
          BY <5>1, <5>3
        <5>6. q[1] \in Field(data, 1, fields[1])
          <6>1. CASE i = 0
            <7>1. r = <<>>
              BY <5>3, <6>1
            <7>2. EndOf(r) = 1 /\ q[1] = g
              BY <5>1, <7>1 DEF EndOf
            <7> QED
              BY <5>1, <6>1, <7>2
          <6>2. CASE i >= 1
            <7>1. q[1] = r[1]
              BY <5>1, <5>3, <6>2
            <7> QED
              BY <5>2, <6>2, <7>1
          <6> QED
            BY <6>1, <6>2
        <5> QED
          BY <5>4, <5>5, <5>6
      <4> HIDE DEF Good
      <4> QED
        BY <4>2
    <3> QED
      BY <3>1
  <2> HIDE DEF S
  <2> QED
    BY <2>1, <2>2, Induction
<1>5. Good(n, f)
  <2> HIDE DEF Good
  <2> QED
    BY <1>3, <1>4
<1> QED
  BY <1>1, <1>5

\* A part is the TLV of its field, or the empty string for a field left out.
PartsOf(parts, fields, contents) ==
    /\ parts \in Seq(Bytes) /\ Len(parts) = Len(fields)
    /\ \A k \in 1..Len(fields) :
          /\ contents[k] \in Bytes
          /\ \/ parts[k] = write_tlv(fields[k][1], contents[k])
             \/ fields[k][2] /\ parts[k] = <<>> /\ contents[k] = <<>>

Distinct(fields) == \A j, k \in 1..Len(fields) : fields[j][1] = fields[k][1] => j = k

\* The one reading is r.
ReadAs(res, r, parts, contents) ==
    res = {r} /\ \A k \in 1..Len(parts) : r[k].content = contents[k] /\ r[k].raw = parts[k]

\* Where a field begins, or where the data ends, comes the tag of a later field.
LEMMA NextTag ==
    ASSUME NEW fields \in Fields, NEW parts, NEW contents, PartsOf(parts, fields, contents),
           NEW out, Cumulates(out, parts), NEW i \in 0..Len(fields),
           Len(out[i]) < Len(Concat(parts))
    PROVE  \E j \in (i + 1)..Len(fields) : Concat(parts)[Len(out[i]) + 1] = fields[j][1]
<1>1. PICK n \in Nat : n = Len(fields)
  BY DEF Fields
<1>2. /\ parts \in Seq(Bytes) /\ Len(parts) = n
      /\ \A k \in 1..n : \/ contents[k] \in Bytes /\ parts[k] = write_tlv(fields[k][1], contents[k])
                         \/ parts[k] = <<>>
  BY <1>1 DEF PartsOf
<1>3. PICK data : data = Concat(parts)
  OBVIOUS
<1>4. /\ \A k \in 0..n : Len(out[k]) \in Nat
      /\ out[n] = data
  BY <1>2, <1>3 DEF Cumulates
<1> DEFINE Follows1(k) == Len(out[k]) < Len(data) =>
                              \E j \in (k + 1)..n : data[Len(out[k]) + 1] = fields[j][1]
           S == {d \in Nat : d <= n => Follows1(n - d)}
<1>5. \A d \in Nat : d \in S
  <2>1. 0 \in S
    BY <1>4
  <2>2. ASSUME NEW d \in Nat, d \in S PROVE d + 1 \in S
    <3>1. CASE d + 1 <= n
      <4>1. PICK k \in 1..n : k = n - d /\ k - 1 = n - (d + 1) /\ k - 1 \in 0..n /\ k - 1 + 1 = k
        BY <3>1
      <4>2. Follows1(k)
        BY <2>2, <3>1, <4>1
      <4>3. /\ At(data, Len(out[k - 1]) + 1, parts[k])
            /\ Len(out[k]) = Len(out[k - 1]) + Len(parts[k])
        BY <1>2, <1>3, PartsAt
      <4>4. PICK a \in Nat : a = Len(out[k - 1])
        BY <1>4, <4>1
      <4>5. CASE contents[k] \in Bytes /\ parts[k] = write_tlv(fields[k][1], contents[k])
        <5>1. fields[k][1] \in Byte
          BY <1>1 DEF Fields
        <5>2. PICK w \in Bytes : w = parts[k] /\ w[1] = fields[k][1] /\ Len(w) \in Nat /\ Len(w) >= 1
          BY <4>5, <5>1, WriteTlvBytes
        <5>3. data[(a + 1) + 1 - 1] = w[1]
          BY <4>3, <4>4, <5>2 DEF At
        <5>4. data[a + 1] = fields[k][1]
          BY <5>2, <5>3
        <5>5. k \in (k - 1 + 1)..n
          BY <4>1
        <5>6. Follows1(k - 1)
          BY <4>4, <5>4, <5>5
        <5> QED
          BY <4>1, <5>6
      <4>6. CASE parts[k] = <<>>
        <5>1. Len(out[k]) = a
          BY <4>3, <4>4, <4>6
        <5>2. Follows1(k - 1)
          <6>1. SUFFICES ASSUME Len(out[k - 1]) < Len(data)
                         PROVE  \E j \in (k - 1 + 1)..n : data[Len(out[k - 1]) + 1] = fields[j][1]
            OBVIOUS
          <6>2. PICK j \in (k + 1)..n : data[a + 1] = fields[j][1]
            BY <4>2, <4>4, <5>1, <6>1
          <6>3. j \in (k - 1 + 1)..n
            BY <4>1
          <6> QED
            BY <4>4, <6>2, <6>3
        <5> QED
          BY <4>1, <5>2
      <4> QED
        BY <1>2, <4>5, <4>6
    <3> QED
      BY <3>1
  <2> HIDE DEF S
  <2> QED
    BY <2>1, <2>2, Induction
<1>6. Follows1(i)
  <2>1. n - i \in Nat /\ n - i <= n /\ n - (n - i) = i
    BY <1>1
  <2>2. n - i \in S
    BY <1>5, <2>1
  <2> QED
    BY <2>1, <2>2
<1> QED
  BY <1>1, <1>3, <1>6

\* Fields read as they were written.
LEMMA FieldsWritten ==
    ASSUME NEW fields \in Fields, NEW parts, NEW contents, PartsOf(parts, fields, contents),
           Distinct(fields), IsUsize(Len(Concat(parts)))
    PROVE  \E r : ReadAs(read_fields(Concat(parts), fields), r, parts, contents)
<1>1. PICK n \in Nat : n = Len(fields)
  BY DEF Fields
<1>2. /\ parts \in Seq(Bytes) /\ Len(parts) = n
      /\ \A k \in 1..n : /\ contents[k] \in Bytes
                         /\ \/ parts[k] = write_tlv(fields[k][1], contents[k])
                            \/ fields[k][2] /\ parts[k] = <<>> /\ contents[k] = <<>>
  BY <1>1 DEF PartsOf
<1>3. PICK data \in Bytes : data = Concat(parts)
  BY <1>2, ConcatBytes
<1>4. PICK out : Cumulates(out, parts)
  BY <1>2, ConcatIs
<1>5. PICK s : FieldTurns(s, data, fields)
  BY ReadFieldsIs
<1>6. /\ out[0] = <<>> /\ out[n] = data
      /\ \A k \in 0..n : Len(out[k]) \in Nat
  BY <1>2, <1>3, <1>4 DEF Cumulates
<1>7. PICK d \in Nat : d = Len(data)
  BY DEF Bytes
<1> DEFINE One(k) == [content |-> contents[k], raw |-> parts[k], pos |-> Len(out[k]) + 1]
<1>8. ASSUME NEW k \in 1..n
      PROVE  /\ Field(data, Len(out[k - 1]) + 1, fields[k]) = {One(k)}
             /\ One(k) \in Tlv
  <2>1. PICK tag \in Byte, c \in Bytes : tag = fields[k][1] /\ c = contents[k]
    BY <1>1, <1>2 DEF Fields
  <2>a. PICK a \in Nat, b \in Nat : a = Len(out[k - 1]) /\ b = Len(out[k])
    BY <1>6
  <2>b. PICK pos \in Nat \ {0} : pos = a + 1
    OBVIOUS
  <2>2. pos = a + 1 /\ a = Len(out[k - 1]) /\ b = Len(out[k])
    BY <2>a, <2>b
  <2>3. PICK z \in Nat : z = Len(parts[k]) /\ z <= d
    BY <1>2, <1>3, <1>4, <1>7, PartsAt
  <2>4. At(data, pos, parts[k]) /\ b = a + z /\ b <= d
    BY <1>2, <1>3, <1>4, <1>7, <2>2, <2>3, PartsAt
  <2>5. parts[k] \in Bytes
    BY <1>2
  <2>6. One(k) = [content |-> c, raw |-> parts[k], pos |-> b + 1]
    BY <2>1, <2>2
  <2>7. One(k) \in Tlv
    BY <2>5, <2>6 DEF Tlv
  <2> HIDE DEF One
  <2>8. CASE parts[k] = write_tlv(tag, c)
    <3>1. IsUsize(Len(c))
      <4>1. Len(c) \in Nat /\ Len(c) < z
        BY <2>3, <2>8, WriteTlvBytes
      <4>2. Len(c) <= d /\ IsUsize(d)
        BY <1>3, <1>7, <2>3, <4>1
      <4> QED
        BY <4>1, <4>2, UsizeInside
    <3>2. read_tlv(data, pos, tag) =
              {[content |-> c, raw |-> write_tlv(tag, c), pos |-> pos + Len(write_tlv(tag, c))]}
      BY <2>4, <2>8, <3>1, ReadWritten
    <3>3. pos + z = b + 1
      BY <2>2, <2>4
    <3>4. read_tlv(data, pos, tag) = {One(k)}
      BY <2>3, <2>6, <2>8, <3>2, <3>3
    <3>5. read_tlv_opt(data, pos, tag) = read_tlv(data, pos, tag)
      <4>1. data[pos] = tag /\ pos <= Len(data)
        BY <3>4 DEF read_tlv
      <4> QED
        BY <4>1 DEF read_tlv_opt
    <3> QED
      BY <2>1, <2>2, <2>7, <3>4, <3>5 DEF Field
  <2>9. CASE fields[k][2] /\ parts[k] = <<>> /\ c = <<>>
    <3>1. z = 0
      BY <2>3, <2>9
    <3>2. b + 1 = pos
      BY <2>2, <2>4, <3>1
    <3>3. ~(pos <= d /\ data[pos] = tag)
      <4>1. SUFFICES ASSUME pos <= d, data[pos] = tag PROVE FALSE
        OBVIOUS
      <4>2. PICK j \in (k + 1)..n : data[pos] = fields[j][1]
        <5>1. Len(out[k]) < Len(data) /\ k \in 0..n
          BY <1>7, <2>2, <3>2, <4>1
        <5>2. \E j \in (k + 1)..n : data[Len(out[k]) + 1] = fields[j][1]
          BY <1>1, <1>3, <1>4, <5>1, NextTag
        <5> QED
          BY <2>2, <3>2, <5>2
      <4>3. j \in 1..n /\ j # k /\ fields[j][1] = fields[k][1]
        BY <2>1, <4>1, <4>2
      <4> QED
        BY <1>1, <4>3 DEF Distinct
    <3>4. read_tlv_opt(data, pos, tag) = {One(k)}
      BY <1>7, <2>6, <2>9, <3>2, <3>3 DEF read_tlv_opt
    <3> QED
      BY <2>1, <2>2, <2>7, <2>9, <3>4 DEF Field
  <2> QED
    BY <1>2, <2>1, <2>8, <2>9
<1> HIDE DEF One
<1> DEFINE Good(i, r) == /\ r \in Seq(Tlv) /\ Len(r) = i /\ EndOf(r) = Len(out[i]) + 1
                         /\ \A k \in 1..i : r[k] = One(k)
           S == {i \in Nat : i <= n => \E r : s[i] = {r} /\ Good(i, r)}
<1>9. \A i \in Nat : i \in S
  <2>1. 0 \in S
    <3>1. Good(0, <<>>)
      BY <1>6 DEF EndOf
    <3>2. s[0] = {<<>>}
      BY <1>5 DEF FieldTurns
    <3> HIDE DEF Good
    <3> QED
      BY <3>1, <3>2
  <2>2. ASSUME NEW i \in Nat, i \in S PROVE i + 1 \in S
    <3>1. CASE i + 1 <= n
      <4>1. PICK r : s[i] = {r} /\ Good(i, r)
        BY <2>2, <3>1
      <4>2. PICK k \in 1..n : k = i + 1 /\ k - 1 = i
        BY <3>1
      <4>3. s[k] = FieldTurn(data, fields[k], s[i])
        BY <1>1, <1>5, <3>1, <4>2 DEF FieldTurns
      <4>4. Field(data, EndOf(r), fields[k]) = {One(k)} /\ One(k) \in Tlv
        BY <1>8, <4>1, <4>2
      <4>5. PICK q : q = Append(r, One(k))
        OBVIOUS
      <4>6. s[k] = {q}
        BY <4>1, <4>3, <4>4, <4>5 DEF FieldTurn
      <4>7. Good(k, q)
        <5>1. q \in Seq(Tlv) /\ Len(q) = k /\ q[k] = One(k) /\ \A j \in 1..i : q[j] = r[j]
          BY <4>1, <4>2, <4>4, <4>5
        <5>2. q # <<>> /\ EndOf(q) = One(k).pos
          BY <5>1 DEF EndOf
        <5>3. EndOf(q) = Len(out[k]) + 1
          BY <5>2 DEF One
        <5>4. \A j \in 1..k : q[j] = One(j)
          BY <4>1, <4>2, <5>1
        <5> QED
          BY <5>1, <5>3, <5>4
      <4> HIDE DEF Good
      <4> QED
        BY <4>2, <4>6, <4>7
    <3> QED
      BY <3>1
  <2> HIDE DEF S
  <2> QED
    BY <2>1, <2>2, Induction
<1>10. PICK r : s[n] = {r} /\ Good(n, r)
  <2> HIDE DEF Good
  <2> QED
    BY <1>9
<1>11. ASSUME NEW k \in 1..n PROVE r[k].content = contents[k] /\ r[k].raw = parts[k]
  BY <1>10 DEF One
<1>12. read_fields(Concat(parts), fields) = {r}
  BY <1>1, <1>3, <1>5, <1>10 DEF FieldTurns
<1>13. ReadAs(read_fields(Concat(parts), fields), r, parts, contents)
  BY <1>2, <1>11, <1>12 DEF ReadAs
<1> QED
  BY <1>13

-----------------------------------------------------------------------------
(* Details.                                                                *)

LEMMA NetworkRoundTrip ==
    ASSUME NEW n \in Network
    PROVE  NetworkEncode(n) \in Bytes /\ NetworkDecode(NetworkEncode(n)) = {n}
<1>1. PICK a, p : n = [addr |-> a, prefix_len |-> p] /\ a \in Bytes /\ p \in Byte /\ Len(a) \in {4, 16}
  BY DEF Network
<1>2. PICK b : b = Append(a, p)
  OBVIOUS
<1>3. NetworkEncode(n) = b
  BY <1>1, <1>2 DEF NetworkEncode
<1>4. b \in Bytes /\ Len(b) \in {5, 17} /\ b[Len(b)] = p /\ SubSeq(b, 1, Len(b) - 1) = a
  <2>1. a \in Seq(Byte) /\ p \in Byte
    BY <1>1 DEF Bytes
  <2>2. Len(b) = Len(a) + 1 /\ b \in Seq(Byte)
    BY <1>2, <2>1
  <2>3. Len(b) - 1 = Len(a) /\ Len(b) \in {5, 17}
    <3>1. CASE Len(a) = 4
      BY <2>2, <3>1
    <3>2. CASE Len(a) = 16
      BY <2>2, <3>2
    <3> QED
      BY <1>1, <3>1, <3>2
  <2>4. SubSeq(b, 1, Len(a)) = a /\ b[Len(a) + 1] = p
    BY <1>2, <2>1
  <2> QED
    BY <2>2, <2>3, <2>4 DEF Bytes
<1>5. NetworkDecode(b) = {[addr |-> a, prefix_len |-> p]}
  BY <1>4 DEF NetworkDecode
<1> QED
  BY <1>1, <1>3, <1>4, <1>5

LEMMA NetworkTlvsBytes ==
    ASSUME NEW list \in Seq(Network)
    PROVE  NetworkTlvs(list) \in Bytes
<1>1. PICK n \in Nat : n = Len(list) /\ DOMAIN list = 1..n
  OBVIOUS
<1>2. OCTET_STRING \in Byte
  BY DEF OCTET_STRING, Byte
<1>3. ASSUME NEW i \in 1..n PROVE write_tlv(OCTET_STRING, NetworkEncode(list[i])) \in Bytes
  <2>1. list[i] \in Network
    BY <1>1
  <2> QED
    BY <1>2, <2>1, NetworkRoundTrip, WriteTlvBytes
<1>4. PICK parts : parts = [i \in DOMAIN list |-> write_tlv(OCTET_STRING, NetworkEncode(list[i]))]
  OBVIOUS
<1>5. parts \in Seq(Bytes)
  <2>1. parts \in [1..n -> Bytes]
    BY <1>1, <1>3, <1>4
  <2> QED
    BY <2>1
<1> QED
  BY <1>4, <1>5, ConcatBytes DEF NetworkTlvs

LEMMA NetworksRoundTrip ==
    ASSUME NEW list \in Seq(Network), IsUsize(Len(NetworkTlvs(list)))
    PROVE  Networks(NetworkTlvs(list)) = {list}
<1>1. PICK n \in Nat : n = Len(list) /\ DOMAIN list = 1..n
  OBVIOUS
<1>2. OCTET_STRING \in Byte
  BY DEF OCTET_STRING, Byte
<1>3. ASSUME NEW i \in 1..n
      PROVE  list[i] \in Network /\ NetworkEncode(list[i]) \in Bytes
             /\ NetworkDecode(NetworkEncode(list[i])) = {list[i]}
  BY <1>1, NetworkRoundTrip
<1>4. PICK raw : raw = [i \in 1..n |-> NetworkEncode(list[i])]
  OBVIOUS
<1>5. raw \in Seq(Bytes) /\ DOMAIN raw = 1..n
  <2>1. raw \in [1..n -> Bytes]
    BY <1>3, <1>4
  <2> QED
    BY <2>1
<1>6. PICK parts : parts = [i \in DOMAIN list |-> write_tlv(OCTET_STRING, NetworkEncode(list[i]))]
  OBVIOUS
<1>7. TlvsOf(parts, OCTET_STRING, raw)
  BY <1>1, <1>4, <1>5, <1>6 DEF TlvsOf
<1>8. NetworkTlvs(list) = Concat(parts)
  BY <1>6 DEF NetworkTlvs
<1>9. read_all(NetworkTlvs(list), OCTET_STRING) = {raw}
  BY <1>2, <1>5, <1>7, <1>8, ReadAllWritten
<1>10. \A i \in 1..n : NetworkDecode(raw[i]) = {list[i]}
  BY <1>3, <1>4
<1>11. ~ \E i \in DOMAIN raw : NetworkDecode(raw[i]) = {}
  BY <1>5, <1>10
<1>12. [i \in DOMAIN raw |-> CHOOSE x \in NetworkDecode(raw[i]) : TRUE] = list
  <2>1. \A i \in 1..n : (CHOOSE x \in NetworkDecode(raw[i]) : TRUE) = list[i]
    BY <1>10
  <2>2. list = [i \in 1..n |-> list[i]]
    BY <1>1
  <2> QED
    BY <1>5, <2>1, <2>2
<1>13. Networks(NetworkTlvs(list)) =
          UNION {IF \E i \in DOMAIN x : NetworkDecode(x[i]) = {} THEN {}
                 ELSE {[i \in DOMAIN x |-> CHOOSE y \in NetworkDecode(x[i]) : TRUE]} : x \in {raw}}
  BY <1>9 DEF Networks
<1>14. Networks(NetworkTlvs(list)) =
          IF \E i \in DOMAIN raw : NetworkDecode(raw[i]) = {} THEN {}
          ELSE {[i \in DOMAIN raw |-> CHOOSE y \in NetworkDecode(raw[i]) : TRUE]}
  BY <1>13
<1> QED
  BY <1>11, <1>12, <1>14

GroupTlvs(list) == Concat([i \in DOMAIN list |-> write_tlv(UTF8_STRING, list[i])])

LEMMA GroupTlvsBytes ==
    ASSUME NEW list \in Seq(Strings)
    PROVE  GroupTlvs(list) \in Bytes
<1>1. PICK n \in Nat : n = Len(list) /\ DOMAIN list = 1..n
  OBVIOUS
<1>2. UTF8_STRING \in Byte
  BY DEF UTF8_STRING, Byte
<1>3. ASSUME NEW i \in 1..n PROVE write_tlv(UTF8_STRING, list[i]) \in Bytes
  <2>1. list[i] \in Strings
    BY <1>1
  <2>2. list[i] \in Bytes
    BY <2>1 DEF Strings
  <2> QED
    BY <1>2, <2>2, WriteTlvBytes
<1>4. PICK parts : parts = [i \in DOMAIN list |-> write_tlv(UTF8_STRING, list[i])]
  OBVIOUS
<1>5. parts \in Seq(Bytes)
  <2>1. parts \in [1..n -> Bytes]
    BY <1>1, <1>3, <1>4
  <2> QED
    BY <2>1
<1> QED
  BY <1>4, <1>5, ConcatBytes DEF GroupTlvs

LEMMA GroupsRoundTrip ==
    ASSUME NEW list \in Seq(Strings), IsUsize(Len(GroupTlvs(list)))
    PROVE  Groups(GroupTlvs(list)) = {list}
<1>1. PICK n \in Nat : n = Len(list) /\ DOMAIN list = 1..n
  OBVIOUS
<1>2. UTF8_STRING \in Byte
  BY DEF UTF8_STRING, Byte
<1>3. ASSUME NEW i \in 1..n PROVE list[i] \in Bytes /\ from_utf8(list[i])
  <2>1. list[i] \in Strings
    BY <1>1
  <2> QED
    BY <2>1 DEF Strings
<1>4. list \in Seq(Bytes)
  <2>1. list \in [1..n -> Bytes]
    BY <1>1, <1>3
  <2> QED
    BY <2>1
<1>5. PICK parts : parts = [i \in DOMAIN list |-> write_tlv(UTF8_STRING, list[i])]
  OBVIOUS
<1>6. TlvsOf(parts, UTF8_STRING, list) /\ GroupTlvs(list) = Concat(parts)
  BY <1>5 DEF TlvsOf, GroupTlvs
<1>7. read_all(GroupTlvs(list), UTF8_STRING) = {list}
  BY <1>2, <1>4, <1>6, ReadAllWritten
<1>8. \A i \in DOMAIN list : from_utf8(list[i])
  BY <1>1, <1>3
<1> QED
  BY <1>7, <1>8 DEF Groups

LEMMA Element ==
    ASSUME NEW S, NEW s \in Seq(S), NEW k \in 1..Len(s)
    PROVE  s[k] \in S
  OBVIOUS

LEMMA ConcatEmpty == Concat(<<>>) = <<>>
<1>1. <<>> \in Seq(Bytes) /\ Len(<<>>) = 0
  OBVIOUS
<1>2. PICK out : Cumulates(out, <<>>)
  BY <1>1, ConcatIs
<1> QED
  BY <1>1, <1>2 DEF Cumulates

LEMMA EmptyLists == NetworkTlvs(<<>>) = <<>> /\ GroupTlvs(<<>>) = <<>>
<1>1. [i \in DOMAIN <<>> |-> write_tlv(OCTET_STRING, NetworkEncode(<<>>[i]))] = <<>>
  OBVIOUS
<1>2. [i \in DOMAIN <<>> |-> write_tlv(UTF8_STRING, <<>>[i])] = <<>>
  OBVIOUS
<1> QED
  BY <1>1, <1>2, ConcatEmpty DEF NetworkTlvs, GroupTlvs

DetailsContents(d) ==
    <<d.name, NetworkTlvs(d.networks), NetworkTlvs(d.unsafe_networks), GroupTlvs(d.groups),
      IF d.is_ca THEN <<255>> ELSE <<>>, encode_der_int(d.not_before),
      encode_der_int(d.not_after), d.issuer>>

DetailsParts(d) ==
    LET c == DetailsContents(d) IN
    <<write_tlv(TAG_DETAILS_NAME, c[1]),
      Unless(d.networks = <<>>, write_tlv(TAG_DETAILS_NETWORKS, c[2])),
      Unless(d.unsafe_networks = <<>>, write_tlv(TAG_DETAILS_UNSAFE_NETWORKS, c[3])),
      Unless(d.groups = <<>>, write_tlv(TAG_DETAILS_GROUPS, c[4])),
      Unless(~d.is_ca, write_tlv(TAG_DETAILS_IS_CA, <<255>>)),
      write_tlv(TAG_DETAILS_NOT_BEFORE, c[6]),
      write_tlv(TAG_DETAILS_NOT_AFTER, c[7]),
      Unless(d.issuer = <<>>, write_tlv(TAG_DETAILS_ISSUER, c[8]))>>

LEMMA EncodeDetailsIs ==
    ASSUME NEW d
    PROVE  encode_details(d) = write_tlv(TAG_CERT_DETAILS, Concat(DetailsParts(d)))
  BY DEF encode_details, DetailsParts, DetailsContents, GroupTlvs

LEMMA DetailsFieldsAre ==
    /\ DetailsFields \in Fields /\ Len(DetailsFields) = 8 /\ Distinct(DetailsFields)
    /\ DetailsFields[1] = <<TAG_DETAILS_NAME, FALSE>>
    /\ DetailsFields[2] = <<TAG_DETAILS_NETWORKS, TRUE>>
    /\ DetailsFields[3] = <<TAG_DETAILS_UNSAFE_NETWORKS, TRUE>>
    /\ DetailsFields[4] = <<TAG_DETAILS_GROUPS, TRUE>>
    /\ DetailsFields[5] = <<TAG_DETAILS_IS_CA, TRUE>>
    /\ DetailsFields[6] = <<TAG_DETAILS_NOT_BEFORE, FALSE>>
    /\ DetailsFields[7] = <<TAG_DETAILS_NOT_AFTER, FALSE>>
    /\ DetailsFields[8] = <<TAG_DETAILS_ISSUER, TRUE>>
<1>1. /\ Len(DetailsFields) = 8
      /\ DetailsFields[1] = <<TAG_DETAILS_NAME, FALSE>>
      /\ DetailsFields[2] = <<TAG_DETAILS_NETWORKS, TRUE>>
      /\ DetailsFields[3] = <<TAG_DETAILS_UNSAFE_NETWORKS, TRUE>>
      /\ DetailsFields[4] = <<TAG_DETAILS_GROUPS, TRUE>>
      /\ DetailsFields[5] = <<TAG_DETAILS_IS_CA, TRUE>>
      /\ DetailsFields[6] = <<TAG_DETAILS_NOT_BEFORE, FALSE>>
      /\ DetailsFields[7] = <<TAG_DETAILS_NOT_AFTER, FALSE>>
      /\ DetailsFields[8] = <<TAG_DETAILS_ISSUER, TRUE>>
  BY DEF DetailsFields
<1>2. /\ TAG_DETAILS_NAME \in Byte /\ TAG_DETAILS_NETWORKS \in Byte
      /\ TAG_DETAILS_UNSAFE_NETWORKS \in Byte /\ TAG_DETAILS_GROUPS \in Byte
      /\ TAG_DETAILS_IS_CA \in Byte /\ TAG_DETAILS_NOT_BEFORE \in Byte
      /\ TAG_DETAILS_NOT_AFTER \in Byte /\ TAG_DETAILS_ISSUER \in Byte
  BY DEF Byte, TAG_DETAILS_NAME, TAG_DETAILS_NETWORKS, TAG_DETAILS_UNSAFE_NETWORKS,
         TAG_DETAILS_GROUPS, TAG_DETAILS_IS_CA, TAG_DETAILS_NOT_BEFORE, TAG_DETAILS_NOT_AFTER,
         TAG_DETAILS_ISSUER
<1>3. DetailsFields \in Fields
  <2> DEFINE P == Byte \X BOOLEAN
  <2>1. /\ <<TAG_DETAILS_NAME, FALSE>> \in P /\ <<TAG_DETAILS_NETWORKS, TRUE>> \in P
        /\ <<TAG_DETAILS_UNSAFE_NETWORKS, TRUE>> \in P /\ <<TAG_DETAILS_GROUPS, TRUE>> \in P
        /\ <<TAG_DETAILS_IS_CA, TRUE>> \in P /\ <<TAG_DETAILS_NOT_BEFORE, FALSE>> \in P
        /\ <<TAG_DETAILS_NOT_AFTER, FALSE>> \in P /\ <<TAG_DETAILS_ISSUER, TRUE>> \in P
    BY <1>2
  <2>2. Fields = Seq(P)
    BY DEF Fields
  <2> HIDE DEF P
  <2>3. ASSUME NEW a \in P, NEW b \in P, NEW c \in P, NEW d \in P,
               NEW e \in P, NEW f \in P, NEW g \in P, NEW h \in P
        PROVE  <<a, b, c, d, e, f, g, h>> \in Seq(P)
    OBVIOUS
  <2>4. DetailsFields \in Seq(P)
    BY <2>1, <2>3 DEF DetailsFields
  <2> QED
    BY <2>2, <2>4
<1>4. /\ DetailsFields[1][1] = 128 /\ DetailsFields[2][1] = 161 /\ DetailsFields[3][1] = 162
      /\ DetailsFields[4][1] = 163 /\ DetailsFields[5][1] = 132 /\ DetailsFields[6][1] = 133
      /\ DetailsFields[7][1] = 134 /\ DetailsFields[8][1] = 135
  BY <1>1 DEF TAG_DETAILS_NAME, TAG_DETAILS_NETWORKS, TAG_DETAILS_UNSAFE_NETWORKS,
         TAG_DETAILS_GROUPS, TAG_DETAILS_IS_CA, TAG_DETAILS_NOT_BEFORE, TAG_DETAILS_NOT_AFTER,
         TAG_DETAILS_ISSUER
<1>5. Distinct(DetailsFields)
  <2>1. ASSUME NEW j \in 1..8, NEW k \in 1..8, DetailsFields[j][1] = DetailsFields[k][1]
        PROVE  j = k
    <3>1. /\ j = 1 \/ j = 2 \/ j = 3 \/ j = 4 \/ j = 5 \/ j = 6 \/ j = 7 \/ j = 8
          /\ k = 1 \/ k = 2 \/ k = 3 \/ k = 4 \/ k = 5 \/ k = 6 \/ k = 7 \/ k = 8
      OBVIOUS
    <3> QED
      BY <1>4, <2>1, <3>1
  <2> QED
    BY <1>1, <2>1 DEF Distinct
<1> QED
  BY <1>1, <1>3, <1>5

LEMMA DetailsPartsAre ==
    ASSUME NEW d \in Details
    PROVE  /\ PartsOf(DetailsParts(d), DetailsFields, DetailsContents(d))
           /\ DetailsParts(d)[5] # <<>> <=> d.is_ca
<1>1. /\ d.name \in Bytes /\ d.networks \in Seq(Network) /\ d.unsafe_networks \in Seq(Network)
      /\ d.groups \in Seq(Strings) /\ d.is_ca \in BOOLEAN /\ d.not_before \in I64
      /\ d.not_after \in I64 /\ d.issuer \in Bytes
  BY DEF Details, Strings
<1>2. /\ TAG_DETAILS_NAME \in Byte /\ TAG_DETAILS_NETWORKS \in Byte
      /\ TAG_DETAILS_UNSAFE_NETWORKS \in Byte /\ TAG_DETAILS_GROUPS \in Byte
      /\ TAG_DETAILS_IS_CA \in Byte /\ TAG_DETAILS_NOT_BEFORE \in Byte
      /\ TAG_DETAILS_NOT_AFTER \in Byte /\ TAG_DETAILS_ISSUER \in Byte
  BY DEF Byte, TAG_DETAILS_NAME, TAG_DETAILS_NETWORKS, TAG_DETAILS_UNSAFE_NETWORKS,
         TAG_DETAILS_GROUPS, TAG_DETAILS_IS_CA, TAG_DETAILS_NOT_BEFORE, TAG_DETAILS_NOT_AFTER,
         TAG_DETAILS_ISSUER
<1>3. PICK c : c = DetailsContents(d)
  OBVIOUS
<1>4. /\ c[1] = d.name /\ c[2] = NetworkTlvs(d.networks) /\ c[3] = NetworkTlvs(d.unsafe_networks)
      /\ c[4] = GroupTlvs(d.groups) /\ c[5] = (IF d.is_ca THEN <<255>> ELSE <<>>)
      /\ c[6] = encode_der_int(d.not_before) /\ c[7] = encode_der_int(d.not_after)
      /\ c[8] = d.issuer
  BY <1>3 DEF DetailsContents
<1>5. /\ c[1] \in Bytes /\ c[2] \in Bytes /\ c[3] \in Bytes /\ c[4] \in Bytes
      /\ c[5] \in Bytes /\ c[6] \in Bytes /\ c[7] \in Bytes /\ c[8] \in Bytes
  <2>1. <<255>> \in Bytes /\ <<>> \in Bytes
    BY DEF Bytes, Byte
  <2>2. c[5] \in Bytes
    BY <1>4, <2>1
  <2>3. c[1] \in Bytes /\ c[8] \in Bytes
    BY <1>1, <1>4
  <2>4. c[2] \in Bytes /\ c[3] \in Bytes
    BY <1>1, <1>4, NetworkTlvsBytes
  <2>5. c[4] \in Bytes
    BY <1>1, <1>4, GroupTlvsBytes
  <2>6. c[6] \in Bytes /\ c[7] \in Bytes
    BY <1>1, <1>4, IntRoundTrip
  <2> QED
    BY <2>2, <2>3, <2>4, <2>5, <2>6
<1>6. PICK p : p = DetailsParts(d)
  OBVIOUS
<1>a. p = <<p[1], p[2], p[3], p[4], p[5], p[6], p[7], p[8]>>
  BY <1>6 DEF DetailsParts
<1>7. /\ p[1] = write_tlv(TAG_DETAILS_NAME, c[1])
      /\ p[2] = Unless(d.networks = <<>>, write_tlv(TAG_DETAILS_NETWORKS, c[2]))
      /\ p[3] = Unless(d.unsafe_networks = <<>>, write_tlv(TAG_DETAILS_UNSAFE_NETWORKS, c[3]))
      /\ p[4] = Unless(d.groups = <<>>, write_tlv(TAG_DETAILS_GROUPS, c[4]))
      /\ p[5] = Unless(~d.is_ca, write_tlv(TAG_DETAILS_IS_CA, <<255>>))
      /\ p[6] = write_tlv(TAG_DETAILS_NOT_BEFORE, c[6])
      /\ p[7] = write_tlv(TAG_DETAILS_NOT_AFTER, c[7])
      /\ p[8] = Unless(d.issuer = <<>>, write_tlv(TAG_DETAILS_ISSUER, c[8]))
  BY <1>3, <1>6 DEF DetailsParts
<1> DEFINE Part(k, tag, opt) ==
              /\ p[k] \in Bytes
              /\ p[k] = write_tlv(tag, c[k]) \/ (opt /\ p[k] = <<>> /\ c[k] = <<>>)
<1>8. /\ Part(1, TAG_DETAILS_NAME, FALSE) /\ Part(6, TAG_DETAILS_NOT_BEFORE, FALSE)
      /\ Part(7, TAG_DETAILS_NOT_AFTER, FALSE)
  <2>1. /\ write_tlv(TAG_DETAILS_NAME, c[1]) \in Bytes
        /\ write_tlv(TAG_DETAILS_NOT_BEFORE, c[6]) \in Bytes
        /\ write_tlv(TAG_DETAILS_NOT_AFTER, c[7]) \in Bytes
    BY <1>2, <1>5, WriteTlvBytes
  <2> QED
    BY <1>7, <2>1
<1>b. <<>> \in Bytes
  BY DEF Bytes
<1>9. Part(2, TAG_DETAILS_NETWORKS, TRUE)
  <2>1. d.networks = <<>> => c[2] = <<>>
    BY <1>4, EmptyLists
  <2>2. p[2] = write_tlv(TAG_DETAILS_NETWORKS, c[2]) \/ (p[2] = <<>> /\ d.networks = <<>>)
    BY <1>7 DEF Unless
  <2>3. write_tlv(TAG_DETAILS_NETWORKS, c[2]) \in Bytes
    BY <1>2, <1>5, WriteTlvBytes
  <2> QED
    BY <1>b, <2>1, <2>2, <2>3
<1>10. Part(3, TAG_DETAILS_UNSAFE_NETWORKS, TRUE)
  <2>1. d.unsafe_networks = <<>> => c[3] = <<>>
    BY <1>4, EmptyLists
  <2>2. p[3] = write_tlv(TAG_DETAILS_UNSAFE_NETWORKS, c[3]) \/ (p[3] = <<>> /\ d.unsafe_networks = <<>>)
    BY <1>7 DEF Unless
  <2>3. write_tlv(TAG_DETAILS_UNSAFE_NETWORKS, c[3]) \in Bytes
    BY <1>2, <1>5, WriteTlvBytes
  <2> QED
    BY <1>b, <2>1, <2>2, <2>3
<1>11. Part(4, TAG_DETAILS_GROUPS, TRUE)
  <2>1. d.groups = <<>> => c[4] = <<>>
    BY <1>4, EmptyLists
  <2>2. p[4] = write_tlv(TAG_DETAILS_GROUPS, c[4]) \/ (p[4] = <<>> /\ d.groups = <<>>)
    BY <1>7 DEF Unless
  <2>3. write_tlv(TAG_DETAILS_GROUPS, c[4]) \in Bytes
    BY <1>2, <1>5, WriteTlvBytes
  <2> QED
    BY <1>b, <2>1, <2>2, <2>3
<1>12. Part(8, TAG_DETAILS_ISSUER, TRUE)
  <2>1. d.issuer = <<>> => c[8] = <<>>
    BY <1>4
  <2>2. p[8] = write_tlv(TAG_DETAILS_ISSUER, c[8]) \/ (p[8] = <<>> /\ d.issuer = <<>>)
    BY <1>7 DEF Unless
  <2>3. write_tlv(TAG_DETAILS_ISSUER, c[8]) \in Bytes
    BY <1>2, <1>5, WriteTlvBytes
  <2> QED
    BY <1>b, <2>1, <2>2, <2>3
<1>13. Part(5, TAG_DETAILS_IS_CA, TRUE) /\ (p[5] # <<>> <=> d.is_ca)
  <2>1. CASE d.is_ca
    <3>1. c[5] = <<255>> /\ p[5] = write_tlv(TAG_DETAILS_IS_CA, c[5])
      BY <1>4, <1>7, <2>1 DEF Unless
    <3>2. p[5] \in Bytes /\ p[5] # <<>>
      <4>1. PICK x \in Bytes, t \in Byte : p[5] = write_tlv(t, x)
        BY <1>2, <1>5, <3>1
      <4>2. /\ write_tlv(t, x) \in Bytes /\ Len(x) < Len(write_tlv(t, x))
            /\ Len(x) \in Nat /\ Len(write_tlv(t, x)) \in Nat
        BY WriteTlvBytes
      <4>3. Len(write_tlv(t, x)) # 0
        BY <4>2
      <4> QED
        BY <4>1, <4>2, <4>3
    <3> QED
      BY <2>1, <3>1, <3>2
  <2>2. CASE ~d.is_ca
    <3>1. c[5] = <<>> /\ p[5] = <<>>
      BY <1>4, <1>7, <2>2 DEF Unless
    <3> QED
      BY <1>5, <2>2, <3>1
  <2> QED
    BY <2>1, <2>2
<1>14. p \in Seq(Bytes) /\ Len(p) = 8
  <2>1. /\ p[1] \in Bytes /\ p[2] \in Bytes /\ p[3] \in Bytes /\ p[4] \in Bytes
        /\ p[5] \in Bytes /\ p[6] \in Bytes /\ p[7] \in Bytes /\ p[8] \in Bytes
    BY <1>8, <1>9, <1>10, <1>11, <1>12, <1>13
  <2>2. ASSUME NEW a \in Bytes, NEW b \in Bytes, NEW e \in Bytes, NEW f \in Bytes,
               NEW g \in Bytes, NEW h \in Bytes, NEW i \in Bytes, NEW j \in Bytes
        PROVE  <<a, b, e, f, g, h, i, j>> \in Seq(Bytes) /\ Len(<<a, b, e, f, g, h, i, j>>) = 8
    OBVIOUS
  <2>3. PICK q : q = <<p[1], p[2], p[3], p[4], p[5], p[6], p[7], p[8]>>
    OBVIOUS
  <2>4. q \in Seq(Bytes) /\ Len(q) = 8
    BY <2>1, <2>2, <2>3
  <2> QED
    BY <1>a, <2>3, <2>4
<1>15. ASSUME NEW k \in 1..8
       PROVE  c[k] \in Bytes /\ Part(k, DetailsFields[k][1], DetailsFields[k][2])
  <2>1. k = 1 \/ k = 2 \/ k = 3 \/ k = 4 \/ k = 5 \/ k = 6 \/ k = 7 \/ k = 8
    OBVIOUS
  <2>2. /\ Part(1, DetailsFields[1][1], DetailsFields[1][2])
        /\ Part(2, DetailsFields[2][1], DetailsFields[2][2])
        /\ Part(3, DetailsFields[3][1], DetailsFields[3][2])
        /\ Part(4, DetailsFields[4][1], DetailsFields[4][2])
        /\ Part(5, DetailsFields[5][1], DetailsFields[5][2])
        /\ Part(6, DetailsFields[6][1], DetailsFields[6][2])
        /\ Part(7, DetailsFields[7][1], DetailsFields[7][2])
        /\ Part(8, DetailsFields[8][1], DetailsFields[8][2])
    BY <1>8, <1>9, <1>10, <1>11, <1>12, <1>13, DetailsFieldsAre
  <2> HIDE DEF Part
  <2> QED
    BY <1>5, <2>1, <2>2
<1>16. PartsOf(p, DetailsFields, c)
  BY <1>14, <1>15, DetailsFieldsAre DEF PartsOf
<1> QED
  BY <1>3, <1>6, <1>13, <1>16

LEMMA EncodeDetailsBytes ==
    ASSUME NEW d \in Details
    PROVE  /\ Concat(DetailsParts(d)) \in Bytes
           /\ encode_details(d) \in Bytes
<1>1. Concat(DetailsParts(d)) \in Bytes
  BY DetailsPartsAre, ConcatBytes DEF PartsOf
<1>2. TAG_CERT_DETAILS \in Byte
  BY DEF TAG_CERT_DETAILS, Byte
<1> QED
  BY <1>1, <1>2, WriteTlvBytes, EncodeDetailsIs

\* Details decode to what was encoded.
LEMMA DetailsRoundTrip ==
    ASSUME NEW d \in Details, IsUsize(Len(encode_details(d)))
    PROVE  decode_details(encode_details(d)) = {d}
<1>1. PICK p, c : p = DetailsParts(d) /\ c = DetailsContents(d)
  OBVIOUS
<1>2. PICK body \in Bytes : body = Concat(p)
  BY <1>1, EncodeDetailsBytes
<1>3. PICK w \in Bytes : w = encode_details(d)
  BY EncodeDetailsBytes
<1>4. PICK tag \in Byte : tag = TAG_CERT_DETAILS
  BY DEF TAG_CERT_DETAILS, Byte
<1>5. w = write_tlv(tag, body)
  BY <1>1, <1>2, <1>3, <1>4, EncodeDetailsIs
<1>6. Len(body) \in Nat /\ Len(w) \in Nat /\ Len(body) <= Len(w) /\ IsUsize(Len(body))
  <2>1. Len(body) \in Nat /\ Len(w) \in Nat /\ Len(body) < Len(w)
    BY <1>5, WriteTlvBytes
  <2>2. Len(body) <= Len(w) /\ IsUsize(Len(w))
    BY <1>3, <2>1
  <2> QED
    BY <2>1, <2>2, UsizeInside
<1>7. PICK outer : outer.content = body /\ read_tlv(w, 1, tag) = {outer}
  <2>1. At(w, 1, w)
    BY AtFirst
  <2>2. read_tlv(w, 1, tag) = {[content |-> body, raw |-> w, pos |-> 1 + Len(w)]}
    BY <1>5, <1>6, <2>1, ReadWritten
  <2> QED
    BY <2>2
<1>8. PartsOf(p, DetailsFields, c)
  BY <1>1, DetailsPartsAre
<1>9. PICK f : ReadAs(read_fields(body, DetailsFields), f, p, c)
  <2>1. IsUsize(Len(Concat(p)))
    BY <1>2, <1>6
  <2> QED
    BY <1>2, <1>8, <2>1, DetailsFieldsAre, FieldsWritten
<1>10. Len(p) = 8 /\ \A k \in 1..8 : /\ p[k] \in Bytes /\ c[k] \in Bytes
                                     /\ Len(c[k]) \in Nat /\ Len(c[k]) <= Len(body)
  <2>1. /\ p \in Seq(Bytes) /\ Len(p) = 8
        /\ \A k \in 1..8 : /\ c[k] \in Bytes
                           /\ \/ p[k] = write_tlv(DetailsFields[k][1], c[k])
                              \/ c[k] = <<>>
    BY <1>8, DetailsFieldsAre DEF PartsOf
  <2>2. PICK out : Cumulates(out, p)
    BY <2>1, ConcatIs
  <2>3. ASSUME NEW k \in 1..8 PROVE Len(c[k]) \in Nat /\ Len(c[k]) <= Len(body)
    <3>0. PICK y \in Bytes : y = c[k]
      BY <2>1
    <3>a. Len(y) \in Nat
      BY DEF Bytes
    <3>1. c[k] \in Bytes /\ Len(c[k]) \in Nat
      BY <3>0, <3>a
    <3>2. CASE p[k] = write_tlv(DetailsFields[k][1], c[k])
      <4>1. PICK t \in Byte, x \in Bytes : t = DetailsFields[k][1] /\ x = c[k]
        <5>0. DetailsFields \in Seq(Byte \X BOOLEAN) /\ Len(DetailsFields) = 8
          BY DetailsFieldsAre DEF Fields
        <5>1. DetailsFields[k] \in Byte \X BOOLEAN
          <6> DEFINE P == Byte \X BOOLEAN
          <6>1. DetailsFields \in Seq(P)
            BY <5>0
          <6> HIDE DEF P
          <6>2. DetailsFields[k] \in P
            BY <5>0, <6>1, Element
          <6> QED
            BY <6>2 DEF P
        <5>2. DetailsFields[k][1] \in Byte
          BY <5>1
        <5> QED
          BY <3>1, <5>2
      <4>2. Len(x) < Len(write_tlv(t, x)) /\ Len(x) \in Nat /\ Len(write_tlv(t, x)) \in Nat
        BY WriteTlvBytes
      <4>3. Len(p[k]) <= Len(body)
        BY <1>2, <2>1, <2>2, PartsAt
      <4>4. p[k] = write_tlv(t, x)
        BY <3>2, <4>1
      <4> QED
        BY <1>6, <3>1, <4>1, <4>2, <4>3, <4>4
    <3>3. CASE c[k] = <<>>
      BY <1>6, <3>3
    <3> QED
      BY <2>1, <3>2, <3>3
  <2>4. \A k \in 1..8 : p[k] \in Bytes
    <3>1. p \in Seq(Bytes) /\ Len(p) = 8
      BY <2>1
    <3> QED
      BY <3>1, Element
  <2> QED
    BY <2>1, <2>3, <2>4
<1>11. /\ read_fields(body, DetailsFields) = {f}
       /\ \A k \in 1..8 : f[k].content = c[k] /\ f[k].raw = p[k]
  BY <1>9, <1>10 DEF ReadAs
<1>12. \A k \in 1..8 : IsUsize(Len(c[k]))
  BY <1>6, <1>10, UsizeInside
<1>13. /\ d.name \in Bytes /\ from_utf8(d.name)
       /\ d.networks \in Seq(Network) /\ d.unsafe_networks \in Seq(Network)
       /\ d.groups \in Seq(Strings) /\ d.not_before \in I64 /\ d.not_after \in I64
  BY DEF Details, Strings
<1>14. /\ c[1] = d.name /\ c[2] = NetworkTlvs(d.networks) /\ c[3] = NetworkTlvs(d.unsafe_networks)
       /\ c[4] = GroupTlvs(d.groups)
       /\ c[6] = encode_der_int(d.not_before) /\ c[7] = encode_der_int(d.not_after)
       /\ c[8] = d.issuer
  BY <1>1 DEF DetailsContents
<1>15. /\ Networks(f[2].content) = {d.networks} /\ Networks(f[3].content) = {d.unsafe_networks}
       /\ Groups(f[4].content) = {d.groups}
  <2>1. f[2].content = c[2] /\ f[3].content = c[3] /\ f[4].content = c[4]
    BY <1>11
  <2>2. IsUsize(Len(c[2])) /\ IsUsize(Len(c[3])) /\ IsUsize(Len(c[4]))
    BY <1>12
  <2>3. Networks(c[2]) = {d.networks}
    BY <1>13, <1>14, <2>2, NetworksRoundTrip
  <2>4. Networks(c[3]) = {d.unsafe_networks}
    BY <1>13, <1>14, <2>2, NetworksRoundTrip
  <2>5. Groups(c[4]) = {d.groups}
    BY <1>13, <1>14, <2>2, GroupsRoundTrip
  <2> QED
    BY <2>1, <2>3, <2>4, <2>5
<1>16. /\ decode_der_int(f[6].content) = {d.not_before}
       /\ decode_der_int(f[7].content) = {d.not_after}
  <2>1. f[6].content = c[6] /\ f[7].content = c[7]
    BY <1>11
  <2> QED
    BY <1>13, <1>14, <2>1, IntRoundTrip
<1>17. f[1].content = d.name /\ f[8].content = d.issuer /\ (f[5].raw # <<>>) = d.is_ca
  <2>1. f[1].content = c[1] /\ f[8].content = c[8] /\ f[5].raw = p[5]
    BY <1>11
  <2>2. p[5] # <<>> <=> d.is_ca
    BY <1>1, DetailsPartsAre
  <2>3. d.is_ca \in BOOLEAN
    BY DEF Details
  <2> QED
    BY <1>14, <2>1, <2>2, <2>3
<1> DEFINE Make(g, nets, unsafes, groups, nb, na) ==
              [name |-> g[1].content, networks |-> nets, unsafe_networks |-> unsafes,
               groups |-> groups, is_ca |-> g[5].raw # <<>>, not_before |-> nb,
               not_after |-> na, issuer |-> g[8].content]
           Decode(g) ==
              {Make(g, nets, unsafes, groups, nb, na) :
                 nets \in Networks(g[2].content), unsafes \in Networks(g[3].content),
                 groups \in Groups(g[4].content), nb \in decode_der_int(g[6].content),
                 na \in decode_der_int(g[7].content)}
<1>18. decode_details(w) =
          UNION {UNION {Decode(g) : g \in {g \in read_fields(o.content, DetailsFields) :
                                              from_utf8(g[1].content)}} :
                    o \in read_tlv(w, 1, TAG_CERT_DETAILS)}
  BY DEF decode_details
<1>19. Decode(f) = {d}
  <2>1. d = [name |-> d.name, networks |-> d.networks, unsafe_networks |-> d.unsafe_networks,
             groups |-> d.groups, is_ca |-> d.is_ca, not_before |-> d.not_before,
             not_after |-> d.not_after, issuer |-> d.issuer]
    BY DEF Details
  <2>2. d = Make(f, d.networks, d.unsafe_networks, d.groups, d.not_before, d.not_after)
    BY <1>17, <2>1, Zenon
  <2> HIDE DEF Make
  <2>3. Decode(f) = {Make(f, d.networks, d.unsafe_networks, d.groups, d.not_before, d.not_after)}
    BY <1>15, <1>16
  <2> HIDE DEF Decode
  <2> QED
    BY <2>2, <2>3
<1>20. decode_details(w) = Decode(f)
  <2> HIDE DEF Decode
  <2>1. {g \in read_fields(body, DetailsFields) : from_utf8(g[1].content)} = {f}
    BY <1>11, <1>13, <1>17
  <2>2. UNION {UNION {Decode(g) : g \in {g \in read_fields(o.content, DetailsFields) :
                                            from_utf8(g[1].content)}} : o \in {outer}}
            = UNION {Decode(g) : g \in {g \in read_fields(outer.content, DetailsFields) :
                                            from_utf8(g[1].content)}}
    OBVIOUS
  <2>3. UNION {Decode(g) : g \in {f}} = Decode(f)
    OBVIOUS
  <2> QED
    BY <1>4, <1>7, <1>18, <2>1, <2>2, <2>3
<1> HIDE DEF Decode
<1> QED
  BY <1>3, <1>19, <1>20

-----------------------------------------------------------------------------
(* Certificates.                                                           *)

LEMMA ConcatTwo ==
    ASSUME NEW a \in Bytes, NEW b \in Bytes
    PROVE  /\ <<a, b>> \in Seq(Bytes)
           /\ Len(Concat(<<a, b>>)) = Len(a) + Len(b)
<1>1. PICK p : p = <<a, b>>
  OBVIOUS
<1>2. p \in Seq(Bytes) /\ Len(p) = 2 /\ p[1] = a /\ p[2] = b
  BY <1>1
<1>3. PICK out : Cumulates(out, p)
  BY <1>2, ConcatIs
<1>4. Len(out[0]) = 0 /\ Concat(p) = out[2]
  BY <1>2, <1>3 DEF Cumulates
<1>5. \A k \in 1..2 : Len(out[k]) = Len(out[k - 1]) + Len(p[k])
  BY <1>2, <1>3, PartsAt
<1>6. /\ Len(out[1]) = Len(out[0]) + Len(a)
      /\ Len(out[2]) = Len(out[1]) + Len(b)
  BY <1>2, <1>5
<1>7. Len(a) \in Nat /\ Len(b) \in Nat
  BY DEF Bytes
<1>8. Len(out[2]) = Len(a) + Len(b)
  BY <1>4, <1>6, <1>7
<1> QED
  BY <1>1, <1>2, <1>4, <1>8

LEMMA ConcatFour ==
    ASSUME NEW a \in Bytes, NEW b \in Bytes, NEW c \in Bytes, NEW d \in Bytes
    PROVE  /\ <<a, b, c, d>> \in Seq(Bytes)
           /\ Len(Concat(<<a, b, c, d>>)) = Len(a) + Len(b) + Len(c) + Len(d)
<1>1. PICK p : p = <<a, b, c, d>>
  OBVIOUS
<1>2. p \in Seq(Bytes) /\ Len(p) = 4 /\ p[1] = a /\ p[2] = b /\ p[3] = c /\ p[4] = d
  BY <1>1
<1>3. PICK out : Cumulates(out, p)
  BY <1>2, ConcatIs
<1>4. Len(out[0]) = 0 /\ Concat(p) = out[4]
  BY <1>2, <1>3 DEF Cumulates
<1>5. \A k \in 1..4 : Len(out[k]) = Len(out[k - 1]) + Len(p[k])
  BY <1>2, <1>3, PartsAt
<1>6. /\ Len(out[1]) = Len(out[0]) + Len(a)
      /\ Len(out[2]) = Len(out[1]) + Len(b)
      /\ Len(out[3]) = Len(out[2]) + Len(c)
      /\ Len(out[4]) = Len(out[3]) + Len(d)
  BY <1>2, <1>5
<1>7. Len(a) \in Nat /\ Len(b) \in Nat /\ Len(c) \in Nat /\ Len(d) \in Nat
  BY DEF Bytes
<1>8. Len(out[4]) = Len(a) + Len(b) + Len(c) + Len(d)
  BY <1>4, <1>6, <1>7
<1> QED
  BY <1>1, <1>2, <1>4, <1>8

CertFields == <<<<TAG_CERT_DETAILS, FALSE>>, <<TAG_CERT_CURVE, TRUE>>,
                <<TAG_CERT_PUBLIC_KEY, FALSE>>, <<TAG_CERT_SIGNATURE, FALSE>>>>

HandshakeFields == <<<<TAG_CERT_DETAILS, FALSE>>, <<TAG_CERT_SIGNATURE, FALSE>>>>

LEMMA CertTags ==
    /\ TAG_CERT_DETAILS \in Byte /\ TAG_CERT_CURVE \in Byte /\ TAG_CERT_PUBLIC_KEY \in Byte
    /\ TAG_CERT_SIGNATURE \in Byte /\ SEQUENCE \in Byte
    /\ Curve25519 \in Byte /\ P256 \in Byte /\ Curve25519 # P256
  BY DEF Byte, TAG_CERT_DETAILS, TAG_CERT_CURVE, TAG_CERT_PUBLIC_KEY, TAG_CERT_SIGNATURE,
         SEQUENCE, Curve25519, P256

LEMMA CertFieldsAre ==
    /\ CertFields \in Fields /\ Len(CertFields) = 4 /\ Distinct(CertFields)
    /\ CertFields[1] = <<TAG_CERT_DETAILS, FALSE>>
    /\ CertFields[2] = <<TAG_CERT_CURVE, TRUE>>
    /\ CertFields[3] = <<TAG_CERT_PUBLIC_KEY, FALSE>>
    /\ CertFields[4] = <<TAG_CERT_SIGNATURE, FALSE>>
<1>1. /\ Len(CertFields) = 4
      /\ CertFields[1] = <<TAG_CERT_DETAILS, FALSE>>
      /\ CertFields[2] = <<TAG_CERT_CURVE, TRUE>>
      /\ CertFields[3] = <<TAG_CERT_PUBLIC_KEY, FALSE>>
      /\ CertFields[4] = <<TAG_CERT_SIGNATURE, FALSE>>
  BY DEF CertFields
<1>2. CertFields \in Fields
  <2> DEFINE P == Byte \X BOOLEAN
  <2>1. /\ <<TAG_CERT_DETAILS, FALSE>> \in P /\ <<TAG_CERT_CURVE, TRUE>> \in P
        /\ <<TAG_CERT_PUBLIC_KEY, FALSE>> \in P /\ <<TAG_CERT_SIGNATURE, FALSE>> \in P
    BY CertTags
  <2>2. Fields = Seq(P)
    BY DEF Fields
  <2> HIDE DEF P
  <2>3. ASSUME NEW a \in P, NEW b \in P, NEW c \in P, NEW d \in P
        PROVE  <<a, b, c, d>> \in Seq(P)
    OBVIOUS
  <2>4. CertFields \in Seq(P)
    BY <2>1, <2>3 DEF CertFields
  <2> QED
    BY <2>2, <2>4
<1>3. /\ CertFields[1][1] = 160 /\ CertFields[2][1] = 129
      /\ CertFields[3][1] = 130 /\ CertFields[4][1] = 131
  BY <1>1 DEF TAG_CERT_DETAILS, TAG_CERT_CURVE, TAG_CERT_PUBLIC_KEY, TAG_CERT_SIGNATURE
<1>4. Distinct(CertFields)
  <2>1. ASSUME NEW j \in 1..4, NEW k \in 1..4, CertFields[j][1] = CertFields[k][1]
        PROVE  j = k
    <3>1. /\ j = 1 \/ j = 2 \/ j = 3 \/ j = 4
          /\ k = 1 \/ k = 2 \/ k = 3 \/ k = 4
      OBVIOUS
    <3> QED
      BY <1>3, <2>1, <3>1
  <2> QED
    BY <1>1, <2>1 DEF Distinct
<1> QED
  BY <1>1, <1>2, <1>4

LEMMA HandshakeFieldsAre ==
    /\ HandshakeFields \in Fields /\ Len(HandshakeFields) = 2 /\ Distinct(HandshakeFields)
    /\ HandshakeFields[1] = <<TAG_CERT_DETAILS, FALSE>>
    /\ HandshakeFields[2] = <<TAG_CERT_SIGNATURE, FALSE>>
<1>1. /\ Len(HandshakeFields) = 2
      /\ HandshakeFields[1] = <<TAG_CERT_DETAILS, FALSE>>
      /\ HandshakeFields[2] = <<TAG_CERT_SIGNATURE, FALSE>>
  BY DEF HandshakeFields
<1>2. HandshakeFields \in Fields
  <2> DEFINE P == Byte \X BOOLEAN
  <2>1. <<TAG_CERT_DETAILS, FALSE>> \in P /\ <<TAG_CERT_SIGNATURE, FALSE>> \in P
    BY CertTags
  <2>2. Fields = Seq(P)
    BY DEF Fields
  <2> HIDE DEF P
  <2>3. ASSUME NEW a \in P, NEW b \in P
        PROVE  <<a, b>> \in Seq(P)
    OBVIOUS
  <2>4. HandshakeFields \in Seq(P)
    BY <2>1, <2>3 DEF HandshakeFields
  <2> QED
    BY <2>2, <2>4
<1>3. HandshakeFields[1][1] = 160 /\ HandshakeFields[2][1] = 131
  BY <1>1 DEF TAG_CERT_DETAILS, TAG_CERT_SIGNATURE
<1>4. Distinct(HandshakeFields)
  <2>1. ASSUME NEW j \in 1..2, NEW k \in 1..2, HandshakeFields[j][1] = HandshakeFields[k][1]
        PROVE  j = k
    <3>1. /\ j = 1 \/ j = 2
          /\ k = 1 \/ k = 2
      OBVIOUS
    <3> QED
      BY <1>3, <2>1, <3>1
  <2> QED
    BY <1>1, <2>1 DEF Distinct
<1> QED
  BY <1>1, <1>2, <1>4

\* A certificate as it is built from its details.
BuiltFrom(c, d, curve, pk, sig) ==
    /\ c = Cert(d, encode_details(d), curve, pk, sig)
    /\ d \in Details /\ curve \in {Curve25519, P256} /\ pk \in Bytes /\ sig \in Bytes
    /\ IsUsize(Len(encode(c)))

CertParts(c) == <<c.raw_details,
                  Unless(c.curve = Curve25519, write_tlv(TAG_CERT_CURVE, <<c.curve>>)),
                  write_tlv(TAG_CERT_PUBLIC_KEY, c.public_key),
                  write_tlv(TAG_CERT_SIGNATURE, c.signature)>>

HandshakeParts(c) == <<c.raw_details, write_tlv(TAG_CERT_SIGNATURE, c.signature)>>

\* Both encodings are one TLV around their parts; all lengths are a usize.
LEMMA Encodings ==
    ASSUME NEW c, NEW d, NEW curve, NEW pk, NEW sig, BuiltFrom(c, d, curve, pk, sig)
    PROVE  /\ encode(c) = write_tlv(SEQUENCE, Concat(CertParts(c)))
           /\ encode_for_handshake(c) = write_tlv(SEQUENCE, Concat(HandshakeParts(c)))
           /\ Concat(CertParts(c)) \in Bytes /\ IsUsize(Len(Concat(CertParts(c))))
           /\ Concat(HandshakeParts(c)) \in Bytes /\ IsUsize(Len(Concat(HandshakeParts(c))))
           /\ IsUsize(Len(encode_details(d)))
           /\ CertParts(c) \in Seq(Bytes) /\ HandshakeParts(c) \in Seq(Bytes)
<1>1. /\ c.raw_details = encode_details(d) /\ c.curve = curve
      /\ c.public_key = pk /\ c.signature = sig
      /\ d \in Details /\ curve \in {Curve25519, P256} /\ pk \in Bytes /\ sig \in Bytes
  BY DEF BuiltFrom, Cert
<1>2. PICK raw \in Bytes : raw = c.raw_details /\ raw = encode_details(d)
  BY <1>1, EncodeDetailsBytes
<1>3. PICK u \in Bytes : u = Unless(c.curve = Curve25519, write_tlv(TAG_CERT_CURVE, <<c.curve>>))
  <2>1. <<curve>> \in Bytes
    <3>1. curve \in Byte
      BY <1>1, CertTags
    <3> QED
      BY <3>1 DEF Bytes
  <2>2. write_tlv(TAG_CERT_CURVE, <<curve>>) \in Bytes /\ <<>> \in Bytes
    <3>1. write_tlv(TAG_CERT_CURVE, <<curve>>) \in Bytes
      BY <2>1, CertTags, WriteTlvBytes
    <3> QED
      BY <3>1 DEF Bytes
  <2> QED
    BY <1>1, <2>2 DEF Unless
<1>4. PICK v \in Bytes, w \in Bytes : /\ v = write_tlv(TAG_CERT_PUBLIC_KEY, c.public_key)
                                      /\ w = write_tlv(TAG_CERT_SIGNATURE, c.signature)
  BY <1>1, CertTags, WriteTlvBytes
<1>5. CertParts(c) = <<raw, u, v, w>> /\ HandshakeParts(c) = <<raw, w>>
  BY <1>2, <1>3, <1>4 DEF CertParts, HandshakeParts
<1>6. /\ <<raw, u, v, w>> \in Seq(Bytes)
      /\ Len(Concat(<<raw, u, v, w>>)) = Len(raw) + Len(u) + Len(v) + Len(w)
  BY ConcatFour
<1>7. <<raw, w>> \in Seq(Bytes) /\ Len(Concat(<<raw, w>>)) = Len(raw) + Len(w)
  BY ConcatTwo
<1>8. Len(raw) \in Nat /\ Len(u) \in Nat /\ Len(v) \in Nat /\ Len(w) \in Nat
  BY DEF Bytes
<1>9. PICK whole \in Bytes : whole = Concat(CertParts(c))
  BY <1>5, <1>6, ConcatBytes
<1>10. PICK half \in Bytes : half = Concat(HandshakeParts(c))
  BY <1>5, <1>7, ConcatBytes
<1>11. encode(c) = write_tlv(SEQUENCE, whole)
  BY <1>9 DEF encode, CertParts
<1>12. encode_for_handshake(c) = write_tlv(SEQUENCE, half)
  BY <1>10 DEF encode_for_handshake, HandshakeParts
<1>13. Len(whole) \in Nat /\ IsUsize(Len(whole))
  <2>1. /\ Len(whole) \in Nat /\ Len(write_tlv(SEQUENCE, whole)) \in Nat
        /\ Len(whole) < Len(write_tlv(SEQUENCE, whole))
    BY CertTags, WriteTlvBytes
  <2>2. Len(whole) <= Len(write_tlv(SEQUENCE, whole))
    BY <2>1
  <2>3. IsUsize(Len(write_tlv(SEQUENCE, whole)))
    BY <1>11 DEF BuiltFrom
  <2> QED
    BY <2>1, <2>2, <2>3, UsizeInside
<1>14. Len(whole) = Len(raw) + Len(u) + Len(v) + Len(w) /\ Len(half) = Len(raw) + Len(w)
  BY <1>5, <1>6, <1>7, <1>9, <1>10
<1>15. Len(half) \in Nat /\ Len(half) <= Len(whole) /\ Len(raw) <= Len(whole)
  BY <1>8, <1>13, <1>14
<1>16. IsUsize(Len(half)) /\ IsUsize(Len(raw))
  BY <1>8, <1>13, <1>15, UsizeInside
<1> QED
  BY <1>2, <1>5, <1>6, <1>7, <1>9, <1>10, <1>11, <1>12, <1>13, <1>16

\* A certificate decodes from its file to what it was.
LEMMA DecodeEncoded ==
    ASSUME NEW c, NEW d, NEW curve, NEW pk, NEW sig, BuiltFrom(c, d, curve, pk, sig)
    PROVE  decode(encode(c)) = {c}
<1>1. /\ c.raw_details = encode_details(d) /\ c.curve = curve
      /\ c.public_key = pk /\ c.signature = sig /\ c = Cert(d, encode_details(d), curve, pk, sig)
      /\ d \in Details /\ curve \in {Curve25519, P256} /\ pk \in Bytes /\ sig \in Bytes
  BY DEF BuiltFrom, Cert
<1>2. PICK p : p = CertParts(c) /\ p \in Seq(Bytes)
  BY Encodings
<1>3. PICK body \in Bytes : /\ body = Concat(p) /\ IsUsize(Len(body))
                            /\ encode(c) = write_tlv(SEQUENCE, body)
  BY <1>2, Encodings
<1>4. PICK der \in Bytes : der = write_tlv(SEQUENCE, body)
  BY CertTags, WriteTlvBytes
<1>5. PICK envelope : envelope.content = body /\ read_tlv(der, 1, SEQUENCE) = {envelope}
  <2>1. At(der, 1, der)
    BY AtFirst
  <2>2. read_tlv(der, 1, SEQUENCE) = {[content |-> body, raw |-> der, pos |-> 1 + Len(der)]}
    BY <1>3, <1>4, <2>1, CertTags, ReadWritten
  <2> QED
    BY <2>2
<1>6. PICK q : q = <<Concat(DetailsParts(d)), IF curve = Curve25519 THEN <<>> ELSE <<curve>>, pk, sig>>
  OBVIOUS
<1>7. /\ q[1] = Concat(DetailsParts(d)) /\ q[2] = (IF curve = Curve25519 THEN <<>> ELSE <<curve>>)
      /\ q[3] = pk /\ q[4] = sig
  BY <1>6
<1>8. /\ q[1] \in Bytes /\ q[2] \in Bytes /\ q[3] \in Bytes /\ q[4] \in Bytes
  <2>1. <<>> \in Bytes /\ <<curve>> \in Bytes
    <3>1. curve \in Byte
      BY <1>1, CertTags
    <3> QED
      BY <3>1 DEF Bytes
  <2>2. q[1] \in Bytes
    BY <1>1, <1>7, EncodeDetailsBytes
  <2>3. q[2] \in Bytes
    BY <1>7, <2>1
  <2> QED
    BY <1>1, <1>7, <2>2, <2>3
<1>9. /\ p[1] = write_tlv(TAG_CERT_DETAILS, q[1])
      /\ p[2] = write_tlv(TAG_CERT_CURVE, q[2]) \/ (p[2] = <<>> /\ q[2] = <<>>)
      /\ p[3] = write_tlv(TAG_CERT_PUBLIC_KEY, q[3])
      /\ p[4] = write_tlv(TAG_CERT_SIGNATURE, q[4])
      /\ Len(p) = 4
  <2>1. /\ p[1] = c.raw_details
        /\ p[2] = Unless(c.curve = Curve25519, write_tlv(TAG_CERT_CURVE, <<c.curve>>))
        /\ p[3] = write_tlv(TAG_CERT_PUBLIC_KEY, c.public_key)
        /\ p[4] = write_tlv(TAG_CERT_SIGNATURE, c.signature)
        /\ Len(p) = 4
    BY <1>2 DEF CertParts
  <2>2. c.raw_details = write_tlv(TAG_CERT_DETAILS, q[1])
    BY <1>1, <1>7, EncodeDetailsIs
  <2>3. p[2] = write_tlv(TAG_CERT_CURVE, q[2]) \/ (p[2] = <<>> /\ q[2] = <<>>)
    <3>1. CASE curve = Curve25519
      BY <1>1, <1>7, <2>1, <3>1 DEF Unless
    <3>2. CASE curve # Curve25519
      BY <1>1, <1>7, <2>1, <3>2 DEF Unless
    <3> QED
      BY <3>1, <3>2
  <2> QED
    BY <1>1, <1>7, <2>1, <2>2, <2>3
<1>10. PartsOf(p, CertFields, q)
  <2> DEFINE Part(k) == \/ p[k] = write_tlv(CertFields[k][1], q[k])
                        \/ CertFields[k][2] /\ p[k] = <<>> /\ q[k] = <<>>
  <2>1. ASSUME NEW k \in 1..4 PROVE q[k] \in Bytes /\ Part(k)
    <3>1. Part(1) /\ Part(2) /\ Part(3) /\ Part(4)
      BY <1>9, CertFieldsAre
    <3>2. k = 1 \/ k = 2 \/ k = 3 \/ k = 4
      OBVIOUS
    <3> HIDE DEF Part
    <3> QED
      BY <1>8, <3>1, <3>2
  <2> QED
    BY <1>2, <1>9, <2>1, CertFieldsAre DEF PartsOf
<1>11. PICK f : ReadAs(read_fields(body, CertFields), f, p, q)
  <2>1. IsUsize(Len(Concat(p)))
    BY <1>3
  <2> QED
    BY <1>3, <1>10, <2>1, CertFieldsAre, FieldsWritten
<1>12. /\ read_fields(body, CertFields) = {f}
       /\ f[1].raw = p[1] /\ f[2].raw = p[2] /\ f[2].content = q[2]
       /\ f[3].content = q[3] /\ f[4].content = q[4]
  BY <1>9, <1>11 DEF ReadAs
<1>13. decode_details(f[1].raw) = {d}
  <2>1. f[1].raw = encode_details(d)
    BY <1>1, <1>2, <1>12 DEF CertParts
  <2> QED
    BY <1>1, <2>1, Encodings, DetailsRoundTrip
<1>14. CurveDecode(f[2]) = {curve}
  <2>1. CASE curve = Curve25519
    <3>1. p[2] = <<>>
      BY <1>1, <1>2, <2>1 DEF CertParts, Unless
    <3> QED
      BY <1>12, <2>1, <3>1 DEF CurveDecode
  <2>2. CASE curve = P256
    <3>1. curve # Curve25519
      BY <2>2, CertTags
    <3>2. q[2] = <<curve>> /\ p[2] = write_tlv(TAG_CERT_CURVE, q[2])
      BY <1>1, <1>2, <1>7, <3>1 DEF CertParts, Unless
    <3>3. PICK x \in Bytes : x = q[2]
      BY <1>8
    <3>4. Len(x) < Len(write_tlv(TAG_CERT_CURVE, x)) /\ Len(x) \in Nat
      BY CertTags, WriteTlvBytes
    <3>5. p[2] # <<>>
      <4>1. SUFFICES ASSUME p[2] = <<>> PROVE FALSE
        OBVIOUS
      <4>2. Len(write_tlv(TAG_CERT_CURVE, x)) = 0
        BY <3>2, <3>3, <4>1
      <4> QED
        BY <3>4, <4>2
    <3>6. f[2].raw # <<>> /\ f[2].content = <<curve>>
      BY <1>12, <3>2, <3>5
    <3>7. Len(f[2].content) = 1 /\ f[2].content[1] = curve
      BY <3>6
    <3> QED
      BY <1>1, <3>6, <3>7 DEF CurveDecode
  <2> QED
    BY <1>1, <2>1, <2>2
<1> DEFINE Of(g) == {Cert(x, g[1].raw, y, g[3].content, g[4].content) :
                        x \in decode_details(g[1].raw), y \in CurveDecode(g[2])}
<1>15. decode(der) = UNION {UNION {Of(g) : g \in read_fields(e.content, CertFields)} :
                               e \in read_tlv(der, 1, SEQUENCE)}
  BY DEF decode, CertFields
<1>16. Of(f) = {c}
  <2>1. Of(f) = {Cert(d, f[1].raw, curve, f[3].content, f[4].content)}
    BY <1>13, <1>14
  <2>2. f[1].raw = encode_details(d) /\ f[3].content = pk /\ f[4].content = sig
    BY <1>1, <1>2, <1>7, <1>12 DEF CertParts
  <2> QED
    BY <1>1, <2>1, <2>2
<1>17. decode(der) = Of(f)
  <2> HIDE DEF Of
  <2>1. UNION {UNION {Of(g) : g \in read_fields(e.content, CertFields)} : e \in {envelope}}
           = UNION {Of(g) : g \in read_fields(envelope.content, CertFields)}
    OBVIOUS
  <2>2. UNION {Of(g) : g \in {f}} = Of(f)
    OBVIOUS
  <2> QED
    BY <1>5, <1>12, <1>15, <2>1, <2>2
<1> HIDE DEF Of
<1> QED
  BY <1>3, <1>4, <1>16, <1>17

\* What a handshake carries is put together with the peer's key.
LEMMA RecombineEncoded ==
    ASSUME NEW c, NEW d, NEW curve, NEW pk, NEW sig, BuiltFrom(c, d, curve, pk, sig),
           NEW k, NEW cv
    PROVE  recombine(encode_for_handshake(c), k, cv) = {Cert(d, encode_details(d), cv, k, sig)}
<1>1. /\ c.raw_details = encode_details(d) /\ c.signature = sig
      /\ d \in Details /\ sig \in Bytes
  BY DEF BuiltFrom, Cert
<1>2. PICK p : p = HandshakeParts(c) /\ p \in Seq(Bytes)
  BY Encodings
<1>3. PICK body \in Bytes : /\ body = Concat(p) /\ IsUsize(Len(body))
                            /\ encode_for_handshake(c) = write_tlv(SEQUENCE, body)
  BY <1>2, Encodings
<1>4. PICK der \in Bytes : der = write_tlv(SEQUENCE, body)
  BY CertTags, WriteTlvBytes
<1>5. PICK envelope : envelope.content = body /\ read_tlv(der, 1, SEQUENCE) = {envelope}
  <2>1. At(der, 1, der)
    BY AtFirst
  <2>2. read_tlv(der, 1, SEQUENCE) = {[content |-> body, raw |-> der, pos |-> 1 + Len(der)]}
    BY <1>3, <1>4, <2>1, CertTags, ReadWritten
  <2> QED
    BY <2>2
<1>6. PICK q : q = <<Concat(DetailsParts(d)), sig>>
  OBVIOUS
<1>7. q[1] = Concat(DetailsParts(d)) /\ q[2] = sig
  BY <1>6
<1>8. q[1] \in Bytes /\ q[2] \in Bytes
  BY <1>1, <1>7, EncodeDetailsBytes
<1>9. /\ p[1] = write_tlv(TAG_CERT_DETAILS, q[1])
      /\ p[2] = write_tlv(TAG_CERT_SIGNATURE, q[2])
      /\ Len(p) = 2 /\ p[1] = encode_details(d)
  <2>1. p[1] = c.raw_details /\ p[2] = write_tlv(TAG_CERT_SIGNATURE, c.signature) /\ Len(p) = 2
    BY <1>2 DEF HandshakeParts
  <2>2. c.raw_details = write_tlv(TAG_CERT_DETAILS, q[1])
    BY <1>1, <1>7, EncodeDetailsIs
  <2> QED
    BY <1>1, <1>7, <2>1, <2>2
<1>10. PartsOf(p, HandshakeFields, q)
  <2> DEFINE Part(i) == \/ p[i] = write_tlv(HandshakeFields[i][1], q[i])
                        \/ HandshakeFields[i][2] /\ p[i] = <<>> /\ q[i] = <<>>
  <2>1. ASSUME NEW i \in 1..2 PROVE q[i] \in Bytes /\ Part(i)
    <3>0. HandshakeFields[1][1] = TAG_CERT_DETAILS /\ HandshakeFields[2][1] = TAG_CERT_SIGNATURE
      BY HandshakeFieldsAre
    <3>1. Part(1) /\ Part(2)
      BY <1>9, <3>0
    <3>2. i = 1 \/ i = 2
      OBVIOUS
    <3> HIDE DEF Part
    <3> QED
      BY <1>8, <3>1, <3>2
  <2> QED
    BY <1>2, <1>9, <2>1, HandshakeFieldsAre DEF PartsOf
<1>11. PICK f : ReadAs(read_fields(body, HandshakeFields), f, p, q)
  <2>1. IsUsize(Len(Concat(p)))
    BY <1>3
  <2> QED
    BY <1>3, <1>10, <2>1, HandshakeFieldsAre, FieldsWritten
<1>12. /\ read_fields(body, HandshakeFields) = {f}
       /\ f[1].raw = encode_details(d) /\ f[2].content = sig
  BY <1>7, <1>9, <1>11 DEF ReadAs
<1>13. decode_details(f[1].raw) = {d}
  BY <1>1, <1>12, Encodings, DetailsRoundTrip
<1> DEFINE Of(g) == {Cert(x, g[1].raw, cv, k, g[2].content) : x \in decode_details(g[1].raw)}
<1>15. recombine(der, k, cv) =
          UNION {UNION {Of(g) : g \in read_fields(e.content, HandshakeFields)} :
                    e \in read_tlv(der, 1, SEQUENCE)}
  BY DEF recombine, HandshakeFields
<1>16. Of(f) = {Cert(d, encode_details(d), cv, k, sig)}
  BY <1>12, <1>13
<1>17. recombine(der, k, cv) = Of(f)
  <2> HIDE DEF Of
  <2>1. UNION {UNION {Of(g) : g \in read_fields(e.content, HandshakeFields)} : e \in {envelope}}
           = UNION {Of(g) : g \in read_fields(envelope.content, HandshakeFields)}
    OBVIOUS
  <2>2. UNION {Of(g) : g \in {f}} = Of(f)
    OBVIOUS
  <2> QED
    BY <1>5, <1>12, <1>15, <2>1, <2>2
<1> HIDE DEF Of
<1> QED
  BY <1>3, <1>4, <1>16, <1>17

\* Neither encoding reads when its end is missing.
LEMMA CutEncoding ==
    ASSUME NEW c, NEW d, NEW curve, NEW pk, NEW sig, BuiltFrom(c, d, curve, pk, sig),
           NEW k, NEW cv
    PROVE  /\ \A n \in 0..(Len(encode(c)) - 1) : decode(SubSeq(encode(c), 1, n)) = {}
           /\ \A n \in 0..(Len(encode_for_handshake(c)) - 1) :
                 recombine(SubSeq(encode_for_handshake(c), 1, n), k, cv) = {}
<1>1. ASSUME NEW n \in 0..(Len(encode(c)) - 1)
      PROVE  decode(SubSeq(encode(c), 1, n)) = {}
  <2>1. PICK body \in Bytes : IsUsize(Len(body)) /\ encode(c) = write_tlv(SEQUENCE, body)
    BY Encodings
  <2>2. read_tlv(SubSeq(encode(c), 1, n), 1, SEQUENCE) = {}
    BY <2>1, CertTags, ReadCut
  <2> QED
    BY <2>2 DEF decode
<1>2. ASSUME NEW n \in 0..(Len(encode_for_handshake(c)) - 1)
      PROVE  recombine(SubSeq(encode_for_handshake(c), 1, n), k, cv) = {}
  <2>1. PICK body \in Bytes : /\ IsUsize(Len(body))
                              /\ encode_for_handshake(c) = write_tlv(SEQUENCE, body)
    BY Encodings
  <2>2. read_tlv(SubSeq(encode_for_handshake(c), 1, n), 1, SEQUENCE) = {}
    BY <2>1, CertTags, ReadCut
  <2> QED
    BY <2>2 DEF recombine
<1> QED
  BY <1>1, <1>2

\* What was issued was built from details.
LEMMA IssuedIs ==
    ASSUME NEW i \in DOMAIN Requests
    PROVE  LET d == [Requests[i].details EXCEPT !.issuer = fingerprint(ca_cert)] IN
           /\ BuiltFrom(Issued[i], d, Requests[i].curve, Requests[i].public_key,
                        Requests[i].signature)
           /\ d.issuer = fingerprint(ca_cert)
           /\ d.is_ca = Requests[i].details.is_ca /\ d.networks = Requests[i].details.networks
           /\ d.not_before = Requests[i].details.not_before
           /\ d.not_after = Requests[i].details.not_after
<1>1. /\ Requests[i].details \in Details /\ Requests[i].curve \in {Curve25519, P256}
      /\ Requests[i].public_key \in Bytes /\ Requests[i].signature \in Bytes
      /\ IsUsize(Len(encode(Issued[i])))
  BY CertificateAssumption
<1>2. fingerprint(ca_cert) \in Bytes
  <2>1. PICK raw \in Bytes : raw = encode_details(CaDetails)
    BY CertificateAssumption, EncodeDetailsBytes
  <2>2. /\ ca_cert.raw_details = raw /\ ca_cert.curve = Curve25519
        /\ ca_cert.public_key = CaKey /\ ca_cert.signature = CaSignature
    BY <2>1 DEF ca_cert, Built, Cert
  <2>3. CaKey \in Bytes /\ CaSignature \in Bytes /\ Curve25519 \in Byte
    BY CertificateAssumption, CertTags
  <2>4. fingerprint(ca_cert) = (Append(raw, Curve25519) \o CaKey) \o CaSignature
    BY <2>2 DEF fingerprint, signing_bytes
  <2> QED
    BY <2>3, <2>4 DEF Bytes
<1>3. PICK r \in Details, fp \in Bytes : r = Requests[i].details /\ fp = fingerprint(ca_cert)
  BY <1>1, <1>2
<1>4. PICK d : d = [r EXCEPT !.issuer = fp]
  OBVIOUS
<1>5. /\ d \in Details /\ d.issuer = fp /\ d.is_ca = r.is_ca /\ d.networks = r.networks
      /\ d.not_before = r.not_before /\ d.not_after = r.not_after
  BY <1>4 DEF Details
<1>6. Issued[i] = Cert(d, encode_details(d), Requests[i].curve, Requests[i].public_key,
                       Requests[i].signature)
  BY <1>3, <1>4 DEF Issued, Built
<1>7. BuiltFrom(Issued[i], d, Requests[i].curve, Requests[i].public_key, Requests[i].signature)
  BY <1>1, <1>5, <1>6 DEF BuiltFrom
<1> QED
  BY <1>3, <1>4, <1>5, <1>7

-----------------------------------------------------------------------------
(* What an accepted certificate says.                                      *)

\* A certificate as it comes out of some bytes.
Decoded(c) ==
    /\ c.public_key \in Bytes
    /\ \E data \in Bytes, r \in Tlv :
          /\ r \in read_tlv(data, 1, TAG_CERT_DETAILS)
          /\ c.raw_details = r.raw /\ c.details \in decode_details(r.raw)

LEMMA DecodedFile ==
    ASSUME NEW der \in Bytes, NEW c \in decode(der)
    PROVE  Decoded(c)
<1> DEFINE Of(f) == {Cert(d, f[1].raw, v, f[3].content, f[4].content) :
                        d \in decode_details(f[1].raw), v \in CurveDecode(f[2])}
<1>0. decode(der) = UNION {UNION {Of(f) : f \in read_fields(e.content, CertFields)} :
                              e \in read_tlv(der, 1, SEQUENCE)}
  BY DEF decode, CertFields
<1> HIDE DEF Of
<1>1. PICK envelope \in read_tlv(der, 1, SEQUENCE) :
          \E f \in read_fields(envelope.content, CertFields) : c \in Of(f)
  BY <1>0
<1>a. PICK f \in read_fields(envelope.content, CertFields) : c \in Of(f)
  BY <1>1
<1>2. PICK d \in decode_details(f[1].raw), v \in CurveDecode(f[2]) :
          c = Cert(d, f[1].raw, v, f[3].content, f[4].content)
  BY <1>a DEF Of
<1>3. PICK data \in Bytes : data = envelope.content
  <2>1. envelope \in Tlv
    BY ReadTlvIs
  <2> QED
    BY <2>1 DEF Tlv
<1>4. /\ \A k \in 1..Len(CertFields) : f[k] \in Tlv
      /\ Len(CertFields) >= 1 => f[1] \in Field(data, 1, CertFields[1])
  BY <1>3, CertFieldsAre, FieldsTyped
<1>5. f[1] \in Tlv /\ f[3] \in Tlv
  BY <1>4, CertFieldsAre
<1>6. f[1] \in read_tlv(data, 1, TAG_CERT_DETAILS)
  BY <1>4, CertFieldsAre DEF Field
<1>7. c.public_key \in Bytes /\ c.raw_details = f[1].raw /\ c.details \in decode_details(f[1].raw)
  BY <1>2, <1>5 DEF Cert, Tlv
<1> QED
  BY <1>5, <1>6, <1>7 DEF Decoded

LEMMA DecodedHandshake ==
    ASSUME NEW der \in Bytes, NEW k \in Bytes, NEW cv, NEW c \in recombine(der, k, cv)
    PROVE  Decoded(c) /\ c.public_key = k
<1>1. PICK envelope \in read_tlv(der, 1, SEQUENCE) :
          c \in UNION {{Cert(d, f[1].raw, cv, k, f[2].content) : d \in decode_details(f[1].raw)} :
                          f \in read_fields(envelope.content, HandshakeFields)}
  BY DEF recombine, HandshakeFields
<1>2. PICK f \in read_fields(envelope.content, HandshakeFields) :
          \E d \in decode_details(f[1].raw) : c = Cert(d, f[1].raw, cv, k, f[2].content)
  BY <1>1
<1>3. PICK data \in Bytes : data = envelope.content
  <2>1. envelope \in Tlv
    BY ReadTlvIs
  <2> QED
    BY <2>1 DEF Tlv
<1>4. /\ \A i \in 1..Len(HandshakeFields) : f[i] \in Tlv
      /\ Len(HandshakeFields) >= 1 => f[1] \in Field(data, 1, HandshakeFields[1])
  BY <1>3, HandshakeFieldsAre, FieldsTyped
<1>5. f[1] \in Tlv
  BY <1>4, HandshakeFieldsAre
<1>6. f[1] \in read_tlv(data, 1, TAG_CERT_DETAILS)
  BY <1>4, HandshakeFieldsAre DEF Field
<1>7. c.public_key = k /\ c.raw_details = f[1].raw /\ c.details \in decode_details(f[1].raw)
  BY <1>2 DEF Cert
<1> QED
  BY <1>5, <1>6, <1>7 DEF Decoded

\* The concatenation that is signed can be taken apart in one way only: the
\* details are a TLV, which ends where it says, and the curve is one byte.
LEMMA SignedIsIssued ==
    ASSUME NEW c, Decoded(c), NEW i \in DOMAIN Requests, c.curve = Curve25519,
           signing_bytes(c) = signing_bytes(Issued[i])
    PROVE  /\ c.details = Issued[i].details
           /\ c.public_key = Requests[i].public_key
           /\ Requests[i].curve = Curve25519
<1>1. PICK data \in Bytes, r \in Tlv :
          /\ r \in read_tlv(data, 1, TAG_CERT_DETAILS)
          /\ c.raw_details = r.raw /\ c.details \in decode_details(r.raw)
  BY DEF Decoded
<1>2. PICK d : BuiltFrom(Issued[i], d, Requests[i].curve, Requests[i].public_key,
                         Requests[i].signature)
  BY IssuedIs
<1>3. /\ Issued[i].raw_details = encode_details(d) /\ Issued[i].details = d
      /\ Issued[i].curve = Requests[i].curve /\ Issued[i].public_key = Requests[i].public_key
      /\ d \in Details /\ Requests[i].curve \in {Curve25519, P256} /\ Requests[i].public_key \in Bytes
  BY <1>2 DEF BuiltFrom, Cert
<1>4. PICK raw \in Bytes, pk \in Bytes, w \in Bytes, qk \in Bytes, x \in Byte, y \in Byte :
          /\ raw = r.raw /\ pk = c.public_key /\ x = c.curve
          /\ w = encode_details(d) /\ qk = Requests[i].public_key /\ y = Requests[i].curve
  <2>1. r.raw \in Bytes /\ c.public_key \in Bytes /\ c.curve \in Byte
    BY CertTags DEF Tlv, Decoded
  <2>2. encode_details(d) \in Bytes /\ Requests[i].curve \in Byte
    BY <1>3, CertTags, EncodeDetailsBytes
  <2> QED
    BY <1>3, <2>1, <2>2
<1>5. PICK all : all = Append(raw, x) \o pk
  OBVIOUS
<1>6. all = Append(w, y) \o qk
  BY <1>1, <1>3, <1>4, <1>5 DEF signing_bytes
<1>7. PICK m \in Nat, n \in Nat, j \in Nat, k \in Nat :
          m = Len(raw) /\ n = Len(pk) /\ j = Len(w) /\ k = Len(qk)
  BY DEF Bytes
<1>8. /\ all \in Bytes /\ Len(all) = m + 1 + n /\ all[m + 1] = x
      /\ \A a \in 1..m : all[a] = raw[a]
      /\ \A a \in 1..n : all[m + 1 + a] = pk[a]
  BY <1>5, <1>7 DEF Bytes
<1>9. /\ Len(all) = j + 1 + k /\ all[j + 1] = y
      /\ \A a \in 1..j : all[a] = w[a]
      /\ \A a \in 1..k : all[j + 1 + a] = qk[a]
  BY <1>6, <1>7 DEF Bytes
<1>10. r \in read_tlv(all, 1, TAG_CERT_DETAILS)
  <2>1. /\ r.pos \in Nat \ {0} /\ r.pos <= Len(data) + 1 /\ raw = SubSeq(data, 1, r.pos - 1)
        /\ \A other \in Bytes :
              /\ r.pos - 1 <= Len(other)
              /\ \A a \in 1..(r.pos - 1) : other[a] = data[a]
              => r \in read_tlv(other, 1, TAG_CERT_DETAILS)
    <3>1. 1 \in Nat \ {0}
      OBVIOUS
    <3>2. r.pos \in Nat \ {0}
      BY DEF Tlv
    <3> QED
      BY <1>1, <1>4, <3>1, <3>2, ReadTlvIs
  <2>2. PICK e \in Nat : e = r.pos - 1
    BY <2>1
  <2>3. Len(data) \in Nat /\ e <= Len(data)
    BY <2>1, <2>2 DEF Bytes
  <2>4. m = e /\ \A a \in 1..e : raw[a] = data[a]
    BY <1>7, <2>1, <2>2, <2>3 DEF Bytes
  <2>5. e <= Len(all) /\ \A a \in 1..e : all[a] = data[a]
    BY <1>8, <2>4
  <2> QED
    BY <1>8, <2>1, <2>2, <2>5
<1>11. raw = w
  <2>1. PICK body \in Bytes : w = write_tlv(TAG_CERT_DETAILS, body) /\ IsUsize(Len(body))
    <3>1. PICK body \in Bytes : body = Concat(DetailsParts(d))
      BY <1>3, EncodeDetailsBytes
    <3>2. w = write_tlv(TAG_CERT_DETAILS, body)
      BY <1>4, <3>1, EncodeDetailsIs
    <3>3. /\ Len(body) \in Nat /\ Len(write_tlv(TAG_CERT_DETAILS, body)) \in Nat
          /\ Len(body) < Len(write_tlv(TAG_CERT_DETAILS, body))
      BY CertTags, WriteTlvBytes
    <3>4. IsUsize(Len(w))
      BY <1>2, <1>4, Encodings
    <3>5. Len(body) <= Len(w) /\ Len(w) \in Nat
      BY <3>2, <3>3
    <3>6. IsUsize(Len(body))
      BY <3>3, <3>4, <3>5, UsizeInside
    <3> QED
      BY <3>2, <3>6
  <2>2. At(all, 1, w)
    <3>1. \A a \in 1..j : all[1 + a - 1] = w[a]
      BY <1>9
    <3>2. 1 + j - 1 <= Len(all)
      BY <1>9
    <3> QED
      BY <1>7, <3>1, <3>2 DEF At
  <2>3. read_tlv(all, 1, TAG_CERT_DETAILS) = {[content |-> body, raw |-> w, pos |-> 1 + Len(w)]}
    BY <1>8, <2>1, <2>2, CertTags, ReadWritten
  <2> QED
    BY <1>4, <1>10, <2>3
<1>12. m = j /\ n = k
  BY <1>7, <1>8, <1>9, <1>11
<1>13. x = y
  BY <1>8, <1>9, <1>12
<1>14. pk = qk
  <2>1. \A a \in 1..n : pk[a] = qk[a]
    BY <1>8, <1>9, <1>12
  <2>2. pk \in Seq(Byte) /\ qk \in Seq(Byte) /\ Len(pk) = n /\ Len(qk) = n
    BY <1>7, <1>12 DEF Bytes
  <2> QED
    BY <2>1, <2>2
<1>15. c.details = d
  <2>1. IsUsize(Len(encode_details(d)))
    BY <1>2, Encodings
  <2>2. decode_details(w) = {d}
    BY <1>3, <1>4, <2>1, DetailsRoundTrip
  <2> QED
    BY <1>1, <1>4, <1>11, <2>2
<1> QED
  BY <1>3, <1>4, <1>13, <1>14, <1>15

-----------------------------------------------------------------------------
(* The journey.                                                            *)

\* The bytes a certificate is sent as.
Encoding == IF form = "file" THEN encode(Issued[origin])
            ELSE encode_for_handshake(Issued[origin])

\* What its receiver takes them for.
Decoding == IF form = "handshake" THEN recombine(bytes, key, Curve25519)
            ELSE UNION {decode(der) : der \in pem_decode(CERTIFICATE_V2_BANNER)}

\* What is known of the bytes until they are decoded, and of the certificate
\* from then on.
CertInv ==
    /\ pc \in {"issued", "sent", "received", "verified"}
    /\ origin \in DOMAIN Requests
    /\ form \in {"file", "handshake"}
    /\ bytes \in Bytes /\ key \in Bytes /\ now \in Int
    /\ pc = "issued" => form = "file" /\ change = "none"
    /\ pc # "issued" /\ change = "none" => bytes = Encoding
    /\ change = "cut" => \E n \in 0..(Len(Encoding) - 1) : bytes = SubSeq(Encoding, 1, n)
    /\ pc \in {"received", "verified"} => cert = Decoding
    /\ IF pc = "verified" THEN \E c \in cert : verdict = verify_host_cert(c, ca_cert, now)
       ELSE verdict = "none"

LEMMA EncodingBytes ==
    ASSUME NEW i \in DOMAIN Requests
    PROVE  encode(Issued[i]) \in Bytes /\ encode_for_handshake(Issued[i]) \in Bytes
<1>1. PICK d : BuiltFrom(Issued[i], d, Requests[i].curve, Requests[i].public_key,
                         Requests[i].signature)
  BY IssuedIs
<1>2. PICK a \in Bytes, b \in Bytes : /\ encode(Issued[i]) = write_tlv(SEQUENCE, a)
                                      /\ encode_for_handshake(Issued[i]) = write_tlv(SEQUENCE, b)
  BY <1>1, Encodings
<1> QED
  BY <1>2, CertTags, WriteTlvBytes

LEMMA CertInit == Init => CertInv
<1> SUFFICES ASSUME Init PROVE CertInv
  OBVIOUS
<1>1. <<>> \in Bytes
  BY DEF Bytes
<1> QED
  BY <1>1 DEF Init, CertInv

LEMMA CertStep == CertInv /\ [Next]_vars => CertInv'
<1> SUFFICES ASSUME CertInv, [Next]_vars PROVE CertInv'
  OBVIOUS
<1>1. CASE UNCHANGED vars
  BY <1>1 DEF vars, CertInv, Encoding, Decoding, pem_decode
<1>2. ASSUME NEW b, Store(b) PROVE CertInv'
  <2>1. bytes' \in Bytes
    BY <1>2, EncodingBytes DEF CertInv, Store
  <2>2. bytes' = Encoding'
    BY <1>2 DEF CertInv, Store, Encoding
  <2> QED
    BY <1>2, <2>1, <2>2 DEF CertInv, Store
<1>3. ASSUME NEW k \in Keys, Present(k) PROVE CertInv'
  <2>1. bytes' \in Bytes
    BY <1>3, EncodingBytes DEF CertInv, Present
  <2>2. bytes' = Encoding'
    BY <1>3 DEF CertInv, Present, Encoding
  <2>3. k \in Bytes
    BY CertificateAssumption DEF Keys
  <2> QED
    BY <1>3, <2>1, <2>2, <2>3 DEF CertInv, Present
<1>4. ASSUME NEW new \in Bytes, NEW what, Change(new, what),
             what = "cut" => \E n \in 0..(Len(bytes) - 1) : new = SubSeq(bytes, 1, n),
             what \in {"cut", "other"}
      PROVE  CertInv'
  <2>1. Encoding' = Encoding /\ bytes = Encoding
    BY <1>4 DEF CertInv, Change, Encoding
  <2>2. change' = "cut" => \E n \in 0..(Len(Encoding') - 1) : bytes' = SubSeq(Encoding', 1, n)
    BY <1>4, <2>1 DEF Change
  <2> QED
    BY <1>4, <2>2 DEF CertInv, Change
<1>5. ASSUME NEW n, Cut(n) PROVE CertInv'
  <2>1. n \in 0..(Len(bytes) - 1) /\ Change(SubSeq(bytes, 1, n), "cut")
    BY <1>5 DEF Cut
  <2>2. SubSeq(bytes, 1, n) \in Bytes
    BY <2>1 DEF CertInv, Bytes
  <2> QED
    BY <1>4, <2>1, <2>2
<1>6. ASSUME NEW i, NEW b \in NewBytes, Replace(i, b) PROVE CertInv'
  <2>1. i \in DOMAIN bytes /\ Change([bytes EXCEPT ![i] = b], "other")
    BY <1>6 DEF Replace
  <2>2. [bytes EXCEPT ![i] = b] \in Bytes
    <3>1. bytes \in Seq(Byte) /\ b \in Byte
      BY CertificateAssumption DEF CertInv, Bytes
    <3> QED
      BY <2>1, <3>1 DEF Bytes
  <2> QED
    BY <1>4, <2>1, <2>2
<1>7. ASSUME NEW b \in NewBytes, Extend(b) PROVE CertInv'
  <2>1. Change(Append(bytes, b), "other")
    BY <1>7 DEF Extend
  <2>2. Append(bytes, b) \in Bytes
    <3>1. bytes \in Seq(Byte) /\ b \in Byte
      BY CertificateAssumption DEF CertInv, Bytes
    <3> QED
      BY <3>1 DEF Bytes
  <2> QED
    BY <1>4, <2>1, <2>2
<1>8. CASE Reframe
  <2>1. Len(bytes) >= 2 /\ Change(<<bytes[1], 129>> \o SubSeq(bytes, 2, Len(bytes)), "other")
    BY <1>8 DEF Reframe
  <2>2. <<bytes[1], 129>> \o SubSeq(bytes, 2, Len(bytes)) \in Bytes
    <3>1. bytes \in Seq(Byte) /\ 129 \in Byte
      BY DEF CertInv, Bytes, Byte
    <3>2. bytes[1] \in Byte /\ SubSeq(bytes, 2, Len(bytes)) \in Seq(Byte)
      BY <2>1, <3>1
    <3>3. PICK x \in Byte, y \in Byte : x = bytes[1] /\ y = 129
      BY <3>1, <3>2
    <3>4. <<x, y>> \in Seq(Byte)
      OBVIOUS
    <3> QED
      BY <3>2, <3>3, <3>4 DEF Bytes
  <2> QED
    BY <1>4, <2>1, <2>2
<1>9. CASE Receive
  <2>1. cert' = Decoding'
    BY <1>9 DEF Receive, Decoding, pem_decode
  <2>2. Encoding' = Encoding
    BY <1>9 DEF Receive, Encoding
  <2> QED
    BY <1>9, <2>1, <2>2 DEF CertInv, Receive
<1>10. ASSUME NEW t \in Times, Verify(t) PROVE CertInv'
  <2>1. t \in Int
    BY CertificateAssumption
  <2>2. Decoding' = Decoding /\ Encoding' = Encoding
    BY <1>10 DEF Verify, Decoding, Encoding, pem_decode
  <2>3. \E c \in cert' : verdict' = verify_host_cert(c, ca_cert, now')
    BY <1>10 DEF Verify
  <2> QED
    BY <1>10, <2>1, <2>2, <2>3 DEF CertInv, Verify
<1> QED
  BY <1>1, <1>2, <1>3, <1>5, <1>6, <1>7, <1>8, <1>9, <1>10 DEF Next

LEMMA CertInvariant == Spec => []CertInv
  BY CertInit, CertStep, PTL DEF Spec

\* verify_host_cert accepts exactly what passes all of its checks.
Passes(c, t) ==
    /\ ~c.details.is_ca
    /\ ~is_expired(ca_cert, t) /\ ~is_expired(c, t)
    /\ c.details.issuer = fingerprint(ca_cert)
    /\ check_signature(c, CaKey) = "Ok"
    /\ c.details.networks # <<>>

LEMMA OkIsPasses ==
    ASSUME NEW c, NEW t
    PROVE  verify_host_cert(c, ca_cert, t) = "Ok" <=> Passes(c, t)
<1>1. ca_cert.details.is_ca /\ ca_cert.public_key = CaKey
  BY CertificateAssumption DEF ca_cert, Built, Cert
<1> QED
  BY <1>1 DEF verify_host_cert, Passes

\* The two windows, in the numbers they are compared as.
LEMMA WindowsOpen ==
    ASSUME NEW i \in DOMAIN Requests, NEW t \in Int, NEW c, c.details = Issued[i].details
    PROVE  /\ ~is_expired(ca_cert, t) <=> t \in CaDetails.not_before..CaDetails.not_after
           /\ ~is_expired(c, t) <=>
                 t \in Requests[i].details.not_before..Requests[i].details.not_after
           /\ c.details.is_ca = Requests[i].details.is_ca
           /\ c.details.networks = Requests[i].details.networks
           /\ c.details.issuer = fingerprint(ca_cert)
<1>1. PICK d : /\ BuiltFrom(Issued[i], d, Requests[i].curve, Requests[i].public_key,
                            Requests[i].signature)
               /\ d.issuer = fingerprint(ca_cert)
               /\ d.is_ca = Requests[i].details.is_ca
               /\ d.networks = Requests[i].details.networks
               /\ d.not_before = Requests[i].details.not_before
               /\ d.not_after = Requests[i].details.not_after
  BY IssuedIs
<1>2. c.details = d /\ d \in Details
  BY <1>1 DEF BuiltFrom, Cert
<1>3. /\ CaDetails.not_before \in Int /\ CaDetails.not_after \in Int
      /\ d.not_before \in Int /\ d.not_after \in Int
  <2>1. CaDetails \in Details
    BY CertificateAssumption
  <2> QED
    BY <1>2, <2>1 DEF Details, I64
<1>4. ca_cert.details = CaDetails
  BY DEF ca_cert, Built, Cert
<1>5. ~is_expired(ca_cert, t) <=> t \in CaDetails.not_before..CaDetails.not_after
  BY <1>3, <1>4 DEF is_expired
<1>6. ~is_expired(c, t) <=> t \in d.not_before..d.not_after
  BY <1>2, <1>3 DEF is_expired
<1> QED
  BY <1>1, <1>2, <1>5, <1>6

\* Whatever was done to its bytes and with whichever key it was presented, a
\* certificate that is accepted says what the CA signed for that key, and the
\* windows are open (der.rs:404-410, verify.rs:60-75).
THEOREM CertificateAcceptedAsIssued == Spec => []AcceptedAsIssued
<1>1. CertInv => AcceptedAsIssued
  <2> SUFFICES ASSUME CertInv, verdict = "Ok"
               PROVE  \E c \in cert, i \in DOMAIN Requests :
                         /\ Valid(i, now)
                         /\ c.public_key = Requests[i].public_key
                         /\ c.curve = Requests[i].curve
                         /\ c.details = Issued[i].details
                         /\ form = "handshake" => key = Requests[i].public_key
    BY DEF AcceptedAsIssued
  <2>1. pc = "verified" /\ cert = Decoding /\ now \in Int /\ bytes \in Bytes /\ key \in Bytes
    BY DEF CertInv
  <2>2. PICK c \in cert : verify_host_cert(c, ca_cert, now) = "Ok"
    BY <2>1 DEF CertInv
  <2>3. Passes(c, now)
    BY <2>2, OkIsPasses
  <2>4. Decoded(c) /\ (form = "handshake" => c.public_key = key)
    <3>1. CASE form = "handshake"
      <4>1. c \in recombine(bytes, key, Curve25519)
        BY <2>1, <3>1 DEF Decoding
      <4> QED
        BY <2>1, <4>1, DecodedHandshake
    <3>2. CASE form # "handshake"
      <4>1. c \in decode(bytes)
        BY <2>1, <3>2 DEF Decoding, pem_decode
      <4> QED
        BY <2>1, <3>2, <4>1, DecodedFile
    <3> QED
      BY <3>1, <3>2
  <2>5. c.curve = Curve25519 /\ <<CaKey, signing_bytes(c), c.signature>> \in Signed
    BY <2>3 DEF Passes, check_signature
  <2>6. PICK i \in DOMAIN Requests :
            <<CaKey, signing_bytes(c), c.signature>>
                = <<Requests[i].by, signing_bytes(Issued[i]), Issued[i].signature>>
    BY <2>5 DEF Signed
  <2>7. Requests[i].by = CaKey /\ signing_bytes(c) = signing_bytes(Issued[i])
    BY <2>6
  <2>8. /\ c.details = Issued[i].details /\ c.public_key = Requests[i].public_key
        /\ Requests[i].curve = Curve25519
    BY <2>4, <2>5, <2>7, SignedIsIssued
  <2>9. Valid(i, now)
    <3>1. /\ ~c.details.is_ca /\ ~is_expired(ca_cert, now) /\ ~is_expired(c, now)
          /\ c.details.networks # <<>>
      BY <2>3 DEF Passes
    <3>2. /\ now \in CaDetails.not_before..CaDetails.not_after
          /\ now \in Requests[i].details.not_before..Requests[i].details.not_after
          /\ ~Requests[i].details.is_ca /\ Requests[i].details.networks # <<>>
      BY <2>1, <2>8, <3>1, WindowsOpen
    <3> QED
      BY <2>7, <2>8, <3>2 DEF Valid
  <2> QED
    BY <2>4, <2>5, <2>8, <2>9
<1> QED
  BY <1>1, CertInvariant, PTL

\* A certificate whose bytes were not changed decodes to what was issued, and
\* is accepted exactly within its window (der.rs:41-54, 146-170,
\* verify.rs:51-53).
THEOREM CertificateUnchangedIsExact == Spec => []UnchangedIsExact
<1>1. CertInv => UnchangedIsExact
  <2> SUFFICES ASSUME CertInv, pc \in {"received", "verified"}, change = "none",
                      \/ form = "file" /\ banner = CERTIFICATE_V2_BANNER
                      \/ /\ form = "handshake"
                         /\ key = Requests[origin].public_key
                         /\ Requests[origin].curve = Curve25519
               PROVE  /\ cert = {Issued[origin]}
                      /\ pc = "verified" => (verdict = "Ok" <=> Valid(origin, now))
    BY DEF UnchangedIsExact
  <2>1. origin \in DOMAIN Requests /\ bytes = Encoding /\ cert = Decoding /\ now \in Int
    BY DEF CertInv
  <2>2. PICK i \in DOMAIN Requests : i = origin
    BY <2>1
  <2>3. PICK d : BuiltFrom(Issued[i], d, Requests[i].curve, Requests[i].public_key,
                           Requests[i].signature)
    BY IssuedIs
  <2>4. cert = {Issued[i]}
    <3>1. CASE form = "file" /\ banner = CERTIFICATE_V2_BANNER
      <4>1. bytes = encode(Issued[i])
        BY <2>1, <2>2, <3>1 DEF Encoding
      <4>2. decode(bytes) = {Issued[i]}
        BY <2>3, <4>1, DecodeEncoded
      <4>3. pem_decode(CERTIFICATE_V2_BANNER) = {bytes} /\ form # "handshake"
        BY <3>1 DEF pem_decode
      <4>4. Decoding = decode(bytes)
        BY <4>3 DEF Decoding
      <4> QED
        BY <2>1, <4>2, <4>4
    <3>2. CASE /\ form = "handshake"
               /\ key = Requests[i].public_key
               /\ Requests[i].curve = Curve25519
      <4>1. bytes = encode_for_handshake(Issued[i])
        BY <2>1, <2>2, <3>2 DEF Encoding
      <4>2. recombine(bytes, key, Curve25519)
              = {Cert(d, encode_details(d), Curve25519, key, Requests[i].signature)}
        BY <2>3, <4>1, RecombineEncoded
      <4>3. Issued[i] = Cert(d, encode_details(d), Curve25519, key, Requests[i].signature)
        BY <2>3, <3>2 DEF BuiltFrom
      <4>4. Decoding = recombine(bytes, key, Curve25519)
        BY <3>2 DEF Decoding
      <4> QED
        BY <2>1, <4>2, <4>3, <4>4
    <3> QED
      BY <2>2, <3>1, <3>2
  <2>5. ASSUME pc = "verified" PROVE verdict = "Ok" <=> Valid(i, now)
    <3>1. PICK c : c = Issued[i]
      OBVIOUS
    <3>2. verdict = verify_host_cert(c, ca_cert, now)
      <4>1. PICK x \in cert : verdict = verify_host_cert(x, ca_cert, now)
        BY <2>5 DEF CertInv
      <4> QED
        BY <2>4, <3>1, <4>1
    <3>3. verdict = "Ok" <=> Passes(c, now)
      BY <3>2, OkIsPasses
    <3>4. /\ c.curve = Requests[i].curve /\ c.public_key = Requests[i].public_key
          /\ c.signature = Requests[i].signature /\ c.details = Issued[i].details
      BY <2>3, <3>1 DEF BuiltFrom, Cert
    <3>5. check_signature(c, CaKey) = "Ok" <=> Requests[i].by = CaKey /\ Requests[i].curve = Curve25519
      <4>1. Len(CaKey) = KEY_LEN /\ Len(c.signature) = SIG_LEN
        BY <3>4, CertificateAssumption
      <4>2. <<CaKey, signing_bytes(c), c.signature>> \in Signed <=> Requests[i].by = CaKey
        <5>1. ASSUME Requests[i].by = CaKey
              PROVE  <<CaKey, signing_bytes(c), c.signature>> \in Signed
          BY <3>1, <5>1 DEF Signed
        <5>2. ASSUME <<CaKey, signing_bytes(c), c.signature>> \in Signed
              PROVE  Requests[i].by = CaKey
          <6>1. PICK j \in DOMAIN Requests :
                    <<CaKey, signing_bytes(c), c.signature>>
                        = <<Requests[j].by, signing_bytes(Issued[j]), Issued[j].signature>>
            BY <5>2 DEF Signed
          <6>2. Requests[j].by = CaKey /\ c.signature = Issued[j].signature
            BY <6>1
          <6>3. Issued[j].signature = Requests[j].signature
            <7>1. PICK e : BuiltFrom(Issued[j], e, Requests[j].curve, Requests[j].public_key,
                                     Requests[j].signature)
              BY IssuedIs
            <7> QED
              BY <7>1 DEF BuiltFrom, Cert
          <6>4. i = j
            BY <3>4, <6>2, <6>3, CertificateAssumption
          <6> QED
            BY <6>2, <6>4
        <5> QED
          BY <5>1, <5>2
      <4> QED
        BY <3>4, <4>1, <4>2 DEF check_signature
    <3>6. /\ ~is_expired(ca_cert, now) <=> now \in CaDetails.not_before..CaDetails.not_after
          /\ ~is_expired(c, now) <=>
                now \in Requests[i].details.not_before..Requests[i].details.not_after
          /\ c.details.is_ca = Requests[i].details.is_ca
          /\ c.details.networks = Requests[i].details.networks
          /\ c.details.issuer = fingerprint(ca_cert)
      BY <2>1, <3>4, WindowsOpen
    <3>7. Passes(c, now) <=> Valid(i, now)
      BY <3>5, <3>6 DEF Passes, Valid
    <3> QED
      BY <3>3, <3>7
  <2> QED
    BY <2>2, <2>4, <2>5
<1> QED
  BY <1>1, CertInvariant, PTL

\* A certificate of which anything is missing at the end does not decode, in
\* either form: no length can claim more than there is (der.rs:91-94, 118-121).
THEOREM CertificateCutIsRejected == Spec => []CutIsRejected
<1>1. CertInv => CutIsRejected
  <2> SUFFICES ASSUME CertInv, pc = "received", change = "cut" PROVE cert = {}
    BY DEF CutIsRejected
  <2>1. /\ origin \in DOMAIN Requests /\ cert = Decoding /\ form \in {"file", "handshake"}
    BY DEF CertInv
  <2>2. PICK n \in 0..(Len(Encoding) - 1) : bytes = SubSeq(Encoding, 1, n)
    BY DEF CertInv
  <2>3. PICK i \in DOMAIN Requests : i = origin
    BY <2>1
  <2>4. PICK d : BuiltFrom(Issued[i], d, Requests[i].curve, Requests[i].public_key,
                           Requests[i].signature)
    BY IssuedIs
  <2>5. CASE form = "handshake"
    <3>1. Encoding = encode_for_handshake(Issued[i])
      BY <2>3, <2>5 DEF Encoding
    <3>2. recombine(bytes, key, Curve25519) = {}
      BY <2>2, <2>4, <3>1, CutEncoding
    <3> QED
      BY <2>1, <2>5, <3>2 DEF Decoding
  <2>6. CASE form = "file"
    <3>1. Encoding = encode(Issued[i])
      BY <2>3, <2>6 DEF Encoding
    <3>2. decode(bytes) = {}
      BY <2>2, <2>4, <3>1, CutEncoding
    <3> QED
      BY <2>1, <2>6, <3>2 DEF Decoding, pem_decode
  <2> QED
    BY <2>1, <2>5, <2>6
<1> QED
  BY <1>1, CertInvariant, PTL
=============================================================================
