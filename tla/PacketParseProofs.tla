------------------------- MODULE PacketParseProofs --------------------------
(***************************************************************************)
(* Proofs about PacketParse, for packets with any number of extension      *)
(* headers of any length, cut anywhere.                                    *)
(***************************************************************************)
EXTENDS PacketParse, WellFoundedInduction, TLAPS

\* Every nonempty set of naturals has a least element; proofs by induction
\* below look at the least counterexample.
LEMMA LeastNat ==
    ASSUME NEW T, T \subseteq Nat, T # {}
    PROVE  \E x \in T : \A y \in T : x <= y
<1>1. PICK R : IsWellFoundedOn(R, Nat) /\ \A x, y \in Nat : y < x => <<y, x>> \in R
  <2> DEFINE S == OpToRel(<, Nat)
  <2>1. IsWellFoundedOn(S, Nat)
    BY NatLessThanWellFounded
  <2>2. \A x, y \in Nat : y < x => <<y, x>> \in S
    BY DEF OpToRel
  <2> HIDE DEF S
  <2> QED  BY <2>1, <2>2
<1>2. PICK x \in T : \A y \in T : ~(<<y, x>> \in R)
  BY <1>1, WFMin
<1>3. ASSUME NEW y \in T PROVE x <= y
  <2>1. x \in Nat /\ y \in Nat
    OBVIOUS
  <2>2. ~(y < x)
    BY <1>1, <1>2, <2>1
  <2> QED  BY <2>1, <2>2
<1> QED  BY <1>3

-----------------------------------------------------------------------------
(* Bytes.                                                                  *)

\* A big-endian word is the two bytes it was written as.
LEMMA HiLo ==
    ASSUME NEW w \in Words
    PROVE  /\ Hi(w) \in Bytes
           /\ Lo(w) \in Bytes
           /\ 256 * Hi(w) + Lo(w) = w
BY DEF Hi, Lo, Words, Bytes, Below

\* The bytes of a transport header.
LEMMA UpperBytesAre ==
    ASSUME NEW u \in Uppers
    PROVE  /\ \A k \in DOMAIN UpperBytes(u) : UpperBytes(u)[k] \in Bytes
           /\ u.nh \in {ICMP, ICMPV6} =>
                /\ DOMAIN UpperBytes(u) = 1..6
                /\ UpperBytes(u)[1] = u.type
                /\ 256 * UpperBytes(u)[5] + UpperBytes(u)[6] = u.id
           /\ u.nh \notin {ICMP, ICMPV6} =>
                /\ DOMAIN UpperBytes(u) = 1..4
                /\ 256 * UpperBytes(u)[1] + UpperBytes(u)[2] = u.src_port
                /\ 256 * UpperBytes(u)[3] + UpperBytes(u)[4] = u.dst_port
<1>1. /\ u.type \in Bytes
      /\ u.id \in Words
      /\ u.src_port \in Words
      /\ u.dst_port \in Words
  BY DEF Uppers
<1>2. 0 \in Bytes
  BY DEF Bytes, Below
<1>3. CASE u.nh \in {ICMP, ICMPV6}
  <2>1. UpperBytes(u) = <<u.type, 0, 0, 0, Hi(u.id), Lo(u.id)>>
    BY <1>3 DEF UpperBytes
  <2> QED  BY <1>1, <1>2, <1>3, <2>1, HiLo
<1>4. CASE u.nh \notin {ICMP, ICMPV6}
  <2>1. UpperBytes(u) = <<Hi(u.src_port), Lo(u.src_port), Hi(u.dst_port), Lo(u.dst_port)>>
    BY <1>4 DEF UpperBytes
  <2> QED  BY <1>1, <1>2, <1>4, <2>1, HiLo
<1> QED  BY <1>3, <1>4

\* The same, of a packet whose transport header starts at s.
LEMMA UpperByteIs ==
    ASSUME NEW p, p.upper \in Uppers, NEW s \in Nat, UpperStart(p) = s, NEW i \in Nat
    PROVE  /\ UpperByte(p, i) \in Bytes
           /\ p.upper.nh \in {ICMP, ICMPV6} =>
                /\ UpperByte(p, s) = p.upper.type
                /\ 256 * UpperByte(p, s + 4) + UpperByte(p, s + 5) = p.upper.id
           /\ p.upper.nh \notin {ICMP, ICMPV6} =>
                /\ 256 * UpperByte(p, s) + UpperByte(p, s + 1) = p.upper.src_port
                /\ 256 * UpperByte(p, s + 2) + UpperByte(p, s + 3) = p.upper.dst_port
<1> DEFINE B == UpperBytes(p.upper)
<1>1. \A n \in Nat : UpperByte(p, n) = IF n - s + 1 \in DOMAIN B THEN B[n - s + 1] ELSE Filler
  BY DEF UpperByte
<1>2. /\ s - s + 1 = 1  /\ s + 1 - s + 1 = 2  /\ s + 2 - s + 1 = 3
      /\ s + 3 - s + 1 = 4  /\ s + 4 - s + 1 = 5  /\ s + 5 - s + 1 = 6
  OBVIOUS
<1>3. UpperByte(p, i) \in Bytes
  BY <1>1, UpperBytesAre, PacketAssumption
<1>4. ASSUME p.upper.nh \in {ICMP, ICMPV6}
      PROVE  /\ UpperByte(p, s) = p.upper.type
             /\ 256 * UpperByte(p, s + 4) + UpperByte(p, s + 5) = p.upper.id
  <2>1. DOMAIN B = 1..6
    BY <1>4, UpperBytesAre
  <2>2. UpperByte(p, s) = B[1] /\ UpperByte(p, s + 4) = B[5] /\ UpperByte(p, s + 5) = B[6]
    BY <1>1, <1>2, <2>1
  <2> QED  BY <1>4, <2>2, UpperBytesAre
<1>5. ASSUME p.upper.nh \notin {ICMP, ICMPV6}
      PROVE  /\ 256 * UpperByte(p, s) + UpperByte(p, s + 1) = p.upper.src_port
             /\ 256 * UpperByte(p, s + 2) + UpperByte(p, s + 3) = p.upper.dst_port
  <2>1. DOMAIN B = 1..4
    BY <1>5, UpperBytesAre
  <2>2. /\ UpperByte(p, s) = B[1]  /\ UpperByte(p, s + 1) = B[2]
        /\ UpperByte(p, s + 2) = B[3]  /\ UpperByte(p, s + 3) = B[4]
    BY <1>1, <1>2, <2>1
  <2> QED  BY <1>5, <2>2, UpperBytesAre
<1> QED  BY <1>3, <1>4, <1>5

\* The bytes of an IPv4 packet that parse_ipv4 reads.
LEMMA V4Bytes ==
    ASSUME NEW p \in V4Packets, NEW i \in Nat
    PROVE  /\ V4Byte(p, i) \in Bytes
           /\ V4Byte(p, 0) = 64 + p.ihl
           /\ 256 * V4Byte(p, 6) + V4Byte(p, 7) = (IF p.mf THEN 8192 ELSE 0) + p.frag
           /\ V4Byte(p, 9) = p.upper.nh
           /\ i >= 20 => V4Byte(p, i) = UpperByte(p, i)
<1> DEFINE word == (IF p.mf THEN 8192 ELSE 0) + p.frag
<1>1. /\ p.version = 4
      /\ p.ihl \in Nat /\ p.ihl < 16
      /\ p.frag \in Nat /\ p.frag < 8192
      /\ p.mf \in BOOLEAN
      /\ p.upper \in Uppers
  BY PacketAssumption DEF Below
<1>2. word \in Words
  BY <1>1 DEF Words, Below
<1>3. Hi(word) \in Bytes /\ Lo(word) \in Bytes /\ 256 * Hi(word) + Lo(word) = word
  BY <1>2, HiLo
<1>4. V4Byte(p, 0) = 64 + p.ihl /\ V4Byte(p, 9) = p.upper.nh
  BY DEF V4Byte
<1>5. V4Byte(p, 6) = Hi(word) /\ V4Byte(p, 7) = Lo(word)
  BY DEF V4Byte
<1>6. i >= 20 => V4Byte(p, i) = UpperByte(p, i)
  BY DEF V4Byte
<1>7. i < 20 /\ i \notin {0, 6, 7, 9} => V4Byte(p, i) = Filler
  BY DEF V4Byte
<1>8. 64 + p.ihl \in Bytes /\ p.upper.nh \in Bytes /\ Filler \in Bytes
  BY <1>1, PacketAssumption DEF Bytes, Below, Uppers
<1>9. UpperByte(p, i) \in Bytes
  <2>1. UpperStart(p) \in Nat
    BY <1>1 DEF UpperStart
  <2> QED  BY <1>1, <2>1, UpperByteIs
<1>10. V4Byte(p, i) \in Bytes
  <2>1. CASE i = 0  BY <2>1, <1>4, <1>8
  <2>2. CASE i = 6  BY <2>2, <1>5, <1>3
  <2>3. CASE i = 7  BY <2>3, <1>5, <1>3
  <2>4. CASE i = 9  BY <2>4, <1>4, <1>8
  <2>5. CASE i < 20 /\ i \notin {0, 6, 7, 9}  BY <2>5, <1>7, <1>8
  <2>6. CASE i >= 20  BY <2>6, <1>6, <1>9
  <2> QED  BY <2>1, <2>2, <2>3, <2>4, <2>5, <2>6
<1> QED  BY <1>3, <1>4, <1>5, <1>6, <1>10

\* What an IPv6 packet is made of.
LEMMA V6Fields ==
    ASSUME NEW p \in V6Packets
    PROVE  /\ p.version \in Nat /\ p.version < 16 /\ p.version # 4
           /\ Len(p.chain) \in Nat
           /\ \A j \in 1..Len(p.chain) :
                 /\ p.chain[j] \in Headers
                 /\ p.chain[j].nh \in Bytes
                 /\ p.chain[j].ext \in Bytes
                 /\ p.chain[j].word \in Words
                 /\ p.chain[j].nh \notin {TCP, UDP, ICMPV6, ESP, NO_NEXT}
                 /\ SizeOf(p.chain[j]) \in Nat
                 /\ SizeOf(p.chain[j]) >= 8
                 /\ p.at[j + 1] = p.at[j] + SizeOf(p.chain[j])
           /\ \A j \in 1..(Len(p.chain) + 1) : p.at[j] \in Nat /\ p.at[j] >= 40
           /\ p.at[1] = 40
           /\ \A i, j \in 1..(Len(p.chain) + 1) : i < j => p.at[i + 1] <= p.at[j]
           /\ p.upper \in Uppers
           /\ p.len \in Nat
<1>1. /\ p.version \in Below(16) \ {4}
      /\ p.chain \in Seq(Headers)
      /\ \A j \in 1..Len(p.chain) : p.chain[j].nh \notin {TCP, UDP, ICMPV6, ESP, NO_NEXT}
      /\ LaidOut(p)
      /\ p.upper \in Uppers
      /\ p.len \in Nat
  BY PacketAssumption
<1>2. Len(p.chain) \in Nat
  BY <1>1
<1>3. ASSUME NEW j \in 1..Len(p.chain)
      PROVE  /\ p.chain[j] \in Headers
             /\ p.chain[j].nh \in Bytes
             /\ p.chain[j].ext \in Bytes
             /\ p.chain[j].word \in Words
             /\ SizeOf(p.chain[j]) \in Nat
             /\ SizeOf(p.chain[j]) >= 8
             /\ p.at[j + 1] = p.at[j] + SizeOf(p.chain[j])
  <2>1. p.chain[j] \in Headers
    <3> HIDE DEF Headers
    <3> QED  BY <1>1
  <2>2. /\ p.chain[j].nh \in Bytes
        /\ p.chain[j].ext \in Bytes
        /\ p.chain[j].word \in Words
    BY <2>1 DEF Headers
  <2>3. SizeOf(p.chain[j]) \in Nat /\ SizeOf(p.chain[j]) >= 8
    <3>1. PICK e \in Nat : e = p.chain[j].ext
      BY <2>2 DEF Bytes, Below
    <3>2. SizeOf(p.chain[j]) \in {8, 4 * (e + 2), 8 * (e + 1)}
      BY <3>1 DEF SizeOf
    <3> QED  BY <3>2
  <2>4. p.at[j + 1] = p.at[j] + SizeOf(p.chain[j])
    BY <1>1 DEF LaidOut
  <2> QED  BY <2>1, <2>2, <2>3, <2>4
<1>4. \A j \in 1..(Len(p.chain) + 1) : p.at[j] \in Nat
  BY <1>1, <1>2 DEF LaidOut
<1>5. p.at[1] = 40
  BY <1>1 DEF LaidOut
<1>6. ASSUME NEW i \in 1..(Len(p.chain) + 1), NEW j \in 1..(Len(p.chain) + 1), i < j
      PROVE  p.at[i + 1] <= p.at[j]
  <2> DEFINE n == Len(p.chain)
             T == {m \in Nat : i < m /\ m <= n + 1 /\ ~(p.at[i + 1] <= p.at[m])}
  <2>1. SUFFICES ASSUME T # {} PROVE FALSE
    <3>1. j \in Nat /\ j <= n + 1
      BY <1>2
    <3> QED  BY <1>6, <3>1
  <2>2. PICK m \in T : \A y \in T : m <= y
    <3>1. T \subseteq Nat
      OBVIOUS
    <3> HIDE DEF T
    <3> QED  BY <2>1, <3>1, LeastNat
  <2>3. m \in Nat /\ i < m /\ m <= n + 1 /\ ~(p.at[i + 1] <= p.at[m])
    OBVIOUS
  <2>4. i \in Nat /\ i >= 1 /\ n \in Nat
    BY <1>2
  <2>5. m # i + 1
    <3>1. i + 1 \in 1..(n + 1)
      BY <2>3, <2>4
    <3>2. p.at[i + 1] <= p.at[i + 1]
      BY <1>4, <3>1
    <3> QED  BY <2>3, <3>2
  <2>6. PICK k \in Nat : m = k + 1 /\ i < k /\ k <= n /\ k \in 1..n
    <3>1. m - 1 \in Nat /\ m = (m - 1) + 1 /\ i < m - 1 /\ m - 1 <= n /\ m - 1 \in 1..n
      BY <2>3, <2>4, <2>5
    <3> QED  BY <3>1
  <2>7. p.at[i + 1] <= p.at[k]
    <3>1. ~(m <= k)
      BY <2>6
    <3>2. k \notin T
      BY <2>2, <3>1
    <3>3. k <= n + 1
      BY <2>4, <2>6
    <3> QED  BY <2>6, <3>2, <3>3
  <2>8. p.at[k + 1] = p.at[k] + SizeOf(p.chain[k]) /\ SizeOf(p.chain[k]) \in Nat
    BY <1>3, <2>6
  <2>9. p.at[k] \in Nat /\ p.at[i + 1] \in Nat
    <3>1. k \in 1..(n + 1) /\ i + 1 \in 1..(n + 1)
      BY <2>4, <2>6
    <3> QED  BY <1>4, <3>1
  <2>10. p.at[i + 1] <= p.at[k + 1]
    BY <2>7, <2>8, <2>9
  <2> QED  BY <2>3, <2>6, <2>10
<1>7. ASSUME NEW j \in 1..(Len(p.chain) + 1)
      PROVE  p.at[j] >= 40
  <2>1. CASE j = 1  BY <2>1, <1>5
  <2>2. CASE j # 1
    <3>1. 1 \in 1..Len(p.chain) /\ 1 \in 1..(Len(p.chain) + 1) /\ 1 < j
      BY <1>2, <2>2
    <3>2. p.at[1 + 1] <= p.at[j]
      BY <1>6, <3>1
    <3>3. p.at[1 + 1] = p.at[1] + SizeOf(p.chain[1]) /\ SizeOf(p.chain[1]) \in Nat
      BY <1>3, <3>1
    <3> QED  BY <1>4, <1>5, <3>2, <3>3
  <2> QED  BY <2>1, <2>2
<1> QED  BY <1>1, <1>2, <1>3, <1>4, <1>5, <1>6, <1>7 DEF Below

\* The bytes of an IPv6 packet that the walk reads: the number of the first
\* header, of each extension header its first four bytes, and those of the
\* transport header.
LEMMA V6Bytes ==
    ASSUME NEW p \in V6Packets
    PROVE  /\ \A i \in Nat : V6Byte(p, i) \in Bytes
           /\ V6Byte(p, 0) = 16 * p.version
           /\ V6Byte(p, 6) = NumberAt(p, 1)
           /\ \A j \in 1..Len(p.chain) :
                 /\ V6Byte(p, p.at[j]) = NumberAt(p, j + 1)
                 /\ V6Byte(p, p.at[j] + 1) = p.chain[j].ext
                 /\ 256 * V6Byte(p, p.at[j] + 2) + V6Byte(p, p.at[j] + 3) = p.chain[j].word
           /\ \A i \in Nat : i >= p.at[Len(p.chain) + 1] => V6Byte(p, i) = UpperByte(p, i)
<1> DEFINE n == Len(p.chain)
           Within(i) == {j \in 1..n : i >= p.at[j] /\ i < p.at[j + 1]}
           Byte(j, k) == IF k = 0 THEN NumberAt(p, j + 1)
                         ELSE IF k = 1 THEN p.chain[j].ext
                         ELSE IF k = 2 THEN Hi(p.chain[j].word)
                         ELSE IF k = 3 THEN Lo(p.chain[j].word)
                         ELSE Filler
           one(i) == CHOOSE x \in Within(i) : TRUE
<1>1. \A i \in Nat \ {0, 6} :
         V6Byte(p, i) = IF Within(i) = {} THEN UpperByte(p, i)
                        ELSE Byte(one(i), i - p.at[one(i)])
  BY DEF V6Byte
<1>2. V6Byte(p, 0) = 16 * p.version /\ V6Byte(p, 6) = NumberAt(p, 1)
  BY DEF V6Byte
<1>3. n \in Nat /\ (\A j \in 1..(n + 1) : p.at[j] \in Nat /\ p.at[j] >= 40)
  BY V6Fields
<1>4. ASSUME NEW j \in 1..n, NEW i \in Nat, i >= p.at[j], i < p.at[j + 1]
      PROVE  one(i) = j
  <2>1. j \in Within(i)
    BY <1>4
  <2>2. ASSUME NEW x \in Within(i)
        PROVE  x = j
    <3>1. x \in 1..n /\ x \in 1..(n + 1) /\ j \in 1..(n + 1) /\ i >= p.at[x] /\ i < p.at[x + 1]
      BY <1>3, <2>2
    <3>2. x < j => p.at[x + 1] <= p.at[j]
      BY <3>1, V6Fields
    <3>3. j < x => p.at[j + 1] <= p.at[x]
      BY <3>1, V6Fields
    <3>4. x + 1 \in 1..(n + 1) /\ j + 1 \in 1..(n + 1)
      BY <1>3, <3>1
    <3>5. /\ p.at[x] \in Nat /\ p.at[j] \in Nat
          /\ p.at[x + 1] \in Nat /\ p.at[j + 1] \in Nat
      BY <1>3, <3>1, <3>4
    <3>6. ~(x < j) /\ ~(j < x)
      BY <1>4, <3>1, <3>2, <3>3, <3>5
    <3> QED  BY <1>3, <3>1, <3>6
  <2> HIDE DEF Within
  <2> QED  BY <2>1, <2>2
<1> HIDE DEF Byte, one
<1>5. ASSUME NEW j \in 1..n, NEW k \in 0..7
      PROVE  V6Byte(p, p.at[j] + k) = Byte(j, k)
  <2>1. /\ p.at[j] \in Nat /\ p.at[j] >= 40
        /\ p.at[j + 1] = p.at[j] + SizeOf(p.chain[j])
        /\ SizeOf(p.chain[j]) \in Nat /\ SizeOf(p.chain[j]) >= 8
    BY <1>3, V6Fields
  <2>2. PICK i \in Nat \ {0, 6} : i = p.at[j] + k
    BY <2>1
  <2>3. i >= p.at[j] /\ i < p.at[j + 1] /\ i - p.at[j] = k
    <3>1. k \in Nat /\ k < 8
      OBVIOUS
    <3> QED  BY <2>1, <2>2, <3>1
  <2>4. one(i) = j /\ Within(i) # {}
    BY <1>4, <2>3
  <2>5. V6Byte(p, i) = Byte(one(i), i - p.at[one(i)])
    BY <1>1, <2>4
  <2> QED  BY <2>2, <2>3, <2>4, <2>5
<1>6. ASSUME NEW j \in 1..n
      PROVE  /\ V6Byte(p, p.at[j]) = NumberAt(p, j + 1)
             /\ V6Byte(p, p.at[j] + 1) = p.chain[j].ext
             /\ 256 * V6Byte(p, p.at[j] + 2) + V6Byte(p, p.at[j] + 3) = p.chain[j].word
  <2>1. /\ V6Byte(p, p.at[j] + 0) = NumberAt(p, j + 1)
        /\ V6Byte(p, p.at[j] + 1) = p.chain[j].ext
        /\ V6Byte(p, p.at[j] + 2) = Hi(p.chain[j].word)
        /\ V6Byte(p, p.at[j] + 3) = Lo(p.chain[j].word)
    BY <1>5 DEF Byte
  <2>2. p.at[j] + 0 = p.at[j]
    BY <1>3
  <2>3. p.chain[j].word \in Words
    BY V6Fields
  <2> QED  BY <2>1, <2>2, <2>3, HiLo
<1>7. ASSUME NEW i \in Nat, i >= p.at[n + 1]
      PROVE  V6Byte(p, i) = UpperByte(p, i)
  <2>1. ASSUME NEW j \in 1..n  PROVE  p.at[j + 1] <= p.at[n + 1]
    <3>1. CASE j = n
      <4>1. p.at[n + 1] \in Nat
        BY <1>3
      <4> QED  BY <3>1, <4>1
    <3>2. CASE j # n
      <4>1. j \in 1..(n + 1) /\ n + 1 \in 1..(n + 1) /\ j < n + 1
        BY <1>3
      <4> QED  BY <4>1, V6Fields
    <3> QED  BY <3>1, <3>2
  <2>2. Within(i) = {}
    <3> SUFFICES ASSUME NEW j \in Within(i) PROVE FALSE
      OBVIOUS
    <3>1. j \in 1..n /\ i < p.at[j + 1]
      OBVIOUS
    <3>2. p.at[j + 1] \in Nat /\ p.at[n + 1] \in Nat
      BY <1>3, <3>1
    <3> QED  BY <1>7, <2>1, <3>1, <3>2
  <2>3. i \in Nat \ {0, 6}
    <3>1. p.at[n + 1] \in Nat /\ p.at[n + 1] >= 40
      BY <1>3
    <3> QED  BY <3>1, <1>7
  <2> QED  BY <1>1, <2>2, <2>3
<1>8. ASSUME NEW j \in 1..(n + 1)
      PROVE  NumberAt(p, j) \in Bytes
  <2>1. CASE j <= n  BY <2>1, V6Fields DEF NumberAt
  <2>2. CASE ~(j <= n)
    <3>1. p.upper \in Uppers
      BY V6Fields
    <3> QED  BY <2>2, <3>1 DEF NumberAt, Uppers
  <2> QED  BY <2>1, <2>2
<1>9. ASSUME NEW i \in Nat
      PROVE  V6Byte(p, i) \in Bytes
  <2>1. CASE i = 0
    <3>1. p.version \in Nat /\ p.version < 16
      BY V6Fields
    <3> QED  BY <1>2, <2>1, <3>1 DEF Bytes, Below
  <2>2. CASE i = 6
    BY <1>2, <1>3, <1>8, <2>2
  <2>3. CASE i \notin {0, 6} /\ Within(i) = {}
    <3>1. p.upper \in Uppers /\ UpperStart(p) \in Nat
      BY <1>3, V6Fields DEF UpperStart
    <3>2. UpperByte(p, i) \in Bytes
      BY <3>1, UpperByteIs
    <3> QED  BY <1>1, <2>3, <3>2
  <2>4. CASE i \notin {0, 6} /\ Within(i) # {}
    <3>1. one(i) \in 1..n
      BY <2>4 DEF one
    <3>2. /\ NumberAt(p, one(i) + 1) \in Bytes
          /\ p.chain[one(i)].ext \in Bytes
          /\ Hi(p.chain[one(i)].word) \in Bytes
          /\ Lo(p.chain[one(i)].word) \in Bytes
          /\ Filler \in Bytes
      <4>1. one(i) + 1 \in 1..(n + 1)
        BY <1>3, <3>1
      <4>2. p.chain[one(i)].ext \in Bytes /\ p.chain[one(i)].word \in Words
        BY <3>1, V6Fields
      <4> QED  BY <1>8, <4>1, <4>2, HiLo, PacketAssumption
    <3>3. V6Byte(p, i) = Byte(one(i), i - p.at[one(i)])
      BY <1>1, <2>4
    <3> QED  BY <3>2, <3>3 DEF Byte
  <2> QED  BY <2>1, <2>2, <2>3, <2>4
<1> QED  BY <1>2, <1>6, <1>7, <1>9

-----------------------------------------------------------------------------
(* No byte past the end is indexed.                                        *)

\* What the walk needs to stay within the packet.
BoundsInv ==
    /\ packet \in V4Packets \cup V6Packets
    /\ incoming \in BOOLEAN
    /\ pc \in {"start", "walk", "done"}
    /\ proto_at \in Nat
    /\ offset \in Nat
    /\ touched \in Nat
    /\ ReadsInBounds
    /\ pc = "walk" => packet \in V6Packets /\ packet.version = 6 /\ packet.len >= 40

\* Every byte of either kind of packet is one.
LEMMA RawByteType ==
    ASSUME packet \in V4Packets \cup V6Packets
    PROVE  /\ packet.len \in Nat
           /\ \A i \in Nat : RawByte(i) \in Bytes /\ RawByte(i) \in Nat
           /\ packet \in V4Packets => packet.version = 4 /\ RawByte(0) \div 16 = 4
           /\ packet \in V6Packets =>
                 packet.version # 4 /\ RawByte(0) \div 16 = packet.version
<1>1. CASE packet \in V4Packets
  <2>1. packet.version = 4 /\ packet.len \in Nat /\ packet.ihl \in Nat /\ packet.ihl < 16
    BY <1>1, PacketAssumption DEF Below
  <2>2. \A i \in Nat : RawByte(i) = V4Byte(packet, i)
    BY <2>1 DEF RawByte
  <2>3. \A i \in Nat : RawByte(i) \in Bytes
    BY <1>1, <2>2, V4Bytes
  <2>4. RawByte(0) = 64 + packet.ihl
    BY <1>1, <2>2, V4Bytes
  <2>5. RawByte(0) \div 16 = 4
    BY <2>1, <2>4
  <2>6. packet \notin V6Packets
    BY <2>1, V6Fields
  <2> QED  BY <2>1, <2>3, <2>5, <2>6 DEF Bytes, Below
<1>2. CASE packet \in V6Packets
  <2>1. packet.version \in Nat /\ packet.version # 4 /\ packet.len \in Nat
    BY <1>2, V6Fields
  <2>2. \A i \in Nat : RawByte(i) = V6Byte(packet, i)
    BY <2>1 DEF RawByte
  <2>3. \A i \in Nat : RawByte(i) \in Bytes
    BY <1>2, <2>2, V6Bytes
  <2>4. RawByte(0) = 16 * packet.version
    BY <1>2, <2>2, V6Bytes
  <2>5. RawByte(0) \div 16 = packet.version
    BY <2>1, <2>4
  <2>6. packet \notin V4Packets
    BY <2>1, PacketAssumption
  <2> QED  BY <2>1, <2>3, <2>5, <2>6 DEF Bytes, Below
<1> QED  BY <1>1, <1>2

\* Return indexes nothing beyond the byte it names.
LEMMA ReturnBounds ==
    ASSUME BoundsInv, NEW t, NEW b \in Nat, packet.len > 0 => b < packet.len, Return(t, b)
    PROVE  BoundsInv'
<1>1. packet.len \in Nat
  BY RawByteType DEF BoundsInv
<1>2. Max({touched, b}) \in {touched, b}
  <2>1. touched \in Nat
    BY DEF BoundsInv
  <2>2. \E x \in {touched, b} : \A y \in {touched, b} : x >= y
    BY <2>1
  <2> QED  BY <2>2 DEF Max
<1>3. touched' \in {touched, b} /\ pc' = "done"
  BY <1>2 DEF Return
<1> QED  BY <1>1, <1>3 DEF BoundsInv, ReadsInBounds, Return

LEMMA InitBounds == Init => BoundsInv
<1> SUFFICES ASSUME Init PROVE BoundsInv
  OBVIOUS
<1>1. packet.len \in Nat
  BY RawByteType DEF Init
<1> QED  BY <1>1 DEF Init, BoundsInv, ReadsInBounds

LEMMA BeginBounds == BoundsInv /\ Begin => BoundsInv'
<1> SUFFICES ASSUME BoundsInv, Begin PROVE BoundsInv'
  OBVIOUS
<1>1. packet.len \in Nat /\ \A i \in Nat : RawByte(i) \in Nat
  BY RawByteType DEF BoundsInv
<1>2. ASSUME NEW t, Return(t, 0) PROVE BoundsInv'
  BY <1>1, <1>2, ReturnBounds
<1>3. CASE packet.len = 0
  BY <1>2, <1>3 DEF Begin
<1>4. CASE packet.len # 0 /\ RawByte(0) \div 16 = 4
  <2>1. PICK h \in Nat : h = (RawByte(0) % 16) * 4
    BY <1>1
  <2> DEFINE protocol == Protocol(RawByte(9))
             icmp == FragOffset = 0 /\ protocol.name = "Icmp"
  <2>2. parse_ipv4
    BY <1>4 DEF Begin
  <2>3. CASE packet.len < 20 \/ h < 20 \/ packet.len < h
    <3>1. Return({}, 0)
      BY <2>1, <2>2, <2>3 DEF parse_ipv4
    <3> QED  BY <1>2, <3>1
  <2>4. CASE ~(packet.len < 20 \/ h < 20 \/ packet.len < h)
    <3>1. packet.len > 19
      BY <1>1, <2>4
    <3>2. CASE FragOffset = 0 /\ packet.len < h + Need(protocol)
      <4>1. Return({}, 19)
        BY <2>1, <2>2, <2>4, <3>2 DEF parse_ipv4
      <4> QED  BY <3>1, <4>1, ReturnBounds
    <3>3. CASE ~(FragOffset = 0 /\ packet.len < h + Need(protocol))
      <4>1. \E t : Return(t, IF icmp THEN h + 5 ELSE 19)
        BY <2>1, <2>2, <2>4, <3>3 DEF parse_ipv4
      <4>2. icmp => packet.len > h + 5
        <5>1. icmp => Need(protocol) = 6
          BY DEF Need
        <5> HIDE DEF protocol
        <5> QED  BY <1>1, <3>3, <5>1
      <4>3. PICK b \in Nat : b = IF icmp THEN h + 5 ELSE 19
        OBVIOUS
      <4>4. b < packet.len
        <5>1. icmp => b = h + 5
          BY <4>3
        <5>2. ~icmp => b = 19
          BY <4>3
        <5> HIDE DEF icmp
        <5> QED  BY <1>1, <3>1, <4>2, <5>1, <5>2
      <4>5. \E t : Return(t, b)
        BY <4>1, <4>3
      <4> QED  BY <4>4, <4>5, ReturnBounds
    <3> QED  BY <3>2, <3>3
  <2> QED  BY <2>3, <2>4
<1>5. CASE packet.len # 0 /\ RawByte(0) \div 16 # 4
  <2>1. CASE RawByte(0) \div 16 # 6 \/ packet.len < 40
    <3>1. Return({}, 0)
      BY <1>5, <2>1 DEF Begin
    <3> QED  BY <1>2, <3>1
  <2>2. CASE RawByte(0) \div 16 = 6 /\ ~(packet.len < 40)
    <3>1. packet \in V6Packets /\ packet.version = 6
      BY <2>2, RawByteType DEF BoundsInv
    <3>2. packet.len >= 40
      BY <1>1, <2>2
    <3>3. /\ pc' = "walk" /\ proto_at' = 6 /\ offset' = 40 /\ touched' = 39
          /\ UNCHANGED <<packet, incoming, tuple>>
      BY <1>5, <2>2 DEF Begin
    <3> QED  BY <1>1, <3>1, <3>2, <3>3 DEF BoundsInv, ReadsInBounds
  <2> QED  BY <2>1, <2>2
<1> QED  BY <1>3, <1>4, <1>5

\* A header's length byte is read only where there is one.
LEMMA AdvanceType ==
    ASSUME BoundsInv, NEW nh
    PROVE  Advance(nh) \in Nat
<1>1. RawByte(offset + 1) \in Nat
  BY RawByteType DEF BoundsInv
<1> QED  BY <1>1 DEF Advance

LEMMA WalkBounds == BoundsInv /\ Walk => BoundsInv'
<1> SUFFICES ASSUME BoundsInv, Walk PROVE BoundsInv'
  OBVIOUS
<1>1. packet.len \in Nat /\ packet.len >= 40 /\ offset \in Nat
  BY RawByteType DEF BoundsInv, Walk
<1>2. ASSUME NEW t, Return(t, 0) PROVE BoundsInv'
  BY <1>1, <1>2, ReturnBounds
<1>3. CASE proto_at >= packet.len
  BY <1>2, <1>3 DEF Walk
<1>4. CASE ~(proto_at >= packet.len)
  <2> DEFINE nh == RawByte(proto_at)
  <2>1. CASE Terminal(nh)
    <3>1. CASE nh \in {ESP, NO_NEXT} /\ \E t : Return(t, 0)
      BY <3>1, <1>2
    <3>2. CASE packet.len >= offset + 6 /\ \E t : Return(t, offset + 5)
      <4>1. offset + 5 \in Nat /\ offset + 5 < packet.len
        BY <1>1, <3>2
      <4> QED  BY <3>2, <4>1, ReturnBounds
    <3>3. CASE packet.len >= offset + 4 /\ \E t : Return(t, offset)
      <4>1. offset \in Nat /\ offset < packet.len
        BY <1>1, <3>3
      <4> QED  BY <3>3, <4>1, ReturnBounds
    <3>4. CASE packet.len >= offset + 8 /\ \E t : Return(t, offset + 3)
      <4>1. offset + 3 \in Nat /\ offset + 3 < packet.len
        BY <1>1, <3>4
      <4> QED  BY <3>4, <4>1, ReturnBounds
    <3>5. CASE \E t : Return(t, 0)
      BY <3>5, <1>2
    <3>6. \A n : ~(packet.len < offset + n) /\ n \in Nat => packet.len >= offset + n
      BY <1>1
    <3> HIDE DEF nh
    <3> QED  BY <2>1, <3>1, <3>2, <3>3, <3>4, <3>5, <3>6 DEF Terminal
  <2>2. CASE Truncated(nh) /\ Return({}, 0)
    BY <2>2, <1>2
  <2>3. CASE /\ Skips(nh)
             /\ proto_at' = offset
             /\ offset' = offset + Advance(nh)
             /\ touched' = IF nh = FRAGMENT THEN offset + 3 ELSE touched
             /\ UNCHANGED <<packet, incoming, pc, tuple>>
    <3>1. offset' \in Nat
      <4>1. Advance(nh) \in Nat
        BY AdvanceType
      <4> HIDE DEF nh
      <4> QED  BY <1>1, <2>3, <4>1
    <3>2. nh = FRAGMENT => packet.len >= offset + 8
      <4> HIDE DEF nh
      <4> QED  BY <1>1, <2>3 DEF Skips, Truncated
    <3>3. touched' \in Nat /\ touched' < packet.len
      <4> HIDE DEF nh
      <4>1. touched \in Nat /\ touched < packet.len
        BY <1>1 DEF BoundsInv, ReadsInBounds
      <4>2. CASE nh = FRAGMENT
        BY <1>1, <2>3, <3>2, <4>2
      <4>3. CASE nh # FRAGMENT
        BY <2>3, <4>1, <4>3
      <4> QED  BY <4>2, <4>3
    <3> HIDE DEF nh
    <3> QED  BY <1>1, <2>3, <3>1, <3>3 DEF BoundsInv, ReadsInBounds
  <2> QED  BY <1>4, <2>1, <2>2, <2>3 DEF Walk
<1> QED  BY <1>3, <1>4

LEMMA BoundsInductive == BoundsInv /\ [Next]_vars => BoundsInv'
<1>1. BoundsInv /\ UNCHANGED vars => BoundsInv'
  BY DEF BoundsInv, ReadsInBounds, vars
<1> QED  BY <1>1, BeginBounds, WalkBounds DEF Next

LEMMA AlwaysBounds == Spec => []BoundsInv
  BY InitBounds, BoundsInductive, PTL DEF Spec

\* However long the extension headers of a packet say they are and wherever it
\* is cut, parse indexes no byte past its end: an index it does not check in
\* that place is below one it did check.
THEOREM ParseReadsInBounds == Spec => []ReadsInBounds
<1>1. BoundsInv => ReadsInBounds
  BY DEF BoundsInv
<1> QED  BY <1>1, AlwaysBounds, PTL

-----------------------------------------------------------------------------
(* The walk lands where the sender put the headers.                        *)

\* The walk is at header j: everything before it was there to be read, and
\* was no later fragment.
AtHeader(j) ==
    /\ j \in 1..(Len(packet.chain) + 1)
    /\ offset = packet.at[j]
    /\ proto_at = IF j = 1 THEN 6 ELSE packet.at[j - 1]
    /\ \A i \in 1..(j - 1) : Reads(packet, i) /\ i \notin Fragmented(packet)

MeaningInv ==
    /\ pc = "walk" /\ Understood(packet) => \E j : AtHeader(j)
    /\ ParsesAsBuilt

LEMMA ReturnMeaning ==
    ASSUME NEW t, NEW b, Return(t, b), Understood(packet) => t = Meaning(packet)
    PROVE  MeaningInv'
<1>1. pc' = "done" /\ tuple' = t /\ packet' = packet
  BY DEF Return
<1> QED  BY <1>1 DEF MeaningInv, ParsesAsBuilt

LEMMA ProtocolNames ==
    ASSUME NEW n
    PROVE  /\ Protocol(n).name \in {"Tcp", "Udp"} <=> n \in {TCP, UDP}
           /\ Protocol(n).name = "Icmp" <=> n = ICMP
           /\ Need(Protocol(n)) = IF n = ICMP THEN 6 ELSE 4
BY DEF Protocol, Need, TCP, UDP, ICMP, ICMPV6

\* What parse_ipv4 finds in the bytes it reads.
LEMMA V4Reads ==
    ASSUME packet \in V4Packets
    PROVE  /\ (RawByte(0) % 16) * 4 = 4 * packet.ihl
           /\ RawByte(9) = packet.upper.nh
           /\ FragOffset = packet.frag
           /\ packet.ihl >= 5 /\ packet.upper.nh \in {TCP, UDP} /\ packet.len >= 4 * packet.ihl + 4 =>
                 /\ SrcPort(4 * packet.ihl) = packet.upper.src_port
                 /\ DstPort(4 * packet.ihl) = packet.upper.dst_port
           /\ packet.ihl >= 5 /\ packet.upper.nh = ICMP =>
                 U16(4 * packet.ihl + 4) = packet.upper.id
<1>1. /\ packet.version = 4
      /\ packet.ihl \in Nat /\ packet.ihl < 16
      /\ packet.frag \in Nat /\ packet.frag < 8192
      /\ packet.mf \in BOOLEAN
      /\ packet.upper \in Uppers
      /\ packet.len \in Nat
  BY PacketAssumption DEF Below
<1>2. \A i \in Nat : RawByte(i) = V4Byte(packet, i)
  BY <1>1 DEF RawByte
<1>3. /\ RawByte(0) = 64 + packet.ihl
      /\ RawByte(9) = packet.upper.nh
      /\ 256 * RawByte(6) + RawByte(7) = (IF packet.mf THEN 8192 ELSE 0) + packet.frag
  BY <1>2, V4Bytes
<1>4. (RawByte(0) % 16) * 4 = 4 * packet.ihl
  <2>1. (64 + packet.ihl) % 16 = packet.ihl
    BY <1>1
  <2> QED  BY <1>1, <1>3, <2>1
<1>5. FragOffset = packet.frag
  <2>1. U16(6) = (IF packet.mf THEN 8192 ELSE 0) + packet.frag
    BY <1>3 DEF U16
  <2>2. (0 + packet.frag) % 8192 = packet.frag /\ (8192 + packet.frag) % 8192 = packet.frag
    BY <1>1
  <2> QED  BY <2>1, <2>2 DEF FragOffset
<1>6. PICK s \in Nat : s = 4 * packet.ihl
  BY <1>1
<1>7. UpperStart(packet) = s
  BY <1>1, <1>6 DEF UpperStart
<1>8. ASSUME packet.ihl >= 5, NEW k \in Nat
      PROVE  RawByte(s + k) = UpperByte(packet, s + k)
  <2>1. s + k \in Nat /\ s + k >= 20
    BY <1>1, <1>6, <1>8
  <2> QED  BY <1>2, <2>1, V4Bytes
<1>9. ASSUME packet.ihl >= 5, packet.upper.nh \in {TCP, UDP}, packet.len >= s + 4
      PROVE  SrcPort(s) = packet.upper.src_port /\ DstPort(s) = packet.upper.dst_port
  <2>1. packet.upper.nh \notin {ICMP, ICMPV6}
    BY <1>9 DEF TCP, UDP, ICMP, ICMPV6
  <2>2. s + 0 = s /\ (s + 2) + 1 = s + 3 /\ ~(packet.len - s < 4)
    BY <1>1, <1>9
  <2>3. /\ RawByte(s) = UpperByte(packet, s)
        /\ RawByte(s + 1) = UpperByte(packet, s + 1)
        /\ RawByte(s + 2) = UpperByte(packet, s + 2)
        /\ RawByte(s + 3) = UpperByte(packet, s + 3)
    <3>1. RawByte(s + 0) = UpperByte(packet, s + 0)
      BY <1>8, <1>9
    <3> QED  BY <1>8, <1>9, <2>2, <3>1
  <2>4. /\ 256 * UpperByte(packet, s) + UpperByte(packet, s + 1) = packet.upper.src_port
        /\ 256 * UpperByte(packet, s + 2) + UpperByte(packet, s + 3) = packet.upper.dst_port
    BY <1>1, <1>7, <2>1, UpperByteIs
  <2> QED  BY <2>2, <2>3, <2>4 DEF SrcPort, DstPort, U16
<1>10. ASSUME packet.ihl >= 5, packet.upper.nh = ICMP
       PROVE  U16(s + 4) = packet.upper.id
  <2>1. RawByte(s + 4) = UpperByte(packet, s + 4) /\ RawByte(s + 5) = UpperByte(packet, s + 5)
    BY <1>8, <1>10
  <2>2. (s + 4) + 1 = s + 5
    OBVIOUS
  <2>3. 256 * UpperByte(packet, s + 4) + UpperByte(packet, s + 5) = packet.upper.id
    BY <1>1, <1>7, <1>10, UpperByteIs
  <2> QED  BY <2>1, <2>2, <2>3 DEF U16
<1> QED  BY <1>3, <1>4, <1>5, <1>6, <1>9, <1>10

LEMMA ParseIPv4Meaning ==
    ASSUME packet \in V4Packets, parse_ipv4
    PROVE  MeaningInv'
<1>1. /\ packet.version = 4
      /\ packet.ihl \in Nat /\ packet.frag \in Nat /\ packet.len \in Nat
  BY PacketAssumption DEF Below
<1>2. Meaning(packet) = V4Meaning(packet)
  BY <1>1 DEF Meaning
<1> DEFINE h == 4 * packet.ihl
           nh == packet.upper.nh
           ports == packet.frag = 0 /\ nh \in {TCP, UDP}
           icmp == packet.frag = 0 /\ nh = ICMP
           found == FiveTuple(Protocol(nh),
                              IF ports THEN SrcPort(h) ELSE 0,
                              IF ports THEN DstPort(h) ELSE 0,
                              IF icmp THEN {U16(h + 4)} ELSE {},
                              packet.frag # 0)
           need == IF nh = ICMP THEN 6 ELSE 4
           last == IF icmp THEN h + 5 ELSE 19
<1>3. IF packet.len < 20 THEN Return({}, 0)
      ELSE IF h < 20 \/ packet.len < h THEN Return({}, 0)
      ELSE IF packet.frag = 0 /\ packet.len < h + need THEN Return({}, 19)
      ELSE Return({found}, last)
  <2> DEFINE Body(ihl, number, frag) ==
               LET protocol == Protocol(number)
                   prts == frag = 0 /\ protocol.name \in {"Tcp", "Udp"}
                   icp == frag = 0 /\ protocol.name = "Icmp"
               IN  IF packet.len < 20 THEN Return({}, 0)
                   ELSE IF ihl < 20 \/ packet.len < ihl THEN Return({}, 0)
                   ELSE IF frag = 0 /\ packet.len < ihl + Need(protocol) THEN Return({}, 19)
                   ELSE Return({FiveTuple(protocol,
                                          IF prts THEN SrcPort(ihl) ELSE 0,
                                          IF prts THEN DstPort(ihl) ELSE 0,
                                          IF icp THEN {U16(ihl + 4)} ELSE {},
                                          frag # 0)},
                               IF icp THEN ihl + 5 ELSE 19)
  <2>1. Body((RawByte(0) % 16) * 4, RawByte(9), FragOffset)
    BY DEF parse_ipv4
  <2>2. Body(h, nh, packet.frag)
    <3> HIDE DEF Body
    <3> QED  BY <2>1, V4Reads
  <2> QED  BY <2>2, ProtocolNames
<1> HIDE DEF found, last
<1>4. h \in Nat /\ (h < 20 <=> packet.ihl < 5)
  BY <1>1
<1>5. V4Meaning(packet) =
        IF \/ packet.len < 20
           \/ packet.ihl < 5
           \/ packet.len < h
           \/ packet.frag = 0 /\ packet.len < h + need
        THEN {} ELSE {UpperTuple(packet, packet.frag # 0)}
  BY DEF V4Meaning, NoneIf
<1>6. CASE packet.len < 20 \/ h < 20 \/ packet.len < h
  <2>1. Return({}, 0)
    BY <1>3, <1>6
  <2>2. Meaning(packet) = {}
    BY <1>2, <1>4, <1>5, <1>6
  <2> QED  BY <2>1, <2>2, ReturnMeaning
<1>7. CASE /\ ~(packet.len < 20 \/ h < 20 \/ packet.len < h)
           /\ packet.frag = 0 /\ packet.len < h + need
  <2>1. Return({}, 19)
    BY <1>3, <1>7
  <2>2. Meaning(packet) = {}
    BY <1>2, <1>5, <1>7
  <2> QED  BY <2>1, <2>2, ReturnMeaning
<1>8. CASE /\ ~(packet.len < 20 \/ h < 20 \/ packet.len < h)
           /\ ~(packet.frag = 0 /\ packet.len < h + need)
  <2>1. Return({found}, last)
    BY <1>3, <1>8
  <2>2. Meaning(packet) = {UpperTuple(packet, packet.frag # 0)}
    BY <1>2, <1>4, <1>5, <1>8
  <2>3. packet.ihl >= 5
    BY <1>1, <1>4, <1>8
  <2>4. ports => SrcPort(h) = packet.upper.src_port /\ DstPort(h) = packet.upper.dst_port
    <3>1. ASSUME ports PROVE packet.len >= h + 4
      <4>1. need = 4
        BY <3>1 DEF TCP, UDP, ICMP
      <4> QED  BY <1>1, <1>4, <1>8, <3>1, <4>1
    <3> QED  BY <2>3, <3>1, V4Reads
  <2>5. icmp => U16(h + 4) = packet.upper.id
    BY <2>3, V4Reads
  <2>6. HasId(packet) <=> nh = ICMP
    BY <1>1 DEF HasId
  <2>7. found = UpperTuple(packet, packet.frag # 0)
    BY <2>4, <2>5, <2>6 DEF found, UpperTuple
  <2> QED  BY <2>1, <2>2, <2>7, ReturnMeaning
<1> QED  BY <1>6, <1>7, <1>8

\* What the walk finds at header j.
LEMMA V6Reads ==
    ASSUME packet \in V6Packets, packet.len >= 40, NEW j, AtHeader(j)
    PROVE  /\ proto_at < packet.len
           /\ RawByte(proto_at) = NumberAt(packet, j)
           /\ j <= Len(packet.chain) =>
                 /\ RawByte(offset) = NumberAt(packet, j + 1)
                 /\ Advance(packet.chain[j].nh) = SizeOf(packet.chain[j])
                 /\ U16(offset + 2) = packet.chain[j].word
           /\ j = Len(packet.chain) + 1 =>
                 /\ packet.upper.nh \in {TCP, UDP} /\ packet.len >= offset + 4 =>
                       /\ SrcPort(offset) = packet.upper.src_port
                       /\ DstPort(offset) = packet.upper.dst_port
                 /\ packet.upper.nh = ICMPV6 =>
                       /\ RawByte(offset) = packet.upper.type
                       /\ U16(offset + 4) = packet.upper.id
<1> DEFINE n == Len(packet.chain)
<1>1. n \in Nat /\ packet.version # 4 /\ packet.len \in Nat /\ packet.upper \in Uppers
  BY V6Fields
<1>2. \A i \in Nat : RawByte(i) = V6Byte(packet, i)
  BY <1>1 DEF RawByte
<1>3. j \in 1..(n + 1) /\ j \in Nat /\ offset = packet.at[j] /\ offset \in Nat
  BY <1>1, V6Fields DEF AtHeader
<1>4. proto_at < packet.len /\ RawByte(proto_at) = NumberAt(packet, j)
  <2>1. CASE j = 1
    <3>1. proto_at = 6
      BY <2>1 DEF AtHeader
    <3>2. RawByte(6) = NumberAt(packet, 1)
      BY <1>2, V6Bytes
    <3> QED  BY <1>1, <2>1, <3>1, <3>2
  <2>2. CASE j # 1
    <3>1. PICK i \in 1..n : i = j - 1 /\ j = i + 1
      <4>1. j - 1 \in 1..n /\ j = (j - 1) + 1
        BY <1>1, <1>3, <2>2
      <4> QED  BY <4>1
    <3>2. proto_at = packet.at[i] /\ Reads(packet, i)
      <4>1. i \in 1..(j - 1)
        BY <1>1, <1>3, <3>1
      <4> QED  BY <2>2, <3>1, <4>1 DEF AtHeader
    <3>3. packet.at[i] \in Nat
      BY <1>1, V6Fields
    <3>4. RawByte(packet.at[i]) = NumberAt(packet, i + 1)
      BY <1>2, <3>3, V6Bytes
    <3>5. packet.at[i] < packet.len
      BY <1>1, <3>2, <3>3 DEF Reads
    <3> QED  BY <3>1, <3>2, <3>4, <3>5
  <2> QED  BY <2>1, <2>2
<1>5. ASSUME j <= n
      PROVE  /\ RawByte(offset) = NumberAt(packet, j + 1)
             /\ Advance(packet.chain[j].nh) = SizeOf(packet.chain[j])
             /\ U16(offset + 2) = packet.chain[j].word
  <2>1. j \in 1..n
    BY <1>1, <1>3, <1>5
  <2>2. /\ V6Byte(packet, offset) = NumberAt(packet, j + 1)
        /\ V6Byte(packet, offset + 1) = packet.chain[j].ext
        /\ 256 * V6Byte(packet, offset + 2) + V6Byte(packet, offset + 3) = packet.chain[j].word
    BY <1>3, <2>1, V6Bytes
  <2>3. offset + 1 \in Nat /\ offset + 2 \in Nat /\ offset + 3 \in Nat /\ (offset + 2) + 1 = offset + 3
    BY <1>3
  <2>4. RawByte(offset) = NumberAt(packet, j + 1) /\ RawByte(offset + 1) = packet.chain[j].ext
    BY <1>2, <1>3, <2>2, <2>3
  <2>5. U16(offset + 2) = packet.chain[j].word
    BY <1>2, <2>2, <2>3 DEF U16
  <2>6. PICK e \in Nat : e = packet.chain[j].ext
    <3>1. packet.chain[j].ext \in Bytes
      BY <2>1, V6Fields
    <3> QED  BY <3>1 DEF Bytes, Below
  <2>7. Advance(packet.chain[j].nh) = SizeOf(packet.chain[j])
    <3>1. (e + 2) * 4 = 4 * (e + 2) /\ (e + 1) * 8 = 8 * (e + 1)
      OBVIOUS
    <3> QED  BY <2>4, <2>6, <3>1 DEF Advance, SizeOf
  <2> QED  BY <2>4, <2>5, <2>7
<1>6. ASSUME j = n + 1, NEW k \in Nat
      PROVE  RawByte(offset + k) = UpperByte(packet, offset + k)
  <2>1. offset + k \in Nat /\ offset + k >= packet.at[n + 1]
    BY <1>3, <1>6
  <2> QED  BY <1>2, <2>1, V6Bytes
<1>7. j = n + 1 => UpperStart(packet) = offset
  BY <1>1, <1>3 DEF UpperStart
<1>8. offset + 0 = offset /\ (offset + 2) + 1 = offset + 3 /\ (offset + 4) + 1 = offset + 5
  BY <1>3
<1>9. ASSUME j = n + 1, packet.upper.nh \in {TCP, UDP}, packet.len >= offset + 4
      PROVE  SrcPort(offset) = packet.upper.src_port /\ DstPort(offset) = packet.upper.dst_port
  <2>1. packet.upper.nh \notin {ICMP, ICMPV6}
    BY <1>9 DEF TCP, UDP, ICMP, ICMPV6
  <2>2. /\ RawByte(offset + 0) = UpperByte(packet, offset + 0)
        /\ RawByte(offset + 1) = UpperByte(packet, offset + 1)
        /\ RawByte(offset + 2) = UpperByte(packet, offset + 2)
        /\ RawByte(offset + 3) = UpperByte(packet, offset + 3)
    BY <1>6, <1>9
  <2>3. /\ 256 * UpperByte(packet, offset) + UpperByte(packet, offset + 1) = packet.upper.src_port
        /\ 256 * UpperByte(packet, offset + 2) + UpperByte(packet, offset + 3)
              = packet.upper.dst_port
    <3>1. PICK s \in Nat : s = offset /\ UpperStart(packet) = s
      BY <1>3, <1>7, <1>9
    <3>2. /\ 256 * UpperByte(packet, s) + UpperByte(packet, s + 1) = packet.upper.src_port
          /\ 256 * UpperByte(packet, s + 2) + UpperByte(packet, s + 3) = packet.upper.dst_port
      BY <1>1, <2>1, <3>1, UpperByteIs
    <3> QED  BY <3>1, <3>2
  <2>4. ~(packet.len - offset < 4)
    BY <1>1, <1>3, <1>9
  <2> QED  BY <1>8, <2>2, <2>3, <2>4 DEF SrcPort, DstPort, U16
<1>10. ASSUME j = n + 1, packet.upper.nh = ICMPV6
       PROVE  RawByte(offset) = packet.upper.type /\ U16(offset + 4) = packet.upper.id
  <2>1. /\ RawByte(offset + 0) = UpperByte(packet, offset + 0)
        /\ RawByte(offset + 4) = UpperByte(packet, offset + 4)
        /\ RawByte(offset + 5) = UpperByte(packet, offset + 5)
    BY <1>6, <1>10
  <2>2. /\ UpperByte(packet, offset) = packet.upper.type
        /\ 256 * UpperByte(packet, offset + 4) + UpperByte(packet, offset + 5) = packet.upper.id
    BY <1>1, <1>3, <1>7, <1>10, UpperByteIs
  <2> QED  BY <1>8, <2>1, <2>2 DEF U16
<1> QED  BY <1>4, <1>5, <1>9, <1>10

\* A header that is cut off before any later fragment: the packet means nothing.
LEMMA V6Cut ==
    ASSUME NEW p \in V6Packets, p.version = 6, NEW j \in 1..Len(p.chain), ~Reads(p, j),
           \A i \in 1..(j - 1) : i \notin Fragmented(p)
    PROVE  Meaning(p) = {}
<1>1. Meaning(p) = V6Meaning(p) /\ Len(p.chain) \in Nat
  BY V6Fields DEF Meaning
<1>2. CASE Fragmented(p) = {}
  BY <1>1, <1>2 DEF V6Meaning, NoneIf
<1>3. CASE Fragmented(p) # {}
  <2> DEFINE k == Min(Fragmented(p))
  <2>1. k \in Fragmented(p)
    <3>1. Fragmented(p) \subseteq Nat
      BY <1>1 DEF Fragmented
    <3>2. \E x \in Fragmented(p) : \A y \in Fragmented(p) : x <= y
      BY <1>3, <3>1, LeastNat
    <3> QED  BY <3>2 DEF Min
  <2>2. k \in 1..Len(p.chain)
    BY <2>1 DEF Fragmented
  <2>3. j \in 1..k
    <3> HIDE DEF k
    <3>1. k \notin 1..(j - 1)
      BY <2>1
    <3> QED  BY <1>1, <2>2, <3>1
  <2> HIDE DEF k
  <2>4. \E i \in 1..k : ~Reads(p, i)
    BY <2>3
  <2>5. V6Meaning(p) = NoneIf(p.len < 40 \/ \E i \in 1..k : ~Reads(p, i),
                             FiveTuple(Protocol(NumberAt(p, k + 1)), 0, 0, {}, TRUE))
    BY <1>3 DEF V6Meaning, k
  <2> QED  BY <1>1, <2>4, <2>5 DEF NoneIf
<1> QED  BY <1>2, <1>3

\* A later fragment means its addresses and protocol alone.
LEMMA V6Later ==
    ASSUME NEW p \in V6Packets, p.version = 6, p.len >= 40, NEW j \in Fragmented(p),
           \A i \in 1..j : Reads(p, i),
           \A i \in 1..(j - 1) : i \notin Fragmented(p)
    PROVE  Meaning(p) = {FiveTuple(Protocol(NumberAt(p, j + 1)), 0, 0, {}, TRUE)}
<1>1. Meaning(p) = V6Meaning(p) /\ Len(p.chain) \in Nat /\ p.len \in Nat
  BY V6Fields DEF Meaning
<1>2. Fragmented(p) \subseteq Nat /\ \A x \in Fragmented(p) : x >= 1
  BY <1>1 DEF Fragmented
<1>3. \A x \in Fragmented(p) : j <= x
  <2> SUFFICES ASSUME NEW x \in Fragmented(p) PROVE j <= x
    OBVIOUS
  <2>1. x \notin 1..(j - 1) /\ x \in Nat /\ x >= 1 /\ j \in Nat
    BY <1>2
  <2> QED  BY <2>1
<1>4. \A x \in Fragmented(p) : (\A y \in Fragmented(p) : x <= y) => x = j
  BY <1>2, <1>3
<1>5. Min(Fragmented(p)) = j
  BY <1>3, <1>4 DEF Min
<1>6. ~(p.len < 40)
  BY <1>1
<1> QED  BY <1>1, <1>5, <1>6 DEF V6Meaning, NoneIf

\* A packet whose headers are all there means what its transport header says.
LEMMA V6Whole ==
    ASSUME NEW p \in V6Packets, p.version = 6, p.len >= 40, Fragmented(p) = {},
           \A i \in 1..Len(p.chain) : Reads(p, i)
    PROVE  Meaning(p) = IF /\ UpperNeed(p.upper) > 0
                           /\ p.len < p.at[Len(p.chain) + 1] + UpperNeed(p.upper)
                        THEN {} ELSE {UpperTuple(p, FALSE)}
<1>1. Meaning(p) = V6Meaning(p) /\ p.len \in Nat /\ UpperStart(p) = p.at[Len(p.chain) + 1]
  BY V6Fields DEF Meaning, UpperStart
<1>2. ~(p.len < 40)
  BY <1>1
<1> QED  BY <1>1, <1>2 DEF V6Meaning, NoneIf

LEMMA BeginMeaning == BoundsInv /\ Begin => MeaningInv'
<1> SUFFICES ASSUME BoundsInv, Begin PROVE MeaningInv'
  OBVIOUS
<1>1. /\ packet.len \in Nat
      /\ packet \in V4Packets => packet.version = 4 /\ RawByte(0) \div 16 = 4
      /\ packet \in V6Packets => packet.version # 4 /\ RawByte(0) \div 16 = packet.version
      /\ packet \in V4Packets \cup V6Packets
  BY RawByteType DEF BoundsInv
<1>2. CASE packet \in V4Packets
  <2>1. CASE packet.len = 0
    <3>1. Return({}, 0)
      BY <2>1 DEF Begin
    <3>2. Meaning(packet) = {}
      BY <1>1, <1>2, <2>1 DEF Meaning, V4Meaning, NoneIf
    <3> QED  BY <3>1, <3>2, ReturnMeaning
  <2>2. CASE packet.len # 0
    <3>1. parse_ipv4
      BY <1>1, <1>2, <2>2 DEF Begin
    <3> QED  BY <1>2, <3>1, ParseIPv4Meaning
  <2> QED  BY <2>1, <2>2
<1>3. CASE packet \in V6Packets /\ (packet.version # 6 \/ packet.len < 40)
  <2>1. Meaning(packet) = {}
    <3>1. CASE packet.version # 6
      BY <1>1, <1>3, <3>1 DEF Meaning
    <3>2. CASE packet.version = 6 /\ packet.len < 40
      BY <3>2 DEF Meaning, V6Meaning, NoneIf
    <3> QED  BY <1>3, <3>1, <3>2
  <2>2. Return({}, 0)
    BY <1>1, <1>3 DEF Begin
  <2> QED  BY <2>1, <2>2, ReturnMeaning
<1>4. CASE packet \in V6Packets /\ packet.version = 6 /\ ~(packet.len < 40)
  <2>1. /\ pc' = "walk" /\ proto_at' = 6 /\ offset' = 40 /\ packet' = packet
    BY <1>1, <1>4 DEF Begin
  <2>2. 1 \in 1..(Len(packet.chain) + 1) /\ packet.at[1] = 40
    BY <1>4, V6Fields
  <2>3. AtHeader(1)'
    BY <2>1, <2>2 DEF AtHeader
  <2> QED  BY <2>1, <2>3 DEF MeaningInv, ParsesAsBuilt
<1> QED  BY <1>1, <1>2, <1>3, <1>4

\* A turn of the loop at an extension header.
LEMMA WalkChain ==
    ASSUME BoundsInv, Walk, NEW j, AtHeader(j), j <= Len(packet.chain)
    PROVE  MeaningInv'
<1> DEFINE h == packet.chain[j]
<1>1. packet \in V6Packets /\ packet.version = 6 /\ packet.len >= 40
  BY DEF BoundsInv, Walk
<1>2. /\ packet.len \in Nat /\ offset \in Nat /\ Len(packet.chain) \in Nat
      /\ j \in 1..Len(packet.chain) /\ j \in Nat /\ offset = packet.at[j]
  BY <1>1, V6Fields DEF AtHeader, BoundsInv
<1>3. /\ ~(proto_at >= packet.len)
      /\ RawByte(proto_at) = h.nh
      /\ RawByte(offset) = NumberAt(packet, j + 1)
      /\ Advance(h.nh) = SizeOf(h)
      /\ U16(offset + 2) = h.word
  <2>1. proto_at \in Nat
    BY DEF BoundsInv
  <2>2. NumberAt(packet, j) = h.nh
    BY DEF NumberAt
  <2>3. proto_at < packet.len
    BY <1>1, V6Reads
  <2>4. ~(proto_at >= packet.len)
    BY <1>2, <2>1, <2>3
  <2> QED  BY <1>1, <2>2, <2>4, V6Reads
<1>4. h.nh \notin {TCP, UDP, ICMPV6, ESP, NO_NEXT} /\ h.word \in Nat
  <2>1. h.nh \notin {TCP, UDP, ICMPV6, ESP, NO_NEXT} /\ h.word \in Words
    BY <1>1, <1>2, V6Fields
  <2> QED  BY <2>1 DEF Words, Below
<1>5. Truncated(h.nh) <=> ~Reads(packet, j)
  <2>1. CASE h.nh = FRAGMENT
    <3>1. Reads(packet, j) <=> packet.len >= offset + 8
      BY <1>2, <2>1 DEF Reads
    <3>2. Truncated(h.nh) <=> packet.len < offset + 8
      BY <2>1 DEF Truncated
    <3> QED  BY <1>2, <3>1, <3>2
  <2>2. CASE h.nh # FRAGMENT
    <3>1. Reads(packet, j) <=> packet.len >= offset + 2
      BY <1>2, <2>2 DEF Reads
    <3>2. Truncated(h.nh) <=> packet.len <= offset + 1
      BY <1>4, <2>2 DEF Truncated
    <3> QED  BY <1>2, <3>1, <3>2
  <2> QED  BY <2>1, <2>2
<1>6. h.nh = FRAGMENT => (LaterFragment <=> j \in Fragmented(packet))
  <2>1. LaterFragment <=> h.word \div 8 # 0
    BY <1>3 DEF LaterFragment
  <2>2. h.word \div 8 # 0 <=> h.word >= 8
    BY <1>4
  <2> QED  BY <1>2, <2>1, <2>2 DEF Fragmented
<1>7. h.nh # FRAGMENT => j \notin Fragmented(packet)
  BY DEF Fragmented
<1>8. \A i \in 1..(j - 1) : Reads(packet, i) /\ i \notin Fragmented(packet)
  BY DEF AtHeader
<1> DEFINE SkipStep == /\ Skips(h.nh)
                       /\ proto_at' = offset
                       /\ offset' = offset + Advance(h.nh)
                       /\ touched' = IF h.nh = FRAGMENT THEN offset + 3 ELSE touched
                       /\ UNCHANGED <<packet, incoming, pc, tuple>>
<1>9. \/ Terminal(h.nh)
      \/ Truncated(h.nh) /\ Return({}, 0)
      \/ SkipStep
  BY <1>3 DEF Walk
<1>10. CASE Terminal(h.nh)
  <2>1. /\ h.nh = FRAGMENT
        /\ packet.len >= offset + 8
        /\ LaterFragment
        /\ Return({FiveTuple(Protocol(RawByte(offset)), 0, 0, {}, TRUE)}, offset + 3)
    BY <1>4, <1>10 DEF Terminal
  <2>2. Reads(packet, j)
    <3>1. ~Truncated(h.nh)
      <4>1. ~(packet.len < offset + 8)
        BY <1>2, <2>1
      <4> QED  BY <2>1, <4>1 DEF Truncated
    <3> QED  BY <1>5, <3>1
  <2>3. \A i \in 1..j : Reads(packet, i)
    <3> SUFFICES ASSUME NEW i \in 1..j PROVE Reads(packet, i)
      OBVIOUS
    <3>1. i = j \/ i \in 1..(j - 1)
      BY <1>2
    <3> QED  BY <1>8, <2>2, <3>1
  <2>4. Meaning(packet) = {FiveTuple(Protocol(NumberAt(packet, j + 1)), 0, 0, {}, TRUE)}
    BY <1>1, <1>6, <1>8, <2>1, <2>3, V6Later
  <2> QED  BY <1>3, <2>1, <2>4, ReturnMeaning
<1>11. CASE Truncated(h.nh) /\ Return({}, 0)
  <2>1. Meaning(packet) = {}
    BY <1>1, <1>2, <1>5, <1>8, <1>11, V6Cut
  <2> QED  BY <1>11, <2>1, ReturnMeaning
<1>12. CASE SkipStep
  <2>1. Reads(packet, j) /\ j \notin Fragmented(packet)
    BY <1>5, <1>6, <1>7, <1>12 DEF Skips
  <2>2. PICK k \in Nat : k = j + 1
    BY <1>2
  <2>3. /\ k \in 1..(Len(packet.chain) + 1)
        /\ packet.at[k] = offset + SizeOf(h)
        /\ k # 1 /\ k - 1 = j
    BY <1>1, <1>2, <2>2, V6Fields
  <2>4. \A i \in 1..(k - 1) : Reads(packet, i) /\ i \notin Fragmented(packet)
    <3> SUFFICES ASSUME NEW i \in 1..(k - 1)
                 PROVE  Reads(packet, i) /\ i \notin Fragmented(packet)
      OBVIOUS
    <3>1. i = j \/ i \in 1..(j - 1)
      BY <1>2, <2>2
    <3> QED  BY <1>8, <2>1, <3>1
  <2>5. packet' = packet /\ offset' = packet.at[k] /\ proto_at' = packet.at[k - 1] /\ pc' = pc
    BY <1>2, <1>3, <1>12, <2>3
  <2>6. AtHeader(k)'
    BY <2>3, <2>4, <2>5 DEF AtHeader
  <2>7. pc' = "walk"
    BY <2>5 DEF Walk
  <2> QED  BY <2>6, <2>7 DEF MeaningInv, ParsesAsBuilt
<1> HIDE DEF SkipStep
<1> QED  BY <1>9, <1>10, <1>11, <1>12

\* The turn of the loop at the transport header.
LEMMA WalkUpper ==
    ASSUME BoundsInv, Walk, Understood(packet), NEW j, AtHeader(j), j = Len(packet.chain) + 1
    PROVE  MeaningInv'
<1> DEFINE u == packet.upper
           n == Len(packet.chain)
<1>1. packet \in V6Packets /\ packet.version = 6 /\ packet.len >= 40
  BY DEF BoundsInv, Walk
<1>2. /\ packet.len \in Nat /\ offset \in Nat /\ n \in Nat /\ offset = packet.at[n + 1]
  BY <1>1, V6Fields DEF AtHeader, BoundsInv
<1>3. n + 1 - 1 = n /\ ~(n + 1 <= n)
  BY <1>2
<1>4. Fragmented(packet) = {} /\ \A i \in 1..n : Reads(packet, i)
  <2>1. \A i \in 1..n : Reads(packet, i) /\ i \notin Fragmented(packet)
    BY <1>3 DEF AtHeader
  <2>2. Fragmented(packet) \subseteq 1..n
    BY DEF Fragmented
  <2> QED  BY <2>1, <2>2
<1>5. u.nh \in {TCP, UDP, ICMPV6, ESP, NO_NEXT}
  BY <1>1, <1>4 DEF Understood
<1>6. ~(proto_at >= packet.len) /\ RawByte(proto_at) = u.nh
  <2>1. proto_at \in Nat /\ proto_at < packet.len /\ RawByte(proto_at) = NumberAt(packet, j)
    BY <1>1, V6Reads DEF BoundsInv
  <2> QED  BY <1>2, <1>3, <2>1 DEF NumberAt
<1>7. Terminal(u.nh)
  <2>1. ~Truncated(u.nh) /\ ~Skips(u.nh)
    BY <1>5 DEF Truncated, Skips, TCP, UDP, ICMPV6, ESP, NO_NEXT, FRAGMENT
  <2> QED  BY <1>6, <2>1 DEF Walk
<1>8. Meaning(packet) = IF UpperNeed(u) > 0 /\ packet.len < offset + UpperNeed(u)
                        THEN {} ELSE {UpperTuple(packet, FALSE)}
  BY <1>1, <1>2, <1>4, V6Whole
<1>9. CASE u.nh \in {ESP, NO_NEXT}
  <2>1. Return({FiveTuple(Protocol(u.nh), 0, 0, {}, FALSE)}, 0)
    BY <1>7, <1>9 DEF Terminal, TCP, UDP, ICMPV6, ESP, NO_NEXT, FRAGMENT
  <2>2. UpperNeed(u) = 0
    BY <1>9 DEF UpperNeed, ESP, NO_NEXT, ICMP, ICMPV6
  <2>3. Meaning(packet) = {UpperTuple(packet, FALSE)}
    BY <1>8, <2>2
  <2>4. UpperTuple(packet, FALSE) = FiveTuple(Protocol(u.nh), 0, 0, {}, FALSE)
    <3>1. ~HasId(packet) /\ u.nh \notin {TCP, UDP}
      BY <1>1, <1>9 DEF HasId, TCP, UDP, ICMPV6, ESP, NO_NEXT
    <3> QED  BY <3>1 DEF UpperTuple
  <2> QED  BY <2>1, <2>3, <2>4, ReturnMeaning
<1>10. CASE u.nh = ICMPV6
  <2>1. UpperNeed(u) = 6
    BY <1>10 DEF UpperNeed
  <2>2. CASE packet.len < offset + 6
    <3>1. Return({}, 0)
      BY <1>7, <1>10, <2>2 DEF Terminal, TCP, UDP, ICMPV6, ESP, NO_NEXT, FRAGMENT
    <3>2. Meaning(packet) = {}
      BY <1>8, <2>1, <2>2
    <3> QED  BY <3>1, <3>2, ReturnMeaning
  <2>3. CASE ~(packet.len < offset + 6)
    <3>1. Return({FiveTuple(Protocol(u.nh), 0, 0,
                      IF RawByte(offset) \in {128, 129} THEN {U16(offset + 4)} ELSE {},
                      FALSE)}, offset + 5)
      BY <1>7, <1>10, <2>3 DEF Terminal, TCP, UDP, ICMPV6, ESP, NO_NEXT, FRAGMENT
    <3>2. RawByte(offset) = u.type /\ U16(offset + 4) = u.id
      BY <1>1, <1>10, V6Reads
    <3>3. Meaning(packet) = {UpperTuple(packet, FALSE)}
      BY <1>8, <2>1, <2>3
    <3>4. (HasId(packet) <=> u.type \in {128, 129}) /\ u.nh \notin {TCP, UDP}
      BY <1>1, <1>10 DEF HasId, TCP, UDP, ICMPV6
    <3>5. UpperTuple(packet, FALSE) =
            FiveTuple(Protocol(u.nh), 0, 0, IF u.type \in {128, 129} THEN {u.id} ELSE {}, FALSE)
      BY <3>4 DEF UpperTuple
    <3> QED  BY <3>1, <3>2, <3>3, <3>5, ReturnMeaning
  <2> QED  BY <2>2, <2>3
<1>11. CASE u.nh \in {TCP, UDP}
  <2>1. UpperNeed(u) = 4
    BY <1>11 DEF UpperNeed, TCP, UDP, ESP, NO_NEXT, ICMP, ICMPV6
  <2>2. CASE packet.len < offset + 4
    <3>1. Return({}, 0)
      BY <1>7, <1>11, <2>2 DEF Terminal, TCP, UDP, ICMPV6, ESP, NO_NEXT, FRAGMENT
    <3>2. Meaning(packet) = {}
      BY <1>8, <2>1, <2>2
    <3> QED  BY <3>1, <3>2, ReturnMeaning
  <2>3. CASE ~(packet.len < offset + 4)
    <3>1. Return({FiveTuple(Protocol(u.nh), SrcPort(offset), DstPort(offset), {}, FALSE)}, offset)
      BY <1>7, <1>11, <2>3 DEF Terminal, TCP, UDP, ICMPV6, ESP, NO_NEXT, FRAGMENT
    <3>2. SrcPort(offset) = u.src_port /\ DstPort(offset) = u.dst_port
      <4>1. packet.len >= offset + 4
        BY <1>2, <2>3
      <4> QED  BY <1>1, <1>11, <4>1, V6Reads
    <3>3. Meaning(packet) = {UpperTuple(packet, FALSE)}
      BY <1>8, <2>1, <2>3
    <3>4. ~HasId(packet)
      BY <1>1, <1>11 DEF HasId, TCP, UDP, ICMPV6
    <3>5. UpperTuple(packet, FALSE) =
            FiveTuple(Protocol(u.nh), u.src_port, u.dst_port, {}, FALSE)
      BY <1>11, <3>4 DEF UpperTuple
    <3> QED  BY <3>1, <3>2, <3>3, <3>5, ReturnMeaning
  <2> QED  BY <2>2, <2>3
<1> QED  BY <1>5, <1>9, <1>10, <1>11

LEMMA MeaningInductive == BoundsInv /\ MeaningInv /\ [Next]_vars => MeaningInv'
<1> SUFFICES ASSUME BoundsInv, MeaningInv, [Next]_vars PROVE MeaningInv'
  OBVIOUS
<1>1. CASE Begin
  BY <1>1, BeginMeaning
<1>2. CASE Walk /\ Understood(packet)
  <2>1. PICK j : AtHeader(j)
    BY <1>2 DEF MeaningInv, Walk
  <2>2. j <= Len(packet.chain) \/ j = Len(packet.chain) + 1
    <3>1. Len(packet.chain) \in Nat
      BY <1>2, V6Fields DEF BoundsInv, Walk
    <3> QED  BY <2>1, <3>1 DEF AtHeader
  <2> QED  BY <1>2, <2>1, <2>2, WalkChain, WalkUpper
<1>3. CASE Walk /\ ~Understood(packet)
  <2>1. packet' = packet
    <3> HIDE DEF Understood
    <3> QED  BY <1>3 DEF Walk, Terminal, Return
  <2> QED  BY <1>3, <2>1 DEF MeaningInv, ParsesAsBuilt
<1>4. CASE UNCHANGED vars
  BY <1>4 DEF MeaningInv, ParsesAsBuilt, AtHeader, vars
<1> QED  BY <1>1, <1>2, <1>3, <1>4 DEF Next

LEMMA AlwaysMeaning == Spec => []MeaningInv
<1>1. Init => MeaningInv
  BY DEF Init, MeaningInv, ParsesAsBuilt
<1> QED  BY <1>1, MeaningInductive, AlwaysBounds, PTL DEF Spec

\* For every packet, of any number of extension headers of any length, cut
\* anywhere, parse finds the five-tuple its sender meant, or none if the packet
\* is cut short of what is needed (packet.rs:67-130, 146-150).
THEOREM ParseIsAsBuilt == Spec => []ParsesAsBuilt
<1>1. MeaningInv => ParsesAsBuilt
  BY DEF MeaningInv
<1> QED  BY <1>1, AlwaysMeaning, PTL

-----------------------------------------------------------------------------
(* A reply belongs to the flow of the packet it answers.                   *)

\* A reply differs from its packet in the ports, which change places, and in
\* whether it is an echo request or an echo reply.
LEMMA ReplyFields ==
    ASSUME NEW p \in V4Packets \cup V6Packets
    PROVE  /\ Reply(p).version = p.version
           /\ p \in V4Packets => Reply(p).frag = p.frag
           /\ p \in V6Packets => Reply(p).chain = p.chain
           /\ Reply(p).upper.nh = p.upper.nh
           /\ Reply(p).upper.id = p.upper.id
           /\ Reply(p).upper.src_port = p.upper.dst_port
           /\ Reply(p).upper.dst_port = p.upper.src_port
           /\ Reply(p).upper.type \in {128, 129} <=> p.upper.type \in {128, 129}
<1>1. p.upper \in Uppers
  BY PacketAssumption
<1> DEFINE u == [p.upper EXCEPT !.src_port = p.upper.dst_port,
                                !.dst_port = p.upper.src_port,
                                !.type = IF @ = 128 THEN 129 ELSE IF @ = 129 THEN 128 ELSE @]
<1>2. /\ u.nh = p.upper.nh /\ u.id = p.upper.id
      /\ u.src_port = p.upper.dst_port /\ u.dst_port = p.upper.src_port
      /\ u.type \in {128, 129} <=> p.upper.type \in {128, 129}
  BY <1>1 DEF Uppers
<1> HIDE DEF u
<1>4. CASE p \in V4Packets
  <2>1. p = [version |-> 4, ihl |-> p.ihl, mf |-> p.mf, frag |-> p.frag,
             upper |-> p.upper, len |-> p.len]
    BY <1>4, PacketAssumption
  <2>2. Reply(p).version = p.version /\ Reply(p).frag = p.frag /\ Reply(p).upper = u
    BY <2>1 DEF Reply, u
  <2>3. p \notin V6Packets
    BY <2>1, V6Fields
  <2> QED  BY <1>2, <2>2, <2>3
<1>5. CASE p \in V6Packets
  <2>1. p = [version |-> p.version, chain |-> p.chain, at |-> p.at,
             upper |-> p.upper, len |-> p.len]
    BY <1>5, PacketAssumption
  <2>2. Reply(p).version = p.version /\ Reply(p).chain = p.chain /\ Reply(p).upper = u
    BY <2>1 DEF Reply, u
  <2>3. p \notin V4Packets
    BY <1>5, V6Fields, PacketAssumption
  <2> QED  BY <1>2, <2>2, <2>3
<1> QED  BY <1>4, <1>5

\* Two tuples are of one flow, seen from its two ends.
Mirrored(t, r) ==
    \E protocol, src_port, dst_port, id, later :
        /\ t = FiveTuple(protocol, src_port, dst_port, id, later)
        /\ r = FiveTuple(protocol, dst_port, src_port, id, later)

LEMMA ReplyUpper ==
    ASSUME NEW p \in V4Packets \cup V6Packets, NEW later \in BOOLEAN
    PROVE  Mirrored(UpperTuple(p, later), UpperTuple(Reply(p), later))
<1> DEFINE q == Reply(p)
<1>1. HasId(q) <=> HasId(p)
  BY ReplyFields DEF HasId
<1>2. q.upper.nh = p.upper.nh
  BY ReplyFields
<1> DEFINE src == IF ~later /\ p.upper.nh \in {TCP, UDP} THEN p.upper.src_port ELSE 0
           dst == IF ~later /\ p.upper.nh \in {TCP, UDP} THEN p.upper.dst_port ELSE 0
           id == IF ~later /\ HasId(p) THEN {p.upper.id} ELSE {}
<1>3. UpperTuple(p, later) = FiveTuple(Protocol(p.upper.nh), src, dst, id, later)
  BY DEF UpperTuple
<1>4. UpperTuple(q, later) = FiveTuple(Protocol(p.upper.nh), dst, src, id, later)
  <2>1. /\ q.upper.src_port = p.upper.dst_port
        /\ q.upper.dst_port = p.upper.src_port
        /\ q.upper.id = p.upper.id
    BY ReplyFields
  <2> HIDE DEF q
  <2> QED  BY <1>1, <1>2, <2>1 DEF UpperTuple
<1> HIDE DEF src, dst, id
<1> QED  BY <1>3, <1>4 DEF Mirrored

LEMMA ReplyMeaning ==
    ASSUME NEW p \in V4Packets \cup V6Packets, NEW t \in Meaning(p), NEW r \in Meaning(Reply(p))
    PROVE  Mirrored(t, r)
<1> DEFINE q == Reply(p)
<1>1. q.version = p.version
  BY ReplyFields
<1>2. CASE p \in V4Packets
  <2>1. p.version = 4
    BY <1>2, PacketAssumption
  <2>2. t = UpperTuple(p, p.frag # 0)
    BY <2>1 DEF Meaning, V4Meaning, NoneIf
  <2>3. q.frag = p.frag
    BY <1>2, ReplyFields
  <2>4. r = UpperTuple(q, q.frag # 0)
    <3> HIDE DEF q
    <3>1. r \in V4Meaning(q)
      BY <1>1, <2>1 DEF Meaning, q
    <3> QED  BY <3>1 DEF V4Meaning, NoneIf
  <2>5. (p.frag # 0) \in BOOLEAN
    OBVIOUS
  <2>6. Mirrored(UpperTuple(p, p.frag # 0), UpperTuple(q, p.frag # 0))
    BY <2>5, ReplyUpper
  <2> HIDE DEF q
  <2> QED  BY <2>2, <2>3, <2>4, <2>6
<1>3. CASE p \in V6Packets
  <2>1. p.version # 4
    BY <1>3, V6Fields
  <2>2. t \in V6Meaning(p)
    BY <2>1 DEF Meaning
  <2>3. r \in V6Meaning(q)
    <3> HIDE DEF q
    <3> QED  BY <1>1, <2>1 DEF Meaning, q
  <2>4. q.chain = p.chain /\ q.upper.nh = p.upper.nh
    BY <1>3, ReplyFields
  <2> HIDE DEF q
  <2>5. Fragmented(q) = Fragmented(p) /\ \A j : NumberAt(q, j) = NumberAt(p, j)
    BY <2>4 DEF Fragmented, NumberAt
  <2>6. CASE Fragmented(p) # {}
    <3> DEFINE f == FiveTuple(Protocol(NumberAt(p, Min(Fragmented(p)) + 1)), 0, 0, {}, TRUE)
    <3>1. t = f
      BY <2>2, <2>6 DEF V6Meaning, NoneIf
    <3>2. r = f
      BY <2>3, <2>5, <2>6 DEF V6Meaning, NoneIf
    <3> QED  BY <3>1, <3>2 DEF Mirrored
  <2>7. CASE Fragmented(p) = {}
    <3>1. t = UpperTuple(p, FALSE)
      BY <2>2, <2>7 DEF V6Meaning, NoneIf
    <3>2. r = UpperTuple(q, FALSE)
      BY <2>3, <2>5, <2>7 DEF V6Meaning, NoneIf
    <3> QED  BY <3>1, <3>2, ReplyUpper DEF q
  <2> QED  BY <2>6, <2>7
<1> QED  BY <1>2, <1>3

\* parse turns the two tuples of one flow into one and the same packet, when it
\* sees them in opposite directions.
LEMMA MirroredSameFlow ==
    ASSUME NEW t, NEW r, Mirrored(t, r), NEW in \in BOOLEAN
    PROVE  [ToPacket([r EXCEPT !.src = t.dst, !.dst = t.src], ~in)
              EXCEPT !.fragment = t.fragment] = ToPacket(t, in)
<1>1. PICK protocol, src_port, dst_port, id, later :
         /\ t = FiveTuple(protocol, src_port, dst_port, id, later)
         /\ r = FiveTuple(protocol, dst_port, src_port, id, later)
  BY DEF Mirrored
<1> DEFINE back == [src |-> "dst", dst |-> "src", protocol |-> protocol,
                    src_port |-> dst_port, dst_port |-> src_port,
                    icmp_identifier |-> id, fragment |-> later]
<1>2. [r EXCEPT !.src = t.dst, !.dst = t.src] = back
  <2>1. t.src = "src" /\ t.dst = "dst"
    BY <1>1 DEF FiveTuple
  <2> DEFINE half == [src |-> "dst", dst |-> "dst", protocol |-> protocol,
                      src_port |-> dst_port, dst_port |-> src_port,
                      icmp_identifier |-> id, fragment |-> later]
  <2>2. [r EXCEPT !.src = "dst"] = half
    BY <1>1 DEF FiveTuple
  <2>3. [half EXCEPT !.dst = "src"] = back
    OBVIOUS
  <2>4. [r EXCEPT !.src = "dst", !.dst = "src"] = [[r EXCEPT !.src = "dst"] EXCEPT !.dst = "src"]
    OBVIOUS
  <2> HIDE DEF half, back
  <2> QED  BY <2>1, <2>2, <2>3, <2>4
<1>3. t.fragment = later
  BY <1>1 DEF FiveTuple
<1>4. ToPacket(back, ~in) = ToPacket(t, in)
  BY <1>1 DEF ToPacket, FiveTuple
<1>5. ToPacket(t, in) = [ToPacket(t, in) EXCEPT !.fragment = later]
  BY <1>1 DEF ToPacket, FiveTuple
<1> QED  BY <1>2, <1>3, <1>4, <1>5

\* The reply to any packet parse understands is a packet of the same flow, so
\* the connection table's lookup finds what the packet recorded
\* (packet.rs:34-47).
THEOREM ParseReplyIsSameFlow == Spec => []ReplyIsSameFlow
<1>1. BoundsInv /\ MeaningInv => ReplyIsSameFlow
  <2> SUFFICES ASSUME BoundsInv, MeaningInv, pc = "done", Understood(packet),
                      NEW t \in tuple, NEW r \in Meaning(Reply(packet))
               PROVE  [ToPacket([r EXCEPT !.src = t.dst, !.dst = t.src], ~incoming)
                         EXCEPT !.fragment = t.fragment] = ToPacket(t, incoming)
    BY DEF ReplyIsSameFlow
  <2>1. t \in Meaning(packet) /\ packet \in V4Packets \cup V6Packets /\ incoming \in BOOLEAN
    BY DEF BoundsInv, MeaningInv, ParsesAsBuilt
  <2>2. Mirrored(t, r)
    BY <2>1, ReplyMeaning
  <2> QED  BY <2>1, <2>2, MirroredSameFlow
<1> QED  BY <1>1, AlwaysBounds, AlwaysMeaning, PTL
=============================================================================
