-------------------------- MODULE TransportProofs ---------------------------
(***************************************************************************)
(* The replay window and one direction of a tunnel, for every window size, *)
(* counter range and set of payloads.  First the window alone: its marks   *)
(* are exactly the accepted counters within reach, and so it answers as    *)
(* ReplayFilter does; the array of words that stores the marks implements  *)
(* it, for every word width and length.  Then the tunnel over a network    *)
(* that loses, repeats, reorders and damages datagrams: nonces are used    *)
(* once, and packets are delivered at most once and as they were sealed.   *)
(* That argument adds to the window's invariant that the sender's counters *)
(* are all behind send_counter, that every ciphertext on the wire was      *)
(* sealed by the sender, and that only accepted counters were delivered.   *)
(***************************************************************************)
EXTENDS Transport, ReplayBits, WellFoundedInduction, TLAPS

\* The window's own invariant: with the type invariant, WindowExact is inductive
\* as it stands, and the refinement of ReplayFilter follows from it.
WindowInv == WindowTypeOK /\ WindowExact

\* The window starts with nothing marked and nothing accepted (ReplayWindow::new).
LEMMA WindowInitInv == WindowInit => WindowInv
BY WindowAssumption DEF WindowInit, WindowInv, WindowTypeOK, WindowExact, Counters, Offsets

\* A counter above the mark keeps the invariant: the shift brings every mark
\* still in reach to its new offset, and a jump past the window has none to keep.
LEMMA AdvanceInv ==
    ASSUME WindowInv, NEW c \in Counters, Advance(c)
    PROVE  WindowInv'
<1> USE WindowAssumption DEF Counters, Offsets
<1>1. WindowTypeOK'
  BY DEF WindowInv, WindowTypeOK, Advance, ShiftLeft
<1>2. \A o \in Offsets : o \in seen' <=> c - o \in accepted'
  <2> SUFFICES ASSUME NEW o \in Offsets PROVE o \in seen' <=> c - o \in accepted'
    OBVIOUS
  <2>1. CASE o = 0
    BY <2>1 DEF Advance, WindowInv, WindowTypeOK
  <2>2. CASE o # 0 /\ c - current >= WINDOW_SIZE
    <3>1. c - o > current
      BY <2>2 DEF WindowInv, WindowTypeOK
    <3>2. o \notin seen'
      BY <2>2 DEF Advance
    <3>3. c - o \notin accepted /\ c - o # c
      BY <2>2, <3>1 DEF WindowInv, WindowTypeOK, WindowExact
    <3> QED BY <3>2, <3>3 DEF Advance
  <2>3. CASE o # 0 /\ c - current < WINDOW_SIZE
    <3> DEFINE n == c - current
    <3>1. o \in seen' <=> o - n \in seen
      BY <2>3 DEF Advance, ShiftLeft, WindowInv, WindowTypeOK
    <3>2. c - o \in accepted' <=> c - o \in accepted
      BY <2>3 DEF Advance, WindowInv, WindowTypeOK
    <3>3. CASE o >= n
      <4>1. o - n \in Offsets /\ current - (o - n) = c - o
        BY <2>3, <3>3 DEF Advance, WindowInv, WindowTypeOK
      <4> QED BY <3>1, <3>2, <4>1 DEF WindowInv, WindowExact
    <3>4. CASE o < n
      <4>1. o - n \notin seen /\ c - o > current
        BY <2>3, <3>4 DEF Advance, WindowInv, WindowTypeOK
      <4>2. c - o \notin accepted
        BY <4>1 DEF WindowInv, WindowTypeOK, WindowExact
      <4> QED BY <3>1, <3>2, <4>1, <4>2
    <3> QED BY <3>3, <3>4 DEF WindowInv, WindowTypeOK
  <2> QED BY <2>1, <2>2, <2>3 DEF WindowInv, WindowTypeOK
<1>3. \A x \in accepted' : x <= c
  BY DEF Advance, WindowInv, WindowTypeOK, WindowExact
<1>4. accepted' # {} /\ c \in accepted' /\ current' = c
  BY DEF Advance
<1> QED BY <1>1, <1>2, <1>3, <1>4 DEF WindowInv, WindowExact

\* A late counter marks its own offset and no other.
LEMMA AcceptLateInv ==
    ASSUME WindowInv, NEW c \in Counters, AcceptLate(c)
    PROVE  WindowInv'
<1> USE WindowAssumption DEF Counters, Offsets
<1>1. WindowTypeOK'
  BY DEF WindowInv, WindowTypeOK, AcceptLate
<1>2. \A o \in Offsets : o \in seen' <=> current' - o \in accepted'
  <2> SUFFICES ASSUME NEW o \in Offsets
               PROVE o \in seen' <=> current' - o \in accepted'
    OBVIOUS
  <2>1. (current - o = c) <=> (o = current - c)
    BY DEF WindowInv, WindowTypeOK
  <2> QED BY <2>1 DEF AcceptLate, WindowInv, WindowTypeOK, WindowExact
<1>3. \A x \in accepted' : x <= current'
  BY DEF AcceptLate, WindowInv, WindowTypeOK, WindowExact
<1>4. accepted' # {} /\ current' \in accepted'
  BY DEF AcceptLate, WindowInv, WindowTypeOK, WindowExact
<1> QED BY <1>1, <1>2, <1>3, <1>4 DEF WindowInv, WindowExact

\* Every call of check_and_update keeps the invariant; so does a stuttering step.
LEMMA WindowNextInv == WindowInv /\ [WindowNext]_windowVars => WindowInv'
<1> SUFFICES ASSUME WindowInv, [WindowNext]_windowVars PROVE WindowInv'
  OBVIOUS
<1>1. CASE UNCHANGED windowVars
  BY <1>1 DEF windowVars, WindowInv, WindowTypeOK, WindowExact
<1>2. ASSUME NEW c \in Counters, Advance(c) PROVE WindowInv'
  BY <1>2, AdvanceInv
<1>3. ASSUME NEW c \in Counters, AcceptLate(c) PROVE WindowInv'
  BY <1>3, AcceptLateInv
<1>4. ASSUME NEW c \in Counters, Refuse(c) PROVE WindowInv'
  BY <1>4 DEF Refuse, WindowInv, WindowTypeOK, WindowExact
<1> QED BY <1>1, <1>2, <1>3, <1>4 DEF WindowNext, CheckAndUpdate

\* For every window size and counter range, the window's fields stay in range
\* (ReplayWindow, transport.rs:37-71).
THEOREM WindowTypeCorrect == WindowSpec => []WindowTypeOK
<1>1. WindowInv => WindowTypeOK
  BY DEF WindowInv
<1> QED BY <1>1, WindowInitInv, WindowNextInv, PTL DEF WindowSpec

\* For every window size and counter range, the marks are exactly the accepted
\* counters the window still reaches, whatever order counters arrive in.
THEOREM WindowIsExact == WindowSpec => []WindowExact
<1>1. WindowInv => WindowExact
  BY DEF WindowInv
<1> QED BY <1>1, WindowInitInv, WindowNextInv, PTL DEF WindowSpec

-----------------------------------------------------------------------------
\* What the filter calls too old is what the window finds past its end.
LEMMA TooOldIsPastEnd ==
    ASSUME WindowInv, NEW c \in Counters
    PROVE  Filter!TooOld(c) <=> current - c >= WINDOW_SIZE
<1> USE WindowAssumption DEF Counters, Offsets, Filter!TooOld, WindowInv, WindowTypeOK
<1>1. ASSUME NEW h \in accepted, h - c >= WINDOW_SIZE
      PROVE  current - c >= WINDOW_SIZE
  BY <1>1 DEF WindowExact
<1>2. ASSUME current - c >= WINDOW_SIZE
      PROVE  \E h \in accepted : h - c >= WINDOW_SIZE
  <2>1. current # 0
    BY <1>2
  <2>2. current \in accepted
    BY <2>1 DEF WindowExact
  <2> QED BY <1>2, <2>2
<1> QED BY <1>1, <1>2

\* check_and_update accepts exactly the counters the filter admits.
LEMMA AcceptsWhatFilterAdmits ==
    ASSUME WindowInv, NEW c \in Counters
    PROVE  /\ Advance(c) => Filter!Admit(c)
           /\ AcceptLate(c) => Filter!Admit(c)
           /\ Refuse(c) => Filter!Turn(c)
<1> USE WindowAssumption DEF Counters, Offsets
<1>1. ASSUME Advance(c) PROVE Filter!Admit(c)
  <2>1. c \notin accepted /\ ~(current - c >= WINDOW_SIZE)
    BY <1>1 DEF Advance, WindowInv, WindowTypeOK, WindowExact
  <2> QED BY <1>1, <2>1, TooOldIsPastEnd DEF Advance, Filter!Admit, Filter!Admits
<1>2. ASSUME AcceptLate(c) PROVE Filter!Admit(c)
  <2>1. current - c \in Offsets /\ current - (current - c) = c
    BY <1>2 DEF AcceptLate, WindowInv, WindowTypeOK
  <2>2. c \notin accepted /\ ~(current - c >= WINDOW_SIZE)
    BY <1>2, <2>1 DEF AcceptLate, WindowInv, WindowTypeOK, WindowExact
  <2> QED BY <1>2, <2>2, TooOldIsPastEnd DEF AcceptLate, Filter!Admit, Filter!Admits
<1>3. ASSUME Refuse(c) PROVE Filter!Turn(c)
  <2>1. CASE current - c >= WINDOW_SIZE
    BY <1>3, <2>1, TooOldIsPastEnd DEF Refuse, Filter!Turn, Filter!Admits
  <2>2. CASE current - c < WINDOW_SIZE
    <3>1. current - c \in seen /\ current - c \in Offsets /\ current - (current - c) = c
      BY <1>3, <2>2 DEF Refuse, WindowInv, WindowTypeOK
    <3>2. c \in accepted
      BY <3>1 DEF WindowInv, WindowExact
    <3> QED BY <1>3, <3>2 DEF Refuse, Filter!Turn, Filter!Admits
  <2> QED BY <2>1, <2>2 DEF WindowInv, WindowTypeOK
<1> QED BY <1>1, <1>2, <1>3

\* For every window size and counter range, the sliding window implements the
\* abstract filter: check_and_update never accepts a counter twice and never
\* refuses one that is neither accepted nor WINDOW_SIZE behind an accepted one.
THEOREM WindowImplementsFilter == WindowSpec => ImplementsFilter
<1>1. WindowInit => Filter!FilterInit
  BY DEF WindowInit, Filter!FilterInit, Filter!NoVerdict
<1>2. WindowInv /\ [WindowNext]_windowVars => [Filter!FilterNext]_(Filter!filterVars)
  <2> SUFFICES ASSUME WindowInv, [WindowNext]_windowVars
               PROVE  [Filter!FilterNext]_(Filter!filterVars)
    OBVIOUS
  <2>1. CASE UNCHANGED windowVars
    BY <2>1 DEF windowVars, Filter!filterVars
  <2>2. ASSUME NEW c \in Counters, CheckAndUpdate(c)
        PROVE  Filter!FilterNext
    <3>1. Filter!Admit(c) \/ Filter!Turn(c)
      BY <2>2, AcceptsWhatFilterAdmits DEF CheckAndUpdate
    <3> QED BY <3>1 DEF Filter!FilterNext, Filter!Counters, Counters
  <2> QED BY <2>1, <2>2 DEF WindowNext
<1> QED BY <1>1, <1>2, WindowInitInv, WindowNextInv, PTL
        DEF WindowSpec, ImplementsFilter, Filter!FilterSpec

-----------------------------------------------------------------------------
(* The words of the array, and each word's bits.                           *)

BitIndex == 0..(WORD_BITS - 1)

\* The offset that bit b of word w stands for.
Place(w, b) == w * WORD_BITS + b

\* A place is an offset, and word_bit finds it again.
LEMMA PlaceIs ==
    ASSUME NEW w \in WordIndex, NEW b \in BitIndex
    PROVE  /\ Place(w, b) \in Offsets
           /\ WordOf(Place(w, b)) = w
           /\ BitOf(Place(w, b)) = b
<1> USE WordsAssumption
<1>1. w \in Nat /\ b \in Nat /\ b < WORD_BITS /\ w + 1 <= WORDS /\ WORD_BITS \in Nat /\ WORDS \in Nat
  BY DEF WordIndex, BitIndex
<1>2. w * WORD_BITS + b \in Nat
  BY <1>1
<1>3. (w * WORD_BITS + b) \div WORD_BITS = w
  BY <1>1, <1>2
<1>4. (w * WORD_BITS + b) % WORD_BITS = b
  BY <1>1, <1>2
<1>5. w * WORD_BITS + b < WORD_BITS * WORDS
  <2>1. (w + 1) * WORD_BITS <= WORDS * WORD_BITS
    BY <1>1
  <2>2. (w + 1) * WORD_BITS = w * WORD_BITS + WORD_BITS /\ WORDS * WORD_BITS = WORD_BITS * WORDS
    BY <1>1
  <2> QED
    BY <1>1, <2>1, <2>2
<1> QED
  BY <1>1, <1>2, <1>3, <1>4, <1>5, WordsAssumption DEF Place, Offsets, WordOf, BitOf

\* word_bit stays inside the array, and is the place of its offset.
LEMMA OffsetIs ==
    ASSUME NEW o \in Offsets
    PROVE  /\ WordOf(o) \in WordIndex
           /\ BitOf(o) \in BitIndex
           /\ Place(WordOf(o), BitOf(o)) = o
<1> USE WordsAssumption
<1>1. o \in Nat /\ o < WORD_BITS * WORDS /\ WORD_BITS \in Nat /\ WORDS \in Nat
  BY WordsAssumption DEF Offsets
<1>2. o \div WORD_BITS \in Nat /\ o % WORD_BITS \in 0..(WORD_BITS - 1)
  BY <1>1
<1>3. (o \div WORD_BITS) * WORD_BITS + (o % WORD_BITS) = o
  BY <1>1
<1>4. o \div WORD_BITS < WORDS
  BY <1>1, <1>2, <1>3
<1> QED
  BY <1>1, <1>2, <1>3, <1>4 DEF Place, BitIndex, WordIndex, WordOf, BitOf

\* The place before a bit is the bit below it, or the top bit of the word below.
LEMMA PlaceBefore ==
    ASSUME NEW w \in WordIndex, NEW b \in BitIndex
    PROVE  /\ b # 0 => b - 1 \in BitIndex /\ Place(w, b - 1) = Place(w, b) - 1
           /\ b = 0 /\ w # 0 => /\ w - 1 \in WordIndex /\ WORD_BITS - 1 \in BitIndex
                                /\ Place(w - 1, WORD_BITS - 1) = Place(w, b) - 1
           /\ b = 0 /\ w = 0 => Place(w, b) = 0
<1>1. w \in Nat /\ b \in Nat /\ WORD_BITS \in Nat \ {0} /\ WORDS \in Nat \ {0}
  BY WordsAssumption DEF WordIndex, BitIndex
<1>2. (w - 1) * WORD_BITS = w * WORD_BITS - WORD_BITS
  BY <1>1
<1> QED
  BY <1>1, <1>2 DEF Place, WordIndex, BitIndex

\* What `seen` may hold.
Arrays == [WordIndex -> SUBSET BitIndex]

\* The array after n shifts, place by place.
Shifted(ws, n) == [w \in WordIndex |->
    {b \in BitIndex : Place(w, b) >= n /\ is_marked(ws, Place(w, b) - n)}]

\* n shifts move every mark n offsets on; the ones past the end are gone.
LEMMA ShiftedMarks ==
    ASSUME NEW ws, NEW n \in Nat
    PROVE  /\ Shifted(ws, n) \in Arrays
           /\ \A o \in Offsets : is_marked(Shifted(ws, n), o)
                                        <=> o >= n /\ is_marked(ws, o - n)
<1>1. Shifted(ws, n) \in Arrays
  BY DEF Shifted, Arrays
<1>2. ASSUME NEW o \in Offsets
      PROVE  is_marked(Shifted(ws, n), o) <=> o >= n /\ is_marked(ws, o - n)
  BY OffsetIs DEF is_marked, Shifted
<1> QED
  BY <1>1, <1>2

\* Without a shift the array stays as it is.
LEMMA ShiftedZero ==
    ASSUME NEW ws \in Arrays
    PROVE  Shifted(ws, 0) = ws
<1>1. ASSUME NEW w \in WordIndex, NEW b \in BitIndex
      PROVE  b \in Shifted(ws, 0)[w] <=> b \in ws[w]
  <2>1. Place(w, b) \in Nat
    BY PlaceIs, WordsAssumption DEF Offsets
  <2>2. Place(w, b) >= 0 /\ Place(w, b) - 0 = Place(w, b)
    BY <2>1
  <2> QED
    BY <2>2, PlaceIs DEF is_marked, Shifted
<1>2. ASSUME NEW w \in WordIndex PROVE Shifted(ws, 0)[w] = ws[w]
  BY <1>1 DEF Shifted, Arrays
<1> QED
  BY <1>2 DEF Shifted, Arrays

\* One pass of the inner loop adds one shift: the carry brings the top bit of
\* the word below into the lowest bit (transport.rs:89-94).
LEMMA ShiftedOnce ==
    ASSUME NEW ws, NEW n \in Nat
    PROVE  ShiftOnce(Shifted(ws, n)) = Shifted(ws, n + 1)
<1> DEFINE old == Shifted(ws, n)
<1>1. ASSUME NEW w \in WordIndex, NEW b \in BitIndex
      PROVE  b \in ShiftOnce(old)[w] <=> b \in Shifted(ws, n + 1)[w]
  <2>0. PICK p \in Nat : p = Place(w, b)
    BY PlaceIs, WordsAssumption DEF Offsets
  <2>1. b \in Shifted(ws, n + 1)[w] <=> p - 1 >= n /\ is_marked(ws, (p - 1) - n)
    <3>1. p >= n + 1 <=> p - 1 >= n
      OBVIOUS
    <3>2. p - (n + 1) = (p - 1) - n
      OBVIOUS
    <3> QED
      BY <2>0, <3>1, <3>2 DEF Shifted
  <2>2. CASE b # 0
    <3>1. b - 1 \in BitIndex /\ Place(w, b - 1) = p - 1
      BY <2>0, <2>2, PlaceBefore
    <3>2. b - 1 \in old[w] <=> p - 1 >= n /\ is_marked(ws, (p - 1) - n)
      BY <3>1 DEF Shifted
    <3>3. b \in ShiftOnce(old)[w] <=> b - 1 \in old[w]
      <4>1. old[w] \subseteq BitIndex
        BY DEF Shifted
      <4> HIDE DEF old
      <4>2. \A x \in BitIndex : x + 1 = b <=> x = b - 1
        BY WordsAssumption DEF BitIndex
      <4>3. b # WORD_BITS
        BY WordsAssumption DEF BitIndex
      <4> QED
        BY <2>2, <3>1, <4>1, <4>2, <4>3 DEF ShiftOnce, ShiftWord
    <3> QED
      BY <2>1, <3>2, <3>3
  <2>3. CASE b = 0 /\ w # 0
    <3>1. /\ w - 1 \in WordIndex /\ WORD_BITS - 1 \in BitIndex
          /\ Place(w - 1, WORD_BITS - 1) = p - 1
      BY <2>0, <2>3, PlaceBefore
    <3>2. WORD_BITS - 1 \in old[w - 1] <=> p - 1 >= n /\ is_marked(ws, (p - 1) - n)
      BY <3>1 DEF Shifted
    <3>3. b \in ShiftOnce(old)[w] <=> WORD_BITS - 1 \in old[w - 1]
      <4>1. old[w] \subseteq BitIndex
        BY DEF Shifted
      <4> HIDE DEF old
      <4>2. \A x \in BitIndex : x + 1 # 0
        BY WordsAssumption DEF BitIndex
      <4> QED
        BY <2>3, <4>1, <4>2 DEF ShiftOnce, ShiftWord
    <3> QED
      BY <2>1, <3>2, <3>3
  <2>4. CASE b = 0 /\ w = 0
    <3>1. ~(p - 1 >= n)
      BY <2>0, <2>4, PlaceBefore
    <3>3. b \notin ShiftOnce(old)[w]
      <4>1. old[w] \subseteq BitIndex
        BY DEF Shifted
      <4> HIDE DEF old
      <4>2. \A x \in BitIndex : x + 1 # 0
        BY WordsAssumption DEF BitIndex
      <4> QED
        BY <2>4, <4>1, <4>2 DEF ShiftOnce, ShiftWord
    <3> QED
      BY <2>1, <3>1, <3>3
  <2> QED
    BY <2>2, <2>3, <2>4
<1>2. ASSUME NEW w \in WordIndex PROVE ShiftOnce(old)[w] \subseteq BitIndex
  <2>1. old[w] \subseteq BitIndex
    BY DEF Shifted
  <2> HIDE DEF old
  <2>2. \A x \in BitIndex : x + 1 # WORD_BITS => x + 1 \in BitIndex
    BY WordsAssumption DEF BitIndex
  <2>3. 0 \in BitIndex
    BY WordsAssumption DEF BitIndex
  <2> QED
    BY <2>1, <2>2, <2>3 DEF ShiftOnce, ShiftWord
<1>3. ASSUME NEW w \in WordIndex PROVE Shifted(ws, n + 1)[w] \subseteq BitIndex
  BY DEF Shifted
<1>4. ASSUME NEW w \in WordIndex PROVE ShiftOnce(old)[w] = Shifted(ws, n + 1)[w]
  BY <1>1, <1>2, <1>3
<1>5. /\ ShiftOnce(old) = [w \in WordIndex |-> ShiftOnce(old)[w]]
      /\ Shifted(ws, n + 1) = [w \in WordIndex |-> Shifted(ws, n + 1)[w]]
  BY DEF ShiftOnce, Shifted
<1> QED
  BY <1>4, <1>5

\* A nonempty set of naturals has a least element.
LEMMA LeastNat ==
    ASSUME NEW T, T \subseteq Nat, T # {}
    PROVE  \E x \in T : \A y \in T : x <= y
<1>1. PICK R : IsWellFoundedOn(R, Nat) /\ \A x, y \in Nat : y < x => <<y, x>> \in R
  <2> DEFINE L == OpToRel(<, Nat)
  <2>1. IsWellFoundedOn(L, Nat)
    BY NatLessThanWellFounded
  <2>2. \A x, y \in Nat : y < x => <<y, x>> \in L
    BY DEF OpToRel
  <2> HIDE DEF L
  <2> QED
    BY <2>1, <2>2
<1>2. PICK x \in T : \A y \in T : ~(<<y, x>> \in R)
  BY <1>1, WFMin
<1>3. ASSUME NEW y \in T PROVE x <= y
  <2>1. x \in Nat /\ y \in Nat
    OBVIOUS
  <2>2. ~(y < x)
    BY <1>1, <1>2, <2>1
  <2> QED
    BY <2>1, <2>2
<1> QED
  BY <1>3

\* shift_left's loop computes the array after n shifts.
LEMMA ShiftLeftIs ==
    ASSUME NEW ws \in Arrays, NEW n \in Nat
    PROVE  shift_left(ws, n) = Shifted(ws, n)
<1> DEFINE Loop(f) == f = [k \in 0..n |-> IF k = 0 THEN ws ELSE ShiftOnce(f[k - 1])]
           shifted == CHOOSE f : Loop(f)
<1>1. shift_left(ws, n) = shifted[n]
  BY DEF shift_left
<1>2. PICK f : Loop(f) /\ f = shifted
  <2> DEFINE g == [k \in 0..n |-> Shifted(ws, k)]
  <2>1. ASSUME NEW k \in 0..n
        PROVE  Shifted(ws, k) = IF k = 0 THEN ws ELSE ShiftOnce(g[k - 1])
    <3>1. CASE k = 0
      BY <3>1, ShiftedZero
    <3>2. CASE k # 0
      <4>1. k - 1 \in Nat /\ k - 1 \in 0..n /\ (k - 1) + 1 = k
        BY <3>2
      <4> QED
        BY <3>2, <4>1, ShiftedOnce
    <3> QED
      BY <3>1, <3>2
  <2>2. Loop(g)
    BY <2>1
  <2> QED
    BY <2>2
<1>3. ASSUME NEW k \in 0..n PROVE f[k] = IF k = 0 THEN ws ELSE ShiftOnce(f[k - 1])
  BY <1>2
<1> DEFINE Wrong == {k \in 0..n : f[k] # Shifted(ws, k)}
<1>4. Wrong = {}
  <2> SUFFICES ASSUME Wrong # {} PROVE FALSE
    OBVIOUS
  <2>1. PICK k \in Wrong : \A j \in Wrong : k <= j
    <3>1. Wrong \subseteq Nat
      OBVIOUS
    <3> HIDE DEF Wrong
    <3> QED
      BY <3>1, LeastNat
  <2>2. CASE k = 0
    BY <1>3, <2>2, ShiftedZero
  <2>3. CASE k # 0
    <3>1. k - 1 \in Nat /\ k - 1 \in 0..n /\ (k - 1) + 1 = k /\ ~(k <= k - 1)
      BY <2>3
    <3>2. f[k - 1] = Shifted(ws, k - 1)
      BY <2>1, <3>1
    <3> QED
      BY <1>3, <2>3, <3>1, <3>2, ShiftedOnce
  <2> QED
    BY <2>2, <2>3
<1>5. f[n] = Shifted(ws, n)
  BY <1>4
<1> QED
  BY <1>1, <1>2, <1>5

\* Marking a bit marks its offset and no other.
LEMMA MarkIs ==
    ASSUME NEW ws \in Arrays, NEW o \in Offsets
    PROVE  /\ mark(ws, o) \in Arrays
           /\ \A p \in Offsets : is_marked(mark(ws, o), p)
                                        <=> p = o \/ is_marked(ws, p)
<1>1. WordOf(o) \in WordIndex /\ BitOf(o) \in BitIndex
  BY OffsetIs
<1>2. mark(ws, o) \in Arrays
  BY <1>1 DEF mark, Arrays
<1>3. ASSUME NEW p \in Offsets
      PROVE  is_marked(mark(ws, o), p) <=> p = o \/ is_marked(ws, p)
  <2>1. WordOf(p) \in WordIndex /\ BitOf(p) \in BitIndex
    BY OffsetIs
  <2>2. WordOf(p) = WordOf(o) /\ BitOf(p) = BitOf(o) => p = o
    BY OffsetIs
  <2> QED
    BY <1>1, <2>1, <2>2 DEF mark, is_marked, Arrays
<1> QED
  BY <1>2, <1>3

\* What the steps need of the state.
BitInv == words \in Arrays /\ bit_current \in Nat

\* The offsets whose bits are set.
Marks(ws) == {o \in Offsets : is_marked(ws, o)}

\* A cleared array has no marks (the jump past the window, and new).
LEMMA NoMarksIs ==
    NoMarks \in Arrays /\ Marks(NoMarks) = {}
BY OffsetIs DEF NoMarks, Arrays, Marks, is_marked

\* The array starts as the window does (ReplayWindow::new).
LEMMA BitInitInv ==
    ASSUME BitInit PROVE BitInv /\ Window!WindowInit
BY NoMarksIs DEF BitInit, BitInv, Marks, Window!WindowInit

\* Counters above the mark: the loop moves every mark as ReplayWindow does.
LEMMA BitAdvanceInv ==
    ASSUME BitInv, NEW c \in Counters, BitAdvance(c)
    PROVE  BitInv' /\ Window!Advance(c)
<1>1. c \in Nat /\ c > bit_current /\ c - bit_current \in Nat /\ bit_current \in Nat
  BY WindowAssumption DEF BitAdvance, Counters, BitInv
<1>2. 0 \in Offsets
  <2>1. WORD_BITS * WORDS \in Nat \ {0}
    BY WordsAssumption
  <2> QED
    BY <2>1, WordsAssumption DEF Offsets
<1> DEFINE base == IF c - bit_current >= WINDOW_SIZE
                   THEN NoMarks ELSE shift_left(words, c - bit_current)
<1>3. /\ base \in Arrays
      /\ Marks(base) = IF c - bit_current >= WINDOW_SIZE
                       THEN {} ELSE Window!ShiftLeft(Marks(words), c - bit_current)
  <2>1. CASE c - bit_current >= WINDOW_SIZE
    BY <2>1, NoMarksIs
  <2>2. CASE ~(c - bit_current >= WINDOW_SIZE)
    <3>1. base = Shifted(words, c - bit_current)
      BY <1>1, <2>2, ShiftLeftIs DEF BitInv
    <3>2. ASSUME NEW o \in Offsets
          PROVE  o >= c - bit_current /\ is_marked(words, o - (c - bit_current))
                   <=> o - (c - bit_current) \in Marks(words)
      <4>1. o >= c - bit_current <=> o - (c - bit_current) \in Offsets
        BY <1>1, WordsAssumption DEF Offsets
      <4> QED
        BY <4>1 DEF Marks
    <3>3. Marks(base) = {o \in Offsets : o - (c - bit_current) \in Marks(words)}
      BY <1>1, <3>1, <3>2, ShiftedMarks DEF Marks
    <3>4. base \in Arrays
      BY <1>1, <3>1, ShiftedMarks
    <3> HIDE DEF base
    <3> QED
      BY <2>2, <3>3, <3>4 DEF Window!ShiftLeft, Window!Offsets, Offsets
  <2> QED
    BY <2>1, <2>2
<1> HIDE DEF base
<1>4. words' = mark(base, 0)
  BY DEF base, BitAdvance
<1>5. words' \in Arrays /\ Marks(words') = {0} \cup Marks(base)
  BY <1>2, <1>3, <1>4, MarkIs DEF Marks
<1>6. BitInv'
  BY <1>1, <1>5 DEF BitInv, BitAdvance
<1> QED
  BY <1>1, <1>3, <1>5, <1>6 DEF BitAdvance, Window!Advance, Marks

\* A late counter is marked as ReplayWindow marks it.
LEMMA BitAcceptLateInv ==
    ASSUME BitInv, NEW c \in Counters, BitAcceptLate(c)
    PROVE  BitInv' /\ Window!AcceptLate(c)
<1>1. bit_current - c \in Offsets
  BY WindowAssumption, WordsAssumption DEF BitInv, BitAcceptLate, Counters, Offsets
<1>2. words' \in Arrays /\ Marks(words') = Marks(words) \cup {bit_current - c}
  BY <1>1, MarkIs DEF BitInv, BitAcceptLate, Marks
<1>3. BitInv'
  BY <1>2 DEF BitInv, BitAcceptLate
<1>4. bit_current - c \notin Marks(words)
  BY DEF BitAcceptLate, Marks
<1> QED
  BY <1>2, <1>3, <1>4 DEF BitAcceptLate, Window!AcceptLate, Marks

\* A duplicate or a counter out of reach is refused by both.
LEMMA BitRefuseInv ==
    ASSUME BitInv, NEW c \in Counters, BitRefuse(c)
    PROVE  BitInv' /\ Window!Refuse(c)
<1>1. bit_current - c < WINDOW_SIZE => bit_current - c \in Offsets
  BY WindowAssumption, WordsAssumption DEF BitInv, BitRefuse, Counters, Offsets
<1>2. bit_current - c < WINDOW_SIZE => bit_current - c \in Marks(words)
  BY <1>1 DEF BitRefuse, Marks
<1> QED
  BY <1>2 DEF BitInv, BitRefuse, Window!Refuse, Marks

\* The array of words with its carries (transport.rs:73-96) implements the set
\* of offsets of ReplayWindow, for every word width, number of words and
\* counter range.
THEOREM BitsImplementWindow ==
    BitSpec => ImplementsWindow
<1>1. BitInit => BitInv /\ Window!WindowInit
  BY BitInitInv
<1>2. BitInv /\ [BitNext]_bitVars
        => BitInv' /\ [Window!WindowNext]_(Window!windowVars)
  <2> SUFFICES ASSUME BitInv, [BitNext]_bitVars
               PROVE  BitInv' /\ [Window!WindowNext]_(Window!windowVars)
    OBVIOUS
  <2>1. CASE BitNext
    <3>1. PICK c \in Counters : BitAdvance(c) \/ BitAcceptLate(c) \/ BitRefuse(c)
      BY <2>1 DEF BitNext, BitCheckAndUpdate
    <3>2. BitInv' /\ Window!CheckAndUpdate(c)
      BY <3>1, BitAdvanceInv, BitAcceptLateInv, BitRefuseInv DEF Window!CheckAndUpdate
    <3> QED
      BY <3>2 DEF Window!WindowNext, Window!Counters, Counters
  <2>2. CASE UNCHANGED bitVars
    BY <2>2 DEF bitVars, BitInv, Window!windowVars
  <2> QED
    BY <2>1, <2>2
<1> QED
  BY <1>1, <1>2, PTL DEF BitSpec, ImplementsWindow, Window!WindowSpec

-----------------------------------------------------------------------------
SentInv == /\ \A x \in sent : x.aad.counter <= send_counter
           /\ NoNonceReuse

WireInv == \A d \in wire : d.ct \in sent

\* copies counts deliveries; a counter not accepted has none.
CopiesInv == \A c \in Counters : /\ copies[c] <= 1
                                 /\ c \notin accepted => copies[c] = 0

TransportInv == /\ TypeOK
                /\ WindowExact
                /\ SentInv
                /\ WireInv
                /\ inbox \subseteq sent
                /\ CopiesInv
                /\ AcceptedMeansDelivered

\* A fresh tunnel satisfies the invariant (Transport::new).
LEMMA TransportInitInv == Init => TransportInv
<1> SUFFICES ASSUME Init PROVE TransportInv
  OBVIOUS
<1>1. WindowInv
  BY WindowInitInv DEF Init
<1> QED
  BY <1>1, WindowAssumption, TransportAssumption
  DEF Init, TransportInv, TypeOK, SentInv, NoNonceReuse, WireInv, CopiesInv,
      AcceptedMeansDelivered, WindowInv, WindowInit, Counters

\* next_counter and encrypt: the new counter is above every one used so far.
LEMMA SendInv ==
    ASSUME TransportInv, NEW t \in PacketTypes, NEW p \in Payloads, Send(t, p)
    PROVE  TransportInv'
<1> DEFINE hdr == [type_ |-> t, counter |-> send_counter + 1]
           ct  == [aad |-> hdr, body |-> p]
           d0  == [hdr |-> hdr, ct |-> ct, intact |-> TRUE]
<1>1. /\ send_counter' = send_counter + 1
      /\ sent' = sent \cup {ct}
      /\ wire' = wire \cup {d0}
      /\ UNCHANGED <<current, seen, accepted, verdict, inbox, copies>>
  BY DEF Send, NextCounter, windowVars
<1>2. /\ send_counter + 1 \in Counters
      /\ send_counter + 1 \in 2..MaxCounter
  BY WindowAssumption DEF Send, TransportInv, TypeOK, Counters
<1>2a. hdr \in Headers /\ ct \in Sealed /\ d0 \in Datagrams
  BY <1>2 DEF Headers, Sealed, Datagrams
<1>3. TypeOK'
  BY <1>1, <1>2, <1>2a DEF TransportInv, TypeOK, WindowTypeOK
<1>4. SentInv'
  <2>1. \A x \in sent : x.aad.counter \in Int /\ x.aad.counter <= send_counter
    BY DEF TransportInv, TypeOK, SentInv, Sealed, Headers, Counters
  <2>2. ct.aad.counter = send_counter + 1 /\ send_counter \in Int
    BY DEF TransportInv, TypeOK
  <2>3. \A x \in sent : x.aad.counter # ct.aad.counter
    BY <2>1, <2>2
  <2>4. \A x \in sent' : x.aad.counter <= send_counter'
    BY <1>1, <2>1, <2>2
  <2>5. NoNonceReuse'
    BY <1>1, <2>3 DEF NoNonceReuse, TransportInv, SentInv
  <2> QED BY <2>4, <2>5 DEF SentInv
<1>5. WireInv'
  BY <1>1 DEF WireInv, TransportInv
<1>6. AcceptedMeansDelivered'
  BY <1>1 DEF AcceptedMeansDelivered, TransportInv, Opens
<1> QED
  BY <1>1, <1>3, <1>4, <1>5, <1>6 DEF TransportInv, WindowExact, CopiesInv

\* A damaged copy carries a ciphertext the sender sealed.
LEMMA DamageInv ==
    ASSUME TransportInv, NEW d \in wire, NEW h \in Headers, Damage(d, h)
    PROVE  TransportInv'
<1> DEFINE d1 == IF h = d.hdr THEN [d EXCEPT !.intact = FALSE]
                              ELSE [d EXCEPT !.hdr = h]
<1>1. /\ wire' = wire \cup {d1}
      /\ UNCHANGED <<current, seen, accepted, verdict, send_counter, sent, inbox, copies>>
  BY DEF Damage, windowVars
<1>2. d \in Datagrams
  BY DEF TransportInv, TypeOK
<1>3. d1 \in Datagrams /\ d1.ct = d.ct
  BY <1>2 DEF Datagrams
<1>4. TypeOK'
  BY <1>1, <1>3 DEF TransportInv, TypeOK, WindowTypeOK
<1>5. WireInv'
  BY <1>1, <1>3 DEF WireInv, TransportInv
<1>6. AcceptedMeansDelivered'
  BY <1>1 DEF AcceptedMeansDelivered, TransportInv, Opens
<1> QED
  BY <1>1, <1>4, <1>5, <1>6 DEF TransportInv, WindowExact, CopiesInv, SentInv, NoNonceReuse

\* decrypt: what the window accepts was not accepted, so not delivered, before.
LEMMA DecryptInv ==
    ASSUME TransportInv, NEW d \in wire, Decrypt(d)
    PROVE  TransportInv'
<1> DEFINE c == d.hdr.counter
<1>1. d \in Datagrams /\ c \in Counters /\ WindowInv
  BY DEF TransportInv, TypeOK, Datagrams, Headers, WindowInv
<1>2. CheckAndUpdate(c)
  BY DEF Decrypt
<1>3. UNCHANGED <<send_counter, sent, wire>>
  BY DEF Decrypt
<1>4. WindowTypeOK' /\ WindowExact'
  BY <1>1, <1>2, WindowNextInv DEF WindowInv, WindowNext
<1>5. \/ /\ verdict'.ok /\ c \notin accepted /\ accepted' = accepted \cup {c}
      \/ /\ ~verdict'.ok /\ accepted' = accepted
  BY <1>1, <1>2, AcceptsWhatFilterAdmits
  DEF CheckAndUpdate, Filter!Admit, Filter!Admits, Filter!Turn
<1>6. CASE verdict'.ok /\ Opens(d)
  <2>1. /\ inbox' = inbox \cup {d.ct}
        /\ copies' = [copies EXCEPT ![c] = @ + 1]
    BY <1>6 DEF Decrypt, Delivers
  <2>2. c \notin accepted /\ accepted' = accepted \cup {c} /\ copies[c] = 0
    BY <1>1, <1>5, <1>6 DEF TransportInv, CopiesInv
  <2>3. copies \in [Counters -> Nat]
    BY DEF TransportInv, TypeOK
  <2>4. copies' \in [Counters -> Nat] /\ copies'[c] = 1
        /\ \A x \in Counters : x # c => copies'[x] = copies[x]
    BY <1>1, <2>1, <2>2, <2>3
  <2>5. d.ct \in Sealed /\ d.ct \in sent
    BY <1>1 DEF Datagrams, TransportInv, WireInv
  <2>6. TypeOK'
    BY <1>3, <1>4, <2>1, <2>4, <2>5 DEF TransportInv, TypeOK
  <2>7. CopiesInv'
    BY <1>1, <2>2, <2>4 DEF TransportInv, CopiesInv
  <2>8. AcceptedMeansDelivered'
    BY <1>1, <1>3, <2>2, <2>4 DEF TransportInv, TypeOK, WindowTypeOK, AcceptedMeansDelivered, Opens
  <2> QED
    BY <1>3, <1>4, <2>1, <2>5, <2>6, <2>7, <2>8
    DEF TransportInv, SentInv, NoNonceReuse, WireInv
<1>7. CASE ~(verdict'.ok /\ Opens(d))
  <2>1. UNCHANGED <<inbox, copies>>
    BY <1>7 DEF Decrypt, Delivers
  <2>2. TypeOK'
    BY <1>3, <1>4, <2>1 DEF TransportInv, TypeOK
  <2>3. CopiesInv'
    BY <1>5, <2>1 DEF TransportInv, CopiesInv, Counters
  <2>4. AcceptedMeansDelivered'
    BY <1>3, <1>5, <1>7, <2>1 DEF TransportInv, AcceptedMeansDelivered, Opens
  <2> QED
    BY <1>3, <1>4, <2>1, <2>2, <2>3, <2>4
    DEF TransportInv, SentInv, NoNonceReuse, WireInv
<1> QED BY <1>6, <1>7

\* Every step keeps the invariant.
LEMMA TransportNextInv == TransportInv /\ [Next]_vars => TransportInv'
<1> SUFFICES ASSUME TransportInv, [Next]_vars PROVE TransportInv'
  OBVIOUS
<1>1. CASE UNCHANGED vars
  BY <1>1
  DEF vars, windowVars, transportVars, TransportInv, TypeOK, WindowTypeOK, WindowExact,
      SentInv, NoNonceReuse, WireInv, CopiesInv, AcceptedMeansDelivered, Opens
<1>2. ASSUME NEW t \in PacketTypes, NEW p \in Payloads, Send(t, p) PROVE TransportInv'
  BY <1>2, SendInv
<1>3. ASSUME NEW d \in wire, NEW h \in Headers, Damage(d, h) PROVE TransportInv'
  BY <1>3, DamageInv
<1>4. ASSUME NEW d \in wire, Decrypt(d) PROVE TransportInv'
  BY <1>4, DecryptInv
<1> QED BY <1>1, <1>2, <1>3, <1>4 DEF Next

\* The window, the counter and the packets stay well formed, whatever arrives
\* (transport.rs:158-230).
THEOREM TransportTypeCorrect == Spec => []TypeOK
<1>1. TransportInv => TypeOK
  BY DEF TransportInv
<1> QED BY <1>1, TransportInitInv, TransportNextInv, PTL DEF Spec

\* No nonce ever seals two plaintexts, for any payloads and packet types
\* (transport.rs:195-212, session.rs:510-516).
THEOREM TransportNoncesUnique == Spec => []NoNonceReuse
<1>1. TransportInv => NoNonceReuse
  BY DEF TransportInv, SentInv
<1> QED BY <1>1, TransportInitInv, TransportNextInv, PTL DEF Spec

\* Whatever the network does, the receiver opens only what the sender sealed,
\* and delivers no counter twice (transport.rs:217-230).
THEOREM TransportDeliversOnce == Spec => []DeliveredOnceAsSent
<1>1. TransportInv => DeliveredOnceAsSent
  BY DEF TransportInv, CopiesInv, DeliveredOnceAsSent
<1> QED BY <1>1, TransportInitInv, TransportNextInv, PTL DEF Spec

\* A counter is used up without a delivery only if a damaged datagram carried it
\* (transport.rs:224-227).
THEOREM TransportLosesOnlyDamaged == Spec => []AcceptedMeansDelivered
<1>1. TransportInv => AcceptedMeansDelivered
  BY DEF TransportInv
<1> QED BY <1>1, TransportInitInv, TransportNextInv, PTL DEF Spec
=============================================================================
