----------------------------- MODULE ReplayBits -----------------------------
(***************************************************************************)
(* ReplayWindow as transport.rs stores it: the marks are the bits of an    *)
(* array of fixed-width words, shifted one bit at a time with a carry from *)
(* word to word.  Implements ReplayWindow under the map from bits to       *)
(* offsets.                                                                *)
(***************************************************************************)
EXTENDS ReplayCounters

CONSTANTS WORD_BITS,    \* bits of a word (64 in the code)
          WORDS         \* words of the array (16 in the code)

ASSUME WordsAssumption == /\ WORD_BITS \in Nat \ {0}
                          /\ WORDS \in Nat \ {0}
                          /\ WINDOW_SIZE = WORD_BITS * WORDS

VARIABLES bit_current,    \* ReplayWindow.current
          words,          \* ReplayWindow.seen: words[w] is the set of the bits set in a word
          bit_accepted,   \* history: every counter accepted so far
          bit_verdict     \* the last answer of check_and_update

bitVars == <<bit_current, words, bit_accepted, bit_verdict>>

WordIndex == 0..(WORDS - 1)

WordOf(offset) == offset \div WORD_BITS
BitOf(offset)  == offset % WORD_BITS

is_marked(ws, offset) == BitOf(offset) \in ws[WordOf(offset)]

\* seen[word] |= 1 << bit
mark(ws, offset) == [ws EXCEPT ![WordOf(offset)] = @ \cup {BitOf(offset)}]

\* A word shifted left by one within its width: the top bit is lost.
ShiftWord(word) == {bit + 1 : bit \in word} \ {WORD_BITS}

\* A slip of the inner loop: the carry is dropped.
ShiftOnceNoCarry(ws) == [w \in WordIndex |-> ShiftWord(ws[w])]

\* One pass of the inner loop: each word is shifted by one and takes as its
\* lowest bit the top bit its lower neighbour had before the pass.
ShiftOnce(ws) ==
    [w \in WordIndex |->
        ShiftWord(ws[w])
            \cup {bit \in {0} : w # 0 /\ WORD_BITS - 1 \in ws[w - 1]}]

shift_left(ws, n) ==
    LET shifted[k \in 0..n] == IF k = 0 THEN ws ELSE ShiftOnce(shifted[k - 1])
    IN  shifted[n]

NoMarks == [w \in WordIndex |-> {}]

BitInit == /\ bit_current = 0
           /\ words = NoMarks
           /\ bit_accepted = {}
           /\ bit_verdict = [counter |-> 0, ok |-> FALSE]

BitAdvance(c) ==
    /\ c > bit_current
    /\ words' = mark(IF c - bit_current >= WINDOW_SIZE
                     THEN NoMarks ELSE shift_left(words, c - bit_current), 0)
    /\ bit_current' = c
    /\ bit_accepted' = bit_accepted \cup {c}
    /\ bit_verdict' = [counter |-> c, ok |-> TRUE]

BitAcceptLate(c) ==
    /\ c <= bit_current
    /\ bit_current - c < WINDOW_SIZE
    /\ ~is_marked(words, bit_current - c)
    /\ words' = mark(words, bit_current - c)
    /\ bit_accepted' = bit_accepted \cup {c}
    /\ bit_verdict' = [counter |-> c, ok |-> TRUE]
    /\ UNCHANGED bit_current

BitRefuse(c) ==
    /\ c <= bit_current
    /\ bit_current - c < WINDOW_SIZE => is_marked(words, bit_current - c)
    /\ bit_verdict' = [counter |-> c, ok |-> FALSE]
    /\ UNCHANGED <<bit_current, words, bit_accepted>>

BitCheckAndUpdate(c) == BitAdvance(c) \/ BitAcceptLate(c) \/ BitRefuse(c)

BitNext == \E c \in Counters : BitCheckAndUpdate(c)

BitSpec == BitInit /\ [][BitNext]_bitVars

-----------------------------------------------------------------------------
Window == INSTANCE ReplayWindow
    WITH current <- bit_current, seen <- {o \in Offsets : is_marked(words, o)},
         accepted <- bit_accepted, verdict <- bit_verdict

\* The word array behaves as the set of offsets of ReplayWindow: the carry
\* between words (transport.rs:87-96) neither drops a mark at a word boundary
\* nor leaves one behind, and a shift past the whole window clears it.
ImplementsWindow == Window!WindowSpec
=============================================================================
