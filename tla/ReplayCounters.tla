--------------------------- MODULE ReplayCounters ---------------------------
(***************************************************************************)
(* What the two forms of ReplayWindow (nebula-protocol/src/transport.rs)   *)
(* have in common: its size, its counters and the offsets of its marks.    *)
(* ReplayWindow has the marks as a set, ReplayBits in words.               *)
(***************************************************************************)
EXTENDS Integers

CONSTANTS WINDOW_SIZE,   \* counters the window remembers (1024 in the code)
          MaxCounter     \* largest message counter (2^64 - 1 in the code)

ASSUME WindowAssumption == WINDOW_SIZE \in Nat \ {0} /\ MaxCounter \in Nat

Counters == 0..MaxCounter
Offsets  == 0..(WINDOW_SIZE - 1)
=============================================================================
