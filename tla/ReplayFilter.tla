---------------------------- MODULE ReplayFilter ----------------------------
(***************************************************************************)
(* What nebula-protocol/src/transport.rs promises of its replay window,    *)
(* stated without the window: a message counter is accepted once, unless   *)
(* some accepted counter is already WINDOW_SIZE or more ahead of it.       *)
(* ReplayWindow, the sliding window of the code, implements this.          *)
(***************************************************************************)
EXTENDS Integers

CONSTANTS WINDOW_SIZE,   \* counters the window remembers (1024 in the code)
          MaxCounter     \* largest message counter (2^64 - 1 in the code)

VARIABLES accepted,   \* every counter accepted so far
          verdict     \* the last answer of check_and_update

filterVars == <<accepted, verdict>>

Counters == 0..MaxCounter

NoVerdict == [counter |-> 0, ok |-> FALSE]

TooOld(c) == \E h \in accepted : h - c >= WINDOW_SIZE

Admits(c) == c \notin accepted /\ ~TooOld(c)

FilterInit == accepted = {} /\ verdict = NoVerdict

Admit(c) == /\ Admits(c)
            /\ accepted' = accepted \cup {c}
            /\ verdict' = [counter |-> c, ok |-> TRUE]

Turn(c) == /\ ~Admits(c)
           /\ verdict' = [counter |-> c, ok |-> FALSE]
           /\ UNCHANGED accepted

FilterNext == \E c \in Counters : Admit(c) \/ Turn(c)

FilterSpec == FilterInit /\ [][FilterNext]_filterVars
=============================================================================
