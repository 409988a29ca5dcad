---------------------------- MODULE ReplayWindow ----------------------------
(***************************************************************************)
(* ReplayWindow::check_and_update (nebula-protocol/src/transport.rs): a    *)
(* high-water mark and the offsets below it that have been seen.  The      *)
(* offsets are a set here; ReplayBits keeps them in words as the code does.*)
(***************************************************************************)
EXTENDS ReplayCounters

VARIABLES current,    \* ReplayWindow.current, the high-water mark
          seen,       \* ReplayWindow.seen, as the set of marked offsets
          accepted,   \* history: every counter accepted so far
          verdict     \* the last answer of check_and_update

windowVars == <<current, seen, accepted, verdict>>

\* Slips of shift_left: marks run past the end; marks move one offset short.
ShiftPastEnd(marks, n) == {o + n : o \in marks}
ShiftShort(marks, n)   == {o \in Offsets : o - n + 1 \in marks}

\* shift_left: every mark moves n offsets away, the ones past the end are lost.
ShiftLeft(marks, n) == {o \in Offsets : o - n \in marks}

WindowInit == /\ current = 0
              /\ seen = {}
              /\ accepted = {}
              /\ verdict = [counter |-> 0, ok |-> FALSE]

\* The counter moves the high-water mark.
Advance(c) ==
    /\ c > current
    /\ seen' = {0} \cup (IF c - current >= WINDOW_SIZE
                         THEN {} ELSE ShiftLeft(seen, c - current))
    /\ current' = c
    /\ accepted' = accepted \cup {c}
    /\ verdict' = [counter |-> c, ok |-> TRUE]

\* A slip: the late counter is not marked.
AcceptLateUnmarked(c) ==
    /\ c <= current
    /\ current - c < WINDOW_SIZE
    /\ current - c \notin seen
    /\ accepted' = accepted \cup {c}
    /\ verdict' = [counter |-> c, ok |-> TRUE]
    /\ UNCHANGED <<current, seen>>

\* A counter at or below the mark that is still in the window and unmarked.
AcceptLate(c) ==
    /\ c <= current
    /\ current - c < WINDOW_SIZE
    /\ current - c \notin seen
    /\ seen' = seen \cup {current - c}
    /\ accepted' = accepted \cup {c}
    /\ verdict' = [counter |-> c, ok |-> TRUE]
    /\ UNCHANGED current

\* A duplicate, or a counter that has left the window.
Refuse(c) ==
    /\ c <= current
    /\ current - c < WINDOW_SIZE => current - c \in seen
    /\ verdict' = [counter |-> c, ok |-> FALSE]
    /\ UNCHANGED <<current, seen, accepted>>

CheckAndUpdate(c) == Advance(c) \/ AcceptLate(c) \/ Refuse(c)

WindowNext == \E c \in Counters : CheckAndUpdate(c)

WindowSpec == WindowInit /\ [][WindowNext]_windowVars

-----------------------------------------------------------------------------
\* The window's fields stay in range: offsets never index outside `seen`, and
\* the high-water mark is a counter (transport.rs, ReplayWindow).
WindowTypeOK ==
    /\ current \in Counters
    /\ seen \subseteq Offsets
    /\ accepted \subseteq Counters
    /\ verdict \in [counter : Counters, ok : BOOLEAN]

\* Across any order of arrivals, jumps and late packets the marks are exactly
\* the accepted counters the window still reaches: an offset is marked if and
\* only if its counter was accepted.  A shift that loses or duplicates a mark
\* (transport.rs:87-96, shift_left) breaks it.
WindowExact ==
    /\ \A o \in Offsets : o \in seen <=> current - o \in accepted
    /\ \A c \in accepted : c <= current
    /\ IF accepted = {} THEN current = 0 ELSE current \in accepted

Filter == INSTANCE ReplayFilter

\* check_and_update answers exactly as the abstract filter does, at every
\* call: no counter is accepted twice and none is refused that was neither
\* accepted before nor WINDOW_SIZE behind an accepted one.
ImplementsFilter == Filter!FilterSpec
=============================================================================
