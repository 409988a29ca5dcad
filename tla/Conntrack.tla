----------------------------- MODULE Conntrack ------------------------------
(***************************************************************************)
(* The connection table of nebula-firewall/src/conntrack.rs: the flows     *)
(* that have passed the rules, and a min-heap of expiry slots that is      *)
(* consulted lazily.  Every operator is one method, called with the        *)
(* table's mutex held.                                                     *)
(*                                                                         *)
(* `conns` is a function from the tracked flows to their entries.          *)
(* `expiry_heap` is a set of slots; a slot has an id because the heap may  *)
(* hold two equal (time, packet) pairs.  purge_expired is given twice: by  *)
(* its loop, and by what the loop leaves behind.                           *)
(***************************************************************************)
EXTENDS Integers, FiniteSets

CONSTANTS Packets,    \* five-tuples
          Versions,   \* values of rules_version
          SlotIds     \* bound: as many heap slots as there are ids

Entries == [expires : Nat, incoming : BOOLEAN, rules_version : Versions]
Slots   == [id : SlotIds, time : Nat, packet : Packets]

IsConns(conns) == /\ DOMAIN conns \subseteq Packets
                  /\ \A p \in DOMAIN conns : conns[p] \in Entries

\* A slip of purge_expired: an entry whose expiry is now is kept.
ExpiredBefore(conns, heap, now) ==
    {p \in DOMAIN conns : /\ conns[p].expires < now
                          /\ \E s \in heap : s.packet = p /\ s.time <= now}

\* The flows a purge removes: expired, and reached through a slot that is due.
Expired(conns, heap, now) ==
    {p \in DOMAIN conns : /\ conns[p].expires <= now
                          /\ \E s \in heap : s.packet = p /\ s.time <= now}

PurgedConns(conns, heap, now) ==
    [p \in DOMAIN conns \ Expired(conns, heap, now) |-> conns[p]]

\* A slip of purge_expired: a refreshed flow is not scheduled again.
PurgedHeapForgets(conns, heap, now) == {s \in heap : s.time > now}

\* A due slot is scheduled again at its flow's present expiry if the flow is
\* still alive, and discarded otherwise.
PurgedHeap(conns, heap, now) ==
    {s \in heap : s.time > now}
        \cup {[s EXCEPT !.time = conns[s.packet].expires] :
                s \in {x \in heap : /\ x.time <= now
                                    /\ x.packet \in DOMAIN conns
                                    /\ conns[x.packet].expires > now}}

\* A slip: the slot is pushed back at the clock instead of the new expiry.
PurgePassNow(conns, heap, now) ==
    LET s == CHOOSE x \in heap : \A y \in heap : x.time <= y.time IN
    IF heap = {} \/ s.time > now THEN [conns |-> conns, heap |-> heap]
    ELSE IF s.packet \notin DOMAIN conns THEN [conns |-> conns, heap |-> heap \ {s}]
    ELSE IF conns[s.packet].expires <= now
         THEN [conns |-> [p \in DOMAIN conns \ {s.packet} |-> conns[p]], heap |-> heap \ {s}]
         ELSE [conns |-> conns, heap |-> (heap \ {s}) \cup {[s EXCEPT !.time = now]}]

\* One pass of purge_expired's loop.  The earliest slot, if it is due, is
\* popped: the slot of a gone flow is discarded, an expired flow is removed,
\* and a flow refreshed past its slot is scheduled again.
PurgePass(conns, heap, now) ==
    LET s == CHOOSE x \in heap : \A y \in heap : x.time <= y.time IN
    IF heap = {} \/ s.time > now THEN [conns |-> conns, heap |-> heap]
    ELSE IF s.packet \notin DOMAIN conns THEN [conns |-> conns, heap |-> heap \ {s}]
    ELSE IF conns[s.packet].expires <= now
         THEN [conns |-> [p \in DOMAIN conns \ {s.packet} |-> conns[p]], heap |-> heap \ {s}]
         ELSE [conns |-> conns,
               heap |-> (heap \ {s}) \cup {[s EXCEPT !.time = conns[s.packet].expires]}]

\* The loop, as many passes as there are slots.
PurgeLoop(conns, heap, now) ==
    LET pass[n \in 0..Cardinality(heap)] ==
            IF n = 0 THEN [conns |-> conns, heap |-> heap]
            ELSE PurgePass(pass[n - 1].conns, pass[n - 1].heap, now)
    IN  pass[Cardinality(heap)]

UnusedIds(heap) == {i \in SlotIds : \A s \in heap : s.id # i}

\* record: insert or overwrite the entry; a slot only for a new flow.
Recorded(conns, p, entry) ==
    [q \in DOMAIN conns \cup {p} |-> IF q = p THEN entry ELSE conns[q]]

Scheduled(conns, heap, p, expires) ==
    IF p \in DOMAIN conns THEN heap
    ELSE heap \cup {[id |-> CHOOSE i \in UnusedIds(heap) : TRUE,
                     time |-> expires, packet |-> p]}

CanSchedule(conns, heap, p) == p \in DOMAIN conns \/ UnusedIds(heap) # {}

\* remove: the entry goes, its slot stays.
Removed(conns, p) == [q \in DOMAIN conns \ {p} |-> conns[q]]
=============================================================================
