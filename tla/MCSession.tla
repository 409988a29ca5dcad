----------------------------- MODULE MCSession ------------------------------
(* Small instances of Session.                                               *)
EXTENDS Session, TLC

CONSTANTS a, b

\* Every node knows every other node's address.
PairAddrs == [n \in Nodes |-> [v \in Nodes \ {n} |-> {v}]]

\* a and b know each other, but what a learns about b may be outdated: another
\* node answers there.
StaleAddrs == [n \in {a, b} |-> IF n = a THEN [v \in {b} |-> Nodes \ {a}]
                                         ELSE [v \in {a} |-> {a}]]
                @@ [n \in Nodes \ {a, b} |-> <<>>]

\* Calls t1 and t2 are made on a, the others on b.
CONSTANTS t1, t2
MCNodeOf == [k \in Tasks |-> IF k \in {t1, t2} THEN a ELSE b]

IndexSymmetry == Permutations(Indexes)
=============================================================================
