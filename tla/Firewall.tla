------------------------------ MODULE Firewall ------------------------------
(***************************************************************************)
(* Firewall::evaluate and Firewall::reload (nebula-firewall/src/           *)
(* firewall.rs), called by any number of threads.  evaluate reads the      *)
(* clock, then the rules under a read lock, then the connection table      *)
(* under its mutex; a miss checks the rules with no lock held and takes    *)
(* the mutex a second time to record the flow.  Other calls run between    *)
(* these sections.                                                         *)
(*                                                                         *)
(* A rule set is the set of <<packet, incoming, peer>> it matches.         *)
(***************************************************************************)
EXTENDS Conntrack

CONSTANTS Threads,      \* callers of evaluate
          Peers,        \* remote identities
          RuleSets,     \* rule sets reload may install
          Owns,         \* Owns[peer]: packets whose remote_addr the peer owns
          Routable,     \* packets whose local_addr is one of ours
          Timeout,      \* Timeout[p]: timeout of the packet's protocol
          VersionMod,   \* versions wrap here (2^16 in the code)
          MaxReloads,   \* bound: calls of reload
          MaxTime       \* bound: the clock

ASSUME FirewallAssumption ==
    /\ VersionMod \in Nat \ {0}
    /\ MaxReloads \in Nat
    /\ MaxTime \in Nat
    /\ Versions = 0..(VersionMod - 1)
    /\ RuleSets \subseteq SUBSET (Packets \X BOOLEAN \X Peers)
    /\ Owns \in [Peers -> SUBSET Packets]
    /\ Routable \subseteq Packets
    /\ Timeout \in [Packets -> Nat]

VARIABLES clock,         \* what Instant::now() returns
          version,       \* VersionedRules.version
          rules,         \* VersionedRules.rules
          conns,         \* Conntrack.conns
          expiry_heap,   \* Conntrack.expiry_heap
          task,          \* task[t]: the call thread t is in, or made last
          generation,    \* history: how often reload has been called
          installed      \* history: installed[g] is the VersionedRules of reload g

ghosts == <<generation, installed>>
vars == <<clock, version, rules, conns, expiry_heap, task, generation, installed>>

Results == {"none", "Ok", "InvalidRemoteIp", "InvalidLocalIp", "NoMatchingRule"}

IdleTasks == [pc : {"idle"}, result : Results]

\* evaluate has read the clock; then, in the other two, the rules as well.
CalledTasks == [pc : {"rules"}, packet : Packets, incoming : BOOLEAN,
                remote : Peers, now : Nat]
RuledTasks  == [pc : {"lookup", "check"}, packet : Packets, incoming : BOOLEAN,
                remote : Peers, now : Nat, version : Versions, rules : RuleSets]

Idle(result) == [pc |-> "idle", result |-> result]

Matches(ruleset, p, incoming, remote) == <<p, incoming, remote>> \in ruleset

Init ==
    /\ clock = 0
    /\ version = 0
    /\ rules \in RuleSets
    /\ conns = [p \in {} |-> 0]
    /\ expiry_heap = {}
    /\ task = [t \in Threads |-> Idle("none")]
    /\ generation = 0
    /\ installed = [g \in 0..MaxReloads |-> [version |-> 0, rules |-> rules]]

Tick == /\ clock < MaxTime
        /\ clock' = clock + 1
        /\ UNCHANGED <<version, rules, conns, expiry_heap, task, ghosts>>

\* A slip of reload: the version is not moved.
ReloadQuietly(r) ==
    /\ generation < MaxReloads
    /\ rules' = r
    /\ generation' = generation + 1
    /\ installed' = [installed EXCEPT ![generation + 1] =
                        [version |-> version, rules |-> r]]
    /\ UNCHANGED <<clock, version, conns, expiry_heap, task>>

\* reload: the version wraps; the connection table is not touched.
Reload(r) ==
    /\ generation < MaxReloads
    /\ version' = (version + 1) % VersionMod
    /\ rules' = r
    /\ generation' = generation + 1
    /\ installed' = [installed EXCEPT ![generation + 1] =
                        [version |-> version', rules |-> r]]
    /\ UNCHANGED <<clock, conns, expiry_heap, task>>

\* evaluate is called and reads the clock.
Call(t, p, incoming, remote) ==
    /\ task[t].pc = "idle"
    /\ task' = [task EXCEPT ![t] =
                   [pc |-> "rules", packet |-> p, incoming |-> incoming,
                    remote |-> remote, now |-> clock]]
    /\ UNCHANGED <<clock, version, rules, conns, expiry_heap, ghosts>>

\* The version and the rules, read together under the read lock.
ReadRules(t) ==
    /\ task[t].pc = "rules"
    /\ task' = [task EXCEPT ![t] =
                   [pc |-> "lookup", packet |-> task[t].packet,
                    incoming |-> task[t].incoming, remote |-> task[t].remote,
                    now |-> task[t].now, version |-> version, rules |-> rules]]
    /\ UNCHANGED <<clock, version, rules, conns, expiry_heap, ghosts>>

\* The state of the table after get's purge, as the thread's clock sees it.
Live(t)     == PurgedConns(conns, expiry_heap, task[t].now)
LiveHeap(t) == PurgedHeap(conns, expiry_heap, task[t].now)

\* Slips of record's arguments: the next version; the version in force now
\* instead of the one read with the rules; no timeout.
EntryForNext(t, incoming) ==
    [expires |-> task[t].now + Timeout[task[t].packet],
     incoming |-> incoming, rules_version |-> task[t].version + 1]
EntryForCurrent(t, incoming) ==
    [expires |-> task[t].now + Timeout[task[t].packet],
     incoming |-> incoming, rules_version |-> version]
EntryForNow(t, incoming) ==
    [expires |-> IF task[t].packet \in DOMAIN conns THEN task[t].now
                 ELSE task[t].now + Timeout[task[t].packet],
     incoming |-> incoming, rules_version |-> task[t].version]

\* The entry the thread's call writes, for the given direction.
EntryFor(t, incoming) ==
    [expires |-> task[t].now + Timeout[task[t].packet],
     incoming |-> incoming, rules_version |-> task[t].version]

\* First locked section, a hit: the entry carries the version the thread has
\* read, or the thread's rules allow the flow in the entry's direction.  The
\* flow is refreshed in the entry's direction and the packet passes.
LookupHit(t) ==
    LET p == task[t].packet IN
    /\ task[t].pc = "lookup"
    /\ p \in DOMAIN Live(t)
    /\ \/ Live(t)[p].rules_version = task[t].version
       \/ Matches(task[t].rules, p, Live(t)[p].incoming, task[t].remote)
    /\ conns' = Recorded(Live(t), p, EntryFor(t, Live(t)[p].incoming))
    /\ expiry_heap' = LiveHeap(t)
    /\ task' = [task EXCEPT ![t] = Idle("Ok")]
    /\ UNCHANGED <<clock, version, rules, ghosts>>

\* First locked section, no usable entry: one that the thread's rules no
\* longer allow is removed.  The mutex is released.
LookupMiss(t) ==
    LET p == task[t].packet IN
    /\ task[t].pc = "lookup"
    /\ p \in DOMAIN Live(t) =>
         /\ Live(t)[p].rules_version # task[t].version
         /\ ~Matches(task[t].rules, p, Live(t)[p].incoming, task[t].remote)
    /\ conns' = Removed(Live(t), p)
    /\ expiry_heap' = LiveHeap(t)
    /\ task' = [task EXCEPT ![t].pc = "check"]
    /\ UNCHANGED <<clock, version, rules, ghosts>>

\* The checks after a miss, in the code's order; no lock is held.
Verdict(t) ==
    LET k == task[t] IN
    IF k.packet \notin Owns[k.remote] THEN "InvalidRemoteIp"
    ELSE IF k.packet \notin Routable THEN "InvalidLocalIp"
    ELSE IF ~Matches(k.rules, k.packet, k.incoming, k.remote) THEN "NoMatchingRule"
    ELSE "Ok"

Drop(t) ==
    /\ task[t].pc = "check"
    /\ Verdict(t) # "Ok"
    /\ task' = [task EXCEPT ![t] = Idle(Verdict(t))]
    /\ UNCHANGED <<clock, version, rules, conns, expiry_heap, ghosts>>

\* Second locked section: the flow is recorded, over whatever entry another
\* thread may have recorded since.
Admit(t) ==
    LET p == task[t].packet
        e == EntryFor(t, task[t].incoming)
    IN  /\ task[t].pc = "check"
        /\ Verdict(t) = "Ok"
        /\ CanSchedule(conns, expiry_heap, p)
        /\ conns' = Recorded(conns, p, e)
        /\ expiry_heap' = Scheduled(conns, expiry_heap, p, e.expires)
        /\ task' = [task EXCEPT ![t] = Idle("Ok")]
        /\ UNCHANGED <<clock, version, rules, ghosts>>

Evaluate(t) ==
    \/ \E p \in Packets, incoming \in BOOLEAN, remote \in Peers :
          Call(t, p, incoming, remote)
    \/ ReadRules(t)
    \/ LookupHit(t)
    \/ LookupMiss(t)
    \/ Drop(t)
    \/ Admit(t)

Next == \/ Tick
        \/ \E r \in RuleSets : Reload(r)
        \/ \E t \in Threads : Evaluate(t)

Spec == Init /\ [][Next]_vars

-----------------------------------------------------------------------------
\* The table, the rules and every thread's locals are well formed.
TypeOK ==
    /\ clock \in Nat
    /\ version \in Versions
    /\ rules \in RuleSets
    /\ IsConns(conns)
    /\ expiry_heap \subseteq Slots
    /\ task \in [Threads -> IdleTasks \cup CalledTasks \cup RuledTasks]
    /\ generation \in 0..MaxReloads
    /\ installed \in [0..MaxReloads -> [version : Versions, rules : RuleSets]]

\* No flow is tracked for ever: whatever threads record, remove and refresh
\* between each other's locked sections, every tracked flow keeps a slot in
\* the expiry heap through which purge_expired can reach it (conntrack.rs:43-61,
\* 94-96).
FlowsAreScheduled ==
    \A p \in DOMAIN conns : \E s \in expiry_heap : s.packet = p

\* An entry's version stamp is honest: the rule set that had this version
\* allows the flow in the entry's direction for some peer, and the flow is
\* local.  The fast path of evaluate (firewall.rs:107-116) rests on this: it
\* compares versions instead of asking the rules, and threads holding older
\* rules write entries after newer ones were installed.
EntriesAreAllowed ==
    \A p \in DOMAIN conns :
        /\ p \in Routable
        /\ \E g \in 0..generation, remote \in Peers :
              /\ conns[p].rules_version = installed[g].version
              /\ Matches(installed[g].rules, p, conns[p].incoming, remote)

\* A packet passes only if the rules its thread read at the start of the call
\* allow its flow, in one direction, for some peer: a reload racing with the
\* call may make it use the old rules, never none (firewall.rs:99-157).
PassesAreAllowed ==
    [][\A t \in Threads :
          task[t].pc \in {"lookup", "check"} /\ task'[t] = Idle("Ok") =>
              \E incoming \in BOOLEAN, remote \in Peers :
                  Matches(task[t].rules, task[t].packet, incoming, remote)]_vars

\* purge_expired, run now, removes every entry whose expiry is at or before now
\* (conntrack.rs:39-40), so get answers with live entries only.
PurgeRemovesExpired ==
    LET left == PurgedConns(conns, expiry_heap, clock)
    IN  \A p \in DOMAIN left : left[p].expires > clock

\* Recording a tracked flow again never brings its expiry forward
\* (conntrack.rs:72-74: "a refresh just extends `expires` in place").
RefreshExtends ==
    [][\A p \in DOMAIN conns \cap DOMAIN conns' :
          conns'[p].expires >= conns[p].expires]_vars

\* The loop of purge_expired, popping in heap order and pushing back what was
\* refreshed, ends after one pass per slot with exactly the table the closed
\* form gives: a slot pushed back is not due again, a flow with several slots
\* is removed once, and slots of gone flows go (conntrack.rs:43-61).
PurgeIsClosedForm ==
    \A now \in 0..clock :
        LET left == PurgeLoop(conns, expiry_heap, now) IN
        /\ left.conns = PurgedConns(conns, expiry_heap, now)
        /\ left.heap = PurgedHeap(conns, expiry_heap, now)
=============================================================================
