--------------------------- MODULE FirewallProofs ---------------------------
(***************************************************************************)
(* The firewall for any number of threads, packets, peers and rule sets.   *)
(* The inductive invariant adds to the checked properties that the version *)
(* and the rules in force are those of the latest reload, and that what a  *)
(* thread carries from its read of them to its locked sections is what     *)
(* some reload installed.                                                  *)
(***************************************************************************)
EXTENDS Firewall, FiniteSetTheorems, TLAPS

RulesAreLatest == /\ version = installed[generation].version
                  /\ rules = installed[generation].rules

SnapshotsAreInstalled ==
    \A t \in Threads : task[t].pc \in {"lookup", "check"} =>
        \E g \in 0..generation : /\ task[t].version = installed[g].version
                                 /\ task[t].rules = installed[g].rules

FirewallInv == /\ TypeOK
               /\ FlowsAreScheduled
               /\ EntriesAreAllowed
               /\ RulesAreLatest
               /\ SnapshotsAreInstalled

HasSlots(cs, heap) == \A p \in DOMAIN cs : \E s \in heap : s.packet = p

-----------------------------------------------------------------------------
\* A purge keeps the table well formed, every flow it leaves keeps a slot, and
\* the entries it leaves are the ones it found (purge_expired).
LEMMA PurgeKeeps ==
    ASSUME NEW cs, NEW heap, NEW now \in Nat,
           IsConns(cs), heap \subseteq Slots, HasSlots(cs, heap)
    PROVE  /\ IsConns(PurgedConns(cs, heap, now))
           /\ PurgedHeap(cs, heap, now) \subseteq Slots
           /\ HasSlots(PurgedConns(cs, heap, now), PurgedHeap(cs, heap, now))
           /\ DOMAIN PurgedConns(cs, heap, now) \subseteq DOMAIN cs
           /\ \A p \in DOMAIN PurgedConns(cs, heap, now) :
                 PurgedConns(cs, heap, now)[p] = cs[p]
<1> DEFINE left == PurgedConns(cs, heap, now)
           slots == PurgedHeap(cs, heap, now)
<1>1. DOMAIN left \subseteq DOMAIN cs /\ \A p \in DOMAIN left : left[p] = cs[p]
  BY DEF PurgedConns
<1>2. IsConns(left)
  BY <1>1 DEF IsConns
<1>3. slots \subseteq Slots
  <2> SUFFICES ASSUME NEW s \in heap, s.packet \in DOMAIN cs
               PROVE  [s EXCEPT !.time = cs[s.packet].expires] \in Slots
    BY DEF PurgedHeap
  <2>1. cs[s.packet].expires \in Nat
    BY DEF IsConns, Entries
  <2> QED BY <2>1 DEF Slots
<1>4. HasSlots(left, slots)
  <2> SUFFICES ASSUME NEW p \in DOMAIN left
               PROVE  \E s \in slots : s.packet = p
    BY DEF HasSlots
  <2>1. PICK s \in heap : s.packet = p
    BY <1>1 DEF HasSlots
  <2>2. s \in Slots /\ s.time \in Nat /\ cs[p].expires \in Nat
    BY <1>1 DEF Slots, IsConns, Entries
  <2>3. CASE s.time > now
    BY <2>1, <2>3 DEF PurgedHeap
  <2>4. CASE s.time <= now
    <3>1. cs[p].expires > now
      BY <1>1, <2>1, <2>2, <2>4 DEF PurgedConns, Expired
    <3>2. [s EXCEPT !.time = cs[s.packet].expires] \in slots
      BY <1>1, <2>1, <2>4, <3>1 DEF PurgedHeap
    <3>3. [s EXCEPT !.time = cs[s.packet].expires].packet = p
      BY <2>1, <2>2 DEF Slots
    <3> QED BY <3>2, <3>3
  <2> QED BY <2>2, <2>3, <2>4
<1> QED BY <1>1, <1>2, <1>3, <1>4

\* record keeps the table well formed and gives the flow it records a slot.
LEMMA RecordKeeps ==
    ASSUME NEW cs, NEW heap, NEW p \in Packets, NEW e \in Entries,
           IsConns(cs), heap \subseteq Slots, HasSlots(cs, heap),
           CanSchedule(cs, heap, p)
    PROVE  /\ IsConns(Recorded(cs, p, e))
           /\ Scheduled(cs, heap, p, e.expires) \subseteq Slots
           /\ HasSlots(Recorded(cs, p, e), Scheduled(cs, heap, p, e.expires))
<1>1. IsConns(Recorded(cs, p, e))
  BY DEF Recorded, IsConns
<1>2. CASE p \in DOMAIN cs
  BY <1>1, <1>2 DEF Scheduled, Recorded, HasSlots
<1>3. CASE p \notin DOMAIN cs
  <2> DEFINE i == CHOOSE x \in UnusedIds(heap) : TRUE
             s == [id |-> i, time |-> e.expires, packet |-> p]
  <2>1. i \in SlotIds
    BY <1>3 DEF CanSchedule, UnusedIds
  <2>2. s \in Slots
    BY <2>1 DEF Slots, Entries
  <2>3. Scheduled(cs, heap, p, e.expires) = heap \cup {s}
    BY <1>3 DEF Scheduled
  <2>4. HasSlots(Recorded(cs, p, e), heap \cup {s})
    <3> SUFFICES ASSUME NEW q \in DOMAIN cs \cup {p}
                 PROVE  \E x \in heap \cup {s} : x.packet = q
      BY DEF HasSlots, Recorded
    <3>1. CASE q = p
      <4>1. s \in heap \cup {s} /\ s.packet = p
        OBVIOUS
      <4> QED BY <3>1, <4>1
    <3>2. CASE q \in DOMAIN cs
      BY <3>2 DEF HasSlots
    <3> QED BY <3>1, <3>2
  <2> QED BY <1>1, <2>2, <2>3, <2>4
<1> QED BY <1>2, <1>3

\* A refresh or a removal needs no new slot.
LEMMA RefreshKeeps ==
    ASSUME NEW cs, NEW heap, NEW p, IsConns(cs), HasSlots(cs, heap)
    PROVE  /\ \A e \in Entries : p \in DOMAIN cs =>
                 /\ IsConns(Recorded(cs, p, e))
                 /\ HasSlots(Recorded(cs, p, e), heap)
           /\ IsConns(Removed(cs, p))
           /\ HasSlots(Removed(cs, p), heap)
BY DEF IsConns, HasSlots, Recorded, Removed

-----------------------------------------------------------------------------
\* What the type invariant says of a thread in the middle of a call.
LEMMA TaskTypes ==
    ASSUME TypeOK, NEW t \in Threads
    PROVE  /\ task[t].pc = "rules" => task[t] \in CalledTasks
           /\ task[t].pc \in {"lookup", "check"} => task[t] \in RuledTasks
BY DEF TypeOK, IdleTasks, CalledTasks, RuledTasks

\* The entry a call writes is well formed.
LEMMA EntryForType ==
    ASSUME TypeOK, NEW t \in Threads, task[t].pc \in {"lookup", "check"},
           NEW incoming \in BOOLEAN
    PROVE  /\ task[t].packet \in Packets /\ task[t].now \in Nat
           /\ EntryFor(t, incoming) \in Entries
           /\ EntryFor(t, incoming).incoming = incoming
           /\ EntryFor(t, incoming).rules_version = task[t].version
<1>1. task[t] \in RuledTasks
  BY TaskTypes
<1>2. /\ task[t].packet \in Packets /\ task[t].now \in Nat
      /\ task[t].version \in Versions
  BY <1>1 DEF RuledTasks
<1>3. Timeout[task[t].packet] \in Nat
  BY <1>2, FirewallAssumption
<1>4. task[t].now + Timeout[task[t].packet] \in Nat
  BY <1>2, <1>3
<1> QED BY <1>2, <1>4 DEF EntryFor, Entries

\* A firewall with an empty table (Firewall::new).
LEMMA FirewallInitInv == Init => FirewallInv
<1> SUFFICES ASSUME Init PROVE FirewallInv
  OBVIOUS
<1>1. TypeOK
  BY FirewallAssumption
  DEF Init, TypeOK, IsConns, Idle, IdleTasks, Results
<1>2. FlowsAreScheduled /\ EntriesAreAllowed
  BY DEF Init, FlowsAreScheduled, EntriesAreAllowed
<1>3. RulesAreLatest
  BY FirewallAssumption DEF Init, RulesAreLatest
<1>4. SnapshotsAreInstalled
  BY DEF Init, SnapshotsAreInstalled, Idle
<1> QED BY <1>1, <1>2, <1>3, <1>4 DEF FirewallInv

\* reload appends to the history; what was installed stays installed.
LEMMA ReloadInv ==
    ASSUME FirewallInv, NEW r \in RuleSets, Reload(r)
    PROVE  FirewallInv'
<1> USE FirewallAssumption
<1>1. /\ generation \in 0..MaxReloads /\ generation < MaxReloads
      /\ generation' = generation + 1
      /\ generation' \in 0..MaxReloads
      /\ version' = (version + 1) % VersionMod
      /\ rules' = r
      /\ UNCHANGED <<clock, conns, expiry_heap, task>>
  BY DEF Reload, FirewallInv, TypeOK
<1>2. version' \in Versions
  <2>1. version + 1 \in Nat
    BY DEF FirewallInv, TypeOK
  <2>2. (version + 1) % VersionMod \in 0..(VersionMod - 1)
    BY <2>1
  <2> QED BY <1>1, <2>2
<1>3. installed' = [installed EXCEPT ![generation + 1] =
                       [version |-> version', rules |-> r]]
  BY DEF Reload
<1>4. /\ installed' \in [0..MaxReloads -> [version : Versions, rules : RuleSets]]
      /\ installed'[generation'] = [version |-> version', rules |-> r]
      /\ \A g \in 0..generation : installed'[g] = installed[g]
      /\ 0..generation \subseteq 0..generation'
  BY <1>1, <1>2, <1>3 DEF FirewallInv, TypeOK
<1>5. TypeOK'
  BY <1>1, <1>2, <1>4 DEF FirewallInv, TypeOK, IsConns
<1>6. FlowsAreScheduled'
  BY <1>1 DEF FirewallInv, FlowsAreScheduled
<1>7. EntriesAreAllowed'
  BY <1>1, <1>4 DEF FirewallInv, EntriesAreAllowed, Matches
<1>8. RulesAreLatest'
  BY <1>1, <1>4 DEF RulesAreLatest
<1>9. SnapshotsAreInstalled'
  <2> SUFFICES ASSUME NEW t \in Threads, task[t].pc \in {"lookup", "check"}
               PROVE  \E g \in 0..generation' :
                         /\ task[t].version = installed'[g].version
                         /\ task[t].rules = installed'[g].rules
    BY <1>1 DEF SnapshotsAreInstalled
  <2>1. PICK g \in 0..generation : /\ task[t].version = installed[g].version
                                   /\ task[t].rules = installed[g].rules
    BY DEF FirewallInv, SnapshotsAreInstalled
  <2> QED BY <1>4, <2>1
<1> QED BY <1>5, <1>6, <1>7, <1>8, <1>9 DEF FirewallInv

\* The steps that touch neither the table nor the rules.
LEMMA LocalStepInv ==
    ASSUME FirewallInv,
           NEW t \in Threads,
           \/ \E p \in Packets, incoming \in BOOLEAN, remote \in Peers :
                 Call(t, p, incoming, remote)
           \/ ReadRules(t)
           \/ Drop(t)
    PROVE  FirewallInv'
<1>1. UNCHANGED <<clock, version, rules, conns, expiry_heap, generation, installed>>
  BY DEF Call, ReadRules, Drop, ghosts
<1>2. /\ task' \in [Threads -> IdleTasks \cup CalledTasks \cup RuledTasks]
      /\ \A u \in Threads : u # t => task'[u] = task[u]
      /\ \/ task'[t].pc \notin {"lookup", "check"}
         \/ /\ task'[t].version = version
            /\ task'[t].rules = rules
  <2>1. ASSUME NEW p \in Packets, NEW incoming \in BOOLEAN, NEW remote \in Peers,
               Call(t, p, incoming, remote)
        PROVE  <1>2!:
    BY <2>1 DEF Call, FirewallInv, TypeOK, CalledTasks
  <2>2. CASE ReadRules(t)
    <3>1. task[t] \in CalledTasks
      BY <2>2, TaskTypes DEF ReadRules, FirewallInv
    <3> QED BY <2>2, <3>1 DEF ReadRules, FirewallInv, TypeOK, CalledTasks, RuledTasks
  <2>3. CASE Drop(t)
    <3>1. Idle(Verdict(t)) \in IdleTasks /\ Idle(Verdict(t)).pc = "idle"
      BY DEF Idle, Verdict, IdleTasks, Results
    <3> QED BY <2>3, <3>1 DEF Drop, FirewallInv, TypeOK
  <2> QED BY <2>1, <2>2, <2>3
<1>3. TypeOK'
  BY <1>1, <1>2 DEF FirewallInv, TypeOK, IsConns
<1>4. SnapshotsAreInstalled'
  <2> SUFFICES ASSUME NEW u \in Threads, task'[u].pc \in {"lookup", "check"}
               PROVE  \E g \in 0..generation :
                         /\ task'[u].version = installed[g].version
                         /\ task'[u].rules = installed[g].rules
    BY <1>1 DEF SnapshotsAreInstalled
  <2>1. CASE u # t
    BY <1>2, <2>1 DEF FirewallInv, SnapshotsAreInstalled
  <2>2. CASE u = t
    <3>1. generation \in 0..generation
      BY DEF FirewallInv, TypeOK
    <3> QED BY <1>2, <2>2, <3>1 DEF FirewallInv, RulesAreLatest
  <2> QED BY <2>1, <2>2
<1> QED
  BY <1>1, <1>3, <1>4
  DEF FirewallInv, FlowsAreScheduled, EntriesAreAllowed, RulesAreLatest, Matches

\* The first locked section with a hit: the refreshed entry keeps its direction;
\* its new stamp is either the old one or one whose rules were just asked.
LEMMA LookupHitInv ==
    ASSUME FirewallInv, NEW t \in Threads, LookupHit(t)
    PROVE  FirewallInv'
<1> DEFINE p == task[t].packet
           dir == Live(t)[p].incoming
           e == EntryFor(t, dir)
<1>1. /\ UNCHANGED <<clock, version, rules, generation, installed>>
      /\ p \in DOMAIN Live(t)
      /\ conns' = Recorded(Live(t), p, e)
      /\ expiry_heap' = LiveHeap(t)
      /\ task' = [task EXCEPT ![t] = Idle("Ok")]
      /\ task[t].pc \in {"lookup", "check"}
  BY DEF LookupHit, ghosts
<1>2. task[t] \in RuledTasks
  BY <1>1, TaskTypes DEF FirewallInv
<1>3. p \in Packets /\ task[t].now \in Nat /\ task[t].remote \in Peers
  BY <1>2 DEF RuledTasks
<1>4. /\ IsConns(Live(t)) /\ LiveHeap(t) \subseteq Slots
      /\ HasSlots(Live(t), LiveHeap(t))
      /\ DOMAIN Live(t) \subseteq DOMAIN conns
      /\ \A q \in DOMAIN Live(t) : Live(t)[q] = conns[q]
  BY <1>3, PurgeKeeps DEF FirewallInv, TypeOK, FlowsAreScheduled, HasSlots, Live, LiveHeap
<1>5. dir \in BOOLEAN
  BY <1>1, <1>4 DEF IsConns, Entries
<1>6. /\ e \in Entries
      /\ e.incoming = dir
      /\ e.rules_version = task[t].version
  BY <1>1, <1>5, EntryForType DEF FirewallInv
<1>7. IsConns(conns') /\ HasSlots(conns', expiry_heap')
  BY <1>1, <1>4, <1>6, RefreshKeeps
<1>8. Idle("Ok") \in IdleTasks /\ Idle("Ok").pc = "idle"
  BY DEF Idle, IdleTasks, Results
<1>9. TypeOK'
  BY <1>1, <1>4, <1>7, <1>8 DEF FirewallInv, TypeOK
<1>10. EntriesAreAllowed'
  <2> DEFINE Allowed(q, d, v) ==
                 \E g \in 0..generation, remote \in Peers :
                     /\ v = installed[g].version
                     /\ Matches(installed[g].rules, q, d, remote)
  <2>1. \A q \in DOMAIN conns : q \in Routable
                                /\ Allowed(q, conns[q].incoming, conns[q].rules_version)
    BY DEF FirewallInv, EntriesAreAllowed
  <2>2. Allowed(p, dir, task[t].version)
    <3>1. CASE Live(t)[p].rules_version = task[t].version
      BY <1>1, <1>4, <2>1, <3>1
    <3>2. CASE Matches(task[t].rules, p, dir, task[t].remote)
      <4>1. PICK g \in 0..generation : /\ task[t].version = installed[g].version
                                       /\ task[t].rules = installed[g].rules
        BY <1>1 DEF FirewallInv, SnapshotsAreInstalled
      <4> QED BY <1>3, <3>2, <4>1
    <3> QED BY <3>1, <3>2 DEF LookupHit
  <2>3. \A q \in DOMAIN conns' : q \in Routable
                                 /\ Allowed(q, conns'[q].incoming, conns'[q].rules_version)
    <3> SUFFICES ASSUME NEW q \in DOMAIN conns'
                 PROVE  q \in Routable
                        /\ Allowed(q, conns'[q].incoming, conns'[q].rules_version)
      OBVIOUS
    <3>1. CASE q = p
      <4>1. conns'[q] = e /\ q \in DOMAIN conns
        BY <1>1, <1>4, <3>1 DEF Recorded
      <4> QED BY <1>6, <2>1, <2>2, <3>1, <4>1
    <3>2. CASE q # p
      <4>1. q \in DOMAIN conns /\ conns'[q] = conns[q]
        BY <1>1, <1>4, <3>2 DEF Recorded
      <4> QED BY <2>1, <4>1
    <3> QED BY <3>1, <3>2
  <2> QED BY <1>1, <2>3 DEF EntriesAreAllowed
<1>11. SnapshotsAreInstalled'
  BY <1>1, <1>8 DEF FirewallInv, TypeOK, SnapshotsAreInstalled
<1> QED
  BY <1>1, <1>7, <1>9, <1>10, <1>11
  DEF FirewallInv, FlowsAreScheduled, HasSlots, RulesAreLatest

\* The first locked section without a usable entry: a flow is only taken out.
LEMMA LookupMissInv ==
    ASSUME FirewallInv, NEW t \in Threads, LookupMiss(t)
    PROVE  FirewallInv'
<1> DEFINE p == task[t].packet
<1>1. /\ UNCHANGED <<clock, version, rules, generation, installed>>
      /\ conns' = Removed(Live(t), p)
      /\ expiry_heap' = LiveHeap(t)
      /\ task' = [task EXCEPT ![t].pc = "check"]
      /\ task[t].pc = "lookup"
  BY DEF LookupMiss, ghosts
<1>2. task[t] \in RuledTasks
  BY <1>1, TaskTypes DEF FirewallInv
<1>3. task[t].now \in Nat
  BY <1>2 DEF RuledTasks
<1>4. /\ IsConns(Live(t)) /\ LiveHeap(t) \subseteq Slots
      /\ HasSlots(Live(t), LiveHeap(t))
      /\ DOMAIN Live(t) \subseteq DOMAIN conns
      /\ \A q \in DOMAIN Live(t) : Live(t)[q] = conns[q]
  BY <1>3, PurgeKeeps DEF FirewallInv, TypeOK, FlowsAreScheduled, HasSlots, Live, LiveHeap
<1>5. IsConns(conns') /\ HasSlots(conns', expiry_heap')
  BY <1>1, <1>4, RefreshKeeps
<1>6. task'[t] \in RuledTasks /\ \A u \in Threads : u # t => task'[u] = task[u]
  BY <1>1, <1>2 DEF FirewallInv, TypeOK, RuledTasks
<1>7. task' \in [Threads -> IdleTasks \cup CalledTasks \cup RuledTasks]
  BY <1>1, <1>6 DEF FirewallInv, TypeOK
<1>8. TypeOK'
  BY <1>1, <1>4, <1>5, <1>7 DEF FirewallInv, TypeOK
<1>9. \A q \in DOMAIN conns' : q \in DOMAIN conns /\ conns'[q] = conns[q]
  BY <1>1, <1>4 DEF Removed
<1>10. EntriesAreAllowed'
  <2> SUFFICES ASSUME NEW q \in DOMAIN conns'
               PROVE  /\ q \in Routable
                      /\ \E g \in 0..generation, remote \in Peers :
                            /\ conns'[q].rules_version = installed[g].version
                            /\ Matches(installed[g].rules, q, conns'[q].incoming, remote)
    BY <1>1 DEF EntriesAreAllowed, Matches
  <2> QED BY <1>9 DEF FirewallInv, EntriesAreAllowed
<1>11. task'[t].version = task[t].version /\ task'[t].rules = task[t].rules
  BY <1>1, <1>2 DEF FirewallInv, TypeOK, RuledTasks
<1>12. SnapshotsAreInstalled'
  <2> SUFFICES ASSUME NEW u \in Threads, task'[u].pc \in {"lookup", "check"}
               PROVE  \E g \in 0..generation :
                         /\ task'[u].version = installed[g].version
                         /\ task'[u].rules = installed[g].rules
    BY <1>1 DEF SnapshotsAreInstalled
  <2>1. CASE u = t
    BY <1>1, <1>11, <2>1 DEF FirewallInv, SnapshotsAreInstalled
  <2>2. CASE u # t
    BY <1>6, <2>2 DEF FirewallInv, SnapshotsAreInstalled
  <2> QED BY <2>1, <2>2
<1> QED
  BY <1>1, <1>5, <1>8, <1>10, <1>12
  DEF FirewallInv, FlowsAreScheduled, HasSlots, RulesAreLatest

\* The second locked section: the rules the thread holds allow the flow, and
\* they are rules that were installed.
LEMMA AdmitInv ==
    ASSUME FirewallInv, NEW t \in Threads, Admit(t)
    PROVE  FirewallInv'
<1> DEFINE p == task[t].packet
           e == EntryFor(t, task[t].incoming)
<1>1. /\ UNCHANGED <<clock, version, rules, generation, installed>>
      /\ CanSchedule(conns, expiry_heap, p)
      /\ conns' = Recorded(conns, p, e)
      /\ expiry_heap' = Scheduled(conns, expiry_heap, p, e.expires)
      /\ task' = [task EXCEPT ![t] = Idle("Ok")]
      /\ task[t].pc \in {"lookup", "check"}
      /\ Verdict(t) = "Ok"
  BY DEF Admit, ghosts
<1>2. task[t] \in RuledTasks
  BY <1>1, TaskTypes DEF FirewallInv
<1>3. task[t].incoming \in BOOLEAN /\ task[t].remote \in Peers
  BY <1>2 DEF RuledTasks
<1>4. /\ p \in Packets
      /\ e \in Entries
      /\ e.incoming = task[t].incoming
      /\ e.rules_version = task[t].version
  BY <1>1, <1>3, EntryForType DEF FirewallInv
<1>5. /\ IsConns(conns') /\ expiry_heap' \subseteq Slots
      /\ HasSlots(conns', expiry_heap')
  BY <1>1, <1>4, RecordKeeps DEF FirewallInv, TypeOK, FlowsAreScheduled, HasSlots
<1>6. Idle("Ok") \in IdleTasks /\ Idle("Ok").pc = "idle"
  BY DEF Idle, IdleTasks, Results
<1>7. TypeOK'
  BY <1>1, <1>5, <1>6 DEF FirewallInv, TypeOK
<1>8. p \in Routable /\ Matches(task[t].rules, p, task[t].incoming, task[t].remote)
  BY <1>1 DEF Verdict
<1>9. PICK g \in 0..generation : /\ task[t].version = installed[g].version
                                 /\ task[t].rules = installed[g].rules
  BY <1>1 DEF FirewallInv, SnapshotsAreInstalled
<1>10. EntriesAreAllowed'
  <2> SUFFICES ASSUME NEW q \in DOMAIN conns'
               PROVE  /\ q \in Routable
                      /\ \E h \in 0..generation, remote \in Peers :
                            /\ conns'[q].rules_version = installed[h].version
                            /\ Matches(installed[h].rules, q, conns'[q].incoming, remote)
    BY <1>1 DEF EntriesAreAllowed, Matches
  <2>1. CASE q = p
    <3>1. conns'[q] = e
      BY <1>1, <2>1 DEF Recorded
    <3> QED BY <1>3, <1>4, <1>8, <1>9, <2>1, <3>1
  <2>2. CASE q # p
    <3>1. q \in DOMAIN conns /\ conns'[q] = conns[q]
      BY <1>1, <2>2 DEF Recorded
    <3> QED BY <3>1 DEF FirewallInv, EntriesAreAllowed
  <2> QED BY <2>1, <2>2
<1>11. SnapshotsAreInstalled'
  BY <1>1, <1>6 DEF FirewallInv, TypeOK, SnapshotsAreInstalled
<1> QED
  BY <1>1, <1>5, <1>7, <1>10, <1>11
  DEF FirewallInv, FlowsAreScheduled, HasSlots, RulesAreLatest

\* Every step keeps the invariant.
LEMMA FirewallNextInv == FirewallInv /\ [Next]_vars => FirewallInv'
<1> SUFFICES ASSUME FirewallInv, [Next]_vars PROVE FirewallInv'
  OBVIOUS
<1>1. CASE UNCHANGED vars
  BY <1>1
  DEF vars, FirewallInv, TypeOK, IsConns, FlowsAreScheduled, EntriesAreAllowed,
      RulesAreLatest, SnapshotsAreInstalled, Matches
<1>2. CASE Tick
  BY <1>2
  DEF Tick, ghosts, FirewallInv, TypeOK, IsConns, FlowsAreScheduled,
      EntriesAreAllowed, RulesAreLatest, SnapshotsAreInstalled, Matches
<1>3. ASSUME NEW r \in RuleSets, Reload(r) PROVE FirewallInv'
  BY <1>3, ReloadInv
<1>4. ASSUME NEW t \in Threads, Evaluate(t) PROVE FirewallInv'
  BY <1>4, LocalStepInv, LookupHitInv, LookupMissInv, AdmitInv DEF Evaluate
<1> QED BY <1>1, <1>2, <1>3, <1>4 DEF Next

\* For any threads, packets, peers and rule sets, the table and the threads'
\* locals stay well formed.
THEOREM FirewallTypeCorrect == Spec => []TypeOK
<1>1. FirewallInv => TypeOK
  BY DEF FirewallInv
<1> QED BY <1>1, FirewallInitInv, FirewallNextInv, PTL DEF Spec

\* No interleaving of evaluate calls and reloads leaves a tracked flow without
\* an expiry slot (conntrack.rs:43-61, 94-96).
THEOREM FirewallFlowsScheduled == Spec => []FlowsAreScheduled
<1>1. FirewallInv => FlowsAreScheduled
  BY DEF FirewallInv
<1> QED BY <1>1, FirewallInitInv, FirewallNextInv, PTL DEF Spec

\* The rules whose version an entry carries allow its flow (firewall.rs:107-127,
\* 145-155), for any number of threads and reloads.
THEOREM FirewallEntriesAllowed == Spec => []EntriesAreAllowed
<1>1. FirewallInv => EntriesAreAllowed
  BY DEF FirewallInv
<1> QED BY <1>1, FirewallInitInv, FirewallNextInv, PTL DEF Spec

-----------------------------------------------------------------------------
\* While fewer reloads than versions have happened, a version names one rule set.
VersionsAreUnique ==
    MaxReloads < VersionMod => \A g \in 0..generation : installed[g].version = g

LEMMA VersionsUniqueInv ==
    /\ Init => VersionsAreUnique
    /\ FirewallInv /\ VersionsAreUnique /\ [Next]_vars => VersionsAreUnique'
<1> USE FirewallAssumption
<1>1. Init => VersionsAreUnique
  BY DEF Init, VersionsAreUnique
<1>2. ASSUME FirewallInv, VersionsAreUnique, [Next]_vars
      PROVE  VersionsAreUnique'
  <2>1. CASE \E r \in RuleSets : Reload(r)
    <3> SUFFICES ASSUME MaxReloads < VersionMod
                 PROVE  \A g \in 0..generation' : installed'[g].version = g
      BY DEF VersionsAreUnique
    <3>1. PICK r \in RuleSets : Reload(r)
      BY <2>1
    <3>2. /\ generation \in Nat /\ generation < MaxReloads
          /\ generation' = generation + 1
          /\ version' = (version + 1) % VersionMod
          /\ installed' = [installed EXCEPT ![generation + 1] =
                              [version |-> version', rules |-> r]]
      BY <1>2, <3>1 DEF Reload, FirewallInv, TypeOK
    <3>3. \A g \in 0..generation : installed[g].version = g
      BY <1>2 DEF VersionsAreUnique
    <3>4. version = generation
      BY <1>2, <3>2, <3>3 DEF FirewallInv, RulesAreLatest
    <3>5. (generation + 1) % VersionMod = generation + 1
      BY <3>2
    <3>6. \A g \in 0..generation : installed'[g].version = g
      BY <1>2, <3>2, <3>3 DEF FirewallInv, TypeOK
    <3>7. installed'[generation + 1].version = generation + 1
      BY <1>2, <3>2, <3>4, <3>5 DEF FirewallInv, TypeOK
    <3> QED BY <3>2, <3>6, <3>7
  <2>2. CASE UNCHANGED ghosts
    BY <1>2, <2>2 DEF ghosts, VersionsAreUnique
  <2> QED
    BY <1>2, <2>1, <2>2
    DEF Next, vars, ghosts, Tick, Evaluate, Call, ReadRules, LookupHit, LookupMiss,
        Drop, Admit
<1> QED BY <1>1, <1>2

\* As long as the version counter has not come round (firewall.rs:84 wraps it
\* at 2^16), a packet passes only if the rules its thread read allow its flow:
\* the version comparison of the fast path is as good as asking the rules.
THEOREM FirewallPassesAllowed ==
    ASSUME MaxReloads < VersionMod
    PROVE  Spec => PassesAreAllowed
<1> DEFINE Step == \A t \in Threads :
          task[t].pc \in {"lookup", "check"} /\ task'[t] = Idle("Ok") =>
              \E incoming \in BOOLEAN, remote \in Peers :
                  Matches(task[t].rules, task[t].packet, incoming, remote)
<1>1. ASSUME FirewallInv, VersionsAreUnique, [Next]_vars
      PROVE  [Step]_vars
  <2> SUFFICES ASSUME Next, NEW t \in Threads,
                      task[t].pc \in {"lookup", "check"}, task'[t] = Idle("Ok")
               PROVE  \E incoming \in BOOLEAN, remote \in Peers :
                         Matches(task[t].rules, task[t].packet, incoming, remote)
    BY <1>1
  <2>1. task[t] \in RuledTasks /\ task'[t] # task[t]
    <3>1. task[t] \in RuledTasks
      BY <1>1, TaskTypes DEF FirewallInv
    <3>2. Idle("Ok").pc = "idle"
      BY DEF Idle
    <3> QED BY <3>1, <3>2
  <2>2. LookupHit(t) \/ Admit(t)
    <3>1. PICK u \in Threads : Evaluate(u)
      BY <2>1 DEF Next, Tick, Reload
    <3>2. u = t
      BY <1>1, <2>1, <3>1
      DEF Evaluate, Call, ReadRules, LookupHit, LookupMiss, Drop, Admit,
          FirewallInv, TypeOK
    <3>3. ~(\E p \in Packets, incoming \in BOOLEAN, remote \in Peers :
               Call(t, p, incoming, remote)) /\ ~ReadRules(t)
      BY DEF Call, ReadRules
    <3>4. ~LookupMiss(t)
      <4>1. SUFFICES ASSUME LookupMiss(t) PROVE task'[t].pc = "check"
        BY DEF Idle
      <4> QED BY <1>1, <2>1, <4>1 DEF LookupMiss, FirewallInv, TypeOK, RuledTasks
    <3>5. ~Drop(t)
      <4>1. SUFFICES ASSUME Drop(t) PROVE FALSE
        OBVIOUS
      <4>2. task'[t] = Idle(Verdict(t)) /\ Verdict(t) # "Ok"
        BY <1>1, <4>1 DEF Drop, FirewallInv, TypeOK
      <4>3. Idle(Verdict(t)).result # Idle("Ok").result
        BY <4>2 DEF Idle
      <4> QED BY <4>2, <4>3
    <3> QED BY <3>1, <3>2, <3>3, <3>4, <3>5 DEF Evaluate
  <2>3. CASE Admit(t)
    BY <2>1, <2>3 DEF Admit, Verdict, RuledTasks
  <2>4. CASE LookupHit(t)
    <3> DEFINE p == task[t].packet
    <3>1. task[t].now \in Nat /\ task[t].remote \in Peers
      BY <2>1 DEF RuledTasks
    <3>2. /\ IsConns(Live(t))
          /\ DOMAIN Live(t) \subseteq DOMAIN conns
          /\ \A q \in DOMAIN Live(t) : Live(t)[q] = conns[q]
      BY <1>1, <3>1, PurgeKeeps DEF FirewallInv, TypeOK, FlowsAreScheduled, HasSlots, Live
    <3>3. p \in DOMAIN Live(t) /\ Live(t)[p].incoming \in BOOLEAN
      BY <2>4, <3>2 DEF LookupHit, IsConns, Entries
    <3>4. CASE Matches(task[t].rules, p, Live(t)[p].incoming, task[t].remote)
      BY <3>1, <3>3, <3>4
    <3>5. CASE Live(t)[p].rules_version = task[t].version
      <4>1. PICK g \in 0..generation, remote \in Peers :
                /\ conns[p].rules_version = installed[g].version
                /\ Matches(installed[g].rules, p, conns[p].incoming, remote)
        BY <1>1, <3>2, <3>3 DEF FirewallInv, EntriesAreAllowed
      <4>2. PICK h \in 0..generation : /\ task[t].version = installed[h].version
                                       /\ task[t].rules = installed[h].rules
        BY <1>1 DEF FirewallInv, SnapshotsAreInstalled
      <4>3. g = h
        BY <1>1, <3>2, <3>3, <3>5, <4>1, <4>2 DEF VersionsAreUnique
      <4> QED BY <3>2, <3>3, <4>1, <4>2, <4>3
    <3> QED BY <2>4, <3>4, <3>5 DEF LookupHit
  <2> QED BY <2>2, <2>3, <2>4
<1> QED
  BY <1>1, FirewallInitInv, FirewallNextInv, VersionsUniqueInv, PTL
  DEF Spec, PassesAreAllowed

-----------------------------------------------------------------------------
(* One caller.  Calls then follow each other, each reads the clock after    *)
(* the last one, and an entry is never older than the slot that leads to it.*)

Early(cs, heap) ==
    \A p \in DOMAIN cs : \E s \in heap : s.packet = p /\ s.time <= cs[p].expires

EarlySlots == Early(conns, expiry_heap)

CallsAreInThePast == \A t \in Threads : task[t].pc # "idle" => task[t].now <= clock

\* No entry is from later than the call in progress.
EntriesAreInThePast ==
    \A p \in DOMAIN conns :
        /\ conns[p].expires <= clock + Timeout[p]
        /\ \A t \in Threads :
              task[t].pc # "idle" => conns[p].expires <= task[t].now + Timeout[p]

SingleInv == EarlySlots /\ CallsAreInThePast /\ EntriesAreInThePast

\* A purge leaves every flow a slot no later than its expiry.
LEMMA PurgeEarly ==
    ASSUME NEW cs, NEW heap, NEW now \in Nat,
           IsConns(cs), heap \subseteq Slots, Early(cs, heap)
    PROVE  Early(PurgedConns(cs, heap, now), PurgedHeap(cs, heap, now))
<1> DEFINE left == PurgedConns(cs, heap, now)
           slots == PurgedHeap(cs, heap, now)
<1> SUFFICES ASSUME NEW p \in DOMAIN left
             PROVE  \E s \in slots : s.packet = p /\ s.time <= left[p].expires
  BY DEF Early
<1>1. p \in DOMAIN cs /\ left[p] = cs[p] /\ p \notin Expired(cs, heap, now)
  BY DEF PurgedConns
<1>2. PICK s \in heap : s.packet = p /\ s.time <= cs[p].expires
  BY <1>1 DEF Early
<1>3. s \in Slots /\ s.time \in Nat /\ cs[p].expires \in Nat
  BY <1>1 DEF Slots, IsConns, Entries
<1>4. CASE s.time > now
  BY <1>1, <1>2, <1>4 DEF PurgedHeap
<1>5. CASE s.time <= now
  <2>1. cs[p].expires > now
    BY <1>1, <1>2, <1>3, <1>5 DEF Expired
  <2> DEFINE r == [s EXCEPT !.time = cs[s.packet].expires]
  <2>2. r \in slots
    BY <1>1, <1>2, <1>5, <2>1 DEF PurgedHeap
  <2>3. r.packet = p /\ r.time = cs[p].expires
    BY <1>2, <1>3 DEF Slots
  <2>4. r.time <= left[p].expires
    <3> HIDE DEF r
    <3> QED BY <1>1, <1>3, <2>3
  <2> HIDE DEF r, slots, left
  <2> QED BY <2>2, <2>3, <2>4
<1> QED BY <1>3, <1>4, <1>5

\* What a locked section works on: the entries it finds there are those of the
\* table.
LEMMA LiveIs ==
    ASSUME FirewallInv, SingleInv, NEW t \in Threads, task[t].pc \in {"lookup", "check"}
    PROVE  /\ task[t].now \in Nat /\ task[t].now <= clock /\ clock \in Nat
           /\ task[t].packet \in Packets /\ Timeout[task[t].packet] \in Nat
           /\ \A incoming : EntryFor(t, incoming).expires = task[t].now + Timeout[task[t].packet]
           /\ Early(Live(t), LiveHeap(t))
           /\ \A q \in DOMAIN Live(t) : q \in DOMAIN conns /\ Live(t)[q] = conns[q]
           /\ \A q \in DOMAIN conns : /\ q \in Packets
                                      /\ conns[q].expires \in Nat
                                      /\ Timeout[q] \in Nat
                                      /\ conns[q].expires <= task[t].now + Timeout[q]
                                      /\ conns[q].expires <= clock + Timeout[q]
<1>1. task[t] \in RuledTasks
  BY TaskTypes DEF FirewallInv
<1>2. task[t].now \in Nat /\ task[t].packet \in Packets
  BY <1>1 DEF RuledTasks
<1>3. IsConns(conns) /\ expiry_heap \subseteq Slots /\ clock \in Nat
  BY DEF FirewallInv, TypeOK
<1>4. Early(Live(t), LiveHeap(t))
  BY <1>2, <1>3, PurgeEarly DEF SingleInv, EarlySlots, Live, LiveHeap
<1>5. \A q \in DOMAIN Live(t) : q \in DOMAIN conns /\ Live(t)[q] = conns[q]
  BY DEF Live, PurgedConns
<1>6. \A q \in DOMAIN conns : q \in Packets /\ conns[q].expires \in Nat /\ Timeout[q] \in Nat
  BY <1>3, FirewallAssumption DEF IsConns, Entries
<1>7. task[t].now <= clock
  BY DEF SingleInv, CallsAreInThePast
<1>8. \A q \in DOMAIN conns : /\ conns[q].expires <= task[t].now + Timeout[q]
                              /\ conns[q].expires <= clock + Timeout[q]
  BY DEF SingleInv, EntriesAreInThePast
<1>9. \A incoming : EntryFor(t, incoming).expires = task[t].now + Timeout[task[t].packet]
  BY DEF EntryFor
<1> QED BY <1>2, <1>3, <1>4, <1>5, <1>6, <1>7, <1>8, <1>9, FirewallAssumption

\* A locked section that leaves each entry as it was, or as the call writes it,
\* and every flow a slot in time.
LEMMA SectionSingle ==
    ASSUME FirewallInv, SingleInv, NEW t \in Threads, Threads = {t},
           task[t].pc \in {"lookup", "check"},
           Early(conns, expiry_heap)', UNCHANGED clock,
           task'[t].pc = "idle" \/ (task'[t].pc = "check" /\ task'[t].now = task[t].now),
           \A q \in DOMAIN conns' :
              \/ q \in DOMAIN conns /\ conns'[q] = conns[q]
              \/ q = task[t].packet /\ conns'[q].expires = task[t].now + Timeout[q]
    PROVE  /\ SingleInv'
           /\ \A q \in DOMAIN conns \cap DOMAIN conns' : conns'[q].expires >= conns[q].expires
<1>1. CallsAreInThePast'
  <2>1. task'[t].pc # "idle" => task'[t].now <= clock
    BY LiveIs
  <2> QED BY <2>1 DEF CallsAreInThePast
<1>2. ASSUME NEW q \in DOMAIN conns'
      PROVE  /\ conns'[q].expires <= clock + Timeout[q]
             /\ conns'[q].expires <= task[t].now + Timeout[q]
  <2>1. CASE q \in DOMAIN conns /\ conns'[q] = conns[q]
    BY <2>1, LiveIs
  <2>2. CASE q = task[t].packet /\ conns'[q].expires = task[t].now + Timeout[q]
    <3>1. task[t].now \in Nat /\ task[t].now <= clock /\ clock \in Nat /\ Timeout[q] \in Nat
      BY <2>2, LiveIs
    <3> QED BY <2>2, <3>1
  <2> QED BY <2>1, <2>2
<1>3. EntriesAreInThePast'
  <2> SUFFICES ASSUME NEW q \in DOMAIN conns'
               PROVE  /\ conns'[q].expires <= clock' + Timeout[q]
                      /\ \A u \in Threads :
                            task'[u].pc # "idle" => conns'[q].expires <= task'[u].now + Timeout[q]
    BY DEF EntriesAreInThePast
  <2>1. task'[t].pc # "idle" => task'[t].now = task[t].now
    OBVIOUS
  <2> QED BY <1>2, <2>1
<1>4. ASSUME NEW q \in DOMAIN conns \cap DOMAIN conns'
      PROVE  conns'[q].expires >= conns[q].expires
  <2>1. conns[q].expires \in Nat /\ conns[q].expires <= task[t].now + Timeout[q]
    BY LiveIs
  <2>2. CASE conns'[q] = conns[q]
    BY <2>1, <2>2
  <2>3. CASE conns'[q].expires = task[t].now + Timeout[q]
    <3>1. task[t].now + Timeout[q] \in Nat
      BY LiveIs
    <3> QED BY <2>1, <2>3, <3>1
  <2> QED BY <2>2, <2>3
<1> QED BY <1>1, <1>3, <1>4 DEF SingleInv, EarlySlots

LEMMA SingleStep ==
    ASSUME NEW t, Threads = {t}, FirewallInv, SingleInv, [Next]_vars
    PROVE  /\ SingleInv'
           /\ \A q \in DOMAIN conns \cap DOMAIN conns' : conns'[q].expires >= conns[q].expires
<1> DEFINE Grows == \A q \in DOMAIN conns \cap DOMAIN conns' :
                       conns'[q].expires >= conns[q].expires
<1>1. /\ clock \in Nat
      /\ \A q \in DOMAIN conns : conns[q].expires \in Nat /\ Timeout[q] \in Nat
      /\ task \in [Threads -> IdleTasks \cup CalledTasks \cup RuledTasks]
  BY FirewallAssumption DEF FirewallInv, TypeOK, IsConns, Entries
<1>2. conns' = conns => Grows
  BY <1>1
<1>3. CASE UNCHANGED vars
  BY <1>2, <1>3 DEF vars, SingleInv, EarlySlots, Early, CallsAreInThePast, EntriesAreInThePast
<1>4. CASE \E r \in RuleSets : Reload(r)
  BY <1>2, <1>4
  DEF Reload, SingleInv, EarlySlots, Early, CallsAreInThePast, EntriesAreInThePast
<1>5. CASE Tick
  <2>1. clock' = clock + 1 /\ UNCHANGED <<conns, expiry_heap, task>>
    BY <1>5 DEF Tick
  <2>2. EarlySlots'
    BY <2>1 DEF SingleInv, EarlySlots, Early
  <2>3. CallsAreInThePast'
    <3> SUFFICES ASSUME task[t].pc # "idle" PROVE task[t].now <= clock'
      BY <2>1 DEF CallsAreInThePast
    <3>1. task[t].now <= clock
      BY DEF SingleInv, CallsAreInThePast
    <3>2. task[t].now \in Nat
      BY <1>1 DEF IdleTasks, CalledTasks, RuledTasks
    <3> QED BY <1>1, <2>1, <3>1, <3>2
  <2>4. EntriesAreInThePast'
    <3> SUFFICES ASSUME NEW q \in DOMAIN conns
                 PROVE  conns[q].expires <= (clock + 1) + Timeout[q]
      BY <2>1 DEF SingleInv, EntriesAreInThePast
    <3>1. conns[q].expires <= clock + Timeout[q]
      BY DEF SingleInv, EntriesAreInThePast
    <3> QED BY <1>1, <3>1
  <2> QED BY <1>2, <2>1, <2>2, <2>3, <2>4 DEF SingleInv
<1>6. ASSUME NEW p \in Packets, NEW incoming \in BOOLEAN, NEW remote \in Peers,
             Call(t, p, incoming, remote)
      PROVE  SingleInv' /\ Grows
  <2>1. UNCHANGED <<conns, expiry_heap, clock>>
    BY <1>6 DEF Call
  <2>2. task'[t].now = clock
    BY <1>1, <1>6 DEF Call
  <2>3. EarlySlots'
    BY <2>1 DEF SingleInv, EarlySlots, Early
  <2>4. CallsAreInThePast' /\ EntriesAreInThePast'
    BY <1>1, <2>1, <2>2 DEF SingleInv, CallsAreInThePast, EntriesAreInThePast
  <2> QED BY <1>2, <2>1, <2>3, <2>4 DEF SingleInv
<1>7. CASE ReadRules(t)
  <2>1. UNCHANGED <<conns, expiry_heap, clock>> /\ task[t].pc # "idle"
    BY <1>7 DEF ReadRules
  <2>2. task'[t].now = task[t].now
    BY <1>1, <1>7 DEF ReadRules
  <2>3. EarlySlots'
    BY <2>1 DEF SingleInv, EarlySlots, Early
  <2>4. CallsAreInThePast' /\ EntriesAreInThePast'
    BY <1>1, <2>1, <2>2 DEF SingleInv, CallsAreInThePast, EntriesAreInThePast
  <2> QED BY <1>2, <2>1, <2>3, <2>4 DEF SingleInv
<1>8. CASE Drop(t)
  <2>1. UNCHANGED <<conns, expiry_heap, clock>>
    BY <1>8 DEF Drop
  <2>2. task'[t].pc = "idle"
    BY <1>1, <1>8 DEF Drop, Idle
  <2>3. EarlySlots'
    BY <2>1 DEF SingleInv, EarlySlots, Early
  <2>4. CallsAreInThePast' /\ EntriesAreInThePast'
    BY <1>1, <2>1, <2>2 DEF SingleInv, CallsAreInThePast, EntriesAreInThePast
  <2> QED BY <1>2, <2>1, <2>3, <2>4 DEF SingleInv
<1>9. CASE LookupHit(t)
  <2> DEFINE p == task[t].packet
             e == EntryFor(t, Live(t)[p].incoming)
  <2>1. /\ task[t].pc = "lookup" /\ UNCHANGED clock /\ p \in DOMAIN Live(t)
        /\ conns' = Recorded(Live(t), p, e)
        /\ expiry_heap' = LiveHeap(t)
    BY <1>9 DEF LookupHit
  <2>2. task'[t].pc = "idle"
    BY <1>1, <1>9 DEF LookupHit, Idle
  <2>3. DOMAIN conns' = DOMAIN Live(t) /\ e.expires = task[t].now + Timeout[p]
    BY <2>1, LiveIs DEF Recorded
  <2>4. \A q \in DOMAIN conns' : conns'[q] = IF q = p THEN e ELSE Live(t)[q]
    BY <2>1 DEF Recorded
  <2>5. Early(conns', expiry_heap')
    <3> HIDE DEF e
    <3> SUFFICES ASSUME NEW q \in DOMAIN conns'
                 PROVE  \E s \in LiveHeap(t) : s.packet = q /\ s.time <= conns'[q].expires
      BY <2>1 DEF Early
    <3>1. PICK s \in LiveHeap(t) : s.packet = q /\ s.time <= Live(t)[q].expires
      BY <2>1, <2>3, LiveIs DEF Early
    <3>2. s.time \in Nat
      <4>1. LiveHeap(t) \subseteq Slots
        BY <2>1, LiveIs, PurgeKeeps
        DEF LiveHeap, FirewallInv, TypeOK, FlowsAreScheduled, HasSlots
      <4> QED BY <4>1 DEF Slots
    <3>3. /\ Live(t)[q].expires \in Nat
          /\ Live(t)[q].expires <= task[t].now + Timeout[q]
          /\ task[t].now + Timeout[q] \in Nat
      BY <2>1, <2>3, LiveIs
    <3>4. CASE q = p
      BY <2>3, <2>4, <3>1, <3>2, <3>3, <3>4
    <3>5. CASE q # p
      BY <2>4, <3>1, <3>5
    <3> QED BY <3>4, <3>5
  <2>6. \A q \in DOMAIN conns' :
           \/ q \in DOMAIN conns /\ conns'[q] = conns[q]
           \/ q = p /\ conns'[q].expires = task[t].now + Timeout[q]
    <3> HIDE DEF e
    <3> QED BY <2>1, <2>3, <2>4, LiveIs
  <2> QED BY <2>1, <2>2, <2>5, <2>6, SectionSingle
<1>10. CASE LookupMiss(t)
  <2> DEFINE p == task[t].packet
  <2>1. /\ task[t].pc = "lookup" /\ UNCHANGED clock
        /\ conns' = Removed(Live(t), p)
        /\ expiry_heap' = LiveHeap(t)
    BY <1>10 DEF LookupMiss
  <2>2. task'[t].pc = "check" /\ task'[t].now = task[t].now
    <3>1. task[t] \in RuledTasks
      BY <2>1, TaskTypes DEF FirewallInv
    <3> QED BY <1>1, <1>10, <3>1 DEF LookupMiss, RuledTasks
  <2>3. \A q \in DOMAIN conns' : q \in DOMAIN Live(t) /\ conns'[q] = Live(t)[q]
    BY <2>1 DEF Removed
  <2>4. Early(conns', expiry_heap')
    BY <2>1, <2>3, LiveIs DEF Early
  <2>5. \A q \in DOMAIN conns' : q \in DOMAIN conns /\ conns'[q] = conns[q]
    BY <2>1, <2>3, LiveIs
  <2> QED BY <2>1, <2>2, <2>4, <2>5, SectionSingle
<1>11. CASE Admit(t)
  <2> DEFINE p == task[t].packet
             e == EntryFor(t, task[t].incoming)
  <2>1. /\ task[t].pc = "check" /\ UNCHANGED clock
        /\ conns' = Recorded(conns, p, e)
        /\ expiry_heap' = Scheduled(conns, expiry_heap, p, e.expires)
    BY <1>11 DEF Admit
  <2>2. task'[t].pc = "idle"
    BY <1>1, <1>11 DEF Admit, Idle
  <2>3. DOMAIN conns' = DOMAIN conns \cup {p} /\ e.expires = task[t].now + Timeout[p]
    BY <2>1, LiveIs DEF Recorded
  <2>4. \A q \in DOMAIN conns' : conns'[q] = IF q = p THEN e ELSE conns[q]
    BY <2>1 DEF Recorded
  <2> HIDE DEF e
  <2>5. Early(conns', expiry_heap')
    <3> SUFFICES ASSUME NEW q \in DOMAIN conns'
                 PROVE  \E s \in expiry_heap' : s.packet = q /\ s.time <= conns'[q].expires
      BY DEF Early
    <3>1. expiry_heap \subseteq expiry_heap'
      BY <2>1 DEF Scheduled
    <3>2. e.expires \in Nat
      BY <2>1, <2>3, LiveIs
    <3>3. CASE q \in DOMAIN conns
      <4>1. PICK s \in expiry_heap : s.packet = q /\ s.time <= conns[q].expires
        BY <3>3 DEF SingleInv, EarlySlots, Early
      <4>2. s.time \in Nat
        BY DEF FirewallInv, TypeOK, Slots
      <4>3. /\ conns[q].expires \in Nat
            /\ conns[q].expires <= task[t].now + Timeout[q]
        BY <2>1, <3>3, LiveIs
      <4>4. CASE q = p
        BY <2>3, <2>4, <3>1, <3>2, <4>1, <4>2, <4>3, <4>4
      <4>5. CASE q # p
        BY <2>4, <3>1, <4>1, <4>5
      <4> QED BY <4>4, <4>5
    <3>4. CASE q \notin DOMAIN conns
      <4>1. q = p
        BY <2>3, <3>4
      <4>2. \E i : [id |-> i, time |-> e.expires, packet |-> p] \in expiry_heap'
        <5> DEFINE j == CHOOSE i \in UnusedIds(expiry_heap) : TRUE
        <5>1. expiry_heap' = expiry_heap \cup {[id |-> j, time |-> e.expires, packet |-> p]}
          BY <2>1, <3>4, <4>1 DEF Scheduled
        <5> HIDE DEF j
        <5> QED BY <5>1
      <4>3. PICK i : [id |-> i, time |-> e.expires, packet |-> p] \in expiry_heap'
        BY <4>2
      <4>4. e.expires <= conns'[q].expires
        BY <2>4, <3>2, <4>1
      <4> QED BY <4>1, <4>3, <4>4
    <3> QED BY <3>3, <3>4
  <2>6. \A q \in DOMAIN conns' :
           \/ q \in DOMAIN conns /\ conns'[q] = conns[q]
           \/ q = p /\ conns'[q].expires = task[t].now + Timeout[q]
    BY <2>3, <2>4
  <2> QED BY <2>1, <2>2, <2>5, <2>6, SectionSingle
<1> QED BY <1>3, <1>4, <1>5, <1>6, <1>7, <1>8, <1>9, <1>10, <1>11 DEF Next, Evaluate

LEMMA SingleInit == Init => SingleInv
BY DEF Init, SingleInv, EarlySlots, Early, CallsAreInThePast, EntriesAreInThePast, Idle

\* With one caller, whatever it records, refreshes, removes and reloads, a purge
\* leaves no entry whose expiry has come (conntrack.rs:39-40): the slots through
\* which the heap finds entries are never too late.  (With two callers one may
\* write an older time than the other has: run firewall_stale_clock.)
THEOREM FirewallPurgeRemovesExpired ==
    ASSUME NEW t, Threads = {t}
    PROVE  Spec => []PurgeRemovesExpired
<1>1. FirewallInv /\ SingleInv => PurgeRemovesExpired
  <2> SUFFICES ASSUME FirewallInv, SingleInv,
                      NEW p \in DOMAIN PurgedConns(conns, expiry_heap, clock)
               PROVE  PurgedConns(conns, expiry_heap, clock)[p].expires > clock
    BY DEF PurgeRemovesExpired
  <2>1. /\ p \in DOMAIN conns
        /\ PurgedConns(conns, expiry_heap, clock)[p] = conns[p]
        /\ p \notin Expired(conns, expiry_heap, clock)
    BY DEF PurgedConns
  <2>2. PICK s \in expiry_heap : s.packet = p /\ s.time <= conns[p].expires
    BY <2>1 DEF SingleInv, EarlySlots, Early
  <2>3. s.time \in Nat /\ conns[p].expires \in Nat /\ clock \in Nat
    BY <2>1 DEF FirewallInv, TypeOK, Slots, IsConns, Entries
  <2>4. conns[p].expires <= clock => s.time <= clock
    BY <2>2, <2>3
  <2>5. ~(conns[p].expires <= clock)
    BY <2>1, <2>2, <2>4 DEF Expired
  <2> QED BY <2>1, <2>3, <2>5
<1>2. FirewallInv /\ SingleInv /\ [Next]_vars => SingleInv'
  BY SingleStep
<1> QED BY <1>1, <1>2, SingleInit, FirewallInitInv, FirewallNextInv, PTL DEF Spec

\* With one caller, recording a tracked flow again never brings its expiry
\* forward (conntrack.rs:72-74).
THEOREM FirewallRefreshExtends ==
    ASSUME NEW t, Threads = {t}
    PROVE  Spec => RefreshExtends
<1> DEFINE Step == \A p \in DOMAIN conns \cap DOMAIN conns' :
                      conns'[p].expires >= conns[p].expires
<1>1. FirewallInv /\ SingleInv /\ [Next]_vars => SingleInv' /\ [Step]_vars
  BY SingleStep
<1> QED
  BY <1>1, SingleInit, FirewallInitInv, FirewallNextInv, PTL DEF Spec, RefreshExtends

-----------------------------------------------------------------------------
(* The loop of purge_expired.  Every pass keeps what the closed form gives  *)
(* for the table it leaves, and one slot fewer is due after it; with no     *)
(* slot due the closed form is the table itself.                            *)

IsFcn(cs) == cs = [p \in DOMAIN cs |-> cs[p]]
Due(heap, now) == {s \in heap : s.time <= now}

\* Every nonempty set of naturals has a least element.
LEMMA LeastNat ==
    ASSUME NEW T, T \subseteq Nat, T # {}
    PROVE  \E x \in T : \A y \in T : x <= y
<1>1. PICK R : IsWellFoundedOn(R, Nat) /\ \A x, y \in Nat : y < x => <<y, x>> \in R
  <2> DEFINE S == OpToRel(<, Nat)
  <2>1. IsWellFoundedOn(S, Nat)
    BY NatLessThanWellFounded
  <2>2. \A x, y \in Nat : y < x => <<y, x>> \in S
    BY DEF OpToRel
  <2> HIDE DEF S
  <2> QED BY <2>1, <2>2
<1>2. PICK x \in T : \A y \in T : ~(<<y, x>> \in R)
  BY <1>1, WFMin
<1>3. ASSUME NEW y \in T PROVE x <= y
  <2>1. x \in Nat /\ y \in Nat
    OBVIOUS
  <2>2. ~(y < x)
    BY <1>1, <1>2, <2>1
  <2> QED BY <2>1, <2>2
<1> QED BY <1>3

\* A heap that is not empty has an earliest slot.
LEMMA EarliestIs ==
    ASSUME NEW heap, heap \subseteq Slots, heap # {}
    PROVE  LET s == CHOOSE x \in heap : \A y \in heap : x.time <= y.time
           IN  s \in heap /\ \A y \in heap : s.time <= y.time
<1> DEFINE T == {s.time : s \in heap}
<1>1. T \subseteq Nat /\ T # {}
  BY DEF Slots
<1>2. PICK m \in T : \A y \in T : m <= y
  <2> HIDE DEF T
  <2> QED BY <1>1, LeastNat
<1>3. PICK x \in heap : m = x.time
  OBVIOUS
<1>4. \A y \in heap : x.time <= y.time
  BY <1>2, <1>3
<1> QED BY <1>4

LEMMA NothingDue ==
    ASSUME NEW cs, NEW heap, NEW now \in Nat, IsFcn(cs), heap \subseteq Slots, Due(heap, now) = {}
    PROVE  PurgedConns(cs, heap, now) = cs /\ PurgedHeap(cs, heap, now) = heap
<1>1. \A s \in heap : ~(s.time <= now) /\ s.time > now
  BY DEF Due, Slots
<1>2. Expired(cs, heap, now) = {}
  BY <1>1 DEF Expired
<1>3. PurgedConns(cs, heap, now) = cs
  BY <1>2 DEF PurgedConns, IsFcn
<1>4. PurgedHeap(cs, heap, now) = heap
  BY <1>1 DEF PurgedHeap
<1> QED BY <1>3, <1>4

\* The slot a pass pops is discarded, of a flow that has gone.
LEMMA PassGone ==
    ASSUME NEW cs, NEW heap, NEW now \in Nat, IsConns(cs), heap \subseteq Slots,
           NEW s \in heap, s.time <= now, s.packet \notin DOMAIN cs
    PROVE  /\ PurgedConns(cs, heap \ {s}, now) = PurgedConns(cs, heap, now)
           /\ PurgedHeap(cs, heap \ {s}, now) = PurgedHeap(cs, heap, now)
<1>1. Expired(cs, heap \ {s}, now) = Expired(cs, heap, now)
  BY DEF Expired
<1>2. s.time \in Nat
  BY DEF Slots
<1>3. {x \in heap \ {s} : x.time > now} = {x \in heap : x.time > now}
  BY <1>2
<1>4. {x \in heap \ {s} : x.time <= now /\ x.packet \in DOMAIN cs /\ cs[x.packet].expires > now}
       = {x \in heap : x.time <= now /\ x.packet \in DOMAIN cs /\ cs[x.packet].expires > now}
  OBVIOUS
<1> QED BY <1>1, <1>3, <1>4 DEF PurgedConns, PurgedHeap

\* The slot a pass pops leads to a flow that has expired.
LEMMA PassExpired ==
    ASSUME NEW cs, NEW heap, NEW now \in Nat, IsConns(cs), heap \subseteq Slots,
           NEW s \in heap, s.time <= now, s.packet \in DOMAIN cs, cs[s.packet].expires <= now,
           NEW left, left = [p \in DOMAIN cs \ {s.packet} |-> cs[p]]
    PROVE  /\ PurgedConns(left, heap \ {s}, now) = PurgedConns(cs, heap, now)
           /\ PurgedHeap(left, heap \ {s}, now) = PurgedHeap(cs, heap, now)
<1>1. DOMAIN left = DOMAIN cs \ {s.packet} /\ \A p \in DOMAIN left : left[p] = cs[p]
  OBVIOUS
<1>2. s.packet \in Expired(cs, heap, now)
  BY DEF Expired
<1>3. \A p \in DOMAIN left : p \in Expired(left, heap \ {s}, now) <=> p \in Expired(cs, heap, now)
  BY <1>1 DEF Expired
<1>4. DOMAIN left \ Expired(left, heap \ {s}, now) = DOMAIN cs \ Expired(cs, heap, now)
  BY <1>1, <1>2, <1>3
<1>5. PurgedConns(left, heap \ {s}, now) = PurgedConns(cs, heap, now)
  BY <1>1, <1>4 DEF PurgedConns
<1>6. s.time \in Nat /\ cs[s.packet].expires \in Nat
  BY DEF Slots, IsConns, Entries
<1>7. {x \in heap \ {s} : x.time > now} = {x \in heap : x.time > now}
  BY <1>6
<1> DEFINE L == {x \in heap \ {s} : /\ x.time <= now
                                     /\ x.packet \in DOMAIN left
                                     /\ left[x.packet].expires > now}
           C == {x \in heap : /\ x.time <= now
                              /\ x.packet \in DOMAIN cs
                              /\ cs[x.packet].expires > now}
<1>8. ~(cs[s.packet].expires > now)
  BY <1>6
<1>9. L = C
  BY <1>1, <1>8
<1>10. \A x \in C : left[x.packet] = cs[x.packet]
  BY <1>1, <1>8
<1>11. {[x EXCEPT !.time = left[x.packet].expires] : x \in L}
         = {[x EXCEPT !.time = cs[x.packet].expires] : x \in C}
  <2> HIDE DEF L, C
  <2> QED BY <1>9, <1>10
<1> QED BY <1>5, <1>7, <1>11 DEF PurgedHeap

\* The slot a pass pops leads to a flow refreshed since: it is pushed back.
LEMMA PassRefreshed ==
    ASSUME NEW cs, NEW heap, NEW now \in Nat, IsConns(cs), heap \subseteq Slots,
           NEW s \in heap, s.time <= now, s.packet \in DOMAIN cs, cs[s.packet].expires > now,
           NEW r, r = [s EXCEPT !.time = cs[s.packet].expires]
    PROVE  /\ PurgedConns(cs, (heap \ {s}) \cup {r}, now) = PurgedConns(cs, heap, now)
           /\ PurgedHeap(cs, (heap \ {s}) \cup {r}, now) = PurgedHeap(cs, heap, now)
<1>1. /\ s.time \in Nat /\ cs[s.packet].expires \in Nat
      /\ r.packet = s.packet /\ r.time = cs[s.packet].expires
  BY DEF Slots, IsConns, Entries
<1>2. ~(r.time <= now) /\ r.time > now /\ ~(s.time > now) /\ ~(cs[s.packet].expires <= now)
  BY <1>1
<1> DEFINE h == (heap \ {s}) \cup {r}
<1>3. \A x : x \in h <=> (x \in heap /\ x # s) \/ x = r
  OBVIOUS
<1>4. Expired(cs, h, now) = Expired(cs, heap, now)
  <2> HIDE DEF h
  <2> QED BY <1>1, <1>2, <1>3 DEF Expired
<1> DEFINE Later(x) == x.time > now
           Alive(x) == x.time <= now /\ x.packet \in DOMAIN cs /\ cs[x.packet].expires > now
           Again(x) == [x EXCEPT !.time = cs[x.packet].expires]
<1>5. PurgedHeap(cs, h, now) = {x \in h : Later(x)} \cup {Again(x) : x \in {y \in h : Alive(y)}}
  BY DEF PurgedHeap
<1>6. PurgedHeap(cs, heap, now)
        = {x \in heap : Later(x)} \cup {Again(x) : x \in {y \in heap : Alive(y)}}
  BY DEF PurgedHeap
<1>7. Later(r) /\ ~Alive(r) /\ ~Later(s) /\ Alive(s) /\ Again(s) = r
  BY <1>2
<1> HIDE DEF Later, Alive, Again, h
<1>8. \A x : x \in PurgedHeap(cs, h, now) <=>
               (x \in h /\ Later(x)) \/ \E y \in h : Alive(y) /\ x = Again(y)
  BY <1>5
<1>9. \A x : x \in PurgedHeap(cs, heap, now) <=>
               (x \in heap /\ Later(x)) \/ \E y \in heap : Alive(y) /\ x = Again(y)
  BY <1>6
<1>10. ASSUME NEW x \in PurgedHeap(cs, h, now) PROVE x \in PurgedHeap(cs, heap, now)
  BY <1>3, <1>7, <1>8, <1>9
<1>11. ASSUME NEW x \in PurgedHeap(cs, heap, now) PROVE x \in PurgedHeap(cs, h, now)
  BY <1>3, <1>7, <1>8, <1>9
<1>12. PurgedHeap(cs, h, now) = PurgedHeap(cs, heap, now)
  BY <1>10, <1>11
<1> QED BY <1>4, <1>12 DEF PurgedConns, h

\* One pass: the closed form of what it leaves is the closed form of what it
\* found, and if a slot was due, one fewer is.
LEMMA PassKeeps ==
    ASSUME NEW cs, NEW heap, NEW now \in Nat, IsConns(cs), IsFcn(cs), heap \subseteq Slots,
           NEW k, k = PurgePass(cs, heap, now)
    PROVE  /\ IsConns(k.conns) /\ IsFcn(k.conns) /\ k.heap \subseteq Slots
           /\ k = [conns |-> k.conns, heap |-> k.heap]
           /\ PurgedConns(k.conns, k.heap, now) = PurgedConns(cs, heap, now)
           /\ PurgedHeap(k.conns, k.heap, now) = PurgedHeap(cs, heap, now)
           /\ \/ Due(heap, now) = {} /\ Due(k.heap, now) = {}
              \/ \E s \in Due(heap, now) : Due(k.heap, now) = Due(heap, now) \ {s}
<1> DEFINE s == CHOOSE x \in heap : \A y \in heap : x.time <= y.time
<1>1. CASE heap = {} \/ s.time > now
  <2>1. k = [conns |-> cs, heap |-> heap]
    BY <1>1 DEF PurgePass
  <2>2. Due(heap, now) = {}
    <3>1. CASE heap = {}
      BY <3>1 DEF Due
    <3>2. CASE heap # {}
      <4>1. s \in heap /\ \A y \in heap : s.time <= y.time
        BY <3>2, EarliestIs
      <4>2. s.time > now
        BY <1>1, <3>2
      <4> HIDE DEF s
      <4>3. \A y \in heap : y.time \in Nat
        BY DEF Slots
      <4>4. \A y \in heap : ~(y.time <= now)
        BY <4>1, <4>2, <4>3
      <4> QED BY <4>4 DEF Due
    <3> QED BY <3>1, <3>2
  <2> QED BY <2>1, <2>2
<1>2. CASE ~(heap = {} \/ s.time > now)
  <2>1. s \in heap
    BY <1>2, EarliestIs
  <2>2. k = IF s.packet \notin DOMAIN cs THEN [conns |-> cs, heap |-> heap \ {s}]
            ELSE IF cs[s.packet].expires <= now
            THEN [conns |-> [p \in DOMAIN cs \ {s.packet} |-> cs[p]], heap |-> heap \ {s}]
            ELSE [conns |-> cs,
                  heap |-> (heap \ {s}) \cup {[s EXCEPT !.time = cs[s.packet].expires]}]
    BY <1>2 DEF PurgePass
  <2>3. PICK x \in heap : x = s
    BY <2>1
  <2>4. ~(x.time > now)
    BY <1>2, <2>3
  <2>5. k = IF x.packet \notin DOMAIN cs THEN [conns |-> cs, heap |-> heap \ {x}]
            ELSE IF cs[x.packet].expires <= now
            THEN [conns |-> [p \in DOMAIN cs \ {x.packet} |-> cs[p]], heap |-> heap \ {x}]
            ELSE [conns |-> cs,
                  heap |-> (heap \ {x}) \cup {[x EXCEPT !.time = cs[x.packet].expires]}]
    BY <2>2, <2>3
  <2> HIDE DEF s
  <2>6. x \in Slots /\ x.time \in Nat /\ x.time <= now /\ x \in Due(heap, now)
    BY <2>4 DEF Slots, Due
  <2>7. Due(heap \ {x}, now) = Due(heap, now) \ {x}
    BY DEF Due
  <2>8. CASE x.packet \notin DOMAIN cs
    <3>1. k = [conns |-> cs, heap |-> heap \ {x}]
      BY <2>5, <2>8
    <3>2. /\ PurgedConns(cs, heap \ {x}, now) = PurgedConns(cs, heap, now)
          /\ PurgedHeap(cs, heap \ {x}, now) = PurgedHeap(cs, heap, now)
      BY <2>6, <2>8, PassGone
    <3>3. heap \ {x} \subseteq Slots
      OBVIOUS
    <3> QED BY <2>6, <2>7, <3>1, <3>2, <3>3
  <2>9. CASE x.packet \in DOMAIN cs /\ cs[x.packet].expires <= now
    <3>1. PICK left : left = [p \in DOMAIN cs \ {x.packet} |-> cs[p]]
      OBVIOUS
    <3>2. k = [conns |-> left, heap |-> heap \ {x}]
      BY <2>5, <2>9, <3>1
    <3>3. IsConns(left) /\ IsFcn(left)
      BY <3>1 DEF IsConns, IsFcn
    <3>4. /\ PurgedConns(left, heap \ {x}, now) = PurgedConns(cs, heap, now)
          /\ PurgedHeap(left, heap \ {x}, now) = PurgedHeap(cs, heap, now)
      BY <2>6, <2>9, <3>1, PassExpired
    <3> QED BY <2>6, <2>7, <3>2, <3>3, <3>4
  <2>10. CASE x.packet \in DOMAIN cs /\ ~(cs[x.packet].expires <= now)
    <3>1. PICK r : r = [x EXCEPT !.time = cs[x.packet].expires]
      OBVIOUS
    <3>2. k = [conns |-> cs, heap |-> (heap \ {x}) \cup {r}]
      BY <2>5, <2>10, <3>1
    <3>3. cs[x.packet].expires \in Nat /\ cs[x.packet].expires > now
      BY <2>10 DEF IsConns, Entries
    <3>4. r \in Slots /\ r.time = cs[x.packet].expires
      BY <2>6, <3>1, <3>3 DEF Slots
    <3>5. Due((heap \ {x}) \cup {r}, now) = Due(heap, now) \ {x}
      <4>1. ~(r.time <= now)
        BY <3>3, <3>4
      <4> QED BY <4>1 DEF Due
    <3>6. /\ PurgedConns(cs, (heap \ {x}) \cup {r}, now) = PurgedConns(cs, heap, now)
          /\ PurgedHeap(cs, (heap \ {x}) \cup {r}, now) = PurgedHeap(cs, heap, now)
      BY <2>6, <2>10, <3>1, <3>3, PassRefreshed
    <3>7. (heap \ {x}) \cup {r} \subseteq Slots
      BY <3>4
    <3> QED BY <2>6, <3>2, <3>5, <3>6, <3>7
  <2> QED BY <2>8, <2>9, <2>10
<1> QED BY <1>1, <1>2

\* f is what the first n passes of the loop give.
IsPasses(f, n, cs, heap, now) ==
    f = [i \in 0..n |-> IF i = 0 THEN [conns |-> cs, heap |-> heap]
                        ELSE PurgePass(f[i - 1].conns, f[i - 1].heap, now)]

LEMMA PassesExist ==
    ASSUME NEW cs, NEW heap, NEW now, NEW n \in Nat
    PROVE  \E f : IsPasses(f, n, cs, heap, now)
<1> DEFINE T == {m \in Nat : ~\E f : IsPasses(f, m, cs, heap, now)}
<1> SUFFICES ASSUME T # {} PROVE FALSE
  OBVIOUS
<1>1. PICK m \in T : \A y \in T : m <= y
  <2>1. T \subseteq Nat
    OBVIOUS
  <2> HIDE DEF T
  <2> QED BY <2>1, LeastNat
<1>2. m \in Nat /\ ~\E f : IsPasses(f, m, cs, heap, now)
  OBVIOUS
<1>3. CASE m = 0
  <2> DEFINE f == [i \in 0..0 |-> [conns |-> cs, heap |-> heap]]
  <2>1. \A i \in 0..0 : i = 0
    OBVIOUS
  <2>2. IsPasses(f, 0, cs, heap, now)
    BY <2>1 DEF IsPasses
  <2> QED BY <1>2, <1>3, <2>2
<1>4. CASE m # 0
  <2>1. PICK k \in Nat : m = k + 1
    <3>1. m - 1 \in Nat /\ m = (m - 1) + 1
      BY <1>2, <1>4
    <3> QED BY <3>1
  <2>2. PICK f : IsPasses(f, k, cs, heap, now)
    <3>1. ~(m <= k)
      BY <2>1
    <3>2. k \notin T
      BY <1>1, <3>1
    <3> QED BY <3>2
  <2> DEFINE g == [i \in 0..m |-> IF i = m THEN PurgePass(f[k].conns, f[k].heap, now) ELSE f[i]]
  <2>3. \A i \in 0..k : f[i] = IF i = 0 THEN [conns |-> cs, heap |-> heap]
                               ELSE PurgePass(f[i - 1].conns, f[i - 1].heap, now)
    BY <2>2 DEF IsPasses
  <2>4. ASSUME NEW i \in 0..m
        PROVE  g[i] = IF i = 0 THEN [conns |-> cs, heap |-> heap]
                      ELSE PurgePass(g[i - 1].conns, g[i - 1].heap, now)
    <3>1. CASE i = 0
      <4>1. 0 \in 0..k /\ 0 # m
        BY <1>4
      <4> QED BY <2>3, <3>1, <4>1
    <3>2. CASE i = m
      <4>1. i # 0 /\ i - 1 = k /\ k \in 0..m /\ k # m
        BY <1>2, <1>4, <2>1, <3>2
      <4>2. g[k] = f[k]
        BY <4>1
      <4>3. g[i] = PurgePass(f[k].conns, f[k].heap, now)
        BY <3>2
      <4> HIDE DEF g
      <4> QED BY <4>1, <4>2, <4>3
    <3>3. CASE i # 0 /\ i # m
      <4>1. i \in 0..k /\ i - 1 \in 0..m /\ i - 1 # m
        BY <1>2, <2>1, <3>3
      <4>2. g[i] = f[i] /\ g[i - 1] = f[i - 1]
        BY <3>3, <4>1
      <4> HIDE DEF g
      <4> QED BY <2>3, <3>3, <4>1, <4>2
    <3> QED BY <3>1, <3>2, <3>3
  <2>5. g = [i \in 0..m |-> g[i]]
    OBVIOUS
  <2> HIDE DEF g
  <2>6. IsPasses(g, m, cs, heap, now)
    BY <2>4, <2>5 DEF IsPasses
  <2> QED BY <1>2, <2>6
<1> QED BY <1>3, <1>4

LEMMA LoopIsPasses ==
    ASSUME NEW cs, NEW heap, NEW now, IsFiniteSet(heap)
    PROVE  \E f : /\ IsPasses(f, Cardinality(heap), cs, heap, now)
                  /\ PurgeLoop(cs, heap, now) = f[Cardinality(heap)]
<1>1. PICK n \in Nat : n = Cardinality(heap)
  BY FS_CardinalityType
<1> DEFINE f == CHOOSE g : IsPasses(g, n, cs, heap, now)
<1>2. IsPasses(f, n, cs, heap, now)
  BY PassesExist
<1>3. PurgeLoop(cs, heap, now) = f[n]
  BY <1>1 DEF PurgeLoop, IsPasses
<1> HIDE DEF f
<1> QED BY <1>1, <1>2, <1>3

\* purge_expired's loop leaves what the closed form says, whatever the table and
\* the heap (conntrack.rs:43-61).
LEMMA LoopIsClosedForm ==
    ASSUME NEW cs, NEW heap, NEW now \in Nat,
           IsConns(cs), IsFcn(cs), heap \subseteq Slots, IsFiniteSet(heap)
    PROVE  /\ PurgeLoop(cs, heap, now).conns = PurgedConns(cs, heap, now)
           /\ PurgeLoop(cs, heap, now).heap = PurgedHeap(cs, heap, now)
<1>1. PICK n \in Nat : n = Cardinality(heap)
  BY FS_CardinalityType
<1>2. PICK f : IsPasses(f, n, cs, heap, now) /\ PurgeLoop(cs, heap, now) = f[n]
  BY <1>1, LoopIsPasses
<1>3. \A i \in 0..n : f[i] = IF i = 0 THEN [conns |-> cs, heap |-> heap]
                             ELSE PurgePass(f[i - 1].conns, f[i - 1].heap, now)
  BY <1>2 DEF IsPasses
<1> DEFINE Good(i) ==
             /\ IsConns(f[i].conns) /\ IsFcn(f[i].conns) /\ f[i].heap \subseteq Slots
             /\ PurgedConns(f[i].conns, f[i].heap, now) = PurgedConns(cs, heap, now)
             /\ PurgedHeap(f[i].conns, f[i].heap, now) = PurgedHeap(cs, heap, now)
             /\ IsFiniteSet(Due(f[i].heap, now))
             /\ Cardinality(Due(f[i].heap, now)) <= n - i
           T == {m \in Nat : m <= n /\ ~Good(m)}
<1>4. Good(0)
  <2>1. f[0] = [conns |-> cs, heap |-> heap]
    BY <1>3
  <2>2. Due(heap, now) \in SUBSET heap
    BY DEF Due
  <2>3. IsFiniteSet(Due(heap, now)) /\ Cardinality(Due(heap, now)) <= n
    BY <1>1, <2>2, FS_Subset
  <2>4. n - 0 = n
    OBVIOUS
  <2> QED BY <2>1, <2>3, <2>4
<1>5. ASSUME NEW i \in Nat, i + 1 <= n, Good(i) PROVE Good(i + 1)
  <2> DEFINE c == f[i].conns
             h == f[i].heap
             k == f[i + 1]
  <2>1. k = PurgePass(c, h, now)
    <3>1. i + 1 \in 0..n /\ i + 1 # 0 /\ (i + 1) - 1 = i
      BY <1>5
    <3> QED BY <1>3, <3>1
  <2> HIDE DEF c, h, k
  <2>2. /\ IsConns(c) /\ IsFcn(c) /\ h \subseteq Slots
        /\ PurgedConns(c, h, now) = PurgedConns(cs, heap, now)
        /\ PurgedHeap(c, h, now) = PurgedHeap(cs, heap, now)
        /\ IsFiniteSet(Due(h, now))
        /\ Cardinality(Due(h, now)) <= n - i
    BY <1>5 DEF c, h
  <2>3. /\ IsConns(k.conns) /\ IsFcn(k.conns) /\ k.heap \subseteq Slots
        /\ PurgedConns(k.conns, k.heap, now) = PurgedConns(c, h, now)
        /\ PurgedHeap(k.conns, k.heap, now) = PurgedHeap(c, h, now)
        /\ \/ Due(h, now) = {} /\ Due(k.heap, now) = {}
           \/ \E s \in Due(h, now) : Due(k.heap, now) = Due(h, now) \ {s}
    BY <2>1, <2>2, PassKeeps
  <2>4. IsFiniteSet(Due(k.heap, now)) /\ Cardinality(Due(k.heap, now)) <= n - (i + 1)
    <3>1. CASE Due(k.heap, now) = {}
      <4>1. 0 <= n - (i + 1)
        BY <1>5
      <4> QED BY <3>1, <4>1, FS_EmptySet
    <3>2. CASE \E s \in Due(h, now) : Due(k.heap, now) = Due(h, now) \ {s}
      <4>1. PICK s \in Due(h, now) : Due(k.heap, now) = Due(h, now) \ {s}
        BY <3>2
      <4>2. PICK D : D = Due(h, now)
        OBVIOUS
      <4>3. IsFiniteSet(D \ {s}) /\ Cardinality(D \ {s}) = Cardinality(D) - 1
        BY <2>2, <4>1, <4>2, FS_RemoveElement
      <4>4. Cardinality(D) \in Nat /\ Cardinality(D) <= n - i
        BY <2>2, <4>2, FS_CardinalityType
      <4>5. Cardinality(D) - 1 <= n - (i + 1)
        BY <4>4
      <4> QED BY <4>1, <4>2, <4>3, <4>5
    <3> QED BY <2>3, <3>1, <3>2
  <2> QED BY <2>2, <2>3, <2>4 DEF k
<1>6. T = {}
  <2> SUFFICES ASSUME T # {} PROVE FALSE
    OBVIOUS
  <2>1. T \subseteq Nat /\ \A y : y \in T <=> (y \in Nat /\ y <= n /\ ~Good(y))
    OBVIOUS
  <2> HIDE DEF T, Good
  <2>2. PICK m \in T : \A y \in T : m <= y
    BY <2>1, LeastNat
  <2>3. m \in Nat /\ m <= n /\ ~Good(m)
    BY <2>1, <2>2
  <2>4. m # 0
    BY <1>4, <2>3
  <2>5. PICK i \in Nat : m = i + 1
    <3>1. m - 1 \in Nat /\ m = (m - 1) + 1
      BY <2>3, <2>4
    <3> QED BY <3>1
  <2>6. ~(m <= i) /\ i <= n /\ i + 1 <= n
    BY <2>3, <2>5
  <2>7. Good(i)
    BY <2>1, <2>2, <2>6
  <2> QED BY <1>5, <2>3, <2>5, <2>6, <2>7
<1>7. Good(n)
  <2> HIDE DEF Good
  <2> QED BY <1>6
<1>8. Due(f[n].heap, now) = {}
  <2>1. PICK D : D = Due(f[n].heap, now)
    OBVIOUS
  <2>2. IsFiniteSet(D) /\ Cardinality(D) \in Nat /\ Cardinality(D) <= n - n
    BY <1>7, <2>1, FS_CardinalityType
  <2>3. Cardinality(D) = 0
    BY <2>2
  <2> QED BY <2>1, <2>2, <2>3, FS_EmptySet
<1>9. /\ PurgedConns(f[n].conns, f[n].heap, now) = f[n].conns
      /\ PurgedHeap(f[n].conns, f[n].heap, now) = f[n].heap
  BY <1>7, <1>8, NothingDue
<1> QED BY <1>2, <1>7, <1>9

\* The table is a map and the heap is finite, as far as purge_expired's loop
\* needs it.
TableInv == IsFcn(conns) /\ IsFiniteSet(expiry_heap)

LEMMA PurgedFinite ==
    ASSUME NEW cs, NEW heap, NEW now, IsFiniteSet(heap)
    PROVE  IsFcn(PurgedConns(cs, heap, now)) /\ IsFiniteSet(PurgedHeap(cs, heap, now))
<1>1. IsFcn(PurgedConns(cs, heap, now))
  BY DEF IsFcn, PurgedConns
<1> DEFINE L == {s \in heap : s.time > now}
           C == {x \in heap : /\ x.time <= now
                              /\ x.packet \in DOMAIN cs
                              /\ cs[x.packet].expires > now}
           A == {[s EXCEPT !.time = cs[s.packet].expires] : s \in C}
           f == [s \in C |-> [s EXCEPT !.time = cs[s.packet].expires]]
<1>2. L \in SUBSET heap /\ C \in SUBSET heap
  OBVIOUS
<1>3. f \in Surjection(C, A)
  <2> HIDE DEF C
  <2> QED BY DEF Surjection
<1>4. PurgedHeap(cs, heap, now) = L \cup A
  BY DEF PurgedHeap
<1> HIDE DEF L, C, A, f
<1>5. IsFiniteSet(L) /\ IsFiniteSet(C)
  BY <1>2, FS_Subset
<1>6. IsFiniteSet(A)
  BY <1>3, <1>5, FS_Surjection
<1>7. IsFiniteSet(L \cup A)
  BY <1>5, <1>6, FS_Union
<1> QED BY <1>1, <1>4, <1>7

LEMMA TableStep == TableInv /\ [Next]_vars => TableInv'
<1> SUFFICES ASSUME TableInv, [Next]_vars PROVE TableInv'
  OBVIOUS
<1>1. CASE UNCHANGED <<conns, expiry_heap>>
  BY <1>1 DEF TableInv, IsFcn
<1>2. ASSUME NEW t \in Threads, LookupHit(t) \/ LookupMiss(t) PROVE TableInv'
  <2>1. IsFiniteSet(LiveHeap(t))
    BY PurgedFinite DEF TableInv, LiveHeap
  <2>2. expiry_heap' = LiveHeap(t) /\ IsFcn(conns')
    BY <1>2 DEF LookupHit, LookupMiss, Recorded, Removed, IsFcn
  <2> QED BY <2>1, <2>2 DEF TableInv
<1>3. ASSUME NEW t \in Threads, Admit(t) PROVE TableInv'
  <2>1. IsFcn(conns')
    BY <1>3 DEF Admit, Recorded, IsFcn
  <2>2. \/ expiry_heap' = expiry_heap
        \/ \E s : expiry_heap' = expiry_heap \cup {s}
    BY <1>3 DEF Admit, Scheduled
  <2>3. IsFiniteSet(expiry_heap')
    BY <2>2, FS_AddElement DEF TableInv
  <2> QED BY <2>1, <2>3 DEF TableInv
<1> QED
  BY <1>1, <1>2, <1>3 DEF Next, vars, Tick, Reload, Evaluate, Call, ReadRules, Drop

\* In every state any number of threads can reach, and for every clock value
\* they may purge with, the loop of purge_expired ends with the table and the
\* heap that Live and LiveHeap say: the atomic purge of the other theorems is
\* the loop of the code (conntrack.rs:43-61).
THEOREM FirewallPurgeIsClosedForm == Spec => []PurgeIsClosedForm
<1>1. FirewallInv /\ TableInv => PurgeIsClosedForm
  <2> SUFFICES ASSUME FirewallInv, TableInv, NEW now \in 0..clock
               PROVE  /\ PurgeLoop(conns, expiry_heap, now).conns
                            = PurgedConns(conns, expiry_heap, now)
                      /\ PurgeLoop(conns, expiry_heap, now).heap
                            = PurgedHeap(conns, expiry_heap, now)
    BY DEF PurgeIsClosedForm
  <2>1. now \in Nat /\ IsConns(conns) /\ expiry_heap \subseteq Slots
    BY DEF FirewallInv, TypeOK
  <2> QED BY <2>1, LoopIsClosedForm DEF TableInv
<1>2. Init => TableInv
  BY FS_EmptySet DEF Init, TableInv, IsFcn
<1> QED BY <1>1, <1>2, TableStep, FirewallInitInv, FirewallNextInv, PTL DEF Spec
=============================================================================
