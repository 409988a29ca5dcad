--------------------------- MODULE ListenerProofs ---------------------------
(***************************************************************************)
(* What leaves the listener, for any certificates, packets, rules and      *)
(* handshakes, with any number of packets.  A flow is recorded only with   *)
(* what it was opened for; from then on the flow, the task that carries    *)
(* the packet past evaluate and the packet that leaves keep that record,   *)
(* whatever the peer's certificate becomes meanwhile.                      *)
(***************************************************************************)
EXTENDS Listener, TLAPS

Parsed == {p \in Packets : p.parses}

\* Packet p may pass on a flow opened as o.
Allowed(p, o) == /\ p.local_addr \in Ours
                 /\ Given(o.cert, p.remote_addr)
                 /\ <<p, o.incoming>> \in Rules

\* A task between parse and peer_info, with what peer_info returned, and past
\* evaluate.
TaskOK(task) ==
    /\ task.at \in {"lookup", "connect", "peer"} =>
          /\ task = [at |-> task.at, packet |-> task.packet, peer |-> task.peer]
          /\ task.packet \in Parsed
    /\ task.at = "evaluate" => task.packet \in Parsed /\ task.cert \in Certs
    /\ task.at \in {"send", "write"} => Allowed(task.packet, task.opened)

ListenerInv ==
    /\ \A v \in DOMAIN peers : peers[v] \in Certs
    /\ inbox \in Seq([src : DOMAIN peers, packet : Packets])
    /\ \A p \in DOMAIN flows : Allowed(p, flows[p])
    /\ TaskOK(up)
    /\ TaskOK(down)
    /\ \A f \in forwarded : Allowed(f.packet, f.opened)

-----------------------------------------------------------------------------
\* Of the addresses in its certificate a peer owns exactly its own: to_host_route
\* leaves no other address of the subnet.
LEMMA OwnsIsGiven ==
    ASSUME NEW c \in Certs, NEW p \in Parsed, owns(peer_identity(c), p.remote_addr)
    PROVE  Given(c, p.remote_addr)
<1>1. p.remote_addr \in Nat /\ ADDR_BITS \in Nat
  BY ListenerAssumption DEF Parsed
<1>2. CASE \E n \in c.unsafe_networks : Contains(n, p.remote_addr)
  BY <1>2 DEF Given
<1>3. CASE \E n \in {to_host_route(c.networks[i]) : i \in DOMAIN c.networks} :
              Contains(n, p.remote_addr)
  <2>1. PICK i \in DOMAIN c.networks : Contains(to_host_route(c.networks[i]), p.remote_addr)
    BY <1>3
  <2> DEFINE addr == c.networks[i].addr
  <2>2. addr \in Nat
    BY ListenerAssumption
  <2>3. p.remote_addr \div 2 ^ (ADDR_BITS - ADDR_BITS) = addr \div 2 ^ (ADDR_BITS - ADDR_BITS)
    BY <2>1 DEF Contains, to_host_route
  <2>4. 2 ^ (ADDR_BITS - ADDR_BITS) = 1
    BY <1>1
  <2>5. p.remote_addr = addr
    BY <1>1, <2>2, <2>3, <2>4
  <2> QED BY <2>5 DEF Given
<1> QED BY <1>2, <1>3 DEF owns, peer_identity

\* A task that waits, or has ended, says nothing.
LEMMA IdleTaskOK ==
    /\ \A at \in {"read", "recv"} : TaskOK(Waiting(at))
    /\ \A how : TaskOK(Ended(how))
BY DEF TaskOK, Waiting, Ended

\* peer_info: the certificate is the peer's of this moment.
LEMMA LookedUpOK ==
    ASSUME ListenerInv, NEW task, TaskOK(task), task.at = "peer", NEW idle \in {"read", "recv"}
    PROVE  TaskOK(LookedUp(task, idle))
<1>1. task.packet \in Parsed
  BY DEF TaskOK
<1>2. CASE task.peer \notin DOMAIN peers
  BY <1>2, IdleTaskOK DEF LookedUp
<1>3. CASE task.peer \in DOMAIN peers /\ Panics(peers[task.peer])
  BY <1>3, IdleTaskOK DEF LookedUp
<1>4. CASE task.peer \in DOMAIN peers /\ ~Panics(peers[task.peer])
  <2> DEFINE next == [at |-> "evaluate", packet |-> task.packet, peer |-> task.peer,
                      cert |-> peers[task.peer]]
  <2>1. LookedUp(task, idle) = next
    BY <1>4 DEF LookedUp
  <2>2. next.at = "evaluate" /\ next.packet = task.packet /\ next.cert = peers[task.peer]
    OBVIOUS
  <2>3. peers[task.peer] \in Certs
    BY <1>4 DEF ListenerInv
  <2> HIDE DEF next
  <2> QED BY <1>1, <2>1, <2>2, <2>3 DEF TaskOK
<1> QED BY <1>2, <1>3, <1>4

\* evaluate: a flow is recorded as it is opened, and a packet goes on with the
\* record of its flow.
LEMMA EvaluateOK ==
    ASSUME ListenerInv, NEW task, TaskOK(task), task.at = "evaluate",
           NEW incoming \in BOOLEAN, Evaluate(task, incoming),
           NEW next \in {"send", "write"}, NEW idle \in {"read", "recv"}
    PROVE  /\ \A p \in DOMAIN flows' : Allowed(p, flows'[p])
           /\ TaskOK(Evaluated(task, next, idle))
<1> DEFINE q == task.packet
           o == [cert |-> task.cert, incoming |-> incoming]
<1>1. q \in Parsed /\ task.cert \in Certs
  BY DEF TaskOK
<1>2. \A p \in DOMAIN flows' : Allowed(p, flows'[p])
  <2>1. CASE ~Hit(q) /\ Opens(q, incoming, task.cert)
    <3>1. Allowed(q, o)
      <4>1. Given(task.cert, q.remote_addr)
        BY <1>1, <2>1, OwnsIsGiven DEF Opens
      <4> QED BY <2>1, <4>1 DEF Opens, Allowed
    <3>2. flows' = [p \in DOMAIN flows \cup {q} |-> IF p = q THEN o ELSE flows[p]]
      BY <2>1 DEF Evaluate
    <3> HIDE DEF o, q
    <3>3. \A p \in DOMAIN flows' : flows'[p] = (IF p = q THEN o ELSE flows[p])
                                   /\ (p = q \/ p \in DOMAIN flows)
      BY <3>2
    <3> QED BY <3>1, <3>3 DEF ListenerInv
  <2>2. CASE ~(~Hit(q) /\ Opens(q, incoming, task.cert))
    <3>1. flows' = flows
      BY <2>2 DEF Evaluate
    <3> QED BY <3>1 DEF ListenerInv
  <2> QED BY <2>1, <2>2
<1>3. TaskOK(Evaluated(task, next, idle))
  <2>1. CASE q \in DOMAIN flows'
    <3> DEFINE t == [at |-> next, packet |-> q, opened |-> flows'[q]]
    <3>1. Evaluated(task, next, idle) = t
      BY <2>1 DEF Evaluated
    <3>2. t.at = next /\ t.packet = q /\ t.opened = flows'[q]
      OBVIOUS
    <3>3. Allowed(q, flows'[q])
      BY <1>2, <2>1
    <3> HIDE DEF t, q
    <3> QED BY <3>1, <3>2, <3>3 DEF TaskOK
  <2>2. CASE q \notin DOMAIN flows'
    BY <2>2, IdleTaskOK DEF Evaluated
  <2> QED BY <2>1, <2>2
<1> QED BY <1>2, <1>3

\* What a task past evaluate lets out.
LEMMA LeaveOK ==
    ASSUME ListenerInv, NEW task, TaskOK(task), task.at \in {"send", "write"},
           forwarded' \in {forwarded, forwarded \cup {Leave(task)}}
    PROVE  \A f \in forwarded' : Allowed(f.packet, f.opened)
<1>1. Allowed(Leave(task).packet, Leave(task).opened)
  BY DEF TaskOK, Leave
<1> QED BY <1>1 DEF ListenerInv

\* A task whose `at` moves within the lookup.
LEMMA MovedOK ==
    ASSUME NEW task, TaskOK(task), task.at \in {"lookup", "connect", "peer"},
           NEW at \in {"lookup", "connect", "peer"}
    PROVE  TaskOK([task EXCEPT !.at = at])
<1> DEFINE t == [at |-> at, packet |-> task.packet, peer |-> task.peer]
<1>1. [task EXCEPT !.at = at] = t
  BY DEF TaskOK
<1>2. t.at = at /\ t.packet = task.packet /\ t.peer = task.peer
  OBVIOUS
<1>3. task.packet \in Parsed
  BY DEF TaskOK
<1> HIDE DEF t
<1>4. TaskOK(t)
  <2>1. t = [at |-> t.at, packet |-> t.packet, peer |-> t.peer]
    BY DEF t
  <2> QED BY <1>2, <1>3, <2>1 DEF TaskOK
<1> QED BY <1>1, <1>4

-----------------------------------------------------------------------------
\* A listener that starts satisfies the invariant, and every step keeps it.
LEMMA ListenerInductive == Spec => []ListenerInv
<1>1. Init => ListenerInv
  <2> SUFFICES ASSUME Init PROVE ListenerInv
    OBVIOUS
  <2>1. TaskOK(up) /\ TaskOK(down)
    BY IdleTaskOK DEF Init
  <2> QED BY <2>1 DEF Init, ListenerInv
<1>2. ListenerInv /\ [Next]_vars => ListenerInv'
  <2> SUFFICES ASSUME ListenerInv, [Next]_vars PROVE ListenerInv'
    OBVIOUS
  <2> USE DEF ListenerInv
  <2>1. ASSUME NEW p \in Packets, UpRead(p) PROVE ListenerInv'
    <3>1. TaskOK(up')
      <4>1. CASE p.parses
        <5> DEFINE t == [at |-> "lookup", packet |-> p, peer |-> p.remote_addr]
        <5>1. up' = t
          BY <2>1, <4>1 DEF UpRead
        <5>2. t.at = "lookup" /\ t.packet = p /\ t.peer = p.remote_addr
          OBVIOUS
        <5>3. t = [at |-> t.at, packet |-> t.packet, peer |-> t.peer]
          OBVIOUS
        <5> HIDE DEF t
        <5> QED BY <4>1, <5>1, <5>2, <5>3 DEF TaskOK, Parsed
      <4>2. CASE ~p.parses
        BY <2>1, <4>2 DEF UpRead
      <4> QED BY <4>1, <4>2
    <3>2. UNCHANGED <<peers, inbox, flows, down, forwarded>>
      BY <2>1 DEF UpRead
    <3> QED BY <3>1, <3>2
  <2>2. CASE UpReadError
    <3>1. TaskOK(up')
      BY <2>2, IdleTaskOK DEF UpReadError
    <3> QED BY <2>2, <3>1 DEF UpReadError, env
  <2>3. CASE UpLookup
    <3>1. \/ up' = [up EXCEPT !.at = "peer"]
          \/ up' = Waiting("read")
          \/ up' = [up EXCEPT !.at = "connect"]
      BY <2>3 DEF UpLookup
    <3>2. TaskOK(up')
      BY <2>3, <3>1, IdleTaskOK, MovedOK DEF UpLookup
    <3> QED BY <2>3, <3>2 DEF UpLookup, env
  <2>4. CASE UpConnect
    <3>1. up' = [up EXCEPT !.at = "peer"] \/ up' = Waiting("read")
      BY <2>4 DEF UpConnect
    <3>2. TaskOK(up')
      BY <2>4, <3>1, IdleTaskOK, MovedOK DEF UpConnect
    <3> QED BY <2>4, <3>2 DEF UpConnect, env
  <2>5. CASE UpPeer
    <3>1. TaskOK(up')
      BY <2>5, LookedUpOK DEF UpPeer
    <3> QED BY <2>5, <3>1 DEF UpPeer, env
  <2>6. CASE UpEvaluate
    <3>1. /\ \A p \in DOMAIN flows' : Allowed(p, flows'[p])
          /\ TaskOK(up')
      BY <2>6, EvaluateOK DEF UpEvaluate
    <3> QED BY <2>6, <3>1 DEF UpEvaluate, env
  <2>7. CASE UpSend
    <3>1. TaskOK(up') /\ \A f \in forwarded' : Allowed(f.packet, f.opened)
      BY <2>7, IdleTaskOK, LeaveOK DEF UpSend
    <3> QED BY <2>7, <3>1 DEF UpSend, env
  <2>8. CASE DownRecv
    <3> DEFINE S == [src : DOMAIN peers, packet : Packets]
               x == Head(inbox)
    <3>1. /\ inbox \in Seq(S) /\ inbox # <<>> /\ inbox' = Tail(inbox)
          /\ UNCHANGED <<peers, flows, up, forwarded>>
      BY <2>8 DEF DownRecv
    <3>2. x \in S /\ Tail(inbox) \in Seq(S)
      <4> HIDE DEF S
      <4> QED BY <3>1
    <3>3. x.packet \in Packets
      BY <3>2
    <3>4. TaskOK(down')
      <4>1. CASE x.packet.parses
        <5> DEFINE t == [at |-> "peer", packet |-> x.packet, peer |-> x.src]
        <5>1. down' = t
          BY <2>8, <4>1 DEF DownRecv
        <5>2. t.at = "peer" /\ t.packet = x.packet /\ t.peer = x.src
          OBVIOUS
        <5>3. t = [at |-> t.at, packet |-> t.packet, peer |-> t.peer]
          OBVIOUS
        <5> HIDE DEF t, x
        <5> QED BY <3>3, <4>1, <5>1, <5>2, <5>3 DEF TaskOK, Parsed
      <4>2. CASE ~x.packet.parses
        BY <2>8, <4>2 DEF DownRecv
      <4> QED BY <4>1, <4>2
    <3> QED BY <3>1, <3>2, <3>4
  <2>9. CASE DownPeer
    <3>1. TaskOK(down')
      BY <2>9, LookedUpOK DEF DownPeer
    <3> QED BY <2>9, <3>1 DEF DownPeer, env
  <2>10. CASE DownEvaluate
    <3>1. /\ \A p \in DOMAIN flows' : Allowed(p, flows'[p])
          /\ TaskOK(down')
      BY <2>10, EvaluateOK DEF DownEvaluate
    <3> QED BY <2>10, <3>1 DEF DownEvaluate, env
  <2>11. CASE DownWrite
    <3>1. TaskOK(down') /\ \A f \in forwarded' : Allowed(f.packet, f.opened)
      BY <2>11, IdleTaskOK, LeaveOK DEF DownWrite, write_fd
    <3> QED BY <2>11, <3>1 DEF DownWrite, env
  <2>12. CASE Return \/ Drop
    BY <2>12 DEF Return, Drop
  <2>13. CASE AbortUp
    <3>1. TaskOK(up')
      BY <2>13, IdleTaskOK DEF AbortUp
    <3> QED BY <2>13, <3>1 DEF AbortUp, env
  <2>14. CASE AbortDown
    <3>1. TaskOK(down')
      BY <2>14, IdleTaskOK DEF AbortDown
    <3> QED BY <2>14, <3>1 DEF AbortDown, env
  <2>15. ASSUME NEW c \in Certs, Handshake(c) PROVE ListenerInv'
    <3> DEFINE w == c.networks[1].addr
    <3>1. /\ peers' = [v \in DOMAIN peers \cup {w} |-> IF v = w THEN c ELSE peers[v]]
          /\ UNCHANGED <<inbox, flows, up, down, forwarded>>
      BY <2>15 DEF Handshake, env
    <3>2. \A v \in DOMAIN peers' : peers'[v] \in Certs
      BY <3>1
    <3>3. inbox \in Seq([src : DOMAIN peers', packet : Packets])
      <4>1. [src : DOMAIN peers, packet : Packets] \subseteq [src : DOMAIN peers', packet : Packets]
        BY <3>1
      <4> DEFINE S == [src : DOMAIN peers, packet : Packets]
                 S1 == [src : DOMAIN peers', packet : Packets]
      <4>2. S \subseteq S1 /\ inbox \in Seq(S)
        BY <4>1
      <4> HIDE DEF S, S1
      <4>3. inbox \in Seq(S1)
        BY <4>2
      <4> QED BY <4>3 DEF S1
    <3> QED BY <3>1, <3>2, <3>3
  <2>16. ASSUME NEW v \in DOMAIN peers, NEW p \in Packets, Queue(v, p) PROVE ListenerInv'
    <3> DEFINE S == [src : DOMAIN peers, packet : Packets]
               x == [src |-> v, packet |-> p]
    <3>1. inbox' = Append(inbox, x) /\ UNCHANGED <<peers, flows, up, down, forwarded>>
      BY <2>16 DEF Queue
    <3>2. x \in S /\ inbox \in Seq(S)
      OBVIOUS
    <3>3. Append(inbox, x) \in Seq(S)
      <4> HIDE DEF S, x
      <4> QED BY <3>2
    <3> QED BY <3>1, <3>3
  <2>17. ASSUME NEW p \in DOMAIN flows, Expire(p) PROVE ListenerInv'
    <3>1. \A q \in DOMAIN flows' : Allowed(q, flows'[q])
      BY <2>17 DEF Expire
    <3> QED BY <2>17, <3>1 DEF Expire, env
  <2>18. CASE UNCHANGED vars
    BY <2>18 DEF vars
  <2> QED
    BY <2>1, <2>2, <2>3, <2>4, <2>5, <2>6, <2>7, <2>8, <2>9, <2>10, <2>11, <2>12, <2>13,
       <2>14, <2>15, <2>16, <2>17, <2>18
    DEF Next, Up, Down
<1> QED BY <1>1, <1>2, PTL DEF Spec

\* No packet leaves the listener, to the mesh or to the tun, but between an address
\* of ours and one the certificate its flow was opened under gives the peer.
THEOREM ListenerForwardedIsOwned == Spec => []ForwardedIsOwned
<1>1. ListenerInv => ForwardedIsOwned
  BY DEF ListenerInv, Allowed, ForwardedIsOwned
<1> QED BY <1>1, ListenerInductive, PTL

\* Whatever passes without a rule is an answer: a rule let a packet of its flow
\* through before, in the direction the flow was opened.
THEOREM ListenerForwardedIsAskedFor == Spec => []ForwardedIsAskedFor
<1>1. ListenerInv => ForwardedIsAskedFor
  BY DEF ListenerInv, Allowed, ForwardedIsAskedFor
<1> QED BY <1>1, ListenerInductive, PTL
=============================================================================
