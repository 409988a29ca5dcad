--------------------------- MODULE SessionProofs ----------------------------
(***************************************************************************)
(* Sessions on any number of nodes, with any certificates, addresses and   *)
(* connect calls.  One fact about every step carries the argument: an      *)
(* established tunnel stays in the table with its role, keys, peer and     *)
(* peer's index.  The invariant adds what the handshake datagrams on the   *)
(* network promise, and whose call each sender in `connected` belongs to.  *)
(* A second invariant, on top of it, is about keys and counters.           *)
(***************************************************************************)
EXTENDS Session, TLAPS

\* A sender in the table belongs to a call on this node for this address.
SendersBelong ==
    \A n \in Nodes : \A v \in DOMAIN connected[n] :
        LET k == connected[n][v] IN
        /\ NodeOf[k] = n
        /\ task[k].pc # "idle"
        /\ task[k].target = v

\* A handshake message carries its sender's certificate, and a reply stands for
\* a tunnel its sender has.
RepliesHaveTunnels ==
    /\ \A m \in network : m.type \in {"stage0", "stage2"} => m.cert = m.src
    /\ \A m \in network : m.type = "stage2" =>
          /\ IsEstablished(m.src, m.responder_index)
          /\ LET f == peers_by_index[m.src][m.responder_index] IN
             /\ f.role = "responder"
             /\ f.keys = m.keys
             /\ f.vpn_addr = m.dst
             /\ f.remote_index = m.index

SessionInv == /\ TypeOK
              /\ IndexIsEstablished
              /\ SendersBelong
              /\ WaitersAreReachable
              /\ ConnectedMeansTunnel
              /\ RepliesHaveTunnels
              /\ InitiatorHasPeer

\* What a step may not do to an established tunnel.
SameTunnel(n, i) ==
    /\ i \in DOMAIN peers_by_index'[n]
    /\ peers_by_index'[n][i].state = "Established"
    /\ peers_by_index'[n][i].role = peers_by_index[n][i].role
    /\ peers_by_index'[n][i].keys = peers_by_index[n][i].keys
    /\ peers_by_index'[n][i].vpn_addr = peers_by_index[n][i].vpn_addr
    /\ peers_by_index'[n][i].remote_index = peers_by_index[n][i].remote_index

TunnelsStay == \A n \in Nodes : \A i \in Indexes :
                  IsEstablished(n, i) => SameTunnel(n, i)

\* An initiator's tunnel after the step is one it had before.
OnlyOldInitiators ==
    \A n \in Nodes : \A i \in DOMAIN peers_by_index'[n] :
        LET e == peers_by_index'[n][i] IN
        e.state = "Established" /\ e.role = "initiator" => IsEstablished(n, i)

-----------------------------------------------------------------------------
\* The entries the handshake makes are well formed.
LEMMA EntryTypes ==
    /\ \A eph \in Ephs : Handshaking(eph) \in HandshakingStates
    /\ \A role \in Roles, keys \in Keys, remote \in Nodes, v \in Nodes, j \in Indexes :
          LET e == Established(role, keys, remote, v, j) IN
          /\ e \in EstablishedStates
          /\ e.state = "Established" /\ e.role = role /\ e.keys = keys
          /\ e.vpn_addr = v /\ e.remote_index = j
BY DEF Handshaking, HandshakingStates, Established, EstablishedStates

\* What the type invariant says of a datagram.
LEMMA MessageTypes ==
    ASSUME TypeOK, NEW m \in network
    PROVE  /\ m.type = "stage0" => m \in Stage0s
           /\ m.type = "stage2" => m \in Stage2s
           /\ m.type = "data" => m \in Datas
BY DEF TypeOK, Stage0s, Stage2s, Datas

\* What the type invariant says of a table entry.
LEMMA StateTypes ==
    ASSUME TypeOK, NEW n \in Nodes, NEW i \in DOMAIN peers_by_index[n]
    PROVE  /\ i \in Indexes
           /\ peers_by_index[n][i].state = "Handshaking" =>
                 peers_by_index[n][i] \in HandshakingStates
           /\ peers_by_index[n][i].state = "Established" =>
                 peers_by_index[n][i] \in EstablishedStates
BY DEF TypeOK, HandshakingStates, EstablishedStates

\* The wake-ups only move a waiting call; its target stays.
LEMMA TaskChanges ==
    ASSUME TypeOK, NEW n \in Nodes, NEW v \in Nodes
    PROVE  /\ Superseded(n, v) \in [Tasks -> TaskStates]
           /\ Woken(n, v) \in [Tasks -> TaskStates]
           /\ \A k \in Tasks :
                 /\ task[k].pc # "waiting" => /\ Superseded(n, v)[k] = task[k]
                                              /\ Woken(n, v)[k] = task[k]
                 /\ task[k].pc = "waiting" =>
                       /\ Superseded(n, v)[k].target = task[k].target
                       /\ Woken(n, v)[k].target = task[k].target
                       /\ Superseded(n, v)[k].pc \in {"waiting", "dropped"}
                       /\ Woken(n, v)[k].pc \in {"waiting", "signalled"}
                       /\ v \in DOMAIN connected[n] /\ connected[n][v] = k =>
                             /\ Superseded(n, v)[k].pc = "dropped"
                             /\ Woken(n, v)[k].pc = "signalled"
                       /\ Woken(n, v)[k].pc = "signalled" =>
                             v \in DOMAIN connected[n] /\ connected[n][v] = k
<1>1. ASSUME NEW k \in Tasks, task[k].pc = "waiting", NEW s \in {"dropped", "signalled"}
      PROVE  /\ [task[k] EXCEPT !.pc = s] \in TaskStates
             /\ [task[k] EXCEPT !.pc = s].target = task[k].target
             /\ [task[k] EXCEPT !.pc = s].pc = s
  BY <1>1 DEF TypeOK, TaskStates
<1>2. task \in [Tasks -> TaskStates]
  BY DEF TypeOK
<1>3. Superseded(n, v) \in [Tasks -> TaskStates] /\ Woken(n, v) \in [Tasks -> TaskStates]
  BY <1>1, <1>2 DEF Superseded, Woken
<1>4. ASSUME NEW k \in Tasks, task[k].pc # "waiting"
      PROVE  Superseded(n, v)[k] = task[k] /\ Woken(n, v)[k] = task[k]
  BY <1>4 DEF Superseded, Woken
<1>5. ASSUME NEW k \in Tasks, task[k].pc = "waiting"
      PROVE  /\ Superseded(n, v)[k].target = task[k].target
             /\ Woken(n, v)[k].target = task[k].target
             /\ Superseded(n, v)[k].pc \in {"waiting", "dropped"}
             /\ Woken(n, v)[k].pc \in {"waiting", "signalled"}
             /\ v \in DOMAIN connected[n] /\ connected[n][v] = k =>
                   /\ Superseded(n, v)[k].pc = "dropped"
                   /\ Woken(n, v)[k].pc = "signalled"
             /\ Woken(n, v)[k].pc = "signalled" =>
                   v \in DOMAIN connected[n] /\ connected[n][v] = k
  BY <1>1, <1>5 DEF Superseded, Woken
<1> QED BY <1>3, <1>4, <1>5

\* What tunnels that stay leave of the invariant: an unchanged index table still
\* names tunnels, earlier replies still stand for theirs, and initiators' tunnels
\* that were there before still have their other end.
LEMMA Kept ==
    ASSUME SessionInv, TunnelsStay
    PROVE  /\ index_by_vpn_addr' = index_by_vpn_addr => IndexIsEstablished'
           /\ /\ \A m \in network' : m.type = "stage2" => m \in network
              /\ \A m \in network' : m.type = "stage0" => m.cert = m.src
              => RepliesHaveTunnels'
           /\ OnlyOldInitiators /\ TypeOK' => InitiatorHasPeer'
<1>1. ASSUME index_by_vpn_addr' = index_by_vpn_addr
      PROVE  IndexIsEstablished'
  <2> SUFFICES ASSUME NEW n \in Nodes, NEW v \in DOMAIN index_by_vpn_addr'[n]
               PROVE  /\ IsEstablished(n, index_by_vpn_addr[n][v])'
                      /\ peers_by_index'[n][index_by_vpn_addr[n][v]].vpn_addr = v
    BY <1>1 DEF IndexIsEstablished
  <2>1. /\ IsEstablished(n, index_by_vpn_addr[n][v])
        /\ peers_by_index[n][index_by_vpn_addr[n][v]].vpn_addr = v
        /\ index_by_vpn_addr[n][v] \in Indexes
    BY <1>1 DEF SessionInv, IndexIsEstablished, TypeOK
  <2>2. SameTunnel(n, index_by_vpn_addr[n][v])
    BY <2>1 DEF TunnelsStay
  <2> QED BY <1>1, <2>1, <2>2 DEF SameTunnel, IsEstablished
<1>2. ASSUME \A m \in network' : m.type = "stage2" => m \in network,
             \A m \in network' : m.type = "stage0" => m.cert = m.src
      PROVE  RepliesHaveTunnels'
  <2>1. \A m \in network' : m.type \in {"stage0", "stage2"} => m.cert = m.src
    BY <1>2 DEF SessionInv, RepliesHaveTunnels
  <2>2. ASSUME NEW m \in network', m.type = "stage2"
        PROVE  /\ IsEstablished(m.src, m.responder_index)'
               /\ LET f == peers_by_index'[m.src][m.responder_index] IN
                  /\ f.role = "responder"
                  /\ f.keys = m.keys
                  /\ f.vpn_addr = m.dst
                  /\ f.remote_index = m.index
    <3>1. m \in network
      BY <1>2, <2>2
    <3>2. /\ IsEstablished(m.src, m.responder_index)
          /\ LET f == peers_by_index[m.src][m.responder_index] IN
             /\ f.role = "responder"
             /\ f.keys = m.keys
             /\ f.vpn_addr = m.dst
             /\ f.remote_index = m.index
      BY <3>1, <2>2 DEF SessionInv, RepliesHaveTunnels
    <3>3. m.src \in Nodes /\ m.responder_index \in Indexes
      BY <3>1, <2>2, MessageTypes DEF SessionInv, Stage2s
    <3>4. SameTunnel(m.src, m.responder_index)
      BY <3>2, <3>3 DEF TunnelsStay
    <3> QED BY <3>2, <3>4 DEF SameTunnel, IsEstablished
  <2> QED BY <2>1, <2>2 DEF RepliesHaveTunnels
<1>3. ASSUME OnlyOldInitiators, TypeOK'
      PROVE  InitiatorHasPeer'
  <2> SUFFICES ASSUME NEW n \in Nodes, NEW i \in DOMAIN peers_by_index'[n],
                      peers_by_index'[n][i].state = "Established",
                      peers_by_index'[n][i].role = "initiator"
               PROVE  LET e == peers_by_index'[n][i]
                          f == peers_by_index'[e.vpn_addr][e.remote_index]
                      IN  /\ e.remote_index \in DOMAIN peers_by_index'[e.vpn_addr]
                          /\ f.state = "Established"
                          /\ f.role = "responder"
                          /\ f.keys = e.keys
                          /\ f.vpn_addr = n
                          /\ f.remote_index = i
    BY DEF InitiatorHasPeer, IsEstablished
  <2>1. IsEstablished(n, i)
    BY <1>3 DEF OnlyOldInitiators
  <2>2. i \in Indexes /\ SameTunnel(n, i)
    BY <2>1, StateTypes DEF IsEstablished, SessionInv, TunnelsStay
  <2> DEFINE e == peers_by_index[n][i]
  <2>3. e.state = "Established" /\ e.role = "initiator" /\ i \in DOMAIN peers_by_index[n]
    BY <2>1, <2>2 DEF SameTunnel, IsEstablished
  <2>4. e.vpn_addr \in Nodes /\ e.remote_index \in Indexes
    BY <2>3, StateTypes DEF SessionInv, EstablishedStates
  <2>5. LET f == peers_by_index[e.vpn_addr][e.remote_index] IN
        /\ IsEstablished(e.vpn_addr, e.remote_index)
        /\ f.role = "responder"
        /\ f.keys = e.keys
        /\ f.vpn_addr = n
        /\ f.remote_index = i
    BY <2>3 DEF SessionInv, InitiatorHasPeer
  <2>6. SameTunnel(e.vpn_addr, e.remote_index)
    BY <2>4, <2>5 DEF TunnelsStay
  <2> QED BY <2>2, <2>5, <2>6 DEF SameTunnel, IsEstablished
<1> QED BY <1>1, <1>2, <1>3

\* connect's second section: a waiter, a handshake at a fresh index, a stage 0.
LEMMA ConnectInv ==
    ASSUME SessionInv, NEW k \in Tasks, NEW v \in Nodes, Connect(k, v)
    PROVE  SessionInv'
<1> DEFINE n == NodeOf[k]
<1>1. /\ n \in Nodes
      /\ task[k].pc = "idle"
      /\ v \in DOMAIN KnownAddrs[n]
      /\ KnownAddrs[n][v] \subseteq Nodes
      /\ ephs \in Ephs /\ ephs' = ephs + 1 /\ ephs' \in 0..MaxEph
      /\ UNCHANGED <<index_by_vpn_addr, inbox, sends>>
      /\ connected' = [connected EXCEPT ![n] = Insert(@, v, k)]
      /\ task' = [Superseded(n, v) EXCEPT ![k] = [pc |-> "waiting", target |-> v]]
  BY SessionAssumption DEF Connect, SessionInv, TypeOK, Ephs
<1>2. PICK i \in FreeIndexes(n), remote \in KnownAddrs[n][v] :
          /\ peers_by_index' = [peers_by_index EXCEPT ![n] =
                                   Insert(@, i, Handshaking(ephs))]
          /\ network' = network \cup {Stage0(n, remote, ephs, i)}
  BY DEF Connect
<1>3. i \in Indexes /\ i \notin DOMAIN peers_by_index[n]
  BY DEF FreeIndexes
<1>4. TypeOK
  BY DEF SessionInv
<1>5. /\ DOMAIN peers_by_index' = Nodes
      /\ \A w \in Nodes : w # n => peers_by_index'[w] = peers_by_index[w]
      /\ DOMAIN peers_by_index'[n] = DOMAIN peers_by_index[n] \cup {i}
      /\ peers_by_index'[n][i] = Handshaking(ephs)
      /\ \A j \in DOMAIN peers_by_index[n] : peers_by_index'[n][j] = peers_by_index[n][j]
  BY <1>1, <1>2, <1>3, <1>4 DEF TypeOK, Insert
<1>6. /\ DOMAIN connected' = Nodes
      /\ \A w \in Nodes : w # n => connected'[w] = connected[w]
      /\ DOMAIN connected'[n] = DOMAIN connected[n] \cup {v}
      /\ connected'[n][v] = k
      /\ \A w \in DOMAIN connected[n] : w # v => connected'[n][w] = connected[n][w]
  BY <1>1, <1>4 DEF TypeOK, Insert
<1>7. /\ task' \in [Tasks -> TaskStates]
      /\ task'[k].pc = "waiting" /\ task'[k].target = v
      /\ \A j \in Tasks : j # k => task'[j] = Superseded(n, v)[j]
  <2>1. [pc |-> "waiting", target |-> v] \in TaskStates
    BY DEF TaskStates
  <2> QED BY <1>1, <1>4, <2>1, TaskChanges
<1>8. Stage0(n, remote, ephs, i) \in Stage0s
  BY <1>1, <1>3 DEF Stage0, Stage0s
<1>9. TypeOK'
  <2>0. Handshaking(ephs) \in HandshakingStates
    BY <1>1, EntryTypes
  <2>1. \A w \in Nodes : \A j \in DOMAIN peers_by_index'[w] :
          /\ j \in Indexes
          /\ peers_by_index'[w][j] \in HandshakingStates \cup EstablishedStates
    BY <1>1, <1>3, <1>4, <1>5, <2>0 DEF TypeOK
  <2>2. \A w \in Nodes : \A u \in DOMAIN connected'[w] :
          u \in Nodes /\ connected'[w][u] \in Tasks
    BY <1>4, <1>6 DEF TypeOK
  <2>3. network' \subseteq Stage0s \cup Stage2s \cup Datas
    BY <1>2, <1>4, <1>8 DEF TypeOK
  <2> QED BY <1>1, <1>4, <1>5, <1>6, <1>7, <2>1, <2>2, <2>3 DEF TypeOK
<1>10. TunnelsStay
  BY <1>3, <1>5 DEF TunnelsStay, IsEstablished, SameTunnel
<1>11. OnlyOldInitiators
  <2>1. peers_by_index'[n][i].state = "Handshaking"
    BY <1>5 DEF Handshaking
  <2> QED BY <1>5, <2>1 DEF OnlyOldInitiators, IsEstablished
<1>12. SendersBelong'
  <2> SUFFICES ASSUME NEW w \in Nodes, NEW u \in DOMAIN connected'[w]
               PROVE  /\ NodeOf[connected'[w][u]] = w
                      /\ task'[connected'[w][u]].pc # "idle"
                      /\ task'[connected'[w][u]].target = u
    BY DEF SendersBelong
  <2>1. CASE w = n /\ u = v
    BY <1>6, <1>7, <2>1
  <2>2. CASE ~(w = n /\ u = v)
    <3> DEFINE j == connected[w][u]
    <3>1. u \in DOMAIN connected[w] /\ connected'[w][u] = j
      BY <1>6, <2>2
    <3>2. /\ j \in Tasks
          /\ NodeOf[j] = w
          /\ task[j].pc # "idle"
          /\ task[j].target = u
      BY <1>4, <3>1 DEF SessionInv, SendersBelong, TypeOK
    <3>3. task'[j] = Superseded(n, v)[j]
      BY <1>1, <1>7, <3>2
    <3>4. Superseded(n, v)[j].pc # "idle" /\ Superseded(n, v)[j].target = u
      BY <1>1, <1>4, <3>2, TaskChanges
    <3> QED BY <3>1, <3>2, <3>3, <3>4
  <2> QED BY <2>1, <2>2
<1>13. WaitersAreReachable'
  <2> SUFFICES ASSUME NEW j \in Tasks, task'[j].pc = "waiting"
               PROVE  /\ task'[j].target \in DOMAIN connected'[NodeOf[j]]
                      /\ connected'[NodeOf[j]][task'[j].target] = j
    BY DEF WaitersAreReachable
  <2>1. CASE j = k
    BY <1>6, <1>7, <2>1
  <2>2. CASE j # k
    <3>1. task[j].pc = "waiting" /\ task'[j].target = task[j].target
      BY <1>1, <1>4, <1>7, <2>2, TaskChanges
    <3>2. /\ task[j].target \in DOMAIN connected[NodeOf[j]]
          /\ connected[NodeOf[j]][task[j].target] = j
          /\ NodeOf[j] \in Nodes
      BY <3>1, SessionAssumption DEF SessionInv, WaitersAreReachable
    <3>3. ~(NodeOf[j] = n /\ task[j].target = v)
      BY <1>1, <1>4, <1>7, <2>2, <3>1, <3>2, TaskChanges
    <3> QED BY <1>6, <3>1, <3>2, <3>3
  <2> QED BY <2>1, <2>2
<1>14. ConnectedMeansTunnel'
  <2> SUFFICES ASSUME NEW j \in Tasks, task'[j].pc \in {"signalled", "Ok"}
               PROVE  task'[j].target \in DOMAIN index_by_vpn_addr[NodeOf[j]]
    BY <1>1 DEF ConnectedMeansTunnel
  <2>1. j # k
    BY <1>7
  <2>2. ASSUME task[j].pc = "waiting" PROVE FALSE
    <3>1. Superseded(n, v)[j].pc \in {"waiting", "dropped"}
      BY <1>1, <1>4, <2>2, TaskChanges
    <3> QED BY <1>7, <2>1, <3>1
  <2>3. task'[j] = task[j]
    BY <1>1, <1>4, <1>7, <2>1, <2>2, TaskChanges
  <2> QED BY <2>3 DEF SessionInv, ConnectedMeansTunnel
<1>15. RepliesHaveTunnels'
  <2> DEFINE m0 == Stage0(n, remote, ephs, i)
  <2>1. /\ m0.type = "stage0" /\ m0.cert = m0.src
    BY DEF Stage0
  <2>2. /\ \A m \in network' : m.type = "stage2" => m \in network
        /\ \A m \in network' : m \in network \/ m = m0
    BY <1>2, <2>1
  <2>3. \A m \in network' : m.type = "stage0" => m.cert = m.src
    BY <2>1, <2>2 DEF SessionInv, RepliesHaveTunnels
  <2> QED BY <1>10, <2>2, <2>3, Kept
<1> QED
  BY <1>1, <1>9, <1>10, <1>11, <1>12, <1>13, <1>14, <1>15, Kept DEF SessionInv

\* A step that leaves the calls and their senders alone, and forgets no address,
\* keeps what the invariant says of them.
LEMMA CallsKept ==
    ASSUME SessionInv, UNCHANGED <<connected, task>>,
           \A n \in Nodes : DOMAIN index_by_vpn_addr[n] \subseteq DOMAIN index_by_vpn_addr'[n]
    PROVE  SendersBelong' /\ WaitersAreReachable' /\ ConnectedMeansTunnel'
BY SessionAssumption
DEF SessionInv, SendersBelong, WaitersAreReachable, ConnectedMeansTunnel

\* A step that leaves the tables and the network alone keeps what the invariant
\* says of them.
LEMMA TablesKept ==
    ASSUME SessionInv, UNCHANGED <<peers_by_index, index_by_vpn_addr, network>>, TypeOK'
    PROVE  IndexIsEstablished' /\ RepliesHaveTunnels' /\ InitiatorHasPeer'
<1>1. TunnelsStay
  BY DEF TunnelsStay, IsEstablished, SameTunnel
<1>2. OnlyOldInitiators
  BY DEF OnlyOldInitiators, IsEstablished
<1>3. RepliesHaveTunnels'
  BY <1>1, Kept DEF SessionInv, RepliesHaveTunnels
<1> QED BY <1>1, <1>2, <1>3, Kept

\* The responder's half: a tunnel at a fresh index, filed under the address in
\* the initiator's certificate, and a reply that stands for it.
LEMMA HandleStage0Inv ==
    ASSUME SessionInv, NEW n \in Nodes, NEW m \in network, HandleStage0(n, m)
    PROVE  SessionInv'
<1> DEFINE keys == <<m.eph, ephs>>
<1>1. TypeOK
  BY DEF SessionInv
<1>2. /\ m \in Stage0s /\ m.dst = n /\ m.cert = m.src
      /\ m.src \in Nodes /\ m.eph \in Ephs /\ m.initiator_index \in Indexes
  <2>1. m.type = "stage0" /\ m.dst = n
    BY DEF HandleStage0
  <2>2. m \in Stage0s
    BY <1>1, <2>1, MessageTypes
  <2>3. m.cert = m.src
    BY <2>1 DEF SessionInv, RepliesHaveTunnels
  <2> QED BY <2>1, <2>2, <2>3 DEF Stage0s
<1>3. /\ ephs \in Ephs /\ ephs' \in 0..MaxEph
      /\ keys \in Keys
      /\ UNCHANGED <<connected, task, inbox, sends>>
  BY <1>1, <1>2, SessionAssumption DEF HandleStage0, TypeOK, Ephs, Keys
<1>4. PICK i \in FreeIndexes(n) :
          /\ network' = network \cup {Stage2(n, m.src, m.initiator_index, keys, i)}
          /\ peers_by_index' = [peers_by_index EXCEPT ![n] =
                Insert(@, i, Established("responder", keys, m.src, m.cert,
                                         m.initiator_index))]
          /\ index_by_vpn_addr' = Indexed(n, m.cert, i)
  BY DEF HandleStage0
<1>5. i \in Indexes /\ i \notin DOMAIN peers_by_index[n]
  BY DEF FreeIndexes
<1> DEFINE e == Established("responder", keys, m.src, m.cert, m.initiator_index)
           r == Stage2(n, m.src, m.initiator_index, keys, i)
<1>6. /\ e \in EstablishedStates
      /\ e.state = "Established" /\ e.role = "responder" /\ e.keys = keys
      /\ e.vpn_addr = m.src /\ e.remote_index = m.initiator_index
  BY <1>2, <1>3, EntryTypes DEF Roles
<1>7. /\ r \in Stage2s
      /\ r.type = "stage2" /\ r.src = n /\ r.cert = n /\ r.dst = m.src
      /\ r.index = m.initiator_index /\ r.keys = keys /\ r.responder_index = i
  BY <1>2, <1>3, <1>5 DEF Stage2, Stage2s
<1> HIDE DEF keys, e, r
<1>8. /\ DOMAIN peers_by_index' = Nodes
      /\ \A w \in Nodes : w # n => peers_by_index'[w] = peers_by_index[w]
      /\ DOMAIN peers_by_index'[n] = DOMAIN peers_by_index[n] \cup {i}
      /\ peers_by_index'[n][i] = e
      /\ \A j \in DOMAIN peers_by_index[n] : peers_by_index'[n][j] = peers_by_index[n][j]
  BY <1>1, <1>4, <1>5 DEF TypeOK, Insert, e
<1>9. /\ DOMAIN index_by_vpn_addr' = Nodes
      /\ \A w \in Nodes : w # n => index_by_vpn_addr'[w] = index_by_vpn_addr[w]
      /\ DOMAIN index_by_vpn_addr'[n] = DOMAIN index_by_vpn_addr[n] \cup {m.src}
      /\ index_by_vpn_addr'[n][m.src] = i
      /\ \A u \in DOMAIN index_by_vpn_addr[n] :
            u # m.src => index_by_vpn_addr'[n][u] = index_by_vpn_addr[n][u]
  BY <1>1, <1>2, <1>4 DEF TypeOK, Insert, Indexed
<1>10. network' = network \cup {r}
  BY <1>4 DEF r
<1>11. TypeOK'
  <2>1. \A w \in Nodes : \A j \in DOMAIN peers_by_index'[w] :
          /\ j \in Indexes
          /\ peers_by_index'[w][j] \in HandshakingStates \cup EstablishedStates
    BY <1>1, <1>5, <1>6, <1>8 DEF TypeOK
  <2>2. ASSUME NEW w \in Nodes, NEW u \in DOMAIN index_by_vpn_addr'[w]
        PROVE  u \in Nodes /\ index_by_vpn_addr'[w][u] \in Indexes
    <3>1. CASE w = n /\ u = m.src
      BY <1>2, <1>5, <1>9, <3>1
    <3>2. CASE ~(w = n /\ u = m.src)
      <4>1. /\ u \in DOMAIN index_by_vpn_addr[w]
            /\ index_by_vpn_addr'[w][u] = index_by_vpn_addr[w][u]
        BY <1>9, <2>2, <3>2
      <4> QED BY <1>1, <2>2, <4>1 DEF TypeOK
    <3> QED BY <3>1, <3>2
  <2> QED BY <1>1, <1>3, <1>7, <1>8, <1>9, <1>10, <2>1, <2>2 DEF TypeOK
<1>12. TunnelsStay
  BY <1>5, <1>8 DEF TunnelsStay, IsEstablished, SameTunnel
<1>13. OnlyOldInitiators
  BY <1>6, <1>8 DEF OnlyOldInitiators, IsEstablished
<1>14. IndexIsEstablished'
  <2> SUFFICES ASSUME NEW w \in Nodes, NEW u \in DOMAIN index_by_vpn_addr'[w]
               PROVE  /\ index_by_vpn_addr'[w][u] \in DOMAIN peers_by_index'[w]
                      /\ peers_by_index'[w][index_by_vpn_addr'[w][u]].state = "Established"
                      /\ peers_by_index'[w][index_by_vpn_addr'[w][u]].vpn_addr = u
    BY DEF IndexIsEstablished, IsEstablished
  <2>1. CASE w = n /\ u = m.src
    BY <1>6, <1>8, <1>9, <2>1
  <2>2. CASE ~(w = n /\ u = m.src)
    <3> DEFINE j == index_by_vpn_addr[w][u]
    <3>1. u \in DOMAIN index_by_vpn_addr[w] /\ index_by_vpn_addr'[w][u] = j
      BY <1>9, <2>2
    <3>2. j \in Indexes /\ IsEstablished(w, j) /\ peers_by_index[w][j].vpn_addr = u
      BY <1>1, <3>1 DEF SessionInv, IndexIsEstablished, TypeOK
    <3>3. SameTunnel(w, j)
      BY <1>12, <3>2 DEF TunnelsStay
    <3> QED BY <3>1, <3>2, <3>3 DEF SameTunnel
  <2> QED BY <2>1, <2>2
<1>15. RepliesHaveTunnels'
  <2>1. ASSUME NEW x \in network', x.type \in {"stage0", "stage2"}
        PROVE  x.cert = x.src
    BY <1>7, <1>10, <2>1 DEF SessionInv, RepliesHaveTunnels
  <2>2. ASSUME NEW x \in network', x.type = "stage2"
        PROVE  LET f == peers_by_index'[x.src][x.responder_index] IN
               /\ x.responder_index \in DOMAIN peers_by_index'[x.src]
               /\ f.state = "Established"
               /\ f.role = "responder"
               /\ f.keys = x.keys
               /\ f.vpn_addr = x.dst
               /\ f.remote_index = x.index
    <3>1. CASE x = r
      BY <1>6, <1>7, <1>8, <3>1
    <3>2. CASE x \in network
      <4>1. x.src \in Nodes /\ x.responder_index \in Indexes
        BY <1>1, <2>2, <3>2, MessageTypes DEF Stage2s
      <4>2. /\ IsEstablished(x.src, x.responder_index)
            /\ LET f == peers_by_index[x.src][x.responder_index] IN
               /\ f.role = "responder"
               /\ f.keys = x.keys
               /\ f.vpn_addr = x.dst
               /\ f.remote_index = x.index
        BY <2>2, <3>2 DEF SessionInv, RepliesHaveTunnels
      <4>3. SameTunnel(x.src, x.responder_index)
        BY <1>12, <4>1, <4>2 DEF TunnelsStay
      <4> QED BY <4>2, <4>3 DEF SameTunnel
    <3> QED BY <1>10, <3>1, <3>2
  <2> QED BY <2>1, <2>2 DEF RepliesHaveTunnels, IsEstablished
<1>16. \A w \in Nodes : DOMAIN index_by_vpn_addr[w] \subseteq DOMAIN index_by_vpn_addr'[w]
  BY <1>9
<1> QED
  BY <1>3, <1>11, <1>12, <1>13, <1>14, <1>15, <1>16, Kept, CallsKept DEF SessionInv

\* The initiator's half: the handshake at the index becomes a tunnel whose other
\* end is the one the reply stands for, and the waiter for that address is woken.
LEMMA HandleStage2Inv ==
    ASSUME SessionInv, NEW n \in Nodes, NEW m \in network, HandleStage2(n, m)
    PROVE  SessionInv'
<1>1. TypeOK
  BY DEF SessionInv
<1>2. /\ m.type = "stage2" /\ m.dst = n /\ m.cert = m.src
      /\ m.src \in Nodes /\ m.index \in Indexes /\ m.keys \in Keys
      /\ m.responder_index \in Indexes
  <2>1. m.type = "stage2" /\ m.dst = n
    BY DEF HandleStage2
  <2>2. m \in Stage2s
    BY <1>1, <2>1, MessageTypes
  <2>3. m.cert = m.src
    BY <2>1 DEF SessionInv, RepliesHaveTunnels
  <2> QED BY <2>1, <2>2, <2>3 DEF Stage2s
<1> DEFINE i == m.index
           e == Established("initiator", m.keys, m.src, m.cert, m.responder_index)
<1>3. /\ i \in DOMAIN peers_by_index[n]
      /\ peers_by_index[n][i].state = "Handshaking"
      /\ UNCHANGED <<network, inbox, ephs, sends>>
      /\ connected' = [connected EXCEPT ![n] = Remove(@, m.src)]
      /\ task' = Woken(n, m.src)
  BY <1>2 DEF HandleStage2, IsHandshaking
<1>4. /\ e \in EstablishedStates
      /\ e.state = "Established" /\ e.role = "initiator" /\ e.keys = m.keys
      /\ e.vpn_addr = m.src /\ e.remote_index = m.responder_index
  BY <1>2, EntryTypes DEF Roles
<1>4a. peers_by_index' = [peers_by_index EXCEPT ![n] = Insert(@, i, e)]
  BY DEF HandleStage2
<1> HIDE DEF e
<1>5. /\ DOMAIN peers_by_index' = Nodes
      /\ \A w \in Nodes : w # n => peers_by_index'[w] = peers_by_index[w]
      /\ DOMAIN peers_by_index'[n] = DOMAIN peers_by_index[n]
      /\ peers_by_index'[n][i] = e
      /\ \A j \in DOMAIN peers_by_index[n] :
            j # i => peers_by_index'[n][j] = peers_by_index[n][j]
  BY <1>1, <1>3, <1>4a DEF TypeOK, Insert
<1>6. /\ DOMAIN index_by_vpn_addr' = Nodes
      /\ \A w \in Nodes : w # n => index_by_vpn_addr'[w] = index_by_vpn_addr[w]
      /\ DOMAIN index_by_vpn_addr'[n] = DOMAIN index_by_vpn_addr[n] \cup {m.src}
      /\ index_by_vpn_addr'[n][m.src] = i
      /\ \A u \in DOMAIN index_by_vpn_addr[n] :
            u # m.src => index_by_vpn_addr'[n][u] = index_by_vpn_addr[n][u]
  BY <1>1, <1>2 DEF HandleStage2, TypeOK, Insert, Indexed
<1>7. /\ DOMAIN connected' = Nodes
      /\ \A w \in Nodes : w # n => connected'[w] = connected[w]
      /\ DOMAIN connected'[n] = DOMAIN connected[n] \ {m.src}
      /\ \A u \in DOMAIN connected[n] : u # m.src => connected'[n][u] = connected[n][u]
  BY <1>1, <1>3 DEF TypeOK, Remove
<1>8. TypeOK'
  <2>1. \A w \in Nodes : \A j \in DOMAIN peers_by_index'[w] :
          /\ j \in Indexes
          /\ peers_by_index'[w][j] \in HandshakingStates \cup EstablishedStates
    BY <1>1, <1>4, <1>5 DEF TypeOK
  <2>2. ASSUME NEW w \in Nodes, NEW u \in DOMAIN index_by_vpn_addr'[w]
        PROVE  u \in Nodes /\ index_by_vpn_addr'[w][u] \in Indexes
    <3>1. CASE w = n /\ u = m.src
      BY <1>2, <1>6, <3>1
    <3>2. CASE ~(w = n /\ u = m.src)
      <4>1. /\ u \in DOMAIN index_by_vpn_addr[w]
            /\ index_by_vpn_addr'[w][u] = index_by_vpn_addr[w][u]
        BY <1>6, <2>2, <3>2
      <4> QED BY <1>1, <2>2, <4>1 DEF TypeOK
    <3> QED BY <3>1, <3>2
  <2>3. \A w \in Nodes : \A u \in DOMAIN connected'[w] :
          u \in Nodes /\ connected'[w][u] \in Tasks
    BY <1>1, <1>7 DEF TypeOK
  <2>4. task' \in [Tasks -> TaskStates]
    BY <1>1, <1>2, <1>3, TaskChanges
  <2> QED BY <1>1, <1>3, <1>5, <1>6, <1>7, <2>1, <2>2, <2>3, <2>4 DEF TypeOK
<1>9. TunnelsStay
  BY <1>3, <1>5 DEF TunnelsStay, IsEstablished, SameTunnel
<1>10. IndexIsEstablished'
  <2> SUFFICES ASSUME NEW w \in Nodes, NEW u \in DOMAIN index_by_vpn_addr'[w]
               PROVE  /\ index_by_vpn_addr'[w][u] \in DOMAIN peers_by_index'[w]
                      /\ peers_by_index'[w][index_by_vpn_addr'[w][u]].state = "Established"
                      /\ peers_by_index'[w][index_by_vpn_addr'[w][u]].vpn_addr = u
    BY DEF IndexIsEstablished, IsEstablished
  <2>1. CASE w = n /\ u = m.src
    BY <1>3, <1>4, <1>5, <1>6, <2>1
  <2>2. CASE ~(w = n /\ u = m.src)
    <3> DEFINE j == index_by_vpn_addr[w][u]
    <3>1. u \in DOMAIN index_by_vpn_addr[w] /\ index_by_vpn_addr'[w][u] = j
      BY <1>6, <2>2
    <3>2. j \in Indexes /\ IsEstablished(w, j) /\ peers_by_index[w][j].vpn_addr = u
      BY <1>1, <3>1 DEF SessionInv, IndexIsEstablished, TypeOK
    <3>3. SameTunnel(w, j)
      BY <1>9, <3>2 DEF TunnelsStay
    <3> QED BY <3>1, <3>2, <3>3 DEF SameTunnel
  <2> QED BY <2>1, <2>2
<1>11. RepliesHaveTunnels'
  BY <1>3, <1>9, Kept DEF SessionInv, RepliesHaveTunnels
<1>12. InitiatorHasPeer'
  <2> SUFFICES ASSUME NEW w \in Nodes, NEW j \in DOMAIN peers_by_index'[w],
                      peers_by_index'[w][j].state = "Established",
                      peers_by_index'[w][j].role = "initiator"
               PROVE  LET a == peers_by_index'[w][j]
                          f == peers_by_index'[a.vpn_addr][a.remote_index]
                      IN  /\ a.remote_index \in DOMAIN peers_by_index'[a.vpn_addr]
                          /\ f.state = "Established"
                          /\ f.role = "responder"
                          /\ f.keys = a.keys
                          /\ f.vpn_addr = w
                          /\ f.remote_index = j
    BY DEF InitiatorHasPeer, IsEstablished
  <2>1. CASE w = n /\ j = i
    <3>1. LET f == peers_by_index'[m.src][m.responder_index]
          IN  /\ m.responder_index \in DOMAIN peers_by_index'[m.src]
              /\ f.state = "Established"
              /\ f.role = "responder"
              /\ f.keys = m.keys
              /\ f.vpn_addr = n
              /\ f.remote_index = i
      BY <1>2, <1>3, <1>11 DEF RepliesHaveTunnels, IsEstablished
    <3> QED BY <1>4, <1>5, <2>1, <3>1
  <2>2. CASE ~(w = n /\ j = i)
    <3> DEFINE a == peers_by_index[w][j]
    <3>1. j \in DOMAIN peers_by_index[w] /\ peers_by_index'[w][j] = a
      BY <1>5, <2>2
    <3>2. a \in EstablishedStates
      BY <1>1, <3>1, StateTypes
    <3>3. a.vpn_addr \in Nodes /\ a.remote_index \in Indexes
      BY <3>2 DEF EstablishedStates
    <3>4. LET f == peers_by_index[a.vpn_addr][a.remote_index] IN
          /\ IsEstablished(a.vpn_addr, a.remote_index)
          /\ f.role = "responder"
          /\ f.keys = a.keys
          /\ f.vpn_addr = w
          /\ f.remote_index = j
      BY <3>1 DEF SessionInv, InitiatorHasPeer
    <3>5. SameTunnel(a.vpn_addr, a.remote_index)
      BY <1>9, <3>3, <3>4 DEF TunnelsStay
    <3> QED BY <3>1, <3>4, <3>5 DEF SameTunnel
  <2> QED BY <2>1, <2>2
<1>13. SendersBelong'
  <2> SUFFICES ASSUME NEW w \in Nodes, NEW u \in DOMAIN connected'[w]
               PROVE  /\ NodeOf[connected'[w][u]] = w
                      /\ task'[connected'[w][u]].pc # "idle"
                      /\ task'[connected'[w][u]].target = u
    BY DEF SendersBelong
  <2> DEFINE k == connected[w][u]
  <2>1. u \in DOMAIN connected[w] /\ connected'[w][u] = k
    BY <1>7
  <2>2. /\ k \in Tasks
        /\ NodeOf[k] = w
        /\ task[k].pc # "idle"
        /\ task[k].target = u
    BY <1>1, <2>1 DEF SessionInv, SendersBelong, TypeOK
  <2>3. Woken(n, m.src)[k].pc # "idle" /\ Woken(n, m.src)[k].target = u
    BY <1>1, <1>2, <2>2, TaskChanges
  <2> QED BY <1>3, <2>1, <2>2, <2>3
<1>14. WaitersAreReachable'
  <2> SUFFICES ASSUME NEW k \in Tasks, Woken(n, m.src)[k].pc = "waiting"
               PROVE  /\ task'[k].target \in DOMAIN connected'[NodeOf[k]]
                      /\ connected'[NodeOf[k]][task'[k].target] = k
    BY <1>3 DEF WaitersAreReachable
  <2>1. task[k].pc = "waiting" /\ task'[k].target = task[k].target
    BY <1>1, <1>2, <1>3, TaskChanges
  <2>2. /\ task[k].target \in DOMAIN connected[NodeOf[k]]
        /\ connected[NodeOf[k]][task[k].target] = k
        /\ NodeOf[k] \in Nodes
    BY <2>1, SessionAssumption DEF SessionInv, WaitersAreReachable
  <2>3. ~(NodeOf[k] = n /\ task[k].target = m.src)
    BY <1>1, <1>2, <2>1, <2>2, TaskChanges
  <2> QED BY <1>7, <2>1, <2>2, <2>3
<1>15. ConnectedMeansTunnel'
  <2> SUFFICES ASSUME NEW k \in Tasks, Woken(n, m.src)[k].pc \in {"signalled", "Ok"}
               PROVE  Woken(n, m.src)[k].target \in DOMAIN index_by_vpn_addr'[NodeOf[k]]
    BY <1>3 DEF ConnectedMeansTunnel
  <2>1. CASE task[k].pc = "waiting"
    <3>1. /\ m.src \in DOMAIN connected[n] /\ connected[n][m.src] = k
          /\ Woken(n, m.src)[k].target = task[k].target
      BY <1>1, <1>2, <2>1, TaskChanges
    <3>2. NodeOf[k] = n /\ task[k].target = m.src
      BY <3>1 DEF SessionInv, SendersBelong
    <3> QED BY <1>6, <3>1, <3>2
  <2>2. CASE task[k].pc # "waiting"
    <3>1. Woken(n, m.src)[k] = task[k]
      BY <1>1, <1>2, <2>2, TaskChanges
    <3>2. task[k].target \in DOMAIN index_by_vpn_addr[NodeOf[k]]
      BY <3>1 DEF SessionInv, ConnectedMeansTunnel
    <3> QED BY <1>6, <3>1, <3>2, SessionAssumption
  <2> QED BY <2>1, <2>2
<1> QED
  BY <1>8, <1>10, <1>11, <1>12, <1>13, <1>14, <1>15 DEF SessionInv

\* A reply that does not open or verify costs the handshake, never a tunnel.
LEMMA FailStage2Inv ==
    ASSUME SessionInv, NEW n \in Nodes, NEW m \in network, FailStage2(n, m)
    PROVE  SessionInv'
<1>1. TypeOK
  BY DEF SessionInv
<1>2. /\ m.index \in DOMAIN peers_by_index[n]
      /\ peers_by_index[n][m.index].state = "Handshaking"
      /\ UNCHANGED <<index_by_vpn_addr, connected, task, network, inbox, ephs, sends>>
      /\ peers_by_index' = [peers_by_index EXCEPT ![n] = Remove(@, m.index)]
  BY DEF FailStage2, IsHandshaking
<1>3. /\ DOMAIN peers_by_index' = Nodes
      /\ \A w \in Nodes : w # n => peers_by_index'[w] = peers_by_index[w]
      /\ DOMAIN peers_by_index'[n] = DOMAIN peers_by_index[n] \ {m.index}
      /\ \A j \in DOMAIN peers_by_index[n] :
            j # m.index => peers_by_index'[n][j] = peers_by_index[n][j]
  BY <1>1, <1>2 DEF TypeOK, Remove
<1>4. TypeOK'
  <2>1. \A w \in Nodes : \A j \in DOMAIN peers_by_index'[w] :
          /\ j \in Indexes
          /\ peers_by_index'[w][j] \in HandshakingStates \cup EstablishedStates
    BY <1>1, <1>3 DEF TypeOK
  <2> QED BY <1>1, <1>2, <1>3, <2>1 DEF TypeOK
<1>5. TunnelsStay
  BY <1>2, <1>3 DEF TunnelsStay, IsEstablished, SameTunnel
<1>6. OnlyOldInitiators
  BY <1>3 DEF OnlyOldInitiators, IsEstablished
<1>7. RepliesHaveTunnels'
  BY <1>2, <1>5, Kept DEF SessionInv, RepliesHaveTunnels
<1> QED
  BY <1>2, <1>4, <1>5, <1>6, <1>7, Kept, CallsKept DEF SessionInv

\* A step that changes only the counters of one tunnel keeps every tunnel.
LEMMA CountersOnly ==
    ASSUME SessionInv, NEW n \in Nodes, NEW i, IsEstablished(n, i),
           NEW e \in EstablishedStates,
           e.role = peers_by_index[n][i].role,
           e.keys = peers_by_index[n][i].keys,
           e.vpn_addr = peers_by_index[n][i].vpn_addr,
           e.remote_index = peers_by_index[n][i].remote_index,
           peers_by_index' = [peers_by_index EXCEPT ![n] = [@ EXCEPT ![i] = e]]
    PROVE  /\ DOMAIN peers_by_index' = Nodes
           /\ \A w \in Nodes : \A j \in DOMAIN peers_by_index'[w] :
                 /\ j \in Indexes
                 /\ peers_by_index'[w][j] \in HandshakingStates \cup EstablishedStates
           /\ TunnelsStay
           /\ OnlyOldInitiators
<1>1. TypeOK
  BY DEF SessionInv
<1>2. i \in DOMAIN peers_by_index[n] /\ peers_by_index[n][i].state = "Established"
  BY DEF IsEstablished
<1>3. e.state = "Established"
  BY DEF EstablishedStates
<1>4. /\ DOMAIN peers_by_index' = Nodes
      /\ \A w \in Nodes : w # n => peers_by_index'[w] = peers_by_index[w]
      /\ DOMAIN peers_by_index'[n] = DOMAIN peers_by_index[n]
      /\ peers_by_index'[n][i] = e
      /\ \A j \in DOMAIN peers_by_index[n] :
            j # i => peers_by_index'[n][j] = peers_by_index[n][j]
  BY <1>1, <1>2 DEF TypeOK
<1>5. \A w \in Nodes : \A j \in DOMAIN peers_by_index'[w] :
         /\ j \in Indexes
         /\ peers_by_index'[w][j] \in HandshakingStates \cup EstablishedStates
  BY <1>1, <1>4 DEF TypeOK
<1>6. TunnelsStay
  BY <1>3, <1>4 DEF TunnelsStay, IsEstablished, SameTunnel
<1>7. OnlyOldInitiators
  BY <1>2, <1>4 DEF OnlyOldInitiators, IsEstablished
<1> QED BY <1>4, <1>5, <1>6, <1>7

\* send: the tunnel's counter moves, and a data packet goes out.
LEMMA SendInv ==
    ASSUME SessionInv, NEW n \in Nodes, NEW v \in Nodes, Send(n, v)
    PROVE  SessionInv'
<1> DEFINE i == index_by_vpn_addr[n][v]
           e == peers_by_index[n][i]
           d == Data(n, v, e, NextCounter(e), sends)
<1>1. TypeOK
  BY DEF SessionInv
<1>2. /\ IsEstablished(n, i)
      /\ sends \in Nat /\ sends' \in 0..MaxSends
      /\ network' = network \cup {d}
      /\ peers_by_index' = [peers_by_index EXCEPT ![n] =
            [@ EXCEPT ![i] = [e EXCEPT !.send_counter = NextCounter(e)]]]
      /\ UNCHANGED <<index_by_vpn_addr, connected, task, inbox, ephs>>
  <2>1. IsEstablished(n, i) /\ network' = network \cup {d}
    BY DEF Send
  <2>2. sends \in Nat /\ sends' \in 0..MaxSends
    BY <1>1, SessionAssumption DEF Send, TypeOK
  <2>3. peers_by_index' = [peers_by_index EXCEPT ![n][i].send_counter = NextCounter(e)]
    BY DEF Send
  <2>4. peers_by_index' = [peers_by_index EXCEPT ![n] =
            [@ EXCEPT ![i] = [e EXCEPT !.send_counter = NextCounter(e)]]]
    BY <2>3
  <2>5. UNCHANGED <<index_by_vpn_addr, connected, task, inbox, ephs>>
    BY DEF Send
  <2> QED BY <2>1, <2>2, <2>4, <2>5
<1>3. e \in EstablishedStates
  BY <1>1, <1>2, StateTypes DEF IsEstablished
<1>4. NextCounter(e) \in Nat
  BY <1>3 DEF NextCounter, EstablishedStates
<1> DEFINE e1 == [e EXCEPT !.send_counter = NextCounter(e)]
<1>5. /\ e1 \in EstablishedStates
      /\ e1.role = e.role /\ e1.keys = e.keys
      /\ e1.vpn_addr = e.vpn_addr /\ e1.remote_index = e.remote_index
  BY <1>3, <1>4 DEF EstablishedStates
<1>6. d \in Datas /\ d.type = "data"
  BY <1>2, <1>3, <1>4 DEF Data, Datas, EstablishedStates, SendKey
<1> HIDE DEF d, e1, i
<1>7. /\ DOMAIN peers_by_index' = Nodes
      /\ \A w \in Nodes : \A j \in DOMAIN peers_by_index'[w] :
            /\ j \in Indexes
            /\ peers_by_index'[w][j] \in HandshakingStates \cup EstablishedStates
      /\ TunnelsStay
      /\ OnlyOldInitiators
  <2>1. peers_by_index' = [peers_by_index EXCEPT ![n] = [@ EXCEPT ![i] = e1]]
    BY <1>2 DEF e1
  <2> QED BY <1>2, <1>5, <2>1, CountersOnly
<1>8. TypeOK'
  BY <1>1, <1>2, <1>6, <1>7 DEF TypeOK
<1>9. RepliesHaveTunnels'
  <2>1. \A m \in network' : m.type # "data" => m \in network
    BY <1>2, <1>6
  <2> QED BY <1>7, <2>1, Kept DEF SessionInv, RepliesHaveTunnels
<1> QED
  BY <1>2, <1>7, <1>8, <1>9, Kept, CallsKept DEF SessionInv

\* handle_message: the counter is used up, and what opens is handed out.
LEMMA HandleMessageInv ==
    ASSUME SessionInv, NEW n \in Nodes, NEW m \in network, HandleMessage(n, m)
    PROVE  SessionInv'
<1> DEFINE e == peers_by_index[n][m.index]
           e1 == [e EXCEPT !.received = @ \cup {m.counter}]
<1>1. TypeOK
  BY DEF SessionInv
<1>2. /\ IsEstablished(n, m.index)
      /\ m.type = "data"
      /\ inbox' = IF m.key = RecvKey(e)
                  THEN [inbox EXCEPT ![n] = Append(@, [from |-> e.vpn_addr, packet |-> m])]
                  ELSE inbox
      /\ UNCHANGED <<index_by_vpn_addr, connected, task, network, ephs, sends>>
  BY DEF HandleMessage
<1>3. peers_by_index' = [peers_by_index EXCEPT ![n] = [@ EXCEPT ![m.index] = e1]]
  <2>1. peers_by_index' = [peers_by_index EXCEPT ![n][m.index].received =
                              @ \cup {m.counter}]
    BY DEF HandleMessage
  <2> QED BY <2>1
<1>4. m \in Datas
  BY <1>1, <1>2, MessageTypes
<1>5. e \in EstablishedStates
  BY <1>1, <1>2, StateTypes DEF IsEstablished
<1>6. /\ e1 \in EstablishedStates
      /\ e1.role = e.role /\ e1.keys = e.keys
      /\ e1.vpn_addr = e.vpn_addr /\ e1.remote_index = e.remote_index
  <2>1. e.received \cup {m.counter} \in SUBSET Nat
    BY <1>4, <1>5 DEF Datas, EstablishedStates
  <2> QED BY <1>5, <2>1 DEF EstablishedStates
<1> HIDE DEF e1
<1>7. /\ DOMAIN peers_by_index' = Nodes
      /\ \A w \in Nodes : \A j \in DOMAIN peers_by_index'[w] :
            /\ j \in Indexes
            /\ peers_by_index'[w][j] \in HandshakingStates \cup EstablishedStates
      /\ TunnelsStay
      /\ OnlyOldInitiators
  BY <1>2, <1>3, <1>6, CountersOnly
<1>8. inbox' \in [Nodes -> Seq([from : Nodes, packet : Datas])]
  <2>1. [from |-> e.vpn_addr, packet |-> m] \in [from : Nodes, packet : Datas]
    BY <1>4, <1>5 DEF EstablishedStates
  <2>2. inbox \in [Nodes -> Seq([from : Nodes, packet : Datas])]
    BY <1>1 DEF TypeOK
  <2> DEFINE S == [from : Nodes, packet : Datas]
             x == [from |-> e.vpn_addr, packet |-> m]
  <2> HIDE DEF S
  <2>3. inbox[n] \in Seq(S) /\ x \in S
    BY <2>1, <2>2 DEF S
  <2>4. Append(inbox[n], x) \in Seq(S)
    BY <2>3
  <2>5. inbox' = inbox \/ inbox' = [inbox EXCEPT ![n] = Append(inbox[n], x)]
    BY <1>2
  <2> QED BY <2>2, <2>4, <2>5 DEF S
<1>9. TypeOK'
  BY <1>1, <1>2, <1>7, <1>8 DEF TypeOK
<1>10. RepliesHaveTunnels'
  BY <1>2, <1>7, Kept DEF SessionInv, RepliesHaveTunnels
<1> QED
  BY <1>2, <1>7, <1>9, <1>10, Kept, CallsKept DEF SessionInv

\* connect when stage 0 fails: the waiter it leaves behind belongs to no waiting call.
LEMMA ConnectFailsInv ==
    ASSUME SessionInv, NEW k \in Tasks, NEW v \in Nodes, ConnectFails(k, v)
    PROVE  SessionInv'
<1> DEFINE n == NodeOf[k]
<1>1. /\ n \in Nodes
      /\ task[k].pc = "idle"
      /\ UNCHANGED <<peers_by_index, index_by_vpn_addr, network, inbox, ephs, sends>>
      /\ connected' = [connected EXCEPT ![n] = Insert(@, v, k)]
      /\ task' = [Superseded(n, v) EXCEPT ![k] = [pc |-> "Noise", target |-> v]]
  BY SessionAssumption DEF ConnectFails
<1>2. TypeOK
  BY DEF SessionInv
<1>3. /\ DOMAIN connected' = Nodes
      /\ \A w \in Nodes : w # n => connected'[w] = connected[w]
      /\ DOMAIN connected'[n] = DOMAIN connected[n] \cup {v}
      /\ connected'[n][v] = k
      /\ \A w \in DOMAIN connected[n] : w # v => connected'[n][w] = connected[n][w]
  BY <1>1, <1>2 DEF TypeOK, Insert
<1>4. /\ task' \in [Tasks -> TaskStates]
      /\ task'[k].pc = "Noise" /\ task'[k].target = v
      /\ \A j \in Tasks : j # k => task'[j] = Superseded(n, v)[j]
  <2>1. [pc |-> "Noise", target |-> v] \in TaskStates
    BY DEF TaskStates
  <2> QED BY <1>1, <1>2, <2>1, TaskChanges
<1>5. TypeOK'
  <2>1. \A w \in Nodes : \A u \in DOMAIN connected'[w] :
          u \in Nodes /\ connected'[w][u] \in Tasks
    BY <1>2, <1>3 DEF TypeOK
  <2> QED BY <1>1, <1>2, <1>3, <1>4, <2>1 DEF TypeOK
<1>6. SendersBelong'
  <2> SUFFICES ASSUME NEW w \in Nodes, NEW u \in DOMAIN connected'[w]
               PROVE  /\ NodeOf[connected'[w][u]] = w
                      /\ task'[connected'[w][u]].pc # "idle"
                      /\ task'[connected'[w][u]].target = u
    BY DEF SendersBelong
  <2>1. CASE w = n /\ u = v
    BY <1>3, <1>4, <2>1
  <2>2. CASE ~(w = n /\ u = v)
    <3> DEFINE j == connected[w][u]
    <3>1. u \in DOMAIN connected[w] /\ connected'[w][u] = j
      BY <1>3, <2>2
    <3>2. /\ j \in Tasks
          /\ NodeOf[j] = w
          /\ task[j].pc # "idle"
          /\ task[j].target = u
      BY <1>2, <3>1 DEF SessionInv, SendersBelong, TypeOK
    <3>3. task'[j] = Superseded(n, v)[j]
      BY <1>1, <1>4, <3>2
    <3>4. Superseded(n, v)[j].pc # "idle" /\ Superseded(n, v)[j].target = u
      BY <1>1, <1>2, <3>2, TaskChanges
    <3> QED BY <3>1, <3>2, <3>3, <3>4
  <2> QED BY <2>1, <2>2
<1>7. WaitersAreReachable'
  <2> SUFFICES ASSUME NEW j \in Tasks, task'[j].pc = "waiting"
               PROVE  /\ task'[j].target \in DOMAIN connected'[NodeOf[j]]
                      /\ connected'[NodeOf[j]][task'[j].target] = j
    BY DEF WaitersAreReachable
  <2>1. j # k
    BY <1>4
  <2>2. task[j].pc = "waiting" /\ task'[j].target = task[j].target
    BY <1>1, <1>2, <1>4, <2>1, TaskChanges
  <2>3. /\ task[j].target \in DOMAIN connected[NodeOf[j]]
        /\ connected[NodeOf[j]][task[j].target] = j
        /\ NodeOf[j] \in Nodes
    BY <2>2, SessionAssumption DEF SessionInv, WaitersAreReachable
  <2>4. ~(NodeOf[j] = n /\ task[j].target = v)
    BY <1>1, <1>2, <1>4, <2>1, <2>2, <2>3, TaskChanges
  <2> QED BY <1>3, <2>2, <2>3, <2>4
<1>8. ConnectedMeansTunnel'
  <2> SUFFICES ASSUME NEW j \in Tasks, task'[j].pc \in {"signalled", "Ok"}
               PROVE  task'[j].target \in DOMAIN index_by_vpn_addr[NodeOf[j]]
    BY <1>1 DEF ConnectedMeansTunnel
  <2>1. j # k
    BY <1>4
  <2>2. ASSUME task[j].pc = "waiting" PROVE FALSE
    <3>1. Superseded(n, v)[j].pc \in {"waiting", "dropped"}
      BY <1>1, <1>2, <2>2, TaskChanges
    <3> QED BY <1>4, <2>1, <3>1
  <2>3. task'[j] = task[j]
    BY <1>1, <1>2, <1>4, <2>1, <2>2, TaskChanges
  <2> QED BY <2>3 DEF SessionInv, ConnectedMeansTunnel
<1>9. IndexIsEstablished' /\ RepliesHaveTunnels' /\ InitiatorHasPeer'
  BY <1>1, <1>5, TablesKept
<1> QED BY <1>5, <1>6, <1>7, <1>8, <1>9 DEF SessionInv

\* A connect call that returns changes nothing but itself.
LEMMA ReturnsInv ==
    ASSUME SessionInv, NEW k \in Tasks, Returns(k)
    PROVE  SessionInv'
<1>1. TypeOK
  BY DEF SessionInv
<1>2. /\ UNCHANGED <<peers_by_index, index_by_vpn_addr, connected, network, inbox,
                     ephs, sends>>
      /\ \E s \in {"Ok", "Cancelled", "Timeout"} :
            /\ task' = [task EXCEPT ![k].pc = s]
            /\ s = "Ok" => task[k].pc = "signalled"
            /\ task[k].pc \in {"signalled", "dropped", "waiting"}
  BY DEF Returns
<1>3. PICK s \in {"Ok", "Cancelled", "Timeout"} :
            /\ task' = [task EXCEPT ![k].pc = s]
            /\ s = "Ok" => task[k].pc = "signalled"
            /\ task[k].pc \in {"signalled", "dropped", "waiting"}
  BY <1>2
<1>4. task \in [Tasks -> TaskStates]
  BY <1>1 DEF TypeOK
<1>5. /\ [task[k] EXCEPT !.pc = s] \in TaskStates
      /\ [task[k] EXCEPT !.pc = s].pc = s
      /\ [task[k] EXCEPT !.pc = s].target = task[k].target
  BY <1>3, <1>4 DEF TaskStates
<1>6. /\ task' \in [Tasks -> TaskStates]
      /\ task'[k].pc = s
      /\ task'[k].target = task[k].target
      /\ \A j \in Tasks : j # k => task'[j] = task[j]
  BY <1>3, <1>4, <1>5
<1>7. TypeOK'
  BY <1>1, <1>2, <1>6 DEF TypeOK
<1>8. SendersBelong'
  <2> SUFFICES ASSUME NEW w \in Nodes, NEW u \in DOMAIN connected[w]
               PROVE  /\ NodeOf[connected[w][u]] = w
                      /\ task'[connected[w][u]].pc # "idle"
                      /\ task'[connected[w][u]].target = u
    BY <1>2 DEF SendersBelong
  <2>1. /\ connected[w][u] \in Tasks
        /\ NodeOf[connected[w][u]] = w
        /\ task[connected[w][u]].pc # "idle"
        /\ task[connected[w][u]].target = u
    BY <1>1 DEF SessionInv, SendersBelong, TypeOK
  <2> QED BY <1>6, <2>1
<1>9. WaitersAreReachable'
  <2>1. \A j \in Tasks : task'[j].pc = "waiting" => task'[j] = task[j]
    BY <1>6
  <2> QED BY <1>2, <2>1 DEF SessionInv, WaitersAreReachable
<1>10. ConnectedMeansTunnel'
  <2>1. \A j \in Tasks : task'[j].pc \in {"signalled", "Ok"} =>
           task[j].pc \in {"signalled", "Ok"} /\ task'[j].target = task[j].target
    BY <1>3, <1>6
  <2> QED BY <1>2, <2>1 DEF SessionInv, ConnectedMeansTunnel
<1>11. IndexIsEstablished' /\ RepliesHaveTunnels' /\ InitiatorHasPeer'
  BY <1>2, <1>7, TablesKept
<1> QED BY <1>7, <1>8, <1>9, <1>10, <1>11 DEF SessionInv

-----------------------------------------------------------------------------
\* Fresh sessions satisfy the invariant, and every step keeps it.
LEMMA SessionInductive == Spec => []SessionInv
<1>1. Init => SessionInv
  <2> SUFFICES ASSUME Init PROVE SessionInv
    OBVIOUS
  <2>1. TypeOK
    <3>1. task \in [Tasks -> TaskStates]
      BY DEF Init, TaskStates
    <3>2. inbox \in [Nodes -> Seq([from : Nodes, packet : Datas])]
      BY DEF Init
    <3> QED BY <3>1, <3>2, SessionAssumption DEF Init, TypeOK, Empty
  <2>2. \A k \in Tasks : task[k].pc = "idle"
    BY DEF Init
  <2> QED BY <2>1, <2>2
    DEF Init, Empty, SessionInv, IndexIsEstablished, SendersBelong,
        WaitersAreReachable, ConnectedMeansTunnel, RepliesHaveTunnels, InitiatorHasPeer
<1>2. SessionInv /\ [Next]_vars => SessionInv'
  <2> SUFFICES ASSUME SessionInv, [Next]_vars PROVE SessionInv'
    OBVIOUS
  <2>1. ASSUME NEW k \in Tasks, NEW v \in Nodes, Connect(k, v) PROVE SessionInv'
    BY <2>1, ConnectInv
  <2>6. ASSUME NEW k \in Tasks, NEW v \in Nodes, ConnectFails(k, v) PROVE SessionInv'
    BY <2>6, ConnectFailsInv
  <2>2. ASSUME NEW k \in Tasks, Returns(k) PROVE SessionInv'
    BY <2>2, ReturnsInv
  <2>3. ASSUME NEW n \in Nodes, NEW m \in network, Receive(n, m) PROVE SessionInv'
    BY <2>3, HandleStage0Inv, HandleStage2Inv, FailStage2Inv, HandleMessageInv
    DEF Receive
  <2>4. ASSUME NEW n \in Nodes, NEW v \in Nodes, Send(n, v) PROVE SessionInv'
    BY <2>4, SendInv
  <2>5. CASE UNCHANGED vars
    <3>0. TypeOK'
      BY <2>5 DEF vars, SessionInv, TypeOK
    <3>1. SendersBelong' /\ WaitersAreReachable' /\ ConnectedMeansTunnel'
      BY <2>5, CallsKept DEF vars
    <3>2. IndexIsEstablished' /\ RepliesHaveTunnels' /\ InitiatorHasPeer'
      BY <2>5, <3>0, TablesKept DEF vars
    <3> QED BY <3>0, <3>1, <3>2 DEF SessionInv
  <2> QED BY <2>1, <2>2, <2>3, <2>4, <2>5, <2>6 DEF Next
<1> QED BY <1>1, <1>2, PTL DEF Spec

\* Sessions, connect calls and datagrams are always well formed.
THEOREM SessionTypeCorrect == Spec => []TypeOK
<1>1. SessionInv => TypeOK
  BY DEF SessionInv
<1> QED BY <1>1, SessionInductive, PTL

\* The tables of session.rs never send a packet to a handshake, to nothing or to
\* another host's tunnel: for any nodes and calls, index_by_vpn_addr names an
\* established tunnel of the address.
THEOREM SessionIndexEstablished == Spec => []IndexIsEstablished
<1>1. SessionInv => IndexIsEstablished
  BY DEF SessionInv
<1> QED BY <1>1, SessionInductive, PTL

\* No waiting connect call is forgotten: `connected` holds its sender.
THEOREM SessionWaitersReachable == Spec => []WaitersAreReachable
<1>1. SessionInv => WaitersAreReachable
  BY DEF SessionInv
<1> QED BY <1>1, SessionInductive, PTL

\* connect returns Ok only with a tunnel to the address it was asked for.
THEOREM SessionConnected == Spec => []ConnectedMeansTunnel
<1>1. SessionInv => ConnectedMeansTunnel
  BY DEF SessionInv
<1> QED BY <1>1, SessionInductive, PTL

\* Every tunnel of an initiator has its other end, with the same keys, at the
\* index and the node the initiator sends to.
THEOREM SessionInitiatorHasPeer == Spec => []InitiatorHasPeer
<1>1. SessionInv => InitiatorHasPeer
  BY DEF SessionInv
<1> QED BY <1>1, SessionInductive, PTL

-----------------------------------------------------------------------------
(* Keys and counters.  An ephemeral is generated once: as an initiator's it *)
(* belongs to one handshake and then to the tunnel it became, as a          *)
(* responder's to one tunnel.  So the pair of ephemerals and the role, which *)
(* is the key, belong to one tunnel, and that tunnel counts.                *)

\* The handshake or tunnel at index i of n was started with ephemeral x.
StartedWith(n, i, x) ==
    /\ i \in DOMAIN peers_by_index[n]
    /\ LET e == peers_by_index[n][i] IN
       \/ e.state = "Handshaking" /\ e.eph = x
       \/ e.state = "Established" /\ e.role = "initiator" /\ e.keys[1] = x

\* The tunnel at index i of n answered with ephemeral x.
AnsweredWith(n, i, x) ==
    /\ IsEstablished(n, i)
    /\ peers_by_index[n][i].role = "responder"
    /\ peers_by_index[n][i].keys[2] = x

\* No ephemeral in use is one still to be generated, and none is used twice.
EphsAreUnique ==
    \A n1, n2 \in Nodes : \A i1, i2 \in Indexes : \A x \in Ephs :
        /\ StartedWith(n1, i1, x) \/ AnsweredWith(n1, i1, x) => x < ephs
        /\ StartedWith(n1, i1, x) /\ StartedWith(n2, i2, x) => n1 = n2 /\ i1 = i2
        /\ AnsweredWith(n1, i1, x) /\ AnsweredWith(n2, i2, x) => n1 = n2 /\ i1 = i2

\* m was sealed by the tunnel at index i of its sender.
SealedBy(m, i) ==
    /\ IsEstablished(m.sender, i)
    /\ LET e == peers_by_index[m.sender][i] IN
       /\ SendKey(e) = m.key
       /\ m.counter <= e.send_counter
       /\ e.vpn_addr = m.target

PacketsHaveTunnels ==
    \A m \in network : m.type = "data" => \E i \in Indexes : SealedBy(m, i)

\* What was handed out used up its counter in the tunnel it came through.
DeliveredIsMarked ==
    \A n \in Nodes : \A x \in DOMAIN inbox[n] :
        LET m == inbox[n][x].packet IN
        /\ IsEstablished(n, m.index)
        /\ m.counter \in peers_by_index[n][m.index].received

KeysInv == /\ EphsAreUnique
           /\ PacketsHaveTunnels
           /\ NoNonceReuse
           /\ DeliveredIsMarked
           /\ DeliveredAsSent

\* What a step may not do to the counters of a tunnel.
CountersGrow ==
    \A n \in Nodes : \A i \in Indexes : IsEstablished(n, i) =>
        /\ peers_by_index[n][i].send_counter <= peers_by_index'[n][i].send_counter
        /\ peers_by_index[n][i].received \subseteq peers_by_index'[n][i].received

\* A step uses at most the next ephemeral, and that one for index i0 of n0.
UsesNextEph(n0, i0) ==
    \A n \in Nodes : \A i \in Indexes : \A x \in Ephs :
        /\ StartedWith(n, i, x)' =>
              StartedWith(n, i, x) \/ (n = n0 /\ i = i0 /\ x = ephs /\ ephs' = ephs + 1)
        /\ AnsweredWith(n, i, x)' =>
              AnsweredWith(n, i, x) \/ (n = n0 /\ i = i0 /\ x = ephs /\ ephs' = ephs + 1)

-----------------------------------------------------------------------------
\* Ephemerals stay unique: a step that takes a new one takes the next.
LEMMA EphsKept ==
    ASSUME TypeOK, EphsAreUnique, NEW n0, NEW i0, UsesNextEph(n0, i0),
           ephs' \in {ephs, ephs + 1}
    PROVE  EphsAreUnique'
<1> SUFFICES ASSUME NEW n1 \in Nodes, NEW n2 \in Nodes, NEW i1 \in Indexes,
                    NEW i2 \in Indexes, NEW x \in Ephs
             PROVE  /\ StartedWith(n1, i1, x)' \/ AnsweredWith(n1, i1, x)' => x < ephs'
                    /\ StartedWith(n1, i1, x)' /\ StartedWith(n2, i2, x)' =>
                          n1 = n2 /\ i1 = i2
                    /\ AnsweredWith(n1, i1, x)' /\ AnsweredWith(n2, i2, x)' =>
                          n1 = n2 /\ i1 = i2
  BY DEF EphsAreUnique
<1>1. ephs \in Nat /\ x \in Nat
  BY SessionAssumption DEF TypeOK, Ephs
<1>2. /\ StartedWith(n1, i1, x) \/ AnsweredWith(n1, i1, x) => x < ephs
      /\ StartedWith(n2, i2, x) \/ AnsweredWith(n2, i2, x) => x < ephs
      /\ StartedWith(n1, i1, x) /\ StartedWith(n2, i2, x) => n1 = n2 /\ i1 = i2
      /\ AnsweredWith(n1, i1, x) /\ AnsweredWith(n2, i2, x) => n1 = n2 /\ i1 = i2
  BY DEF EphsAreUnique
<1>3. /\ StartedWith(n1, i1, x)' =>
            StartedWith(n1, i1, x) \/ (n1 = n0 /\ i1 = i0 /\ x = ephs /\ ephs' = ephs + 1)
      /\ StartedWith(n2, i2, x)' =>
            StartedWith(n2, i2, x) \/ (n2 = n0 /\ i2 = i0 /\ x = ephs /\ ephs' = ephs + 1)
      /\ AnsweredWith(n1, i1, x)' =>
            AnsweredWith(n1, i1, x) \/ (n1 = n0 /\ i1 = i0 /\ x = ephs /\ ephs' = ephs + 1)
      /\ AnsweredWith(n2, i2, x)' =>
            AnsweredWith(n2, i2, x) \/ (n2 = n0 /\ i2 = i0 /\ x = ephs /\ ephs' = ephs + 1)
  BY DEF UsesNextEph
<1> HIDE DEF StartedWith, AnsweredWith
<1> QED BY <1>1, <1>2, <1>3

\* A key belongs to one tunnel: two tunnels that send with it are the same.
LEMMA OneSender ==
    ASSUME TypeOK, EphsAreUnique,
           NEW n1 \in Nodes, NEW n2 \in Nodes, NEW i1 \in Indexes, NEW i2 \in Indexes,
           IsEstablished(n1, i1), IsEstablished(n2, i2),
           SendKey(peers_by_index[n1][i1]) = SendKey(peers_by_index[n2][i2])
    PROVE  n1 = n2 /\ i1 = i2
<1> DEFINE e == peers_by_index[n1][i1]
           f == peers_by_index[n2][i2]
<1>1. e \in EstablishedStates /\ f \in EstablishedStates
  BY StateTypes DEF IsEstablished
<1>2. /\ e.keys = f.keys /\ e.role = f.role
      /\ e.role \in Roles /\ e.keys[1] \in Ephs /\ e.keys[2] \in Ephs
  BY <1>1 DEF SendKey, EstablishedStates, Keys
<1>3. CASE e.role = "initiator"
  <2>1. StartedWith(n1, i1, e.keys[1]) /\ StartedWith(n2, i2, e.keys[1])
    BY <1>2, <1>3 DEF StartedWith, IsEstablished
  <2> QED BY <1>2, <2>1 DEF EphsAreUnique
<1>4. CASE e.role = "responder"
  <2>1. AnsweredWith(n1, i1, e.keys[2]) /\ AnsweredWith(n2, i2, e.keys[2])
    BY <1>2, <1>4 DEF AnsweredWith
  <2> QED BY <1>2, <2>1 DEF EphsAreUnique
<1> QED BY <1>2, <1>3, <1>4 DEF Roles

\* The tunnel a packet opens in is the other end of the one that sealed it.
LEMMA OpensAtThePeer ==
    ASSUME SessionInv, EphsAreUnique,
           NEW n \in Nodes, NEW i \in Indexes, IsEstablished(n, i),
           NEW s \in Nodes, NEW j \in Indexes, IsEstablished(s, j),
           SendKey(peers_by_index[s][j]) = RecvKey(peers_by_index[n][i])
    PROVE  peers_by_index[n][i].vpn_addr = s /\ peers_by_index[s][j].vpn_addr = n
<1> DEFINE e == peers_by_index[n][i]
           f == peers_by_index[s][j]
<1>1. e \in EstablishedStates /\ f \in EstablishedStates
  BY StateTypes DEF IsEstablished, SessionInv
<1>2. /\ e.keys = f.keys /\ e.role \in Roles /\ f.role \in Roles /\ e.role # f.role
      /\ e.vpn_addr \in Nodes /\ e.remote_index \in Indexes
      /\ f.vpn_addr \in Nodes /\ f.remote_index \in Indexes
      /\ e.state = "Established" /\ f.state = "Established"
  BY <1>1 DEF SendKey, RecvKey, EstablishedStates, Roles
<1>3. CASE e.role = "initiator"
  <2> DEFINE g == peers_by_index[e.vpn_addr][e.remote_index]
  <2>1. /\ IsEstablished(e.vpn_addr, e.remote_index)
        /\ g.role = "responder" /\ g.keys = e.keys /\ g.vpn_addr = n
    BY <1>2, <1>3 DEF SessionInv, InitiatorHasPeer, IsEstablished
  <2>2. SendKey(g) = SendKey(f)
    BY <1>2, <1>3, <2>1 DEF SendKey, Roles
  <2>3. e.vpn_addr = s /\ e.remote_index = j
    BY <1>2, <2>1, <2>2, OneSender DEF SessionInv
  <2> QED BY <2>1, <2>3
<1>4. CASE e.role = "responder"
  <2> DEFINE g == peers_by_index[f.vpn_addr][f.remote_index]
  <2>1. /\ IsEstablished(f.vpn_addr, f.remote_index)
        /\ g.role = "responder" /\ g.keys = f.keys /\ g.vpn_addr = s
    BY <1>2, <1>4 DEF SessionInv, InitiatorHasPeer, IsEstablished, Roles
  <2>2. SendKey(g) = SendKey(e)
    BY <1>2, <1>4, <2>1 DEF SendKey
  <2>3. f.vpn_addr = n /\ f.remote_index = i
    BY <1>2, <2>1, <2>2, OneSender DEF SessionInv
  <2> QED BY <2>1, <2>3
<1> QED BY <1>2, <1>3, <1>4 DEF Roles

\* Packets already on the network keep the tunnel that sealed them.
LEMMA SealedStay ==
    ASSUME TypeOK, TunnelsStay, CountersGrow, TypeOK',
           NEW m \in Datas, NEW i \in Indexes, SealedBy(m, i)
    PROVE  SealedBy(m, i)'
<1> DEFINE s == m.sender
<1>1. s \in Nodes /\ m.counter \in Nat
  BY DEF Datas
<1>2. IsEstablished(s, i) /\ SameTunnel(s, i)
  BY <1>1 DEF SealedBy, TunnelsStay
<1>3. IsEstablished(s, i)'
  BY <1>2 DEF SameTunnel, IsEstablished
<1>4. /\ peers_by_index[s][i].send_counter \in Nat
      /\ peers_by_index[s][i] \in EstablishedStates
  BY <1>1, <1>2, StateTypes DEF IsEstablished, EstablishedStates
<1>5. peers_by_index'[s][i] \in EstablishedStates
  BY <1>1, <1>3 DEF TypeOK, IsEstablished, HandshakingStates, EstablishedStates
<1>6. peers_by_index[s][i].send_counter <= peers_by_index'[s][i].send_counter
  BY <1>1, <1>2 DEF CountersGrow
<1>7. m.counter <= peers_by_index'[s][i].send_counter
  <2>1. peers_by_index'[s][i].send_counter \in Nat
    BY <1>5 DEF EstablishedStates
  <2>2. m.counter <= peers_by_index[s][i].send_counter
    BY DEF SealedBy
  <2> QED BY <1>1, <1>4, <1>6, <2>1, <2>2
<1>8. /\ SendKey(peers_by_index'[s][i]) = m.key
      /\ peers_by_index'[s][i].vpn_addr = m.target
  BY <1>2 DEF SameTunnel, SealedBy, SendKey
<1> QED BY <1>3, <1>7, <1>8 DEF SealedBy

\* What was handed out stays marked.
LEMMA MarkedStay ==
    ASSUME TypeOK, TunnelsStay, CountersGrow, NEW n \in Nodes, NEW m \in Datas,
           IsEstablished(n, m.index), m.counter \in peers_by_index[n][m.index].received
    PROVE  /\ IsEstablished(n, m.index)'
           /\ m.counter \in peers_by_index'[n][m.index].received
<1>1. m.index \in Indexes
  BY DEF Datas
<1>2. SameTunnel(n, m.index)
  BY <1>1 DEF TunnelsStay
<1> QED BY <1>1, <1>2 DEF SameTunnel, IsEstablished, CountersGrow

\* What the type invariant says of a packet handed out.
LEMMA InboxTypes ==
    ASSUME TypeOK, NEW n \in Nodes, NEW x \in DOMAIN inbox[n]
    PROVE  inbox[n][x].packet \in Datas
<1> DEFINE S == [from : Nodes, packet : Datas]
<1> HIDE DEF S
<1>1. inbox[n] \in Seq(S)
  BY DEF TypeOK, S
<1>2. inbox[n][x] \in S
  BY <1>1
<1> QED BY <1>2 DEF S

\* A step that sends no data packet and hands none out keeps what is said of them.
LEMMA PacketsKept ==
    ASSUME TypeOK, KeysInv, TypeOK', TunnelsStay, CountersGrow,
           \A m \in network' : m.type = "data" => m \in network,
           inbox' = inbox
    PROVE  PacketsHaveTunnels' /\ NoNonceReuse' /\ DeliveredIsMarked' /\ DeliveredAsSent'
<1>1. PacketsHaveTunnels'
  <2> SUFFICES ASSUME NEW m \in network', m.type = "data"
               PROVE  \E i \in Indexes : SealedBy(m, i)'
    BY DEF PacketsHaveTunnels
  <2>1. m \in network
    OBVIOUS
  <2>2. PICK i \in Indexes : SealedBy(m, i)
    BY <2>1 DEF KeysInv, PacketsHaveTunnels
  <2>3. m \in Datas
    BY <2>1, MessageTypes
  <2> QED BY <2>2, <2>3, SealedStay
<1>2. NoNonceReuse'
  BY DEF KeysInv, NoNonceReuse
<1>3. DeliveredIsMarked'
  <2> SUFFICES ASSUME NEW n \in Nodes, NEW x \in DOMAIN inbox[n]
               PROVE  /\ IsEstablished(n, inbox[n][x].packet.index)'
                      /\ inbox[n][x].packet.counter
                            \in peers_by_index'[n][inbox[n][x].packet.index].received
    BY DEF DeliveredIsMarked
  <2>1. inbox[n][x].packet \in Datas
    BY InboxTypes
  <2>2. /\ IsEstablished(n, inbox[n][x].packet.index)
        /\ inbox[n][x].packet.counter
              \in peers_by_index[n][inbox[n][x].packet.index].received
    BY DEF KeysInv, DeliveredIsMarked
  <2> QED BY <2>1, <2>2, MarkedStay
<1>4. DeliveredAsSent'
  BY DEF KeysInv, DeliveredAsSent
<1> QED BY <1>1, <1>2, <1>3, <1>4

\* The steps on the tables, by the entry they change: a new entry at a free index,
\* or one that takes the place of a handshake.
LEMMA EntryAdded ==
    ASSUME TypeOK, NEW n \in Nodes, NEW i \in Indexes, ~IsEstablished(n, i), NEW e,
           DOMAIN peers_by_index'[n] = DOMAIN peers_by_index[n] \cup {i},
           peers_by_index'[n][i] = e,
           \A w \in Nodes : w # n => peers_by_index'[w] = peers_by_index[w],
           \A j \in DOMAIN peers_by_index[n] :
              j # i => peers_by_index'[n][j] = peers_by_index[n][j]
    PROVE  /\ TunnelsStay
           /\ CountersGrow
           /\ \A w \in Nodes : \A j \in Indexes : \A x \in Ephs :
                 ~(w = n /\ j = i) =>
                    /\ StartedWith(w, j, x)' => StartedWith(w, j, x)
                    /\ AnsweredWith(w, j, x)' => AnsweredWith(w, j, x)
<1>1. ASSUME NEW w \in Nodes, NEW j \in Indexes, ~(w = n /\ j = i)
      PROVE  /\ j \in DOMAIN peers_by_index'[w] <=> j \in DOMAIN peers_by_index[w]
             /\ j \in DOMAIN peers_by_index[w] =>
                   peers_by_index'[w][j] = peers_by_index[w][j]
  BY <1>1
<1>2. ASSUME NEW w \in Nodes, NEW j \in Indexes, IsEstablished(w, j)
      PROVE  /\ SameTunnel(w, j)
             /\ peers_by_index'[w][j] = peers_by_index[w][j]
  BY <1>1, <1>2 DEF IsEstablished, SameTunnel
<1>3. TunnelsStay
  BY <1>2 DEF TunnelsStay
<1>4. CountersGrow
  <2> SUFFICES ASSUME NEW w \in Nodes, NEW j \in Indexes, IsEstablished(w, j)
               PROVE  /\ peers_by_index[w][j].send_counter <= peers_by_index'[w][j].send_counter
                      /\ peers_by_index[w][j].received \subseteq peers_by_index'[w][j].received
    BY DEF CountersGrow
  <2>1. peers_by_index[w][j].send_counter \in Nat
    BY StateTypes DEF IsEstablished, EstablishedStates
  <2> QED BY <1>2, <2>1
<1>5. ASSUME NEW w \in Nodes, NEW j \in Indexes, NEW x \in Ephs, ~(w = n /\ j = i)
      PROVE  /\ StartedWith(w, j, x)' => StartedWith(w, j, x)
             /\ AnsweredWith(w, j, x)' => AnsweredWith(w, j, x)
  BY <1>1, <1>5 DEF StartedWith, AnsweredWith, IsEstablished
<1> QED BY <1>3, <1>4, <1>5

\* connect: the handshake it starts is the only one with the next ephemeral.
LEMMA ConnectKeys ==
    ASSUME SessionInv, KeysInv, NEW k \in Tasks, NEW v \in Nodes, Connect(k, v), SessionInv'
    PROVE  KeysInv'
<1> DEFINE n == NodeOf[k]
<1>1. TypeOK /\ TypeOK' /\ n \in Nodes
  BY SessionAssumption DEF SessionInv
<1>2. ephs' = ephs + 1 /\ inbox' = inbox
  BY DEF Connect
<1>3. PICK i \in FreeIndexes(n), remote \in KnownAddrs[n][v] :
          /\ peers_by_index' = [peers_by_index EXCEPT ![n] =
                                   Insert(@, i, Handshaking(ephs))]
          /\ network' = network \cup {Stage0(n, remote, ephs, i)}
  BY DEF Connect
<1>4. i \in Indexes /\ i \notin DOMAIN peers_by_index[n]
  BY DEF FreeIndexes
<1>5. /\ \A w \in Nodes : w # n => peers_by_index'[w] = peers_by_index[w]
      /\ DOMAIN peers_by_index'[n] = DOMAIN peers_by_index[n] \cup {i}
      /\ peers_by_index'[n][i] = Handshaking(ephs)
      /\ \A j \in DOMAIN peers_by_index[n] : peers_by_index'[n][j] = peers_by_index[n][j]
  BY <1>1, <1>3, <1>4 DEF TypeOK, Insert
<1>6. ~IsEstablished(n, i)
  BY <1>4 DEF IsEstablished
<1>7. /\ TunnelsStay
      /\ CountersGrow
      /\ \A w \in Nodes : \A j \in Indexes : \A x \in Ephs :
            ~(w = n /\ j = i) =>
               /\ StartedWith(w, j, x)' => StartedWith(w, j, x)
               /\ AnsweredWith(w, j, x)' => AnsweredWith(w, j, x)
  BY <1>1, <1>4, <1>5, <1>6, EntryAdded
<1>8. ASSUME NEW x \in Ephs
      PROVE  /\ StartedWith(n, i, x)' => x = ephs
             /\ ~AnsweredWith(n, i, x)'
  BY <1>5 DEF StartedWith, AnsweredWith, IsEstablished, Handshaking
<1>9. UsesNextEph(n, i)
  BY <1>2, <1>7, <1>8 DEF UsesNextEph
<1>10. EphsAreUnique'
  BY <1>1, <1>2, <1>9, EphsKept DEF KeysInv
<1>11. \A m \in network' : m.type = "data" => m \in network
  BY <1>3 DEF Stage0
<1> QED BY <1>1, <1>2, <1>7, <1>10, <1>11, PacketsKept DEF KeysInv

\* The responder answers with the next ephemeral.
LEMMA HandleStage0Keys ==
    ASSUME SessionInv, KeysInv, NEW n \in Nodes, NEW m \in network, HandleStage0(n, m),
           SessionInv'
    PROVE  KeysInv'
<1> DEFINE keys == <<m.eph, ephs>>
           e == Established("responder", keys, m.src, m.cert, m.initiator_index)
<1>1. TypeOK /\ TypeOK'
  BY DEF SessionInv
<1>2. ephs' = ephs + 1 /\ inbox' = inbox
  BY DEF HandleStage0
<1>3. PICK i \in FreeIndexes(n) :
          /\ network' = network \cup {Stage2(n, m.src, m.initiator_index, keys, i)}
          /\ peers_by_index' = [peers_by_index EXCEPT ![n] = Insert(@, i, e)]
  BY DEF HandleStage0
<1>4. i \in Indexes /\ i \notin DOMAIN peers_by_index[n]
  BY DEF FreeIndexes
<1>4a. e.state = "Established" /\ e.role = "responder" /\ e.keys[2] = ephs
  BY DEF Established
<1>11. \A x \in network' : x.type = "data" => x \in network
  BY <1>3 DEF Stage2
<1> HIDE DEF e
<1>5. /\ \A w \in Nodes : w # n => peers_by_index'[w] = peers_by_index[w]
      /\ DOMAIN peers_by_index'[n] = DOMAIN peers_by_index[n] \cup {i}
      /\ peers_by_index'[n][i] = e
      /\ \A j \in DOMAIN peers_by_index[n] : peers_by_index'[n][j] = peers_by_index[n][j]
  BY <1>1, <1>3, <1>4 DEF TypeOK, Insert
<1>6. ~IsEstablished(n, i)
  BY <1>4 DEF IsEstablished
<1>7. /\ TunnelsStay
      /\ CountersGrow
      /\ \A w \in Nodes : \A j \in Indexes : \A x \in Ephs :
            ~(w = n /\ j = i) =>
               /\ StartedWith(w, j, x)' => StartedWith(w, j, x)
               /\ AnsweredWith(w, j, x)' => AnsweredWith(w, j, x)
  BY <1>1, <1>4, <1>5, <1>6, EntryAdded
<1>8. ASSUME NEW x \in Ephs
      PROVE  /\ ~StartedWith(n, i, x)'
             /\ AnsweredWith(n, i, x)' => x = ephs
  BY <1>4a, <1>5 DEF StartedWith, AnsweredWith, IsEstablished
<1>9. UsesNextEph(n, i)
  BY <1>2, <1>7, <1>8 DEF UsesNextEph
<1>10. EphsAreUnique'
  BY <1>1, <1>2, <1>9, EphsKept DEF KeysInv
<1> QED BY <1>1, <1>2, <1>7, <1>10, <1>11, PacketsKept DEF KeysInv

\* The tunnel that takes a handshake's place keeps its ephemeral.
LEMMA HandleStage2Keys ==
    ASSUME SessionInv, KeysInv, NEW n \in Nodes, NEW m \in network, HandleStage2(n, m),
           SessionInv'
    PROVE  KeysInv'
<1> DEFINE i == m.index
           e == Established("initiator", m.keys, m.src, m.cert, m.responder_index)
<1>1. TypeOK /\ TypeOK'
  BY DEF SessionInv
<1>2. /\ ephs' = ephs /\ inbox' = inbox /\ network' = network
      /\ i \in DOMAIN peers_by_index[n]
      /\ peers_by_index[n][i].state = "Handshaking"
      /\ peers_by_index[n][i].eph = m.keys[1]
      /\ peers_by_index' = [peers_by_index EXCEPT ![n] = Insert(@, i, e)]
  BY DEF HandleStage2, IsHandshaking, Finishes
<1>3. i \in Indexes /\ ephs \in Nat
  BY <1>1, <1>2, SessionAssumption DEF TypeOK
<1>4. e.state = "Established" /\ e.role = "initiator" /\ e.keys = m.keys
  BY DEF Established
<1> HIDE DEF e
<1>5. /\ \A w \in Nodes : w # n => peers_by_index'[w] = peers_by_index[w]
      /\ DOMAIN peers_by_index'[n] = DOMAIN peers_by_index[n] \cup {i}
      /\ peers_by_index'[n][i] = e
      /\ \A j \in DOMAIN peers_by_index[n] :
            j # i => peers_by_index'[n][j] = peers_by_index[n][j]
  BY <1>1, <1>2 DEF TypeOK, Insert
<1>6. ~IsEstablished(n, i)
  BY <1>2 DEF IsEstablished
<1> HIDE DEF i
<1>7. /\ TunnelsStay
      /\ CountersGrow
      /\ \A w \in Nodes : \A j \in Indexes : \A x \in Ephs :
            ~(w = n /\ j = i) =>
               /\ StartedWith(w, j, x)' => StartedWith(w, j, x)
               /\ AnsweredWith(w, j, x)' => AnsweredWith(w, j, x)
  BY <1>1, <1>3, <1>5, <1>6, EntryAdded
<1>8. ASSUME NEW x \in Ephs
      PROVE  /\ StartedWith(n, i, x)' => StartedWith(n, i, x)
             /\ ~AnsweredWith(n, i, x)'
  BY <1>2, <1>4, <1>5 DEF StartedWith, AnsweredWith, IsEstablished
<1>9. UsesNextEph(n, i)
  BY <1>2, <1>7, <1>8 DEF UsesNextEph
<1>10. EphsAreUnique'
  BY <1>1, <1>2, <1>9, EphsKept DEF KeysInv
<1> QED BY <1>1, <1>2, <1>7, <1>10, PacketsKept DEF KeysInv

\* A handshake that ends takes its ephemeral with it.
LEMMA FailStage2Keys ==
    ASSUME SessionInv, KeysInv, NEW n \in Nodes, NEW m \in network, FailStage2(n, m),
           SessionInv'
    PROVE  KeysInv'
<1>1. TypeOK /\ TypeOK'
  BY DEF SessionInv
<1>2. /\ m.index \in DOMAIN peers_by_index[n]
      /\ peers_by_index[n][m.index].state = "Handshaking"
      /\ UNCHANGED <<network, inbox, ephs>>
      /\ peers_by_index' = [peers_by_index EXCEPT ![n] = Remove(@, m.index)]
  BY DEF FailStage2, IsHandshaking
<1>3. /\ \A w \in Nodes : w # n => peers_by_index'[w] = peers_by_index[w]
      /\ DOMAIN peers_by_index'[n] = DOMAIN peers_by_index[n] \ {m.index}
      /\ \A j \in DOMAIN peers_by_index[n] :
            j # m.index => peers_by_index'[n][j] = peers_by_index[n][j]
  BY <1>1, <1>2 DEF TypeOK, Remove
<1>4. ASSUME NEW w \in Nodes, NEW j \in Indexes
      PROVE  /\ j \in DOMAIN peers_by_index'[w] =>
                   /\ j \in DOMAIN peers_by_index[w]
                   /\ peers_by_index'[w][j] = peers_by_index[w][j]
             /\ IsEstablished(w, j) => SameTunnel(w, j)
             /\ IsEstablished(w, j) => peers_by_index'[w][j] = peers_by_index[w][j]
  BY <1>2, <1>3 DEF IsEstablished, SameTunnel
<1>5. TunnelsStay
  BY <1>4 DEF TunnelsStay
<1>6. CountersGrow
  <2> SUFFICES ASSUME NEW w \in Nodes, NEW j \in Indexes, IsEstablished(w, j)
               PROVE  /\ peers_by_index[w][j].send_counter <= peers_by_index'[w][j].send_counter
                      /\ peers_by_index[w][j].received \subseteq peers_by_index'[w][j].received
    BY DEF CountersGrow
  <2>1. peers_by_index[w][j].send_counter \in Nat
    BY <1>1, StateTypes DEF IsEstablished, EstablishedStates
  <2> QED BY <1>4, <2>1
<1>7. UsesNextEph(n, m.index)
  BY <1>4 DEF UsesNextEph, StartedWith, AnsweredWith, IsEstablished
<1>8. EphsAreUnique'
  BY <1>1, <1>2, <1>7, EphsKept DEF KeysInv
<1> QED BY <1>1, <1>2, <1>5, <1>6, <1>8, PacketsKept DEF KeysInv

\* A step that moves only the counters of one tunnel, and forward.
LEMMA CountersMoved ==
    ASSUME SessionInv, EphsAreUnique, NEW n \in Nodes, NEW i \in Indexes,
           IsEstablished(n, i), NEW e \in EstablishedStates,
           e.role = peers_by_index[n][i].role,
           e.keys = peers_by_index[n][i].keys,
           e.vpn_addr = peers_by_index[n][i].vpn_addr,
           e.remote_index = peers_by_index[n][i].remote_index,
           peers_by_index[n][i].send_counter <= e.send_counter,
           peers_by_index[n][i].received \subseteq e.received,
           peers_by_index' = [peers_by_index EXCEPT ![n] = [@ EXCEPT ![i] = e]],
           ephs' = ephs
    PROVE  /\ TunnelsStay
           /\ CountersGrow
           /\ EphsAreUnique'
           /\ peers_by_index'[n][i] = e
<1>1. TypeOK
  BY DEF SessionInv
<1>2. TunnelsStay
  BY CountersOnly
<1>3. i \in DOMAIN peers_by_index[n] /\ peers_by_index[n][i].state = "Established"
  BY DEF IsEstablished
<1>4. /\ \A w \in Nodes : w # n => peers_by_index'[w] = peers_by_index[w]
      /\ DOMAIN peers_by_index'[n] = DOMAIN peers_by_index[n]
      /\ peers_by_index'[n][i] = e
      /\ \A j \in DOMAIN peers_by_index[n] :
            j # i => peers_by_index'[n][j] = peers_by_index[n][j]
  BY <1>1, <1>3 DEF TypeOK
<1>5. ASSUME NEW w \in Nodes, NEW j \in Indexes, ~(w = n /\ j = i)
      PROVE  /\ j \in DOMAIN peers_by_index'[w] <=> j \in DOMAIN peers_by_index[w]
             /\ j \in DOMAIN peers_by_index[w] =>
                   peers_by_index'[w][j] = peers_by_index[w][j]
  BY <1>4, <1>5
<1>6. CountersGrow
  <2> SUFFICES ASSUME NEW w \in Nodes, NEW j \in Indexes, IsEstablished(w, j)
               PROVE  /\ peers_by_index[w][j].send_counter <= peers_by_index'[w][j].send_counter
                      /\ peers_by_index[w][j].received \subseteq peers_by_index'[w][j].received
    BY DEF CountersGrow
  <2>1. peers_by_index[w][j].send_counter \in Nat
    BY <1>1, StateTypes DEF IsEstablished, EstablishedStates
  <2>2. CASE w = n /\ j = i
    BY <1>4, <2>2
  <2>3. CASE ~(w = n /\ j = i)
    BY <1>5, <2>1, <2>3 DEF IsEstablished
  <2> QED BY <2>2, <2>3
<1>7. e.state = "Established"
  BY DEF EstablishedStates
<1>8. UsesNextEph(n, i)
  <2> SUFFICES ASSUME NEW w \in Nodes, NEW j \in Indexes, NEW x \in Ephs
               PROVE  /\ StartedWith(w, j, x)' => StartedWith(w, j, x)
                      /\ AnsweredWith(w, j, x)' => AnsweredWith(w, j, x)
    BY DEF UsesNextEph
  <2>1. CASE w = n /\ j = i
    BY <1>3, <1>4, <1>7, <2>1 DEF StartedWith, AnsweredWith, IsEstablished
  <2>2. CASE ~(w = n /\ j = i)
    BY <1>5, <2>2 DEF StartedWith, AnsweredWith, IsEstablished
  <2> QED BY <2>1, <2>2
<1>9. EphsAreUnique'
  BY <1>1, <1>8, EphsKept
<1> QED BY <1>2, <1>4, <1>6, <1>9

\* send: the tunnel's next counter is one no packet under its key carries.
LEMMA SendKeys ==
    ASSUME SessionInv, KeysInv, NEW n \in Nodes, NEW v \in Nodes, Send(n, v), SessionInv'
    PROVE  KeysInv'
<1>0. PICK i : i = index_by_vpn_addr[n][v]
  OBVIOUS
<1> DEFINE e == peers_by_index[n][i]
           c == e.send_counter + 1
           e1 == [e EXCEPT !.send_counter = c]
<1>0a. PICK d : d = Data(n, v, e, c, sends)
  OBVIOUS
<1>1. TypeOK /\ TypeOK'
  BY DEF SessionInv
<1>2. /\ v \in DOMAIN index_by_vpn_addr[n]
      /\ IsEstablished(n, i)
      /\ network' = network \cup {d}
      /\ inbox' = inbox /\ ephs' = ephs
  BY <1>0, <1>0a DEF Send, NextCounter
<1>3. peers_by_index' = [peers_by_index EXCEPT ![n] = [@ EXCEPT ![i] = e1]]
  <2>1. peers_by_index' = [peers_by_index EXCEPT ![n][i].send_counter = c]
    BY <1>0, <1>0a DEF Send, NextCounter
  <2> QED BY <2>1
<1>4. i \in Indexes /\ e \in EstablishedStates /\ e.vpn_addr = v
  <2>1. e \in EstablishedStates
    BY <1>1, <1>2, StateTypes DEF IsEstablished
  <2> QED BY <1>0, <1>1, <1>2, <2>1 DEF TypeOK, SessionInv, IndexIsEstablished
<1>5. e.send_counter \in Nat /\ c \in Nat
  BY <1>4 DEF EstablishedStates
<1>6. /\ e1 \in EstablishedStates
      /\ e1.role = e.role /\ e1.keys = e.keys
      /\ e1.vpn_addr = e.vpn_addr /\ e1.remote_index = e.remote_index
      /\ e1.send_counter = c /\ e1.received = e.received
      /\ e1.state = "Established"
  BY <1>4, <1>5 DEF EstablishedStates
<1>7. /\ d.type = "data" /\ d.sender = n /\ d.target = v
      /\ d.key = SendKey(e) /\ d.counter = c
  BY <1>0a DEF Data
<1> HIDE DEF e1
<1>8. /\ TunnelsStay
      /\ CountersGrow
      /\ EphsAreUnique'
      /\ peers_by_index'[n][i] = e1
  <2>1. e.send_counter <= e1.send_counter /\ e.received \subseteq e1.received
    BY <1>5, <1>6
  <2> QED BY <1>2, <1>3, <1>4, <1>6, <2>1, CountersMoved DEF KeysInv
<1>9. SealedBy(d, i)'
  <2>1. IsEstablished(n, i)'
    BY <1>2, <1>4, <1>8 DEF TunnelsStay, SameTunnel, IsEstablished
  <2>2. /\ SendKey(e1) = d.key
        /\ d.counter <= e1.send_counter
        /\ e1.vpn_addr = d.target
    BY <1>4, <1>5, <1>6, <1>7 DEF SendKey
  <2> QED BY <1>7, <1>8, <2>1, <2>2 DEF SealedBy
<1>10. ASSUME NEW m \in network, m.type = "data"
       PROVE  /\ \E j \in Indexes : SealedBy(m, j)'
              /\ ~(m.key = d.key /\ m.counter = d.counter)
  <2>1. m \in Datas
    BY <1>1, <1>10, MessageTypes
  <2>2. PICK j \in Indexes : SealedBy(m, j)
    BY <1>10 DEF KeysInv, PacketsHaveTunnels
  <2>3. SealedBy(m, j)'
    BY <1>1, <1>8, <2>1, <2>2, SealedStay
  <2>4. ASSUME m.key = d.key PROVE m.counter # d.counter
    <3>1. m.sender \in Nodes /\ m.counter \in Nat
      BY <2>1 DEF Datas
    <3>2. /\ IsEstablished(m.sender, j)
          /\ SendKey(peers_by_index[m.sender][j]) = SendKey(peers_by_index[n][i])
          /\ m.counter <= peers_by_index[m.sender][j].send_counter
      BY <1>7, <2>2, <2>4 DEF SealedBy
    <3>3. m.sender = n /\ j = i
      BY <1>1, <1>2, <1>4, <2>2, <3>1, <3>2, OneSender DEF KeysInv
    <3> QED BY <1>5, <1>7, <3>1, <3>2, <3>3
  <2> QED BY <2>3, <2>4
<1>11. PacketsHaveTunnels'
  BY <1>2, <1>4, <1>9, <1>10 DEF PacketsHaveTunnels
<1>12. NoNonceReuse'
  <2> SUFFICES ASSUME NEW m1 \in network', NEW m2 \in network',
                      m1.type = "data", m2.type = "data",
                      m1.key = m2.key, m1.counter = m2.counter
               PROVE  m1 = m2
    BY DEF NoNonceReuse
  <2>1. CASE m1 \in network /\ m2 \in network
    BY <2>1 DEF KeysInv, NoNonceReuse
  <2>2. CASE m1 = d \/ m2 = d
    BY <1>2, <1>10, <2>2
  <2> QED BY <1>2, <2>1, <2>2
<1>13. DeliveredIsMarked'
  <2> SUFFICES ASSUME NEW w \in Nodes, NEW x \in DOMAIN inbox[w]
               PROVE  /\ IsEstablished(w, inbox[w][x].packet.index)'
                      /\ inbox[w][x].packet.counter
                            \in peers_by_index'[w][inbox[w][x].packet.index].received
    BY <1>2 DEF DeliveredIsMarked
  <2>1. inbox[w][x].packet \in Datas
    BY <1>1, InboxTypes
  <2>2. /\ IsEstablished(w, inbox[w][x].packet.index)
        /\ inbox[w][x].packet.counter
              \in peers_by_index[w][inbox[w][x].packet.index].received
    BY DEF KeysInv, DeliveredIsMarked
  <2> QED BY <1>1, <1>2, <1>8, <2>1, <2>2, MarkedStay
<1>14. DeliveredAsSent'
  BY <1>2 DEF KeysInv, DeliveredAsSent
<1> QED BY <1>8, <1>11, <1>12, <1>13, <1>14 DEF KeysInv

\* handle_message: what opens was sealed by the other end of the tunnel, and a
\* counter that is new to the tunnel is that of a packet not handed out yet.
LEMMA HandleMessageKeys ==
    ASSUME SessionInv, KeysInv, NEW n \in Nodes, NEW m \in network, HandleMessage(n, m),
           SessionInv'
    PROVE  KeysInv'
<1> DEFINE i == m.index
           e == peers_by_index[n][i]
           r == e.received \cup {m.counter}
           e1 == [e EXCEPT !.received = r]
           x == [from |-> e.vpn_addr, packet |-> m]
<1>1. TypeOK /\ TypeOK'
  BY DEF SessionInv
<1>2. /\ m.type = "data"
      /\ IsEstablished(n, i)
      /\ m.counter \notin e.received
      /\ inbox' = IF m.key = RecvKey(e)
                  THEN [inbox EXCEPT ![n] = Append(@, x)]
                  ELSE inbox
      /\ network' = network /\ ephs' = ephs
  BY DEF HandleMessage, NewCounter
<1>3. peers_by_index' = [peers_by_index EXCEPT ![n] = [@ EXCEPT ![i] = e1]]
  <2>1. peers_by_index' = [peers_by_index EXCEPT ![n][m.index].received =
                              @ \cup {m.counter}]
    BY DEF HandleMessage
  <2> QED BY <2>1
<1>4. m \in Datas /\ m.counter \in Nat /\ i \in Indexes /\ m.sender \in Nodes
  <2>1. m \in Datas
    BY <1>1, <1>2, MessageTypes
  <2> QED BY <2>1 DEF Datas
<1>5. e \in EstablishedStates /\ e.send_counter \in Nat
  <2>1. e \in EstablishedStates
    BY <1>1, <1>2, StateTypes DEF IsEstablished
  <2> QED BY <2>1 DEF EstablishedStates
<1>6. /\ e1 \in EstablishedStates
      /\ e1.role = e.role /\ e1.keys = e.keys
      /\ e1.vpn_addr = e.vpn_addr /\ e1.remote_index = e.remote_index
      /\ e1.send_counter = e.send_counter /\ e1.received = r
  <2>1. r \in SUBSET Nat
    BY <1>4, <1>5 DEF EstablishedStates
  <2> QED BY <1>5, <2>1 DEF EstablishedStates
<1> HIDE DEF e1, i
<1>7. /\ TunnelsStay
      /\ CountersGrow
      /\ EphsAreUnique'
      /\ peers_by_index'[n][i] = e1
  <2>1. e.send_counter <= e1.send_counter /\ e.received \subseteq e1.received
    BY <1>5, <1>6
  <2>2. IsEstablished(n, i) /\ i \in Indexes /\ ephs' = ephs /\ EphsAreUnique
    BY <1>2, <1>4 DEF KeysInv
  <2> QED BY <1>3, <1>6, <2>1, <2>2, CountersMoved
<1>8. PacketsHaveTunnels'
  <2> SUFFICES ASSUME NEW p \in network, p.type = "data"
               PROVE  \E j \in Indexes : SealedBy(p, j)'
    BY <1>2 DEF PacketsHaveTunnels
  <2>1. PICK j \in Indexes : SealedBy(p, j)
    BY DEF KeysInv, PacketsHaveTunnels
  <2>2. p \in Datas
    BY <1>1, MessageTypes
  <2> QED BY <1>1, <1>7, <2>1, <2>2, SealedStay
<1>9. NoNonceReuse'
  BY <1>2 DEF KeysInv, NoNonceReuse
<1>10. ASSUME NEW w \in Nodes, NEW y \in DOMAIN inbox[w], NEW p, p = inbox[w][y].packet
       PROVE  /\ IsEstablished(w, p.index)'
              /\ p.counter \in peers_by_index'[w][p.index].received
              /\ p.sender = inbox[w][y].from
              /\ p.target = w
              /\ w = n => p # m
  <2>1. p \in Datas
    BY <1>1, <1>10, InboxTypes
  <2>2. IsEstablished(w, p.index) /\ p.counter \in peers_by_index[w][p.index].received
    BY <1>10 DEF KeysInv, DeliveredIsMarked
  <2>3. IsEstablished(w, p.index)' /\ p.counter \in peers_by_index'[w][p.index].received
    BY <1>1, <1>7, <2>1, <2>2, MarkedStay
  <2>4. w = n => p # m
    BY <1>2, <2>2 DEF i
  <2> QED BY <1>10, <2>3, <2>4 DEF KeysInv, DeliveredAsSent
<1>11. IsEstablished(n, i)' /\ m.counter \in peers_by_index'[n][i].received
  <2>1. IsEstablished(n, i)'
    BY <1>2, <1>4, <1>7 DEF TunnelsStay, SameTunnel, IsEstablished
  <2> QED BY <1>6, <1>7, <2>1
<1>12. CASE m.key # RecvKey(e)
  <2>1. inbox' = inbox
    BY <1>2, <1>12
  <2>2. DeliveredIsMarked'
    BY <1>10, <2>1 DEF DeliveredIsMarked
  <2>3. DeliveredAsSent'
    BY <2>1 DEF KeysInv, DeliveredAsSent
  <2> QED BY <1>7, <1>8, <1>9, <2>2, <2>3 DEF KeysInv
<1>13. CASE m.key = RecvKey(e)
  <2>1. m.sender = e.vpn_addr /\ m.target = n
    <3>1. PICK j \in Indexes : SealedBy(m, j)
      BY <1>2 DEF KeysInv, PacketsHaveTunnels
    <3>2. /\ IsEstablished(m.sender, j)
          /\ SendKey(peers_by_index[m.sender][j]) = RecvKey(peers_by_index[n][i])
          /\ peers_by_index[m.sender][j].vpn_addr = m.target
      BY <1>13, <3>1 DEF SealedBy
    <3> QED BY <1>2, <1>4, <3>1, <3>2, OpensAtThePeer DEF KeysInv
  <2>2. x.from = m.sender /\ x.packet = m
    BY <2>1
  <2> HIDE DEF x
  <2>3. /\ \A w \in Nodes : w # n => inbox'[w] = inbox[w]
        /\ inbox'[n] = Append(inbox[n], x)
    BY <1>1, <1>2, <1>13 DEF TypeOK
  <2>4. /\ DOMAIN inbox[n] = 1..Len(inbox[n]) /\ Len(inbox[n]) \in Nat
        /\ DOMAIN inbox'[n] = 1..(Len(inbox[n]) + 1)
        /\ inbox'[n][Len(inbox[n]) + 1] = x
        /\ \A y \in DOMAIN inbox[n] : inbox'[n][y] = inbox[n][y]
    <3> DEFINE S == [from : Nodes, packet : Datas]
    <3> HIDE DEF S
    <3>1. inbox[n] \in Seq(S)
      BY <1>1 DEF TypeOK, S
    <3>2. x \in S
      BY <1>4, <1>5 DEF S, x, EstablishedStates
    <3> QED BY <2>3, <3>1, <3>2
  <2>5. ASSUME NEW w \in Nodes, NEW y \in DOMAIN inbox'[w]
        PROVE  \/ y \in DOMAIN inbox[w] /\ inbox'[w][y] = inbox[w][y]
               \/ w = n /\ y = Len(inbox[n]) + 1 /\ inbox'[w][y] = x
    BY <2>3, <2>4
  <2>6. DeliveredIsMarked'
    <3> SUFFICES ASSUME NEW w \in Nodes, NEW y \in DOMAIN inbox'[w],
                        NEW p, p = inbox'[w][y].packet
                 PROVE  /\ IsEstablished(w, p.index)'
                        /\ p.counter \in peers_by_index'[w][p.index].received
      BY DEF DeliveredIsMarked, IsEstablished
    <3>1. CASE y \in DOMAIN inbox[w] /\ inbox'[w][y] = inbox[w][y]
      BY <1>10, <3>1
    <3>2. CASE w = n /\ y = Len(inbox[n]) + 1 /\ inbox'[w][y] = x
      BY <1>11, <2>2, <3>2 DEF i
    <3> QED BY <2>5, <3>1, <3>2
  <2>7. DeliveredAsSent'
    <3> SUFFICES ASSUME NEW w \in Nodes, NEW y \in DOMAIN inbox'[w]
                 PROVE  /\ inbox'[w][y].packet.sender = inbox'[w][y].from
                        /\ inbox'[w][y].packet.target = w
                        /\ \A z \in DOMAIN inbox'[w] :
                              inbox'[w][y].packet = inbox'[w][z].packet => y = z
      BY DEF DeliveredAsSent
    <3>1. inbox'[w][y].packet.sender = inbox'[w][y].from /\ inbox'[w][y].packet.target = w
      BY <1>10, <2>1, <2>2, <2>5
    <3>2. ASSUME NEW z \in DOMAIN inbox'[w], inbox'[w][y].packet = inbox'[w][z].packet
          PROVE  y = z
      <4>1. CASE y \in DOMAIN inbox[w] /\ z \in DOMAIN inbox[w]
        <5>1. inbox'[w][y] = inbox[w][y] /\ inbox'[w][z] = inbox[w][z]
          BY <2>3, <2>4, <4>1
        <5> QED BY <3>2, <4>1, <5>1 DEF KeysInv, DeliveredAsSent
      <4>2. CASE ~(y \in DOMAIN inbox[w] /\ z \in DOMAIN inbox[w])
        BY <1>10, <2>2, <2>5, <3>2, <4>2
      <4> QED BY <4>1, <4>2
    <3> QED BY <3>1, <3>2
  <2> QED BY <1>7, <1>8, <1>9, <2>6, <2>7 DEF KeysInv
<1> QED BY <1>12, <1>13

\* A step that leaves the tables, the network and the inboxes alone.
LEMMA KeysUnchanged ==
    ASSUME KeysInv, UNCHANGED <<peers_by_index, network, inbox, ephs>>
    PROVE  KeysInv'
BY DEF KeysInv, EphsAreUnique, StartedWith, AnsweredWith, PacketsHaveTunnels, SealedBy,
       NoNonceReuse, DeliveredIsMarked, DeliveredAsSent, IsEstablished

-----------------------------------------------------------------------------
\* Fresh sessions satisfy KeysInv, and every step keeps it.
LEMMA KeysInductive == Spec => []KeysInv
<1>1. Init => KeysInv
  BY DEF Init, Empty, KeysInv, EphsAreUnique, StartedWith, AnsweredWith, IsEstablished,
         PacketsHaveTunnels, NoNonceReuse, DeliveredIsMarked, DeliveredAsSent
<1>2. SessionInv /\ KeysInv /\ [Next]_vars /\ SessionInv' => KeysInv'
  <2> SUFFICES ASSUME SessionInv, KeysInv, [Next]_vars, SessionInv' PROVE KeysInv'
    OBVIOUS
  <2>1. ASSUME NEW k \in Tasks, NEW v \in Nodes, Connect(k, v) PROVE KeysInv'
    BY <2>1, ConnectKeys
  <2>6. ASSUME NEW k \in Tasks, NEW v \in Nodes, ConnectFails(k, v) PROVE KeysInv'
    BY <2>6, KeysUnchanged DEF ConnectFails
  <2>2. ASSUME NEW k \in Tasks, Returns(k) PROVE KeysInv'
    BY <2>2, KeysUnchanged DEF Returns
  <2>3. ASSUME NEW n \in Nodes, NEW m \in network, Receive(n, m) PROVE KeysInv'
    BY <2>3, HandleStage0Keys, HandleStage2Keys, FailStage2Keys, HandleMessageKeys
    DEF Receive
  <2>4. ASSUME NEW n \in Nodes, NEW v \in Nodes, Send(n, v) PROVE KeysInv'
    BY <2>4, SendKeys
  <2>5. CASE UNCHANGED vars
    BY <2>5, KeysUnchanged DEF vars
  <2> QED BY <2>1, <2>2, <2>3, <2>4, <2>5, <2>6 DEF Next
<1> QED BY <1>1, <1>2, SessionInductive, PTL DEF Spec

\* For any nodes, calls and handshakes, no Noise key seals two packets under the
\* same counter: ephemerals make a key one tunnel's, and send counts there.
THEOREM SessionNoNonceReuse == Spec => []NoNonceReuse
<1>1. KeysInv => NoNonceReuse
  BY DEF KeysInv
<1> QED BY <1>1, KeysInductive, PTL

\* recv attributes every packet to the node that sent it to us, and hands none
\* out twice, whatever the network duplicates and reorders.
THEOREM SessionDeliveredAsSent == Spec => []DeliveredAsSent
<1>1. KeysInv => DeliveredAsSent
  BY DEF KeysInv
<1> QED BY <1>1, KeysInductive, PTL
=============================================================================
