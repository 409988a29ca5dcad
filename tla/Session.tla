------------------------------ MODULE Session -------------------------------
(***************************************************************************)
(* Sessions of nebula-protocol/src/session.rs on several nodes: connect,   *)
(* the two handshake messages, tunnels keyed by local index, and data      *)
(* packets.  Every action is one section under the session's mutex         *)
(* (connect's second section, a datagram in the receive loop, send_typed)  *)
(* or one wake-up of a connect call.                                       *)
(*                                                                         *)
(* A node's name stands for its VPN address, its certificate and its UDP   *)
(* address.  The network keeps every datagram: delivering one again is a   *)
(* duplicate, never delivering it a loss, and any order is possible.       *)
(*                                                                         *)
(* Noise is modelled by the ephemeral keys of the two sides: a handshake   *)
(* opens exactly when the initiator still holds the ephemeral it answers,  *)
(* and the split keys are the pair of ephemerals and the sending role.     *)
(* The replay window is the set of counters it has accepted: fewer than    *)
(* WINDOW_SIZE packets are sent.                                           *)
(***************************************************************************)
EXTENDS Integers, Sequences, FiniteSets

CONSTANTS Nodes,
          Indexes,      \* bound: local indexes of a node (nonzero u32)
          Verified,     \* nodes whose certificate verifies against the CA
          KnownAddrs,   \* KnownAddrs[n][v]: addresses resolve may return on n for v
          Tasks,        \* calls of connect
          NodeOf,       \* NodeOf[k]: the node on which call k is made
          MaxEph,       \* bound: Noise handshake states created
          MaxSends      \* bound: data packets sent

ASSUME SessionAssumption ==
    /\ Verified \subseteq Nodes
    /\ \A n \in Nodes : /\ DOMAIN KnownAddrs[n] \subseteq Nodes
                        /\ \A v \in DOMAIN KnownAddrs[n] : KnownAddrs[n][v] \subseteq Nodes
    /\ NodeOf \in [Tasks -> Nodes]
    /\ MaxEph \in Nat
    /\ MaxSends \in Nat

VARIABLES peers_by_index,      \* Inner.peers_by_index of every node
          index_by_vpn_addr,   \* Inner.index_by_vpn_addr
          connected,           \* Inner.connected: the call each sender belongs to
          task,                \* task[k]: where connect call k is
          network,             \* every datagram ever sent
          inbox,               \* inbox[n]: what decrypted, in order
          ephs,                \* ephemeral keys generated so far
          sends                \* history: data packets sent so far

vars == <<peers_by_index, index_by_vpn_addr, connected, task, network, inbox,
          ephs, sends>>

\* HashMap::insert and HashMap::remove.
Insert(f, x, y) == [z \in DOMAIN f \cup {x} |-> IF z = x THEN y ELSE f[z]]
Remove(f, x)    == [z \in DOMAIN f \ {x} |-> f[z]]
Empty           == [z \in {} |-> 0]

FreeIndexes(n) == Indexes \ DOMAIN peers_by_index[n]

-----------------------------------------------------------------------------
Handshaking(eph) == [state |-> "Handshaking", eph |-> eph]

\* A slip: the peer's index is left at zero.
EstablishedZero(role, keys, remote, vpn_addr, remote_index) ==
    [state |-> "Established", role |-> role, keys |-> keys, remote |-> remote,
     vpn_addr |-> vpn_addr, remote_index |-> 0,
     send_counter |-> 2, received |-> {}]

\* keys: the pair of ephemerals; role: which of the split keys we send with.
Established(role, keys, remote, vpn_addr, remote_index) ==
    [state |-> "Established", role |-> role, keys |-> keys, remote |-> remote,
     vpn_addr |-> vpn_addr, remote_index |-> remote_index,
     send_counter |-> 2, received |-> {}]

IsEstablished(n, i) == /\ i \in DOMAIN peers_by_index[n]
                       /\ peers_by_index[n][i].state = "Established"

IsHandshaking(n, i) == /\ i \in DOMAIN peers_by_index[n]
                       /\ peers_by_index[n][i].state = "Handshaking"

SendKey(e) == <<e.keys, e.role>>
RecvKey(e) == <<e.keys, IF e.role = "initiator" THEN "responder" ELSE "initiator">>

Stage0(n, dst, eph, index) ==
    [type |-> "stage0", src |-> n, dst |-> dst, cert |-> n,
     eph |-> eph, initiator_index |-> index]

\* A slip: the reply names the initiator's index as its own.
Stage2Swapped(n, dst, index, keys, responder_index) ==
    [type |-> "stage2", src |-> n, dst |-> dst, cert |-> n, index |-> index,
     keys |-> keys, responder_index |-> index]

Stage2(n, dst, index, keys, responder_index) ==
    [type |-> "stage2", src |-> n, dst |-> dst, cert |-> n, index |-> index,
     keys |-> keys, responder_index |-> responder_index]

\* A slip of next_counter: it hands out the first counter again.
SameCounter(e) == 3

NextCounter(e) == e.send_counter + 1

\* A slip of decrypt: the replay window is not asked.
AnyCounter(e, m) == TRUE

NewCounter(e, m) == m.counter \notin e.received

\* id, sender and target record which call of send this is.
Data(n, v, e, counter, id) ==
    [type |-> "data", dst |-> e.remote, index |-> e.remote_index,
     counter |-> counter, key |-> SendKey(e), id |-> id, sender |-> n, target |-> v]

-----------------------------------------------------------------------------
Init ==
    /\ peers_by_index = [n \in Nodes |-> Empty]
    /\ index_by_vpn_addr = [n \in Nodes |-> Empty]
    /\ connected = [n \in Nodes |-> Empty]
    /\ task = [k \in Tasks |-> [pc |-> "idle"]]
    /\ network = {}
    /\ inbox = [n \in Nodes |-> <<>>]
    /\ ephs = 0
    /\ sends = 0

\* A slip: the call that waited for v before is left as it is.
KeptWaiting(n, v) == task

\* The calls after `connected.insert(v, tx)`: the sender of the call that waited
\* for v before is dropped with it.
Superseded(n, v) ==
    [j \in Tasks |-> IF /\ v \in DOMAIN connected[n]
                        /\ j = connected[n][v]
                        /\ task[j].pc = "waiting"
                     THEN [task[j] EXCEPT !.pc = "dropped"]
                     ELSE task[j]]

\* A slip: the calls that sent their stage 0 to the answering host's address.
WokenByAddress(n, v) ==
    [k \in Tasks |-> IF /\ NodeOf[k] = n /\ task[k].pc = "waiting"
                        /\ v \in KnownAddrs[n][task[k].target]
                     THEN [task[k] EXCEPT !.pc = "signalled"]
                     ELSE task[k]]

\* The calls after the sender for v, if there is one, has fired.
Woken(n, v) ==
    [k \in Tasks |-> IF /\ v \in DOMAIN connected[n]
                        /\ k = connected[n][v]
                        /\ task[k].pc = "waiting"
                     THEN [task[k] EXCEPT !.pc = "signalled"]
                     ELSE task[k]]

\* A slip: the tunnel is filed under every address the host is reached at.
IndexedByAddress(n, v, i) ==
    [index_by_vpn_addr EXCEPT ![n] =
        [w \in DOMAIN @ \cup {v} \cup {x \in DOMAIN KnownAddrs[n] : v \in KnownAddrs[n][x]} |->
            IF w \in DOMAIN @ /\ w # v THEN @[w] ELSE i]]

\* index_by_vpn_addr.insert: i is the tunnel n sends to v on.
Indexed(n, v, i) == [index_by_vpn_addr EXCEPT ![n] = Insert(@, v, i)]

\* connect, from the second lock on: a new waiter for v (dropping the sender of
\* an earlier one), a fresh index, stage 0 to the address resolve returned.
Connect(k, v) ==
    LET n == NodeOf[k] IN
    /\ task[k].pc = "idle"
    /\ v \in DOMAIN KnownAddrs[n]
    /\ ephs < MaxEph
    /\ ephs' = ephs + 1
    /\ connected' = [connected EXCEPT ![n] = Insert(@, v, k)]
    /\ task' = [Superseded(n, v) EXCEPT ![k] = [pc |-> "waiting", target |-> v]]
    /\ \E i \in FreeIndexes(n), remote \in KnownAddrs[n][v] :
          /\ peers_by_index' = [peers_by_index EXCEPT ![n] =
                                   Insert(@, i, Handshaking(ephs))]
          /\ network' = network \cup {Stage0(n, remote, ephs, i)}
    /\ UNCHANGED <<index_by_vpn_addr, inbox, sends>>

\* connect when stage0 fails (the certificate does not fit a Noise message): the
\* waiter is in the table by then, and stays there when the call returns.
ConnectFails(k, v) ==
    LET n == NodeOf[k] IN
    /\ task[k].pc = "idle"
    /\ v \in DOMAIN KnownAddrs[n]
    /\ connected' = [connected EXCEPT ![n] = Insert(@, v, k)]
    /\ task' = [Superseded(n, v) EXCEPT ![k] = [pc |-> "Noise", target |-> v]]
    /\ UNCHANGED <<peers_by_index, index_by_vpn_addr, network, inbox, ephs, sends>>

\* handle_handshake as responder: a stage 0 that verifies makes a tunnel at
\* once, and that tunnel becomes the one we send on.  (One that does not
\* verify changes nothing.)
HandleStage0(n, m) ==
    /\ m.type = "stage0"
    /\ m.dst = n
    /\ m.cert \in Verified
    /\ ephs < MaxEph
    /\ ephs' = ephs + 1
    /\ \E i \in FreeIndexes(n) :
          LET keys == <<m.eph, ephs>> IN
          /\ network' = network
                \cup {Stage2(n, m.src, m.initiator_index, keys, i)}
          /\ peers_by_index' = [peers_by_index EXCEPT ![n] =
                Insert(@, i, Established("responder", keys, m.src, m.cert,
                                         m.initiator_index))]
          /\ index_by_vpn_addr' = Indexed(n, m.cert, i)
    /\ UNCHANGED <<connected, task, inbox, sends>>

\* The stage 2 opens under the handshake it is addressed to.
Finishes(n, m) == /\ peers_by_index[n][m.index].eph = m.keys[1]
                  /\ m.cert \in Verified

\* handle_handshake as initiator: the tunnel replaces the handshake, becomes
\* the one we send on, and the waiter for the peer's address is woken.
HandleStage2(n, m) ==
    /\ m.type = "stage2"
    /\ m.dst = n
    /\ IsHandshaking(n, m.index)
    /\ Finishes(n, m)
    /\ peers_by_index' = [peers_by_index EXCEPT ![n] =
          Insert(@, m.index, Established("initiator", m.keys, m.src, m.cert,
                                         m.responder_index))]
    /\ index_by_vpn_addr' = Indexed(n, m.cert, m.index)
    /\ connected' = [connected EXCEPT ![n] = Remove(@, m.cert)]
    /\ task' = Woken(n, m.cert)
    /\ UNCHANGED <<network, inbox, ephs, sends>>

\* Slips: an established tunnel is taken out as well; the waiter is woken.
FailStage2Any(n, m) ==
    /\ m.type = "stage2"
    /\ m.dst = n
    /\ m.index \in DOMAIN peers_by_index[n]
    /\ peers_by_index' = [peers_by_index EXCEPT ![n] = Remove(@, m.index)]
    /\ UNCHANGED <<index_by_vpn_addr, connected, task, network, inbox, ephs, sends>>
FailStage2Wakes(n, m) ==
    /\ m.type = "stage2"
    /\ m.dst = n
    /\ IsHandshaking(n, m.index)
    /\ peers_by_index' = [peers_by_index EXCEPT ![n] = Remove(@, m.index)]
    /\ task' = Woken(n, m.cert)
    /\ UNCHANGED <<index_by_vpn_addr, connected, network, inbox, ephs, sends>>

\* The handshake is taken out of the table before the stage 2 is read: one
\* that does not open or verify, or a damaged copy, ends the handshake.
FailStage2(n, m) ==
    /\ m.type = "stage2"
    /\ m.dst = n
    /\ IsHandshaking(n, m.index)
    /\ peers_by_index' = [peers_by_index EXCEPT ![n] = Remove(@, m.index)]
    /\ UNCHANGED <<index_by_vpn_addr, connected, task, network, inbox, ephs, sends>>

\* send: the tunnel index_by_vpn_addr names, its next counter, its peer's index.
Send(n, v) ==
    /\ v \in DOMAIN index_by_vpn_addr[n]
    /\ sends < MaxSends
    /\ LET i == index_by_vpn_addr[n][v]
           e == peers_by_index[n][i]
       IN  /\ IsEstablished(n, i)
           /\ network' = network
                 \cup {Data(n, v, e, NextCounter(e), sends)}
           /\ peers_by_index' = [peers_by_index EXCEPT ![n][i].send_counter = NextCounter(e)]
    /\ sends' = sends + 1
    /\ UNCHANGED <<index_by_vpn_addr, connected, task, inbox, ephs>>

\* handle_message: the tunnel the header names; the counter is used up before
\* the packet is opened.
HandleMessage(n, m) ==
    /\ m.type = "data"
    /\ m.dst = n
    /\ IsEstablished(n, m.index)
    /\ LET e == peers_by_index[n][m.index]
       IN  /\ NewCounter(e, m)
           /\ inbox' = IF m.key = RecvKey(e)
                       THEN [inbox EXCEPT ![n] =
                               Append(@, [from |-> e.vpn_addr, packet |-> m])]
                       ELSE inbox
    /\ peers_by_index' = [peers_by_index EXCEPT ![n][m.index].received =
                             @ \cup {m.counter}]
    /\ UNCHANGED <<index_by_vpn_addr, connected, task, network, ephs, sends>>

\* The connect call wakes: its sender fired, its sender was dropped, or its
\* five seconds are over with neither.
Returns(k) ==
    /\ \/ task[k].pc = "signalled" /\ task' = [task EXCEPT ![k].pc = "Ok"]
       \/ task[k].pc = "dropped"   /\ task' = [task EXCEPT ![k].pc = "Cancelled"]
       \/ task[k].pc = "waiting"   /\ task' = [task EXCEPT ![k].pc = "Timeout"]
    /\ UNCHANGED <<peers_by_index, index_by_vpn_addr, connected, network, inbox,
                   ephs, sends>>

Receive(n, m) == \/ HandleStage0(n, m)
                 \/ HandleStage2(n, m)
                 \/ FailStage2(n, m)
                 \/ HandleMessage(n, m)

Next == \/ \E k \in Tasks, v \in Nodes : Connect(k, v) \/ ConnectFails(k, v)
        \/ \E k \in Tasks : Returns(k)
        \/ \E n \in Nodes, m \in network : Receive(n, m)
        \/ \E n, v \in Nodes : Send(n, v)

Spec == Init /\ [][Next]_vars

-----------------------------------------------------------------------------
Ephs == 0..(MaxEph - 1)
Keys == Ephs \X Ephs
Roles == {"initiator", "responder"}

HandshakingStates == [state : {"Handshaking"}, eph : Ephs]
EstablishedStates ==
    [state : {"Established"}, role : Roles, keys : Keys, remote : Nodes,
     vpn_addr : Nodes, remote_index : Indexes, send_counter : Nat,
     received : SUBSET Nat]

TaskStates == [pc : {"idle"}]
                 \cup [pc : {"waiting", "signalled", "dropped", "Ok", "Timeout",
                             "Cancelled", "Noise"}, target : Nodes]

Stage0s == [type : {"stage0"}, src : Nodes, dst : Nodes, cert : Nodes, eph : Ephs,
            initiator_index : Indexes]
Stage2s == [type : {"stage2"}, src : Nodes, dst : Nodes, cert : Nodes,
            index : Indexes, keys : Keys, responder_index : Indexes]
Datas   == [type : {"data"}, dst : Nodes, index : Indexes, counter : Nat,
            key : Keys \X Roles, id : Nat, sender : Nodes, target : Nodes]

\* Every node's tables, every connect call and every datagram is well formed.
TypeOK ==
    /\ DOMAIN peers_by_index = Nodes
    /\ \A n \in Nodes : \A i \in DOMAIN peers_by_index[n] :
          /\ i \in Indexes
          /\ peers_by_index[n][i] \in HandshakingStates \cup EstablishedStates
    /\ DOMAIN index_by_vpn_addr = Nodes
    /\ \A n \in Nodes : \A v \in DOMAIN index_by_vpn_addr[n] :
          v \in Nodes /\ index_by_vpn_addr[n][v] \in Indexes
    /\ DOMAIN connected = Nodes
    /\ \A n \in Nodes : \A v \in DOMAIN connected[n] :
          v \in Nodes /\ connected[n][v] \in Tasks
    /\ task \in [Tasks -> TaskStates]
    /\ network \subseteq Stage0s \cup Stage2s \cup Datas
    /\ inbox \in [Nodes -> Seq([from : Nodes, packet : Datas])]
    /\ ephs \in 0..MaxEph
    /\ sends \in 0..MaxSends

\* A VPN address once connected stays usable: whatever handshakes fail, repeat
\* or arrive late, index_by_vpn_addr names an established tunnel whose verified
\* certificate is for that address, so send does not fail on a table that
\* points nowhere or at another peer (session.rs:158, 165, 195, 521-534).
IndexIsEstablished ==
    \A n \in Nodes : \A v \in DOMAIN index_by_vpn_addr[n] :
        /\ IsEstablished(n, index_by_vpn_addr[n][v])
        /\ peers_by_index[n][index_by_vpn_addr[n][v]].vpn_addr = v

\* A connect call that returns Ok has a tunnel to the address it asked for,
\* even when another host answered at the address it sent to, and even when
\* several calls wait for one peer (session.rs:195-198, 499-502).
ConnectedMeansTunnel ==
    \A k \in Tasks :
        task[k].pc \in {"signalled", "Ok"} =>
            task[k].target \in DOMAIN index_by_vpn_addr[NodeOf[k]]

\* A call still waiting is the one whose sender the table holds: a completed
\* handshake can never wake nobody while a call for that peer waits, and a
\* second call for the same peer does not leave the first one waiting
\* (session.rs:471-472, 196-197).
WaitersAreReachable ==
    \A k \in Tasks :
        task[k].pc = "waiting" =>
            /\ task[k].target \in DOMAIN connected[NodeOf[k]]
            /\ connected[NodeOf[k]][task[k].target] = k

\* When the initiator has a tunnel its peer has the other end: the entry at the
\* index the initiator stamps on its packets is established, with the same
\* keys, the opposite role, and back to this very tunnel.  Duplicated stage 0s,
\* late replies and handshakes in both directions never mix two tunnels' keys
\* and indexes (session.rs:104-200).
InitiatorHasPeer ==
    \A n \in Nodes : \A i \in DOMAIN peers_by_index[n] :
        LET e == peers_by_index[n][i] IN
        e.state = "Established" /\ e.role = "initiator" =>
            /\ IsEstablished(e.vpn_addr, e.remote_index)
            /\ LET f == peers_by_index[e.vpn_addr][e.remote_index] IN
               /\ f.role = "responder"
               /\ f.keys = e.keys
               /\ f.vpn_addr = n
               /\ f.remote_index = i

\* What recv hands out is what a peer sent: the packet was sent by the node it
\* is attributed to, to this node, and no packet is handed out twice, through
\* any number of tunnels between the same two nodes (session.rs:202-220).
DeliveredAsSent ==
    \A n \in Nodes : \A x \in DOMAIN inbox[n] :
        /\ inbox[n][x].packet.sender = inbox[n][x].from
        /\ inbox[n][x].packet.target = n
        /\ \A y \in DOMAIN inbox[n] : inbox[n][x].packet = inbox[n][y].packet => x = y

\* No key seals two packets under one counter, although both ends of a tunnel
\* and several tunnels of one pair of nodes count independently
\* (session.rs:537-554, transport.rs:195-198).
NoNonceReuse ==
    \A m1, m2 \in {m \in network : m.type = "data"} :
        m1.key = m2.key /\ m1.counter = m2.counter => m1 = m2

\* The two ends of the tunnel a node sends on hold each other's keys
\* (transport.rs:166-169: "the initiator's send key is the responder's recv key
\* and vice versa"): if the peer has an established tunnel at the index our
\* packets carry, it can open them.
SendersAreUnderstood ==
    \A n \in Nodes : \A v \in DOMAIN index_by_vpn_addr[n] :
        LET e == peers_by_index[n][index_by_vpn_addr[n][v]] IN
        IsEstablished(v, e.remote_index) =>
            RecvKey(peers_by_index[v][e.remote_index]) = SendKey(e)
=============================================================================
