------------------------------ MODULE Listener ------------------------------
(***************************************************************************)
(* Listener::run and its two forwarding tasks (nebula-listener/src/        *)
(* listener.rs), with the peer's identity (identity.rs) and its ownership  *)
(* of addresses (nebula-firewall/src/identity.rs).  Each action is what a  *)
(* task does between two points where it may be suspended or where another *)
(* thread's section of the session or the firewall may come in between.    *)
(*                                                                         *)
(* Session, Firewall and PacketParse model the parts called here: a        *)
(* connect that succeeds leaves a tunnel, tunnels stay, evaluate passes a  *)
(* known flow before it looks at who sent it.                              *)
(***************************************************************************)
EXTENDS Integers, Sequences, FiniteSets

CONSTANTS ADDR_BITS,     \* bits of an address (32 and 128)
          Certs,         \* what the CA issued: [networks, unsafe_networks]
          Packets,       \* [parses, local_addr, remote_addr]
          Multicast,     \* multicast addresses
          Ours,          \* addresses under routable_networks
          Rules,         \* the <<packet, incoming>> the rules match
          MaxRead,       \* bound: packets the kernel hands us
          MaxQueued,     \* bound: packets peers send us
          MaxHandshakes  \* bound: handshakes that complete

\* Addresses are numbers; a packet that parses has them.
ASSUME ListenerAssumption ==
    /\ ADDR_BITS \in Nat
    /\ \A c \in Certs : \A i \in DOMAIN c.networks : c.networks[i].addr \in Nat
    /\ \A p \in Packets : p.parses => p.remote_addr \in Nat

VARIABLES peers,      \* peer_info: VPN address -> certificate of the current tunnel
          inbox,      \* the session's inbox: [src, packet]
          flows,      \* the connection table: flow -> how it was opened, [cert, incoming]
          up,         \* the task tun_to_mesh
          down,       \* the task mesh_to_tun
          run,        \* the future of run(): "running", "returned", "dropped"
          forwarded,  \* history: packets that left, each with how its flow was opened
          reads,      \* packets read from the tun
          queued,     \* packets queued by the session
          handshakes  \* handshakes completed

vars == <<peers, inbox, flows, up, down, run, forwarded, reads, queued, handshakes>>
env  == <<inbox, run, reads, queued>>

-----------------------------------------------------------------------------
(* identity.rs.  A network is [addr, prefix_len].                          *)

\* IpNet::contains (external)
Contains(n, addr) == LET low == 2 ^ (ADDR_BITS - n.prefix_len) IN
                     addr \div low = n.addr \div low

\* IpNet::new in to_ipnet: the prefix length must be one of the family's.
ValidPrefix(n) == n.prefix_len <= ADDR_BITS

\* A slip: the prefix is kept.
to_host_route_wide(n) == n

to_host_route(n) == [addr |-> n.addr, prefix_len |-> ADDR_BITS]

Panics(cert) == \E n \in cert.unsafe_networks : ~ValidPrefix(n)

peer_identity(cert) == [vpn_networks |-> {to_host_route(cert.networks[i]) :
                                             i \in DOMAIN cert.networks},
                        unsafe_networks |-> cert.unsafe_networks]

owns(peer, addr) == \/ \E n \in peer.vpn_networks : Contains(n, addr)
                    \/ \E n \in peer.unsafe_networks : Contains(n, addr)

\* Firewall::evaluate passes the packet.
Hit(p) == p \in DOMAIN flows

\* A slip: a rule for either direction will do.
OpensEitherWay(p, incoming, cert) == /\ owns(peer_identity(cert), p.remote_addr)
                                     /\ p.local_addr \in Ours
                                     /\ \E i \in BOOLEAN : <<p, i>> \in Rules

Opens(p, incoming, cert) == /\ owns(peer_identity(cert), p.remote_addr)
                            /\ p.local_addr \in Ours
                            /\ <<p, incoming>> \in Rules

-----------------------------------------------------------------------------
(* Tasks.  at: where the task is; packet, peer: the packet and the VPN     *)
(* address of its peer; cert: what peer_info returned; opened: history, how *)
(* the packet's flow was opened; how: why the task ended.                  *)
Waiting(at) == [at |-> at]
Ended(how)  == [at |-> "ended", how |-> how]

Init == /\ peers = [v \in {} |-> 0]
        /\ inbox = <<>>
        /\ flows = [p \in {} |-> 0]
        /\ up = Waiting("read")
        /\ down = Waiting("recv")
        /\ run = "running"
        /\ forwarded = {}
        /\ reads = 0
        /\ queued = 0
        /\ handshakes = 0

\* read_fd, then parse.
UpRead(p) ==
    /\ up.at = "read"
    /\ reads < MaxRead
    /\ reads' = reads + 1
    /\ up' = IF p.parses THEN [at |-> "lookup", packet |-> p, peer |-> p.remote_addr]
             ELSE up
    /\ UNCHANGED <<peers, inbox, flows, down, run, forwarded, queued, handshakes>>

\* read_fd fails: the task ends with the error.
UpReadError ==
    /\ up.at = "read"
    /\ up' = Ended("error")
    /\ UNCHANGED <<peers, flows, down, forwarded, handshakes, env>>

\* The first peer_info: a multicast destination without a tunnel is skipped.
UpLookup ==
    /\ up.at = "lookup"
    /\ up' = IF up.peer \in DOMAIN peers THEN [up EXCEPT !.at = "peer"]
             ELSE IF up.peer \in Multicast THEN Waiting("read")
             ELSE [up EXCEPT !.at = "connect"]
    /\ UNCHANGED <<peers, flows, down, forwarded, handshakes, env>>

\* A slip: connect waits for its handshake without a timeout.
UpConnectUntimed ==
    /\ up.at = "connect"
    /\ up.peer \in DOMAIN peers
    /\ up' = [up EXCEPT !.at = "peer"]
    /\ UNCHANGED <<peers, flows, down, forwarded, handshakes, env>>

\* connect returns: with a tunnel (Session, ConnectedMeansTunnel) or an error,
\* after its timeouts at the latest.
UpConnect ==
    /\ up.at = "connect"
    /\ \/ /\ up.peer \in DOMAIN peers
          /\ up' = [up EXCEPT !.at = "peer"]
       \/ up' = Waiting("read")
    /\ UNCHANGED <<peers, flows, down, forwarded, handshakes, env>>

\* peer_info, and what is made of it: the identity.
LookedUp(task, idle) ==
    IF task.peer \notin DOMAIN peers THEN Waiting(idle)
    ELSE IF Panics(peers[task.peer]) THEN Ended("panic")
    ELSE [at |-> "evaluate", packet |-> task.packet, peer |-> task.peer,
          cert |-> peers[task.peer]]

UpPeer ==
    /\ up.at = "peer"
    /\ up' = LookedUp(up, "read")
    /\ UNCHANGED <<peers, flows, down, forwarded, handshakes, env>>

\* evaluate, with the identity looked up before: a flow that opens is recorded.
Evaluate(task, incoming) ==
    flows' = IF ~Hit(task.packet) /\ Opens(task.packet, incoming, task.cert)
             THEN [p \in DOMAIN flows \cup {task.packet} |->
                      IF p = task.packet THEN [cert |-> task.cert, incoming |-> incoming]
                      ELSE flows[p]]
             ELSE flows

\* The task after it: a packet of a recorded flow goes on.
Evaluated(task, next, idle) ==
    IF task.packet \in DOMAIN flows'
    THEN [at |-> next, packet |-> task.packet, opened |-> flows'[task.packet]]
    ELSE Waiting(idle)

UpEvaluate ==
    /\ up.at = "evaluate"
    /\ Evaluate(up, FALSE)
    /\ up' = Evaluated(up, "send", "read")
    /\ UNCHANGED <<peers, down, forwarded, handshakes, env>>

Leave(task) == [packet |-> task.packet, opened |-> task.opened]

\* send, whose result is ignored.
UpSend ==
    /\ up.at = "send"
    /\ up' = Waiting("read")
    /\ forwarded' \in {forwarded, forwarded \cup {Leave(up)}}
    /\ UNCHANGED <<peers, flows, down, handshakes, env>>

\* recv, then parse.
DownRecv ==
    /\ down.at = "recv"
    /\ inbox # <<>>
    /\ inbox' = Tail(inbox)
    /\ down' = IF Head(inbox).packet.parses
               THEN [at |-> "peer", packet |-> Head(inbox).packet, peer |-> Head(inbox).src]
               ELSE down
    /\ UNCHANGED <<peers, flows, up, run, forwarded, reads, queued, handshakes>>

DownPeer ==
    /\ down.at = "peer"
    /\ down' = LookedUp(down, "recv")
    /\ UNCHANGED <<peers, flows, up, forwarded, handshakes, env>>

DownEvaluate ==
    /\ down.at = "evaluate"
    /\ Evaluate(down, TRUE)
    /\ down' = Evaluated(down, "write", "recv")
    /\ UNCHANGED <<peers, up, forwarded, handshakes, env>>

\* The whole packet is written, or there is an error.
write_fd(task) == forwarded' \in {forwarded, forwarded \cup {Leave(task)}}

\* The result of write_fd is ignored.
DownWrite ==
    /\ down.at = "write"
    /\ down' = Waiting("recv")
    /\ write_fd(down)
    /\ UNCHANGED <<peers, flows, up, handshakes, env>>

-----------------------------------------------------------------------------
\* select!: the first task to end makes run return.
Return ==
    /\ run = "running"
    /\ up.at = "ended" \/ down.at = "ended"
    /\ run' = "returned"
    /\ UNCHANGED <<peers, inbox, flows, up, down, forwarded, reads, queued, handshakes>>

\* The caller drops the future.
Drop ==
    /\ run = "running"
    /\ run' = "dropped"
    /\ UNCHANGED <<peers, inbox, flows, up, down, forwarded, reads, queued, handshakes>>

\* A slip: only a future that returned aborts its tasks.
AbortReturned(task) == run = "returned" /\ task.at \notin {"evaluate", "ended"}

\* AbortOnDrop, once run's future is gone: a task stops where it awaits; from
\* its peer's lookup to the end of evaluate it does not.
Abort(task) == run # "running" /\ task.at \notin {"evaluate", "ended"}

AbortUp   == /\ Abort(up)
             /\ up' = Ended("aborted")
             /\ UNCHANGED <<peers, flows, down, forwarded, handshakes, env>>
AbortDown == /\ Abort(down)
             /\ down' = Ended("aborted")
             /\ UNCHANGED <<peers, flows, up, forwarded, handshakes, env>>

-----------------------------------------------------------------------------
\* External: a handshake with v completes, the first one or another one.
Handshake(c) ==
    /\ handshakes < MaxHandshakes
    /\ handshakes' = handshakes + 1
    /\ peers' = [v \in DOMAIN peers \cup {c.networks[1].addr} |->
                    IF v = c.networks[1].addr THEN c ELSE peers[v]]
    /\ UNCHANGED <<flows, up, down, forwarded, env>>

\* External: the session decrypts a packet of peer v.
Queue(v, p) ==
    /\ queued < MaxQueued
    /\ queued' = queued + 1
    /\ inbox' = Append(inbox, [src |-> v, packet |-> p])
    /\ UNCHANGED <<peers, flows, up, down, run, forwarded, reads, handshakes>>

\* External: a flow expires.
Expire(p) ==
    /\ flows' = [q \in DOMAIN flows \ {p} |-> flows[q]]
    /\ UNCHANGED <<peers, up, down, forwarded, handshakes, env>>

Up   == UpLookup \/ UpConnect \/ UpPeer \/ UpEvaluate \/ UpSend
Down == DownRecv \/ DownPeer \/ DownEvaluate \/ DownWrite

Next == \/ \E p \in Packets : UpRead(p)
        \/ UpReadError
        \/ Up
        \/ Down
        \/ Return
        \/ Drop
        \/ AbortUp
        \/ AbortDown
        \/ \E c \in Certs : Handshake(c)
        \/ \E v \in DOMAIN peers, p \in Packets : Queue(v, p)
        \/ \E p \in DOMAIN flows : Expire(p)

\* Tasks that can go on are scheduled: connect has its timeouts, and the tun
\* becomes writable again.  A task that keeps going is made to yield now and
\* then, so that an abort takes effect.  Nothing is assumed of the kernel, the
\* peers and the caller.
Fairness == /\ WF_vars(Up)
            /\ WF_vars(Down)
            /\ WF_vars(Return)
            /\ SF_vars(AbortUp)
            /\ SF_vars(AbortDown)

Spec == Init /\ [][Next]_vars /\ Fairness

-----------------------------------------------------------------------------
\* The addresses a certificate gives its host: its own, exactly, and those
\* under its unsafe networks.
Given(cert, addr) ==
    \/ \E i \in DOMAIN cert.networks : cert.networks[i].addr = addr
    \/ \E n \in cert.unsafe_networks : Contains(n, addr)

\* A packet that leaves the listener, either way, is between an address of ours
\* and an address given to the peer its flow was opened for by that peer's
\* certificate, whichever handshakes completed and whichever flows expired
\* while the packet was under way (listener.rs:158-174, 187-194;
\* identity.rs:14-16: "exact match on the peer's own address").
ForwardedIsOwned ==
    \A f \in forwarded :
        /\ f.packet.local_addr \in Ours
        /\ Given(f.opened.cert, f.packet.remote_addr)

\* The two tasks share one connection table: what comes in without a rule for
\* it is the answer to a packet that a rule let out before, and what goes out
\* without a rule is the answer to one a rule let in (listener.rs:172, 191).
ForwardedIsAskedFor ==
    \A f \in forwarded : <<f.packet, f.opened.incoming>> \in Rules

\* "skip them rather than paying connect's multi-second handshake timeout, which
\* would otherwise stall this single sequential loop" (listener.rs:154-157):
\* no packet holds the loops for ever, whatever its peer does; a packet in the
\* inbox is taken out.
PacketsAreSettled ==
    /\ (up.at \notin {"read", "ended"}) ~> (up.at \in {"read", "ended"})
    /\ (inbox # <<>>) ~> (inbox = <<>> \/ down.at = "ended")

\* "the spawned loops must not outlive it" (listener.rs:74-76): once either
\* task ends, or the caller drops the future, both end.
EndsTogether ==
    (run # "running" \/ up.at = "ended" \/ down.at = "ended")
        ~> (run # "running" /\ up.at = "ended" /\ down.at = "ended")
=============================================================================
