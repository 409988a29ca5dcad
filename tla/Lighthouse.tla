----------------------------- MODULE Lighthouse -----------------------------
(***************************************************************************)
(* How one session learns where peers are: lighthouse.rs, and in           *)
(* session.rs build, register_with_lighthouses, resolve and                *)
(* handle_lighthouse.  Each action is one section under the session's      *)
(* mutex, or one wake-up of a call.                                        *)
(*                                                                         *)
(* Tunnels are the business of Session: here `tunnels` is the set of VPN   *)
(* addresses index_by_vpn_addr holds, which Session shows to be            *)
(* established and never to shrink.  The lighthouse server is external:    *)
(* it may answer anything at any time.                                     *)
(***************************************************************************)
EXTENDS Integers, Sequences, FiniteSets, Functions

CONSTANTS Hosts,        \* config.lighthouses, in order
          StaticHosts,  \* config.static_hosts: VPN address -> UDP address
          Targets,      \* VPN addresses calls of connect are made for
          Peers,        \* VPN addresses of peers that may connect to us
          Publications, \* [addr, sockets]: what hosts publish of themselves
          Answers,      \* other messages peers and lighthouses may send
          Calls,        \* calls of connect by the session's users
          Builder,      \* the call of Session::new itself
          V4Size,       \* size of the IPv4 address space (2^32)
          MapBase,      \* first IPv4-mapped IPv6 address
          PortSize,     \* 2^16: a port is a u32 on the wire and a u16 here
          MaxMetas      \* bound: lighthouse messages handled

ASSUME HostsAssumption == Hosts \in Seq(Range(Hosts))

Tasks == Calls \cup {Builder}

VARIABLES known_addrs,         \* Inner.known_addrs
          lighthouse_waiters,  \* Inner.lighthouse_waiters: the call each sender belongs to
          tunnels,             \* keys of Inner.index_by_vpn_addr
          call,                \* call[k]: where connect call k is
          session,             \* how far Session::new is
          handled              \* history: the lighthouse messages handled

vars == <<known_addrs, lighthouse_waiters, tunnels, call, session, handled>>

-----------------------------------------------------------------------------
(* Addresses.  The wire's Addr is the IPv6 form of an address.             *)
V4(a)     == [family |-> 4, value |-> a]
V6(a)     == [family |-> 6, value |-> a]
Mapped(a) == a \in MapBase..(MapBase + V4Size - 1)

Ips == [family : {4}, value : 0..(V4Size - 1)] \cup [family : {6}, value : Nat]

ASSUME AddressAssumption == /\ V4Size \in Nat /\ MapBase \in Nat
                            /\ Targets \cup Range(Hosts) \subseteq Ips

\* A slip: the IPv4 address inside an IPv4-mapped one is not taken out.
addr_to_ip_v6(addr) == V6(addr)

addr_to_ip(addr) == IF Mapped(addr) THEN V4(addr - MapBase) ELSE V6(addr)

ip_to_addr(ip) == IF ip.family = 4 THEN MapBase + ip.value ELSE ip.value

Socket(ip, port) == [ip |-> ip, port |-> port]

Sockets == [ip : Ips, port : {n \in Nat : n < PortSize}]

ASSUME PublicationAssumption ==
    /\ PortSize \in Nat
    /\ \A p \in Publications : p.addr \in Ips /\ p.sockets \in Seq(Sockets)

\* addr_to_v4_v6, pushed to one of two lists for each address in turn.
OfFamily(sockets, f) ==
    LET pushed[i \in 0..Len(sockets)] ==
            IF i = 0 THEN <<>>
            ELSE IF sockets[i].ip.family = f THEN Append(pushed[i - 1], sockets[i])
            ELSE pushed[i - 1]
    IN  pushed[Len(sockets)]

Meta(type, vpn_addr, v4, v6) ==
    [type |-> type, vpn_addr |-> vpn_addr, v4_addr_ports |-> v4, v6_addr_ports |-> v6]

\* The wire's pairs: the address as a number, the port widened to u32.
AddrPorts(sockets) == [i \in DOMAIN sockets |-> <<sockets[i].ip.value, sockets[i].port>>]

host_update_notification(vpn_addr, reachable_at) ==
    Meta("HostUpdateNotification", {ip_to_addr(vpn_addr)},
         AddrPorts(OfFamily(reachable_at, 4)), AddrPorts(OfFamily(reachable_at, 6)))

host_query(vpn_addr) == Meta("HostQuery", {ip_to_addr(vpn_addr)}, <<>>, <<>>)

\* A slip: the IPv6 addresses come first.
candidate_addrs_v6_first(meta) ==
    [i \in DOMAIN meta.v6_addr_ports |->
        Socket(V6(meta.v6_addr_ports[i][1]), meta.v6_addr_ports[i][2] % PortSize)]
    \o [i \in DOMAIN meta.v4_addr_ports |->
        Socket(V4(meta.v4_addr_ports[i][1]), meta.v4_addr_ports[i][2] % PortSize)]

\* (A message without details has empty lists.)
candidate_addrs(meta) ==
    [i \in DOMAIN meta.v4_addr_ports |->
        Socket(V4(meta.v4_addr_ports[i][1]), meta.v4_addr_ports[i][2] % PortSize)]
    \o [i \in DOMAIN meta.v6_addr_ports |->
        Socket(V6(meta.v6_addr_ports[i][1]), meta.v6_addr_ports[i][2] % PortSize)]

Metas == Answers \cup {host_update_notification(p.addr, p.sockets) : p \in Publications}

-----------------------------------------------------------------------------
Insert(f, x, y) == [z \in DOMAIN f \cup {x} |-> IF z = x THEN y ELSE f[z]]
Remove(f, x)    == [z \in DOMAIN f \ {x} |-> f[z]]
Empty           == [z \in {} |-> 0]

\* rx: the receiving end of the call's oneshot channel, with what was sent on
\* it; asked: how many lighthouses the call has asked; gap: history, the
\* address became known between the call's lookup and its registration.
Fresh(v) == [pc |-> "lookup", target |-> v, asked |-> 0, rx |-> "none",
             addrs |-> <<>>, gap |-> FALSE]

\* Session::new, from the configuration on: nothing known but static_hosts,
\* and the first lighthouse to connect to.
Init ==
    /\ known_addrs = StaticHosts
    /\ lighthouse_waiters = Empty
    /\ tunnels = {}
    /\ session = [state |-> "building", done |-> 0]
    /\ call = [k \in Tasks |-> [pc |-> "idle"]]
    /\ handled = <<>>

Running(k, pcs) == call[k].pc \in pcs

\* resolve, first section.
Lookup(k) ==
    /\ Running(k, {"lookup"})
    /\ LET v == call[k].target IN
       call' = [call EXCEPT ![k] =
           IF v \in DOMAIN known_addrs
           THEN [@ EXCEPT !.pc = "resolved", !.addrs = <<known_addrs[v]>>]
           ELSE [@ EXCEPT !.pc = "missed"]]
    /\ UNCHANGED <<known_addrs, lighthouse_waiters, tunnels, session, handled>>

\* A slip: the second of two waiters for one address is not put in the table.
RegisterWaiterOnce(k) ==
    /\ Running(k, {"missed"})
    /\ LET v == call[k].target IN
       /\ call' = [call EXCEPT ![k].pc = "asking", ![k].rx = "open"]
       /\ lighthouse_waiters' = IF v \in DOMAIN lighthouse_waiters THEN lighthouse_waiters
                                ELSE Insert(lighthouse_waiters, v, k)
    /\ UNCHANGED <<known_addrs, tunnels, session, handled>>

\* resolve, second section: the waiter is registered; the sender of a call that
\* waited for the same address before is dropped with the entry it replaces.
RegisterWaiter(k) ==
    /\ Running(k, {"missed"})
    /\ LET v == call[k].target
           Replaced(j) == /\ v \in DOMAIN lighthouse_waiters
                          /\ lighthouse_waiters[v] = j
                          /\ Running(j, {"asking", "waiting"})
                          /\ call[j].rx = "open"
       IN /\ call' = [j \in Tasks |->
                 IF j = k THEN [call[k] EXCEPT !.pc = "asking", !.rx = "open"]
                 ELSE IF Replaced(j) THEN [call[j] EXCEPT !.rx = "dropped"]
                 ELSE call[j]]
          /\ lighthouse_waiters' = Insert(lighthouse_waiters, v, k)
    /\ UNCHANGED <<known_addrs, tunnels, session, handled>>

\* resolve's loop over the lighthouses: one send_typed each, whose failure (no
\* tunnel, a socket error) is ignored.  After the last one the timer starts.
AskLighthouse(k) ==
    /\ Running(k, {"asking"})
    /\ call' = [call EXCEPT ![k] =
           IF @.asked < Len(Hosts) THEN [@ EXCEPT !.asked = @ + 1]
           ELSE [@ EXCEPT !.pc = "waiting"]]
    /\ UNCHANGED <<known_addrs, lighthouse_waiters, tunnels, session, handled>>

\* A slip: the wait for the answer has no timeout.
ResolvedUntimed(k) ==
    /\ Running(k, {"waiting"})
    /\ call[k].rx # "open"
    /\ call' = [call EXCEPT ![k] =
           IF @.rx = "fired" THEN [@ EXCEPT !.pc = "resolved"]
           ELSE [@ EXCEPT !.pc = "PeerUnreachable"]]
    /\ UNCHANGED <<known_addrs, lighthouse_waiters, tunnels, session, handled>>

\* The wait ends: an answer, a dropped sender, or five seconds without either.
Resolved(k) ==
    /\ Running(k, {"waiting"})
    /\ call' = [call EXCEPT ![k] =
           IF @.rx = "fired" THEN [@ EXCEPT !.pc = "resolved"]
           ELSE [@ EXCEPT !.pc = "PeerUnreachable"]]
    /\ UNCHANGED <<known_addrs, lighthouse_waiters, tunnels, session, handled>>

\* The rest of connect, which Session models: a call that succeeds has a tunnel.
Handshake(k) ==
    /\ Running(k, {"resolved"})
    /\ \/ /\ call' = [call EXCEPT ![k].pc = "Ok"]
          /\ tunnels' = tunnels \cup {call[k].target}
       \/ /\ call' = [call EXCEPT ![k].pc = "Failed"]
          /\ UNCHANGED tunnels
    /\ UNCHANGED <<known_addrs, lighthouse_waiters, session, handled>>

\* External: a peer connects to us.
Accept(v) ==
    /\ v \in Peers \ tunnels
    /\ tunnels' = tunnels \cup {v}
    /\ UNCHANGED <<known_addrs, lighthouse_waiters, call, session, handled>>

-----------------------------------------------------------------------------
\* A slip: the address is stored, the waiter is not told.
handle_lighthouse_silent(meta) ==
    LET addrs == candidate_addrs(meta) IN
    IF /\ meta.type \in {"HostQueryReply", "HostUpdateNotification"}
       /\ addrs # <<>>
       /\ meta.vpn_addr # {}
    THEN LET v == addr_to_ip(CHOOSE x \in meta.vpn_addr : TRUE) IN
         /\ known_addrs' = Insert(known_addrs, v, addrs[1])
         /\ UNCHANGED <<lighthouse_waiters, call>>
    ELSE UNCHANGED <<known_addrs, lighthouse_waiters, call>>

\* An answer or an update with at least one address and a VPN address is taken
\* in, whoever sent it and whether or not it was asked for; the first candidate
\* becomes the known address, and the waiter gets them all.
handle_lighthouse(meta) ==
    LET addrs == candidate_addrs(meta) IN
    IF /\ meta.type \in {"HostQueryReply", "HostUpdateNotification"}
       /\ addrs # <<>>
       /\ meta.vpn_addr # {}
    THEN LET v == addr_to_ip(CHOOSE x \in meta.vpn_addr : TRUE)
             Woken(k) == /\ v \in DOMAIN lighthouse_waiters
                         /\ lighthouse_waiters[v] = k
                         /\ Running(k, {"asking", "waiting"})
                         /\ call[k].rx = "open"
             InGap(k) == Running(k, {"missed"}) /\ call[k].target = v
         IN /\ known_addrs' = Insert(known_addrs, v, addrs[1])
            /\ lighthouse_waiters' = Remove(lighthouse_waiters, v)
            /\ call' = [k \in Tasks |->
                  IF Woken(k) THEN [call[k] EXCEPT !.rx = "fired", !.addrs = addrs]
                  ELSE IF InGap(k) THEN [call[k] EXCEPT !.gap = TRUE]
                  ELSE call[k]]
    ELSE UNCHANGED <<known_addrs, lighthouse_waiters, call>>

\* A packet that decrypts: some established peer sent it (Session, Transport).
handle_lighthouse_packet(meta) ==
    /\ tunnels # {}
    /\ Len(handled) < MaxMetas
    /\ handle_lighthouse(meta)
    /\ handled' = Append(handled, meta)
    /\ UNCHANGED <<tunnels, session>>

-----------------------------------------------------------------------------
\* register_with_lighthouses: connect to the next lighthouse ...
RegisterConnect ==
    /\ session.state = "building"
    /\ session.done < Len(Hosts)
    /\ Running(Builder, {"idle"})
    /\ call' = [call EXCEPT ![Builder] = Fresh(Hosts[session.done + 1])]
    /\ UNCHANGED <<known_addrs, lighthouse_waiters, tunnels, session, handled>>

\* A slip: an unreachable lighthouse is skipped.
RegisterSkips ==
    /\ session.state = "building"
    /\ Running(Builder, {"Ok", "Failed", "PeerUnreachable"})
    /\ call' = [call EXCEPT ![Builder] = [pc |-> "idle"]]
    /\ session' = [session EXCEPT !.done = @ + 1]
    /\ UNCHANGED <<known_addrs, lighthouse_waiters, tunnels, handled>>

\* ... and send it our HostUpdateNotification.  A connect or a send that failed
\* (the socket may refuse any packet) makes Session::new fail.
RegisterSend ==
    /\ session.state = "building"
    /\ Running(Builder, {"Ok", "Failed", "PeerUnreachable"})
    /\ call' = [call EXCEPT ![Builder] = [pc |-> "idle"]]
    /\ \/ /\ Running(Builder, {"Ok"})
          /\ call[Builder].target \in tunnels
          /\ session' = [session EXCEPT !.done = @ + 1]
       \/ session' = [session EXCEPT !.state = "failed"]
    /\ UNCHANGED <<known_addrs, lighthouse_waiters, tunnels, handled>>

\* The session is handed out.
Ready ==
    /\ session.state = "building"
    /\ session.done = Len(Hosts)
    /\ session' = [session EXCEPT !.state = "ready"]
    /\ UNCHANGED <<known_addrs, lighthouse_waiters, tunnels, call, handled>>

\* A user of the session calls connect.
Connect(k, v) ==
    /\ session.state = "ready"
    /\ Running(k, {"idle"})
    /\ call' = [call EXCEPT ![k] = Fresh(v)]
    /\ UNCHANGED <<known_addrs, lighthouse_waiters, tunnels, session, handled>>

Step(k) == \/ Lookup(k)
           \/ RegisterWaiter(k)
           \/ AskLighthouse(k)
           \/ Resolved(k)
           \/ Handshake(k)
Build   == RegisterConnect \/ RegisterSend \/ Ready

Next == \/ Build
        \/ \E k \in Tasks : Step(k)
        \/ \E k \in Calls, v \in Targets : Connect(k, v)
        \/ \E v \in Peers : Accept(v)
        \/ \E meta \in Metas : handle_lighthouse_packet(meta)

\* A call that has been made and Session::new run to their end: every wait in
\* them has a timeout.  Nothing is assumed of users, peers and lighthouses.
Fairness == WF_vars(Build) /\ \A k \in Tasks : WF_vars(Step(k))

Spec == Init /\ [][Next]_vars /\ Fairness

-----------------------------------------------------------------------------
\* A call still waiting for an answer is the one whose sender the table holds,
\* so an answer cannot wake nobody, or the call that has given up, while
\* another waits (session.rs:443, 259; a call that times out leaves its sender
\* in the table).
WaitersAreRegistered ==
    \A k \in Tasks :
        Running(k, {"asking", "waiting"}) /\ call[k].rx = "open" =>
            /\ call[k].target \in DOMAIN lighthouse_waiters
            /\ lighthouse_waiters[call[k].target] = k

\* A call waits for an address the session already knows only if the address
\* came between its two sections (session.rs:435-445): then it sleeps until
\* its timeout although the answer is in the table.  In every other case the
\* address that came woke the call.
KnownIsNotAwaited ==
    \A k \in Tasks :
        /\ Running(k, {"asking", "waiting"})
        /\ call[k].rx = "open"
        /\ call[k].target \in DOMAIN known_addrs
        => call[k].gap

\* An IPv4-mapped IPv6 address has no wire form of its own.
Plain(ip) == ip.family = 4 \/ ~Mapped(ip.value)

\* Whoever publishes itself through host_update_notification is found by those
\* who take the message in: at its first IPv4 address if it has one, else its
\* first IPv6 address, under its own VPN address (lighthouse.rs:54-105).
PublishedIsLearned ==
    \A p \in Publications :
        /\ Plain(p.addr)
        /\ p.sockets # <<>>
        /\ handled # <<>>
        /\ handled[Len(handled)] = host_update_notification(p.addr, p.sockets)
        => /\ p.addr \in DOMAIN known_addrs
           /\ known_addrs[p.addr] = Head(OfFamily(p.sockets, 4) \o OfFamily(p.sockets, 6))

\* The answer to a call's query wakes the call with the addresses it carries,
\* while it is still asking as well as when it waits: the query and the reply
\* name the peer in the wire's form, the table by IpAddr (session.rs:446,
\* 252-260; lighthouse.rs:11-32).
AnswerWakes ==
    [][\A k \in Tasks :
          LET meta == handled'[Len(handled')] IN
          /\ handled' # handled
          /\ Running(k, {"asking", "waiting"}) /\ call[k].rx = "open"
          /\ Plain(call[k].target)
          /\ meta.type = "HostQueryReply"
          /\ meta.vpn_addr = host_query(call[k].target).vpn_addr
          /\ candidate_addrs(meta) # <<>>
          => call'[k].rx = "fired" /\ call'[k].addrs = candidate_addrs(meta)]_vars

\* "Lighthouses are already established by register_with_lighthouses before a
\* Session is ever handed out, so this send targets an existing tunnel"
\* (session.rs:449-451): a session that is ready has a tunnel to every
\* lighthouse, also when Session::new had to ask one for another's address.
LighthousesHaveTunnels ==
    session.state = "ready" => Range(Hosts) \subseteq tunnels

\* Whatever arrives, is lost or replaced, a call made returns and Session::new
\* ends: no wait is without its timeout (session.rs:385, 457-460).
CallsReturn ==
    /\ \A k \in Calls : (call[k].pc # "idle") ~> (call[k].pc \in {"Ok", "Failed", "PeerUnreachable"})
    /\ <>(session.state \in {"ready", "failed"})
=============================================================================
