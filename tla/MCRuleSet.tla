----------------------------- MODULE MCRuleSet ------------------------------
(* Rule sets of up to two rules.  PortRules vary direction, protocol and port  *)
(* for any peer; PeerRules vary the criteria on the peer and the local address *)
(* for one protocol and port.  PortLookups and PeerLookups tell the rules of   *)
(* each family apart: the port that is not looked up is 0, and an ICMP packet  *)
(* has its identifier in the remote port, as parse makes it.                   *)
EXTENDS RuleSet

PortSpecs == {[spec |-> "Any"], [spec |-> "Fragment"]}
                \cup {[spec |-> "Single", p |-> n] : n \in 0..1}
                \cup {[spec |-> "Range", start |-> a, end |-> b] : a, b \in 0..2}
PortRules ==
    [incoming : {TRUE}, proto : {"Any", "Tcp", "Udp", "IcmpV6", "Other"},
     port : PortSpecs, groups : {<<>>}, host : {{}}, cidr : {{}},
     local_cidr : {[spec |-> "Unset"]}, ca_name : {{}}, ca_sha : {{}}]
    \cup
    [incoming : {FALSE}, proto : {"Any", "Tcp", "Icmp"},
     port : {[spec |-> "Single", p |-> 1], [spec |-> "Range", start |-> 0, end |-> 1],
             [spec |-> "Fragment"]},
     groups : {<<>>}, host : {{}}, cidr : {{}},
     local_cidr : {[spec |-> "Any"]}, ca_name : {{}}, ca_sha : {{}}]
PortPackets ==
    [local_addr : {1}, remote_addr : {1}, local_port : 0..3, remote_port : 0..1,
     protocol : {"Any", "Tcp", "Udp", "Icmp", "IcmpV6", "Other"}, fragment : BOOLEAN]
PortLookups ==
    {l \in [packet : PortPackets, incoming : BOOLEAN,
            remote : {[name |-> "h1", groups |-> {}, ca_name |-> "c1", ca_sha |-> "s1"]}] :
        /\ IsIcmp(l.packet.protocol) \/ ~l.incoming => l.packet.local_port = 0
        /\ ~IsIcmp(l.packet.protocol) /\ l.incoming => l.packet.remote_port = 0}

PeerRules ==
    [incoming : {TRUE}, proto : {"Tcp"}, port : {[spec |-> "Single", p |-> 1]},
     groups : {<<>>, <<"g1", "g2">>, <<"any", "g1">>, <<"any">>, <<"any", "any">>},
     host : {{}, {"h1"}, {"any"}},
     cidr : {{}, {{1}}},
     local_cidr : {[spec |-> "Unset"], [spec |-> "Net", net |-> {2}]},
     ca_name : {{}, {"c1"}}, ca_sha : {{}, {"s1"}}]
PeerLookups ==
    [packet : [local_addr : 1..3, remote_addr : 1..2, local_port : {1}, remote_port : {2},
               protocol : {"Tcp"}, fragment : {FALSE}],
     incoming : {TRUE},
     remote : [name : {"h1", "h2"}, groups : {{"g1"}, {"g1", "g2"}},
               ca_name : {"c1", "c2"}, ca_sha : {"s1", "s2"}]]

AllRules   == PortRules \cup PeerRules
AllLookups == PortLookups \cup PeerLookups
OneNetwork == {{{1}}}

ASSUME LookupsTellApart
=============================================================================
