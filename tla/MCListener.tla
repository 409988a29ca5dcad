----------------------------- MODULE MCListener -----------------------------
(* A host at address 1 with two peers in one subnet, 2 and 3 (3 with a route *)
(* to 4..7), of 3-bit addresses; 0 is multicast.                             *)
EXTENDS Listener

Net(addr, prefix_len) == [addr |-> addr, prefix_len |-> prefix_len]
Packet(l, r) == [parses |-> TRUE, local_addr |-> l, remote_addr |-> r]

Cert2  == [networks |-> <<Net(2, 2)>>, unsafe_networks |-> {}]
Cert3  == [networks |-> <<Net(3, 2)>>, unsafe_networks |-> {Net(4, 1)}]
\* A later certificate of host 2, with a prefix no address has.
Cert2x == [networks |-> <<Net(2, 2)>>, unsafe_networks |-> {Net(4, 9)}]
MCCerts == {Cert2, Cert3, Cert2x}

\* To and from each peer, the network behind 3, nobody, a group, and from an
\* address that is not ours; one that does not parse.
MCPackets == {Packet(1, 2), Packet(1, 3), Packet(1, 5), Packet(1, 0), Packet(6, 2),
              [parses |-> FALSE]}

\* Everything goes out; only 3 and the network behind it may come in unasked.
MCRules == (MCPackets \X {FALSE})
              \cup {<<Packet(1, 3), TRUE>>, <<Packet(1, 5), TRUE>>, <<Packet(6, 2), TRUE>>}
=============================================================================
