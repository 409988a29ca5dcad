---------------------------- MODULE MCLighthouse ----------------------------
(* Small instances of Lighthouse: IPv4 addresses 0..3, mapped at 8..11.      *)
EXTENDS Lighthouse

\* Two lighthouses, the second of which is not among the static hosts; a peer
\* with an IPv4 and one with an IPv4-mapped IPv6 address.
l1 == V4(0)
l2 == V4(1)
p1 == V4(2)
pm == V6(11)
MCHosts       == <<l1, l2>>
MCStaticHosts == [v \in {l1} |-> Socket(V4(0), 1)]
MCTargets     == {p1, pm}
MCPeers       == {p1}

MCPublications ==
    {[addr |-> p1, sockets |-> <<Socket(V6(2), 1), Socket(V4(2), 1)>>],
     [addr |-> pm, sockets |-> <<Socket(V4(3), 1)>>]}

\* Answers about p1 with a port beyond u16 and about the second lighthouse; one
\* without addresses, one without details, and a query.
MCAnswers ==
    {Meta("HostQueryReply", {ip_to_addr(p1)}, <<<<3, 5>>>>, <<<<2, 1>>>>),
     Meta("HostQueryReply", {ip_to_addr(l2)}, <<<<1, 1>>>>, <<>>),
     Meta("HostQueryReply", {ip_to_addr(p1)}, <<>>, <<>>),
     Meta("HostUpdateNotification", {}, <<>>, <<>>),
     host_query(p1)}
=============================================================================
