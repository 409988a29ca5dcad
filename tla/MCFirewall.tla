----------------------------- MODULE MCFirewall -----------------------------
(* Small instances of Firewall.  Peer a owns the remote address of every     *)
(* packet, the other peers own none; reload moves between rule sets that     *)
(* allow both directions, one direction, and nothing.                        *)
EXTENDS Firewall

CONSTANTS a,
          Long   \* packets whose protocol has the longer timeout

Open    == Packets \X BOOLEAN \X Peers
Outward == Packets \X {FALSE} \X Peers
Closed  == {}

MCRuleSets == {Open, Outward, Closed}
MCOwns     == [peer \in Peers |-> IF peer = a THEN Packets ELSE {}]
MCTimeout  == [p \in Packets |-> IF p \in Long THEN 2 ELSE 1]
MCVersions == 0..(VersionMod - 1)
=============================================================================
