---------------------------- MODULE MCTransport -----------------------------
(* One direction of a tunnel, a window of 4 and counters up to 7: the sender *)
(* emits packets 3 to 7, so a packet can be late inside and outside the      *)
(* window, and one datagram is damaged in its header or its body.            *)
(* Beside the window of Transport the counters of all datagrams decrypted    *)
(* pass through a window in words, two words of two bits: a mark moves       *)
(* within a word, over the word boundary and off the end.                    *)
EXTENDS Transport, ReplayBits, TLC

TypeSymmetry == Permutations(PacketTypes)

TunnelInit == Init /\ BitInit

TunnelNext ==
    \/ /\ \/ \E t \in PacketTypes, p \in Payloads : Send(t, p)
          \/ \E d \in wire, h \in Headers : Damage(d, h)
       /\ UNCHANGED bitVars
    \/ \E d \in wire : Decrypt(d) /\ BitCheckAndUpdate(d.hdr.counter)

TunnelSpec == TunnelInit /\ [][TunnelNext]_<<vars, bitVars>>
=============================================================================
