---------------------------- MODULE PacketParse -----------------------------
(***************************************************************************)
(* packet::parse (nebula-listener/src/packet.rs): the five-tuple of an     *)
(* IPv4 or IPv6 packet, byte by byte as the code reads it.  The IPv6 walk  *)
(* is one action per header.                                               *)
(*                                                                         *)
(* A packet is given by what its sender put into it - addresses, header    *)
(* chain, transport header - and by how many bytes of it there are.        *)
(* RawByte is its byte i on the wire; Filler is what options and payload hold. *)
(***************************************************************************)
EXTENDS Integers, Sequences, FiniteSetsExt

CONSTANTS V4Packets,   \* [version, ihl, mf, frag, upper, len]
          V6Packets,   \* [version, chain, at, upper, len]
          Filler       \* value of every other byte

VARIABLES packet,      \* what the sender built
          incoming,    \* the argument of parse
          pc,          \* "start", "walk" or "done"
          proto_at,    \* parse_ipv6: index of the byte naming the next header
          offset,      \* parse_ipv6: where that header starts
          tuple,       \* the FiveTuple found: an Option, as a set
          touched      \* history: highest byte indexed without a check of its own

vars == <<packet, incoming, pc, proto_at, offset, tuple, touched>>

TCP == 6
UDP == 17
ICMP == 1
FRAGMENT == 44
ESP == 50
AH == 51
ICMPV6 == 58
NO_NEXT == 59

Hi(n) == n \div 256
Lo(n) == n % 256

-----------------------------------------------------------------------------
(* What is on the wire.  An extension header is [nh, ext, word]: its own    *)
(* number, its length byte, and bytes 2 and 3.  at[j] is where header j of  *)
(* the chain starts; header Len(chain) + 1 is the upper one, which is [nh,  *)
(* src_port, dst_port, type, id].                                           *)

\* Bytes of an extension header, from the IPv6 standard.
SizeOf(h) == IF h.nh = FRAGMENT THEN 8
             ELSE IF h.nh = AH THEN 4 * (h.ext + 2)
             ELSE 8 * (h.ext + 1)

UpperStart(p) == IF p.version = 4 THEN 4 * p.ihl ELSE p.at[Len(p.chain) + 1]

NumberAt(p, j) == IF j <= Len(p.chain) THEN p.chain[j].nh ELSE p.upper.nh

Below(n) == {x \in Nat : x < n}
Bytes == Below(256)
Words == Below(65536)
Uppers == [nh : Bytes, src_port : Words, dst_port : Words, type : Bytes, id : Words]
Headers == [nh : Bytes, ext : Bytes, word : Words]

\* The headers follow each other from byte 40 on.
LaidOut(p) ==
    /\ p.at \in [1..(Len(p.chain) + 1) -> Nat]
    /\ p.at[1] = 40
    /\ \A j \in 1..Len(p.chain) : p.at[j + 1] = p.at[j] + SizeOf(p.chain[j])

\* Packets as senders build them, of any length; version 4 is an IPv4 packet.
ASSUME PacketAssumption ==
    /\ Filler \in Bytes
    /\ \A p \in V4Packets :
          /\ p = [version |-> 4, ihl |-> p.ihl, mf |-> p.mf, frag |-> p.frag,
                  upper |-> p.upper, len |-> p.len]
          /\ p.ihl \in Below(16)
          /\ p.mf \in BOOLEAN
          /\ p.frag \in Below(8192)
          /\ p.upper \in Uppers
          /\ p.len \in Nat
    /\ \A p \in V6Packets :
          /\ p = [version |-> p.version, chain |-> p.chain, at |-> p.at,
                  upper |-> p.upper, len |-> p.len]
          /\ p.version \in Below(16) \ {4}
          /\ p.chain \in Seq(Headers)
          /\ \A j \in 1..Len(p.chain) : p.chain[j].nh \notin {TCP, UDP, ICMPV6, ESP, NO_NEXT}
          /\ LaidOut(p)
          /\ p.upper \in Uppers
          /\ p.len \in Nat

UpperBytes(u) == IF u.nh \in {ICMP, ICMPV6}
                 THEN <<u.type, 0, 0, 0, Hi(u.id), Lo(u.id)>>
                 ELSE <<Hi(u.src_port), Lo(u.src_port), Hi(u.dst_port), Lo(u.dst_port)>>

UpperByte(p, i) == LET k == i - UpperStart(p) + 1 IN
                   IF k \in DOMAIN UpperBytes(p.upper) THEN UpperBytes(p.upper)[k] ELSE Filler

V4Byte(p, i) ==
    LET word == (IF p.mf THEN 8192 ELSE 0) + p.frag IN
    CASE i = 0 -> 64 + p.ihl
      [] i = 6 -> Hi(word)
      [] i = 7 -> Lo(word)
      [] i = 9 -> p.upper.nh
      [] i < 20 /\ i \notin {0, 6, 7, 9} -> Filler
      [] OTHER -> UpperByte(p, i)

V6Byte(p, i) ==
    LET within == {j \in 1..Len(p.chain) : i >= p.at[j] /\ i < p.at[j + 1]} IN
    IF i = 0 THEN 16 * p.version
    ELSE IF i = 6 THEN NumberAt(p, 1)
    ELSE IF within = {} THEN UpperByte(p, i)
    ELSE LET j == CHOOSE x \in within : TRUE
             k == i - p.at[j]
         IN  IF k = 0 THEN NumberAt(p, j + 1)
             ELSE IF k = 1 THEN p.chain[j].ext
             ELSE IF k = 2 THEN Hi(p.chain[j].word)
             ELSE IF k = 3 THEN Lo(p.chain[j].word)
             ELSE Filler

RawByte(i) == IF packet.version = 4 THEN V4Byte(packet, i) ELSE V6Byte(packet, i)
U16(i)  == 256 * RawByte(i) + RawByte(i + 1)

-----------------------------------------------------------------------------
(* The code.                                                               *)

\* Protocol::from
Protocol(n) == IF n = 0 THEN [name |-> "Any", number |-> 0]
               ELSE IF n = TCP THEN [name |-> "Tcp", number |-> 0]
               ELSE IF n = UDP THEN [name |-> "Udp", number |-> 0]
               ELSE IF n = ICMP THEN [name |-> "Icmp", number |-> 0]
               ELSE IF n = ICMPV6 THEN [name |-> "IcmpV6", number |-> 0]
               ELSE [name |-> "Other", number |-> n]

FiveTuple(protocol, src_port, dst_port, id, fragment) ==
    [src |-> "src", dst |-> "dst", protocol |-> protocol, src_port |-> src_port,
     dst_port |-> dst_port, icmp_identifier |-> id, fragment |-> fragment]

\* A slip: an ICMP identifier is turned round like a port.
ToPacketTurned(t, in) ==
    LET id == IF t.icmp_identifier = {} THEN 0 ELSE CHOOSE x \in t.icmp_identifier : TRUE
    IN  [local_addr |-> IF in THEN t.dst ELSE t.src,
         remote_addr |-> IF in THEN t.src ELSE t.dst,
         local_port |-> IF in THEN t.dst_port ELSE t.src_port + id,
         remote_port |-> IF in THEN t.src_port + id ELSE t.dst_port,
         protocol |-> t.protocol, fragment |-> t.fragment]

\* parse: local and remote by direction; an ICMP identifier is always remote.
ToPacket(t, in) ==
    LET ports == CASE t.icmp_identifier # {} -> <<0, CHOOSE id \in t.icmp_identifier : TRUE>>
                   [] t.icmp_identifier = {} /\ in -> <<t.dst_port, t.src_port>>
                   [] t.icmp_identifier = {} /\ ~in -> <<t.src_port, t.dst_port>>
    IN  [local_addr |-> IF in THEN t.dst ELSE t.src,
         remote_addr |-> IF in THEN t.src ELSE t.dst,
         local_port |-> ports[1],
         remote_port |-> ports[2],
         protocol |-> t.protocol, fragment |-> t.fragment]

\* read_ports, of the bytes from i on.
SrcPort(i) == IF packet.len - i < 4 THEN 0 ELSE U16(i)
DstPort(i) == IF packet.len - i < 4 THEN 0 ELSE U16(i + 2)

Init == /\ packet \in V4Packets \cup V6Packets
        /\ incoming \in BOOLEAN
        /\ pc = "start"
        /\ proto_at = 0
        /\ offset = 0
        /\ tuple = {}
        /\ touched = 0

Return(t, byte) == /\ pc' = "done"
                   /\ tuple' = t
                   /\ touched' = Max({touched, byte})
                   /\ UNCHANGED <<packet, incoming, proto_at, offset>>

\* A slip: an ICMP packet needs no more than a port pair.
NeedFour(protocol) == 4

\* Bytes of the transport header that must be there.
Need(protocol) == IF protocol.name = "Icmp" THEN 6 ELSE 4

\* A slip: the MF bit counts as a fragment too.
FragOffsetMF == U16(6) % 16384

FragOffset == U16(6) % 8192

parse_ipv4 ==
    LET ihl == (RawByte(0) % 16) * 4
        protocol == Protocol(RawByte(9))
        ports == FragOffset = 0 /\ protocol.name \in {"Tcp", "Udp"}
        icmp == FragOffset = 0 /\ protocol.name = "Icmp"
    IN  IF packet.len < 20 THEN Return({}, 0)
        ELSE IF ihl < 20 \/ packet.len < ihl THEN Return({}, 0)
        ELSE IF FragOffset = 0 /\ packet.len < ihl + Need(protocol) THEN Return({}, 19)
        ELSE Return({FiveTuple(protocol,
                               IF ports THEN SrcPort(ihl) ELSE 0,
                               IF ports THEN DstPort(ihl) ELSE 0,
                               IF icmp THEN {U16(ihl + 4)} ELSE {},
                               FragOffset # 0)},
                    IF icmp THEN ihl + 5 ELSE 19)

\* parse, up to the loop of parse_ipv6.
Begin ==
    /\ pc = "start"
    /\ IF packet.len = 0 THEN Return({}, 0)
       ELSE IF RawByte(0) \div 16 = 4 THEN parse_ipv4
       ELSE IF RawByte(0) \div 16 # 6 THEN Return({}, 0)
       ELSE IF packet.len < 40 THEN Return({}, 0)
       ELSE /\ pc' = "walk"
            /\ proto_at' = 6
            /\ offset' = 40
            /\ touched' = 39
            /\ UNCHANGED <<packet, incoming, tuple>>

\* A slip: the length is computed in a u8 and wraps.
AdvanceByte(nh) == IF nh = FRAGMENT THEN 8
                   ELSE IF nh = AH THEN ((RawByte(offset + 1) + 2) * 4) % 256
                   ELSE ((RawByte(offset + 1) + 1) * 8) % 256

\* How far the header after this one is, in usize.
Advance(nh) == IF nh = FRAGMENT THEN 8
               ELSE IF nh = AH THEN (RawByte(offset + 1) + 2) * 4
               ELSE (RawByte(offset + 1) + 1) * 8

\* frag_offset of a fragment header: the low three bits are not part of it.
LaterFragment == U16(offset + 2) \div 8 # 0

\* One turn of the loop: a header that ends the walk ...
Terminal(nh) ==
    \/ /\ nh \in {ESP, NO_NEXT}
       /\ Return({FiveTuple(Protocol(nh), 0, 0, {}, FALSE)}, 0)
    \/ /\ nh = ICMPV6
       /\ IF packet.len < offset + 6 THEN Return({}, 0)
          ELSE Return({FiveTuple(Protocol(nh), 0, 0,
                         IF RawByte(offset) \in {128, 129} THEN {U16(offset + 4)} ELSE {},
                         FALSE)}, offset + 5)
    \/ /\ nh \in {TCP, UDP}
       /\ IF packet.len < offset + 4 THEN Return({}, 0)
          ELSE Return({FiveTuple(Protocol(nh), SrcPort(offset), DstPort(offset), {}, FALSE)},
                      offset)
    \/ /\ nh = FRAGMENT
       /\ packet.len >= offset + 8
       /\ LaterFragment
       /\ Return({FiveTuple(Protocol(RawByte(offset)), 0, 0, {}, TRUE)}, offset + 3)

\* ... a header too short to read ...
Truncated(nh) ==
    \/ nh = FRAGMENT /\ packet.len < offset + 8
    \/ nh \notin {ESP, NO_NEXT, ICMPV6, TCP, UDP, FRAGMENT} /\ packet.len <= offset + 1

\* ... or one to step over.
Skips(nh) == /\ nh \notin {ESP, NO_NEXT, ICMPV6, TCP, UDP}
             /\ ~Truncated(nh)
             /\ nh = FRAGMENT => ~LaterFragment

Walk ==
    /\ pc = "walk"
    /\ IF proto_at >= packet.len THEN Return({}, 0)
       ELSE LET nh == RawByte(proto_at) IN
            \/ Terminal(nh)
            \/ Truncated(nh) /\ Return({}, 0)
            \/ /\ Skips(nh)
               /\ proto_at' = offset
               /\ offset' = offset + Advance(nh)
               /\ touched' = IF nh = FRAGMENT THEN offset + 3 ELSE touched
               /\ UNCHANGED <<packet, incoming, pc, tuple>>

Next == Begin \/ Walk

Spec == Init /\ [][Next]_vars /\ WF_vars(Next)

-----------------------------------------------------------------------------
(* What the packet means, from how it was built.                           *)
NoneIf(cond, t) == IF cond THEN {} ELSE {t}

\* Echo messages carry an identifier; so does every ICMP message of IPv4.
HasId(p) == \/ p.version = 4 /\ p.upper.nh = ICMP
            \/ p.version # 4 /\ p.upper.nh = ICMPV6 /\ p.upper.type \in {128, 129}

UpperTuple(p, later) ==
    FiveTuple(Protocol(p.upper.nh),
              IF ~later /\ p.upper.nh \in {TCP, UDP} THEN p.upper.src_port ELSE 0,
              IF ~later /\ p.upper.nh \in {TCP, UDP} THEN p.upper.dst_port ELSE 0,
              IF ~later /\ HasId(p) THEN {p.upper.id} ELSE {},
              later)

UpperNeed(u) == IF u.nh \in {ICMP, ICMPV6} THEN 6
                ELSE IF u.nh \in {ESP, NO_NEXT} THEN 0 ELSE 4

V4Meaning(p) ==
    NoneIf(\/ p.len < 20
           \/ p.ihl < 5
           \/ p.len < 4 * p.ihl
           \/ p.frag = 0 /\ p.len < 4 * p.ihl + (IF p.upper.nh = ICMP THEN 6 ELSE 4),
           UpperTuple(p, p.frag # 0))

\* The first header of the chain that makes the packet a later fragment.
Fragmented(p) == {j \in 1..Len(p.chain) : p.chain[j].nh = FRAGMENT /\ p.chain[j].word >= 8}

Reads(p, j) == p.len >= p.at[j] + (IF p.chain[j].nh = FRAGMENT THEN 8 ELSE 2)

V6Meaning(p) ==
    IF Fragmented(p) # {}
    THEN LET k == Min(Fragmented(p)) IN
         NoneIf(p.len < 40 \/ \E j \in 1..k : ~Reads(p, j),
                FiveTuple(Protocol(NumberAt(p, k + 1)), 0, 0, {}, TRUE))
    ELSE NoneIf(\/ p.len < 40
                \/ \E j \in 1..Len(p.chain) : ~Reads(p, j)
                \/ UpperNeed(p.upper) > 0 /\ p.len < UpperStart(p) + UpperNeed(p.upper),
                UpperTuple(p, FALSE))

Meaning(p) == CASE p.version = 4 -> V4Meaning(p)
                [] p.version = 6 -> V6Meaning(p)
                [] OTHER -> {}

\* Transport headers the walk knows.  It takes any other number for an extension
\* header and goes on behind it.
Understood(p) == \/ p.version # 6
                 \/ Fragmented(p) # {}
                 \/ p.upper.nh \in {TCP, UDP, ICMPV6, ESP, NO_NEXT}

\* The answer to a packet.
Reply(p) == [p EXCEPT !.upper.src_port = p.upper.dst_port,
                      !.upper.dst_port = p.upper.src_port,
                      !.upper.type = IF @ = 128 THEN 129 ELSE IF @ = 129 THEN 128 ELSE @]

-----------------------------------------------------------------------------
\* Bytes read at computed offsets give the five-tuple the sender meant, or none
\* if the packet is cut short of what is needed: the walk lands where the
\* host's own stack does, for headers of every length, first and later
\* fragments, and options that look like transport headers (packet.rs:67-130,
\* 146-150).
ParsesAsBuilt == pc = "done" /\ Understood(packet) => tuple = Meaning(packet)

\* Whatever lengths the packet claims, no byte past its end is indexed; such an
\* index panics and ends the listener (packet.rs:119, 210-211, 232-234).
ReadsInBounds == packet.len > 0 => touched < packet.len

\* The reply to a packet, parsed the other way, gives the same flow, so the
\* connection table finds it; an ICMP identifier is the same on both ways
\* (packet.rs:34-47).
ReplyIsSameFlow ==
    pc = "done" /\ Understood(packet) =>
        \A t \in tuple, r \in Meaning(Reply(packet)) :
            [ToPacket([r EXCEPT !.src = t.dst, !.dst = t.src], ~incoming)
                EXCEPT !.fragment = t.fragment] = ToPacket(t, incoming)

\* packet.rs:249-250: "Each extension header is at least 8 bytes, so `offset`
\* strictly increases and the walk terminates once it runs past the buffer."
WalkTerminates == <>(pc = "done")
=============================================================================
