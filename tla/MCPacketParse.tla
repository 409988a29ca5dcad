--------------------------- MODULE MCPacketParse ----------------------------
(* Every header chain of up to two extension headers out of nine, before     *)
(* every transport header, cut at the lengths where something starts or      *)
(* stops being readable.                                                     *)
EXTENDS PacketParse

Upper(nh, src, dst, type, id) ==
    [nh |-> nh, src_port |-> src, dst_port |-> dst, type |-> type, id |-> id]

Ports(nh) == Upper(nh, 443, 53, 0, 0)
Echo(nh, type) == Upper(nh, 0, 0, type, 515)

Header(nh, ext, word) == [nh |-> nh, ext |-> ext, word |-> word]

\* Hop-by-hop and routing headers, short and of the greatest length; a fragment
\* header whose reserved byte is set, whole, first and later; authentication.
HeaderSet == {Header(0, 0, 1542), Header(0, 255, 0), Header(43, 1, 0),
             Header(44, 255, 0), Header(44, 0, 1), Header(44, 0, 8), Header(44, 0, 9),
             Header(51, 0, 0), Header(51, 255, 0)}
Chains  == {<<>>} \cup {<<h>> : h \in HeaderSet} \cup {<<g, h>> : g, h \in HeaderSet}
Uppers6 == {Ports(TCP), Ports(UDP), Echo(ICMPV6, 128), Echo(ICMPV6, 1),
            Ports(ESP), Ports(NO_NEXT), Ports(132)}

Layout(chain) == [j \in 1..(Len(chain) + 1) |->
                    40 + MapThenSumSet(LAMBDA i : SizeOf(chain[i]), 1..(j - 1))]

V6(chain, upper, len) == [version |-> 6, chain |-> chain, at |-> Layout(chain),
                          upper |-> upper, len |-> len]

Lens6(p) == {0, 39, 41} \cup {p.at[j] + k : j \in 1..Len(p.chain), k \in {1, 2, 7, 8}}
               \cup {UpperStart(p) + k : k \in {0, 3, 4, 5, 6}}

MCV6Packets == UNION {{V6(c, u, len) : len \in Lens6(V6(c, u, 0))} :
                         c \in Chains, u \in Uppers6}
                  \cup {[version |-> 5, chain |-> <<>>, at |-> <<40>>, upper |-> Ports(TCP), len |-> 64]}

Uppers4 == {Ports(TCP), Ports(UDP), Ports(47), Ports(50), Ports(0), Echo(ICMP, 8), Echo(ICMP, 3),
            Echo(ICMPV6, 128)}

MCV4Packets ==
    UNION {{[version |-> 4, ihl |-> ihl, mf |-> mf, frag |-> frag, upper |-> u, len |-> len] :
              len \in {0, 19} \cup {4 * ihl + k : k \in {-1, 0, 3, 4, 5, 6}}} :
              ihl \in {4, 5, 15}, mf \in BOOLEAN, frag \in {0, 1, 4096}, u \in Uppers4}
=============================================================================
