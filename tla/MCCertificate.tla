--------------------------- MODULE MCCertificate ----------------------------
(* Certificates at the lengths and integers where the encodings change form, *)
(* with 3-byte lengths and integers, 2-byte keys and 3-byte signatures.      *)
EXTENDS Certificate, Functions

Repeat(n) == [i \in 1..n |-> 97]

V4Net(p) == [addr |-> <<10, 0, 0, 1>>, prefix_len |-> p]
V6Net    == [addr |-> [i \in 1..16 |-> i], prefix_len |-> 64]

MCDetails(name, nets, unsafes, groups, ca, nb, na) ==
    [name |-> name, networks |-> nets, unsafe_networks |-> unsafes, groups |-> groups,
     is_ca |-> ca, not_before |-> nb, not_after |-> na, issuer |-> <<>>]

MCCaKey       == <<200, 1>>
MCCaSignature == <<202, 202, 202>>
MCCaDetails   == MCDetails(<<99>>, <<>>, <<>>, <<>>, TRUE, 0, 32768)

Request(by, curve, k, d) == [by |-> by, curve |-> curve, public_key |-> k, details |-> d,
                             signature |-> <<k[1], k[2], k[2]>>]

\* A plain host; one with everything; names that make the details, and the
\* whole, cross 128 and 256 bytes; a window that began before 1970; a CA, a
\* host without networks, a P-256 host, and one signed with another key.
MCRequests ==
    <<Request(MCCaKey, Curve25519, <<1, 1>>,
        MCDetails(<<97>>, <<V4Net(24)>>, <<>>, <<>>, FALSE, 127, 128)),
      Request(MCCaKey, Curve25519, <<1, 2>>,
        MCDetails(<<97, 195, 169>>, <<V6Net, V4Net(24)>>, <<V4Net(200)>>,
                  <<<<103>>, <<>>>>, FALSE, 255, 32767)),
      Request(MCCaKey, Curve25519, <<1, 3>>,
        MCDetails(Repeat(128), <<V4Net(24)>>, <<>>, <<>>, FALSE, 128, 256)),
      Request(MCCaKey, Curve25519, <<1, 4>>,
        MCDetails(Repeat(256), <<V4Net(24)>>, <<>>, <<>>, FALSE, -129, 65536)),
      Request(MCCaKey, Curve25519, <<1, 5>>,
        MCDetails(<<>>, <<V4Net(24)>>, <<>>, <<>>, TRUE, 0, 255)),
      Request(MCCaKey, Curve25519, <<1, 6>>,
        MCDetails(<<97>>, <<>>, <<>>, <<<<103>>>>, FALSE, 0, 255)),
      Request(MCCaKey, P256, <<1, 7>>,
        MCDetails(<<97>>, <<V4Net(24)>>, <<>>, <<>>, FALSE, 0, 255)),
      Request(<<200, 2>>, Curve25519, <<1, 8>>,
        MCDetails(<<97>>, <<V4Net(24)>>, <<>>, <<>>, FALSE, 0, 255))>>

MCForeign == <<9, 9>>

\* UTF-8 with characters of one and two bytes: the lead bytes of longer ones
\* (224 to 244) occur nowhere in this instance.
MCFromUtf8(s) ==
    LET Continues(i) == i \in DOMAIN s /\ s[i] \in 128..191
    IN  \A i \in DOMAIN s : \/ s[i] < 128
                            \/ s[i] \in 194..223 /\ Continues(i + 1)
                            \/ Continues(i) /\ i > 1 /\ s[i - 1] \in 194..223

ASSUME \A c \in Range(Issued) :
          Range(encode(c)) \cup Range(encode_for_handshake(c)) \cup NewBytes
              \subseteq Byte \ (224..244)
=============================================================================
