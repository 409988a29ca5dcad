----------------------------- MODULE Certificate ----------------------------
(***************************************************************************)
(* Certificates on the wire: the DER codec (cert/der.rs), the PEM banner   *)
(* (cert/pem.rs), and what a peer's certificate must pass (cert/verify.rs).*)
(* One certificate travels, as a file or inside a handshake; its bytes may *)
(* be changed on the way, or it may be presented with another key; then it *)
(* is decoded and verified.                                                *)
(*                                                                         *)
(* Byte strings are sequences of numbers below 256.  A Result or an Option *)
(* is a set of at most one value, so `?` is a bound variable.  Signatures  *)
(* are ideal: those in Signed are the ones that verify; SHA-256 is without *)
(* collisions.                                                             *)
(***************************************************************************)
EXTENDS Integers, Sequences

CONSTANTS LEN_BYTES,   \* bytes of a usize (8)
          INT_BYTES,   \* bytes of an i64 (8)
          KEY_LEN,     \* bytes of a public key (32)
          SIG_LEN,     \* bytes of a signature (64)
          CaDetails,   \* details of the configured CA ...
          CaKey,       \* ... its public key ...
          CaSignature, \* ... and its signature
          Requests,    \* sequence of [by, curve, public_key, details, signature]:
                       \* what was signed
          Foreign,     \* a public key no request is for
          Times,       \* values of the clock
          NewBytes,    \* what a changed byte is replaced with
          from_utf8(_) \* external (String::from_utf8): whether bytes are UTF-8

VARIABLES pc,       \* "issued", "sent", "received", "verified"
          origin,   \* index of the request whose certificate travels
          form,     \* "file" or "handshake"
          banner,   \* PEM banner of a file
          key,      \* handshake: the Noise static key it comes with
          bytes,    \* the encoding
          change,   \* history: "none", "cut", "other"
          cert,     \* the decoded certificate: a Result
          now,      \* the clock when it is verified
          verdict   \* the outcome of verify_host_cert

vars == <<pc, origin, form, banner, key, bytes, change, cert, now, verdict>>

TAG_CERT_DETAILS == 160
TAG_CERT_CURVE == 129
TAG_CERT_PUBLIC_KEY == 130
TAG_CERT_SIGNATURE == 131
TAG_DETAILS_NAME == 128
TAG_DETAILS_NETWORKS == 161
TAG_DETAILS_UNSAFE_NETWORKS == 162
TAG_DETAILS_GROUPS == 163
TAG_DETAILS_IS_CA == 132
TAG_DETAILS_NOT_BEFORE == 133
TAG_DETAILS_NOT_AFTER == 134
TAG_DETAILS_ISSUER == 135
OCTET_STRING == 4
UTF8_STRING == 12
SEQUENCE == 48
CERTIFICATE_V2_BANNER == "NEBULA CERTIFICATE V2"
Curve25519 == 0
P256 == 1

-----------------------------------------------------------------------------
(* Numbers.                                                                *)
Byte  == {x \in Nat : x < 256}
Bytes == Seq(Byte)

\* v >> 8 * k, for a signed v too.
High(v, k) == LET high[i \in Nat] == IF i = 0 THEN v ELSE high[i - 1] \div 256
              IN  high[k]

BigEndian(v, w) == [i \in 1..w |-> High(v, w - i) % 256]

\* b behind bytes that are all 0 (fill = 0) or all 0xff (fill = -1), as a number.
Value(b, fill) ==
    LET value[i \in 0..Len(b)] == IF i = 0 THEN fill ELSE 256 * value[i - 1] + b[i]
    IN  value[Len(b)]

\* b without its first bytes, from the first of `stops` on, or the last byte.
From(b, stops) ==
    SubSeq(b, CHOOSE i \in stops \cup {Len(b)} : \A j \in stops : i <= j, Len(b))

write_length(len) ==
    LET b == BigEndian(len, LEN_BYTES)
        significant == From(b, {i \in DOMAIN b : b[i] # 0})
    IN  IF len < 128 THEN <<len>> ELSE <<128 + Len(significant)>> \o significant

\* A slip: every leading zero is left out, also the one before a set top bit.
encode_der_int_unsigned(v) ==
    LET b == BigEndian(v, INT_BYTES) IN From(b, {i \in DOMAIN b : b[i] # 0})

encode_der_int(v) ==
    LET b == BigEndian(v, INT_BYTES)
    IN  From(b, {i \in 1..(INT_BYTES - 1) : b[i] # 0 \/ b[i + 1] >= 128})

decode_der_int(b) ==
    IF Len(b) = 0 \/ Len(b) > INT_BYTES THEN {}
    ELSE {Value(b, IF b[1] >= 128 THEN -1 ELSE 0)}

-----------------------------------------------------------------------------
(* Reader: a result holds the content, the whole TLV and the new position. *)

write_tlv(tag, content) == <<tag>> \o write_length(Len(content)) \o content

\* The length at pos, and where the content starts.
read_length(data, pos) ==
    LET n == data[pos] - 128 IN
    IF pos > Len(data) THEN {}
    ELSE IF data[pos] < 128 THEN {<<data[pos], pos + 1>>}
    ELSE IF n = 0 \/ n > LEN_BYTES \/ pos + n > Len(data) THEN {}
    ELSE {<<Value(SubSeq(data, pos + 1, pos + n), 0), pos + n + 1>>}

\* A slip: content that is cut short is taken as it is.
read_tlv_cut(data, pos, tag) ==
    LET End(l) == IF l[2] + l[1] - 1 > Len(data) THEN Len(data) ELSE l[2] + l[1] - 1 IN
    IF pos > Len(data) \/ data[pos] # tag THEN {}
    ELSE {[content |-> SubSeq(data, l[2], End(l)), raw |-> SubSeq(data, pos, End(l)),
           pos |-> End(l) + 1] : l \in read_length(data, pos + 1)}

read_tlv(data, pos, tag) ==
    IF pos > Len(data) \/ data[pos] # tag THEN {}
    ELSE {[content |-> SubSeq(data, l[2], l[2] + l[1] - 1),
           raw |-> SubSeq(data, pos, l[2] + l[1] - 1),
           pos |-> l[2] + l[1]] :
             l \in {l \in read_length(data, pos + 1) : l[2] + l[1] - 1 <= Len(data)}}

read_tlv_opt(data, pos, tag) ==
    IF pos <= Len(data) /\ data[pos] = tag THEN read_tlv(data, pos, tag)
    ELSE {[content |-> <<>>, raw |-> <<>>, pos |-> pos]}

\* Fields in the order the code asks for them: <<tag, optional>> each.  What
\* follows the last one is not looked at.
read_fields(data, fields) ==
    LET Pos(r) == IF r = <<>> THEN 1 ELSE r[Len(r)].pos
        Read(pos, field) == IF field[2] THEN read_tlv_opt(data, pos, field[1])
                            ELSE read_tlv(data, pos, field[1])
        read[i \in 0..Len(fields)] ==
            IF i = 0 THEN {<<>>}
            ELSE UNION {{Append(r, f) : f \in Read(Pos(r), fields[i])} : r \in read[i - 1]}
    IN  read[Len(fields)]

\* while !nr.is_empty() { .. nr.read_tlv(tag)? .. }: every turn takes a byte or more.
read_all(data, tag) ==
    LET Turn(r) == IF r.pos > Len(data) THEN {r}
                   ELSE {[list |-> Append(r.list, f.content), pos |-> f.pos] :
                            f \in read_tlv(data, r.pos, tag)}
        read[i \in 0..Len(data)] == IF i = 0 THEN {[list |-> <<>>, pos |-> 1]}
                                    ELSE UNION {Turn(r) : r \in read[i - 1]}
    IN  {r.list : r \in read[Len(data)]}

-----------------------------------------------------------------------------
(* Details.                                                                *)

\* 4 or 16 address bytes and the prefix length, which is not looked at.
NetworkDecode(b) ==
    IF Len(b) \in {5, 17}
    THEN {[addr |-> SubSeq(b, 1, Len(b) - 1), prefix_len |-> b[Len(b)]]} ELSE {}

NetworkEncode(n) == Append(n.addr, n.prefix_len)

\* One element that does not decode is an error of the whole list.
Networks(content) ==
    UNION {IF \E i \in DOMAIN list : NetworkDecode(list[i]) = {} THEN {}
           ELSE {[i \in DOMAIN list |-> CHOOSE n \in NetworkDecode(list[i]) : TRUE]} :
              list \in read_all(content, OCTET_STRING)}

Groups(content) ==
    {list \in read_all(content, UTF8_STRING) : \A i \in DOMAIN list : from_utf8(list[i])}

DetailsFields ==
    <<<<TAG_DETAILS_NAME, FALSE>>, <<TAG_DETAILS_NETWORKS, TRUE>>,
      <<TAG_DETAILS_UNSAFE_NETWORKS, TRUE>>, <<TAG_DETAILS_GROUPS, TRUE>>,
      <<TAG_DETAILS_IS_CA, TRUE>>, <<TAG_DETAILS_NOT_BEFORE, FALSE>>,
      <<TAG_DETAILS_NOT_AFTER, FALSE>>, <<TAG_DETAILS_ISSUER, TRUE>>>>

decode_details(raw_tlv) ==
    LET Decode(f) ==
            {[name |-> f[1].content, networks |-> nets, unsafe_networks |-> unsafes,
              groups |-> groups, is_ca |-> f[5].raw # <<>>, not_before |-> nb,
              not_after |-> na, issuer |-> f[8].content] :
                nets \in Networks(f[2].content), unsafes \in Networks(f[3].content),
                groups \in Groups(f[4].content), nb \in decode_der_int(f[6].content),
                na \in decode_der_int(f[7].content)}
    IN  UNION {UNION {Decode(f) : f \in {f \in read_fields(outer.content, DetailsFields) :
                                            from_utf8(f[1].content)}} :
                  outer \in read_tlv(raw_tlv, 1, TAG_CERT_DETAILS)}

Concat(parts) ==
    LET out[i \in 0..Len(parts)] == IF i = 0 THEN <<>> ELSE out[i - 1] \o parts[i]
    IN  out[Len(parts)]

\* A field that is left out when it is empty.
Unless(empty, field) == IF empty THEN <<>> ELSE field

NetworkTlvs(list) ==
    Concat([i \in DOMAIN list |-> write_tlv(OCTET_STRING, NetworkEncode(list[i]))])

encode_details(d) ==
    write_tlv(TAG_CERT_DETAILS, Concat(<<
        write_tlv(TAG_DETAILS_NAME, d.name),
        Unless(d.networks = <<>>,
            write_tlv(TAG_DETAILS_NETWORKS, NetworkTlvs(d.networks))),
        Unless(d.unsafe_networks = <<>>,
            write_tlv(TAG_DETAILS_UNSAFE_NETWORKS, NetworkTlvs(d.unsafe_networks))),
        Unless(d.groups = <<>>, write_tlv(TAG_DETAILS_GROUPS,
            Concat([i \in DOMAIN d.groups |-> write_tlv(UTF8_STRING, d.groups[i])]))),
        Unless(~d.is_ca, write_tlv(TAG_DETAILS_IS_CA, <<255>>)),
        write_tlv(TAG_DETAILS_NOT_BEFORE, encode_der_int(d.not_before)),
        write_tlv(TAG_DETAILS_NOT_AFTER, encode_der_int(d.not_after)),
        Unless(d.issuer = <<>>, write_tlv(TAG_DETAILS_ISSUER, d.issuer))>>))

-----------------------------------------------------------------------------
(* Certificates.                                                           *)
Cert(details, raw_details, curve, public_key, signature) ==
    [details |-> details, raw_details |-> raw_details, curve |-> curve,
     public_key |-> public_key, signature |-> signature]

CurveDecode(f) == IF f.raw = <<>> THEN {Curve25519}
                  ELSE IF Len(f.content) = 1 THEN {f.content[1]} \cap {Curve25519, P256}
                  ELSE {}

decode(der) ==
    LET Fields == <<<<TAG_CERT_DETAILS, FALSE>>, <<TAG_CERT_CURVE, TRUE>>,
                    <<TAG_CERT_PUBLIC_KEY, FALSE>>, <<TAG_CERT_SIGNATURE, FALSE>>>>
    IN  UNION {UNION {{Cert(d, f[1].raw, c, f[3].content, f[4].content) :
                          d \in decode_details(f[1].raw), c \in CurveDecode(f[2])} :
                         f \in read_fields(envelope.content, Fields)} :
                  envelope \in read_tlv(der, 1, SEQUENCE)}

encode(c) ==
    write_tlv(SEQUENCE, Concat(<<
        c.raw_details,
        Unless(c.curve = Curve25519, write_tlv(TAG_CERT_CURVE, <<c.curve>>)),
        write_tlv(TAG_CERT_PUBLIC_KEY, c.public_key),
        write_tlv(TAG_CERT_SIGNATURE, c.signature)>>))

\* A slip: the public key is not covered.
signing_bytes_keyless(c) == Append(c.raw_details, c.curve)

signing_bytes(c) == Append(c.raw_details, c.curve) \o c.public_key

encode_for_handshake(c) ==
    write_tlv(SEQUENCE, Concat(<<c.raw_details, write_tlv(TAG_CERT_SIGNATURE, c.signature)>>))

recombine(handshake_bytes, peer_public_key, curve) ==
    LET Fields == <<<<TAG_CERT_DETAILS, FALSE>>, <<TAG_CERT_SIGNATURE, FALSE>>>>
    IN  UNION {UNION {{Cert(d, f[1].raw, curve, peer_public_key, f[2].content) :
                          d \in decode_details(f[1].raw)} :
                         f \in read_fields(envelope.content, Fields)} :
                  envelope \in read_tlv(handshake_bytes, 1, SEQUENCE)}

fingerprint(c) == signing_bytes(c) \o c.signature

is_expired(c, t) == t < c.details.not_before \/ t > c.details.not_after

-----------------------------------------------------------------------------
(* What was signed (external): the CA, with its fingerprint as the issuer of *)
(* each certificate, and requests signed with another key in its name.       *)
Built(d, curve, public_key, signature) ==
    Cert(d, encode_details(d), curve, public_key, signature)

ca_cert == Built(CaDetails, Curve25519, CaKey, CaSignature)

Issued == [i \in DOMAIN Requests |->
              Built([Requests[i].details EXCEPT !.issuer = fingerprint(ca_cert)],
                    Requests[i].curve, Requests[i].public_key, Requests[i].signature)]

Signed == {<<Requests[i].by, signing_bytes(Issued[i]), Issued[i].signature>> :
              i \in DOMAIN Requests}

\* A number of seconds is an i64, the length of a buffer a usize.
I64          == {v \in Int : /\ -128 <= High(v, INT_BYTES - 1)
                             /\ High(v, INT_BYTES - 1) <= 127}
IsUsize(len) == High(len, LEN_BYTES) = 0

Strings == {s \in Bytes : from_utf8(s)}
Network == [addr : {a \in Bytes : Len(a) \in {4, 16}}, prefix_len : Byte]
Details == [name : Strings, networks : Seq(Network), unsafe_networks : Seq(Network),
            groups : Seq(Strings), is_ca : BOOLEAN, not_before : I64, not_after : I64,
            issuer : Bytes]

ASSUME CertificateAssumption ==
    /\ LEN_BYTES \in Nat \ {0} /\ LEN_BYTES < 128
    /\ INT_BYTES \in Nat \ {0}
    /\ CaDetails \in Details /\ CaDetails.is_ca
    /\ CaKey \in Bytes /\ Len(CaKey) = KEY_LEN /\ CaSignature \in Bytes
    /\ \A i \in DOMAIN Requests :
          /\ Requests[i].details \in Details
          /\ Requests[i].curve \in {Curve25519, P256}
          /\ Requests[i].public_key \in Bytes
          /\ Requests[i].signature \in Bytes /\ Len(Requests[i].signature) = SIG_LEN
          /\ \A j \in DOMAIN Requests : Requests[i].signature = Requests[j].signature => i = j
          /\ IsUsize(Len(encode(Issued[i])))
    /\ Foreign \in Bytes
    /\ Times \subseteq Int
    /\ NewBytes \subseteq Byte

check_signature(c, signer) ==
    IF c.curve # Curve25519 THEN "CertUnsupportedCurve"
    ELSE IF /\ Len(signer) = KEY_LEN
            /\ Len(c.signature) = SIG_LEN
            /\ <<signer, signing_bytes(c), c.signature>> \in Signed
         THEN "Ok" ELSE "CertSignatureInvalid"

verify_host_cert(c, ca, t) ==
    IF c.details.is_ca \/ ~ca.details.is_ca THEN "CertSignatureInvalid"
    ELSE IF is_expired(ca, t) \/ is_expired(c, t) THEN "CertExpired"
    ELSE IF c.details.issuer # fingerprint(ca) THEN "CertUntrusted"
    ELSE IF check_signature(c, ca.public_key) # "Ok" THEN check_signature(c, ca.public_key)
    ELSE IF c.details.networks = <<>> THEN "CertNoNetworks"
    ELSE "Ok"

-----------------------------------------------------------------------------
Init == /\ pc = "issued"
        /\ origin \in DOMAIN Requests
        /\ form = "file"
        /\ banner = CERTIFICATE_V2_BANNER
        /\ key = <<>>
        /\ bytes = <<>>
        /\ change = "none"
        /\ cert = {}
        /\ now = 0
        /\ verdict = "none"

\* The certificate as a file, under its own banner or that of a key file.
Store(b) == /\ pc = "issued"
            /\ pc' = "sent"
            /\ banner' = b
            /\ bytes' = encode(Issued[origin])
            /\ UNCHANGED <<origin, form, key, change, cert, now, verdict>>

\* The certificate in a handshake message, of its owner or of somebody else.
Present(k) == /\ pc = "issued"
              /\ pc' = "sent"
              /\ form' = "handshake"
              /\ key' = k
              /\ bytes' = encode_for_handshake(Issued[origin])
              /\ UNCHANGED <<origin, banner, change, cert, now, verdict>>

\* External: the bytes are cut short, one of them is changed, something is
\* appended, or the envelope's length is written in its long form.
Change(new, what) == /\ pc = "sent"
                     /\ change = "none"
                     /\ new # bytes
                     /\ bytes' = new
                     /\ change' = what
                     /\ UNCHANGED <<pc, origin, form, banner, key, cert, now, verdict>>
Cut(n)       == n \in 0..(Len(bytes) - 1) /\ Change(SubSeq(bytes, 1, n), "cut")
Replace(i, b) == i \in DOMAIN bytes /\ Change([bytes EXCEPT ![i] = b], "other")
Extend(b)    == Change(Append(bytes, b), "other")
Reframe      == /\ Len(bytes) >= 2 /\ bytes[2] < 128
                /\ Change(<<bytes[1], 129>> \o SubSeq(bytes, 2, Len(bytes)), "other")

\* pem::decode: the content of a block, if it has the banner asked for.
pem_decode(expected_tag) == IF banner = expected_tag THEN {bytes} ELSE {}

\* pem::decode and Certificate::decode (build), or recombine (handle_handshake).
Receive == /\ pc = "sent"
           /\ pc' = "received"
           /\ cert' = IF form = "handshake" THEN recombine(bytes, key, Curve25519)
                      ELSE UNION {decode(der) : der \in pem_decode(CERTIFICATE_V2_BANNER)}
           /\ UNCHANGED <<origin, form, banner, key, bytes, change, now, verdict>>

Verify(t) == /\ pc = "received"
             /\ pc' = "verified"
             /\ now' = t
             /\ \E c \in cert : verdict' = verify_host_cert(c, ca_cert, t)
             /\ UNCHANGED <<origin, form, banner, key, bytes, change, cert>>

Keys == {Requests[i].public_key : i \in DOMAIN Requests} \cup {Foreign}

Next == \/ \E b \in {CERTIFICATE_V2_BANNER, "NEBULA X25519 PUBLIC KEY"} : Store(b)
        \/ \E k \in Keys : Present(k)
        \/ \E n \in 0..Len(bytes) : Cut(n)
        \/ \E i \in 1..Len(bytes), b \in NewBytes : Replace(i, b)
        \/ \E b \in NewBytes : Extend(b)
        \/ Reframe
        \/ Receive
        \/ \E t \in Times : Verify(t)

Spec == Init /\ [][Next]_vars

-----------------------------------------------------------------------------
\* Whether request i stands for a host of this mesh at time t.
Valid(i, t) ==
    LET d == Requests[i].details IN
    /\ Requests[i].by = CaKey
    /\ Requests[i].curve = Curve25519
    /\ ~d.is_ca
    /\ d.networks # <<>>
    /\ t \in d.not_before..d.not_after
    /\ t \in CaDetails.not_before..CaDetails.not_after

\* Whatever was done to its bytes and with whichever key it was presented, a
\* certificate that is accepted says, field by field, what the CA signed for
\* that key, and the CA's and its own window are open: the signature is over
\* bytes, the decisions are on fields decoded from them, and three variable
\* parts are concatenated without lengths (der.rs:404-410, verify.rs:60-75).
AcceptedAsIssued ==
    verdict = "Ok" =>
        \E c \in cert, i \in DOMAIN Requests :
            /\ Valid(i, now)
            /\ c.public_key = Requests[i].public_key
            /\ c.curve = Requests[i].curve
            /\ c.details = Issued[i].details
            /\ form = "handshake" => key = Requests[i].public_key

\* A certificate whose bytes were not changed decodes to what was issued, as a
\* file always, and from a handshake with its own key for Curve25519, over the
\* lengths and integers at which the encodings change form; it is accepted
\* exactly within its window, both ends included (der.rs:41-54, 146-170,
\* verify.rs:51-53).
UnchangedIsExact ==
    LET mine == \/ form = "file" /\ banner = CERTIFICATE_V2_BANNER
                \/ /\ form = "handshake"
                   /\ key = Requests[origin].public_key
                   /\ Requests[origin].curve = Curve25519
    IN  pc \in {"received", "verified"} /\ change = "none" /\ mine =>
            /\ cert = {Issued[origin]}
            /\ pc = "verified" => (verdict = "Ok" <=> Valid(origin, now))

\* A certificate of which anything is missing at the end does not decode, in
\* either form: no length can claim more than there is (der.rs:91-94,
\* 118-121).
CutIsRejected == pc = "received" /\ change = "cut" => cert = {}
=============================================================================
