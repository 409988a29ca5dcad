----------------------------- MODULE Transport ------------------------------
(***************************************************************************)
(* One direction of an established tunnel: the sender's half of a          *)
(* Transport (counter, header as associated data, AEAD) and the receiver's *)
(* half (replay check, then AEAD), with the datagrams in between.  A       *)
(* datagram may be lost, delayed, reordered, duplicated or damaged.        *)
(*                                                                         *)
(* The AEAD is modelled by what it does: a ciphertext opens exactly when   *)
(* it is intact and the header presented with it is the header it was      *)
(* sealed with.  The nonce is the header's counter.                        *)
(***************************************************************************)
EXTENDS ReplayWindow, FiniteSets

CONSTANTS Payloads,     \* what a caller may send
          PacketTypes,  \* header types that use the tunnel: MESSAGE, LIGHTHOUSE
          MaxDamaged    \* bound: damaged datagrams the network may make

\* The two handshake messages have used up the counters 1 and 2.
ASSUME TransportAssumption == MaxCounter >= 2

VARIABLES send_counter,   \* Transport.send_counter of the sender
          sent,           \* history: every ciphertext the sender produced
          wire,           \* every datagram that has ever been on the network
          inbox,          \* ciphertexts the receiver has opened
          copies          \* history: how often each counter was delivered

transportVars == <<send_counter, sent, wire, inbox, copies>>
vars == <<windowVars, transportVars>>

Headers    == [type_ : PacketTypes, counter : Counters]
Sealed     == [aad : Headers, body : Payloads]
Datagrams  == [hdr : Headers, ct : Sealed, intact : BOOLEAN]

Opens(d) == d.intact /\ d.ct.aad = d.hdr

Init == /\ WindowInit
        /\ send_counter = 2
        /\ sent = {}
        /\ wire = {}
        /\ inbox = {}
        /\ copies = [c \in Counters |-> 0]

\* Slips of next_counter: it is too narrow and wraps; it does not move.
CounterWraps == (send_counter + 1) % 4
CounterStuck == send_counter

NextCounter == send_counter + 1

\* next_counter, then encrypt: the header carries the counter that is the
\* nonce.  MaxCounter bounds the counter.
Send(t, p) ==
    /\ send_counter < MaxCounter
    /\ send_counter' = NextCounter
    /\ LET hdr == [type_ |-> t, counter |-> send_counter']
           ct  == [aad |-> hdr, body |-> p]
       IN  /\ sent' = sent \cup {ct}
           /\ wire' = wire \cup {[hdr |-> hdr, ct |-> ct, intact |-> TRUE]}
    /\ UNCHANGED <<windowVars, inbox, copies>>

\* A copy of a datagram is damaged in transit: its header changes to h, or,
\* when h is its own header, its ciphertext does.
Damage(d, h) ==
    /\ Cardinality({x \in wire : ~Opens(x)}) < MaxDamaged
    /\ wire' = wire \cup {IF h = d.hdr THEN [d EXCEPT !.intact = FALSE]
                                       ELSE [d EXCEPT !.hdr = h]}
    /\ UNCHANGED <<windowVars, send_counter, sent, inbox, copies>>

\* Slips of decrypt: the replay verdict is ignored; a late packet is dropped.
DeliversReplayed(d) == Opens(d)
DeliversInOrder(d)  == verdict'.ok /\ Opens(d) /\ current' > current

Delivers(d) == verdict'.ok /\ Opens(d)

\* decrypt: the replay window is consulted, and updated, before the AEAD.
Decrypt(d) ==
    /\ CheckAndUpdate(d.hdr.counter)
    /\ IF Delivers(d)
       THEN /\ inbox' = inbox \cup {d.ct}
            /\ copies' = [copies EXCEPT ![d.hdr.counter] = @ + 1]
       ELSE UNCHANGED <<inbox, copies>>
    /\ UNCHANGED <<send_counter, sent, wire>>

Next == \/ \E t \in PacketTypes, p \in Payloads : Send(t, p)
        \/ \E d \in wire, h \in Headers : Damage(d, h)
        \/ \E d \in wire : Decrypt(d)

Spec == Init /\ [][Next]_vars

-----------------------------------------------------------------------------
\* The two halves of a Transport and the datagrams between them are well formed.
TypeOK ==
    /\ WindowTypeOK
    /\ send_counter \in 2..MaxCounter
    /\ sent \subseteq Sealed
    /\ wire \subseteq Datagrams
    /\ inbox \subseteq Sealed
    /\ copies \in [Counters -> Nat]

\* No two different plaintexts are ever sealed under one nonce: next_counter
\* (transport.rs:195-198) hands each counter out once, for data and lighthouse
\* packets alike (session.rs:510-516).
NoNonceReuse ==
    \A x, y \in sent : x.aad.counter = y.aad.counter => x = y

\* However the network duplicates, reorders or damages datagrams, what the
\* receiver opens was sealed by the sender under the same header, and no
\* counter is delivered twice (transport.rs:217-230).
DeliveredOnceAsSent ==
    /\ inbox \subseteq sent
    /\ \A c \in Counters : copies[c] <= 1

\* The window takes a counter out of use before the AEAD has been asked
\* (transport.rs:224-227): a counter is used up without a delivery only when a
\* datagram carrying it was damaged on the way.
AcceptedMeansDelivered ==
    \A c \in accepted :
        (\A d \in wire : d.hdr.counter = c => Opens(d)) => copies[c] = 1
=============================================================================
