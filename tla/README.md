# nebula-rs in TLA+

A verification project for nebula-rs, a Rust implementation of the Nebula overlay
network: three crates, `nebula-protocol` (tunnels), `nebula-firewall` (packet
filter) and `nebula-listener` (the node that joins them to a TUN device). The
modules here model the tunnels with their replay protection, how peers find each
other, certificates, the firewall and its rules, the packet parser and the
forwarding loops; TLC checks them on small instances and TLAPS proves the main
invariants for every value of the constants.

## The system

| component | state it keeps | operations | who calls it |
|---|---|---|---|
| Replay window (`transport.rs`) | high-water mark `current`, 1024 bits `seen` | `check_and_update` | Transport |
| Transport (`transport.rs`) | two cipher keys, `send_counter`, a replay window | `next_counter`, `encrypt`, `decrypt` | Session |
| Handshake (`handshake.rs`) | a Noise IX state | `stage0`, `respond`, `finish_initiator`, `split_keys` | Session |
| Packet header (`header.rs`) | none | `encode`, `decode` | Session |
| Session (`session.rs`) | one mutex over `peers_by_index`, `index_by_vpn_addr`, `connected`, `known_addrs`, `lighthouse_waiters`; an inbox channel | `connect`, `send`, `recv`, `peer_info`; the receive loop with `handle_handshake`, `handle_message`, `handle_lighthouse_packet` | Listener, the network |
| Lighthouse (`lighthouse.rs`, `session.rs`) | `known_addrs`, `lighthouse_waiters` | `resolve`, `register_with_lighthouses`, `handle_lighthouse` | Session |
| Certificates (`cert/`) | none | decode, encode, `recombine`, `verify_host_cert` | Session |
| Connection table (`conntrack.rs`) | `conns`, `expiry_heap` | `purge_expired`, `get`, `record`, `remove` | Firewall |
| Rule set (`rule/`) | a tree of tables by protocol, port, CA, group, host | `RuleSetBuilder::add_rule`, `RuleSet::matches` | Firewall |
| Firewall (`firewall.rs`) | versioned rules behind a `RwLock`, the table behind a `Mutex` | `evaluate`, `reload` | Listener |
| IP packet parser (`packet.rs`) | none | `parse` | Listener |
| Listener (`listener.rs`, `identity.rs`) | two tasks sharing a Session and a Firewall | `run`, `tun_to_mesh`, `mesh_to_tun` | the TUN device, Session |
| TUN device (`tun.rs`) | a file descriptor | `create` | Listener |

A node's listener runs two tasks. `tun_to_mesh` reads an IP packet, connects if
there is no tunnel yet, asks the firewall and sends; `mesh_to_tun` receives from
the session, looks the sender's certificate up, asks the firewall and writes. Both
share one firewall, so two calls of `evaluate` run at once, for the same flow in
both directions. Sessions talk over UDP: datagrams are lost, repeated, reordered
and delayed, and nothing is retransmitted.

What is hard, and what makes each part correct:

* **Replay window.** Arithmetic at the window's edge after any sequence of jumps; a
  shift across 16 words. Correct: a counter is accepted once, and is refused only
  if it was accepted before or is a whole window behind.
* **Transport.** Order of the replay check and the AEAD; counters shared by packet
  types. Correct: one nonce, one plaintext; at most one delivery; as sealed.
* **Connection table and firewall.** Three reads (clock, rules, table) at different
  times, two locked sections per call, reloads in between; a heap that is only
  loosely tied to the table. Correct: a version stamp means the rules were asked;
  flows expire; the heap stays small.
* **Session.** Two handshake roles keyed by local index, concurrent connects in both
  directions, late and repeated handshake messages, timeouts that leave state
  behind, a different host answering. Correct: both ends agree on keys and
  indexes; a call that returns Ok has its tunnel; packets are attributed to their
  sender and handed out once.
* **Lighthouse.** Two locks in `resolve` with a reply possible in between, one
  waiter per address for any number of calls, two wire forms of an address.
  Correct: an answer wakes the call that waits for it; a host is found where it
  published itself; every wait ends.
* **Certificates.** The signature covers bytes, the decisions are on fields decoded
  from them. Correct: what is accepted is what the CA signed for that key, and what
  the CA signed is accepted, within its window.
* **Parser.** Ports at offsets computed from lengths in the packet. Correct: the
  five-tuple the sender meant, never a byte past the end, and a reply keyed as its
  request.
* **Listener.** Two tasks over one session and one connection table, certificates
  replaced under way, errors and panics of either. Correct: forwarded packets
  belong to the peer and were asked for; nothing holds a loop for ever; the tasks
  end together.
* **Rule set.** Sequential, but entries are shared by rules, port 0 is the wildcard,
  and ICMP packets carry their identifier in the place of a port. Correct: the tree
  answers as the rules do one by one, and what it ignores is reported.

## Modules

```
ReplayFilter                what the replay window promises
  ^ implemented by
ReplayWindow                the sliding window, marks as a set of offsets
  ^ implemented by            ^ extended by
ReplayBits  (u64 words)     Transport   one direction of a tunnel and the network
                            (ReplayCounters: the constants they share)

Conntrack                   the table's methods as operators, and the purge loop
  ^ extended by
Firewall                    threads in evaluate, reload, the clock

Session                     several nodes: connect, handshake, tunnels, data
Lighthouse                  one session: registration, resolve, its waiters
Listener                    the two forwarding tasks over a session and a firewall

RuleSet                     the rule builder and its tree, against the list of rules
PacketParse                 packet::parse on bytes, against what the sender built
Certificate                 the DER codec and verify_host_cert, against what was signed
```

The parts meet through what they promise, not by sharing variables. `Listener` has
`peer_info`, `connect` and `evaluate` as `Session` and `Firewall` show them to be: a
connect that succeeds leaves a tunnel (`ConnectedMeansTunnel`), tunnels stay
(`TunnelsStay` in `SessionProofs`), a known flow passes whoever sent it.
`Lighthouse` has the handshake as one step for the same reason, and `Session`
starts a `connect` at any of the addresses `resolve` may return.

`MC*` modules give the constants; `TransportProofs` (with the replay window's),
`FirewallProofs`, `SessionProofs`, `LighthouseProofs`, `RuleSetProofs`,
`ListenerProofs`, `PacketParseProofs` and `CertificateProofs` hold the theorems. Definitions named in a
comment as a slip are variants of the definition below them with a plausible
mistake; each property is checked to fail under one of them.

### ReplayFilter, ReplayCounters, ReplayWindow, ReplayBits

`ReplayFilter` knows only the set of accepted counters. `ReplayWindow` is
`check_and_update` with its three outcomes as actions (`Advance`, `AcceptLate`,
`Refuse`); `seen` is the set of marked offsets, `accepted` and `verdict` are history.
`ReplayBits` keeps the marks in words of `WORD_BITS` bits, in variables of its own:
`word_bit`, `mark`, `is_marked` and the bit-by-bit `shift_left` with its carry; a
word is the set of its bits that are 1. `ReplayCounters` has the constants of both.
In the run they stand side by side: `MCTransport` passes the counter of every datagram
that is decrypted through both.

### Transport

One direction of a tunnel. `Send` is `next_counter` and `encrypt` as `send_typed`
calls them under the lock; `Decrypt` is `decrypt`: window first, AEAD second. The
AEAD opens a ciphertext exactly when it is intact and presented with the header it
was sealed with. `wire` keeps every datagram, so delivering again is a duplicate
and never delivering a loss; `Damage` adds a copy with another header or a broken
body.

### Conntrack

The table's methods as operators on `conns` (a function from tracked flows to
entries) and the heap (a set of slots with ids, because a heap may hold equal
elements). `purge_expired` is given in closed form, which `Firewall` uses, and as
the loop of pops (`PurgePass`, `PurgeLoop`); `PurgeIsClosedForm`, checked and
proved, says that the two agree on every table the firewall makes.

### Firewall

A thread's call goes `Call` (reads the clock), `ReadRules` (version and rules under
the read lock), `LookupHit` or `LookupMiss` (the first section under the mutex,
purge included), then `Drop` or `Admit` (the checks with no lock and the second
section under the mutex). The checks read only the thread's own values, so joining
them with the section that follows loses no interleaving. A rule set is the set of
triples packet, direction, peer that it matches; `Owns` and `Routable` stand for
`PeerIdentity::owns` and `routable_networks`. `generation` and `installed` record
what reload has installed. A hit is decided by the flow alone: the peer that sent
the packet is not compared with the peer for which the flow was recorded, so the
properties speak of some peer.

### RuleSet

`AddRule` and `Refuse` are `add_rule`: bounds of the port, the refusals, ICMP ports
coerced to `PORT_ANY`, `check_sanity`, and the filing through `add_to_ca_rule`,
`add_to_peer_rule` and `merge_local_cidr`. `Matches` is `RuleSet::matches` with the
five levels below it. A network is the set of its addresses, an `Option` a set of
at most one element, a map a function on its keys. A rule's groups are a sequence,
because `check_sanity` counts them; the tree only searches its vectors, so there they
are sets.

`Covers` reads one rule by itself and is the reference. A CA hash and a CA name in one
rule are alternatives. Port 0, alone or at the start of a range, is every port, as the
tables have it (see the observations). An ICMP packet has no port, and its identifier
is not looked at, as `packet.rs:41-43` of the listener says. Whether a rule for any
protocol that names ports admits ICMP at all no document says (`Unsettled`):
`TreeAgreesWithRules` lets the tree admit such a packet or not, and
`IdentifierIsNotFiltered` says that the identifier does not decide it, which does not
hold of the code.

### Session

Every action is one section under the session's mutex or one wake-up of a connect
call. A node's name stands for its VPN address, certificate and UDP address;
`KnownAddrs[n][v]` is the set of addresses `resolve` may return on `n` for `v`, as
answers and updates come in: the right one, another node's, or one at which nobody
answers. A Noise state is a fresh ephemeral; split keys are the pair of ephemerals
and a role. `Connect` is the part of `connect` from the second lock on (`resolve`, before
it, is in `Lighthouse`); `ConnectFails` is its return when `stage0` fails, with the
waiter already in `connected`, where it stays until the next call for the address
replaces it or a tunnel to the address takes it out. `HandleStage0` and `HandleStage2` are the two branches of
`handle_handshake`; `FailStage2` is every path on which the reply does not
complete the handshake, which has already been taken out of the table, including
a damaged copy of a reply. `Returns` is the end of `connect`: the sender fired, it
was dropped by a later call, or five seconds passed with neither (tokio's `timeout`
polls the channel before the timer). The replay window is the set of counters
accepted, as `ReplayFilter` has it while fewer than a window of packets are sent.

### Lighthouse

One session, from `Session::new` on. `known_addrs` and `lighthouse_waiters` are the
tables of the same name, `tunnels` the keys of `index_by_vpn_addr`. A call of
`connect` goes `Lookup` (the first section of `resolve`), `RegisterWaiter` (the
second, which drops the sender of an earlier call for the same address),
`AskLighthouse` once per lighthouse, `Resolved` (answer, dropped sender or five
seconds), `Handshake`. `register_with_lighthouses` is such a call per lighthouse
(`RegisterConnect`, `RegisterSend`) before `Ready` hands the session out.
`handle_lighthouse_packet` takes any message a peer with a tunnel may send.
`OfFamily` is the loop by which `host_update_notification` sorts addresses into two
lists. Addresses are numbers with a family; the wire's form is the IPv6 number, with IPv4
mapped at `MapBase`, and ports are cut to 16 bits, as the code does. `handled` and
a call's `gap` are history.

### PacketParse

A packet is what its sender put in (IPv4 length, fragment offset and MF bit; or the
chain of IPv6 extension headers; and the transport header) and how many bytes of
it there are; an IPv6 packet also says where each of its headers starts (`at`, which
`LaidOut` ties to their lengths). `RawByte` lays it out, and the parser reads bytes only. `Begin` is
`parse` up to the loop, with all of `parse_ipv4`; `Walk` is one turn of the loop of
`parse_ipv6`. `touched` records the highest byte indexed without a check of its
own, an index that would panic. `Meaning` says from the sender's side what the
tuple should be.

### Certificate

One certificate at a time: it is signed, encoded as a file (`Store`) or for a
handshake (`Present`, with the Noise key it comes with), perhaps changed on the way
(cut, one byte replaced, extended, the envelope reframed with a long-form length),
decoded (`Receive`: `pem::decode` and `decode`, or `recombine`) and verified at some
time (`Verify`). The codec is on bytes, `Result` and `Option` are sets of at most
one element, so `?` is a bound variable. `String::from_utf8` is a constant operator, of
which only its values on the strings of the instance matter. The loops over bytes, fields and list
elements are recursive functions. Ed25519 is the set of signatures that were
made (a request says which bytes its signature is), SHA-256 is the identity.

### Listener

`up` and `down` are the two tasks of `run`, each action being what a task does
between two points at which another thread may come in: `UpRead`, `UpLookup`,
`UpConnect`, `UpPeer`, `UpEvaluate`, `UpSend`; `DownRecv`, `DownPeer`,
`DownEvaluate`, `DownWrite`. `Return` is the `select!`, `Drop` a caller that drops
the future, `AbortUp` and `AbortDown` what `AbortOnDrop` does then; a task is not
stopped between its peer's lookup and the end of `evaluate`, where it does not
await. `evaluate` is one step here; its two sections, and what comes between them, are
`Firewall`'s subject. `recv` has no error branch: the receive loop never ends, so
`recv` never fails. `Panics` is the `expect` of `to_ipnet`. Handshakes, also of a host with a
new certificate, packets of peers and expiring flows are the environment. Writing
the packet (`write_fd`) and sending it may fail, and the result is ignored.

## Runs

| run | instance | shows |
|---|---|---|
| `transport` | window 4 in 2 words of 2 bits, counters to 7, two packet types, one damaged datagram | marks are exact, the filter is implemented, and the words implement the window: no mark is lost at a word boundary; nonces once, delivery once and as sealed, only damage wastes a counter |
| `firewall_threads` | 2 threads, 1 flow, 3 rule sets, 2 reloads, clock to 2 | slots, honest stamps, packets pass under rules that were read |
| `firewall_one_thread` | 1 thread, 3 packets with timeouts 1 and 2, 2 peers, 3 rule sets, 2 reloads, clock to 2 | purges are complete, the loop ends with the closed form's table, refreshes extend |
| `firewall_stale_clock` | as `firewall_threads` | violation: an expired entry outlives a purge |
| `session_pair` | 3 nodes, 3 connect calls, 4 handshake states, 2 packets, addresses right, wrong or dead | tables, waiters, agreement, delivery, nonces |
| `session_duplicate_stage0` | 2 nodes, 1 connect, 3 handshake states | violation: the responder sends with keys the initiator lacks |
| `lighthouse` | 2 lighthouses (one to be found through the other), 2 calls, 2 peers, 7 kinds of message, 3 of them handled | waiters, addresses, tunnels to lighthouses, every call returns |
| `rule_tree` | pairs of 288 rules over direction, protocol, port, groups, host, network, local network, CA | the tree answers as the rules do one by one, ignored criteria are reported |
| `rule_identifier` | as `rule_tree` | violation: an echo request is judged by its identifier |
| `packet_parse` | chains of up to 2 out of 9 extension headers, 7 transport headers, IPv4 with options and fragments, cut at every length that matters | the tuple is the sender's, no byte past the end, replies are the same flow, the walk ends |
| `certificate` | 8 certificates with names of 0 to 256 bytes, integers at the edges of 1 to 3 bytes, 6 times | accepted is as signed, unchanged is exact, cut is rejected |
| `listener` | 2 peers (one renewed with an invalid prefix), 6 packets, 2 reads, 1 queued packet, 2 handshakes | forwarded is owned and asked for, packets are settled, the tasks end together |

Bounds. Counters run to nearly twice the window of two words, so jumps below, at and
beyond it happen, and marks move within a word, over its end and out of the window. One flow is enough for two
threads because flows interact only through the purge, which `firewall_one_thread`
covers with more; a timeout of one tick makes a flow expire between two
ticks and one of two lets it be refreshed past its slot, and two
reloads make a stale snapshot stale twice. Five or six slot ids are more than any
reachable heap needs, so `Admit` is never held back. Four handshake states allow two
complete handshakes, one with a repeated stage 0 on each side, or three repeats of
one. Two calls for one address are enough for one to replace the other's waiter, and
three messages for an address to come in the gap of each and a later one to wake
it. Two rules are enough for a shared entry, and a third would share it in the same
way. Two extension headers make every length of one decide where the next is read.
Keys, signatures and integers are shorter than in the code (2, 3 and 3 bytes): the
codec treats bytes alike, and 3-byte lengths still have a short form, one and two
significant bytes. A second packet on the TUN and one from a peer meet in one flow,
and a second handshake replaces the certificate between any two steps.

Deadlock is checked except where the system has nothing left to do: sessions are
idle when all calls have returned, a packet is parsed and a certificate judged
once, a listener ends.

Fairness. `Lighthouse`: weak fairness of each call's steps and of `Session::new`,
because every wait in them has a timeout and no lock is held across a wait; nothing
is assumed of users, peers and lighthouses. `PacketParse`: weak fairness of
straight-line code. `Listener`: weak fairness of each task's steps and of `run`'s
return (tokio polls a task that was woken; `connect` has timeouts; the TUN becomes
writable again), strong fairness of the aborts, because tokio's budget makes a task
that always finds something to do yield now and then; nothing is assumed of the
kernel, the peers and the caller.

### What the violations say

* `firewall_stale_clock`: `evaluate` takes `now` before it waits for the mutex.
  Thread 1 reads 0, thread 2 reads 1 and records the flow until 2 with a slot at 2;
  thread 1 then refreshes it until 1. At time 1 the entry has expired, its slot is
  not due, and `get` still answers with it. The comments on `purge_expired` and
  `record` hold for one caller (`firewall_one_thread`), not for two.
* `session_duplicate_stage0`: the network repeats a stage 0; the responder makes a
  second tunnel and sends on it from then on, while the initiator finished with the
  first reply. Initiator to responder still works (`InitiatorHasPeer`), the other
  direction does not until somebody connects again.
* `rule_identifier`: an outgoing rule for any protocol and port 1 is filed under 1 in
  the table for any protocol, where `port_table_matches` looks with the packet's
  `remote_port`, which for ICMP is the echo identifier. Echo requests with identifier 1
  pass, all others do not. `packet.rs:41-43` says that rules never filter on it, and
  explains that ICMP rules are coerced to any port; rules for any protocol are not
  (`builder.rs:147`).

The version counter wraps at 2^16; `PassesAreAllowed` is checked and proved for
fewer reloads than versions and does not hold beyond.

## Theorems

For every value of the constants, under the named assumptions of the modules:

* `TransportProofs`, the window: `WindowTypeOK`, `WindowExact`, and the refinement
  `WindowSpec => ImplementsFilter`. `WindowExact` with the type invariant is
  inductive. The work is in `Advance`: for an offset inside the shift the old mark
  is found at the old offset, for one outside it the counter was never accepted
  because it is above the old high-water mark. The refinement then needs that
  "too old" means past the window's end, which holds because the high-water mark
  is itself accepted.
  `BitsImplementWindow` is the refinement `BitSpec => ImplementsWindow`, for any word
  width and number of words. Bit `b` of word `w` is the offset `w * WORD_BITS + b`,
  and the offset before it is the bit below or, at bit 0, the top bit of the word
  below, which is the one the carry brings (`PlaceBefore`, `ShiftedOnce`). By induction
  n passes move every mark n offsets on (`ShiftLeftIs`); the invariant is only that the
  words have their width.
* `TransportProofs`, the tunnel: `TypeOK`, `NoNonceReuse`, `DeliveredOnceAsSent`,
  `AcceptedMeansDelivered`. The invariant adds that sent counters are at most
  `send_counter`, that ciphertexts on the wire were sealed by the sender, and that
  a counter not accepted was not delivered; the step for `Decrypt` uses the
  refinement lemma: what is accepted now was not accepted before.
* `FirewallProofs`: `TypeOK`, `FlowsAreScheduled`, `EntriesAreAllowed`, and, for
  `MaxReloads < VersionMod`, `PassesAreAllowed`. The invariant adds that the rules
  in force are the last ones installed and that what a thread carries between its
  sections was installed by some reload. Lemmas state what `purge_expired`,
  `record` and `remove` keep.
  `PurgeIsClosedForm` holds for any threads. A pass of the loop changes
  the table but not its closed form, and leaves one slot fewer due (`PassKeeps`, with
  a lemma for each kind of slot it may pop); by induction, after as many passes as
  there are slots none is due, and such a table is its own closed form
  (`LoopIsClosedForm`). `TableInv` adds that the heap is finite.
  `PurgeRemovesExpired` and `RefreshExtends` have the hypothesis `Threads = {t}`,
  one caller, without which they are false (`firewall_stale_clock`). `SingleInv`
  adds that a tracked flow has a slot no later than its expiry (`EarlySlots`) and
  that no entry is from later than the clock or the call in progress.
* `SessionProofs`: `TypeOK`, `IndexIsEstablished`, `WaitersAreReachable`,
  `ConnectedMeansTunnel`, `InitiatorHasPeer`, for any nodes, certificates, addresses
  and calls. Every step keeps the established tunnels (`TunnelsStay`): fresh
  indexes are free, and the two actions that remove or replace an entry find a
  handshake there. The invariant adds that a sender in `connected` belongs to a call
  on that node for that address (`SendersBelong`), and that a stage 2 on the network
  stands for a responder's tunnel its sender has (`RepliesHaveTunnels`), which is
  what gives the initiator its peer when it arrives.
  `NoNonceReuse` and `DeliveredAsSent` need that no two tunnel ends have a key in
  common: an ephemeral starts one handshake and answers one (`EphsAreUnique`).
  Then a packet on the network was sealed by one tunnel of its sender, whose counter
  bounds it (`PacketsHaveTunnels`), so the next counter is new; and what was handed
  out used up its counter in the tunnel it came through (`DeliveredIsMarked`).
* `LighthouseProofs`: `WaitersAreRegistered`, `KnownIsNotAwaited`,
  `LighthousesHaveTunnels` and the action property `AnswerWakes`, for any
  lighthouses, calls and messages. The invariant adds what a call knows between its
  two sections (`KnownIsNotMissed`: the address is unknown, or it came in the gap)
  and how far registration is (`RegisteredHaveTunnels`: a tunnel to each lighthouse
  that is done, and the builder's call is for the next one). A message that makes an
  address known takes its waiter out of the table, and that waiter is the call, so
  nobody else waits for it. `AnswerWakes` needs in addition that the wire's form of
  an address leads back to it (`WireRoundTrip`), and with it that targets are
  addresses of one of the two families.
  `PublishedIsLearned`, for lists of any length: the sorting loop keeps every address
  in the list of its family (`OfFamilyIs`, by induction), the wire's pairs read back
  as the sockets they were (`WireList`), so the first candidate is the first address
  of the publication.
* `RuleSetProofs`: `TreeAgreesWithRules`, for any rules in any order. The invariant
  (`TreeReaches`) is exact: a lookup matches just when it reaches one of the rules
  (`Reaches`), where an ICMP packet reaches a rule for any protocol through its
  identifier; `ReachesWhatItCovers` then compares that with the reference. One lemma
  for each level of the tree, from the local networks up, says that filing a rule adds
  what that part of the rule covers and nothing else; `TreeOK` says that the tables
  have the shape of the code's types. `IgnoredIsReported` has the hypothesis
  `LookupsTellApart`: among the lookups there is one to port 0 that is not ICMP and,
  for every rule that does not say any, a peer outside it. With fewer lookups a rule
  could seem to admit everybody; `MCRuleSet` assumes it of its instance, where TLC
  evaluates it.
* `ListenerProofs`: `ForwardedIsOwned`, `ForwardedIsAskedFor`, for any certificates,
  packets and rules. One invariant, `ListenerInv`: a flow, a packet past `evaluate`
  and a packet that left have the record of what the flow was opened for, and the
  packet was allowed on it, whatever the peer's certificate has become
  since. `OwnsIsGiven` is the arithmetic: a host route holds one address.
* `PacketParseProofs`: `ReadsInBounds`, `ParsesAsBuilt`, `ReplyIsSameFlow`, for chains
  of any number of extension headers of any lengths, cut anywhere. `BoundsInv` adds
  the types of what the walk carries, and that it walks only behind a whole IPv6
  header. `MeaningInv` adds that the walk is at the start of some header of the chain,
  with the byte that holds its number, and that every header before it was there to
  be read and was no later fragment (`AtHeader`); that the bytes there are the header's own is by
  induction over the chain, from `LaidOut`.
* `CertificateProofs`: `AcceptedAsIssued`, `UnchangedIsExact`, `CutIsRejected`, for
  certificates with names, lists, integers and lengths of any size. The lemmas climb
  the encoder. An integer of up to `INT_BYTES` bytes and a length of up to `LEN_BYTES`
  read back as they were written, at every edge of their forms (`IntRoundTrip`,
  `WriteLengthIs`). A written TLV reads back whatever follows it, and not at all when
  cut (`ReadWritten`, `ReadCut`). So do a list of TLVs (`ReadAllWritten`) and a list of
  fields some of which are left out, because the tags differ (`FieldsWritten`), and
  with them the details and both forms of a certificate (`DetailsRoundTrip`,
  `DecodeEncoded`, `RecombineEncoded`, `CutEncoding`).
  `AcceptedAsIssued` then rests on `SignedIsIssued`: the signed bytes are the details,
  the curve and the key with nothing in between, and a decoded certificate keeps its
  details as the one TLV they were read from, so two equal strings of signed bytes
  have equal details and therefore equal keys. `CertInv` is small: unchanged bytes are
  the encoding, cut bytes a prefix of it, the certificate what they decode to, the
  verdict that of `verify_host_cert`.

Assumptions. Each module names what it assumes of its constants, and TLC evaluates it
in the runs. They say of what kind the inputs are: sizes are naturals, the window is
as long as its words together (`WordsAssumption`), a rule's port is a `u16`
(`RuleSetAssumption`), addresses in certificates and parsed packets are numbers
(`ListenerAssumption`), header fields fit their widths and headers follow one another
(`PacketAssumption`), publications are sequences of addresses with 16-bit ports
(`PublicationAssumption`), a certificate's times are `i64`, its strings UTF-8, its
encoding no longer than a `usize` can say, and its signature belongs to no other
request (`CertificateAssumption`: Ed25519 taken as ideal).

Induction. A loop is a recursive function in these modules, and the proofs about it
look at the least counterexample (`LeastNat`, from the well-foundedness of `<` on the
naturals). A recursive definition stands for a function only if there is one, so
each such proof first shows that it exists (`PassesExist`, `PushedExist`, `Beginnings`;
in `ShiftLeftIs` the closed form is the witness).

Only model-checked. Liveness under fairness, which is out of the prover's reach:
`CallsReturn`, `WalkTerminates`, `PacketsAreSettled`, `EndsTogether`. Every invariant,
action property and refinement a passing run checks is also a theorem.

## Observations

What was met while modelling, besides the violations:

* `lighthouse.rs:51-53` says the update is sent "at startup and periodically
  thereafter". It is sent once, in `Session::new`: a lighthouse that restarts is not
  told again. The address in it is the socket's local address, so a socket bound to
  the wildcard publishes the wildcard.
* `resolve` (`session.rs:433-445`) has a gap between its two locks. An address that
  comes in it wakes nobody: the call sleeps until its timeout and fails although the
  address is in the table, unless another answer follows. `KnownIsNotAwaited` says
  that this is the only way.
* Port 0 is `PORT_ANY` in the rule tables (`tree.rs:8`), and `port_bounds`
  (`builder.rs:234-246`) passes it on: a rule for port 0, or for a range that starts at
  0, admits every port, and no warning says so.
* IPv6 upper-layer numbers the walk does not know (SCTP, GRE) are stepped over like
  extension headers (`packet.rs:243-246`), so what is read behind them is payload,
  where the comment (`packet.rs:146-150`) wants the offset of the host's own stack.
  `Understood` leaves these packets out of `ParsesAsBuilt`; `ReadsInBounds` and
  `WalkTerminates` include them.
* `packet.rs:95-99` says that `fragment` folds in the MF bit; the code
  (`packet.rs:77-82`) does not, and says so.
* A prefix length beyond its address family decodes and verifies, and the listener's
  task then panics at `identity.rs:11`, "cert prefix_len is a valid prefix length";
  `run` returns and the node forwards nothing more. Only a certificate the CA signed
  gets there (`AcceptedAsIssued`).
* `listener.rs:74-76` speaks of drop-based teardown. The tasks end (`EndsTogether`),
  but `spawn_recv_loop` keeps the session's state and socket for ever, so `recv`
  never reports the closed session `mesh_to_tun` would return on.
* Packets to an address under a peer's unsafe networks are not sent: `tun_to_mesh`
  connects to the destination itself, which is nobody's VPN address.
* A flow removed after a reload and recorded anew has two heap slots, and each such
  round adds one for as long as the flow lives, where `conntrack.rs:23` expects about
  one entry per live flow.
* The DER readers do not ask whether they are at the end, nor for the shortest form
  of a length (`der.rs:74-124`), so several byte strings decode to one certificate.
  What is accepted is still what was signed (`AcceptedAsIssued`).

## Not modelled

* `header.rs` copies five fields to and from fixed places of 16 bytes; datagrams in
  the models are records of these fields.
* `tun.rs` is ioctl calls on a device file.
* The ciphers, the Noise library, Ed25519, SHA-256 and base64 are modelled by what
  they do; protobuf encoding, log texts and the examples are left out.
* Restarts and removal of tunnels: the code has neither. A peer that restarts leaves
  this node sending to an index nobody has, until somebody connects again.
* `allocate_index` draws from the clock until it finds a free index; indexes are a
  small set in the model, in which any free one may be chosen.
