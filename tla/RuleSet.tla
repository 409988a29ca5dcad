------------------------------ MODULE RuleSet -------------------------------
(***************************************************************************)
(* The firewall's rule set: RuleSetBuilder.add_rule files a rule in a tree *)
(* of tables (direction, protocol, port, CA, peer), and RuleSet.matches    *)
(* looks a packet and its peer up there.  The reference is the flat list   *)
(* of the rules that were added.                                           *)
(*                                                                         *)
(* A network is the set of its addresses.  An Option is a set of at most   *)
(* one element, a HashMap a function on its keys; a rule's groups are a    *)
(* sequence; a Vec of the tree is only searched, and so a set, or a        *)
(* function when it is searched by key.                                    *)
(***************************************************************************)
EXTENDS Integers, Sequences, FiniteSets

CONSTANTS Rules,       \* the arguments add_rule may be called with
          Lookups,     \* a packet, whether it is incoming, and its peer's identity
          Assigned,    \* what new may get as assigned_networks: sets of networks
          MaxRules     \* bound: rules added to one builder

Protocols == {"Any", "Tcp", "Udp", "Icmp", "IcmpV6", "Other"}
Ports     == {p \in Nat : p < 2 ^ 16}

\* The types of add_rule's and matches' arguments.
ASSUME RuleSetAssumption ==
    /\ \A r \in Rules :
          /\ r.incoming \in BOOLEAN
          /\ r.proto \in Protocols
          /\ r.port.spec \in {"Any", "Fragment", "Single", "Range"}
          /\ r.port.spec = "Single" => r.port.p \in Ports
          /\ r.port.spec = "Range" => r.port.start \in Ports /\ r.port.end \in Ports
          /\ r.local_cidr.spec \in {"Any", "Net", "Unset"}
          /\ r.groups \in Seq(STRING)
          /\ \A h1, h2 \in r.host : h1 = h2
    /\ \A l \in Lookups :
          /\ l.incoming \in BOOLEAN
          /\ l.packet.protocol \in Protocols
          /\ l.packet.fragment \in BOOLEAN
          /\ l.packet.local_port \in Ports /\ l.packet.remote_port \in Ports

VARIABLES tree,        \* RuleSetBuilder.inbound and .outbound
          default,     \* RuleSetBuilder.default_local_cidr
          warnings,    \* RuleSetBuilder.warnings: the kind and the rule it is about
          added        \* history: the rules add_rule accepted

vars == <<tree, default, warnings, added>>

PORT_ANY      == 0
PORT_FRAGMENT == -1

EmptyMap       == [x \in {} |-> 0]
EmptyLocalCidr == [any |-> FALSE, nets |-> {}]
EmptyPeerRule  == [any |-> {}, hosts |-> EmptyMap, groups |-> {}, cidrs |-> EmptyMap]
EmptyCaRule    == [any |-> {}, ca_names |-> EmptyMap, ca_shas |-> EmptyMap]

Tables == {"any_proto", "tcp", "udp", "icmp"}

\* `entry(k).or_default()`, then an update, for every key k in K.
Upsert(map, K, empty, Update(_)) ==
    [k \in DOMAIN map \cup K |->
        IF k \in K THEN Update(IF k \in DOMAIN map THEN map[k] ELSE empty)
                   ELSE map[k]]

\* get_or_insert_with on an Option, then an update.
OrInsert(option, empty, Update(_)) ==
    {Update(x) : x \in IF option = {} THEN {empty} ELSE option}

-----------------------------------------------------------------------------
\* port_bounds; an inverted range is refused.
PortBounds(port) ==
    CASE port.spec = "Any"      -> [start |-> PORT_ANY, end |-> PORT_ANY]
      [] port.spec = "Fragment" -> [start |-> PORT_FRAGMENT, end |-> PORT_FRAGMENT]
      [] port.spec = "Single"   -> [start |-> port.p, end |-> port.p]
      [] port.spec = "Range"    -> [start |-> port.start, end |-> port.end]

InvalidPortRange(r) == r.port.spec = "Range" /\ r.port.start > r.port.end
UnknownProtocol(r)  == r.proto = "Other"

IsIcmp(proto) == proto \in {"Icmp", "IcmpV6"}

\* The keys the rule is filed under.  ICMP has no ports.
PortKeys(r) ==
    LET b == PortBounds(r.port)
    IN  IF IsIcmp(r.proto) THEN {PORT_ANY} ELSE b.start .. b.end

TableOf(proto) ==
    CASE proto = "Any" -> "any_proto"
      [] proto = "Tcp" -> "tcp"
      [] proto = "Udp" -> "udp"
      [] IsIcmp(proto) -> "icmp"

\* The groups the rule lists.
GroupSet(r) == {r.groups[i] : i \in DOMAIN r.groups}

IsAny(r) == \/ GroupSet(r) = {} /\ r.host = {} /\ r.cidr = {}
            \/ "any" \in GroupSet(r)
            \/ "any" \in r.host

\* A slip: the networks of the last rule replace the earlier ones.
OverwriteLocalCidr(lc, r) ==
    CASE r.local_cidr.spec = "Any"   -> [lc EXCEPT !.any = TRUE]
      [] r.local_cidr.spec = "Net"   -> [lc EXCEPT !.nets = {r.local_cidr.net}]
      [] r.local_cidr.spec = "Unset" ->
            IF default.any THEN [lc EXCEPT !.any = TRUE] ELSE [lc EXCEPT !.nets = default.nets]

MergeLocalCidr(lc, r) ==
    CASE r.local_cidr.spec = "Any"   -> [lc EXCEPT !.any = TRUE]
      [] r.local_cidr.spec = "Net"   -> [lc EXCEPT !.nets = @ \cup {r.local_cidr.net}]
      [] r.local_cidr.spec = "Unset" ->
            IF default.any THEN [lc EXCEPT !.any = TRUE]
                           ELSE [lc EXCEPT !.nets = @ \cup default.nets]

AddToPeerRule(pr, r) ==
    LET Merge(lc) == MergeLocalCidr(lc, r)
    IN  IF IsAny(r)
        THEN [pr EXCEPT !.any = OrInsert(@, EmptyLocalCidr, Merge)]
        ELSE [pr EXCEPT !.groups = IF GroupSet(r) = {} THEN @
                                   ELSE @ \cup {<<GroupSet(r), Merge(EmptyLocalCidr)>>},
                        !.hosts  = Upsert(@, r.host, EmptyLocalCidr, Merge),
                        !.cidrs  = Upsert(@, r.cidr, EmptyLocalCidr, Merge)]

AddToCaRule(ca, r) ==
    LET Add(pr) == AddToPeerRule(pr, r)
    IN  IF r.ca_sha = {} /\ r.ca_name = {}
        THEN [ca EXCEPT !.any = OrInsert(@, EmptyPeerRule, Add)]
        ELSE [ca EXCEPT !.ca_shas  = Upsert(@, r.ca_sha, EmptyPeerRule, Add),
                        !.ca_names = Upsert(@, r.ca_name, EmptyPeerRule, Add)]

When(condition, kind) == IF condition THEN {kind} ELSE {}

\* A slip: the network of a rule whose groups are "any" goes unreported.
SanityOfHosts(r) ==
    When("any" \in GroupSet(r) /\ Len(r.groups) > 1, "GroupsShadowedByAny")
    \cup When("any" \in r.host /\ GroupSet(r) # {}, "HostAnyShadowsGroups")
    \cup When("any" \in r.host /\ r.cidr # {}, "HostAnyShadowsCidr")
    \cup When("any" \in GroupSet(r) /\ r.host \notin {{}, {"any"}}, "GroupsAnyShadowsHost")

\* check_sanity: the warnings a rule gets.
Sanity(r) ==
    When("any" \in GroupSet(r) /\ Len(r.groups) > 1, "GroupsShadowedByAny")
    \cup When("any" \in r.host /\ GroupSet(r) # {}, "HostAnyShadowsGroups")
    \cup When("any" \in r.host /\ r.cidr # {}, "HostAnyShadowsCidr")
    \cup When("any" \in GroupSet(r) /\ r.host \notin {{}, {"any"}}, "GroupsAnyShadowsHost")
    \cup When("any" \in GroupSet(r) /\ r.cidr # {}, "GroupsAnyShadowsCidr")

IcmpPortIgnored(r) == When(IsIcmp(r.proto) /\ r.port.spec # "Any", "IcmpPortIgnored")

\* RuleSetBuilder::new: what an omitted local_cidr stands for.
DefaultLocalCidr(assigned_networks, has_unsafe_networks, default_local_cidr_any) ==
    IF ~has_unsafe_networks \/ default_local_cidr_any
    THEN [any |-> TRUE, nets |-> {}]
    ELSE [any |-> FALSE, nets |-> assigned_networks]

Init == /\ tree = [incoming \in BOOLEAN |-> [t \in Tables |-> EmptyMap]]
        /\ \E nets \in Assigned, unsafe \in BOOLEAN, any \in BOOLEAN :
              default = DefaultLocalCidr(nets, unsafe, any)
        /\ warnings = {}
        /\ added = {}

\* add_rule of an inverted range or an unknown protocol returns an error before it
\* has changed anything.
Refuse(r) ==
    /\ InvalidPortRange(r) \/ UnknownProtocol(r)
    /\ UNCHANGED vars

AddRule(r) ==
    /\ Cardinality(added) < MaxRules
    /\ ~InvalidPortRange(r) /\ ~UnknownProtocol(r)
    /\ warnings' = warnings \cup ((Sanity(r) \cup IcmpPortIgnored(r)) \X {r})
    /\ LET Add(ca) == AddToCaRule(ca, r)
       IN  tree' = [tree EXCEPT ![r.incoming][TableOf(r.proto)] =
                       Upsert(@, PortKeys(r), EmptyCaRule, Add)]
    /\ added' = added \cup {r}
    /\ UNCHANGED default

Next == \E r \in Rules : AddRule(r) \/ Refuse(r)

Spec == Init /\ [][Next]_vars

-----------------------------------------------------------------------------
\* The lookups of tree.rs; a chain of early returns is a disjunction.
LocalCidrMatches(lc, packet) ==
    lc.any \/ \E n \in lc.nets : packet.local_addr \in n

PeerRuleMatches(pr, packet, remote) ==
    \/ \E lc \in pr.any : LocalCidrMatches(lc, packet)
    \/ \E g \in pr.groups : g[1] \subseteq remote.groups /\ LocalCidrMatches(g[2], packet)
    \/ /\ remote.name \in DOMAIN pr.hosts
       /\ LocalCidrMatches(pr.hosts[remote.name], packet)
    \/ \E c \in DOMAIN pr.cidrs :
          packet.remote_addr \in c /\ LocalCidrMatches(pr.cidrs[c], packet)

CaRuleMatches(ca, packet, remote) ==
    \/ \E pr \in ca.any : PeerRuleMatches(pr, packet, remote)
    \/ /\ remote.ca_sha \in DOMAIN ca.ca_shas
       /\ PeerRuleMatches(ca.ca_shas[remote.ca_sha], packet, remote)
    \/ /\ remote.ca_name \in DOMAIN ca.ca_names
       /\ PeerRuleMatches(ca.ca_names[remote.ca_name], packet, remote)

\* The key a packet is looked up by.
LookupPort(packet, incoming) ==
    IF packet.fragment THEN PORT_FRAGMENT
    ELSE IF incoming THEN packet.local_port ELSE packet.remote_port

PortTableMatches(table, packet, incoming, remote) ==
    \E port \in {LookupPort(packet, incoming), PORT_ANY} \cap DOMAIN table :
        CaRuleMatches(table[port], packet, remote)

\* Direction::matches.  Other protocols have only the table for any protocol.
DirectionMatches(dir, packet, incoming, remote) ==
    \/ PortTableMatches(dir["any_proto"], packet, incoming, remote)
    \/ /\ packet.protocol \notin {"Any", "Other"}
       /\ PortTableMatches(dir[TableOf(packet.protocol)], packet, incoming, remote)

Matches(packet, incoming, remote) ==
    DirectionMatches(tree[incoming], packet, incoming, remote)

-----------------------------------------------------------------------------
\* What one rule says, read by itself.  Port 0 is the wildcard (PORT_ANY), alone or
\* at the start of a range; fragments have no ports; ICMP has none either, so no
\* port keeps an ICMP packet out; a rule that names a CA hash and a CA name is
\* satisfied by either, as by any of its groups, host and network.
ProtoCovers(r, packet) ==
    \/ r.proto = "Any"
    \/ r.proto = packet.protocol
    \/ IsIcmp(r.proto) /\ IsIcmp(packet.protocol)

PortCovers(r, packet, incoming) ==
    \/ IsIcmp(r.proto)
    \/ r.port.spec = "Any"
    \/ r.port.spec = "Fragment" /\ packet.fragment
    \/ /\ r.port.spec \in {"Single", "Range"}
       /\ LET first == IF r.port.spec = "Single" THEN r.port.p ELSE r.port.start
              last  == IF r.port.spec = "Single" THEN r.port.p ELSE r.port.end
              port  == IF incoming THEN packet.local_port ELSE packet.remote_port
          IN  \/ first = 0
              \/ /\ ~packet.fragment
                 /\ IsIcmp(packet.protocol) \/ (first <= port /\ port <= last)

CaCovers(r, remote) ==
    \/ r.ca_sha = {} /\ r.ca_name = {}
    \/ remote.ca_sha \in r.ca_sha
    \/ remote.ca_name \in r.ca_name

PeerCovers(r, packet, remote) ==
    \/ GroupSet(r) = {} /\ r.host = {} /\ r.cidr = {}
    \/ "any" \in GroupSet(r) \cup r.host
    \/ GroupSet(r) # {} /\ GroupSet(r) \subseteq remote.groups
    \/ remote.name \in r.host
    \/ \E c \in r.cidr : packet.remote_addr \in c

LocalCovers(r, packet) ==
    \/ r.local_cidr.spec = "Any"
    \/ r.local_cidr.spec = "Net" /\ packet.local_addr \in r.local_cidr.net
    \/ /\ r.local_cidr.spec = "Unset"
       /\ default.any \/ \E n \in default.nets : packet.local_addr \in n

Covers(r, packet, incoming, remote) ==
    /\ r.incoming = incoming
    /\ ProtoCovers(r, packet)
    /\ PortCovers(r, packet, incoming)
    /\ CaCovers(r, remote)
    /\ PeerCovers(r, packet, remote)
    /\ LocalCovers(r, packet)

\* The rule names some peer, or some port, and not just the wildcard.
NamesPeer(r) == ~(GroupSet(r) \cup r.host \subseteq {"any"}) \/ r.cidr # {}
NamesPort(r) == r.port.spec # "Any" /\ 0 \notin PortBounds(r.port).start .. PortBounds(r.port).end

\* A rule for any protocol that names ports, and an ICMP packet, which has none.
\* Whether the one admits the other the documentation leaves open.
Unsettled(r, packet) ==
    /\ r.proto = "Any"
    /\ r.port.spec \in {"Single", "Range"} /\ NamesPort(r)
    /\ IsIcmp(packet.protocol) /\ ~packet.fragment

\* The tree admits no packet that none of the rules added admits by itself, and
\* every packet that one of them does: sharing a port, a CA, a host or a network
\* with other rules, in any order, neither widens a rule nor loses it
\* (builder.rs:119-345, tree.rs).  What an any-protocol rule for a port means for
\* ICMP is left to IdentifierIsNotFiltered.
TreeAgreesWithRules ==
    \A l \in Lookups :
        /\ Matches(l.packet, l.incoming, l.remote)
              => \E r \in added : Covers(r, l.packet, l.incoming, l.remote)
        /\ (\E r \in added : /\ Covers(r, l.packet, l.incoming, l.remote)
                             /\ ~Unsettled(r, l.packet))
              => Matches(l.packet, l.incoming, l.remote)

\* "Firewall rules never filter on" an ICMP packet's echo identifier, "it exists
\* purely to separate conntrack flows" (nebula-listener/src/packet.rs:41-43): ICMP
\* packets that differ in nothing else get the same answer.  parse puts the
\* identifier into remote_port.
IdentifierIsNotFiltered ==
    \A l \in Lookups : \A m \in Lookups :
        IsIcmp(l.packet.protocol) /\ m = [l EXCEPT !.packet.remote_port = m.packet.remote_port]
            => (Matches(l.packet, l.incoming, l.remote)
                   <=> Matches(m.packet, m.incoming, m.remote))

\* The lookups are enough to tell a rule with criteria from one without: a packet to
\* port 0 that is not ICMP, and for every rule that does not say "any" a peer outside
\* it (there is none if the rule's network is every address).
LookupsTellApart ==
    /\ \E l \in Lookups : /\ ~l.packet.fragment /\ ~IsIcmp(l.packet.protocol)
                          /\ LookupPort(l.packet, l.incoming) = 0
    /\ \A r \in Rules :
          ~IsAny(r) => \E l \in Lookups :
                         /\ GroupSet(r) = {} \/ ~(GroupSet(r) \subseteq l.remote.groups)
                         /\ l.remote.name \notin r.host
                         /\ \A c \in r.cidr : l.packet.remote_addr \notin c

\* No criterion is dropped in silence: a rule that names a group, a host or a
\* network and yet admits every peer gets a warning about its peers, and one that
\* names a port and yet admits every port the warning that ICMP has none
\* (builder.rs:144-149, 182-220).
IgnoredIsReported ==
    \A r \in added :
        /\ NamesPeer(r) /\ (\A l \in Lookups : PeerCovers(r, l.packet, l.remote))
              => \E w \in warnings : w[1] # "IcmpPortIgnored" /\ w[2] = r
        /\ NamesPort(r) /\ (\A l \in Lookups : PortCovers(r, l.packet, l.incoming))
              => <<"IcmpPortIgnored", r>> \in warnings
=============================================================================
