--------------------------- MODULE RuleSetProofs ----------------------------
(***************************************************************************)
(* The tree of tables admits what the flat list of rules admits, for every *)
(* list of rules, packet and peer.  One lemma per level of the tree, from  *)
(* the local networks up: filing a rule there adds what that part of the   *)
(* rule covers to what the level matches, and nothing else.                *)
(***************************************************************************)
EXTENDS RuleSet, TLAPS

\* The levels of the tree, as the code's types.
IsLocalCidr(lc) == /\ lc = [any |-> lc.any, nets |-> lc.nets]
                   /\ lc.any \in BOOLEAN

IsPeerRule(pr) ==
    /\ pr = [any |-> pr.any, hosts |-> pr.hosts, groups |-> pr.groups, cidrs |-> pr.cidrs]
    /\ \A lc \in pr.any : IsLocalCidr(lc)
    /\ \A h \in DOMAIN pr.hosts : IsLocalCidr(pr.hosts[h])
    /\ \A c \in DOMAIN pr.cidrs : IsLocalCidr(pr.cidrs[c])

IsCaRule(ca) ==
    /\ ca = [any |-> ca.any, ca_names |-> ca.ca_names, ca_shas |-> ca.ca_shas]
    /\ \A pr \in ca.any : IsPeerRule(pr)
    /\ \A n \in DOMAIN ca.ca_names : IsPeerRule(ca.ca_names[n])
    /\ \A s \in DOMAIN ca.ca_shas : IsPeerRule(ca.ca_shas[s])

TreeOK ==
    /\ DOMAIN tree = BOOLEAN
    /\ \A i \in BOOLEAN : DOMAIN tree[i] = Tables
    /\ \A i \in BOOLEAN : \A t \in Tables : \A k \in DOMAIN tree[i][t] :
          IsCaRule(tree[i][t][k])
    /\ IsLocalCidr(default)
    /\ added \subseteq Rules
    /\ \A r \in added : ~InvalidPortRange(r) /\ ~UnknownProtocol(r)

\* What the tree makes of one rule: as Covers, but an ICMP packet is compared with the
\* ports of an any-protocol rule by its identifier (port_table_matches).
PortReaches(r, packet, incoming) ==
    \/ IsIcmp(r.proto)
    \/ r.port.spec = "Any"
    \/ r.port.spec = "Fragment" /\ packet.fragment
    \/ /\ r.port.spec \in {"Single", "Range"}
       /\ LET first == IF r.port.spec = "Single" THEN r.port.p ELSE r.port.start
              last  == IF r.port.spec = "Single" THEN r.port.p ELSE r.port.end
              port  == IF incoming THEN packet.local_port ELSE packet.remote_port
          IN  first = 0 \/ (~packet.fragment /\ first <= port /\ port <= last)

Reaches(r, packet, incoming, remote) ==
    /\ r.incoming = incoming
    /\ ProtoCovers(r, packet)
    /\ PortReaches(r, packet, incoming)
    /\ CaCovers(r, remote)
    /\ PeerCovers(r, packet, remote)
    /\ LocalCovers(r, packet)

TreeReaches ==
    \A l \in Lookups :
        Matches(l.packet, l.incoming, l.remote)
            <=> \E r \in added : Reaches(r, l.packet, l.incoming, l.remote)

RuleSetInv == TreeOK /\ TreeReaches

-----------------------------------------------------------------------------
\* merge_local_cidr adds the rule's local networks.
LEMMA LocalCidrMerged ==
    ASSUME NEW r \in Rules, NEW lc, IsLocalCidr(lc), IsLocalCidr(default), NEW packet
    PROVE  /\ IsLocalCidr(MergeLocalCidr(lc, r))
           /\ LocalCidrMatches(MergeLocalCidr(lc, r), packet) <=>
                 LocalCidrMatches(lc, packet) \/ LocalCovers(r, packet)
<1>1. r.local_cidr.spec \in {"Any", "Net", "Unset"}
  BY RuleSetAssumption
<1>2. lc = [any |-> lc.any, nets |-> lc.nets] /\ lc.any \in BOOLEAN
  BY DEF IsLocalCidr
<1>3. CASE \/ r.local_cidr.spec = "Any"
           \/ r.local_cidr.spec = "Unset" /\ default.any
  <2>1. MergeLocalCidr(lc, r) = [any |-> TRUE, nets |-> lc.nets]
    BY <1>2, <1>3 DEF MergeLocalCidr
  <2> QED BY <1>3, <2>1 DEF IsLocalCidr, LocalCidrMatches, LocalCovers
<1>4. CASE r.local_cidr.spec = "Net"
  <2>1. MergeLocalCidr(lc, r) = [any |-> lc.any, nets |-> lc.nets \cup {r.local_cidr.net}]
    BY <1>2, <1>4 DEF MergeLocalCidr
  <2> QED BY <1>2, <1>4, <2>1 DEF IsLocalCidr, LocalCidrMatches, LocalCovers
<1>5. CASE r.local_cidr.spec = "Unset" /\ ~default.any
  <2>1. MergeLocalCidr(lc, r) = [any |-> lc.any, nets |-> lc.nets \cup default.nets]
    BY <1>2, <1>5 DEF MergeLocalCidr
  <2> QED BY <1>2, <1>5, <2>1 DEF IsLocalCidr, LocalCidrMatches, LocalCovers
<1> QED BY <1>1, <1>3, <1>4, <1>5

\* An empty list of local networks matches nothing.
LEMMA EmptyLocalCidrMatches ==
    /\ IsLocalCidr(EmptyLocalCidr)
    /\ \A packet : ~LocalCidrMatches(EmptyLocalCidr, packet)
BY DEF EmptyLocalCidr, IsLocalCidr, LocalCidrMatches

\* An empty peer rule matches nobody.
LEMMA EmptyPeerRuleMatches ==
    /\ IsPeerRule(EmptyPeerRule)
    /\ \A packet, remote : ~PeerRuleMatches(EmptyPeerRule, packet, remote)
BY DEF EmptyPeerRule, EmptyMap, IsPeerRule, PeerRuleMatches

\* Nor does an empty CA rule.
LEMMA EmptyCaRuleMatches ==
    /\ IsCaRule(EmptyCaRule)
    /\ \A packet, remote : ~CaRuleMatches(EmptyCaRule, packet, remote)
BY DEF EmptyCaRule, EmptyMap, IsCaRule, CaRuleMatches

\* add_to_peer_rule adds the peers and local networks of the rule.
LEMMA PeerRuleAdded ==
    ASSUME NEW r \in Rules, NEW pr, IsPeerRule(pr), IsLocalCidr(default),
           NEW packet, NEW remote
    PROVE  /\ IsPeerRule(AddToPeerRule(pr, r))
           /\ PeerRuleMatches(AddToPeerRule(pr, r), packet, remote) <=>
                 \/ PeerRuleMatches(pr, packet, remote)
                 \/ PeerCovers(r, packet, remote) /\ LocalCovers(r, packet)
<1> DEFINE Merge(lc) == MergeLocalCidr(lc, r)
           Local == LocalCovers(r, packet)
           q == AddToPeerRule(pr, r)
<1>1. ASSUME NEW lc, IsLocalCidr(lc)
      PROVE  /\ IsLocalCidr(Merge(lc))
             /\ LocalCidrMatches(Merge(lc), packet) <=> LocalCidrMatches(lc, packet) \/ Local
  BY <1>1, LocalCidrMerged
<1>2. /\ IsLocalCidr(Merge(EmptyLocalCidr))
      /\ LocalCidrMatches(Merge(EmptyLocalCidr), packet) <=> Local
  BY <1>1, EmptyLocalCidrMatches
<1>3. pr = [any |-> pr.any, hosts |-> pr.hosts, groups |-> pr.groups, cidrs |-> pr.cidrs]
  BY DEF IsPeerRule
<1>4. CASE IsAny(r)
  <2> DEFINE any == {Merge(x) : x \in IF pr.any = {} THEN {EmptyLocalCidr} ELSE pr.any}
  <2>1. q = [any |-> any, hosts |-> pr.hosts, groups |-> pr.groups, cidrs |-> pr.cidrs]
    BY <1>3, <1>4 DEF AddToPeerRule, OrInsert
  <2> HIDE DEF Merge, Local, q
  <2>2. \A lc \in any : IsLocalCidr(lc)
    BY <1>1, <1>2 DEF IsPeerRule
  <2>3. (\E lc \in any : LocalCidrMatches(lc, packet)) <=>
           (\E lc \in pr.any : LocalCidrMatches(lc, packet)) \/ Local
    BY <1>1, <1>2 DEF IsPeerRule
  <2>4. PeerCovers(r, packet, remote)
    BY <1>4 DEF IsAny, PeerCovers
  <2> HIDE DEF any
  <2>5. IsPeerRule(q)
    BY <2>1, <2>2 DEF IsPeerRule
  <2>6. PeerRuleMatches(q, packet, remote) <=> PeerRuleMatches(pr, packet, remote) \/ Local
    BY <2>1, <2>3 DEF PeerRuleMatches
  <2> QED BY <2>4, <2>5, <2>6 DEF q, Local
<1>5. CASE ~IsAny(r)
  <2> DEFINE g1 == IF GroupSet(r) = {} THEN pr.groups
                   ELSE pr.groups \cup {<<GroupSet(r), Merge(EmptyLocalCidr)>>}
             h1 == Upsert(pr.hosts, r.host, EmptyLocalCidr, Merge)
             c1 == Upsert(pr.cidrs, r.cidr, EmptyLocalCidr, Merge)
  <2>1. q = [any |-> pr.any, hosts |-> h1, groups |-> g1, cidrs |-> c1]
    BY <1>3, <1>5 DEF AddToPeerRule
  <2> HIDE DEF Merge, Local, q
  <2>2. /\ DOMAIN h1 = DOMAIN pr.hosts \cup r.host
        /\ \A h \in DOMAIN h1 :
              h1[h] = IF h \in r.host
                      THEN Merge(IF h \in DOMAIN pr.hosts THEN pr.hosts[h] ELSE EmptyLocalCidr)
                      ELSE pr.hosts[h]
    BY DEF Upsert
  <2>3. /\ DOMAIN c1 = DOMAIN pr.cidrs \cup r.cidr
        /\ \A c \in DOMAIN c1 :
              c1[c] = IF c \in r.cidr
                      THEN Merge(IF c \in DOMAIN pr.cidrs THEN pr.cidrs[c] ELSE EmptyLocalCidr)
                      ELSE pr.cidrs[c]
    BY DEF Upsert
  <2> HIDE DEF h1, c1
  <2>4. ASSUME NEW h \in DOMAIN h1
        PROVE  /\ IsLocalCidr(h1[h])
               /\ LocalCidrMatches(h1[h], packet) <=>
                     \/ h \in DOMAIN pr.hosts /\ LocalCidrMatches(pr.hosts[h], packet)
                     \/ h \in r.host /\ Local
    BY <1>1, <1>2, <2>2 DEF IsPeerRule
  <2>5. ASSUME NEW c \in DOMAIN c1
        PROVE  /\ IsLocalCidr(c1[c])
               /\ LocalCidrMatches(c1[c], packet) <=>
                     \/ c \in DOMAIN pr.cidrs /\ LocalCidrMatches(pr.cidrs[c], packet)
                     \/ c \in r.cidr /\ Local
    BY <1>1, <1>2, <2>3 DEF IsPeerRule
  <2>6. (\E g \in g1 : g[1] \subseteq remote.groups /\ LocalCidrMatches(g[2], packet)) <=>
           \/ \E g \in pr.groups : g[1] \subseteq remote.groups /\ LocalCidrMatches(g[2], packet)
           \/ GroupSet(r) # {} /\ GroupSet(r) \subseteq remote.groups /\ Local
    <3>1. CASE GroupSet(r) = {}
      BY <3>1
    <3>2. CASE GroupSet(r) # {}
      <4> DEFINE g0 == <<GroupSet(r), Merge(EmptyLocalCidr)>>
      <4>1. g1 = pr.groups \cup {g0} /\ g0[1] = GroupSet(r) /\ g0[2] = Merge(EmptyLocalCidr)
        BY <3>2
      <4> HIDE DEF g0, g1
      <4> QED BY <1>2, <3>2, <4>1
    <3> QED BY <3>1, <3>2
  <2> HIDE DEF g1
  <2>7. PeerCovers(r, packet, remote) <=>
           \/ GroupSet(r) # {} /\ GroupSet(r) \subseteq remote.groups
           \/ remote.name \in r.host
           \/ \E c \in r.cidr : packet.remote_addr \in c
    BY <1>5 DEF PeerCovers, IsAny
  <2>8. (\E c \in DOMAIN c1 : packet.remote_addr \in c /\ LocalCidrMatches(c1[c], packet)) <=>
           \/ \E c \in DOMAIN pr.cidrs :
                 packet.remote_addr \in c /\ LocalCidrMatches(pr.cidrs[c], packet)
           \/ (\E c \in r.cidr : packet.remote_addr \in c) /\ Local
    BY <2>3, <2>5
  <2>9. remote.name \in DOMAIN h1 /\ LocalCidrMatches(h1[remote.name], packet) <=>
           \/ remote.name \in DOMAIN pr.hosts /\ LocalCidrMatches(pr.hosts[remote.name], packet)
           \/ remote.name \in r.host /\ Local
    BY <2>2, <2>4
  <2>10. IsPeerRule(q)
    BY <2>1, <2>4, <2>5 DEF IsPeerRule
  <2>11. PeerRuleMatches(q, packet, remote) <=>
            \/ PeerRuleMatches(pr, packet, remote)
            \/ PeerCovers(r, packet, remote) /\ Local
    BY <2>1, <2>6, <2>7, <2>8, <2>9 DEF PeerRuleMatches
  <2> QED BY <2>10, <2>11 DEF q, Local
<1> QED BY <1>4, <1>5

\* What Upsert makes of a map of CA rules' peer rules.
LEMMA PeerRulesUpserted ==
    ASSUME NEW r \in Rules, NEW map, NEW K, IsLocalCidr(default),
           \A k \in DOMAIN map : IsPeerRule(map[k]), NEW packet, NEW remote
    PROVE  LET Add(pr) == AddToPeerRule(pr, r)
               new     == Upsert(map, K, EmptyPeerRule, Add)
           IN  /\ DOMAIN new = DOMAIN map \cup K
               /\ \A k \in DOMAIN new :
                     /\ IsPeerRule(new[k])
                     /\ PeerRuleMatches(new[k], packet, remote) <=>
                           \/ k \in DOMAIN map /\ PeerRuleMatches(map[k], packet, remote)
                           \/ /\ k \in K
                              /\ PeerCovers(r, packet, remote) /\ LocalCovers(r, packet)
<1> DEFINE Add(pr) == AddToPeerRule(pr, r)
           new     == Upsert(map, K, EmptyPeerRule, Add)
           Covered == PeerCovers(r, packet, remote) /\ LocalCovers(r, packet)
<1>1. ASSUME NEW pr, IsPeerRule(pr)
      PROVE  /\ IsPeerRule(Add(pr))
             /\ PeerRuleMatches(Add(pr), packet, remote) <=>
                   PeerRuleMatches(pr, packet, remote) \/ Covered
  BY <1>1, PeerRuleAdded
<1>2. /\ IsPeerRule(Add(EmptyPeerRule))
      /\ PeerRuleMatches(Add(EmptyPeerRule), packet, remote) <=> Covered
  BY <1>1, EmptyPeerRuleMatches
<1> HIDE DEF Add, Covered
<1>3. /\ DOMAIN new = DOMAIN map \cup K
      /\ \A k \in DOMAIN new :
            new[k] = IF k \in K THEN Add(IF k \in DOMAIN map THEN map[k] ELSE EmptyPeerRule)
                     ELSE map[k]
  BY DEF Upsert
<1> HIDE DEF new
<1>4. ASSUME NEW k \in DOMAIN new
      PROVE  /\ IsPeerRule(new[k])
             /\ PeerRuleMatches(new[k], packet, remote) <=>
                   \/ k \in DOMAIN map /\ PeerRuleMatches(map[k], packet, remote)
                   \/ k \in K /\ Covered
  BY <1>1, <1>2, <1>3
<1> QED BY <1>3, <1>4 DEF new, Add, Covered

\* add_to_ca_rule adds the CAs, peers and local networks of the rule.
LEMMA CaRuleAdded ==
    ASSUME NEW r \in Rules, NEW ca, IsCaRule(ca), IsLocalCidr(default),
           NEW packet, NEW remote
    PROVE  /\ IsCaRule(AddToCaRule(ca, r))
           /\ CaRuleMatches(AddToCaRule(ca, r), packet, remote) <=>
                 \/ CaRuleMatches(ca, packet, remote)
                 \/ /\ CaCovers(r, remote)
                    /\ PeerCovers(r, packet, remote) /\ LocalCovers(r, packet)
<1> DEFINE Add(pr) == AddToPeerRule(pr, r)
           Covered == PeerCovers(r, packet, remote) /\ LocalCovers(r, packet)
           q == AddToCaRule(ca, r)
<1>1. ASSUME NEW pr, IsPeerRule(pr)
      PROVE  /\ IsPeerRule(Add(pr))
             /\ PeerRuleMatches(Add(pr), packet, remote) <=>
                   PeerRuleMatches(pr, packet, remote) \/ Covered
  BY <1>1, PeerRuleAdded
<1>2. /\ IsPeerRule(Add(EmptyPeerRule))
      /\ PeerRuleMatches(Add(EmptyPeerRule), packet, remote) <=> Covered
  BY <1>1, EmptyPeerRuleMatches
<1>3. ca = [any |-> ca.any, ca_names |-> ca.ca_names, ca_shas |-> ca.ca_shas]
  BY DEF IsCaRule
<1>4. CASE r.ca_sha = {} /\ r.ca_name = {}
  <2> DEFINE any == {Add(x) : x \in IF ca.any = {} THEN {EmptyPeerRule} ELSE ca.any}
  <2>1. q = [any |-> any, ca_names |-> ca.ca_names, ca_shas |-> ca.ca_shas]
    BY <1>3, <1>4 DEF AddToCaRule, OrInsert
  <2> HIDE DEF Add, Covered, q
  <2>2. \A pr \in any : IsPeerRule(pr)
    BY <1>1, <1>2 DEF IsCaRule
  <2>3. (\E pr \in any : PeerRuleMatches(pr, packet, remote)) <=>
           (\E pr \in ca.any : PeerRuleMatches(pr, packet, remote)) \/ Covered
    BY <1>1, <1>2 DEF IsCaRule
  <2>4. CaCovers(r, remote)
    BY <1>4 DEF CaCovers
  <2> HIDE DEF any
  <2>5. IsCaRule(q)
    BY <2>1, <2>2 DEF IsCaRule
  <2>6. CaRuleMatches(q, packet, remote) <=> CaRuleMatches(ca, packet, remote) \/ Covered
    BY <2>1, <2>3 DEF CaRuleMatches
  <2> QED BY <2>4, <2>5, <2>6 DEF q, Covered
<1>5. CASE ~(r.ca_sha = {} /\ r.ca_name = {})
  <2> DEFINE s1 == Upsert(ca.ca_shas, r.ca_sha, EmptyPeerRule, Add)
             n1 == Upsert(ca.ca_names, r.ca_name, EmptyPeerRule, Add)
  <2>1. q = [any |-> ca.any, ca_names |-> n1, ca_shas |-> s1]
    BY <1>3, <1>5 DEF AddToCaRule
  <2>2. /\ DOMAIN s1 = DOMAIN ca.ca_shas \cup r.ca_sha
        /\ \A k \in DOMAIN s1 :
              /\ IsPeerRule(s1[k])
              /\ PeerRuleMatches(s1[k], packet, remote) <=>
                    \/ k \in DOMAIN ca.ca_shas /\ PeerRuleMatches(ca.ca_shas[k], packet, remote)
                    \/ k \in r.ca_sha /\ Covered
    BY PeerRulesUpserted DEF IsCaRule
  <2>3. /\ DOMAIN n1 = DOMAIN ca.ca_names \cup r.ca_name
        /\ \A k \in DOMAIN n1 :
              /\ IsPeerRule(n1[k])
              /\ PeerRuleMatches(n1[k], packet, remote) <=>
                    \/ k \in DOMAIN ca.ca_names /\ PeerRuleMatches(ca.ca_names[k], packet, remote)
                    \/ k \in r.ca_name /\ Covered
    BY PeerRulesUpserted DEF IsCaRule
  <2> HIDE DEF Add, Covered, q, s1, n1
  <2>4. CaCovers(r, remote) <=> remote.ca_sha \in r.ca_sha \/ remote.ca_name \in r.ca_name
    BY <1>5 DEF CaCovers
  <2>5. IsCaRule(q)
    BY <2>1, <2>2, <2>3 DEF IsCaRule
  <2>6. CaRuleMatches(q, packet, remote) <=>
           CaRuleMatches(ca, packet, remote) \/ (CaCovers(r, remote) /\ Covered)
    BY <2>1, <2>2, <2>3, <2>4 DEF CaRuleMatches
  <2> QED BY <2>5, <2>6 DEF q, Covered
<1> QED BY <1>4, <1>5

\* A port table after a rule was filed under keys K: a lookup under key k finds it
\* exactly when k is one of them.
LEMMA PortTableAdded ==
    ASSUME NEW r \in Rules, NEW table, NEW K, IsLocalCidr(default),
           \A k \in DOMAIN table : IsCaRule(table[k]), NEW packet, NEW remote
    PROVE  LET Add(ca) == AddToCaRule(ca, r)
               new     == Upsert(table, K, EmptyCaRule, Add)
           IN  /\ DOMAIN new = DOMAIN table \cup K
               /\ \A k \in DOMAIN new :
                     /\ IsCaRule(new[k])
                     /\ CaRuleMatches(new[k], packet, remote) <=>
                           \/ k \in DOMAIN table /\ CaRuleMatches(table[k], packet, remote)
                           \/ /\ k \in K
                              /\ CaCovers(r, remote)
                              /\ PeerCovers(r, packet, remote) /\ LocalCovers(r, packet)
<1> DEFINE Add(ca) == AddToCaRule(ca, r)
           new     == Upsert(table, K, EmptyCaRule, Add)
           Covered == /\ CaCovers(r, remote)
                      /\ PeerCovers(r, packet, remote) /\ LocalCovers(r, packet)
<1>1. ASSUME NEW ca, IsCaRule(ca)
      PROVE  /\ IsCaRule(Add(ca))
             /\ CaRuleMatches(Add(ca), packet, remote) <=>
                   CaRuleMatches(ca, packet, remote) \/ Covered
  BY <1>1, CaRuleAdded
<1>2. /\ IsCaRule(Add(EmptyCaRule))
      /\ CaRuleMatches(Add(EmptyCaRule), packet, remote) <=> Covered
  BY <1>1, EmptyCaRuleMatches
<1> HIDE DEF Add, Covered
<1>3. /\ DOMAIN new = DOMAIN table \cup K
      /\ \A k \in DOMAIN new :
            new[k] = IF k \in K THEN Add(IF k \in DOMAIN table THEN table[k] ELSE EmptyCaRule)
                     ELSE table[k]
  BY DEF Upsert
<1> HIDE DEF new
<1>4. ASSUME NEW k \in DOMAIN new
      PROVE  /\ IsCaRule(new[k])
             /\ CaRuleMatches(new[k], packet, remote) <=>
                   \/ k \in DOMAIN table /\ CaRuleMatches(table[k], packet, remote)
                   \/ k \in K /\ Covered
  BY <1>1, <1>2, <1>3
<1> QED BY <1>3, <1>4 DEF new, Add, Covered

\* The keys a rule is filed under are those a covered packet is looked up by.
LEMMA KeysCover ==
    ASSUME NEW r \in Rules, ~InvalidPortRange(r), NEW l \in Lookups
    PROVE  (\E k \in {LookupPort(l.packet, l.incoming), PORT_ANY} : k \in PortKeys(r))
              <=> PortReaches(r, l.packet, l.incoming)
<1> DEFINE port == IF l.incoming THEN l.packet.local_port ELSE l.packet.remote_port
           key  == LookupPort(l.packet, l.incoming)
<1>1. /\ port \in Ports /\ l.packet.fragment \in BOOLEAN
      /\ key = IF l.packet.fragment THEN -1 ELSE port
      /\ r.port.spec \in {"Any", "Fragment", "Single", "Range"}
      /\ r.port.spec = "Single" => r.port.p \in Ports
      /\ r.port.spec = "Range" => r.port.start \in Ports /\ r.port.end \in Ports
  BY RuleSetAssumption DEF LookupPort, PORT_FRAGMENT
<1> HIDE DEF key, port
<1>2. SUFFICES (key \in PortKeys(r) \/ 0 \in PortKeys(r)) <=> PortReaches(r, l.packet, l.incoming)
  BY DEF PORT_ANY, key
<1>3. CASE IsIcmp(r.proto)
  BY <1>3 DEF PortKeys, PortReaches, PORT_ANY
<1>4. CASE ~IsIcmp(r.proto) /\ r.port.spec = "Any"
  BY <1>4 DEF PortKeys, PortBounds, PortReaches, PORT_ANY
<1>5. CASE ~IsIcmp(r.proto) /\ r.port.spec = "Fragment"
  <2>1. PortKeys(r) = -1 .. -1
    BY <1>5 DEF PortKeys, PortBounds, PORT_FRAGMENT
  <2> QED BY <1>1, <1>5, <2>1 DEF PortReaches, Ports
<1>6. CASE ~IsIcmp(r.proto) /\ r.port.spec \in {"Single", "Range"}
  <2> DEFINE first == IF r.port.spec = "Single" THEN r.port.p ELSE r.port.start
             last  == IF r.port.spec = "Single" THEN r.port.p ELSE r.port.end
  <2>1. PortKeys(r) = first .. last
    BY <1>6 DEF PortKeys, PortBounds
  <2>2. first \in Ports /\ last \in Ports /\ first <= last
    <3>1. CASE r.port.spec = "Single"
      BY <1>1, <3>1 DEF Ports
    <3>2. CASE r.port.spec = "Range"
      <4>1. /\ r.port.start \in Ports /\ r.port.end \in Ports
            /\ ~(r.port.start > r.port.end)
        BY <1>1, <3>2 DEF InvalidPortRange, Ports
      <4>2. first = r.port.start /\ last = r.port.end
        BY <3>2
      <4> HIDE DEF first, last
      <4> QED BY <4>1, <4>2 DEF Ports
    <3> QED BY <1>6, <3>1, <3>2
  <2>3. PortReaches(r, l.packet, l.incoming) <=>
           first = 0 \/ (~l.packet.fragment /\ first <= port /\ port <= last)
    BY <1>6 DEF PortReaches, port
  <2> HIDE DEF first, last
  <2>4. first \in Nat /\ last \in Nat /\ port \in Nat
    BY <1>1, <2>2 DEF Ports
  <2>5. 0 \in first .. last <=> first = 0
    BY <2>2, <2>4
  <2>6. CASE l.packet.fragment
    <3>1. key = -1
      BY <1>1, <2>6
    <3>2. key \notin first .. last
      BY <2>4, <3>1
    <3> QED BY <2>1, <2>3, <2>5, <2>6, <3>2
  <2>7. CASE ~l.packet.fragment
    <3>1. key = port
      BY <1>1, <2>7
    <3>2. key \in first .. last <=> first <= port /\ port <= last
      BY <2>4, <3>1
    <3> QED BY <2>1, <2>3, <2>5, <2>7, <3>2
  <2> QED BY <2>6, <2>7
<1> QED BY <1>1, <1>3, <1>4, <1>5, <1>6

\* The table a rule is filed in is one a covered packet is looked up in.
LEMMA TablesCover ==
    ASSUME NEW r \in Rules, ~UnknownProtocol(r), NEW l \in Lookups
    PROVE  /\ TableOf(r.proto) \in Tables
           /\ l.packet.protocol \notin {"Any", "Other"} => TableOf(l.packet.protocol) \in Tables
           /\ ProtoCovers(r, l.packet) <=>
                 \/ TableOf(r.proto) = "any_proto"
                 \/ /\ l.packet.protocol \notin {"Any", "Other"}
                    /\ TableOf(l.packet.protocol) = TableOf(r.proto)
<1>1. /\ r.proto \in {"Any", "Tcp", "Udp", "Icmp", "IcmpV6"}
      /\ l.packet.protocol \in {"Any", "Tcp", "Udp", "Icmp", "IcmpV6", "Other"}
  BY RuleSetAssumption DEF UnknownProtocol, Protocols
<1>2. /\ TableOf("Any") = "any_proto" /\ TableOf("Tcp") = "tcp" /\ TableOf("Udp") = "udp"
      /\ TableOf("Icmp") = "icmp" /\ TableOf("IcmpV6") = "icmp"
  BY DEF TableOf, IsIcmp
<1> QED BY <1>1, <1>2 DEF ProtoCovers, IsIcmp, Tables

\* One table, before and after a rule was filed.
LEMMA PortLookups ==
    ASSUME NEW r \in Rules, ~InvalidPortRange(r), NEW table, IsLocalCidr(default),
           \A k \in DOMAIN table : IsCaRule(table[k]), NEW l \in Lookups
    PROVE  LET Add(ca) == AddToCaRule(ca, r)
               new     == Upsert(table, PortKeys(r), EmptyCaRule, Add)
           IN  /\ \A k \in DOMAIN new : IsCaRule(new[k])
               /\ PortTableMatches(new, l.packet, l.incoming, l.remote) <=>
                     \/ PortTableMatches(table, l.packet, l.incoming, l.remote)
                     \/ /\ PortReaches(r, l.packet, l.incoming)
                        /\ CaCovers(r, l.remote)
                        /\ PeerCovers(r, l.packet, l.remote)
                        /\ LocalCovers(r, l.packet)
<1> DEFINE Add(ca) == AddToCaRule(ca, r)
           new     == Upsert(table, PortKeys(r), EmptyCaRule, Add)
           Covered == /\ CaCovers(r, l.remote)
                      /\ PeerCovers(r, l.packet, l.remote) /\ LocalCovers(r, l.packet)
           looked  == {LookupPort(l.packet, l.incoming), PORT_ANY}
<1>1. /\ DOMAIN new = DOMAIN table \cup PortKeys(r)
      /\ \A k \in DOMAIN new :
            /\ IsCaRule(new[k])
            /\ CaRuleMatches(new[k], l.packet, l.remote) <=>
                  \/ k \in DOMAIN table /\ CaRuleMatches(table[k], l.packet, l.remote)
                  \/ k \in PortKeys(r) /\ Covered
  BY PortTableAdded
<1>2. (\E k \in looked : k \in PortKeys(r)) <=> PortReaches(r, l.packet, l.incoming)
  BY KeysCover
<1> HIDE DEF Add, new, Covered, looked
<1>3. (\E k \in looked \cap DOMAIN new : CaRuleMatches(new[k], l.packet, l.remote)) <=>
         \/ \E k \in looked \cap DOMAIN table : CaRuleMatches(table[k], l.packet, l.remote)
         \/ (\E k \in looked : k \in PortKeys(r)) /\ Covered
  BY <1>1
<1>4. PortTableMatches(new, l.packet, l.incoming, l.remote) <=>
         \/ PortTableMatches(table, l.packet, l.incoming, l.remote)
         \/ PortReaches(r, l.packet, l.incoming) /\ Covered
  BY <1>2, <1>3 DEF PortTableMatches, looked
<1> QED BY <1>1, <1>4 DEF new, Add, Covered

\* add_rule: the tree admits what it admitted before and what the rule covers.
LEMMA AddRuleInv ==
    ASSUME RuleSetInv, NEW r \in Rules, AddRule(r)
    PROVE  RuleSetInv'
<1> DEFINE d == r.incoming
           t0 == TableOf(r.proto)
           Add(ca) == AddToCaRule(ca, r)
           new == Upsert(tree[d][t0], PortKeys(r), EmptyCaRule, Add)
<1>1. /\ ~InvalidPortRange(r) /\ ~UnknownProtocol(r)
      /\ tree' = [tree EXCEPT ![d][t0] = new]
      /\ added' = added \cup {r}
      /\ default' = default
  BY DEF AddRule
<1>2. d \in BOOLEAN /\ t0 \in Tables
  <2>1. d \in BOOLEAN /\ r.proto \in {"Any", "Tcp", "Udp", "Icmp", "IcmpV6"}
    BY <1>1, RuleSetAssumption DEF UnknownProtocol, Protocols
  <2> QED BY <2>1 DEF TableOf, IsIcmp, Tables
<1>3. /\ IsLocalCidr(default)
      /\ \A k \in DOMAIN tree[d][t0] : IsCaRule(tree[d][t0][k])
      /\ DOMAIN tree = BOOLEAN /\ \A i \in BOOLEAN : DOMAIN tree[i] = Tables
  BY <1>2 DEF RuleSetInv, TreeOK
<1>4. ASSUME NEW l \in Lookups
      PROVE  /\ \A k \in DOMAIN new : IsCaRule(new[k])
             /\ PortTableMatches(new, l.packet, l.incoming, l.remote) <=>
                   \/ PortTableMatches(tree[d][t0], l.packet, l.incoming, l.remote)
                   \/ /\ PortReaches(r, l.packet, l.incoming)
                      /\ CaCovers(r, l.remote)
                      /\ PeerCovers(r, l.packet, l.remote)
                      /\ LocalCovers(r, l.packet)
  BY <1>1, <1>3, PortLookups
<1>5. \A k \in DOMAIN new : IsCaRule(new[k])
  BY <1>3, PortTableAdded
<1> HIDE DEF new, Add, d, t0
<1>6. /\ DOMAIN tree' = BOOLEAN
      /\ \A i \in BOOLEAN : DOMAIN tree'[i] = Tables
      /\ tree'[d][t0] = new
      /\ \A i \in BOOLEAN, t \in Tables : ~(i = d /\ t = t0) => tree'[i][t] = tree[i][t]
  BY <1>1, <1>2, <1>3
<1>7. TreeOK'
  <2>1. \A i \in BOOLEAN : \A t \in Tables : \A k \in DOMAIN tree'[i][t] : IsCaRule(tree'[i][t][k])
    BY <1>5, <1>6 DEF RuleSetInv, TreeOK
  <2>2. IsLocalCidr(default)'
    BY <1>1, <1>3 DEF IsLocalCidr
  <2>3. added' \subseteq Rules /\ \A x \in added' : ~InvalidPortRange(x) /\ ~UnknownProtocol(x)
    BY <1>1 DEF RuleSetInv, TreeOK
  <2> QED BY <1>6, <2>1, <2>2, <2>3 DEF TreeOK
<1>8. ASSUME NEW l \in Lookups
      PROVE  DirectionMatches(tree'[l.incoming], l.packet, l.incoming, l.remote) <=>
                \/ DirectionMatches(tree[l.incoming], l.packet, l.incoming, l.remote)
                \/ Reaches(r, l.packet, l.incoming, l.remote)
  <2> DEFINE Found(table) == PortTableMatches(table, l.packet, l.incoming, l.remote)
             Rest == /\ PortReaches(r, l.packet, l.incoming)
                     /\ CaCovers(r, l.remote)
                     /\ PeerCovers(r, l.packet, l.remote)
                     /\ LocalCovers(r, l.packet)
             i == l.incoming
             t1 == TableOf(l.packet.protocol)
             Known == l.packet.protocol \notin {"Any", "Other"}
  <2>1. i \in BOOLEAN
    BY RuleSetAssumption
  <2>2. /\ Known => t1 \in Tables
        /\ ProtoCovers(r, l.packet) <=> t0 = "any_proto" \/ (Known /\ t1 = t0)
    BY <1>1, TablesCover DEF t0
  <2>3. Found(new) <=> Found(tree[d][t0]) \/ Rest
    BY <1>4
  <2>4. /\ DirectionMatches(tree'[i], l.packet, i, l.remote) <=>
              Found(tree'[i]["any_proto"]) \/ (Known /\ Found(tree'[i][t1]))
        /\ DirectionMatches(tree[i], l.packet, i, l.remote) <=>
              Found(tree[i]["any_proto"]) \/ (Known /\ Found(tree[i][t1]))
    BY DEF DirectionMatches
  <2>5. Reaches(r, l.packet, i, l.remote) <=> d = i /\ ProtoCovers(r, l.packet) /\ Rest
    BY DEF Reaches, d
  <2> HIDE DEF Found, Rest, i, t1, Known
  <2>6. ASSUME NEW t \in Tables
        PROVE  Found(tree'[i][t]) <=> Found(tree[i][t]) \/ (i = d /\ t = t0 /\ Rest)
    BY <1>6, <2>1, <2>3
  <2>7. "any_proto" \in Tables
    BY DEF Tables
  <2>8. DirectionMatches(tree'[i], l.packet, i, l.remote) <=>
           DirectionMatches(tree[i], l.packet, i, l.remote) \/ Reaches(r, l.packet, i, l.remote)
    BY <2>2, <2>4, <2>5, <2>6, <2>7
  <2> QED BY <2>8 DEF i
<1>9. TreeReaches'
  <2> SUFFICES ASSUME NEW l \in Lookups
               PROVE  DirectionMatches(tree'[l.incoming], l.packet, l.incoming, l.remote) <=>
                         \E x \in added' : Reaches(x, l.packet, l.incoming, l.remote)'
    BY DEF TreeReaches, Matches
  <2>1. ASSUME NEW x
        PROVE  Reaches(x, l.packet, l.incoming, l.remote)' <=> Reaches(x, l.packet, l.incoming, l.remote)
    BY <1>1 DEF Reaches, ProtoCovers, PortReaches, CaCovers, PeerCovers, LocalCovers
  <2>2. DirectionMatches(tree[l.incoming], l.packet, l.incoming, l.remote) <=>
           \E x \in added : Reaches(x, l.packet, l.incoming, l.remote)
    BY DEF RuleSetInv, TreeReaches, Matches
  <2> QED BY <1>1, <1>8, <2>1, <2>2
<1> QED BY <1>7, <1>9 DEF RuleSetInv

-----------------------------------------------------------------------------
\* A new builder has no rules, and every add_rule keeps tree and list in step.
LEMMA RuleSetInductive == Spec => []RuleSetInv
<1>1. Init => RuleSetInv
  <2> SUFFICES ASSUME Init PROVE RuleSetInv
    OBVIOUS
  <2>1. /\ DOMAIN tree = BOOLEAN
        /\ \A i \in BOOLEAN : DOMAIN tree[i] = Tables
        /\ \A i \in BOOLEAN : \A t \in Tables : DOMAIN tree[i][t] = {}
        /\ added = {}
    BY DEF Init, EmptyMap
  <2>2. IsLocalCidr(default)
    <3>1. PICK nets \in Assigned, unsafe \in BOOLEAN, any \in BOOLEAN :
             default = DefaultLocalCidr(nets, unsafe, any)
      BY DEF Init
    <3>2. \/ default = [any |-> TRUE, nets |-> {}]
          \/ default = [any |-> FALSE, nets |-> nets]
      BY <3>1, Zenon DEF DefaultLocalCidr
    <3>3. CASE default = [any |-> TRUE, nets |-> {}]
      BY <3>3 DEF IsLocalCidr
    <3>4. CASE default = [any |-> FALSE, nets |-> nets]
      BY <3>4 DEF IsLocalCidr
    <3> QED BY <3>2, <3>3, <3>4
  <2>3. TreeOK
    BY <2>1, <2>2 DEF TreeOK
  <2>4. ASSUME NEW l \in Lookups
        PROVE  ~DirectionMatches(tree[l.incoming], l.packet, l.incoming, l.remote)
    <3>1. l.incoming \in BOOLEAN
      BY RuleSetAssumption
    <3>2. l.packet.protocol \notin {"Any", "Other"} => TableOf(l.packet.protocol) \in Tables
      <4>1. l.packet.protocol \in Protocols
        BY RuleSetAssumption
      <4> QED BY <4>1 DEF Protocols, TableOf, IsIcmp, Tables
    <3>3. "any_proto" \in Tables
      BY DEF Tables
    <3> QED BY <2>1, <3>1, <3>2, <3>3 DEF DirectionMatches, PortTableMatches
  <2>5. TreeReaches
    BY <2>1, <2>4 DEF TreeReaches, Matches
  <2> QED BY <2>3, <2>5 DEF RuleSetInv
<1>2. RuleSetInv /\ [Next]_vars => RuleSetInv'
  <2> SUFFICES ASSUME RuleSetInv, [Next]_vars PROVE RuleSetInv'
    OBVIOUS
  <2>1. ASSUME NEW r \in Rules, AddRule(r) PROVE RuleSetInv'
    BY <2>1, AddRuleInv
  <2>2. CASE UNCHANGED vars
    BY <2>2 DEF vars, RuleSetInv, TreeOK, TreeReaches, Matches, Reaches, LocalCovers
  <2> QED BY <2>1, <2>2 DEF Next, Refuse
<1> QED BY <1>1, <1>2, PTL DEF Spec

\* A rule reaches no packet it does not cover, and every settled one it covers.
LEMMA ReachesWhatItCovers ==
    ASSUME NEW r \in Rules, ~InvalidPortRange(r), NEW l \in Lookups
    PROVE  /\ Reaches(r, l.packet, l.incoming, l.remote)
                 => Covers(r, l.packet, l.incoming, l.remote)
           /\ Covers(r, l.packet, l.incoming, l.remote) /\ ~Unsettled(r, l.packet)
                 => Reaches(r, l.packet, l.incoming, l.remote)
<1>1. PortReaches(r, l.packet, l.incoming) => PortCovers(r, l.packet, l.incoming)
  BY DEF PortReaches, PortCovers
<1>2. ASSUME ProtoCovers(r, l.packet), PortCovers(r, l.packet, l.incoming),
             ~Unsettled(r, l.packet)
      PROVE  PortReaches(r, l.packet, l.incoming)
  <2>1. CASE IsIcmp(r.proto) \/ ~IsIcmp(l.packet.protocol) \/ l.packet.fragment
    BY <1>2, <2>1 DEF PortReaches, PortCovers
  <2>2. CASE ~IsIcmp(r.proto) /\ IsIcmp(l.packet.protocol) /\ ~l.packet.fragment
    <3>1. r.proto = "Any"
      BY <1>2, <2>2 DEF ProtoCovers
    <3>2. CASE r.port.spec = "Single"
      <4>1. 0 \in r.port.p .. r.port.p /\ r.port.p \in Nat
        BY <1>2, <2>2, <3>1, <3>2, RuleSetAssumption DEF Unsettled, NamesPort, PortBounds, Ports
      <4>2. r.port.p = 0
        BY <4>1
      <4> QED BY <3>2, <4>2 DEF PortReaches
    <3>3. CASE r.port.spec = "Range"
      <4>1. 0 \in r.port.start .. r.port.end /\ r.port.start \in Nat /\ r.port.end \in Nat
        BY <1>2, <2>2, <3>1, <3>3, RuleSetAssumption DEF Unsettled, NamesPort, PortBounds, Ports
      <4>2. r.port.start = 0
        BY <4>1
      <4> QED BY <3>3, <4>2 DEF PortReaches
    <3>4. CASE r.port.spec \notin {"Single", "Range"}
      BY <1>2, <2>2, <3>4 DEF PortReaches, PortCovers
    <3> QED BY <3>2, <3>3, <3>4
  <2> QED BY <2>1, <2>2
<1> QED BY <1>1, <1>2 DEF Reaches, Covers

\* RuleSet::matches admits a packet only when one of the rules given to add_rule
\* admits it by itself, and whenever one does (an any-protocol rule for ports and an
\* ICMP packet apart), for every list of rules in every order, every packet and
\* every peer.
THEOREM RuleSetAgreesWithRules == Spec => []TreeAgreesWithRules
<1>1. RuleSetInv => TreeAgreesWithRules
  <2> SUFFICES ASSUME RuleSetInv, NEW l \in Lookups
               PROVE  /\ Matches(l.packet, l.incoming, l.remote)
                           => \E r \in added : Covers(r, l.packet, l.incoming, l.remote)
                      /\ (\E r \in added : /\ Covers(r, l.packet, l.incoming, l.remote)
                                           /\ ~Unsettled(r, l.packet))
                           => Matches(l.packet, l.incoming, l.remote)
    BY DEF TreeAgreesWithRules
  <2>1. Matches(l.packet, l.incoming, l.remote)
           <=> \E r \in added : Reaches(r, l.packet, l.incoming, l.remote)
    BY DEF RuleSetInv, TreeReaches
  <2>2. \A r \in added : r \in Rules /\ ~InvalidPortRange(r)
    BY DEF RuleSetInv, TreeOK
  <2> QED BY <2>1, <2>2, ReachesWhatItCovers
<1> QED BY <1>1, RuleSetInductive, PTL

-----------------------------------------------------------------------------
\* Warnings are kept: what check_sanity found is still there when the rules are built.
WarningsKept ==
    /\ added \subseteq Rules
    /\ \A r \in added : (Sanity(r) \cup IcmpPortIgnored(r)) \X {r} \subseteq warnings

\* A new builder has no warnings, and add_rule only pushes to them.
LEMMA WarningsInductive == Spec => []WarningsKept
<1>1. Init => WarningsKept
  BY DEF Init, WarningsKept
<1>2. WarningsKept /\ [Next]_vars => WarningsKept'
  <2> SUFFICES ASSUME WarningsKept, [Next]_vars PROVE WarningsKept'
    OBVIOUS
  <2>1. ASSUME NEW r \in Rules, AddRule(r) PROVE WarningsKept'
    <3>1. /\ added' = added \cup {r}
          /\ warnings' = warnings \cup ((Sanity(r) \cup IcmpPortIgnored(r)) \X {r})
      BY <2>1 DEF AddRule
    <3> QED BY <3>1 DEF WarningsKept
  <2>2. CASE UNCHANGED vars
    BY <2>2 DEF vars, WarningsKept
  <2> QED BY <2>1, <2>2 DEF Next, Refuse
<1> QED BY <1>1, <1>2, PTL DEF Spec

\* groups.len() > 1 when two of them differ.
LEMMA TwoGroups ==
    ASSUME NEW r \in Rules, NEW x \in GroupSet(r), NEW y \in GroupSet(r), x # y
    PROVE  Len(r.groups) > 1
<1>1. Len(r.groups) \in Nat /\ DOMAIN r.groups = 1..Len(r.groups)
  BY RuleSetAssumption
<1>2. PICK i \in DOMAIN r.groups, j \in DOMAIN r.groups : x = r.groups[i] /\ y = r.groups[j]
  BY DEF GroupSet
<1>3. i # j
  BY <1>2
<1> QED BY <1>1, <1>2, <1>3

\* A rule that names a peer and yet is filed under "any" gets a warning.
LEMMA ShadowedIsReported ==
    ASSUME NEW r \in Rules, IsAny(r), NamesPeer(r)
    PROVE  \E w \in Sanity(r) : w # "IcmpPortIgnored"
<1>0. \A h1, h2 \in r.host : h1 = h2
  BY RuleSetAssumption
<1>1. CASE "any" \in GroupSet(r) /\ r.cidr # {}
  BY <1>1 DEF Sanity, When
<1>2. CASE "any" \in r.host /\ r.cidr # {}
  BY <1>2 DEF Sanity, When
<1>3. CASE "any" \in r.host /\ GroupSet(r) # {}
  BY <1>3 DEF Sanity, When
<1>4. CASE "any" \in r.host /\ GroupSet(r) = {} /\ r.cidr = {}
  <2>1. r.host \subseteq {"any"}
    BY <1>0, <1>4
  <2> QED BY <1>4, <2>1 DEF NamesPeer
<1>5. CASE "any" \in GroupSet(r) /\ "any" \notin r.host /\ r.cidr = {}
  <2>1. PICK x \in GroupSet(r) \cup r.host : x # "any"
    BY <1>5 DEF NamesPeer
  <2>2. CASE x \in GroupSet(r)
    <3>1. Len(r.groups) > 1
      BY <1>5, <2>1, <2>2, TwoGroups
    <3> QED BY <1>5, <3>1 DEF Sanity, When
  <2>3. CASE x \in r.host
    <3>1. r.host \notin {{}, {"any"}}
      BY <2>1, <2>3
    <3> QED BY <1>5, <3>1 DEF Sanity, When
  <2> QED BY <2>1, <2>2, <2>3
<1>6. "any" \in GroupSet(r) \/ "any" \in r.host
  BY DEF IsAny, NamesPeer
<1> QED BY <1>1, <1>2, <1>3, <1>4, <1>5, <1>6

\* A rule whose peers or ports are not looked at is one of those add_rule warns of:
\* for every list of rules, as long as there are lookups to tell (no network is
\* every address), no criterion is dropped in silence.
THEOREM RuleSetIgnoredIsReported ==
    ASSUME LookupsTellApart
    PROVE  Spec => []IgnoredIsReported
<1>1. WarningsKept => IgnoredIsReported
  <2> SUFFICES ASSUME WarningsKept, NEW r \in added
               PROVE  /\ NamesPeer(r) /\ (\A l \in Lookups : PeerCovers(r, l.packet, l.remote))
                           => \E w \in warnings : w[1] # "IcmpPortIgnored" /\ w[2] = r
                      /\ NamesPort(r) /\ (\A l \in Lookups : PortCovers(r, l.packet, l.incoming))
                           => <<"IcmpPortIgnored", r>> \in warnings
    BY DEF IgnoredIsReported
  <2>1. r \in Rules /\ (Sanity(r) \cup IcmpPortIgnored(r)) \X {r} \subseteq warnings
    BY DEF WarningsKept
  <2>2. ASSUME NamesPeer(r), \A l \in Lookups : PeerCovers(r, l.packet, l.remote)
        PROVE  \E w \in warnings : w[1] # "IcmpPortIgnored" /\ w[2] = r
    <3>1. IsAny(r)
      BY <2>1, <2>2 DEF LookupsTellApart, PeerCovers, IsAny
    <3>2. PICK w \in Sanity(r) : w # "IcmpPortIgnored"
      BY <2>1, <2>2, <3>1, ShadowedIsReported
    <3>3. <<w, r>> \in warnings
      BY <2>1, <3>2
    <3> QED BY <3>2, <3>3
  <2>3. ASSUME NamesPort(r), \A l \in Lookups : PortCovers(r, l.packet, l.incoming)
        PROVE  <<"IcmpPortIgnored", r>> \in warnings
    <3>1. PICK l \in Lookups : /\ ~l.packet.fragment /\ ~IsIcmp(l.packet.protocol)
                               /\ LookupPort(l.packet, l.incoming) = 0
      BY DEF LookupsTellApart
    <3>2. PortCovers(r, l.packet, l.incoming) /\ r.port.spec # "Any"
      BY <2>3 DEF NamesPort
    <3>3. /\ (IF l.incoming THEN l.packet.local_port ELSE l.packet.remote_port) = 0
      BY <3>1 DEF LookupPort, PORT_FRAGMENT
    <3>4. 0 \notin PortBounds(r.port).start .. PortBounds(r.port).end
      BY <2>3 DEF NamesPort
    <3>5. IsIcmp(r.proto)
      <4> SUFFICES ASSUME ~IsIcmp(r.proto) PROVE FALSE
        OBVIOUS
      <4>1. r.port.spec \in {"Fragment", "Single", "Range"}
        BY <2>1, <3>2, RuleSetAssumption
      <4>2. CASE r.port.spec = "Fragment"
        BY <3>1, <3>2, <4>2 DEF PortCovers
      <4>3. CASE r.port.spec = "Single"
        <5>1. r.port.p \in Nat /\ 0 \notin r.port.p .. r.port.p
          BY <2>1, <3>4, <4>3, RuleSetAssumption DEF Ports, PortBounds
        <5>2. r.port.p = 0 \/ (r.port.p <= 0 /\ 0 <= r.port.p)
          BY <3>1, <3>2, <3>3, <4>3 DEF PortCovers
        <5> QED BY <5>1, <5>2
      <4>4. CASE r.port.spec = "Range"
        <5>1. /\ r.port.start \in Nat /\ r.port.end \in Nat
              /\ 0 \notin r.port.start .. r.port.end
          BY <2>1, <3>4, <4>4, RuleSetAssumption DEF Ports, PortBounds
        <5>2. r.port.start = 0 \/ (r.port.start <= 0 /\ 0 <= r.port.end)
          BY <3>1, <3>2, <3>3, <4>4 DEF PortCovers
        <5> QED BY <5>1, <5>2
      <4> QED BY <4>1, <4>2, <4>3, <4>4
    <3>6. "IcmpPortIgnored" \in IcmpPortIgnored(r)
      BY <3>2, <3>5 DEF IcmpPortIgnored, When
    <3> QED BY <2>1, <3>6
  <2> QED BY <2>2, <2>3
<1> QED BY <1>1, WarningsInductive, PTL
=============================================================================
