------------------------- MODULE TopologyGraphProofs -------------------------
(***************************************************************************)
(* Proofs about TopologyGraph for every set of evidence, absorbed in any   *)
(* order with merges anywhere.  Only one arm of absorb binds addresses and *)
(* only two give names, so the argument has three parts: `Sound` is what   *)
(* every operation keeps of nodes and edges, `Bound` relates owners and    *)
(* disputes to the claims absorbed so far, and `NamesInDomain` relates     *)
(* names to the domains they came from.                                    *)
(*                                                                         *)
(* The kind a device is reported with: what is said of a device is noted   *)
(* under the name it was said of, or under the name that one leads to      *)
(* (Home).  As long as no address changes hands a name leads to one        *)
(* station or to itself, merges only move notes from a name to where it    *)
(* leads, and nothing else changes a kind, a boundary or a signal          *)
(* (Unmarked).  So what finalize_roles weighs for a device is exactly the  *)
(* evidence about it, whatever its order was.                              *)
(***************************************************************************)
EXTENDS TopologyGraph, TLAPS

GraphFields ==
    {"nodes", "edges", "address_owner", "address_binding", "contested_addresses",
     "vlans_without_prefix", "egress_path", "role_weights"}

NodeFields ==
    {"kind", "addresses", "reachable", "hostnames", "vendor", "opaque_reason", "provenance",
     "contested_addresses", "superseded_addresses"}

\* A disputed address is still there, or somebody is named who took it.
KeptOrTaken(n) ==
    \A a \in n.contested_addresses :
        a \in n.addresses \/ \E taken \in n.superseded_addresses : taken[1] = a

NodeTyped(n, R) ==
    /\ DOMAIN n = NodeFields
    /\ n.kind \in NodeKinds
    /\ n.addresses \subseteq Addresses
    /\ n.reachable \subseteq n.addresses
    /\ n.contested_addresses \subseteq Addresses
    /\ KeptOrTaken(n)
    /\ n.provenance \subseteq R
    /\ n.vendor \in n.provenance \cup {Nobody}
    /\ n.opaque_reason \in n.provenance \cup {Nobody}

NodesTyped(g, R) == \A id \in DOMAIN g.nodes : NodeTyped(g.nodes[id], R)

\* Edges end at nodes, and start at nodes unless the code links what it does not create.
EdgesJoin(g) ==
    \A e \in g.edges :
        /\ e[2] \in DOMAIN g.nodes
        /\ e[3] \notin {"Advertises", "ForwardsToward"} => e[1] \in DOMAIN g.nodes

Weighed(g) == DOMAIN g.role_weights \subseteq Devices(g)

Sound(g, R) == DOMAIN g = GraphFields /\ NodesTyped(g, R) /\ EdgesJoin(g) /\ Weighed(g)

\* Stations stay, with their disputes and with the vendor established here.
Stays(g, h) ==
    \A key : IsMac(key) /\ Device(key) \in DOMAIN g.nodes =>
        /\ Device(key) \in DOMAIN h.nodes
        /\ g.nodes[Device(key)].contested_addresses \subseteq h.nodes[Device(key)].contested_addresses
        /\ g.nodes[Device(key)].vendor = Local => h.nodes[Device(key)].vendor = Local

SameBindings(g, h) ==
    /\ h.address_owner = g.address_owner
    /\ h.address_binding = g.address_binding
    /\ h.contested_addresses = g.contested_addresses

\* No node has a name it did not have.
NoNewNames(g, h) ==
    \A id \in DOMAIN h.nodes : \A name \in h.nodes[id].hostnames :
        id \in DOMAIN g.nodes /\ name \in g.nodes[id].hostnames

\* What an operation does that binds no address, and one that gives no name either.
Keeps(g, h, R) == Sound(h, R) /\ Stays(g, h) /\ SameBindings(g, h)
Quiet(g, h, R) == Keeps(g, h, R) /\ NoNewNames(g, h)

------------------------------------------------------------------------------
(* Updates of one field.                                                    *)

\* What replacing the nodes of a graph leaves alone.
LEMMA SetNodes ==
    ASSUME NEW g, DOMAIN g = GraphFields, NEW x
    PROVE  LET h == [g EXCEPT !.nodes = x]
           IN  /\ DOMAIN h = GraphFields /\ h.nodes = x
               /\ h.edges = g.edges /\ h.role_weights = g.role_weights
               /\ SameBindings(g, h)
BY Zenon DEF GraphFields, SameBindings

\* What replacing the edges leaves alone.
LEMMA SetEdges ==
    ASSUME NEW g, DOMAIN g = GraphFields, NEW x
    PROVE  LET h == [g EXCEPT !.edges = x]
           IN  /\ DOMAIN h = GraphFields /\ h.edges = x
               /\ h.nodes = g.nodes /\ h.role_weights = g.role_weights
               /\ SameBindings(g, h)
BY Zenon DEF GraphFields, SameBindings

\* What replacing the role signals leaves alone.
LEMMA SetWeights ==
    ASSUME NEW g, DOMAIN g = GraphFields, NEW x
    PROVE  LET h == [g EXCEPT !.role_weights = x]
           IN  /\ DOMAIN h = GraphFields /\ h.role_weights = x
               /\ h.nodes = g.nodes /\ h.edges = g.edges
               /\ SameBindings(g, h)
BY Zenon DEF GraphFields, SameBindings

\* The other two collections matter to no one here.
LEMMA SetOthers ==
    ASSUME NEW g, NEW R, Sound(g, R), NEW x
    PROVE  /\ Quiet(g, [g EXCEPT !.vlans_without_prefix = x], R)
           /\ [g EXCEPT !.vlans_without_prefix = x].nodes = g.nodes
           /\ Quiet(g, [g EXCEPT !.egress_path = x], R)
           /\ [g EXCEPT !.egress_path = x].nodes = g.nodes
<1>1. ASSUME NEW h, h = [g EXCEPT !.vlans_without_prefix = x] \/ h = [g EXCEPT !.egress_path = x]
      PROVE  Quiet(g, h, R) /\ h.nodes = g.nodes
  <2>1. /\ DOMAIN h = GraphFields /\ h.nodes = g.nodes /\ h.edges = g.edges
        /\ h.role_weights = g.role_weights
        /\ SameBindings(g, h)
    BY <1>1, Zenon DEF Sound, GraphFields, SameBindings
  <2> QED
    BY <2>1, Zenon DEF Quiet, Keeps, Sound, Stays, NodesTyped, EdgesJoin, Weighed, Devices, NoNewNames
<1> QED BY <1>1, Zenon

------------------------------------------------------------------------------
\* Steps of one operation compose.
LEMMA KeepsComposes ==
    ASSUME NEW g, NEW h, NEW k, NEW R, Keeps(g, h, R), Keeps(h, k, R)
    PROVE  Keeps(g, k, R)
<1>1. Stays(g, k)
  BY Zenon DEF Keeps, Stays
<1>2. SameBindings(g, k)
  BY Zenon DEF Keeps, SameBindings
<1> QED BY <1>1, <1>2, Zenon DEF Keeps

\* Quiet steps compose.
LEMMA QuietComposes ==
    ASSUME NEW g, NEW h, NEW k, NEW R, Quiet(g, h, R), Quiet(h, k, R)
    PROVE  Quiet(g, k, R)
<1>1. Keeps(g, k, R)
  BY KeepsComposes, Zenon DEF Quiet
<1>2. NoNewNames(g, k)
  BY Zenon DEF Quiet, NoNewNames
<1> QED BY <1>1, <1>2, Zenon DEF Quiet

\* Doing nothing is quiet.
LEMMA QuietItself ==
    ASSUME NEW g, NEW R, Sound(g, R)
    PROVE  Quiet(g, g, R)
BY Zenon DEF Quiet, Keeps, Stays, SameBindings, NoNewNames

\* A graph whose nodes and nothing else changed, by which nodes it has then.
LEMMA NewNodes ==
    ASSUME NEW g, NEW R, Sound(g, R), NEW nodes,
           DOMAIN g.nodes \subseteq DOMAIN nodes,
           \A id \in DOMAIN nodes : NodeTyped(nodes[id], R),
           \A id \in DOMAIN g.nodes :
              /\ g.nodes[id].contested_addresses \subseteq nodes[id].contested_addresses
              /\ g.nodes[id].vendor = Local => nodes[id].vendor = Local
    PROVE  Keeps(g, [g EXCEPT !.nodes = nodes], R)
<1> DEFINE h == [g EXCEPT !.nodes = nodes]
<1>1. /\ DOMAIN h = GraphFields /\ h.nodes = nodes
      /\ h.edges = g.edges /\ h.role_weights = g.role_weights
      /\ SameBindings(g, h)
  BY SetNodes, Zenon DEF Sound
<1> HIDE DEF h
<1>2. Stays(g, h)
  BY <1>1, Zenon DEF Stays
<1>3. NodesTyped(h, R)
  BY <1>1, Zenon DEF NodesTyped
<1>4. EdgesJoin(h)
  BY <1>1, Zenon DEF Sound, EdgesJoin
<1>5. Weighed(h)
  BY <1>1, Zenon DEF Sound, Weighed, Devices
<1> QED BY <1>1, <1>2, <1>3, <1>4, <1>5, Zenon DEF Keeps, Sound, h

------------------------------------------------------------------------------
(* The operations on one node and on one edge.                              *)

\* What `upsert` does to its node.
LEMMA UpsertedNode ==
    ASSUME NEW n, NEW R, NodeTyped(n, R), NEW realm \in R
    PROVE  LET m == [n EXCEPT !.provenance = @ \cup {realm}]
           IN  /\ NodeTyped(m, R)
               /\ realm \in m.provenance
               /\ m.contested_addresses = n.contested_addresses
               /\ m.vendor = n.vendor
               /\ m.hostnames = n.hostnames
<1> DEFINE m == [n EXCEPT !.provenance = @ \cup {realm}]
<1>1. /\ DOMAIN m = NodeFields
      /\ m.kind = n.kind /\ m.addresses = n.addresses /\ m.reachable = n.reachable
      /\ m.vendor = n.vendor /\ m.opaque_reason = n.opaque_reason /\ m.hostnames = n.hostnames
      /\ m.contested_addresses = n.contested_addresses
      /\ m.superseded_addresses = n.superseded_addresses
      /\ m.provenance = n.provenance \cup {realm}
  BY Zenon DEF NodeTyped, NodeFields
<1> HIDE DEF m
<1>2. NodeTyped(m, R)
  BY <1>1, Zenon DEF NodeTyped, KeptOrTaken
<1> QED BY <1>1, <1>2, Zenon DEF m

\* A node that is mentioned for the first time.
LEMMA NewNodeTyped ==
    ASSUME NEW kind \in NodeKinds, NEW R
    PROVE  NodeTyped(NewNode(kind), R) /\ NewNode(kind).hostnames = {}
BY Zenon DEF NewNode, NodeTyped, NodeFields, KeptOrTaken

\* Mentioning a node gives it no name and leaves it in the graph.
LEMMA Upserts ==
    ASSUME NEW g, NEW R, Sound(g, R), NEW id, NEW kind \in NodeKinds, NEW realm \in R
    PROVE  LET h == upsert(g, id, kind, realm)
           IN  /\ Quiet(g, h, R)
               /\ DOMAIN h.nodes = DOMAIN g.nodes \cup {id}
               /\ realm \in h.nodes[id].provenance
<1> DEFINE node == IF id \in DOMAIN g.nodes THEN g.nodes[id] ELSE NewNode(kind)
           m == [node EXCEPT !.provenance = @ \cup {realm}]
           nodes == With(g.nodes, id, m)
           h == [g EXCEPT !.nodes = nodes]
<1>1. upsert(g, id, kind, realm) = h
  BY Zenon DEF upsert
<1>2. NodeTyped(node, R)
  BY NewNodeTyped, Zenon DEF Sound, NodesTyped
<1>3. /\ NodeTyped(m, R)
      /\ realm \in m.provenance
      /\ m.contested_addresses = node.contested_addresses
      /\ m.vendor = node.vendor
      /\ m.hostnames = node.hostnames
  <2> HIDE DEF node
  <2> QED BY <1>2, UpsertedNode, ZenonT(40)
<1>4. /\ id \in DOMAIN g.nodes => node = g.nodes[id]
      /\ id \notin DOMAIN g.nodes => node.hostnames = {}
  BY NewNodeTyped, Zenon
<1> HIDE DEF node, m
<1>5. /\ DOMAIN nodes = DOMAIN g.nodes \cup {id}
      /\ nodes[id] = m
      /\ \A x \in DOMAIN g.nodes : x # id => nodes[x] = g.nodes[x]
  BY Zenon DEF With
<1> HIDE DEF nodes
<1>6. \A x \in DOMAIN nodes : NodeTyped(nodes[x], R)
  BY <1>3, <1>5, Zenon DEF Sound, NodesTyped
<1>7. \A x \in DOMAIN g.nodes :
         /\ g.nodes[x].contested_addresses \subseteq nodes[x].contested_addresses
         /\ g.nodes[x].vendor = Local => nodes[x].vendor = Local
  BY <1>3, <1>4, <1>5, Zenon
<1>8. Keeps(g, h, R) /\ h.nodes = nodes
  BY <1>5, <1>6, <1>7, NewNodes, SetNodes, ZenonT(40) DEF Sound
<1> HIDE DEF h
<1>9. ASSUME NEW x \in DOMAIN nodes, NEW name \in nodes[x].hostnames
      PROVE  x \in DOMAIN g.nodes /\ name \in g.nodes[x].hostnames
  <2>1. CASE x = id
    BY <1>3, <1>4, <1>5, <1>9, <2>1, Zenon
  <2>2. CASE x # id
    BY <1>5, <1>9, <2>2, Zenon
  <2> QED BY <2>1, <2>2, Zenon
<1>10. NoNewNames(g, h)
  BY <1>8, <1>9, Zenon DEF NoNewNames
<1> QED BY <1>1, <1>3, <1>5, <1>8, <1>10, Zenon DEF Quiet

\* Replacing a node by one that is well formed and gives nothing up.
LEMMA Replaces ==
    ASSUME NEW g, NEW R, Sound(g, R), NEW id \in DOMAIN g.nodes, NEW m, NodeTyped(m, R),
           g.nodes[id].contested_addresses \subseteq m.contested_addresses,
           g.nodes[id].vendor = Local => m.vendor = Local
    PROVE  LET h == [g EXCEPT !.nodes[id] = m]
           IN  /\ Keeps(g, h, R)
               /\ DOMAIN h.nodes = DOMAIN g.nodes
               /\ h.nodes[id] = m
               /\ \A x \in DOMAIN g.nodes : x # id => h.nodes[x] = g.nodes[x]
               /\ m.hostnames = g.nodes[id].hostnames => Quiet(g, h, R)
<1> DEFINE nodes == [g.nodes EXCEPT ![id] = m]
           h == [g EXCEPT !.nodes = nodes]
<1>1. [g EXCEPT !.nodes[id] = m] = h
  BY Zenon
<1>2. /\ DOMAIN nodes = DOMAIN g.nodes
      /\ nodes[id] = m
      /\ \A x \in DOMAIN g.nodes : x # id => nodes[x] = g.nodes[x]
  BY Zenon
<1> HIDE DEF nodes
<1>3. \A x \in DOMAIN nodes : NodeTyped(nodes[x], R)
  BY <1>2, Zenon DEF Sound, NodesTyped
<1>4. \A x \in DOMAIN g.nodes :
         /\ g.nodes[x].contested_addresses \subseteq nodes[x].contested_addresses
         /\ g.nodes[x].vendor = Local => nodes[x].vendor = Local
  BY <1>2, Zenon
<1>5. Keeps(g, h, R) /\ h.nodes = nodes
  BY <1>2, <1>3, <1>4, NewNodes, SetNodes, ZenonT(80) DEF Sound
<1> HIDE DEF h
<1>6. m.hostnames = g.nodes[id].hostnames => NoNewNames(g, h)
  BY <1>2, <1>5, Zenon DEF NoNewNames
<1> QED BY <1>1, <1>2, <1>5, <1>6, Zenon DEF Quiet

\* An edge to a node that exists, from one that exists or of a kind that may dangle.
LEMMA Links ==
    ASSUME NEW g, NEW R, Sound(g, R), NEW from, NEW to, NEW relationship,
           to \in DOMAIN g.nodes,
           relationship \notin {"Advertises", "ForwardsToward"} => from \in DOMAIN g.nodes
    PROVE  /\ Quiet(g, link(g, from, to, relationship), R)
           /\ link(g, from, to, relationship).nodes = g.nodes
<1> DEFINE edges == g.edges \cup {<<from, to, relationship>>}
           h == [g EXCEPT !.edges = edges]
<1>1. link(g, from, to, relationship) = h
  BY Zenon DEF link
<1>2. /\ DOMAIN h = GraphFields /\ h.edges = edges /\ h.nodes = g.nodes
      /\ h.role_weights = g.role_weights /\ SameBindings(g, h)
  BY SetEdges, Zenon DEF Sound
<1> HIDE DEF h
<1>3. EdgesJoin(h)
  BY <1>2 DEF Sound, EdgesJoin
<1> HIDE DEF edges
<1>4. Stays(g, h) /\ NodesTyped(h, R) /\ Weighed(h) /\ NoNewNames(g, h)
  BY <1>2, Zenon DEF Sound, Stays, NodesTyped, Weighed, Devices, NoNewNames
<1> QED BY <1>1, <1>2, <1>3, <1>4, Zenon DEF Quiet, Keeps, Sound
------------------------------------------------------------------------------
(* The arms that bind no address and give no name.                          *)

\* A network that is a part of the topology becomes a node.
LEMMA UpsertsNetwork ==
    ASSUME NEW g, NEW R, Sound(g, R), NEW prefix, NEW realm \in R
    PROVE  /\ Quiet(g, upsert_network(g, prefix, realm), R)
           /\ DOMAIN g.nodes \subseteq DOMAIN upsert_network(g, prefix, realm).nodes
           /\ prefix \notin NotTopology =>
                Network(prefix, realm) \in DOMAIN upsert_network(g, prefix, realm).nodes
<1>1. CASE prefix \in NotTopology
  BY <1>1, QuietItself, Zenon DEF upsert_network
<1>2. CASE prefix \notin NotTopology
  <2>1. upsert_network(g, prefix, realm) = upsert(g, Network(prefix, realm), "Network", realm)
    BY <1>2, Zenon DEF upsert_network
  <2>2. "Network" \in NodeKinds
    BY Zenon DEF NodeKinds
  <2> QED BY <1>2, <2>1, <2>2, Upserts
<1> QED BY <1>1, <1>2, Zenon

\* Two nodes are mentioned, and then linked.
LEMMA UpsertsTwoAndLinks ==
    ASSUME NEW g, NEW R, Sound(g, R), NEW id1, NEW kind1 \in NodeKinds,
           NEW id2, NEW kind2 \in NodeKinds, NEW realm \in R, NEW relationship
    PROVE  LET both == upsert(upsert(g, id1, kind1, realm), id2, kind2, realm)
           IN  /\ Quiet(g, both, R)
               /\ id1 \in DOMAIN both.nodes /\ id2 \in DOMAIN both.nodes
               /\ Quiet(g, link(both, id1, id2, relationship), R)
<1> DEFINE one == upsert(g, id1, kind1, realm)
           both == upsert(one, id2, kind2, realm)
<1>1. Quiet(g, one, R) /\ id1 \in DOMAIN one.nodes
  BY Upserts
<1>2. Sound(one, R)
  BY <1>1, Zenon DEF Quiet, Keeps
<1> HIDE DEF one
<1>3. Quiet(one, both, R) /\ DOMAIN both.nodes = DOMAIN one.nodes \cup {id2}
  BY <1>2, Upserts
<1> HIDE DEF both
<1>4. Quiet(g, both, R) /\ id1 \in DOMAIN both.nodes /\ id2 \in DOMAIN both.nodes
  BY <1>1, <1>3, QuietComposes, Zenon
<1>5. Sound(both, R)
  BY <1>3, Zenon DEF Quiet, Keeps
<1>6. Quiet(both, link(both, id1, id2, relationship), R)
  BY <1>4, <1>5, Links, Zenon
<1>7. Quiet(g, link(both, id1, id2, relationship), R)
  BY <1>4, <1>6, QuietComposes, Zenon
<1> QED BY <1>4, <1>7, Zenon DEF both, one

\* InterfaceNetwork.
LEMMA InterfaceNetworkQuiet ==
    ASSUME NEW g, NEW R, Sound(g, R), NEW ev, ev.origin \in R
    PROVE  Quiet(g, AbsorbInterfaceNetwork(g, ev), R)
<1> DEFINE id == Interface(ev.interface, ev.origin)
           net == upsert_network(g, ev.network, ev.origin)
           both == upsert(net, id, "Interface", ev.origin)
           to == Network(ev.network, ev.origin)
<1>1. CASE ev.network \in NotTopology
  BY <1>1, QuietItself, Zenon DEF AbsorbInterfaceNetwork
<1>2. CASE ev.network \notin NotTopology
  <2>1. AbsorbInterfaceNetwork(g, ev) = link(both, id, to, "AttachedTo")
    BY <1>2, Zenon DEF AbsorbInterfaceNetwork
  <2> HIDE DEF id, to
  <2>2. Quiet(g, net, R) /\ to \in DOMAIN net.nodes
    BY <1>2, UpsertsNetwork, Zenon DEF to
  <2> HIDE DEF net
  <2>3. Sound(net, R)
    BY <2>2, Zenon DEF Quiet, Keeps
  <2>4. "Interface" \in NodeKinds
    BY Zenon DEF NodeKinds
  <2>5. Quiet(net, both, R) /\ to \in DOMAIN both.nodes /\ id \in DOMAIN both.nodes
    BY <2>2, <2>3, <2>4, Upserts
  <2> HIDE DEF both
  <2>6. Quiet(both, link(both, id, to, "AttachedTo"), R)
    BY <2>5, Links, Zenon DEF Quiet, Keeps
  <2> QED BY <2>1, <2>2, <2>5, <2>6, QuietComposes, Zenon
<1> QED BY <1>1, <1>2, Zenon

\* Vlan and VlanNetwork.
LEMMA VlansQuiet ==
    ASSUME NEW g, NEW R, Sound(g, R), NEW ev, ev.origin \in R
    PROVE  Quiet(g, AbsorbVlan(g, ev), R) /\ Quiet(g, AbsorbVlanNetwork(g, ev), R)
<1> DEFINE vlan == Vlan(ev.vlan, ev.origin)
           network == Network(ev.network, ev.origin)
           one == upsert(g, vlan, "Vlan", ev.origin)
           both == upsert(upsert(g, vlan, "Vlan", ev.origin), network, "Network", ev.origin)
           linked == link(both, vlan, network, "CarriesNetwork")
<1>1. "Vlan" \in NodeKinds /\ "Network" \in NodeKinds
  BY Zenon DEF NodeKinds
<1>2. Quiet(g, AbsorbVlan(g, ev), R)
  <2>1. Quiet(g, one, R)
    BY <1>1, Upserts, Zenon
  <2>2. AbsorbVlan(g, ev) = [one EXCEPT !.vlans_without_prefix = one.vlans_without_prefix \cup {vlan}]
    BY Zenon DEF AbsorbVlan
  <2>3. Sound(one, R)
    BY <2>1, Zenon DEF Quiet, Keeps
  <2> HIDE DEF one
  <2>4. Quiet(one, AbsorbVlan(g, ev), R)
    BY <2>2, <2>3, SetOthers, Zenon
  <2> QED BY <2>1, <2>4, QuietComposes, Zenon
<1>3. Quiet(g, AbsorbVlanNetwork(g, ev), R)
  <2>1. Quiet(g, linked, R)
    BY <1>1, UpsertsTwoAndLinks, Zenon
  <2>2. AbsorbVlanNetwork(g, ev) =
          [linked EXCEPT !.vlans_without_prefix = linked.vlans_without_prefix \ {vlan}]
    BY Zenon DEF AbsorbVlanNetwork
  <2>3. Sound(linked, R)
    BY <2>1, Zenon DEF Quiet, Keeps
  <2> HIDE DEF linked
  <2>4. Quiet(linked, AbsorbVlanNetwork(g, ev), R)
    BY <2>2, <2>3, SetOthers, Zenon
  <2> QED BY <2>1, <2>4, QuietComposes, Zenon
<1> QED BY <1>2, <1>3, Zenon

\* BridgeLink and ObservedBehind.
LEMMA TwoDevicesQuiet ==
    ASSUME NEW g, NEW R, Sound(g, R), NEW ev, ev.origin \in R
    PROVE  Quiet(g, AbsorbBridgeLink(g, ev), R) /\ Quiet(g, AbsorbObservedBehind(g, ev), R)
<1>1. "Switch" \in NodeKinds /\ "Host" \in NodeKinds
  BY Zenon DEF NodeKinds
<1>2. Quiet(g, g, R)
  BY QuietItself, Zenon
<1> QED BY <1>1, <1>2, UpsertsTwoAndLinks, Zenon DEF AbsorbBridgeLink, AbsorbObservedBehind

\* DeviceDescription and DeviceCapability.
LEMMA MentionQuiet ==
    ASSUME NEW g, NEW R, Sound(g, R), NEW ev, ev.origin \in R
    PROVE  Quiet(g, AbsorbMention(g, ev), R)
<1>1. "Host" \in NodeKinds
  BY Zenon DEF NodeKinds
<1> QED BY <1>1, Upserts, Zenon DEF AbsorbMention

\* Service: its node, and an edge from whoever owns the address.
LEMMA ServiceQuiet ==
    ASSUME NEW g, NEW R, Sound(g, R), NEW ev, ev.origin \in R
    PROVE  Quiet(g, AbsorbService(g, ev), R)
<1> DEFINE id == Service(ev.address, ev.port, ev.origin)
           h == upsert(g, id, "Service", ev.origin)
           slot == Slot(ev.address, ev.vantage, ev.origin)
           from == Device(h.address_owner[slot])
<1>1. AbsorbService(g, ev) = IF slot \in DOMAIN h.address_owner THEN link(h, from, id, "Advertises") ELSE h
  BY Zenon DEF AbsorbService
<1>2. Quiet(g, h, R) /\ id \in DOMAIN h.nodes
  <2>1. "Service" \in NodeKinds
    BY Zenon DEF NodeKinds
  <2> HIDE DEF id
  <2> QED BY <2>1, Upserts, SMTT(30)
<1> HIDE DEF h, from, id
<1>3. Quiet(h, link(h, from, id, "Advertises"), R)
  BY <1>2, Links, Zenon DEF Quiet, Keeps
<1> QED BY <1>1, <1>2, <1>3, QuietComposes, Zenon

\* ForwardsToward: the hop, its place on the path, and an edge from the hop before.
LEMMA ForwardsQuiet ==
    ASSUME NEW g, NEW R, Sound(g, R), NEW ev, ev.origin \in R
    PROVE  Quiet(g, AbsorbForwardsToward(g, ev), R)
<1> DEFINE id == Device(Canonical(g, ev.device, ev.origin))
           one == upsert(g, id, "Host", ev.origin)
           h == [one EXCEPT !.egress_path = With(one.egress_path, ev.distance, id)]
           from == Device(Canonical(h, ev.previous, ev.origin))
<1>1. AbsorbForwardsToward(g, ev) =
        IF ev.previous = Nobody \/ from = id THEN h ELSE link(h, from, id, "ForwardsToward")
  BY Zenon DEF AbsorbForwardsToward
<1>2. Quiet(g, one, R) /\ id \in DOMAIN one.nodes
  <2>1. "Host" \in NodeKinds
    BY Zenon DEF NodeKinds
  <2> HIDE DEF id
  <2> QED BY <2>1, Upserts, SMTT(30)
<1> HIDE DEF one, id
<1>3. Quiet(one, h, R) /\ h.nodes = one.nodes
  BY <1>2, SetOthers, Zenon DEF Quiet, Keeps
<1>4. Quiet(g, h, R)
  BY <1>2, <1>3, QuietComposes, Zenon
<1> HIDE DEF h, from
<1>5. Quiet(h, link(h, from, id, "ForwardsToward"), R)
  BY <1>2, <1>3, <1>4, Links, Zenon DEF Quiet, Keeps
<1> QED BY <1>1, <1>4, <1>5, QuietComposes, Zenon

\* GatewayFor, RoutesTo and AttachedTo.
LEMMA RelationQuiet ==
    ASSUME NEW g, NEW R, Sound(g, R), NEW ev, ev.origin \in R
    PROVE  Quiet(g, AbsorbRelation(g, ev), R)
<1> DEFINE id == Device(Canonical(g, ev.device, ev.origin))
           one == upsert(g, id, "Host", ev.origin)
           g1 == upsert_network(one, ev.network, ev.origin)
           to == Network(ev.network, ev.origin)
           g2 == link(g1, id, to, ev.kind)
           hop == Key(ev.next_hop, NoZone, Local)
           g3 == upsert(g2, Device(canonical_key(g2, hop, ev.next_hop, ev.origin)), "Host", ev.origin)
<1>1. AbsorbRelation(g, ev) =
        IF ev.network \in NotTopology THEN g1
        ELSE IF ev.kind = "RoutesTo" /\ ev.next_hop # Nobody THEN g3 ELSE g2
  BY Zenon DEF AbsorbRelation
<1>2. "Host" \in NodeKinds
  BY Zenon DEF NodeKinds
<1>3. Quiet(g, one, R) /\ id \in DOMAIN one.nodes
  BY <1>2, Upserts
<1> HIDE DEF one, id
<1>4. /\ Quiet(one, g1, R) /\ id \in DOMAIN g1.nodes
      /\ ev.network \notin NotTopology => to \in DOMAIN g1.nodes
  BY <1>3, UpsertsNetwork, Zenon DEF Quiet, Keeps
<1>5. Quiet(g, g1, R)
  BY <1>3, <1>4, QuietComposes, Zenon
<1> HIDE DEF g1, to
<1>6. ASSUME ev.network \notin NotTopology PROVE Quiet(g, g2, R)
  <2>1. Quiet(g1, g2, R)
    BY <1>4, <1>5, <1>6, Links, Zenon DEF Quiet, Keeps
  <2> QED BY <1>5, <2>1, QuietComposes, Zenon
<1> HIDE DEF g2
<1>7. ASSUME ev.network \notin NotTopology PROVE Quiet(g, g3, R)
  <2>1. Quiet(g2, g3, R)
    BY <1>2, <1>6, <1>7, Upserts, Zenon DEF Quiet, Keeps
  <2> QED BY <1>6, <1>7, <2>1, QuietComposes, Zenon
<1> QED BY <1>1, <1>5, <1>6, <1>7, Zenon

\* DeviceRoleSignal: the device is in the graph when a signal is noted for it.
LEMMA RoleSignalQuiet ==
    ASSUME NEW g, NEW R, Sound(g, R), NEW ev, ev.origin \in R
    PROVE  Quiet(g, AbsorbRoleSignal(g, ev), R)
<1> DEFINE id == Device(Canonical(g, ev.device, ev.origin))
           one == upsert(g, id, "Host", ev.origin)
           known == IF id \in DOMAIN one.role_weights THEN one.role_weights[id] ELSE {}
           weights == With(one.role_weights, id, known \cup {ev.signal})
           h == [one EXCEPT !.role_weights = weights]
<1>1. AbsorbRoleSignal(g, ev) = h
  BY Zenon DEF AbsorbRoleSignal
<1>2. "Host" \in NodeKinds
  BY Zenon DEF NodeKinds
<1>3. Quiet(g, one, R) /\ id \in DOMAIN one.nodes
  BY <1>2, Upserts
<1>4. id[1] = "device"
  BY Zenon DEF Device
<1> HIDE DEF one, id, known
<1>5. DOMAIN weights = DOMAIN one.role_weights \cup {id}
  BY Zenon DEF With
<1> HIDE DEF weights
<1>6. /\ DOMAIN h = GraphFields /\ h.nodes = one.nodes /\ h.edges = one.edges
      /\ h.role_weights = weights /\ SameBindings(one, h)
  BY <1>3, SetWeights, Zenon DEF Quiet, Keeps, Sound
<1> HIDE DEF h
<1>7. Weighed(h)
  BY <1>3, <1>4, <1>5, <1>6, Zenon DEF Weighed, Devices, Quiet, Keeps, Sound
<1>8. Quiet(one, h, R)
  BY <1>3, <1>6, <1>7, Zenon DEF Quiet, Keeps, Sound, Stays, NodesTyped, EdgesJoin, NoNewNames
<1> QED BY <1>1, <1>3, <1>8, QuietComposes, Zenon
------------------------------------------------------------------------------
(* Statements: vendor and opaque boundary.                                  *)

\* A statement leaves a node well formed and no vendor established here replaced.
LEMMA StatedNode ==
    ASSUME NEW n, NEW R, NodeTyped(n, R), NEW origin \in n.provenance,
           NEW field \in {"vendor", "opaque_reason"}
    PROVE  LET m == Stated(n, field, origin)
           IN  /\ NodeTyped(m, R)
               /\ m.contested_addresses = n.contested_addresses
               /\ m.hostnames = n.hostnames
               /\ n.vendor = Local => m.vendor = Local
               /\ field = "vendor" /\ origin = Local => m.vendor = Local
<1> DEFINE m == Stated(n, field, origin)
           s == [n EXCEPT ![field] = origin]
<1>1. CASE origin # Local /\ n[field] # Nobody /\ Local \in n.provenance
  <2>1. m = n
    BY <1>1, Zenon DEF Stated, locally_observed
  <2> QED BY <1>1, <2>1, Zenon
<1>2. CASE ~(origin # Local /\ n[field] # Nobody /\ Local \in n.provenance)
  <2>1. m = s
    BY <1>2, Zenon DEF Stated, locally_observed
  <2>2. /\ DOMAIN s = NodeFields /\ s[field] = origin
        /\ s.kind = n.kind /\ s.addresses = n.addresses /\ s.reachable = n.reachable
        /\ s.hostnames = n.hostnames /\ s.provenance = n.provenance
        /\ s.contested_addresses = n.contested_addresses
        /\ s.superseded_addresses = n.superseded_addresses
    BY Zenon DEF NodeTyped, NodeFields
  <2>3. /\ field = "vendor" => s.vendor = origin /\ s.opaque_reason = n.opaque_reason
        /\ field = "opaque_reason" => s.vendor = n.vendor /\ s.opaque_reason = origin
    BY <2>2, Zenon DEF NodeTyped, NodeFields
  <2>4. n.vendor = Local => Local \in n.provenance /\ n.vendor # Nobody
    BY GraphAssumption, Zenon DEF NodeTyped
  <2>5. n.vendor = Local => s.vendor = Local
    BY <1>2, <2>3, <2>4, Zenon
  <2> HIDE DEF s
  <2>6. NodeTyped(s, R)
    BY <2>2, <2>3, Zenon DEF NodeTyped, KeptOrTaken
  <2> QED BY <2>1, <2>2, <2>3, <2>5, <2>6, Zenon
<1> QED BY <1>1, <1>2, Zenon

\* DeviceVendor and OpaqueBoundary; a vendor stated here is the device's from then on.
LEMMA StatementQuiet ==
    ASSUME NEW g, NEW R, Sound(g, R), NEW ev, ev.origin \in R,
           NEW field \in {"vendor", "opaque_reason"}
    PROVE  /\ Quiet(g, AbsorbStatement(g, ev, field), R)
           /\ field = "vendor" /\ ev.origin = Local =>
                LET id == Device(Canonical(g, ev.device, ev.origin))
                IN  /\ id \in DOMAIN AbsorbStatement(g, ev, field).nodes
                    /\ AbsorbStatement(g, ev, field).nodes[id].vendor = Local
<1> DEFINE id == Device(Canonical(g, ev.device, ev.origin))
           one == upsert(g, id, "Host", ev.origin)
           m == Stated(one.nodes[id], field, ev.origin)
           h == [one EXCEPT !.nodes[id] = m]
<1>1. AbsorbStatement(g, ev, field) = h
  BY Zenon DEF AbsorbStatement
<1>2. "Host" \in NodeKinds
  BY Zenon DEF NodeKinds
<1>3. Quiet(g, one, R) /\ id \in DOMAIN one.nodes /\ ev.origin \in one.nodes[id].provenance
  BY <1>2, Upserts
<1>4. Sound(one, R)
  BY <1>3, Zenon DEF Quiet, Keeps
<1> HIDE DEF one, id
<1>5. NodeTyped(one.nodes[id], R)
  BY <1>3, <1>4, Zenon DEF Sound, NodesTyped
<1>6. /\ NodeTyped(m, R)
      /\ m.contested_addresses = one.nodes[id].contested_addresses
      /\ m.hostnames = one.nodes[id].hostnames
      /\ one.nodes[id].vendor = Local => m.vendor = Local
      /\ field = "vendor" /\ ev.origin = Local => m.vendor = Local
  BY <1>3, <1>5, StatedNode, Zenon
<1> HIDE DEF m
<1>7. Quiet(one, h, R) /\ DOMAIN h.nodes = DOMAIN one.nodes /\ h.nodes[id] = m
  BY <1>3, <1>4, <1>6, Replaces
<1> HIDE DEF h
<1>8. Quiet(g, h, R)
  BY <1>3, <1>7, QuietComposes, Zenon
<1> QED BY <1>1, <1>3, <1>6, <1>7, <1>8, Zenon DEF id

------------------------------------------------------------------------------
(* Names.                                                                   *)

\* What a domain says of the addresses of a device that it knows by an address.
PollsOf(realm, S) ==
    {e \in S : e.kind = "DeviceAddress" /\ e.origin = realm /\ ~IsMac(e.device)}

\* One address leads to another, and a host known by a public one has it.
Leads(from, to, realm, S) ==
    \A A \in SUBSET Addresses :
        from \in A /\ (\A e \in PollsOf(realm, S) : e.device.of \in A => e.address \in A) => to \in A

Shown(address, realm, S) ==
    \A A \in SUBSET Addresses :
        (\A e \in PollsOf(realm, S) : e.device.of \in GloballyUnique \cup A => e.address \in A)
            => address \in A

\* A device that what is said in a domain about an address may be about.
InDomain(key, about, realm, S) ==
    \/ /\ key.realm = realm /\ key.of \notin GloballyUnique
       /\ IsMac(key) \/ Leads(key.of, about, realm, S)
    \/ IsMac(key) /\ key.of \in GloballyUnique
    \/ Shown(about, realm, S)

OwnersInDomain(g, S) ==
    \A slot \in DOMAIN g.address_owner :
        slot[1] \notin GloballyUnique => InDomain(g.address_owner[slot], slot[1], slot[3], S)

NamesInDomain(g, S) ==
    \A id \in DOMAIN g.nodes : id[1] = "device" =>
        \A name \in g.nodes[id].hostnames :
            name[1] \notin GloballyUnique => InDomain(id[2], name[1], name[2], S)

\* How addresses lead to one another.
LEMMA Leading ==
    ASSUME NEW realm, NEW S
    PROVE  /\ \A a : Leads(a, a, realm, S)
           /\ \A a, b : Shown(a, realm, S) /\ Leads(a, b, realm, S) => Shown(b, realm, S)
           /\ \A e \in PollsOf(realm, S) :
                 /\ \A a : Leads(a, e.device.of, realm, S) => Leads(a, e.address, realm, S)
                 /\ Shown(e.device.of, realm, S) => Shown(e.address, realm, S)
                 /\ e.device.of \in GloballyUnique => Shown(e.address, realm, S)
<1>1. \A a : Leads(a, a, realm, S)
  BY Zenon DEF Leads
<1>2. ASSUME NEW a, NEW b, Shown(a, realm, S), Leads(a, b, realm, S)
      PROVE  Shown(b, realm, S)
  <2> SUFFICES ASSUME NEW A \in SUBSET Addresses,
                      \A e \in PollsOf(realm, S) : e.device.of \in GloballyUnique \cup A => e.address \in A
               PROVE  b \in A
    BY Zenon DEF Shown
  <2>1. a \in A
    BY <1>2, Zenon DEF Shown
  <2>2. \A e \in PollsOf(realm, S) : e.device.of \in A => e.address \in A
    BY Zenon
  <2> QED BY <1>2, <2>1, <2>2, Zenon DEF Leads
<1>3. ASSUME NEW e \in PollsOf(realm, S), NEW a, Leads(a, e.device.of, realm, S)
      PROVE  Leads(a, e.address, realm, S)
  BY <1>3, Zenon DEF Leads
<1>4. ASSUME NEW e \in PollsOf(realm, S), e.device.of \in GloballyUnique \/ Shown(e.device.of, realm, S)
      PROVE  Shown(e.address, realm, S)
  BY <1>4, Zenon DEF Shown
<1> QED BY <1>1, <1>2, <1>3, <1>4, Zenon

\* A device as a provider may name it, once it is qualified with its domain.
Qualifies(key, realm) ==
    /\ key.of \in Macs \cup Addresses
    /\ key.of \notin GloballyUnique => key.realm = realm

\* Resolving a private name leads to a device of the domain it is said in.
LEMMA CanonicalInDomain ==
    ASSUME NEW g, NEW S, OwnersInDomain(g, S), NEW key, NEW realm, Qualifies(key, realm),
           key.of \notin GloballyUnique
    PROVE  InDomain(Canonical(g, key, realm), key.of, realm, S)
<1> DEFINE slot == <<key.of, key.zone, RealmOf(key.of, realm)>>
<1>1. RealmOf(key.of, realm) = realm
  BY Zenon DEF RealmOf
<1>2. slot[1] = key.of /\ slot[3] = realm
  BY <1>1, Zenon
<1>3. \/ Canonical(g, key, realm) = key
      \/ /\ slot \in DOMAIN g.address_owner
         /\ Canonical(g, key, realm) = g.address_owner[slot]
  BY Zenon DEF Canonical, canonical_key, owner_in_realm
<1>4. InDomain(key, key.of, realm, S)
  BY Leading, Zenon DEF InDomain, Qualifies
<1> HIDE DEF slot
<1> QED BY <1>2, <1>3, <1>4, Zenon DEF OwnersInDomain

\* A name is added to a node that is there.
LEMMA AddsName ==
    ASSUME NEW g, NEW R, Sound(g, R), NEW S, NamesInDomain(g, S),
           NEW id \in DOMAIN g.nodes, NEW key, id = Device(key), NEW name,
           name[1] \notin GloballyUnique => InDomain(key, name[1], name[2], S)
    PROVE  LET h == [g EXCEPT !.nodes[id].hostnames = @ \cup {name}]
           IN  Keeps(g, h, R) /\ NamesInDomain(h, S)
<1> DEFINE n == g.nodes[id]
           m == [n EXCEPT !.hostnames = n.hostnames \cup {name}]
           h == [g EXCEPT !.nodes[id] = m]
<1>1. [g EXCEPT !.nodes[id].hostnames = @ \cup {name}] = h
  BY Zenon
<1>2. NodeTyped(n, R)
  BY Zenon DEF Sound, NodesTyped
<1>3. /\ DOMAIN m = NodeFields
      /\ m.kind = n.kind /\ m.addresses = n.addresses /\ m.reachable = n.reachable
      /\ m.vendor = n.vendor /\ m.opaque_reason = n.opaque_reason
      /\ m.hostnames = n.hostnames \cup {name}
      /\ m.contested_addresses = n.contested_addresses
      /\ m.superseded_addresses = n.superseded_addresses
      /\ m.provenance = n.provenance
  <2> HIDE DEF n
  <2> QED BY <1>2, Zenon DEF NodeTyped, NodeFields
<1> HIDE DEF m
<1>4. NodeTyped(m, R)
  <2> HIDE DEF n
  <2> QED BY <1>2, <1>3, Zenon DEF NodeTyped, KeptOrTaken
<1>5. /\ Keeps(g, h, R)
      /\ DOMAIN h.nodes = DOMAIN g.nodes
      /\ h.nodes[id] = m
      /\ \A x \in DOMAIN g.nodes : x # id => h.nodes[x] = g.nodes[x]
  BY <1>3, <1>4, Replaces
<1> HIDE DEF h
<1>6. ASSUME NEW x \in DOMAIN g.nodes, x[1] = "device", NEW y \in h.nodes[x].hostnames,
             y[1] \notin GloballyUnique
      PROVE  InDomain(x[2], y[1], y[2], S)
  <2>1. CASE x # id \/ y # name
    <3>1. y \in g.nodes[x].hostnames
      BY <1>3, <1>5, <1>6, <2>1, Zenon
    <3> QED BY <1>6, <3>1, Zenon DEF NamesInDomain
  <2>2. CASE x = id /\ y = name
    <3>1. x[2] = key
      BY <2>2, Zenon DEF Device
    <3> QED BY <1>6, <2>2, <3>1, Zenon
  <2> QED BY <2>1, <2>2, Zenon
<1>7. NamesInDomain(h, S)
  BY <1>5, <1>6, Zenon DEF NamesInDomain
<1> QED BY <1>1, <1>5, <1>7, Zenon

\* An operation that gives no name keeps those there are in their domains.
LEMMA QuietNames ==
    ASSUME NEW g, NEW h, NoNewNames(g, h), NEW S, NamesInDomain(g, S)
    PROVE  NamesInDomain(h, S)
BY Zenon DEF NoNewNames, NamesInDomain

\* DeviceHostname.
LEMMA HostnameKeeps ==
    ASSUME NEW g, NEW R, Sound(g, R), NEW ev, ev.origin \in R,
           NEW S, OwnersInDomain(g, S), NamesInDomain(g, S),
           Qualifies(ev.device, ev.origin), ev.about = ev.device.of
    PROVE  Keeps(g, AbsorbHostname(g, ev), R) /\ NamesInDomain(AbsorbHostname(g, ev), S)
<1> DEFINE key == Canonical(g, ev.device, ev.origin)
           id == Device(key)
           one == upsert(g, id, "Host", ev.origin)
           name == <<ev.about, ev.origin>>
           h == [one EXCEPT !.nodes[id].hostnames = @ \cup {name}]
<1>1. AbsorbHostname(g, ev) = h
  BY Zenon DEF AbsorbHostname
<1>2. "Host" \in NodeKinds
  BY Zenon DEF NodeKinds
<1>3. Quiet(g, one, R) /\ id \in DOMAIN one.nodes
  BY <1>2, Upserts
<1>4. Sound(one, R) /\ NamesInDomain(one, S)
  BY <1>3, QuietNames, Zenon DEF Quiet, Keeps
<1>5. name[1] \notin GloballyUnique => InDomain(key, name[1], name[2], S)
  <2>1. name[1] = ev.device.of /\ name[2] = ev.origin
    BY Zenon
  <2> HIDE DEF key, name
  <2> QED BY <2>1, CanonicalInDomain, Zenon DEF key
<1> HIDE DEF one, key, name
<1>6. Keeps(one, h, R) /\ NamesInDomain(h, S)
  BY <1>3, <1>4, <1>5, AddsName, Zenon
<1> QED BY <1>1, <1>3, <1>6, KeepsComposes, Zenon DEF Quiet

\* ResolvedAs: the name is the owner's, if there is one.
LEMMA ResolvedAsKeeps ==
    ASSUME NEW g, NEW R, Sound(g, R), NEW ev, ev.origin \in R,
           NEW S, OwnersInDomain(g, S), NamesInDomain(g, S)
    PROVE  Keeps(g, AbsorbResolvedAs(g, ev), R) /\ NamesInDomain(AbsorbResolvedAs(g, ev), S)
<1> DEFINE slot == Slot(ev.address, ev.vantage, ev.origin)
           key == g.address_owner[slot]
           id == Device(key)
           one == upsert(g, id, "Host", ev.origin)
           name == <<ev.address, ev.origin>>
           h == [one EXCEPT !.nodes[id].hostnames = @ \cup {name}]
<1>1. CASE slot \notin DOMAIN g.address_owner
  <2>1. AbsorbResolvedAs(g, ev) = g
    BY <1>1, Zenon DEF AbsorbResolvedAs
  <2> QED BY <2>1, QuietItself, Zenon DEF Quiet
<1>2. CASE slot \in DOMAIN g.address_owner
  <2>1. AbsorbResolvedAs(g, ev) = h
    BY <1>2, Zenon DEF AbsorbResolvedAs
  <2>2. "Host" \in NodeKinds
    BY Zenon DEF NodeKinds
  <2>3. Quiet(g, one, R) /\ id \in DOMAIN one.nodes
    BY <2>2, Upserts
  <2>4. Sound(one, R) /\ NamesInDomain(one, S)
    BY <2>3, QuietNames, Zenon DEF Quiet, Keeps
  <2>5. name[1] \notin GloballyUnique => InDomain(key, name[1], name[2], S)
    <3>1. name[1] = ev.address /\ name[2] = ev.origin
      BY Zenon
    <3>2. /\ slot[1] = ev.address
          /\ ev.address \notin GloballyUnique => slot[3] = ev.origin
      BY Zenon DEF Slot, RealmOf
    <3> HIDE DEF name, slot
    <3> QED BY <1>2, <3>1, <3>2, Zenon DEF OwnersInDomain
  <2> HIDE DEF one, key, name
  <2>6. Keeps(one, h, R) /\ NamesInDomain(h, S)
    BY <2>3, <2>4, <2>5, AddsName, Zenon
  <2> QED BY <2>1, <2>3, <2>6, KeepsComposes, Zenon DEF Quiet
<1> QED BY <1>1, <1>2, Zenon
------------------------------------------------------------------------------
(* Claims of an address.                                                    *)

\* What a claim does to a node besides its addresses: nothing.
LEMMA HeldNode ==
    ASSUME NEW n, NEW R, NodeTyped(n, R), NEW address \in Addresses, NEW realm
    PROVE  LET m == Hold(n, address, realm)
           IN  /\ NodeTyped(m, R)
               /\ m.contested_addresses = n.contested_addresses
               /\ m.vendor = n.vendor /\ m.hostnames = n.hostnames
               /\ address \in m.addresses
<1> DEFINE m == Hold(n, address, realm)
<1>1. /\ DOMAIN m = NodeFields
      /\ m.kind = n.kind /\ m.addresses = n.addresses \cup {address}
      /\ m.reachable = IF realm = Local THEN n.reachable \cup {address} ELSE n.reachable
      /\ m.vendor = n.vendor /\ m.opaque_reason = n.opaque_reason
      /\ m.hostnames = n.hostnames
      /\ m.contested_addresses = n.contested_addresses
      /\ m.superseded_addresses = n.superseded_addresses
      /\ m.provenance = n.provenance
  BY Zenon DEF NodeTyped, NodeFields, Hold
<1> HIDE DEF m
<1>2. NodeTyped(m, R)
  BY <1>1, Zenon DEF NodeTyped, KeptOrTaken
<1> QED BY <1>1, <1>2, Zenon DEF m

\* Who lost an address names who took it.
LEMMA SupersededNode ==
    ASSUME NEW n, NEW R, NodeTyped(n, R), NEW address, NEW holder
    PROVE  LET m == supersede_address(n, address, holder)
           IN  /\ NodeTyped(m, R)
               /\ m.contested_addresses = n.contested_addresses
               /\ m.vendor = n.vendor /\ m.hostnames = n.hostnames
<1> DEFINE m == supersede_address(n, address, holder)
<1>1. /\ DOMAIN m = NodeFields
      /\ m.kind = n.kind /\ m.addresses = n.addresses \ {address}
      /\ m.reachable = n.reachable \ {address}
      /\ m.vendor = n.vendor /\ m.opaque_reason = n.opaque_reason
      /\ m.hostnames = n.hostnames
      /\ m.contested_addresses = n.contested_addresses
      /\ m.superseded_addresses = n.superseded_addresses \cup {<<address, holder>>}
      /\ m.provenance = n.provenance
  BY Zenon DEF NodeTyped, NodeFields, supersede_address
<1> HIDE DEF m
<1>2. KeptOrTaken(m)
  <2> SUFFICES ASSUME NEW a \in m.contested_addresses
               PROVE  a \in m.addresses \/ \E taken \in m.superseded_addresses : taken[1] = a
    BY Zenon DEF KeptOrTaken
  <2>1. a \in n.addresses \/ \E taken \in n.superseded_addresses : taken[1] = a
    BY <1>1, Zenon DEF NodeTyped, KeptOrTaken
  <2>2. CASE a = address
    <3>1. <<address, holder>> \in m.superseded_addresses /\ <<address, holder>>[1] = a
      BY <1>1, <2>2, Zenon
    <3> QED BY <3>1, Zenon
  <2>3. CASE a # address
    BY <1>1, <2>1, <2>3, Zenon
  <2> QED BY <2>2, <2>3, Zenon
<1>3. NodeTyped(m, R)
  BY <1>1, <1>2, Zenon DEF NodeTyped
<1> QED BY <1>1, <1>3, Zenon DEF m

\* Who is in a dispute holds the address and says so.
LEMMA DisputedNode ==
    ASSUME NEW n, NEW R, NodeTyped(n, R), NEW address \in Addresses, NEW realm
    PROVE  LET m == Dispute(n, address, realm)
           IN  /\ NodeTyped(m, R)
               /\ m.contested_addresses = n.contested_addresses \cup {address}
               /\ m.vendor = n.vendor /\ m.hostnames = n.hostnames
<1> DEFINE o == Hold(n, address, realm)
           m == [o EXCEPT !.contested_addresses = o.contested_addresses \cup {address}]
<1>1. /\ NodeTyped(o, R)
      /\ o.contested_addresses = n.contested_addresses
      /\ o.vendor = n.vendor /\ o.hostnames = n.hostnames
      /\ address \in o.addresses
  BY HeldNode, Zenon
<1>2. Dispute(n, address, realm) = m
  BY Zenon DEF Dispute
<1> HIDE DEF o
<1>3. /\ DOMAIN m = NodeFields
      /\ m.kind = o.kind /\ m.addresses = o.addresses /\ m.reachable = o.reachable
      /\ m.vendor = o.vendor /\ m.opaque_reason = o.opaque_reason
      /\ m.hostnames = o.hostnames
      /\ m.contested_addresses = o.contested_addresses \cup {address}
      /\ m.superseded_addresses = o.superseded_addresses
      /\ m.provenance = o.provenance
  BY <1>1, Zenon DEF NodeTyped, NodeFields
<1> HIDE DEF m
<1>4. NodeTyped(m, R)
  BY <1>1, <1>3 DEF NodeTyped, KeptOrTaken
<1> QED BY <1>1, <1>2, <1>3, <1>4, Zenon

\* Replacing a node that may not be there.
LEMMA Updates ==
    ASSUME NEW g, NEW R, Sound(g, R), NEW id, NEW m,
           id \in DOMAIN g.nodes =>
              /\ NodeTyped(m, R)
              /\ g.nodes[id].contested_addresses \subseteq m.contested_addresses
              /\ m.vendor = g.nodes[id].vendor /\ m.hostnames = g.nodes[id].hostnames
    PROVE  LET h == Update(g, id, m)
           IN  /\ Quiet(g, h, R)
               /\ DOMAIN h.nodes = DOMAIN g.nodes
               /\ id \in DOMAIN g.nodes => h.nodes[id] = m
               /\ \A x \in DOMAIN g.nodes : x # id => h.nodes[x] = g.nodes[x]
<1>1. CASE id \in DOMAIN g.nodes
  <2>1. Update(g, id, m) = [g EXCEPT !.nodes[id] = m]
    BY <1>1, Zenon DEF Update
  <2> QED BY <1>1, <2>1, Replaces
<1>2. CASE id \notin DOMAIN g.nodes
  <2>1. Update(g, id, m) = g
    BY <1>2, Zenon DEF Update
  <2> QED BY <1>2, <2>1, QuietItself, Zenon
<1> QED BY <1>1, <1>2, Zenon

\* `h` is `g` with the node `id` in dispute over an address.
InDispute(g, h, id, address, realm) ==
    h = Update(g, id, Dispute(g.nodes[id], address, realm))

\* What that leaves, and what it adds.
DisputeShown(g, h, id, address, R) ==
    /\ Quiet(g, h, R)
    /\ DOMAIN h.nodes = DOMAIN g.nodes
    /\ id \in DOMAIN g.nodes => address \in h.nodes[id].contested_addresses

\* Whoever is in the graph is marked as disputing an address of the graph.
LEMMA Disputes ==
    ASSUME NEW g, NEW R, Sound(g, R), NEW id, NEW address \in Addresses, NEW realm, NEW h,
           InDispute(g, h, id, address, realm)
    PROVE  DisputeShown(g, h, id, address, R)
<1> DEFINE m == Dispute(g.nodes[id], address, realm)
<1>0. h = Update(g, id, m)
  BY Zenon DEF InDispute
<1>1. ASSUME id \in DOMAIN g.nodes
      PROVE  /\ NodeTyped(m, R)
             /\ m.contested_addresses = g.nodes[id].contested_addresses \cup {address}
             /\ m.vendor = g.nodes[id].vendor /\ m.hostnames = g.nodes[id].hostnames
  <2>1. NodeTyped(g.nodes[id], R)
    BY <1>1, Zenon DEF Sound, NodesTyped
  <2> QED BY <2>1, DisputedNode
<1> HIDE DEF m
<1>2. id \in DOMAIN g.nodes =>
         /\ NodeTyped(m, R)
         /\ g.nodes[id].contested_addresses \subseteq m.contested_addresses
         /\ m.vendor = g.nodes[id].vendor /\ m.hostnames = g.nodes[id].hostnames
         /\ address \in m.contested_addresses
  BY <1>1, Zenon
<1>3. /\ Quiet(g, Update(g, id, m), R)
      /\ DOMAIN Update(g, id, m).nodes = DOMAIN g.nodes
      /\ id \in DOMAIN g.nodes => Update(g, id, m).nodes[id] = m
  BY <1>2, Updates
<1> QED BY <1>0, <1>2, <1>3, Zenon DEF DisputeShown

\* Everything but who holds what is as before.
SameReport(g, h) == h.nodes = g.nodes /\ h.edges = g.edges /\ h.role_weights = g.role_weights

\* What an operation keeps that binds addresses.
Binds(g, h, R) == Sound(h, R) /\ Stays(g, h) /\ NoNewNames(g, h)

\* Changing the bindings of a graph changes nothing that is reported.
LEMMA SetBindings ==
    ASSUME NEW g, NEW R, Sound(g, R), NEW h, DOMAIN h = GraphFields, SameReport(g, h)
    PROVE  Binds(g, h, R)
BY Zenon DEF SameReport, Binds, Sound, Stays, NodesTyped, EdgesJoin, Weighed, Devices, NoNewNames

\* Operations that bind compose with those that do not.
LEMMA BindsComposes ==
    ASSUME NEW g, NEW h, NEW k, NEW R, Binds(g, h, R), Binds(h, k, R)
    PROVE  Binds(g, k, R)
<1>1. Stays(g, k)
  BY Zenon DEF Binds, Stays
<1>2. NoNewNames(g, k)
  BY Zenon DEF Binds, NoNewNames
<1> QED BY <1>1, <1>2, Zenon DEF Binds

\* A quiet operation is one that binds, with the same bindings.
LEMMA QuietBinds ==
    ASSUME NEW g, NEW h, NEW R
    PROVE  Quiet(g, h, R) <=> Binds(g, h, R) /\ SameBindings(g, h)
BY Zenon DEF Quiet, Keeps, Binds
------------------------------------------------------------------------------
(* DeviceAddress: what it does to the owners, and that the rest is kept.     *)

\* The slot is bound to `key`, `key` joins a dispute about it,
\* or it becomes a dispute between `key` and the holder.
Rebound(g, h, slot, key, source) ==
    /\ h.address_owner = With(g.address_owner, slot, key)
    /\ h.address_binding = With(g.address_binding, slot, source)
    /\ h.contested_addresses = g.contested_addresses

JoinedBy(g, h, slot, key) ==
    /\ h.address_owner = g.address_owner
    /\ h.address_binding = g.address_binding
    /\ h.contested_addresses =
         [g.contested_addresses EXCEPT ![slot] = g.contested_addresses[slot] \cup {key}]
    /\ slot[1] \in h.nodes[Device(key)].contested_addresses

Opened(g, h, slot, key) ==
    LET previous == g.address_owner[slot]
    IN  /\ h.address_owner = Without(g.address_owner, slot)
        /\ h.address_binding = Without(g.address_binding, slot)
        /\ h.contested_addresses = With(g.contested_addresses, slot, {previous, key})
        /\ slot[1] \in h.nodes[Device(key)].contested_addresses
        /\ Device(previous) \in DOMAIN g.nodes =>
              slot[1] \in h.nodes[Device(previous)].contested_addresses

\* The bindings a claim of `key` leaves, by what AddressClaim says of it.
Claimed(g, h, slot, key, source) ==
    LET claim == AddressClaim(g, slot, key, source)
    IN  IF slot \in DOMAIN g.contested_addresses THEN JoinedBy(g, h, slot, key)
        ELSE IF claim \in {"Uncontested", "Refines", "Supersedes"}
          THEN Rebound(g, h, slot, key, source)
        ELSE IF claim = "Contested" THEN Opened(g, h, slot, key)
        ELSE SameBindings(g, h)

\* A claim is decided by the bindings alone.
LEMMA ClaimByBindings ==
    ASSUME NEW g, NEW h, SameBindings(g, h), NEW slot, NEW key, NEW source
    PROVE  AddressClaim(h, slot, key, source) = AddressClaim(g, slot, key, source)
BY Zenon DEF SameBindings, AddressClaim

\* There are six of them.
LEMMA ClaimKinds ==
    ASSUME NEW g, NEW slot, NEW key, NEW source
    PROVE  AddressClaim(g, slot, key, source) \in
             {"Uncontested", "Refines", "Refined", "Supersedes", "Contested", "Superseded"}
BY Zenon DEF AddressClaim

\* The disputes can be replaced alone.
LEMMA SetContested ==
    ASSUME NEW g, DOMAIN g = GraphFields, NEW x, NEW h, h = [g EXCEPT !.contested_addresses = x]
    PROVE  /\ DOMAIN h = GraphFields
           /\ SameReport(g, h)
           /\ h.address_owner = g.address_owner /\ h.address_binding = g.address_binding
           /\ h.contested_addresses = x
BY Zenon DEF GraphFields, SameReport

\* Stations and claims after a DeviceAddress.
LEMMA DeviceAddressBinds ==
    ASSUME NEW g0, NEW R, Sound(g0, R), NEW ev, ev.origin \in R, ev.address \in Addresses
    PROVE  LET key == canonical_key(g0, ev.device, ev.address, ev.origin)
               slot == Slot(ev.address, ev.vantage, ev.origin)
               h == AbsorbDeviceAddress(g0, ev)
           IN  /\ Binds(g0, h, R)
               /\ Device(key) \in DOMAIN h.nodes
               /\ Claimed(g0, h, slot, key, ev.source)
<1> DEFINE key == canonical_key(g0, ev.device, ev.address, ev.origin)
           id == Device(key)
           g == upsert(g0, id, "Host", ev.origin)
           slot == Slot(ev.address, ev.vantage, ev.origin)
           claim == AddressClaim(g, slot, key, ev.source)
           previous == g.address_owner[slot]
           held == Update(g, id, Hold(g.nodes[id], ev.address, ev.origin))
           owned == [held EXCEPT !.address_owner = With(held.address_owner, slot, key),
                                 !.address_binding = With(held.address_binding, slot, ev.source)]
           marked == Update(g, id, Dispute(g.nodes[id], ev.address, ev.origin))
           first == Update(g, Device(previous),
                           Dispute(g.nodes[Device(previous)], ev.address, ev.origin))
           both == Update(first, id, Dispute(first.nodes[id], ev.address, ev.origin))
           h == AbsorbDeviceAddress(g0, ev)
<1>1. h = IF slot \in DOMAIN g.contested_addresses
            THEN [marked EXCEPT !.contested_addresses =
                    [marked.contested_addresses EXCEPT ![slot] = g.contested_addresses[slot] \cup {key}]]
          ELSE CASE claim \in {"Uncontested", "Refines"} -> owned
                 [] claim = "Supersedes" ->
                      Update(owned, Device(previous),
                             supersede_address(owned.nodes[Device(previous)], ev.address, key))
                 [] claim = "Superseded" ->
                      Update(g, id, supersede_address(g.nodes[id], ev.address, previous))
                 [] claim = "Refined" -> held
                 [] claim = "Contested" ->
                      [both EXCEPT
                          !.address_owner = Without(both.address_owner, slot),
                          !.address_binding = Without(both.address_binding, slot),
                          !.contested_addresses = With(both.contested_addresses, slot, {previous, key})]
  BY Zenon DEF AbsorbDeviceAddress, Joined
<1>2. Quiet(g0, g, R) /\ id \in DOMAIN g.nodes
  <2>1. "Host" \in NodeKinds
    BY Zenon DEF NodeKinds
  <2> QED BY <2>1, Upserts
<1>3. Sound(g, R) /\ SameBindings(g0, g) /\ Binds(g0, g, R)
  BY <1>2, QuietBinds, Zenon DEF Binds
<1>4. claim = AddressClaim(g0, slot, key, ev.source)
  <2> HIDE DEF g, slot, key
  <2> QED BY <1>3, ClaimByBindings
<1>5. slot[1] = ev.address
  BY Zenon DEF Slot
<1>6. NodeTyped(g.nodes[id], R)
  BY <1>2, <1>3, Zenon DEF Sound, NodesTyped
<1> HIDE DEF g, id, key, slot, claim, h
<1>7. Quiet(g, held, R) /\ DOMAIN held.nodes = DOMAIN g.nodes
  <2> DEFINE m == Hold(g.nodes[id], ev.address, ev.origin)
  <2>1. /\ NodeTyped(m, R)
        /\ m.contested_addresses = g.nodes[id].contested_addresses
        /\ m.vendor = g.nodes[id].vendor /\ m.hostnames = g.nodes[id].hostnames
    BY <1>6, HeldNode
  <2> HIDE DEF m
  <2>2. g.nodes[id].contested_addresses \subseteq m.contested_addresses
    BY <2>1, Zenon
  <2>3. Quiet(g, Update(g, id, m), R) /\ DOMAIN Update(g, id, m).nodes = DOMAIN g.nodes
    BY <1>3, <2>1, <2>2, Updates
  <2> QED BY <2>3, Zenon DEF m
<1> HIDE DEF held
<1>8. /\ Binds(g, owned, R) /\ Rebound(g, owned, slot, key, ev.source)
      /\ owned.nodes = held.nodes
  <2>1. Binds(g, held, R) /\ SameBindings(g, held) /\ Sound(held, R)
    BY <1>7, QuietBinds, Zenon DEF Binds
  <2> DEFINE x == With(held.address_owner, slot, key)
             y == With(held.address_binding, slot, ev.source)
  <2>a. owned = [held EXCEPT !.address_owner = x, !.address_binding = y]
    BY Zenon
  <2> HIDE DEF owned, x, y
  <2>b. /\ DOMAIN owned = GraphFields /\ SameReport(held, owned)
        /\ owned.address_owner = x /\ owned.address_binding = y
        /\ owned.contested_addresses = held.contested_addresses
    BY <2>1, <2>a, Zenon DEF Sound, GraphFields, SameReport
  <2>2. /\ DOMAIN owned = GraphFields /\ SameReport(held, owned)
        /\ owned.address_owner = With(held.address_owner, slot, key)
        /\ owned.address_binding = With(held.address_binding, slot, ev.source)
        /\ owned.contested_addresses = held.contested_addresses
    BY <2>b, Zenon DEF x, y
  <2>3. Binds(held, owned, R)
    BY <2>1, <2>2, SetBindings, Zenon
  <2> QED BY <2>1, <2>2, <2>3, BindsComposes, Zenon DEF Rebound, SameBindings, SameReport
<1> HIDE DEF owned
<1>9. CASE slot \in DOMAIN g.contested_addresses
  <2> DEFINE x == [marked.contested_addresses EXCEPT ![slot] = g.contested_addresses[slot] \cup {key}]
             k == [marked EXCEPT !.contested_addresses = x]
  <2>1. h = k
    BY <1>1, <1>9, Zenon
  <2>a. marked = Update(g, id, Dispute(g.nodes[id], ev.address, ev.origin))
    BY Zenon
  <2>b. k = [marked EXCEPT !.contested_addresses = x]
    BY Zenon
  <2> HIDE DEF marked, k, x
  <2>2. /\ Quiet(g, marked, R) /\ DOMAIN marked.nodes = DOMAIN g.nodes
        /\ ev.address \in marked.nodes[id].contested_addresses
    <3>1. InDispute(g, marked, id, ev.address, ev.origin)
      BY <2>a, Zenon DEF InDispute
    <3>2. DisputeShown(g, marked, id, ev.address, R)
      BY <1>3, <3>1, Disputes, Zenon
    <3> QED BY <1>2, <3>2, Zenon DEF DisputeShown
  <2>3. Binds(g, marked, R) /\ SameBindings(g, marked) /\ Sound(marked, R)
    BY <2>2, QuietBinds, Zenon DEF Binds
  <2>4. /\ DOMAIN k = GraphFields /\ SameReport(marked, k)
        /\ k.address_owner = marked.address_owner /\ k.address_binding = marked.address_binding
        /\ k.contested_addresses = x
    BY <2>3, <2>b, SetContested DEF Sound
  <2>5. Binds(marked, k, R)
    BY <2>3, <2>4, SetBindings, Zenon
  <2>6. Binds(g0, k, R)
    BY <1>3, <2>3, <2>5, BindsComposes, Zenon
  <2>7. /\ k.address_owner = g0.address_owner /\ k.address_binding = g0.address_binding
        /\ k.contested_addresses =
             [g0.contested_addresses EXCEPT ![slot] = g0.contested_addresses[slot] \cup {key}]
    BY <1>3, <2>3, <2>4, Zenon DEF SameBindings, x
  <2>8. id \in DOMAIN k.nodes /\ slot[1] \in k.nodes[id].contested_addresses
    BY <1>2, <1>5, <2>2, <2>4, Zenon DEF SameReport
  <2>9. JoinedBy(g0, k, slot, key)
    BY <2>7, <2>8, Zenon DEF JoinedBy, id
  <2>10. slot \in DOMAIN g0.contested_addresses
    BY <1>3, <1>9, Zenon DEF SameBindings
  <2> QED
    BY <2>1, <2>6, <2>8, <2>9, <2>10, Zenon DEF Claimed, h, id, key, slot
<1>10. CASE slot \notin DOMAIN g.contested_addresses /\ claim \in {"Uncontested", "Refines", "Supersedes"}
  <2>1. Binds(g, h, R) /\ Rebound(g, h, slot, key, ev.source) /\ id \in DOMAIN h.nodes
    <3>1. CASE claim \in {"Uncontested", "Refines"}
      <4>1. h = owned
        BY <1>1, <1>10, <3>1, Zenon
      <4> QED BY <1>2, <1>7, <1>8, <4>1, Zenon
    <3>2. CASE claim = "Supersedes"
      <4> DEFINE n == owned.nodes[Device(previous)]
                 m == supersede_address(n, ev.address, key)
                 k == Update(owned, Device(previous), m)
      <4>1. h = k
        BY <1>1, <1>10, <3>2, Zenon
      <4>2. Sound(owned, R)
        BY <1>8, Zenon DEF Binds
      <4>3. Device(previous) \in DOMAIN owned.nodes =>
               /\ NodeTyped(m, R)
               /\ m.contested_addresses = n.contested_addresses
               /\ m.vendor = n.vendor /\ m.hostnames = n.hostnames
        <5>1. Device(previous) \in DOMAIN owned.nodes => NodeTyped(n, R)
          BY <4>2, Zenon DEF Sound, NodesTyped
        <5> HIDE DEF n
        <5> QED BY <5>1, SupersededNode
      <4> HIDE DEF m
      <4>4. Quiet(owned, k, R) /\ DOMAIN k.nodes = DOMAIN owned.nodes
        BY <4>2, <4>3, Updates
      <4> HIDE DEF k
      <4>5. Binds(g, k, R) /\ SameBindings(owned, k)
        BY <1>8, <4>4, QuietBinds, BindsComposes, Zenon
      <4>6. Rebound(g, k, slot, key, ev.source)
        BY <1>8, <4>5, Zenon DEF Rebound, SameBindings
      <4> QED BY <1>2, <1>7, <1>8, <4>1, <4>4, <4>5, <4>6, Zenon
    <3> QED BY <1>10, <3>1, <3>2, Zenon
  <2>2. Binds(g0, h, R)
    BY <1>3, <2>1, BindsComposes, Zenon
  <2>3. Rebound(g0, h, slot, key, ev.source) /\ slot \notin DOMAIN g0.contested_addresses
    BY <1>3, <1>10, <2>1, Zenon DEF Rebound, SameBindings
  <2> QED
    BY <1>4, <1>10, <2>1, <2>2, <2>3, Zenon DEF Claimed, h, id, key, slot
<1>11. CASE slot \notin DOMAIN g.contested_addresses /\ claim \in {"Superseded", "Refined"}
  <2>1. Quiet(g, h, R) /\ id \in DOMAIN h.nodes
    <3>1. CASE claim = "Refined"
      <4>1. h = held
        BY <1>1, <1>11, <3>1, Zenon
      <4> QED BY <1>2, <1>7, <4>1, Zenon
    <3>2. CASE claim = "Superseded"
      <4> DEFINE m == supersede_address(g.nodes[id], ev.address, previous)
      <4>1. h = Update(g, id, m)
        BY <1>1, <1>11, <3>2, Zenon
      <4>2. /\ NodeTyped(m, R)
            /\ m.contested_addresses = g.nodes[id].contested_addresses
            /\ m.vendor = g.nodes[id].vendor /\ m.hostnames = g.nodes[id].hostnames
        BY <1>6, SupersededNode
      <4> HIDE DEF m
      <4>3. Quiet(g, Update(g, id, m), R) /\ DOMAIN Update(g, id, m).nodes = DOMAIN g.nodes
        BY <1>3, <4>2, Updates
      <4> QED BY <1>2, <4>1, <4>3, Zenon
    <3> QED BY <1>11, <3>1, <3>2, Zenon
  <2>2. Binds(g, h, R) /\ SameBindings(g, h)
    BY <2>1, QuietBinds, Zenon
  <2>3. Binds(g0, h, R)
    BY <1>3, <2>2, BindsComposes, Zenon
  <2>4. SameBindings(g0, h) /\ slot \notin DOMAIN g0.contested_addresses
    BY <1>3, <1>11, <2>2, Zenon DEF SameBindings
  <2>5. claim \notin {"Uncontested", "Refines", "Supersedes"} /\ claim # "Contested"
    BY <1>11, Zenon
  <2> QED
    BY <1>4, <2>1, <2>3, <2>4, <2>5, Zenon DEF Claimed, h, id, key, slot
<1>12. CASE slot \notin DOMAIN g.contested_addresses /\ claim = "Contested"
  <2> DEFINE k == [both EXCEPT
                    !.address_owner = Without(both.address_owner, slot),
                    !.address_binding = Without(both.address_binding, slot),
                    !.contested_addresses = With(both.contested_addresses, slot, {previous, key})]
  <2>1. h = k
    BY <1>1, <1>12, ZenonT(40)
  <2>a. first = Update(g, Device(previous),
                        Dispute(g.nodes[Device(previous)], ev.address, ev.origin))
    BY Zenon
  <2>b. both = Update(first, id, Dispute(first.nodes[id], ev.address, ev.origin))
    BY Zenon
  <2> HIDE DEF first, both
  <2>2. /\ Quiet(g, first, R) /\ DOMAIN first.nodes = DOMAIN g.nodes
        /\ Device(previous) \in DOMAIN g.nodes =>
             ev.address \in first.nodes[Device(previous)].contested_addresses
    <3>1. InDispute(g, first, Device(previous), ev.address, ev.origin)
      BY <2>a, Zenon DEF InDispute
    <3>2. DisputeShown(g, first, Device(previous), ev.address, R)
      BY <1>3, <3>1, Disputes, Zenon
    <3> QED BY <3>2, Zenon DEF DisputeShown
  <2>3. Sound(first, R)
    BY <2>2, Zenon DEF Quiet, Keeps
  <2>4. /\ Quiet(first, both, R) /\ DOMAIN both.nodes = DOMAIN first.nodes
        /\ ev.address \in both.nodes[id].contested_addresses
    <3>1. InDispute(first, both, id, ev.address, ev.origin)
      BY <2>b, Zenon DEF InDispute
    <3>2. DisputeShown(first, both, id, ev.address, R)
      BY <2>3, <3>1, Disputes, Zenon
    <3> QED BY <1>2, <2>2, <3>2, Zenon DEF DisputeShown
  <2>5. Device(previous) \in DOMAIN g.nodes =>
           ev.address \in both.nodes[Device(previous)].contested_addresses
    <3>1. CASE Device(previous) = id
      BY <2>4, <3>1, Zenon
    <3>2. CASE Device(previous) # id
      <4>1. NodeTyped(first.nodes[id], R)
        BY <1>2, <2>2, <2>3, Zenon DEF Sound, NodesTyped
      <4> DEFINE m == Dispute(first.nodes[id], ev.address, ev.origin)
      <4>2. /\ NodeTyped(m, R)
            /\ m.contested_addresses = first.nodes[id].contested_addresses \cup {ev.address}
            /\ m.vendor = first.nodes[id].vendor /\ m.hostnames = first.nodes[id].hostnames
        BY <4>1, DisputedNode
      <4>3. both = Update(first, id, m)
        BY <2>b, Zenon
      <4> HIDE DEF m
      <4>4. first.nodes[id].contested_addresses \subseteq m.contested_addresses
        BY <4>2, Zenon
      <4>5. \A x \in DOMAIN first.nodes : x # id => both.nodes[x] = first.nodes[x]
        BY <2>3, <4>2, <4>3, <4>4, Updates
      <4> QED BY <2>2, <3>2, <4>5, Zenon
    <3> QED BY <3>1, <3>2, Zenon
  <2>6. Binds(g, both, R) /\ SameBindings(g, both) /\ Sound(both, R)
    BY <2>2, <2>4, QuietComposes, QuietBinds, Zenon DEF Binds
  <2> DEFINE x == Without(both.address_owner, slot)
             y == Without(both.address_binding, slot)
             z == With(both.contested_addresses, slot, {previous, key})
  <2>c. k = [both EXCEPT !.address_owner = x, !.address_binding = y, !.contested_addresses = z]
    BY Zenon
  <2> HIDE DEF k, x, y, z
  <2>d. /\ DOMAIN k = GraphFields /\ SameReport(both, k)
        /\ k.address_owner = x /\ k.address_binding = y
        /\ k.contested_addresses = z
    BY <2>6, <2>c, Zenon DEF Sound, GraphFields, SameReport
  <2>7. /\ DOMAIN k = GraphFields /\ SameReport(both, k)
        /\ k.address_owner = Without(both.address_owner, slot)
        /\ k.address_binding = Without(both.address_binding, slot)
        /\ k.contested_addresses = With(both.contested_addresses, slot, {previous, key})
    BY <2>d, Zenon DEF x, y, z
  <2>8. Binds(both, k, R)
    BY <2>6, <2>7, SetBindings, Zenon
  <2>9. Binds(g0, k, R)
    BY <1>3, <2>6, <2>8, BindsComposes, Zenon
  <2>10. id \in DOMAIN k.nodes /\ slot[1] \in k.nodes[id].contested_addresses
    BY <1>2, <1>5, <2>2, <2>4, <2>7, Zenon DEF SameReport
  <2>11. previous = g0.address_owner[slot]
    BY <1>3, Zenon DEF SameBindings
  <2>12. Device(previous) \in DOMAIN g0.nodes =>
            slot[1] \in k.nodes[Device(previous)].contested_addresses
    <3>1. DOMAIN g.nodes = DOMAIN g0.nodes \cup {id}
      <4>1. "Host" \in NodeKinds
        BY Zenon DEF NodeKinds
      <4> QED BY <4>1, Upserts DEF g
    <3>2. Device(previous) \in DOMAIN g0.nodes => Device(previous) \in DOMAIN g.nodes
      BY <3>1, Zenon
    <3> QED BY <1>5, <2>5, <2>7, <3>2, Zenon DEF SameReport
  <2> HIDE DEF previous
  <2>13. Opened(g0, k, slot, key)
    BY <1>3, <2>6, <2>7, <2>10, <2>11, <2>12, Zenon DEF Opened, SameBindings, id
  <2>14. slot \notin DOMAIN g0.contested_addresses /\ claim \notin {"Uncontested", "Refines", "Supersedes"}
    BY <1>3, <1>12, Zenon DEF SameBindings
  <2> QED
    BY <1>4, <1>12, <2>1, <2>9, <2>10, <2>13, <2>14, ZenonT(40) DEF Claimed, h, id, key, slot
<1>13. claim \in {"Uncontested", "Refines", "Refined", "Supersedes", "Contested", "Superseded"}
  BY ClaimKinds, Zenon DEF claim
<1> QED BY <1>9, <1>10, <1>11, <1>12, <1>13, Zenon
------------------------------------------------------------------------------
(* Owners and disputes against the claims absorbed so far.                  *)

\* Stations that answered for an address, and answers that named none.
AnsweredBy(S, slot) ==
    {Claimant(ev) : ev \in {c \in S : /\ c.kind = "DeviceAddress"
                                      /\ IsMac(c.device)
                                      /\ Slot(c.address, c.vantage, c.origin) = slot
                                      /\ c.source = "probe"}}

AnonymousBy(S, slot) ==
    \E ev \in S : /\ ev.kind = "DeviceAddress" /\ ~IsMac(ev.device) /\ ev.source = "probe"
                  /\ Slot(ev.address, ev.vantage, ev.origin) = slot

\* An owner is not in dispute; one that counts as having answered did, or somebody did.
OwnersBound(g, S) ==
    \A slot \in DOMAIN g.address_owner :
        LET owner == g.address_owner[slot]
        IN  /\ slot \notin DOMAIN g.contested_addresses
            /\ IsMac(owner) => Device(owner) \in DOMAIN g.nodes
            /\ g.address_binding[slot] = "probe" =>
                  owner \in AnsweredBy(S, slot) \/ AnonymousBy(S, slot)

\* Who answered is not displaced by who is remembered.
AnswersHold(g, S) ==
    \A slot : AnsweredBy(S, slot) # {} =>
        \/ slot \in DOMAIN g.contested_addresses
        \/ slot \in DOMAIN g.address_owner /\ g.address_owner[slot] \in AnsweredBy(S, slot)

\* Two of the claimants answered, or one did and another answer named nobody.
Contends(C, S, slot) ==
    \/ \E a, b \in C \cap AnsweredBy(S, slot) : a # b
    \/ C \cap AnsweredBy(S, slot) # {} /\ AnonymousBy(S, slot)

DisputesBound(g, S) ==
    \A slot \in DOMAIN g.contested_addresses :
        LET C == g.contested_addresses[slot]
        IN  /\ Contends(C, S, slot)
            /\ \A key \in C : IsMac(key) =>
                  /\ Device(key) \in DOMAIN g.nodes
                  /\ slot[1] \in g.nodes[Device(key)].contested_addresses

Bound(g, S) ==
    /\ DOMAIN g.address_owner = DOMAIN g.address_binding
    /\ OwnersBound(g, S)
    /\ AnswersHold(g, S)
    /\ DisputesBound(g, S)

\* More evidence: more answers.
LEMMA MoreAnswers ==
    ASSUME NEW S, NEW ev, NEW slot
    PROVE  LET T == S \cup {ev}
           IN  /\ AnsweredBy(S, slot) \subseteq AnsweredBy(T, slot)
               /\ AnonymousBy(S, slot) => AnonymousBy(T, slot)
               /\ \A C : Contends(C, S, slot) => Contends(C, T, slot)
               /\ \A key \in AnsweredBy(T, slot) \ AnsweredBy(S, slot) :
                     /\ ev.kind = "DeviceAddress" /\ IsMac(ev.device) /\ ev.source = "probe"
                     /\ Slot(ev.address, ev.vantage, ev.origin) = slot
                     /\ key = Claimant(ev)
<1> DEFINE T == S \cup {ev}
<1>1. S \subseteq T /\ \A e \in T : e \in S \/ e = ev
  BY Zenon
<1> HIDE DEF T
<1>2. AnsweredBy(S, slot) \subseteq AnsweredBy(T, slot)
  BY <1>1, Zenon DEF AnsweredBy
<1>3. AnonymousBy(S, slot) => AnonymousBy(T, slot)
  BY <1>1, Zenon DEF AnonymousBy
<1>4. \A C : Contends(C, S, slot) => Contends(C, T, slot)
  BY <1>2, <1>3, Zenon DEF Contends
<1>5. \A key \in AnsweredBy(T, slot) : key \notin AnsweredBy(S, slot) =>
         /\ ev.kind = "DeviceAddress" /\ IsMac(ev.device) /\ ev.source = "probe"
         /\ Slot(ev.address, ev.vantage, ev.origin) = slot
         /\ key = Claimant(ev)
  BY <1>1, Zenon DEF AnsweredBy
<1> QED BY <1>2, <1>3, <1>4, <1>5, Zenon DEF T

\* Whoever answered is a station.
LEMMA AnsweredAreMacs ==
    ASSUME NEW S, NEW slot, NEW key \in AnsweredBy(S, slot),
           \A ev \in S : ev.kind = "DeviceAddress" => Claimant(ev).of = ev.device.of
    PROVE  IsMac(key)
BY Zenon DEF AnsweredBy, IsMac

\* What binds no address keeps the bindings true of what was absorbed.
LEMMA KeptBound ==
    ASSUME NEW g, NEW h, NEW S, SameBindings(g, h), Stays(g, h), Bound(g, S)
    PROVE  Bound(h, S)
<1>1. OwnersBound(h, S)
  BY Zenon DEF Bound, OwnersBound, SameBindings, Stays
<1>2. AnswersHold(h, S)
  BY Zenon DEF Bound, AnswersHold, SameBindings
<1>3. DisputesBound(h, S)
  <2> SUFFICES ASSUME NEW slot \in DOMAIN g.contested_addresses,
                      NEW key \in g.contested_addresses[slot], IsMac(key)
               PROVE  /\ Device(key) \in DOMAIN h.nodes
                      /\ slot[1] \in h.nodes[Device(key)].contested_addresses
    BY Zenon DEF DisputesBound, Bound, SameBindings
  <2>1. /\ Device(key) \in DOMAIN g.nodes
        /\ slot[1] \in g.nodes[Device(key)].contested_addresses
    BY Zenon DEF Bound, DisputesBound
  <2>2. /\ Device(key) \in DOMAIN h.nodes
        /\ g.nodes[Device(key)].contested_addresses \subseteq h.nodes[Device(key)].contested_addresses
    BY <2>1, Zenon DEF Stays
  <2> QED BY <2>1, <2>2, Zenon
<1> QED BY <1>1, <1>2, <1>3, Zenon DEF Bound, SameBindings

\* Evidence of another kind is no claim.
LEMMA NoClaimBound ==
    ASSUME NEW g, NEW S, Bound(g, S), NEW ev, ev.kind # "DeviceAddress"
    PROVE  Bound(g, S \cup {ev})
<1> DEFINE T == S \cup {ev}
<1>1. \A slot : /\ AnsweredBy(T, slot) = AnsweredBy(S, slot)
                /\ AnonymousBy(S, slot) => AnonymousBy(T, slot)
                /\ \A C : Contends(C, S, slot) => Contends(C, T, slot)
  <2> TAKE slot
  <2>1. /\ AnsweredBy(S, slot) \subseteq AnsweredBy(T, slot)
        /\ AnonymousBy(S, slot) => AnonymousBy(T, slot)
        /\ \A C : Contends(C, S, slot) => Contends(C, T, slot)
        /\ \A key \in AnsweredBy(T, slot) \ AnsweredBy(S, slot) : ev.kind = "DeviceAddress"
    BY MoreAnswers, Zenon
  <2> QED BY <2>1, Zenon
<1> HIDE DEF T
<1>2. OwnersBound(g, T)
  BY <1>1, Zenon DEF Bound, OwnersBound
<1>3. AnswersHold(g, T)
  BY <1>1, Zenon DEF Bound, AnswersHold
<1>4. DisputesBound(g, T)
  BY <1>1, Zenon DEF Bound, DisputesBound
<1> QED BY <1>2, <1>3, <1>4, Zenon DEF Bound, T
\* A claim under the identity `key` leaves the bindings true of what was absorbed
\* with it.
LEMMA ClaimBound ==
    ASSUME NEW g, NEW h, NEW S, NEW ev, NEW key, NEW slot,
           Bound(g, S), Stays(g, h), ev.kind = "DeviceAddress",
           slot = Slot(ev.address, ev.vantage, ev.origin),
           Device(key) \in DOMAIN h.nodes,
           Claimed(g, h, slot, key, ev.source),
           ev.source = "probe" =>
              \/ IsMac(ev.device) /\ key = Claimant(ev)
              \/ ~IsMac(ev.device) /\ (slot \in DOMAIN g.address_owner => g.address_owner[slot] = key),
           \A e \in S \cup {ev} : e.kind = "DeviceAddress" => Claimant(e).of = e.device.of
    PROVE  Bound(h, S \cup {ev})
<1> DEFINE T == S \cup {ev}
           claim == AddressClaim(g, slot, key, ev.source)
           previous == g.address_owner[slot]
<1>1. \A s : /\ AnsweredBy(S, s) \subseteq AnsweredBy(T, s)
             /\ AnonymousBy(S, s) => AnonymousBy(T, s)
             /\ \A C : Contends(C, S, s) => Contends(C, T, s)
             /\ ~(IsMac(ev.device) /\ ev.source = "probe" /\ s = slot) =>
                   AnsweredBy(T, s) = AnsweredBy(S, s)
  <2> TAKE s
  <2>1. /\ AnsweredBy(S, s) \subseteq AnsweredBy(T, s)
        /\ AnonymousBy(S, s) => AnonymousBy(T, s)
        /\ \A C : Contends(C, S, s) => Contends(C, T, s)
        /\ \A x \in AnsweredBy(T, s) \ AnsweredBy(S, s) :
              IsMac(ev.device) /\ ev.source = "probe" /\ s = slot
    BY MoreAnswers, Zenon
  <2> QED BY <2>1, ZenonT(40)
<1>2. /\ IsMac(ev.device) /\ ev.source = "probe" => Claimant(ev) \in AnsweredBy(T, slot)
      /\ ~IsMac(ev.device) /\ ev.source = "probe" => AnonymousBy(T, slot)
  BY Zenon DEF AnsweredBy, AnonymousBy
<1>3. ev.source = "probe" => key \in AnsweredBy(T, slot) \/ AnonymousBy(T, slot)
  BY <1>2, Zenon
<1>4. \A x \in AnsweredBy(T, slot) \cup AnsweredBy(S, slot) : IsMac(x)
  BY <1>1, AnsweredAreMacs, Zenon
\* When each outcome of the claim is possible.
<1>5. /\ claim = "Uncontested" <=> slot \notin DOMAIN g.address_owner \/ previous = key
      /\ claim = "Refines" => slot \in DOMAIN g.address_owner /\ ~IsMac(previous)
      /\ claim = "Supersedes" => /\ slot \in DOMAIN g.address_owner
                                 /\ ev.source = "probe" /\ g.address_binding[slot] # "probe"
      /\ claim = "Contested" => /\ slot \in DOMAIN g.address_owner
                                /\ IsMac(key) <=> IsMac(previous)
                                /\ ev.source = "probe" /\ g.address_binding[slot] = "probe"
      /\ claim \in {"Refined", "Superseded"} => ~(ev.source = "probe" /\ IsMac(key))
  <2>1. CASE slot \notin DOMAIN g.address_owner \/ previous = key
    <3>1. claim = "Uncontested"
      BY <2>1, Zenon DEF AddressClaim
    <3> QED BY <2>1, <3>1, Zenon
  <2>2. CASE slot \in DOMAIN g.address_owner /\ previous # key
    <3> HIDE DEF previous
    <3>1. claim # "Uncontested"
      BY <2>2, Zenon DEF AddressClaim, previous
    <3>2. claim = "Refines" => ~IsMac(previous)
      BY <2>2, Zenon DEF AddressClaim, previous
    <3>3. claim = "Supersedes" => ev.source = "probe" /\ g.address_binding[slot] # "probe"
      BY <2>2 DEF AddressClaim, previous, binding_freshness
    <3>4. claim = "Contested" => /\ IsMac(key) <=> IsMac(previous)
                                 /\ ev.source = "probe" /\ g.address_binding[slot] = "probe"
      BY <2>2 DEF AddressClaim, previous, binding_freshness
    <3>5. claim \in {"Refined", "Superseded"} => ~(ev.source = "probe" /\ IsMac(key))
      BY <2>2 DEF AddressClaim, previous, binding_freshness
    <3> QED BY <2>2, <3>1, <3>2, <3>3, <3>4, <3>5, Zenon
  <2> QED BY <2>1, <2>2, Zenon
<1>6. claim \in {"Uncontested", "Refines", "Refined", "Supersedes", "Contested", "Superseded"}
  BY ClaimKinds, Zenon
<1> HIDE DEF T, claim, previous
<1>7. CASE slot \in DOMAIN g.contested_addresses
  <2>1. JoinedBy(g, h, slot, key)
    BY <1>7, Zenon DEF Claimed
  <2>2. /\ h.address_owner = g.address_owner /\ h.address_binding = g.address_binding
        /\ DOMAIN h.contested_addresses = DOMAIN g.contested_addresses
        /\ h.contested_addresses[slot] = g.contested_addresses[slot] \cup {key}
        /\ \A s \in DOMAIN g.contested_addresses :
              s # slot => h.contested_addresses[s] = g.contested_addresses[s]
    BY <1>7, <2>1, Zenon DEF JoinedBy
  <2>3. OwnersBound(h, T)
    BY <1>1, <2>2, Zenon DEF Bound, OwnersBound, Stays
  <2>4. AnswersHold(h, T)
    BY <1>1, <1>7, <2>2, Zenon DEF Bound, AnswersHold
  <2>5. DisputesBound(h, T)
    <3> SUFFICES ASSUME NEW s \in DOMAIN g.contested_addresses
                 PROVE  LET C == h.contested_addresses[s]
                        IN  /\ Contends(C, T, s)
                            /\ \A k \in C : IsMac(k) =>
                                  /\ Device(k) \in DOMAIN h.nodes
                                  /\ s[1] \in h.nodes[Device(k)].contested_addresses
      BY <2>2, Zenon DEF DisputesBound
    <3> DEFINE B == g.contested_addresses[s]
               C == h.contested_addresses[s]
    <3>1. /\ Contends(B, T, s)
          /\ \A k \in B : IsMac(k) => /\ Device(k) \in DOMAIN g.nodes
                                      /\ s[1] \in g.nodes[Device(k)].contested_addresses
      BY <1>1, Zenon DEF Bound, DisputesBound
    <3>2. C = B \/ (s = slot /\ C = B \cup {key})
      BY <2>2, Zenon
    <3> HIDE DEF B, C
    <3>4. B \subseteq C /\ \A k \in C : k \in B \/ (s = slot /\ k = key)
      BY <3>2, Zenon
    <3>5. Contends(C, T, s)
      BY <3>1, <3>4, Zenon DEF Contends
    <3>6. ASSUME NEW k \in C, IsMac(k)
          PROVE  Device(k) \in DOMAIN h.nodes /\ s[1] \in h.nodes[Device(k)].contested_addresses
      <4>1. CASE k \in B
        <5>1. Device(k) \in DOMAIN g.nodes /\ s[1] \in g.nodes[Device(k)].contested_addresses
          BY <3>1, <3>6, <4>1, Zenon
        <5>2. /\ Device(k) \in DOMAIN h.nodes
              /\ g.nodes[Device(k)].contested_addresses \subseteq h.nodes[Device(k)].contested_addresses
          BY <3>6, <5>1, Zenon DEF Stays
        <5> QED BY <5>1, <5>2, Zenon
      <4>2. CASE s = slot /\ k = key
        BY <2>1, <4>2, Zenon DEF JoinedBy
      <4> QED BY <3>4, <4>1, <4>2, Zenon
    <3> QED BY <3>5, <3>6, Zenon DEF C
  <2> QED BY <2>2, <2>3, <2>4, <2>5, Zenon DEF Bound, T
<1>8. CASE /\ slot \notin DOMAIN g.contested_addresses
           /\ claim \in {"Uncontested", "Refines", "Supersedes"}
  <2>1. Rebound(g, h, slot, key, ev.source)
    BY <1>8, Zenon DEF Claimed, claim
  <2>2. /\ DOMAIN h.address_owner = DOMAIN g.address_owner \cup {slot}
        /\ DOMAIN h.address_binding = DOMAIN g.address_binding \cup {slot}
        /\ h.address_owner[slot] = key /\ h.address_binding[slot] = ev.source
        /\ \A s \in DOMAIN g.address_owner : s # slot => h.address_owner[s] = g.address_owner[s]
        /\ \A s \in DOMAIN g.address_binding : s # slot => h.address_binding[s] = g.address_binding[s]
        /\ h.contested_addresses = g.contested_addresses
    BY <2>1 DEF Rebound, With
  <2>3. OwnersBound(h, T)
    <3> SUFFICES ASSUME NEW s \in DOMAIN h.address_owner
                 PROVE  /\ s \notin DOMAIN g.contested_addresses
                        /\ IsMac(h.address_owner[s]) => Device(h.address_owner[s]) \in DOMAIN h.nodes
                        /\ h.address_binding[s] = "probe" =>
                              h.address_owner[s] \in AnsweredBy(T, s) \/ AnonymousBy(T, s)
      BY <2>2, Zenon DEF OwnersBound
    <3>1. CASE s = slot
      BY <1>3, <1>8, <2>2, <3>1, Zenon
    <3>2. CASE s # slot
      <4>1. s \in DOMAIN g.address_owner /\ s \in DOMAIN g.address_binding
        BY <2>2, <3>2, Zenon DEF Bound
      <4>2. h.address_owner[s] = g.address_owner[s] /\ h.address_binding[s] = g.address_binding[s]
        BY <2>2, <3>2, <4>1, Zenon
      <4>3. /\ s \notin DOMAIN g.contested_addresses
            /\ IsMac(g.address_owner[s]) => Device(g.address_owner[s]) \in DOMAIN g.nodes
            /\ g.address_binding[s] = "probe" =>
                  g.address_owner[s] \in AnsweredBy(S, s) \/ AnonymousBy(S, s)
        BY <4>1, Zenon DEF Bound, OwnersBound
      <4>4. IsMac(g.address_owner[s]) => Device(g.address_owner[s]) \in DOMAIN h.nodes
        BY <4>3, Zenon DEF Stays
      <4>5. AnsweredBy(S, s) \subseteq AnsweredBy(T, s) /\ (AnonymousBy(S, s) => AnonymousBy(T, s))
        BY <1>1, Zenon
      <4> QED BY <4>2, <4>3, <4>4, <4>5, SMTT(30)
    <3> QED BY <3>1, <3>2, Zenon
  <2>4. AnswersHold(h, T)
    <3> SUFFICES ASSUME NEW s, AnsweredBy(T, s) # {}
                 PROVE  \/ s \in DOMAIN g.contested_addresses
                        \/ s \in DOMAIN h.address_owner /\ h.address_owner[s] \in AnsweredBy(T, s)
      BY <2>2, Zenon DEF AnswersHold
    <3>1. CASE IsMac(ev.device) /\ ev.source = "probe" /\ s = slot
      <4>1. key \in AnsweredBy(T, slot)
        BY <1>2, <3>1, Zenon
      <4>2. slot \in DOMAIN h.address_owner
        BY <2>2, Zenon
      <4> QED BY <2>2, <3>1, <4>1, <4>2, Zenon
    <3>2. CASE ~(IsMac(ev.device) /\ ev.source = "probe" /\ s = slot)
      <4>1. AnsweredBy(T, s) = AnsweredBy(S, s)
        BY <1>1, <3>2, Zenon
      <4>2. \/ s \in DOMAIN g.contested_addresses
            \/ s \in DOMAIN g.address_owner /\ g.address_owner[s] \in AnsweredBy(S, s)
        BY <4>1, Zenon DEF Bound, AnswersHold
      <4>3. CASE s # slot
        BY <2>2, <4>1, <4>2, <4>3, Zenon
      <4>4. CASE s = slot
        <5>1. slot \in DOMAIN g.address_owner /\ previous \in AnsweredBy(S, slot)
          BY <1>8, <4>2, <4>4, Zenon DEF previous
        <5>2. IsMac(previous)
          BY <1>4, <5>1, Zenon
        <5>3. previous = key
          <6>1. CASE claim = "Uncontested"
            BY <1>5, <5>1, <6>1, Zenon
          <6>2. CASE claim = "Refines"
            BY <1>5, <5>2, <6>2, Zenon
          <6>3. CASE claim = "Supersedes"
            BY <1>5, <3>2, <4>4, <5>1, <6>3, Zenon DEF previous
          <6> QED BY <1>8, <6>1, <6>2, <6>3, Zenon
        <5>4. slot \in DOMAIN h.address_owner
          BY <2>2, Zenon
        <5> QED BY <2>2, <4>1, <4>4, <5>1, <5>3, <5>4, Zenon
      <4> QED BY <4>3, <4>4, Zenon
    <3> QED BY <3>1, <3>2, Zenon
  <2>5. DisputesBound(h, T)
    <3>1. DisputesBound(h, S)
      <4> SUFFICES ASSUME NEW s \in DOMAIN g.contested_addresses,
                          NEW k \in g.contested_addresses[s], IsMac(k)
                   PROVE  /\ Device(k) \in DOMAIN h.nodes
                          /\ s[1] \in h.nodes[Device(k)].contested_addresses
        BY <2>2, Zenon DEF DisputesBound, Bound
      <4>1. Device(k) \in DOMAIN g.nodes /\ s[1] \in g.nodes[Device(k)].contested_addresses
        BY Zenon DEF Bound, DisputesBound
      <4>2. /\ Device(k) \in DOMAIN h.nodes
            /\ g.nodes[Device(k)].contested_addresses \subseteq h.nodes[Device(k)].contested_addresses
        BY <4>1, Zenon DEF Stays
      <4> QED BY <4>1, <4>2, Zenon
    <3> QED BY <1>1, <3>1, Zenon DEF DisputesBound
  <2>6. DOMAIN h.address_owner = DOMAIN h.address_binding
    BY <2>2, Zenon DEF Bound
  <2> QED BY <2>3, <2>4, <2>5, <2>6, Zenon DEF Bound, T
<1>9. CASE slot \notin DOMAIN g.contested_addresses /\ claim \in {"Refined", "Superseded"}
  <2>1. claim \notin {"Uncontested", "Refines", "Supersedes"} /\ claim # "Contested"
    BY <1>9, Zenon
  <2>2. SameBindings(g, h)
    BY <1>9, <2>1, Zenon DEF Claimed, claim
  <2>3. ~(IsMac(ev.device) /\ ev.source = "probe")
    <3> SUFFICES ASSUME IsMac(ev.device), ev.source = "probe" PROVE FALSE
      BY Zenon
    <3>1. key = Claimant(ev)
      BY Zenon
    <3>2. key \in AnsweredBy(T, slot)
      BY <1>2, <3>1, Zenon
    <3> QED BY <1>4, <1>5, <1>9, <3>2, Zenon
  <2>4. \A s : AnsweredBy(T, s) = AnsweredBy(S, s)
    BY <1>1, <2>3, Zenon
  <2>5. Bound(h, S)
    BY <2>2, KeptBound, Zenon
  <2>6. OwnersBound(h, T)
    BY <1>1, <2>4, <2>5, Zenon DEF Bound, OwnersBound
  <2>7. AnswersHold(h, T)
    BY <2>4, <2>5, Zenon DEF Bound, AnswersHold
  <2>8. DisputesBound(h, T)
    BY <1>1, <2>5, Zenon DEF Bound, DisputesBound
  <2> QED BY <2>5, <2>6, <2>7, <2>8, Zenon DEF Bound, T
<1>10. CASE slot \notin DOMAIN g.contested_addresses /\ claim = "Contested"
  <2>1. Opened(g, h, slot, key)
    BY <1>10, SMTT(30) DEF Claimed, claim
  <2>2. /\ DOMAIN h.address_owner = DOMAIN g.address_owner \ {slot}
        /\ DOMAIN h.address_binding = DOMAIN g.address_binding \ {slot}
        /\ \A s \in DOMAIN g.address_owner : s # slot => h.address_owner[s] = g.address_owner[s]
        /\ \A s \in DOMAIN g.address_binding : s # slot => h.address_binding[s] = g.address_binding[s]
        /\ DOMAIN h.contested_addresses = DOMAIN g.contested_addresses \cup {slot}
        /\ h.contested_addresses[slot] = {previous, key}
        /\ \A s \in DOMAIN g.contested_addresses :
              s # slot => h.contested_addresses[s] = g.contested_addresses[s]
    BY <2>1 DEF Opened, With, Without, previous
  <2>3. /\ slot \in DOMAIN g.address_owner /\ previous # key
        /\ ev.source = "probe" /\ g.address_binding[slot] = "probe"
        /\ IsMac(key) <=> IsMac(previous)
    BY <1>5, <1>10, Zenon
  <2>4. IsMac(ev.device) /\ key = Claimant(ev)
    BY <2>3, Zenon DEF previous
  <2>5. key \in AnsweredBy(T, slot) /\ IsMac(key) /\ IsMac(previous)
    BY <1>2, <1>4, <2>3, <2>4, Zenon
  <2>6. /\ previous \in AnsweredBy(S, slot) \/ AnonymousBy(S, slot)
        /\ Device(previous) \in DOMAIN g.nodes
    BY <2>3, <2>5, Zenon DEF Bound, OwnersBound, previous
  <2>7. Contends({previous, key}, T, slot)
    <3>1. CASE previous \in AnsweredBy(S, slot)
      <4>1. previous \in AnsweredBy(T, slot)
        BY <1>1, <3>1, Zenon
      <4> QED BY <2>3, <2>5, <4>1, Zenon DEF Contends
    <3>2. CASE AnonymousBy(S, slot)
      <4>1. AnonymousBy(T, slot)
        BY <1>1, <3>2, Zenon
      <4> QED BY <2>5, <4>1, Zenon DEF Contends
    <3> QED BY <2>6, <3>1, <3>2, Zenon
  <2>8. OwnersBound(h, T)
    <3> SUFFICES ASSUME NEW s \in DOMAIN h.address_owner
                 PROVE  /\ s \notin DOMAIN h.contested_addresses
                        /\ IsMac(h.address_owner[s]) => Device(h.address_owner[s]) \in DOMAIN h.nodes
                        /\ h.address_binding[s] = "probe" =>
                              h.address_owner[s] \in AnsweredBy(T, s) \/ AnonymousBy(T, s)
      BY Zenon DEF OwnersBound
    <3>1. s # slot /\ s \in DOMAIN g.address_owner /\ s \in DOMAIN g.address_binding
      BY <2>2, Zenon DEF Bound
    <3>2. h.address_owner[s] = g.address_owner[s] /\ h.address_binding[s] = g.address_binding[s]
      BY <2>2, <3>1, Zenon
    <3>3. /\ s \notin DOMAIN g.contested_addresses
          /\ IsMac(g.address_owner[s]) => Device(g.address_owner[s]) \in DOMAIN g.nodes
          /\ g.address_binding[s] = "probe" =>
                g.address_owner[s] \in AnsweredBy(S, s) \/ AnonymousBy(S, s)
      BY <3>1, Zenon DEF Bound, OwnersBound
    <3>4. IsMac(g.address_owner[s]) => Device(g.address_owner[s]) \in DOMAIN h.nodes
      BY <3>3, Zenon DEF Stays
    <3>5. AnsweredBy(S, s) \subseteq AnsweredBy(T, s) /\ (AnonymousBy(S, s) => AnonymousBy(T, s))
      BY <1>1, Zenon
    <3>6. s \notin DOMAIN h.contested_addresses
      BY <2>2, <3>1, <3>3, SMTT(30)
    <3> QED BY <3>2, <3>3, <3>4, <3>5, <3>6, Zenon
  <2>9. AnswersHold(h, T)
    <3> SUFFICES ASSUME NEW s, AnsweredBy(T, s) # {}
                 PROVE  \/ s \in DOMAIN h.contested_addresses
                        \/ s \in DOMAIN h.address_owner /\ h.address_owner[s] \in AnsweredBy(T, s)
      BY Zenon DEF AnswersHold
    <3>1. CASE s = slot
      BY <2>2, <3>1, SMTT(30)
    <3>2. CASE s # slot
      <4>1. AnsweredBy(T, s) = AnsweredBy(S, s)
        BY <1>1, <3>2, Zenon
      <4>2. \/ s \in DOMAIN g.contested_addresses
            \/ s \in DOMAIN g.address_owner /\ g.address_owner[s] \in AnsweredBy(S, s)
        BY <4>1, Zenon DEF Bound, AnswersHold
      <4> QED BY <2>2, <3>2, <4>1, <4>2, Zenon
    <3> QED BY <3>1, <3>2, Zenon
  <2>10. DisputesBound(h, T)
    <3> SUFFICES ASSUME NEW s \in DOMAIN h.contested_addresses
                 PROVE  LET C == h.contested_addresses[s]
                        IN  /\ Contends(C, T, s)
                            /\ \A k \in C : IsMac(k) =>
                                  /\ Device(k) \in DOMAIN h.nodes
                                  /\ s[1] \in h.nodes[Device(k)].contested_addresses
      BY Zenon DEF DisputesBound
    <3>1. CASE s = slot
      <4>2. Device(previous) \in DOMAIN h.nodes
        BY <2>5, <2>6, Zenon DEF Stays
      <4>3. slot[1] \in h.nodes[Device(previous)].contested_addresses
        BY <2>1, <2>6, Zenon DEF Opened, previous
      <4>4. slot[1] \in h.nodes[Device(key)].contested_addresses
        BY <2>1, Zenon DEF Opened
      <4> QED BY <2>2, <2>7, <3>1, <4>2, <4>3, <4>4, Zenon
    <3>2. CASE s # slot
      <4>1. s \in DOMAIN g.contested_addresses /\ h.contested_addresses[s] = g.contested_addresses[s]
        BY <2>2, <3>2, Zenon
      <4>2. /\ Contends(g.contested_addresses[s], T, s)
            /\ \A k \in g.contested_addresses[s] : IsMac(k) =>
                  /\ Device(k) \in DOMAIN g.nodes
                  /\ s[1] \in g.nodes[Device(k)].contested_addresses
        BY <1>1, <4>1, Zenon DEF Bound, DisputesBound
      <4>3. ASSUME NEW k \in g.contested_addresses[s], IsMac(k)
            PROVE  Device(k) \in DOMAIN h.nodes /\ s[1] \in h.nodes[Device(k)].contested_addresses
        <5>1. Device(k) \in DOMAIN g.nodes /\ s[1] \in g.nodes[Device(k)].contested_addresses
          BY <4>2, <4>3, Zenon
        <5>2. /\ Device(k) \in DOMAIN h.nodes
              /\ g.nodes[Device(k)].contested_addresses \subseteq h.nodes[Device(k)].contested_addresses
          BY <4>3, <5>1, Zenon DEF Stays
        <5> QED BY <5>1, <5>2, Zenon
      <4> QED BY <4>1, <4>2, <4>3, Zenon
    <3> QED BY <3>1, <3>2, Zenon
  <2>11. DOMAIN h.address_owner = DOMAIN h.address_binding
    BY <2>2, Zenon DEF Bound
  <2> QED BY <2>8, <2>9, <2>10, <2>11, Zenon DEF Bound, T
<1> QED BY <1>6, <1>7, <1>8, <1>9, <1>10, Zenon
------------------------------------------------------------------------------
(* What qualification makes of evidence.                                    *)

\* A key stays a key of the same name; a private one is of the domain it is said in.
LEMMA QualifiesDevice ==
    ASSUME NEW key, NEW realm, key = [of |-> key.of, zone |-> key.zone, realm |-> Local],
           key.of \in Macs \cup Addresses
    PROVE  LET q == qualify_device(key, realm)
           IN  Qualifies(q, realm) /\ q.of = key.of /\ q.zone = key.zone
<1> DEFINE q == qualify_device(key, realm)
<1>1. key.realm = Local /\ DOMAIN key = {"of", "zone", "realm"}
  BY SMT
<1>2. CASE q = key /\ (realm = Local \/ key.of \in GloballyUnique)
  BY <1>1, <1>2, Zenon DEF Qualifies
<1>3. CASE q = [key EXCEPT !.realm = realm]
  <2>1. q.of = key.of /\ q.zone = key.zone /\ q.realm = realm
    BY <1>1, <1>3, Zenon
  <2> QED BY <2>1, Zenon DEF Qualifies
<1> QED BY <1>2, <1>3, Zenon DEF qualify_device

\* The fields that are read of a qualified piece of evidence.
LEMMA QualifiedFields ==
    ASSUME NEW ev, IsEvidence(ev)
    PROVE  LET q == Qualified(ev)
           IN  /\ q.kind = ev.kind /\ q.origin = ev.origin
               /\ q.source = ev.source /\ q.vantage = ev.vantage
               /\ ev.kind \in {"DeviceAddress", "DeviceHostname", "DeviceVendor"} =>
                     /\ q.device = qualify_device(ev.device, ev.origin)
                     /\ q.device.of = ev.device.of /\ q.device.zone = ev.device.zone
                     /\ Qualifies(q.device, q.origin)
               /\ ev.kind \in {"DeviceAddress", "ResolvedAs"} => q.address = ev.address
               /\ ev.kind = "DeviceHostname" => q.about = ev.device.of
<1> DEFINE q == Qualified(ev)
<1>1. /\ q.kind = ev.kind /\ q.origin = ev.origin
      /\ q.source = ev.source /\ q.vantage = ev.vantage
  BY Zenon DEF IsEvidence, Qualified
<1>2. ASSUME ev.kind \in {"DeviceAddress", "DeviceHostname", "DeviceVendor"}
      PROVE  /\ q.device = qualify_device(ev.device, ev.origin)
             /\ q.device.of = ev.device.of /\ q.device.zone = ev.device.zone
             /\ Qualifies(q.device, q.origin)
  <2>1. "device" \in DOMAIN ev /\ ev.kind # "ForwardsToward"
    BY <1>2, Zenon DEF IsEvidence
  <2>2. q.device = qualify_device(ev.device, ev.origin)
    BY <2>1, Zenon DEF Qualified
  <2>3. /\ ev.device = [of |-> ev.device.of, zone |-> ev.device.zone, realm |-> Local]
        /\ ev.device.of \in Macs \cup Addresses
    BY <1>2, Zenon DEF IsEvidence
  <2>4. LET d == qualify_device(ev.device, ev.origin)
        IN  Qualifies(d, ev.origin) /\ d.of = ev.device.of /\ d.zone = ev.device.zone
    BY <2>3, QualifiesDevice, Zenon
  <2> QED BY <1>1, <2>2, <2>4, Zenon
<1>3. ev.kind \in {"DeviceAddress", "ResolvedAs"} => q.address = ev.address
  BY Zenon DEF IsEvidence, Qualified
<1>4. ev.kind = "DeviceHostname" => q.about = ev.device.of
  BY Zenon DEF IsEvidence, Qualified
<1> QED BY <1>1, <1>2, <1>3, <1>4, Zenon

\* Under which identity a claim is made: a station's own, and an answer that names
\* none is the holder's.
LEMMA ClaimKey ==
    ASSUME NEW g, NEW ev, IsEvidence(ev), ev.kind = "DeviceAddress", NEW q, q = Qualified(ev)
    PROVE  LET key == canonical_key(g, q.device, q.address, q.origin)
               slot == Slot(ev.address, ev.vantage, ev.origin)
           IN  ev.source = "probe" =>
                 \/ IsMac(ev.device) /\ key = Claimant(ev)
                 \/ ~IsMac(ev.device) /\ (slot \in DOMAIN g.address_owner => g.address_owner[slot] = key)
<1> DEFINE key == canonical_key(g, q.device, q.address, q.origin)
           slot == Slot(ev.address, ev.vantage, ev.origin)
<1>1. /\ q.origin = ev.origin
      /\ q.device = Claimant(ev)
      /\ q.device.of = ev.device.of /\ q.device.zone = ev.device.zone
  BY QualifiedFields, Zenon DEF Claimant
<1>2. CASE IsMac(ev.device)
  BY <1>1, <1>2, Zenon DEF canonical_key, IsMac
<1>3. CASE ~IsMac(ev.device) /\ ev.source = "probe"
  <2>1. /\ ev.device.of = ev.address
        /\ ev.device.zone = IF ev.address \in LinkLocal THEN ev.vantage ELSE NoZone
    BY <1>3, Zenon DEF IsEvidence, IsMac
  <2>2. slot = <<q.device.of, q.device.zone, RealmOf(q.device.of, q.origin)>>
    BY <1>1, <2>1, Zenon DEF Slot
  <2>3. ~IsMac(q.device)
    BY <1>1, <1>3, Zenon DEF IsMac
  <2>4. slot \in DOMAIN g.address_owner => g.address_owner[slot] = key
    BY <2>2, <2>3, Zenon DEF canonical_key, owner_in_realm
  <2> QED BY <1>3, <2>4, Zenon
<1> QED BY <1>2, <1>3, Zenon

\* More evidence: more addresses that one leads to.
LEMMA MoreEvidence ==
    ASSUME NEW g, NEW S, NEW T, S \subseteq T
    PROVE  /\ OwnersInDomain(g, S) => OwnersInDomain(g, T)
           /\ NamesInDomain(g, S) => NamesInDomain(g, T)
<1>1. \A realm : PollsOf(realm, S) \subseteq PollsOf(realm, T)
  BY Zenon DEF PollsOf
<1>2. ASSUME NEW a, NEW b, NEW realm
      PROVE  /\ Leads(a, b, realm, S) => Leads(a, b, realm, T)
             /\ Shown(a, realm, S) => Shown(a, realm, T)
  BY <1>1, Zenon DEF Leads, Shown
<1>3. \A key, about, realm : InDomain(key, about, realm, S) => InDomain(key, about, realm, T)
  BY <1>2, Zenon DEF InDomain
<1> QED BY <1>3, Zenon DEF OwnersInDomain, NamesInDomain

\* Whoever a private address is bound to may be what the domain calls it.
LEMMA ClaimKeyInDomain ==
    ASSUME NEW g, NEW S, OwnersInDomain(g, S), NEW key, NEW address, NEW realm,
           Qualifies(key, realm), address \notin GloballyUnique,
           ~IsMac(key) => \E e \in PollsOf(realm, S) : e.device.of = key.of /\ e.address = address
    PROVE  InDomain(canonical_key(g, key, address, realm), address, realm, S)
<1> DEFINE own == <<key.of, key.zone, RealmOf(key.of, realm)>>
           at == <<address, key.zone, RealmOf(address, realm)>>
<1>1. at[1] = address /\ at[3] = realm /\ own[1] = key.of
      /\ (key.of \notin GloballyUnique => own[3] = realm)
  BY Zenon DEF RealmOf
<1>2. \/ canonical_key(g, key, address, realm) = key
      \/ /\ ~IsMac(key) /\ own \in DOMAIN g.address_owner
         /\ canonical_key(g, key, address, realm) = g.address_owner[own]
      \/ /\ at \in DOMAIN g.address_owner
         /\ canonical_key(g, key, address, realm) = g.address_owner[at]
  BY Zenon DEF canonical_key, owner_in_realm
<1> HIDE DEF own, at
<1>3. ASSUME ~IsMac(key)
      PROVE  /\ Leads(key.of, address, realm, S)
             /\ \A a : Leads(a, key.of, realm, S) => Leads(a, address, realm, S)
             /\ key.of \in GloballyUnique \/ Shown(key.of, realm, S) => Shown(address, realm, S)
  <2>1. PICK e \in PollsOf(realm, S) : e.device.of = key.of /\ e.address = address
    BY <1>3, Zenon
  <2> QED BY <2>1, Leading, Zenon
<1>4. InDomain(key, address, realm, S)
  BY <1>3, Zenon DEF InDomain, Qualifies
<1>5. ASSUME ~IsMac(key), own \in DOMAIN g.address_owner
      PROVE  InDomain(g.address_owner[own], address, realm, S)
  <2>1. CASE key.of \in GloballyUnique
    BY <1>3, <1>5, <2>1, Zenon DEF InDomain
  <2>2. CASE key.of \notin GloballyUnique
    <3>1. InDomain(g.address_owner[own], key.of, realm, S)
      BY <1>1, <1>5, <2>2, Zenon DEF OwnersInDomain
    <3> QED BY <1>3, <1>5, <3>1, Zenon DEF InDomain
  <2> QED BY <2>1, <2>2, Zenon
<1>6. at \in DOMAIN g.address_owner => InDomain(g.address_owner[at], address, realm, S)
  BY <1>1, Zenon DEF OwnersInDomain
<1> QED BY <1>2, <1>4, <1>5, <1>6, Zenon

\* A claim leaves private addresses in their domains.
LEMMA ClaimInDomain ==
    ASSUME NEW g, NEW h, NEW S, OwnersInDomain(g, S), NEW key, NEW slot, NEW source,
           Claimed(g, h, slot, key, source),
           slot[1] \notin GloballyUnique => InDomain(key, slot[1], slot[3], S)
    PROVE  OwnersInDomain(h, S)
<1>1. \/ h.address_owner = g.address_owner
      \/ h.address_owner = With(g.address_owner, slot, key)
      \/ h.address_owner = Without(g.address_owner, slot)
  BY Zenon DEF Claimed, JoinedBy, Rebound, Opened, SameBindings
<1>2. \A s \in DOMAIN h.address_owner :
         \/ s \in DOMAIN g.address_owner /\ h.address_owner[s] = g.address_owner[s]
         \/ s = slot /\ h.address_owner[s] = key
  <2>1. CASE h.address_owner = g.address_owner
    BY <2>1, Zenon
  <2>2. CASE h.address_owner = With(g.address_owner, slot, key)
    BY <2>2, Zenon DEF With
  <2>3. CASE h.address_owner = Without(g.address_owner, slot)
    BY <2>3, Zenon DEF Without
  <2> QED BY <1>1, <2>1, <2>2, <2>3, Zenon
<1> QED BY <1>2, Zenon DEF OwnersInDomain
------------------------------------------------------------------------------
(* Folding address identities into stations.                                *)

\* Where a folded identity goes is a station that is not folded itself.
LEMMA Survives ==
    ASSUME NEW g, NEW id \in Foldable(g)
    PROVE  LET s == Survivor(g, id)
           IN  /\ s = Device(g.address_owner[OwnSlot(id[2])])
               /\ s \in Devices(g) \ Foldable(g)
               /\ ~IsMac(id[2]) /\ OwnSlot(id[2]) \in DOMAIN g.address_owner
<1> DEFINE key == g.address_owner[OwnSlot(id[2])]
<1>1. Survivor(g, id) = Device(key)
  BY Zenon DEF Survivor
<1>2. /\ ~IsMac(id[2]) /\ OwnSlot(id[2]) \in DOMAIN g.address_owner
      /\ IsMac(key) /\ Device(key) \in DOMAIN g.nodes
  BY Zenon DEF Foldable
<1>3. Device(key)[1] = "device" /\ Device(key)[2] = key
  BY Zenon DEF Device
<1> HIDE DEF key
<1>4. Device(key) \in Devices(g) /\ Device(key) \notin Foldable(g)
  BY <1>2, <1>3, Zenon DEF Devices, Foldable
<1> QED BY <1>1, <1>2, <1>4, Zenon DEF key

\* A station takes over what is folded into it, and its own statements stay.
LEMMA FoldedNode ==
    ASSUME NEW n, NEW R, NodeTyped(n, R), NEW sources, \A s \in sources : NodeTyped(s, R)
    PROVE  LET m == FoldInto(n, sources)
           IN  /\ NodeTyped(m, R)
               /\ m.contested_addresses = n.contested_addresses
               /\ n.vendor = Local => m.vendor = Local
               /\ m.hostnames = n.hostnames \cup UNION {s.hostnames : s \in sources}
<1> DEFINE All(field) == n[field] \cup UNION {s[field] : s \in sources}
           m == FoldInto(n, sources)
<1>1. /\ DOMAIN m = NodeFields
      /\ m.kind = n.kind
      /\ m.addresses = All("addresses") /\ m.reachable = All("reachable")
      /\ m.hostnames = All("hostnames") /\ m.provenance = All("provenance")
      /\ m.vendor = FirstStated(n, sources, "vendor")
      /\ m.opaque_reason = FirstStated(n, sources, "opaque_reason")
      /\ m.contested_addresses = n.contested_addresses
      /\ m.superseded_addresses = n.superseded_addresses
  BY Zenon DEF FoldInto, NodeTyped, NodeFields
<1>2. ASSUME NEW field \in {"vendor", "opaque_reason"}
      PROVE  /\ FirstStated(n, sources, field) \in m.provenance \cup {Nobody}
             /\ n[field] # Nobody => FirstStated(n, sources, field) = n[field]
  <2>1. \A s \in sources \cup {n} : s[field] \in s.provenance \cup {Nobody}
    BY <1>2, SMTT(30) DEF NodeTyped
  <2>2. \A s \in sources \cup {n} : s.provenance \subseteq m.provenance
    BY <1>1, Zenon
  <2>3. \A s \in sources \cup {n} : s[field] \in m.provenance \cup {Nobody}
    BY <2>1, <2>2, Zenon
  <2> DEFINE having == {s \in sources : s[field] # Nobody}
             t == CHOOSE s \in having : TRUE
  <2>4. having # {} => t \in sources
    BY Zenon
  <2>5. \/ FirstStated(n, sources, field) = n[field]
        \/ having # {} /\ n[field] = Nobody /\ FirstStated(n, sources, field) = t[field]
    BY Zenon DEF FirstStated
  <2> HIDE DEF having, t
  <2> QED BY <2>3, <2>4, <2>5, Zenon
<1> HIDE DEF m
<1>3. /\ m.addresses \subseteq Addresses /\ m.reachable \subseteq m.addresses
      /\ n.addresses \subseteq m.addresses
      /\ m.provenance \subseteq R
  BY <1>1 DEF NodeTyped
<1>4. KeptOrTaken(m)
  BY <1>1, <1>3, Zenon DEF KeptOrTaken, NodeTyped
<1>5. m.vendor \in m.provenance \cup {Nobody} /\ m.opaque_reason \in m.provenance \cup {Nobody}
  BY <1>1, <1>2, Zenon
<1>6. NodeTyped(m, R)
  BY <1>1, <1>3, <1>4, <1>5, Zenon DEF NodeTyped
<1>7. n.vendor = Local => m.vendor = Local
  BY <1>1, <1>2, GraphAssumption, Zenon
<1> QED BY <1>1, <1>6, <1>7, Zenon DEF m

\* Merging keeps everything that is said of stations and leaves nothing to merge.
LEMMA MergeKeeps ==
    ASSUME NEW g, NEW R, Sound(g, R), NEW S, OwnersInDomain(g, S), NamesInDomain(g, S)
    PROVE  LET h == merge_address_identities(g)
           IN  Keeps(g, h, R) /\ NamesInDomain(h, S) /\ Foldable(h) = {}
<1> DEFINE gone == Foldable(g)
           Sources(id) == {s \in gone : Survivor(g, s) = id}
           touched == {e \in g.edges : e[1] \in gone \/ e[2] \in gone}
           moved == {<<Survivor(g, e[1]), Survivor(g, e[2]), e[3]>> : e \in touched}
           weighed == {Survivor(g, id) : id \in DOMAIN g.role_weights}
           nodes == [id \in DOMAIN g.nodes \ gone |->
                       FoldInto(g.nodes[id], {g.nodes[s] : s \in Sources(id)})]
           edges == (g.edges \ touched) \cup {e \in moved : e[1] # e[2]}
           weights == [id \in weighed |->
                         UNION {g.role_weights[s] :
                                  s \in DOMAIN g.role_weights \cap ({id} \cup Sources(id))}]
           h == merge_address_identities(g)
<1>1. h = [g EXCEPT !.nodes = nodes, !.edges = edges, !.role_weights = weights]
  BY Zenon DEF merge_address_identities
<1>2. DOMAIN nodes = DOMAIN g.nodes \ gone /\ DOMAIN weights = weighed
  BY Zenon
<1>3. /\ DOMAIN h = GraphFields /\ h.nodes = nodes /\ h.edges = edges
      /\ h.role_weights = weights
      /\ SameBindings(g, h)
  <2> HIDE DEF h, nodes, edges, weights
  <2> QED BY <1>1, Zenon DEF Sound, GraphFields, SameBindings
<1>4. \A id \in gone : id \in DOMAIN g.nodes
  BY Zenon DEF Foldable, Devices
<1>5. \A id \in DOMAIN g.nodes : Survivor(g, id) \in DOMAIN nodes
  <2> SUFFICES ASSUME NEW id \in DOMAIN g.nodes PROVE Survivor(g, id) \in DOMAIN g.nodes \ gone
    BY <1>2, Zenon
  <2>1. CASE id \in gone
    <3>1. Survivor(g, id) \in Devices(g) \ Foldable(g)
      BY <2>1, Survives, Zenon
    <3> QED BY <3>1, Zenon DEF Devices
  <2>2. CASE id \notin gone
    BY <2>2, Zenon DEF Survivor
  <2> QED BY <2>1, <2>2, Zenon
<1> HIDE DEF nodes
<1>6. ASSUME NEW id \in DOMAIN nodes
      PROVE  /\ id \in DOMAIN g.nodes /\ id \notin gone
             /\ NodeTyped(nodes[id], R)
             /\ nodes[id].contested_addresses = g.nodes[id].contested_addresses
             /\ g.nodes[id].vendor = Local => nodes[id].vendor = Local
             /\ nodes[id].hostnames =
                  g.nodes[id].hostnames \cup UNION {s.hostnames : s \in {g.nodes[t] : t \in Sources(id)}}
  <2> DEFINE sources == {g.nodes[s] : s \in Sources(id)}
  <2>1. id \in DOMAIN g.nodes /\ id \notin gone
    BY <1>2, <1>6, Zenon
  <2>2. nodes[id] = FoldInto(g.nodes[id], sources)
    BY <2>1, Zenon DEF nodes
  <2>3. NodeTyped(g.nodes[id], R)
    BY <2>1, Zenon DEF Sound, NodesTyped
  <2>4. \A s \in sources : NodeTyped(s, R)
    BY <1>4, Zenon DEF Sound, NodesTyped
  <2> HIDE DEF sources
  <2>5. LET m == FoldInto(g.nodes[id], sources)
        IN  /\ NodeTyped(m, R)
            /\ m.contested_addresses = g.nodes[id].contested_addresses
            /\ g.nodes[id].vendor = Local => m.vendor = Local
            /\ m.hostnames = g.nodes[id].hostnames \cup UNION {s.hostnames : s \in sources}
    BY <2>3, <2>4, FoldedNode
  <2> QED BY <2>1, <2>2, <2>5, Zenon DEF sources
<1> HIDE DEF h
<1>7. NodesTyped(h, R)
  BY <1>3, <1>6, Zenon DEF NodesTyped
<1>8. EdgesJoin(h)
  <2> SUFFICES ASSUME NEW e \in edges
               PROVE  /\ e[2] \in DOMAIN nodes
                      /\ e[3] \notin {"Advertises", "ForwardsToward"} => e[1] \in DOMAIN nodes
    BY <1>3, Zenon DEF EdgesJoin
  <2>1. CASE e \in g.edges /\ e \notin touched
    <3>1. /\ e[2] \in DOMAIN g.nodes
          /\ e[3] \notin {"Advertises", "ForwardsToward"} => e[1] \in DOMAIN g.nodes
      BY <2>1, Zenon DEF Sound, EdgesJoin
    <3>2. e[1] \notin gone /\ e[2] \notin gone
      BY <2>1, Zenon
    <3> QED BY <1>2, <3>1, <3>2, Zenon
  <2>2. CASE e \in moved
    <3>1. PICK d \in touched : e = <<Survivor(g, d[1]), Survivor(g, d[2]), d[3]>>
      BY <2>2, Zenon
    <3>2. e[1] = Survivor(g, d[1]) /\ e[2] = Survivor(g, d[2]) /\ e[3] = d[3]
      BY <3>1, Zenon
    <3>3. d \in g.edges
      BY <3>1, Zenon
    <3>4. /\ d[2] \in DOMAIN g.nodes
          /\ d[3] \notin {"Advertises", "ForwardsToward"} => d[1] \in DOMAIN g.nodes
      BY <3>3, Zenon DEF Sound, EdgesJoin
    <3> QED BY <1>5, <3>2, <3>4, Zenon
  <2> QED BY <2>1, <2>2, Zenon
<1>9. Weighed(h)
  <2> SUFFICES ASSUME NEW id \in DOMAIN g.role_weights
               PROVE  Survivor(g, id) \in DOMAIN nodes /\ Survivor(g, id)[1] = "device"
    BY <1>2, <1>3 DEF Weighed, Devices
  <2>1. id \in DOMAIN g.nodes /\ id[1] = "device"
    BY Zenon DEF Sound, Weighed, Devices
  <2>2. CASE id \in gone
    <3>1. Survivor(g, id) \in Devices(g) \ Foldable(g)
      BY <2>2, Survives, Zenon
    <3> QED BY <1>5, <2>1, <3>1, Zenon DEF Devices
  <2>3. CASE id \notin gone
    BY <1>5, <2>1, <2>3, SMTT(30) DEF Survivor
  <2> QED BY <2>2, <2>3, Zenon
<1>10. Stays(g, h)
  <2> SUFFICES ASSUME NEW key, IsMac(key), Device(key) \in DOMAIN g.nodes
               PROVE  /\ Device(key) \in DOMAIN nodes
                      /\ g.nodes[Device(key)].contested_addresses
                           \subseteq nodes[Device(key)].contested_addresses
                      /\ g.nodes[Device(key)].vendor = Local => nodes[Device(key)].vendor = Local
    BY <1>3, Zenon DEF Stays
  <2>1. Device(key)[2] = key
    BY Zenon DEF Device
  <2>2. Device(key) \notin gone
    BY <2>1, Zenon DEF Foldable
  <2>3. Device(key) \in DOMAIN nodes
    BY <1>2, <2>2, Zenon
  <2> QED BY <1>6, <2>3, Zenon
<1>11. NamesInDomain(h, S)
  <2> SUFFICES ASSUME NEW id \in DOMAIN nodes, id[1] = "device",
                      NEW name \in nodes[id].hostnames, name[1] \notin GloballyUnique
               PROVE  InDomain(id[2], name[1], name[2], S)
    BY <1>3, Zenon DEF NamesInDomain
  <2>1. CASE name \in g.nodes[id].hostnames
    BY <1>6, <2>1, Zenon DEF NamesInDomain
  <2>2. CASE \E t \in Sources(id) : name \in g.nodes[t].hostnames
    <3>1. PICK t \in Sources(id) : name \in g.nodes[t].hostnames
      BY <2>2, Zenon
    <3>2. t \in gone /\ Survivor(g, t) = id /\ t \in DOMAIN g.nodes /\ t[1] = "device"
      BY <3>1, Zenon DEF Foldable, Devices
    <3> DEFINE slot == OwnSlot(t[2])
               key == g.address_owner[slot]
    <3>3. ~IsMac(t[2]) /\ slot \in DOMAIN g.address_owner /\ id = Device(key)
      BY <3>2, Survives, Zenon
    <3>4. InDomain(t[2], name[1], name[2], S)
      BY <3>1, <3>2, Zenon DEF NamesInDomain
    <3>5. id[2] = key /\ IsMac(key)
      <4>1. IsMac(key)
        BY <3>2, Zenon DEF Foldable
      <4>2. Device(key)[2] = key
        BY Zenon DEF Device
      <4> HIDE DEF key
      <4> QED BY <3>3, <4>1, <4>2, Zenon
    <3>6. slot[1] = t[2].of /\ slot[3] = RealmOf(t[2].of, t[2].realm)
      BY Zenon DEF OwnSlot
    <3> HIDE DEF slot, key
    <3>7. CASE t[2].realm = name[2] /\ t[2].of \notin GloballyUnique
               /\ Leads(t[2].of, name[1], name[2], S)
      <4>1. slot[1] \notin GloballyUnique /\ slot[3] = name[2]
        BY <3>6, <3>7, Zenon DEF RealmOf
      <4>2. InDomain(key, t[2].of, name[2], S)
        BY <3>3, <3>6, <4>1, Zenon DEF OwnersInDomain, key
      <4>3. Shown(t[2].of, name[2], S) => Shown(name[1], name[2], S)
        BY <3>7, Leading, Zenon
      <4> QED BY <3>5, <4>2, <4>3, Zenon DEF InDomain
    <3>8. CASE Shown(name[1], name[2], S)
      BY <3>8, Zenon DEF InDomain
    <3> QED BY <3>3, <3>4, <3>7, <3>8, Zenon DEF InDomain
  <2>3. name \in g.nodes[id].hostnames \/ \E t \in Sources(id) : name \in g.nodes[t].hostnames
    <3>1. name \in g.nodes[id].hostnames \cup UNION {s.hostnames : s \in {g.nodes[t] : t \in Sources(id)}}
      BY <1>6, Zenon
    <3> QED BY <3>1, Zenon
  <2> QED BY <2>1, <2>2, <2>3, Zenon
<1>12. Foldable(h) = {}
  <2> SUFFICES ASSUME NEW id \in Foldable(h) PROVE FALSE
    BY Zenon
  <2>1. /\ id \in DOMAIN nodes /\ id[1] = "device" /\ ~IsMac(id[2])
        /\ OwnSlot(id[2]) \in DOMAIN g.address_owner
        /\ IsMac(g.address_owner[OwnSlot(id[2])])
        /\ Device(g.address_owner[OwnSlot(id[2])]) \in DOMAIN nodes
    BY <1>3, Zenon DEF Foldable, Devices, SameBindings
  <2>2. /\ id \in DOMAIN g.nodes /\ id \notin gone
        /\ Device(g.address_owner[OwnSlot(id[2])]) \in DOMAIN g.nodes
    BY <1>2, <2>1, Zenon
  <2> QED BY <2>1, <2>2, Zenon DEF Foldable, Devices
<1> QED BY <1>3, <1>7, <1>8, <1>9, <1>10, <1>11, <1>12, Zenon DEF Keeps, Sound, h

\* A score is a kind of node.
LEMMA ScoredKind ==
    ASSUME NEW signals
    PROVE  score_role(signals) \in NodeKinds
BY Zenon DEF score_role, NodeKinds

\* The final kinds change nothing else of a graph.
LEMMA FinalizeKeeps ==
    ASSUME NEW g0, NEW R, Sound(g0, R), NEW S, OwnersInDomain(g0, S), NamesInDomain(g0, S)
    PROVE  LET h == finalize_roles(g0)
           IN  Keeps(g0, h, R) /\ NamesInDomain(h, S) /\ Foldable(h) = {}
<1> DEFINE g == merge_address_identities(g0)
           role(id) == IF id \in DOMAIN g.role_weights
                         THEN score_role(g.role_weights[id]) ELSE "Host"
           kind(id) == IF g.nodes[id].opaque_reason # Nobody THEN "OpaqueBoundary"
                       ELSE IF role(id) # "Host" THEN role(id)
                       ELSE g.nodes[id].kind
           nodes == [id \in DOMAIN g.nodes |-> [g.nodes[id] EXCEPT !.kind = kind(id)]]
           h == [g EXCEPT !.nodes = nodes]
<1>1. finalize_roles(g0) = h
  BY Zenon DEF finalize_roles
<1>2. Keeps(g0, g, R) /\ NamesInDomain(g, S) /\ Foldable(g) = {}
  BY MergeKeeps, Zenon
<1>3. Sound(g, R)
  BY <1>2, Zenon DEF Keeps
<1> HIDE DEF g
<1>4. DOMAIN nodes = DOMAIN g.nodes
  BY Zenon
<1>5. ASSUME NEW id \in DOMAIN g.nodes
      PROVE  /\ NodeTyped(nodes[id], R)
             /\ nodes[id].contested_addresses = g.nodes[id].contested_addresses
             /\ nodes[id].vendor = g.nodes[id].vendor
             /\ nodes[id].hostnames = g.nodes[id].hostnames
  <2> DEFINE n == g.nodes[id]
             m == nodes[id]
             k == kind(id)
  <2>1. NodeTyped(n, R)
    BY <1>3, Zenon DEF Sound, NodesTyped
  <2>2. k \in NodeKinds
    <3>1. "OpaqueBoundary" \in NodeKinds
      BY Zenon DEF NodeKinds
    <3>2. n.kind \in NodeKinds
      BY <2>1, Zenon DEF NodeTyped
    <3> QED BY <3>1, <3>2, ScoredKind, Zenon
  <2>3. m = [n EXCEPT !.kind = k]
    BY Zenon
  <2> HIDE DEF m, n, k, nodes
  <2>4. /\ DOMAIN m = NodeFields /\ m.kind = k
        /\ m.addresses = n.addresses /\ m.reachable = n.reachable
        /\ m.vendor = n.vendor /\ m.opaque_reason = n.opaque_reason
        /\ m.hostnames = n.hostnames /\ m.provenance = n.provenance
        /\ m.contested_addresses = n.contested_addresses
        /\ m.superseded_addresses = n.superseded_addresses
    BY <2>1, <2>3, Zenon DEF NodeTyped, NodeFields
  <2>5. NodeTyped(m, R)
    BY <2>1, <2>2, <2>4, Zenon DEF NodeTyped, KeptOrTaken
  <2> QED BY <2>4, <2>5, Zenon DEF m, n
<1> HIDE DEF nodes
<1>6. Keeps(g, h, R)
  <2>1. /\ DOMAIN g.nodes \subseteq DOMAIN nodes
        /\ \A id \in DOMAIN nodes : NodeTyped(nodes[id], R)
        /\ \A id \in DOMAIN g.nodes :
              /\ g.nodes[id].contested_addresses \subseteq nodes[id].contested_addresses
              /\ g.nodes[id].vendor = Local => nodes[id].vendor = Local
    BY <1>4, <1>5, Zenon
  <2> QED BY <1>3, <2>1, NewNodes, Zenon
<1>7. h.nodes = nodes /\ SameBindings(g, h)
  BY <1>3, SetNodes, Zenon DEF Sound
<1> HIDE DEF h
<1>8. NamesInDomain(h, S)
  BY <1>2, <1>4, <1>5, <1>7, Zenon DEF NamesInDomain
<1>9. Foldable(h) = {}
  BY <1>2, <1>4, <1>7, ZenonT(40) DEF Foldable, Devices, SameBindings
<1> QED BY <1>1, <1>2, <1>6, <1>8, <1>9, KeepsComposes, Zenon
------------------------------------------------------------------------------
(* One piece of evidence.                                                   *)

\* Which arm absorbs it.
LEMMA Arms ==
    ASSUME NEW g, NEW ev, NEW q, q = Qualified(ev)
    PROVE  /\ q.kind = "Network" => absorb(g, ev) = upsert_network(g, q.network, q.origin)
           /\ q.kind = "InterfaceNetwork" => absorb(g, ev) = AbsorbInterfaceNetwork(g, q)
           /\ q.kind = "Vlan" => absorb(g, ev) = AbsorbVlan(g, q)
           /\ q.kind = "VlanNetwork" => absorb(g, ev) = AbsorbVlanNetwork(g, q)
           /\ q.kind = "DeviceAddress" => absorb(g, ev) = AbsorbDeviceAddress(g, q)
           /\ q.kind = "DeviceHostname" => absorb(g, ev) = AbsorbHostname(g, q)
           /\ q.kind = "DeviceVendor" => absorb(g, ev) = AbsorbStatement(g, q, "vendor")
           /\ q.kind = "OpaqueBoundary" => absorb(g, ev) = AbsorbStatement(g, q, "opaque_reason")
           /\ q.kind \in {"DeviceDescription", "DeviceCapability"} =>
                absorb(g, ev) = AbsorbMention(g, q)
           /\ q.kind = "DeviceRoleSignal" => absorb(g, ev) = AbsorbRoleSignal(g, q)
           /\ q.kind \in {"GatewayFor", "RoutesTo", "AttachedTo"} =>
                absorb(g, ev) = AbsorbRelation(g, q)
           /\ q.kind = "BridgeLink" => absorb(g, ev) = AbsorbBridgeLink(g, q)
           /\ q.kind = "ForwardsToward" => absorb(g, ev) = AbsorbForwardsToward(g, q)
           /\ q.kind = "ObservedBehind" => absorb(g, ev) = AbsorbObservedBehind(g, q)
           /\ q.kind = "Service" => absorb(g, ev) = AbsorbService(g, q)
           /\ q.kind = "ResolvedAs" => absorb(g, ev) = AbsorbResolvedAs(g, q)
BY ZenonT(40) DEF absorb

\* Only three kinds of evidence bind an address or give a name.
LEMMA AbsorbQuiet ==
    ASSUME NEW g, NEW R, Sound(g, R), NEW ev, IsEvidence(ev), ev.origin \in R,
           ev.kind \notin {"DeviceAddress", "DeviceHostname", "ResolvedAs"}
    PROVE  Quiet(g, absorb(g, ev), R)
<1> DEFINE q == Qualified(ev)
<1>1. q.kind = ev.kind /\ q.origin \in R
  BY QualifiedFields, Zenon
<1>2. q.kind \in EvidenceKinds \ {"DeviceAddress", "DeviceHostname", "ResolvedAs"}
  BY <1>1, Zenon DEF IsEvidence
<1>3. q = Qualified(ev)
  BY Zenon
<1> HIDE DEF q
<1>4. CASE q.kind = "Network"
  <2>1. absorb(g, ev) = upsert_network(g, q.network, q.origin)
    BY <1>3, <1>4, Arms, Zenon
  <2> QED BY <1>1, <2>1, UpsertsNetwork, Zenon
<1>5. CASE q.kind = "InterfaceNetwork"
  <2>1. absorb(g, ev) = AbsorbInterfaceNetwork(g, q)
    BY <1>3, <1>5, Arms, Zenon
  <2> QED BY <1>1, <2>1, InterfaceNetworkQuiet, Zenon
<1>6. CASE q.kind \in {"Vlan", "VlanNetwork"}
  <2>1. absorb(g, ev) \in {AbsorbVlan(g, q), AbsorbVlanNetwork(g, q)}
    BY <1>3, <1>6, Arms, Zenon
  <2> QED BY <1>1, <2>1, VlansQuiet, Zenon
<1>7. CASE q.kind \in {"DeviceVendor", "OpaqueBoundary"}
  <2>1. absorb(g, ev) \in {AbsorbStatement(g, q, "vendor"), AbsorbStatement(g, q, "opaque_reason")}
    BY <1>3, <1>7, Arms, Zenon
  <2> QED BY <1>1, <2>1, StatementQuiet, Zenon
<1>8. CASE q.kind \in {"DeviceDescription", "DeviceCapability"}
  <2>1. absorb(g, ev) = AbsorbMention(g, q)
    BY <1>3, <1>8, Arms, Zenon
  <2> QED BY <1>1, <2>1, MentionQuiet, Zenon
<1>9. CASE q.kind = "DeviceRoleSignal"
  <2>1. absorb(g, ev) = AbsorbRoleSignal(g, q)
    BY <1>3, <1>9, Arms, Zenon
  <2> QED BY <1>1, <2>1, RoleSignalQuiet, Zenon
<1>10. CASE q.kind \in {"GatewayFor", "RoutesTo", "AttachedTo"}
  <2>1. absorb(g, ev) = AbsorbRelation(g, q)
    BY <1>3, <1>10, Arms, Zenon
  <2> QED BY <1>1, <2>1, RelationQuiet, Zenon
<1>11. CASE q.kind \in {"BridgeLink", "ObservedBehind"}
  <2>1. absorb(g, ev) \in {AbsorbBridgeLink(g, q), AbsorbObservedBehind(g, q)}
    BY <1>3, <1>11, Arms, Zenon
  <2> QED BY <1>1, <2>1, TwoDevicesQuiet, Zenon
<1>12. CASE q.kind = "ForwardsToward"
  <2>1. absorb(g, ev) = AbsorbForwardsToward(g, q)
    BY <1>3, <1>12, Arms, Zenon
  <2> QED BY <1>1, <2>1, ForwardsQuiet, Zenon
<1>13. CASE q.kind = "Service"
  <2>1. absorb(g, ev) = AbsorbService(g, q)
    BY <1>3, <1>13, Arms, Zenon
  <2> QED BY <1>1, <2>1, ServiceQuiet, Zenon
<1> QED
  BY <1>2, <1>4, <1>5, <1>6, <1>7, <1>8, <1>9, <1>10, <1>11, <1>12, <1>13, SMTT(30) DEF EvidenceKinds

\* A vendor that this machine states of a station is the station's.
LEMMA AbsorbVendor ==
    ASSUME NEW g, NEW R, Sound(g, R), NEW ev, IsEvidence(ev), ev.origin \in R,
           ev.kind = "DeviceVendor", ev.origin = Local, IsMac(ev.device)
    PROVE  /\ Device(ev.device) \in DOMAIN absorb(g, ev).nodes
           /\ absorb(g, ev).nodes[Device(ev.device)].vendor = Local
<1> DEFINE q == Qualified(ev)
<1>1. q.kind = "DeviceVendor" /\ q.origin = Local /\ q.origin \in R
  BY QualifiedFields, Zenon
<1>2. q.device = ev.device
  BY QualifiedFields, Zenon DEF qualify_device
<1>3. q = Qualified(ev)
  BY Zenon
<1> HIDE DEF q
<1>4. Canonical(g, q.device, q.origin) = ev.device
  BY <1>2, Zenon DEF Canonical, canonical_key
<1>5. absorb(g, ev) = AbsorbStatement(g, q, "vendor")
  BY <1>1, <1>3, Arms, Zenon
<1>6. LET id == Device(Canonical(g, q.device, q.origin))
      IN  /\ id \in DOMAIN AbsorbStatement(g, q, "vendor").nodes
          /\ AbsorbStatement(g, q, "vendor").nodes[id].vendor = Local
  BY <1>1, StatementQuiet, Zenon
<1> QED BY <1>4, <1>5, <1>6, Zenon

\* No dispute ends and nobody leaves one.
Grows(g, h) ==
    \A slot \in DOMAIN g.contested_addresses :
        /\ slot \in DOMAIN h.contested_addresses
        /\ g.contested_addresses[slot] \subseteq h.contested_addresses[slot]

\* A claim adds to the disputes.
LEMMA ClaimGrows ==
    ASSUME NEW g, NEW h, NEW slot, NEW key, NEW source, Claimed(g, h, slot, key, source)
    PROVE  Grows(g, h)
<1>1. CASE slot \in DOMAIN g.contested_addresses
  <2>1. h.contested_addresses =
          [g.contested_addresses EXCEPT ![slot] = g.contested_addresses[slot] \cup {key}]
    BY <1>1, Zenon DEF Claimed, JoinedBy
  <2> QED BY <2>1, Zenon DEF Grows
<1>2. CASE slot \notin DOMAIN g.contested_addresses
  <2>1. \/ h.contested_addresses = g.contested_addresses
        \/ \E C : h.contested_addresses = With(g.contested_addresses, slot, C)
    BY <1>2, Zenon DEF Claimed, Rebound, Opened, SameBindings
  <2> QED BY <1>2, <2>1, ZenonT(40) DEF Grows, With
<1> QED BY <1>1, <1>2, Zenon

\* What is true of a graph and the evidence it was made from.
Faithful(g, S, R) ==
    /\ Sound(g, R)
    /\ Bound(g, S)
    /\ OwnersInDomain(g, S)
    /\ NamesInDomain(g, S)

\* Absorbing one more piece keeps it true, and takes nothing back.
LEMMA AbsorbFaithful ==
    ASSUME NEW g, NEW S, NEW R, Faithful(g, S, R), NEW ev, ev.origin \in R,
           \A e \in S \cup {ev} : IsEvidence(e)
    PROVE  LET h == absorb(g, ev)
           IN  /\ Faithful(h, S \cup {ev}, R) /\ Stays(g, h) /\ Grows(g, h)
               /\ ev.kind # "DeviceAddress" => SameBindings(g, h)
<1> DEFINE h == absorb(g, ev)
           T == S \cup {ev}
           q == Qualified(ev)
<1>1. IsEvidence(ev)
  BY Zenon
<1>2. OwnersInDomain(g, T) /\ NamesInDomain(g, T) /\ ev \in T
  <2>1. S \subseteq T /\ ev \in T
    BY Zenon
  <2> HIDE DEF T
  <2> QED BY <2>1, MoreEvidence, Zenon DEF Faithful
<1>3. q = Qualified(ev) /\ Sound(g, R) /\ Bound(g, S)
  BY Zenon DEF Faithful
<1>4. /\ q.kind = ev.kind /\ q.origin = ev.origin /\ q.origin \in R
      /\ q.source = ev.source /\ q.vantage = ev.vantage
      /\ ev.kind \in {"DeviceAddress", "DeviceHostname", "DeviceVendor"} =>
            q.device.of = ev.device.of /\ Qualifies(q.device, q.origin)
      /\ ev.kind = "DeviceAddress" => q.address = ev.address /\ ev.address \in Addresses
      /\ ev.kind = "DeviceHostname" => q.about = ev.device.of
  <2>1. ev.kind = "DeviceAddress" => ev.address \in Addresses
    BY <1>1, Zenon DEF IsEvidence
  <2> QED BY <1>1, <2>1, QualifiedFields, Zenon
<1> HIDE DEF q, h
<1>5. ASSUME ev.kind # "DeviceAddress", Keeps(g, h, R), NamesInDomain(h, T)
      PROVE  Faithful(h, T, R) /\ Stays(g, h) /\ Grows(g, h) /\ SameBindings(g, h)
  <2>1. Sound(h, R) /\ Stays(g, h) /\ SameBindings(g, h)
    BY <1>5, Zenon DEF Keeps
  <2>2. Bound(h, T)
    BY <1>3, <1>5, <2>1, KeptBound, NoClaimBound, Zenon
  <2>3. OwnersInDomain(h, T)
    BY <1>2, <2>1, Zenon DEF OwnersInDomain, SameBindings
  <2>4. Grows(g, h)
    BY <2>1, Zenon DEF Grows, SameBindings
  <2> QED BY <1>5, <2>1, <2>2, <2>3, <2>4, Zenon DEF Faithful
<1>6. CASE ev.kind \notin {"DeviceAddress", "DeviceHostname", "ResolvedAs"}
  <2>1. Quiet(g, h, R)
    BY <1>1, <1>3, <1>6, AbsorbQuiet, Zenon DEF h
  <2>2. NamesInDomain(h, T)
    BY <1>2, <2>1, QuietNames, Zenon DEF Quiet
  <2> QED BY <1>5, <1>6, <2>1, <2>2, Zenon DEF Quiet, h, T
<1>7. CASE ev.kind = "DeviceHostname"
  <2>1. h = AbsorbHostname(g, q)
    BY <1>3, <1>4, <1>7, Arms, Zenon DEF h
  <2>2. Keeps(g, h, R) /\ NamesInDomain(h, T)
    BY <1>2, <1>3, <1>4, <1>7, <2>1, HostnameKeeps, Zenon
  <2>3. ev.kind # "DeviceAddress"
    BY <1>7, Zenon
  <2> QED BY <1>5, <2>2, <2>3, Zenon DEF h, T
<1>8. CASE ev.kind = "ResolvedAs"
  <2>1. h = AbsorbResolvedAs(g, q)
    BY <1>3, <1>4, <1>8, Arms, Zenon DEF h
  <2>2. Keeps(g, h, R) /\ NamesInDomain(h, T)
    BY <1>2, <1>3, <1>4, <2>1, ResolvedAsKeeps, Zenon
  <2>3. ev.kind # "DeviceAddress"
    BY <1>8, Zenon
  <2> QED BY <1>5, <2>2, <2>3, Zenon DEF h, T
<1>9. CASE ev.kind = "DeviceAddress"
  <2> DEFINE key == canonical_key(g, q.device, q.address, q.origin)
             slot == Slot(ev.address, ev.vantage, ev.origin)
  <2>1. h = AbsorbDeviceAddress(g, q)
    BY <1>3, <1>4, <1>9, Arms, Zenon DEF h
  <2>2. slot = Slot(q.address, q.vantage, q.origin) /\ q.address \in Addresses
    BY <1>4, <1>9, Zenon
  <2>3. Binds(g, h, R) /\ Device(key) \in DOMAIN h.nodes /\ Claimed(g, h, slot, key, q.source)
    BY <1>3, <1>4, <2>1, <2>2, DeviceAddressBinds, Zenon
  <2>4. ev.source = "probe" =>
           \/ IsMac(ev.device) /\ key = Claimant(ev)
           \/ ~IsMac(ev.device) /\ (slot \in DOMAIN g.address_owner => g.address_owner[slot] = key)
    BY <1>1, <1>3, <1>9, ClaimKey, Zenon
  <2>5. slot[1] = ev.address /\ (ev.address \notin GloballyUnique => slot[3] = ev.origin)
    BY Zenon DEF Slot, RealmOf
  <2>6. slot[1] \notin GloballyUnique => InDomain(key, slot[1], slot[3], T)
    <3> SUFFICES ASSUME ev.address \notin GloballyUnique
                 PROVE  InDomain(key, ev.address, ev.origin, T)
      BY <2>5, Zenon
    <3>1. ~IsMac(q.device) =>
             \E e \in PollsOf(q.origin, T) : e.device.of = q.device.of /\ e.address = q.address
      <4>1. IsMac(q.device) <=> IsMac(ev.device)
        BY <1>4, <1>9, Zenon DEF IsMac
      <4> HIDE DEF T
      <4>2. ~IsMac(ev.device) => ev \in PollsOf(q.origin, T)
        BY <1>2, <1>4, <1>9, Zenon DEF PollsOf
      <4> QED BY <1>4, <1>9, <4>1, <4>2, Zenon
    <3>2. Qualifies(q.device, q.origin) /\ q.address \notin GloballyUnique
      BY <1>4, <1>9, Zenon
    <3>3. InDomain(canonical_key(g, q.device, q.address, q.origin), q.address, q.origin, T)
      BY <1>2, <3>1, <3>2, ClaimKeyInDomain, Zenon
    <3> QED BY <1>4, <1>9, <3>3, Zenon
  <2>7. \A e \in T : e.kind = "DeviceAddress" => Claimant(e).of = e.device.of
    <3> SUFFICES ASSUME NEW e \in T, e.kind = "DeviceAddress"
                 PROVE  Claimant(e).of = e.device.of
      BY Zenon
    <3>1. IsEvidence(e)
      BY Zenon
    <3>2. /\ e.device = [of |-> e.device.of, zone |-> e.device.zone, realm |-> Local]
          /\ e.device.of \in Macs \cup Addresses
      BY <3>1, Zenon DEF IsEvidence
    <3> QED BY <3>2, QualifiesDevice, Zenon DEF Claimant
  <2> HIDE DEF key, slot
  <2>8. Claimed(g, h, slot, key, ev.source) /\ Stays(g, h) /\ Sound(h, R) /\ NoNewNames(g, h)
    BY <1>4, <2>3, Zenon DEF Binds
  <2>9. Bound(h, T)
    BY <1>3, <1>9, <2>3, <2>4, <2>7, <2>8, ClaimBound, Zenon DEF slot
  <2>10. OwnersInDomain(h, T)
    BY <1>2, <2>6, <2>8, ClaimInDomain, Zenon
  <2>11. NamesInDomain(h, T)
    BY <1>2, <2>8, QuietNames, Zenon
  <2>12. Grows(g, h)
    BY <2>8, ClaimGrows, Zenon
  <2> QED BY <1>9, <2>8, <2>9, <2>10, <2>11, <2>12, Zenon DEF Faithful, h, T
<1> QED BY <1>6, <1>7, <1>8, <1>9, Zenon
------------------------------------------------------------------------------
(* The specification.                                                       *)

\* The inductive invariant.
GraphInv ==
    /\ world \in Alphabets /\ seen \subseteq world /\ final \in BOOLEAN
    /\ Faithful(graph, seen, Realms)
    /\ LocalVendorKept
    /\ final => Foldable(graph) = {}

\* The empty graph says nothing.
LEMMA GraphInit == Init => GraphInv
<1> SUFFICES ASSUME Init PROVE GraphInv
  BY Zenon
<1>1. graph = EmptyGraph /\ seen = {} /\ final = FALSE /\ world \in Alphabets
  BY Zenon DEF Init
<1>2. /\ DOMAIN graph = GraphFields
      /\ graph.nodes = << >> /\ graph.edges = {} /\ graph.role_weights = << >>
      /\ graph.address_owner = << >> /\ graph.address_binding = << >>
      /\ graph.contested_addresses = << >>
  BY <1>1, Zenon DEF EmptyGraph, GraphFields
<1>3. DOMAIN << >> = {}
  OBVIOUS
<1>4. Sound(graph, Realms)
  BY <1>2, <1>3, Zenon DEF Sound, NodesTyped, EdgesJoin, Weighed
<1>5. Bound(graph, seen)
  <2>1. \A slot : AnsweredBy(seen, slot) = {}
    BY <1>1, Zenon DEF AnsweredBy
  <2> QED BY <1>2, <1>3, <2>1, Zenon DEF Bound, OwnersBound, AnswersHold, DisputesBound
<1>6. OwnersInDomain(graph, seen) /\ NamesInDomain(graph, seen)
  BY <1>2, <1>3, Zenon DEF OwnersInDomain, NamesInDomain
<1>7. LocalVendorKept
  BY <1>1, Zenon DEF LocalVendorKept
<1> QED BY <1>1, <1>4, <1>5, <1>6, <1>7, ZenonT(40) DEF GraphInv, Faithful

\* What a step of the graph keeps.
LEMMA GraphStep ==
    ASSUME GraphInv, [Next]_vars
    PROVE  GraphInv' /\ Grows(graph, graph')
<1>1. /\ world \in Alphabets /\ seen \subseteq world /\ final \in BOOLEAN
      /\ Faithful(graph, seen, Realms) /\ LocalVendorKept
  BY Zenon DEF GraphInv
<1>2. \A e \in world : IsEvidence(e) /\ e.origin \in Realms
  BY <1>1, GraphAssumption, Zenon DEF Realms
<1>3. ASSUME world' = world, Stays(graph, graph'), seen' = seen
      PROVE  LocalVendorKept'
  BY <1>1, <1>3, Zenon DEF LocalVendorKept, Stays
<1>4. ASSUME Keeps(graph, graph', Realms), NamesInDomain(graph', seen),
             UNCHANGED <<world, seen>>
      PROVE  /\ Faithful(graph', seen', Realms') /\ LocalVendorKept'
             /\ Grows(graph, graph')
  <2>1. Realms' = Realms /\ seen' = seen /\ world' = world
    BY <1>4, Zenon DEF Realms
  <2>2. Sound(graph', Realms) /\ Stays(graph, graph') /\ SameBindings(graph, graph')
    BY <1>4, Zenon DEF Keeps
  <2>3. Bound(graph', seen)
    BY <1>1, <2>2, KeptBound, Zenon DEF Faithful
  <2>4. OwnersInDomain(graph', seen)
    BY <1>1, <2>2, Zenon DEF Faithful, OwnersInDomain, SameBindings
  <2>5. Grows(graph, graph')
    BY <2>2, Zenon DEF Grows, SameBindings
  <2>6. Faithful(graph', seen, Realms)
    BY <1>4, <2>2, <2>3, <2>4, Zenon DEF Faithful
  <2>7. LocalVendorKept'
    BY <1>3, <2>1, <2>2, Zenon
  <2> QED BY <2>1, <2>5, <2>6, <2>7, Zenon
<1>5. ASSUME NEW ev \in world, Absorb(ev)
      PROVE  GraphInv' /\ Grows(graph, graph')
  <2>1. /\ final = FALSE /\ final' = final /\ world' = world
        /\ graph' = absorb(graph, ev) /\ seen' = seen \cup {ev}
    BY <1>1, <1>5, Zenon DEF Absorb
  <2>2. Realms' = Realms
    BY <2>1, Zenon DEF Realms
  <2>3. IsEvidence(ev) /\ ev.origin \in Realms /\ \A e \in seen \cup {ev} : IsEvidence(e)
    BY <1>1, <1>2, Zenon
  <2>4. /\ Faithful(graph', seen \cup {ev}, Realms)
        /\ Stays(graph, graph') /\ Grows(graph, graph')
    BY <1>1, <2>1, <2>3, AbsorbFaithful, Zenon
  <2>5. LocalVendorKept'
    <3> SUFFICES ASSUME NEW e \in seen', e.kind = "DeviceVendor", e.origin = Local, IsMac(e.device)
                 PROVE  /\ Device(e.device) \in DOMAIN graph'.nodes
                        /\ graph'.nodes[Device(e.device)].vendor = Local
      BY Zenon DEF LocalVendorKept
    <3>1. CASE e \in seen
      <4>1. /\ Device(e.device) \in DOMAIN graph.nodes
            /\ graph.nodes[Device(e.device)].vendor = Local
        BY <1>1, <3>1, Zenon DEF LocalVendorKept
      <4> QED BY <2>4, <4>1, Zenon DEF Stays
    <3>2. CASE e = ev
      <4>1. Sound(graph, Realms)
        BY <1>1, Zenon DEF Faithful
      <4> QED BY <2>1, <2>3, <3>2, <4>1, AbsorbVendor, Zenon
    <3> QED BY <2>1, <3>1, <3>2, Zenon
  <2>6. seen' \subseteq world
    BY <1>1, <2>1, Zenon
  <2> QED BY <1>1, <2>1, <2>2, <2>4, <2>5, <2>6, Zenon DEF GraphInv
<1>6. CASE Merge
  <2>1. /\ final = FALSE /\ final' = final /\ UNCHANGED <<world, seen>>
        /\ graph' = merge_address_identities(graph)
    BY <1>1, <1>6, Zenon DEF Merge
  <2>2. Keeps(graph, graph', Realms) /\ NamesInDomain(graph', seen)
    BY <1>1, <2>1, MergeKeeps, Zenon DEF Faithful
  <2>3. Faithful(graph', seen', Realms') /\ LocalVendorKept' /\ Grows(graph, graph')
    BY <1>4, <2>1, <2>2, Zenon
  <2> QED BY <1>1, <2>1, <2>3, Zenon DEF GraphInv
<1>7. CASE Finalize
  <2>1. final' = TRUE /\ UNCHANGED <<world, seen>> /\ graph' = finalize_roles(graph)
    BY <1>7, Zenon DEF Finalize
  <2>2. /\ Keeps(graph, graph', Realms) /\ NamesInDomain(graph', seen)
        /\ Foldable(graph') = {}
    BY <1>1, <2>1, FinalizeKeeps, Zenon DEF Faithful
  <2>3. Faithful(graph', seen', Realms') /\ LocalVendorKept' /\ Grows(graph, graph')
    BY <1>4, <2>1, <2>2, SMTT(30)
  <2> QED BY <1>1, <2>1, <2>2, <2>3, Zenon DEF GraphInv
<1>8. CASE UNCHANGED vars
  <2>1. graph' = graph /\ world' = world /\ seen' = seen /\ final' = final
    BY <1>8, Zenon DEF vars
  <2>2. Grows(graph, graph')
    BY <2>1, Zenon DEF Grows
  <2> QED BY <2>1, <2>2, Zenon DEF GraphInv, Realms, LocalVendorKept
<1> QED BY <1>5, <1>6, <1>7, <1>8, Zenon DEF Next, Returned

\* The invariant implies what the graph promises.
LEMMA GraphPromises ==
    ASSUME GraphInv
    PROVE  DisputesSound /\ AnsweredNowHolds /\ PeersStayApart /\ ReportedOnce
<1>1. /\ world \in Alphabets /\ seen \subseteq world /\ final \in BOOLEAN
      /\ Sound(graph, Realms) /\ Bound(graph, seen)
      /\ NamesInDomain(graph, seen)
      /\ LocalVendorKept
      /\ final => Foldable(graph) = {}
  BY Zenon DEF GraphInv, Faithful
<1>2. \A slot : AnsweredBy(seen, slot) = Answered(slot) /\ (AnonymousBy(seen, slot) <=> Anonymous(slot))
  <2> TAKE slot
  <2>1. Anonymous(slot) <=> AnonymousBy(seen, slot)
    BY Zenon DEF Anonymous, AnonymousBy
  <2>2. \A key : key \in AnsweredBy(seen, slot) <=> key \in Answered(slot)
    BY Zenon DEF AnsweredBy, Answered, Claims
  <2> QED BY <2>1, <2>2, Zenon
<1>3. TypeOK
  <2>1. ASSUME NEW id \in DOMAIN graph.nodes
        PROVE  LET n == graph.nodes[id]
               IN  /\ n.kind \in NodeKinds
                   /\ n.addresses \subseteq Addresses
                   /\ n.reachable \subseteq n.addresses
                   /\ n.contested_addresses \subseteq Addresses
                   /\ n.provenance \subseteq Realms
                   /\ {n.vendor, n.opaque_reason} \subseteq Realms \cup {Nobody}
    <3>1. NodeTyped(graph.nodes[id], Realms)
      BY <1>1, Zenon DEF Sound, NodesTyped
    <3> QED BY <3>1, Zenon DEF NodeTyped
  <2> QED BY <1>1, <2>1, SMTT(30) DEF TypeOK, Sound, Bound, Weighed
<1>4. DisputedIsUnowned
  <2> SUFFICES ASSUME NEW slot \in DOMAIN graph.contested_addresses
               PROVE  /\ slot \notin DOMAIN graph.address_owner
                      /\ \A key \in graph.contested_addresses[slot] :
                            IsMac(key) =>
                              /\ Device(key) \in DOMAIN graph.nodes
                              /\ LET n == graph.nodes[Device(key)]
                                 IN  /\ slot[1] \in n.contested_addresses
                                     /\ \/ slot[1] \in n.addresses
                                        \/ \E taken \in n.superseded_addresses : taken[1] = slot[1]
    BY Zenon DEF DisputedIsUnowned
  <2>1. slot \notin DOMAIN graph.address_owner
    BY <1>1, Zenon DEF Bound, OwnersBound
  <2>2. ASSUME NEW key \in graph.contested_addresses[slot], IsMac(key)
        PROVE  /\ Device(key) \in DOMAIN graph.nodes
               /\ slot[1] \in graph.nodes[Device(key)].contested_addresses
               /\ KeptOrTaken(graph.nodes[Device(key)])
    <3>1. /\ Device(key) \in DOMAIN graph.nodes
          /\ slot[1] \in graph.nodes[Device(key)].contested_addresses
      BY <1>1, <2>2, Zenon DEF Bound, DisputesBound
    <3>2. NodeTyped(graph.nodes[Device(key)], Realms)
      BY <1>1, <3>1, Zenon DEF Sound, NodesTyped
    <3> QED BY <3>1, <3>2, Zenon DEF NodeTyped
  <2> QED BY <2>1, <2>2, Zenon DEF KeptOrTaken
<1>5. DisputesAreReal
  <2> SUFFICES ASSUME NEW slot \in DOMAIN graph.contested_addresses
               PROVE  LET answered == graph.contested_addresses[slot] \cap Answered(slot)
                      IN  (\E a, b \in answered : a # b) \/ (answered # {} /\ Anonymous(slot))
    BY Zenon DEF DisputesAreReal
  <2> DEFINE C == graph.contested_addresses[slot]
             answered == C \cap Answered(slot)
  <2>1. Contends(C, seen, slot)
    BY <1>1, Zenon DEF Bound, DisputesBound
  <2>2. (\E a, b \in answered : a # b) \/ (answered # {} /\ Anonymous(slot))
    <3> HIDE DEF C
    <3> QED BY <1>2, <2>1, Zenon DEF Contends
  <2> QED BY <2>2, Zenon
<1>6. AnsweredNowHolds
  BY <1>1, <1>2, Zenon DEF AnsweredNowHolds, Bound, AnswersHold
<1>7. NamesStayInDomain
  <2> SUFFICES ASSUME NEW id \in Devices(graph), NEW h \in graph.nodes[id].hostnames,
                      h[1] \notin GloballyUnique
               PROVE  \/ id[2].realm = h[2]
                      \/ IsMac(id[2]) /\ id[2].of \in GloballyUnique
                      \/ Disclosed(h[1], h[2])
    BY Zenon DEF NamesStayInDomain
  <2>1. id \in DOMAIN graph.nodes /\ id[1] = "device"
    BY Zenon DEF Devices
  <2>2. InDomain(id[2], h[1], h[2], seen)
    BY <1>1, <2>1, Zenon DEF NamesInDomain
  <2>3. Shown(h[1], h[2], seen) => Disclosed(h[1], h[2])
    BY Zenon DEF Shown, PollsOf, Disclosed
  <2> QED BY <2>2, <2>3, Zenon DEF InDomain
<1>8. ReportedOnce
  BY <1>1, Zenon DEF ReportedOnce, Sound, EdgesJoin, Weighed, Devices
<1> QED BY <1>1, <1>3, <1>4, <1>5, <1>6, <1>7, <1>8, Zenon DEF DisputesSound, PeersStayApart

\* The inductive invariant holds of every reachable graph.
THEOREM GraphInvariant == Spec => []GraphInv
<1>1. GraphInv /\ [Next]_vars => GraphInv'
  BY GraphStep, Zenon
<1> QED BY <1>1, GraphInit, PTL DEF Spec

\* bind_address, for any evidence in any order: the address in a dispute is nobody's,
\* two answers opened it, and every station in it is reported and says so.
THEOREM DisputesAreSound == Spec => []DisputesSound
<1>1. GraphInv => DisputesSound
  BY GraphPromises, Zenon
<1> QED BY <1>1, GraphInvariant, PTL

\* A memory never displaces an answer (binding_freshness).
THEOREM AnswersAreKept == Spec => []AnsweredNowHolds
<1>1. GraphInv => AnsweredNowHolds
  BY GraphPromises, Zenon
<1> QED BY <1>1, GraphInvariant, PTL

\* Names stay in the domain that stated them and a local vendor is not replaced, for
\* any number of peers (qualify_device, merge_vendor).
THEOREM PeersAreKeptApart == Spec => []PeersStayApart
<1>1. GraphInv => PeersStayApart
  BY GraphPromises, Zenon
<1> QED BY <1>1, GraphInvariant, PTL

\* After finalize_roles nothing is left to fold and edges and signals are on what
\* remains.
THEOREM DevicesReportedOnce == Spec => []ReportedOnce
<1>1. GraphInv => ReportedOnce
  BY GraphPromises, Zenon
<1> QED BY <1>1, GraphInvariant, PTL

\* Disputes are never closed and lose no claimant.
THEOREM DisputesAreKept == Spec => DisputesOnlyGrow
<1>1. GraphInv /\ [Next]_vars =>
        [\A slot \in DOMAIN graph.contested_addresses :
           /\ slot \in DOMAIN graph'.contested_addresses
           /\ graph.contested_addresses[slot] \subseteq graph'.contested_addresses[slot]]_vars
  BY GraphStep, Zenon DEF Grows
<1> QED BY <1>1, GraphInvariant, PTL DEF Spec, DisputesOnlyGrow

------------------------------------------------------------------------------
(* Kinds, boundaries and role signals: most operations leave them alone.    *)

\* Graphs and their nodes have the fields they are made with.
Shaped(g) ==
    /\ DOMAIN g = GraphFields
    /\ \A id \in DOMAIN g.nodes : DOMAIN g.nodes[id] = NodeFields

\* No signal, no boundary and no kind is changed, and a new device is a host, or is in B.
Unmarked(g, h, B) ==
    /\ Shaped(h)
    /\ h.role_weights = g.role_weights
    /\ \A id \in DOMAIN g.nodes :
          /\ id \in DOMAIN h.nodes
          /\ h.nodes[id].kind = g.nodes[id].kind
          /\ h.nodes[id].opaque_reason = g.nodes[id].opaque_reason
    /\ \A id \in DOMAIN h.nodes : id \notin DOMAIN g.nodes =>
          /\ h.nodes[id].opaque_reason = Nobody
          /\ id[1] = "device" => h.nodes[id].kind = "Host" \/ id \in B

\* A sound graph has the shape.
LEMMA SoundShaped ==
    ASSUME NEW g, NEW R, Sound(g, R)
    PROVE  Shaped(g)
BY Zenon DEF Sound, NodesTyped, NodeTyped, Shaped

\* Doing nothing marks nothing.
LEMMA UnmarkedItself ==
    ASSUME NEW g, Shaped(g), NEW B
    PROVE  Unmarked(g, g, B)
BY Zenon DEF Unmarked

\* Operations that mark nothing compose.
LEMMA UnmarkedComposes ==
    ASSUME NEW g, NEW h, NEW k, NEW B, Unmarked(g, h, B), Unmarked(h, k, B)
    PROVE  Unmarked(g, k, B)
<1>1. Shaped(k) /\ k.role_weights = g.role_weights
  BY Zenon DEF Unmarked
<1>2. ASSUME NEW id \in DOMAIN g.nodes
      PROVE  /\ id \in DOMAIN k.nodes
             /\ k.nodes[id].kind = g.nodes[id].kind
             /\ k.nodes[id].opaque_reason = g.nodes[id].opaque_reason
  BY Zenon DEF Unmarked
<1>3. ASSUME NEW id \in DOMAIN k.nodes, id \notin DOMAIN g.nodes
      PROVE  /\ k.nodes[id].opaque_reason = Nobody
             /\ id[1] = "device" => k.nodes[id].kind = "Host" \/ id \in B
  <2>1. CASE id \in DOMAIN h.nodes
    BY <1>3, <2>1, Zenon DEF Unmarked
  <2>2. CASE id \notin DOMAIN h.nodes
    BY <2>2, Zenon DEF Unmarked
  <2> QED BY <2>1, <2>2, Zenon
<1> QED BY <1>1, <1>2, <1>3, Zenon DEF Unmarked

\* The same, for a step that keeps every node and signal as it was.
LEMMA UnmarkedSame ==
    ASSUME NEW g, Shaped(g), NEW h, DOMAIN h = GraphFields, h.nodes = g.nodes,
           h.role_weights = g.role_weights, NEW B
    PROVE  Unmarked(g, h, B)
BY Zenon DEF Unmarked, Shaped

\* Mentioning a node.
LEMMA UpsertUnmarked ==
    ASSUME NEW g, Shaped(g), NEW id, NEW kind, NEW realm, NEW B,
           id[1] = "device" => kind = "Host" \/ id \in B
    PROVE  LET h == upsert(g, id, kind, realm)
           IN  Unmarked(g, h, B) /\ DOMAIN h.nodes = DOMAIN g.nodes \cup {id}
<1> DEFINE node == IF id \in DOMAIN g.nodes THEN g.nodes[id] ELSE NewNode(kind)
           m == [node EXCEPT !.provenance = @ \cup {realm}]
           nodes == With(g.nodes, id, m)
           h == [g EXCEPT !.nodes = nodes]
<1>1. upsert(g, id, kind, realm) = h
  BY Zenon DEF upsert
<1>2. /\ id \in DOMAIN g.nodes => node = g.nodes[id]
      /\ id \notin DOMAIN g.nodes => node = NewNode(kind)
  BY Zenon
<1>3. /\ DOMAIN NewNode(kind) = NodeFields
      /\ NewNode(kind).kind = kind /\ NewNode(kind).opaque_reason = Nobody
  BY Zenon DEF NewNode, NodeFields
<1>4. DOMAIN node = NodeFields
  BY <1>2, <1>3, Zenon DEF Shaped
<1> HIDE DEF node
<1>5. DOMAIN m = NodeFields /\ m.kind = node.kind /\ m.opaque_reason = node.opaque_reason
  BY <1>4, Zenon DEF NodeFields
<1> HIDE DEF m
<1>6. /\ DOMAIN nodes = DOMAIN g.nodes \cup {id}
      /\ nodes[id] = m
      /\ \A x \in DOMAIN g.nodes : x # id => nodes[x] = g.nodes[x]
  BY Zenon DEF With
<1> HIDE DEF nodes
<1>7. DOMAIN h = GraphFields /\ h.nodes = nodes /\ h.role_weights = g.role_weights
  BY SetNodes, Zenon DEF Shaped
<1> HIDE DEF h
<1>8. Shaped(h)
  BY <1>5, <1>6, <1>7, Zenon DEF Shaped
<1>9. ASSUME NEW x \in DOMAIN g.nodes
      PROVE  /\ x \in DOMAIN h.nodes
             /\ h.nodes[x].kind = g.nodes[x].kind
             /\ h.nodes[x].opaque_reason = g.nodes[x].opaque_reason
  BY <1>2, <1>5, <1>6, <1>7, Zenon
<1>10. ASSUME NEW x \in DOMAIN h.nodes, x \notin DOMAIN g.nodes
       PROVE  /\ h.nodes[x].opaque_reason = Nobody
              /\ x[1] = "device" => h.nodes[x].kind = "Host" \/ x \in B
  <2>1. x = id
    BY <1>6, <1>7, <1>10, Zenon
  <2> QED BY <1>2, <1>3, <1>5, <1>6, <1>7, <1>10, <2>1, Zenon
<1> QED BY <1>1, <1>6, <1>7, <1>8, <1>9, <1>10, Zenon DEF Unmarked

\* Mentioning a device.
LEMMA UpsertHost ==
    ASSUME NEW g, Shaped(g), NEW id, NEW realm, NEW B
    PROVE  LET h == upsert(g, id, "Host", realm)
           IN  Unmarked(g, h, B) /\ Shaped(h) /\ id \in DOMAIN h.nodes
<1>1. LET h == upsert(g, id, "Host", realm)
      IN  Unmarked(g, h, B) /\ DOMAIN h.nodes = DOMAIN g.nodes \cup {id}
  BY UpsertUnmarked, ZenonT(40)
<1> QED BY <1>1, Zenon DEF Unmarked

\* Linking two nodes.
LEMMA LinkUnmarked ==
    ASSUME NEW g, Shaped(g), NEW from, NEW to, NEW relationship, NEW B
    PROVE  Unmarked(g, link(g, from, to, relationship), B)
<1> DEFINE edges == g.edges \cup {<<from, to, relationship>>}
           h == [g EXCEPT !.edges = edges]
<1>1. link(g, from, to, relationship) = h
  BY Zenon DEF link
<1>2. DOMAIN h = GraphFields /\ h.nodes = g.nodes /\ h.role_weights = g.role_weights
  <2> HIDE DEF edges
  <2> QED BY SetEdges, Zenon DEF Shaped
<1> HIDE DEF h
<1> QED BY <1>1, <1>2, UnmarkedSame, Zenon

\* A node gives way to one of the same kind with the same boundary.
LEMMA ReplaceUnmarked ==
    ASSUME NEW g, Shaped(g), NEW id \in DOMAIN g.nodes, NEW m, DOMAIN m = NodeFields,
           m.kind = g.nodes[id].kind, m.opaque_reason = g.nodes[id].opaque_reason, NEW B
    PROVE  Unmarked(g, [g EXCEPT !.nodes[id] = m], B)
<1> DEFINE nodes == [g.nodes EXCEPT ![id] = m]
           h == [g EXCEPT !.nodes = nodes]
<1>1. [g EXCEPT !.nodes[id] = m] = h
  BY Zenon
<1>2. /\ DOMAIN nodes = DOMAIN g.nodes
      /\ nodes[id] = m
      /\ \A x \in DOMAIN g.nodes : x # id => nodes[x] = g.nodes[x]
  BY Zenon
<1> HIDE DEF nodes
<1>3. DOMAIN h = GraphFields /\ h.nodes = nodes /\ h.role_weights = g.role_weights
  BY SetNodes, ZenonT(40) DEF Shaped
<1> HIDE DEF h
<1> QED BY <1>1, <1>2, <1>3, ZenonT(40) DEF Unmarked, Shaped

\* The same for a node that may not be there.
LEMMA UpdateUnmarked ==
    ASSUME NEW g, Shaped(g), NEW id, NEW m, NEW B,
           id \in DOMAIN g.nodes =>
              /\ DOMAIN m = NodeFields
              /\ m.kind = g.nodes[id].kind /\ m.opaque_reason = g.nodes[id].opaque_reason
    PROVE  Unmarked(g, Update(g, id, m), B)
<1>1. CASE id \in DOMAIN g.nodes
  BY <1>1, ReplaceUnmarked, Zenon DEF Update
<1>2. CASE id \notin DOMAIN g.nodes
  BY <1>2, UnmarkedItself, Zenon DEF Update
<1> QED BY <1>1, <1>2, Zenon

\* What is done to the addresses of a node changes neither its kind nor its boundary.
LEMMA AddressedNode ==
    ASSUME NEW n, DOMAIN n = NodeFields, NEW address, NEW realm, NEW m,
           \/ m = Hold(n, address, realm)
           \/ m = supersede_address(n, address, realm)
           \/ m = Dispute(n, address, realm)
    PROVE  DOMAIN m = NodeFields /\ m.kind = n.kind /\ m.opaque_reason = n.opaque_reason
<1> DEFINE o == Hold(n, address, realm)
           s == supersede_address(n, address, realm)
           d == [o EXCEPT !.contested_addresses = o.contested_addresses \cup {address}]
<1>1. DOMAIN o = NodeFields /\ o.kind = n.kind /\ o.opaque_reason = n.opaque_reason
  BY Zenon DEF Hold, NodeFields
<1>2. DOMAIN s = NodeFields /\ s.kind = n.kind /\ s.opaque_reason = n.opaque_reason
  BY Zenon DEF supersede_address, NodeFields
<1>3. Dispute(n, address, realm) = d
  BY Zenon DEF Dispute
<1> HIDE DEF o, s
<1>4. DOMAIN d = NodeFields /\ d.kind = o.kind /\ d.opaque_reason = o.opaque_reason
  BY <1>1, Zenon DEF NodeFields
<1> HIDE DEF d
<1>5. CASE m = Hold(n, address, realm)
  BY <1>1, <1>5, Zenon DEF o
<1>6. CASE m = supersede_address(n, address, realm)
  BY <1>2, <1>6, Zenon DEF s
<1>7. CASE m = Dispute(n, address, realm)
  BY <1>1, <1>3, <1>4, <1>7, Zenon
<1> QED BY <1>5, <1>6, <1>7, Zenon

\* One operation more.
LEMMA ThenUpsert ==
    ASSUME NEW g, NEW h, NEW B, Unmarked(g, h, B), NEW id, NEW kind, NEW realm,
           id[1] = "device" => kind = "Host" \/ id \in B
    PROVE  Unmarked(g, upsert(h, id, kind, realm), B)
<1>1. Shaped(h)
  BY Zenon DEF Unmarked
<1>2. Unmarked(h, upsert(h, id, kind, realm), B)
  BY <1>1, UpsertUnmarked, Zenon
<1> QED BY <1>2, UnmarkedComposes, Zenon

\* A link after it.
LEMMA ThenLink ==
    ASSUME NEW g, NEW h, NEW B, Unmarked(g, h, B), NEW from, NEW to, NEW relationship
    PROVE  Unmarked(g, link(h, from, to, relationship), B)
<1>1. Shaped(h)
  BY Zenon DEF Unmarked
<1>2. Unmarked(h, link(h, from, to, relationship), B)
  BY <1>1, LinkUnmarked, Zenon
<1> QED BY <1>2, UnmarkedComposes, Zenon

\* What the identifiers of nodes begin with.
LEMMA NodeNames ==
    /\ \A prefix, realm : Network(prefix, realm)[1] = "network"
    /\ \A name, realm : Vlan(name, realm)[1] = "vlan" /\ Interface(name, realm)[1] = "interface"
    /\ \A address, port, realm : Service(address, port, realm)[1] = "service"
    /\ \A key : Device(key)[1] = "device" /\ Device(key)[2] = key
BY Zenon DEF Network, Vlan, Interface, Service, Device

\* A network after it.
LEMMA ThenNetwork ==
    ASSUME NEW g, NEW h, NEW B, Unmarked(g, h, B), NEW prefix, NEW realm
    PROVE  Unmarked(g, upsert_network(h, prefix, realm), B)
<1>1. Network(prefix, realm)[1] # "device"
  BY NodeNames, Zenon
<1> QED BY <1>1, ThenUpsert, Zenon DEF upsert_network

\* The arms that are about no device.
LEMMA PlacesUnmarked ==
    ASSUME NEW g, Shaped(g), NEW ev, NEW B
    PROVE  /\ Unmarked(g, upsert_network(g, ev.network, ev.origin), B)
           /\ Unmarked(g, AbsorbInterfaceNetwork(g, ev), B)
           /\ Unmarked(g, AbsorbVlan(g, ev), B)
           /\ Unmarked(g, AbsorbVlanNetwork(g, ev), B)
           /\ Unmarked(g, AbsorbService(g, ev), B)
<1>0. Unmarked(g, g, B)
  BY UnmarkedItself, Zenon
<1>1. Unmarked(g, upsert_network(g, ev.network, ev.origin), B)
  BY <1>0, ThenNetwork, Zenon
<1>2. Unmarked(g, AbsorbInterfaceNetwork(g, ev), B)
  <2>1. Interface(ev.interface, ev.origin)[1] # "device"
    BY NodeNames, Zenon
  <2> QED BY <1>0, <1>1, <2>1, ThenUpsert, ThenLink, Zenon DEF AbsorbInterfaceNetwork
<1> DEFINE vlan == Vlan(ev.vlan, ev.origin)
           network == Network(ev.network, ev.origin)
           one == upsert(g, vlan, "Vlan", ev.origin)
           linked == link(upsert(one, network, "Network", ev.origin), vlan, network, "CarriesNetwork")
<1>3. vlan[1] # "device" /\ network[1] # "device"
  BY NodeNames, Zenon
<1>4. Unmarked(g, one, B) /\ Unmarked(g, linked, B)
  <2> HIDE DEF vlan, network
  <2> QED BY <1>0, <1>3, ThenUpsert, ThenLink, Zenon
<1>5. ASSUME NEW h, Unmarked(g, h, B), NEW x, NEW k, k = [h EXCEPT !.vlans_without_prefix = x]
      PROVE  Unmarked(g, k, B)
  <2>1. Shaped(h)
    BY <1>5, Zenon DEF Unmarked
  <2>2. DOMAIN k = GraphFields /\ k.nodes = h.nodes /\ k.role_weights = h.role_weights
    BY <1>5, <2>1, Zenon DEF Shaped, GraphFields
  <2>3. Unmarked(h, k, B)
    BY <2>1, <2>2, UnmarkedSame, Zenon
  <2> QED BY <1>5, <2>3, UnmarkedComposes, Zenon
<1>6. Unmarked(g, AbsorbVlan(g, ev), B)
  <2>1. AbsorbVlan(g, ev) = [one EXCEPT !.vlans_without_prefix = one.vlans_without_prefix \cup {vlan}]
    BY Zenon DEF AbsorbVlan
  <2> HIDE DEF one, vlan
  <2> QED BY <1>4, <1>5, <2>1, Zenon
<1>7. Unmarked(g, AbsorbVlanNetwork(g, ev), B)
  <2>1. AbsorbVlanNetwork(g, ev) =
          [linked EXCEPT !.vlans_without_prefix = linked.vlans_without_prefix \ {vlan}]
    BY Zenon DEF AbsorbVlanNetwork
  <2> HIDE DEF linked, vlan
  <2> QED BY <1>4, <1>5, <2>1, Zenon
<1>8. Unmarked(g, AbsorbService(g, ev), B)
  <2>1. Service(ev.address, ev.port, ev.origin)[1] # "device"
    BY NodeNames, Zenon
  <2> QED BY <1>0, <2>1, ThenUpsert, ThenLink, Zenon DEF AbsorbService
<1> QED BY <1>1, <1>2, <1>6, <1>7, <1>8

\* The arms that mention devices, and only mention them.
LEMMA MentionsUnmarked ==
    ASSUME NEW g, Shaped(g), NEW ev, NEW B
    PROVE  /\ Unmarked(g, AbsorbMention(g, ev), B)
           /\ Unmarked(g, AbsorbRelation(g, ev), B)
           /\ Unmarked(g, AbsorbObservedBehind(g, ev), B)
           /\ Unmarked(g, AbsorbForwardsToward(g, ev), B)
<1>0. Unmarked(g, g, B)
  BY UnmarkedItself, Zenon
<1>1. ASSUME NEW h, Unmarked(g, h, B), NEW key
      PROVE  Unmarked(g, upsert(h, Device(key), "Host", ev.origin), B)
  BY <1>1, ThenUpsert, Zenon
<1>2. Unmarked(g, AbsorbMention(g, ev), B)
  BY <1>0, <1>1, Zenon DEF AbsorbMention
<1>3. Unmarked(g, AbsorbRelation(g, ev), B)
  <2> DEFINE id == Device(Canonical(g, ev.device, ev.origin))
             g1 == upsert_network(upsert(g, id, "Host", ev.origin), ev.network, ev.origin)
             g2 == link(g1, id, Network(ev.network, ev.origin), ev.kind)
             hop == canonical_key(g2, Key(ev.next_hop, NoZone, Local), ev.next_hop, ev.origin)
             g3 == upsert(g2, Device(hop), "Host", ev.origin)
  <2>1. AbsorbRelation(g, ev) \in {g1, g2, g3}
    BY Zenon DEF AbsorbRelation
  <2>2. Unmarked(g, g1, B)
    BY <1>0, <1>1, ThenNetwork, Zenon
  <2> HIDE DEF g1
  <2>3. Unmarked(g, g2, B)
    BY <2>2, ThenLink, Zenon
  <2> HIDE DEF g2
  <2>4. Unmarked(g, g3, B)
    BY <1>1, <2>3, Zenon
  <2> HIDE DEF g3
  <2> QED BY <2>1, <2>2, <2>3, <2>4, Zenon
<1>4. Unmarked(g, AbsorbObservedBehind(g, ev), B)
  BY <1>0, <1>1, ThenLink, Zenon DEF AbsorbObservedBehind
<1>5. Unmarked(g, AbsorbForwardsToward(g, ev), B)
  <2> DEFINE id == Device(Canonical(g, ev.device, ev.origin))
             one == upsert(g, id, "Host", ev.origin)
             h == [one EXCEPT !.egress_path = With(one.egress_path, ev.distance, id)]
             from == Device(Canonical(h, ev.previous, ev.origin))
  <2>1. AbsorbForwardsToward(g, ev) =
          IF ev.previous = Nobody \/ from = id THEN h ELSE link(h, from, id, "ForwardsToward")
    BY Zenon DEF AbsorbForwardsToward
  <2>2. Unmarked(g, one, B)
    BY <1>0, <1>1, Zenon
  <2>3. Shaped(one)
    BY <2>2, Zenon DEF Unmarked
  <2> HIDE DEF one
  <2>4. DOMAIN h = GraphFields /\ h.nodes = one.nodes /\ h.role_weights = one.role_weights
    BY <2>3, Zenon DEF Shaped, GraphFields
  <2> HIDE DEF h
  <2>5. Unmarked(g, h, B)
    BY <2>2, <2>3, <2>4, UnmarkedSame, UnmarkedComposes, Zenon
  <2> HIDE DEF from
  <2> QED BY <2>1, <2>5, ThenLink, Zenon
<1> QED BY <1>2, <1>3, <1>4, <1>5

\* BridgeLink: the devices that a BPDU names are switches when they are new.
LEMMA BridgeUnmarked ==
    ASSUME NEW g, Shaped(g), NEW ev, NEW B,
           Nobody \notin {ev.bridge, ev.root} =>
              {Device(qualify_device(ev.bridge, ev.origin)), Device(qualify_device(ev.root, ev.origin))}
                \subseteq B
    PROVE  Unmarked(g, AbsorbBridgeLink(g, ev), B)
<1> DEFINE bridge == Device(qualify_device(ev.bridge, ev.origin))
           root == Device(qualify_device(ev.root, ev.origin))
           both == upsert(upsert(g, bridge, "Switch", ev.origin), root, "Switch", ev.origin)
<1>1. Unmarked(g, g, B)
  BY UnmarkedItself, Zenon
<1>2. AbsorbBridgeLink(g, ev) =
        IF Nobody \in {ev.bridge, ev.root} THEN g
        ELSE IF bridge = root THEN both ELSE link(both, bridge, root, "PossibleUplink")
  BY Zenon DEF AbsorbBridgeLink
<1> SUFFICES ASSUME Nobody \notin {ev.bridge, ev.root} PROVE Unmarked(g, AbsorbBridgeLink(g, ev), B)
  BY <1>1, <1>2, Zenon
<1>3. bridge \in B /\ root \in B
  BY Zenon
<1> HIDE DEF bridge, root
<1>4. Unmarked(g, both, B)
  BY <1>1, <1>3, ThenUpsert, Zenon
<1> HIDE DEF both
<1> QED BY <1>2, <1>4, ThenLink, Zenon

\* The arms that state something else of a device: a name or a vendor.
LEMMA SaidUnmarked ==
    ASSUME NEW g, Shaped(g), NEW ev, NEW B
    PROVE  /\ Unmarked(g, AbsorbHostname(g, ev), B)
           /\ Unmarked(g, AbsorbResolvedAs(g, ev), B)
           /\ Unmarked(g, AbsorbStatement(g, ev, "vendor"), B)
<1>1. ASSUME NEW id, id[1] = "device", NEW name
      PROVE  LET one == upsert(g, id, "Host", ev.origin)
             IN  Unmarked(g, [one EXCEPT !.nodes[id].hostnames = @ \cup {name}], B)
  <2> DEFINE one == upsert(g, id, "Host", ev.origin)
             n == one.nodes[id]
             m == [n EXCEPT !.hostnames = n.hostnames \cup {name}]
  <2>1. Unmarked(g, one, B) /\ id \in DOMAIN one.nodes
    BY UpsertHost, Zenon
  <2>2. Shaped(one)
    BY UpsertHost, Zenon
  <2> HIDE DEF one
  <2>3. DOMAIN n = NodeFields
    BY <2>1, <2>2, Zenon DEF Shaped
  <2> HIDE DEF n
  <2>4. DOMAIN m = NodeFields /\ m.kind = n.kind /\ m.opaque_reason = n.opaque_reason
    BY <2>3, Zenon DEF NodeFields
  <2>5. [one EXCEPT !.nodes[id].hostnames = @ \cup {name}] = [one EXCEPT !.nodes[id] = m]
    BY Zenon DEF n
  <2> HIDE DEF m
  <2>6. Unmarked(one, [one EXCEPT !.nodes[id] = m], B)
    BY <2>1, <2>2, <2>4, ReplaceUnmarked, Zenon DEF n
  <2> QED BY <2>1, <2>5, <2>6, UnmarkedComposes, Zenon DEF one
<1>2. \A key : Device(key)[1] = "device"
  BY NodeNames, Zenon
<1>3. Unmarked(g, AbsorbHostname(g, ev), B)
  BY <1>1, <1>2, Zenon DEF AbsorbHostname
<1>4. Unmarked(g, AbsorbResolvedAs(g, ev), B)
  BY <1>1, <1>2, UnmarkedItself, Zenon DEF AbsorbResolvedAs
<1>5. Unmarked(g, AbsorbStatement(g, ev, "vendor"), B)
  <2> DEFINE id == Device(Canonical(g, ev.device, ev.origin))
             one == upsert(g, id, "Host", ev.origin)
             n == one.nodes[id]
             m == Stated(n, "vendor", ev.origin)
  <2>1. AbsorbStatement(g, ev, "vendor") = [one EXCEPT !.nodes[id] = m]
    BY Zenon DEF AbsorbStatement
  <2>2. Unmarked(g, one, B) /\ id \in DOMAIN one.nodes
    BY UpsertHost, Zenon
  <2>3. Shaped(one)
    BY UpsertHost, Zenon
  <2> HIDE DEF one, id
  <2>4. DOMAIN n = NodeFields
    BY <2>2, <2>3, Zenon DEF Shaped
  <2> HIDE DEF n
  <2>5. DOMAIN m = NodeFields /\ m.kind = n.kind /\ m.opaque_reason = n.opaque_reason
    BY <2>4, Zenon DEF Stated, NodeFields
  <2> HIDE DEF m
  <2>6. Unmarked(one, [one EXCEPT !.nodes[id] = m], B)
    BY <2>2, <2>3, <2>5, ReplaceUnmarked, Zenon DEF n
  <2> QED BY <2>1, <2>2, <2>6, UnmarkedComposes, Zenon
<1> QED BY <1>3, <1>4, <1>5

\* DeviceAddress: whoever gains or loses the address keeps kind and boundary.
LEMMA ClaimUnmarked ==
    ASSUME NEW g0, Shaped(g0), NEW ev, NEW B
    PROVE  Unmarked(g0, AbsorbDeviceAddress(g0, ev), B)
<1> DEFINE key == canonical_key(g0, ev.device, ev.address, ev.origin)
           id == Device(key)
           g == upsert(g0, id, "Host", ev.origin)
           slot == Slot(ev.address, ev.vantage, ev.origin)
           claim == AddressClaim(g, slot, key, ev.source)
           previous == g.address_owner[slot]
           held == Update(g, id, Hold(g.nodes[id], ev.address, ev.origin))
           owned == [held EXCEPT !.address_owner = With(held.address_owner, slot, key),
                                 !.address_binding = With(held.address_binding, slot, ev.source)]
           marked == Update(g, id, Dispute(g.nodes[id], ev.address, ev.origin))
           first == Update(g, Device(previous),
                           Dispute(g.nodes[Device(previous)], ev.address, ev.origin))
           both == Update(first, id, Dispute(first.nodes[id], ev.address, ev.origin))
           lost == Update(owned, Device(previous),
                          supersede_address(owned.nodes[Device(previous)], ev.address, key))
           late == Update(g, id, supersede_address(g.nodes[id], ev.address, previous))
           joined == [marked EXCEPT !.contested_addresses =
                        [marked.contested_addresses EXCEPT ![slot] = g.contested_addresses[slot] \cup {key}]]
           opened == [both EXCEPT
                        !.address_owner = Without(both.address_owner, slot),
                        !.address_binding = Without(both.address_binding, slot),
                        !.contested_addresses = With(both.contested_addresses, slot, {previous, key})]
           h == AbsorbDeviceAddress(g0, ev)
<1>1. h = IF slot \in DOMAIN g.contested_addresses THEN joined
          ELSE CASE claim \in {"Uncontested", "Refines"} -> owned
                 [] claim = "Supersedes" -> lost
                 [] claim = "Superseded" -> late
                 [] claim = "Refined" -> held
                 [] claim = "Contested" -> opened
  BY Zenon DEF AbsorbDeviceAddress, Joined
<1>2. claim \in {"Uncontested", "Refines", "Refined", "Supersedes", "Contested", "Superseded"}
  BY ClaimKinds, Zenon
<1>3. Unmarked(g0, g, B)
  BY UpsertHost, Zenon
<1>4. ASSUME NEW k, Unmarked(g0, k, B), NEW n, NEW m, NEW realm,
             \/ m = Hold(k.nodes[n], ev.address, realm)
             \/ m = supersede_address(k.nodes[n], ev.address, realm)
             \/ m = Dispute(k.nodes[n], ev.address, realm)
      PROVE  Unmarked(g0, Update(k, n, m), B)
  <2>1. Shaped(k)
    BY <1>4, Zenon DEF Unmarked
  <2>2. ASSUME n \in DOMAIN k.nodes
        PROVE  /\ DOMAIN m = NodeFields /\ m.kind = k.nodes[n].kind
               /\ m.opaque_reason = k.nodes[n].opaque_reason
    <3> DEFINE o == k.nodes[n]
    <3>1. DOMAIN o = NodeFields
      BY <2>1, <2>2, Zenon DEF Shaped
    <3>2. \/ m = Hold(o, ev.address, realm)
          \/ m = supersede_address(o, ev.address, realm)
          \/ m = Dispute(o, ev.address, realm)
      BY <1>4, Zenon
    <3> HIDE DEF o
    <3>3. DOMAIN m = NodeFields /\ m.kind = o.kind /\ m.opaque_reason = o.opaque_reason
      BY <3>1, <3>2, AddressedNode
    <3> QED BY <3>3, Zenon DEF o
  <2>3. Unmarked(k, Update(k, n, m), B)
    BY <2>1, <2>2, UpdateUnmarked, Zenon
  <2> QED BY <1>4, <2>3, UnmarkedComposes, Zenon
<1> HIDE DEF g, id, key, slot, claim, h, previous
<1>5. Unmarked(g0, held, B) /\ Unmarked(g0, marked, B) /\ Unmarked(g0, first, B) /\ Unmarked(g0, late, B)
  BY <1>3, <1>4, Zenon
<1> HIDE DEF held, marked, first, late
<1>6. Unmarked(g0, both, B)
  BY <1>4, <1>5, Zenon
<1> HIDE DEF both
<1>7. ASSUME NEW k, Unmarked(g0, k, B), NEW j, DOMAIN j = GraphFields, SameReport(k, j)
      PROVE  Unmarked(g0, j, B)
  <2>1. Shaped(k)
    BY <1>7, Zenon DEF Unmarked
  <2>2. Unmarked(k, j, B)
    BY <1>7, <2>1, UnmarkedSame, Zenon DEF SameReport
  <2> QED BY <1>7, <2>2, UnmarkedComposes, Zenon
<1>8. DOMAIN held = GraphFields /\ DOMAIN marked = GraphFields /\ DOMAIN both = GraphFields
  BY <1>5, <1>6, Zenon DEF Unmarked, Shaped
<1>9. Unmarked(g0, owned, B)
  <2> DEFINE x == With(held.address_owner, slot, key)
             y == With(held.address_binding, slot, ev.source)
  <2>1. owned = [held EXCEPT !.address_owner = x, !.address_binding = y]
    BY Zenon
  <2> HIDE DEF owned, x, y
  <2>2. DOMAIN owned = GraphFields /\ SameReport(held, owned)
    BY <1>8, <2>1, Zenon DEF GraphFields, SameReport
  <2> QED BY <1>5, <1>7, <2>2, Zenon
<1>10. Unmarked(g0, joined, B)
  <2> DEFINE x == [marked.contested_addresses EXCEPT ![slot] = g.contested_addresses[slot] \cup {key}]
  <2>1. joined = [marked EXCEPT !.contested_addresses = x]
    BY Zenon
  <2> HIDE DEF joined, x
  <2>2. DOMAIN joined = GraphFields /\ SameReport(marked, joined)
    BY <1>8, <2>1, SetContested, Zenon
  <2> QED BY <1>5, <1>7, <2>2, Zenon
<1>11. Unmarked(g0, opened, B)
  <2> DEFINE x == Without(both.address_owner, slot)
             y == Without(both.address_binding, slot)
             z == With(both.contested_addresses, slot, {previous, key})
  <2>1. opened = [both EXCEPT !.address_owner = x, !.address_binding = y, !.contested_addresses = z]
    BY Zenon
  <2> HIDE DEF opened, x, y, z
  <2>2. DOMAIN opened = GraphFields /\ SameReport(both, opened)
    BY <1>8, <2>1, Zenon DEF GraphFields, SameReport
  <2> QED BY <1>6, <1>7, <2>2, Zenon
<1> HIDE DEF owned, joined, opened
<1>12. Unmarked(g0, lost, B)
  BY <1>4, <1>9, Zenon
<1> HIDE DEF lost
<1>13. h \in {joined, owned, lost, late, held, opened}
  BY <1>1, <1>2
<1> QED BY <1>5, <1>9, <1>10, <1>11, <1>12, <1>13, Zenon DEF h

------------------------------------------------------------------------------
(* Where what is said of a device is noted.                                 *)

\* A key as qualification leaves it: a globally unique name is of no domain.
IsKey(key) ==
    /\ key = Key(key.of, key.zone, key.realm)
    /\ key.of \in GloballyUnique /\ key.zone = NoZone => key.realm = Local

\* The identity a name resolves to, and the nodes that what is said of it may be at:
\* it was said before the name resolved, or since.
Home(g, key) ==
    IF ~IsMac(key) /\ OwnSlot(key) \in DOMAIN g.address_owner
      THEN g.address_owner[OwnSlot(key)] ELSE key

Places(g, key) == {Device(key), Device(Home(g, key))}

\* Role signals and boundaries, as a graph has them and as evidence says them.
Noted(g, n, kind, what) ==
    \/ /\ kind = "DeviceRoleSignal"
       /\ n \in DOMAIN g.role_weights /\ what \in g.role_weights[n]
    \/ /\ kind = "OpaqueBoundary" /\ what = Nobody
       /\ n \in DOMAIN g.nodes /\ g.nodes[n].opaque_reason # Nobody

Says(ev, kind, what) ==
    \/ kind = "DeviceRoleSignal" /\ ev.kind = kind /\ what = ev.signal
    \/ kind = "OpaqueBoundary" /\ ev.kind = kind /\ what = Nobody

\* What was said is noted at a place of whom it was said of, and nothing else is.
NotesHome(g, S) ==
    /\ \A n, kind, what : Noted(g, n, kind, what) =>
          \E ev \in S : Says(ev, kind, what) /\ n \in Places(g, Claimant(ev))
    /\ \A ev \in S : \A kind, what : Says(ev, kind, what) =>
          \E n \in Places(g, Claimant(ev)) : Noted(g, n, kind, what)

\* What one piece of evidence adds to the notes, and that kinds stay.
Notes(g, h, id, ev, B) ==
    /\ \A n, kind, what : Noted(h, n, kind, what) <=>
          Noted(g, n, kind, what) \/ (n = id /\ Says(ev, kind, what))
    /\ \A n \in DOMAIN h.nodes : n[1] = "device" =>
          \/ n \in DOMAIN g.nodes /\ h.nodes[n].kind = g.nodes[n].kind
          \/ h.nodes[n].kind = "Host"
          \/ n \in B

\* Who named a device is known by the name after qualification.
LEMMA ClaimantIsKey ==
    ASSUME NEW ev, IsEvidence(ev),
           ev.kind \in {"DeviceAddress", "OpaqueBoundary", "DeviceRoleSignal"}
    PROVE  LET key == Claimant(ev)
           IN  /\ IsKey(key)
               /\ RealmOf(key.of, key.realm) = RealmOf(key.of, ev.origin)
               /\ key.of = ev.device.of
               /\ Qualified(ev).device = key
<1>1. /\ ev.device = [of |-> ev.device.of, zone |-> ev.device.zone, realm |-> Local]
      /\ "device" \in DOMAIN ev
  BY Zenon DEF IsEvidence
<1>2. ASSUME NEW d, d = [of |-> d.of, zone |-> d.zone, realm |-> Local], NEW realm,
             NEW key, key = qualify_device(d, realm)
      PROVE  /\ IsKey(key)
             /\ RealmOf(key.of, key.realm) = RealmOf(key.of, realm)
             /\ key.of = d.of
  BY <1>2 DEF qualify_device, IsKey, RealmOf, Key
<1>3. Qualified(ev).device = Claimant(ev)
  <2>1. ev.kind # "ForwardsToward"
    BY Zenon
  <2> QED BY <1>1, <2>1, Zenon DEF Qualified, Claimant
<1> DEFINE d == ev.device
           key == Claimant(ev)
<1>4. d = [of |-> d.of, zone |-> d.zone, realm |-> Local] /\ key = qualify_device(d, ev.origin)
  BY <1>1, Zenon DEF Claimant
<1> HIDE DEF d, key
<1>5. /\ IsKey(key)
      /\ RealmOf(key.of, key.realm) = RealmOf(key.of, ev.origin)
      /\ key.of = d.of
  BY <1>2, <1>4, ZenonT(40)
<1> QED BY <1>3, <1>5, Zenon DEF d, key

\* Such a name is resolved through its own address.
LEMMA CanonicalIsHome ==
    ASSUME NEW g, NEW key, NEW realm,
           RealmOf(key.of, key.realm) = RealmOf(key.of, realm)
    PROVE  Canonical(g, key, realm) = Home(g, key)
BY Zenon DEF Canonical, canonical_key, owner_in_realm, Home, OwnSlot

\* A signal is noted at the identity its device resolves to.
LEMMA SignalNotes ==
    ASSUME NEW g, Shaped(g), NEW ev, IsEvidence(ev), ev.kind = "DeviceRoleSignal", NEW B
    PROVE  Notes(g, absorb(g, ev), Device(Home(g, Claimant(ev))), ev, B)
<1> DEFINE q == Qualified(ev)
           id == Device(Home(g, Claimant(ev)))
           one == upsert(g, id, "Host", ev.origin)
           known == IF id \in DOMAIN one.role_weights THEN one.role_weights[id] ELSE {}
           weights == With(one.role_weights, id, known \cup {ev.signal})
           h == absorb(g, ev)
<1>1. q.kind = ev.kind /\ q.origin = ev.origin /\ q.signal = ev.signal /\ q.device = Claimant(ev)
  <2>1. "signal" \in DOMAIN ev /\ {"kind", "origin", "source", "vantage"} \subseteq DOMAIN ev
    BY Zenon DEF IsEvidence
  <2>2. q.device = Claimant(ev)
    BY ClaimantIsKey, Zenon
  <2> QED BY <2>1, <2>2, Zenon DEF Qualified
<1>2. Canonical(g, q.device, q.origin) = Home(g, Claimant(ev))
  <2>1. ev.kind \in {"DeviceAddress", "OpaqueBoundary", "DeviceRoleSignal"}
    BY Zenon
  <2> QED BY <1>1, <2>1, ClaimantIsKey, CanonicalIsHome, Zenon
<1>3. h = [one EXCEPT !.role_weights = weights]
  <2>1. h = AbsorbRoleSignal(g, q)
    BY <1>1, Arms, Zenon
  <2> QED BY <1>1, <1>2, <2>1, Zenon DEF AbsorbRoleSignal
<1> HIDE DEF h
<1>4. Unmarked(g, one, B) /\ Shaped(one)
  BY UpsertHost, Zenon
<1>5. /\ one.role_weights = g.role_weights
      /\ DOMAIN one = GraphFields
  BY <1>4, Zenon DEF Unmarked, Shaped
<1> HIDE DEF one, id, q
<1>6. \A n : \A what : n \in DOMAIN weights /\ what \in weights[n] <=>
         \/ n \in DOMAIN g.role_weights /\ what \in g.role_weights[n]
         \/ n = id /\ what = ev.signal
  BY <1>5, ZenonT(40) DEF With
<1> HIDE DEF weights
<1>7. h.role_weights = weights /\ h.nodes = one.nodes
  BY <1>3, <1>5, SetWeights, ZenonT(40)
<1>8. ASSUME NEW n, NEW kind, NEW what
      PROVE  Noted(h, n, kind, what) <=>
               Noted(g, n, kind, what) \/ (n = id /\ Says(ev, kind, what))
  <2>1. CASE kind = "DeviceRoleSignal"
    BY <1>6, <1>7, <2>1, Zenon DEF Noted, Says
  <2>2. CASE kind = "OpaqueBoundary"
    <3>1. ~Says(ev, kind, what)
      BY <2>2, Zenon DEF Says
    <3>2. n \in DOMAIN h.nodes /\ h.nodes[n].opaque_reason # Nobody <=>
            n \in DOMAIN g.nodes /\ g.nodes[n].opaque_reason # Nobody
      BY <1>4, <1>7, Zenon DEF Unmarked
    <3> QED BY <2>2, <3>1, <3>2 DEF Noted
  <2>3. CASE kind \notin {"DeviceRoleSignal", "OpaqueBoundary"}
    BY <2>3, Zenon DEF Noted, Says
  <2> QED BY <2>1, <2>2, <2>3, Zenon
<1>9. ASSUME NEW n \in DOMAIN h.nodes, n[1] = "device"
      PROVE  \/ n \in DOMAIN g.nodes /\ h.nodes[n].kind = g.nodes[n].kind
             \/ h.nodes[n].kind = "Host"
             \/ n \in B
  BY <1>4, <1>7, <1>9, Zenon DEF Unmarked
<1>10. Notes(g, h, id, ev, B)
  BY <1>8, <1>9, Zenon DEF Notes
<1> QED BY <1>10, Zenon DEF h, id

\* A boundary is noted at the identity its device resolves to.
LEMMA BoundaryNotes ==
    ASSUME NEW g, Shaped(g), NEW ev, IsEvidence(ev), ev.kind = "OpaqueBoundary", NEW B
    PROVE  Notes(g, absorb(g, ev), Device(Home(g, Claimant(ev))), ev, B)
<1> DEFINE q == Qualified(ev)
           id == Device(Home(g, Claimant(ev)))
           one == upsert(g, id, "Host", ev.origin)
           o == one.nodes[id]
           m == Stated(o, "opaque_reason", ev.origin)
           h == absorb(g, ev)
<1>1. q.kind = ev.kind /\ q.origin = ev.origin /\ q.device = Claimant(ev) /\ ev.origin # Nobody
  <2>1. {"kind", "origin", "source", "vantage"} \subseteq DOMAIN ev /\ ev.origin # Nobody
    BY Zenon DEF IsEvidence
  <2>2. q.device = Claimant(ev)
    BY ClaimantIsKey, Zenon
  <2> QED BY <2>1, <2>2, Zenon DEF Qualified
<1>2. Canonical(g, q.device, q.origin) = Home(g, Claimant(ev))
  <2>1. ev.kind \in {"DeviceAddress", "OpaqueBoundary", "DeviceRoleSignal"}
    BY Zenon
  <2> QED BY <1>1, <2>1, ClaimantIsKey, CanonicalIsHome, Zenon
<1>3. h = [one EXCEPT !.nodes[id] = m]
  <2>1. h = AbsorbStatement(g, q, "opaque_reason")
    BY <1>1, Arms, Zenon
  <2> QED BY <1>1, <1>2, <2>1, Zenon DEF AbsorbStatement
<1> HIDE DEF h
<1>4. Unmarked(g, one, B) /\ Shaped(one) /\ id \in DOMAIN one.nodes
  BY UpsertHost, Zenon
<1> HIDE DEF one, id, q
<1>5. DOMAIN o = NodeFields
  BY <1>4, Zenon DEF Shaped
<1> HIDE DEF o
<1>6. m.kind = o.kind /\ m.opaque_reason # Nobody
  BY <1>1, <1>5, Zenon DEF Stated, NodeFields
<1> HIDE DEF m
<1>7. /\ h.role_weights = g.role_weights
      /\ DOMAIN h.nodes = DOMAIN one.nodes
      /\ h.nodes[id] = m
      /\ \A n \in DOMAIN one.nodes : n # id => h.nodes[n] = one.nodes[n]
  <2> DEFINE nodes == [one.nodes EXCEPT ![id] = m]
  <2>1. h = [one EXCEPT !.nodes = nodes]
    BY <1>3, Zenon
  <2>2. /\ DOMAIN nodes = DOMAIN one.nodes
        /\ nodes[id] = m
        /\ \A n \in DOMAIN one.nodes : n # id => nodes[n] = one.nodes[n]
    BY <1>4, Zenon
  <2> HIDE DEF nodes
  <2>3. DOMAIN one = GraphFields /\ one.role_weights = g.role_weights
    BY <1>4, Zenon DEF Shaped, Unmarked
  <2>4. h.nodes = nodes /\ h.role_weights = one.role_weights
    BY <2>1, <2>3, SetNodes, Zenon
  <2> QED BY <2>2, <2>3, <2>4, Zenon
<1>8. ASSUME NEW n, NEW kind, NEW what
      PROVE  Noted(h, n, kind, what) <=>
               Noted(g, n, kind, what) \/ (n = id /\ Says(ev, kind, what))
  <2>1. CASE kind = "DeviceRoleSignal"
    BY <1>7, <2>1, Zenon DEF Noted, Says
  <2>2. CASE kind = "OpaqueBoundary"
    <3>1. n # id => (n \in DOMAIN h.nodes /\ h.nodes[n].opaque_reason # Nobody <=>
            n \in DOMAIN g.nodes /\ g.nodes[n].opaque_reason # Nobody)
      BY <1>4, <1>7, Zenon DEF Unmarked
    <3>2. id \in DOMAIN h.nodes /\ h.nodes[id].opaque_reason # Nobody
      BY <1>4, <1>6, <1>7, Zenon
    <3> QED BY <2>2, <3>1, <3>2, Zenon DEF Noted, Says
  <2>3. CASE kind \notin {"DeviceRoleSignal", "OpaqueBoundary"}
    BY <2>3, Zenon DEF Noted, Says
  <2> QED BY <2>1, <2>2, <2>3, Zenon
<1>9. ASSUME NEW n \in DOMAIN h.nodes, n[1] = "device"
      PROVE  \/ n \in DOMAIN g.nodes /\ h.nodes[n].kind = g.nodes[n].kind
             \/ h.nodes[n].kind = "Host"
             \/ n \in B
  <2>1. h.nodes[n].kind = one.nodes[n].kind /\ n \in DOMAIN one.nodes
    BY <1>6, <1>7, Zenon DEF o
  <2> QED BY <1>4, <1>9, <2>1, Zenon DEF Unmarked
<1>10. Notes(g, h, id, ev, B)
  BY <1>8, <1>9, Zenon DEF Notes
<1> QED BY <1>10, Zenon DEF h, id

\* Anything else notes nothing.
LEMMA OtherNotes ==
    ASSUME NEW g, NEW h, NEW B, Unmarked(g, h, B), NEW ev,
           ev.kind \notin {"DeviceRoleSignal", "OpaqueBoundary"}, NEW id
    PROVE  Notes(g, h, id, ev, B)
<1>1. ASSUME NEW n, NEW kind, NEW what
      PROVE  Noted(h, n, kind, what) <=>
               Noted(g, n, kind, what) \/ (n = id /\ Says(ev, kind, what))
  <2>1. ~Says(ev, kind, what)
    BY Zenon DEF Says
  <2>2. h.role_weights = g.role_weights
    BY Zenon DEF Unmarked
  <2>3. n \in DOMAIN h.nodes /\ h.nodes[n].opaque_reason # Nobody <=>
          n \in DOMAIN g.nodes /\ g.nodes[n].opaque_reason # Nobody
    BY Zenon DEF Unmarked
  <2> QED BY <2>1, <2>2, <2>3, Zenon DEF Noted
<1>2. ASSUME NEW n \in DOMAIN h.nodes, n[1] = "device"
      PROVE  \/ n \in DOMAIN g.nodes /\ h.nodes[n].kind = g.nodes[n].kind
             \/ h.nodes[n].kind = "Host"
             \/ n \in B
  BY <1>2, Zenon DEF Unmarked
<1> QED BY <1>1, <1>2, Zenon DEF Notes

------------------------------------------------------------------------------
(* While no address changes hands.                                          *)

\* The stations that claim a slot, the bridges, and whether an address has changed hands,
\* of any set of evidence.
ClaimsIn(S, slot) ==
    {ev \in S : /\ ev.kind = "DeviceAddress"
                /\ IsMac(ev.device)
                /\ Slot(ev.address, ev.vantage, ev.origin) = slot}

BridgesIn(S) ==
    UNION {{Device(qualify_device(ev.bridge, ev.origin)), Device(qualify_device(ev.root, ev.origin))} :
             ev \in {e \in S : e.kind = "BridgeLink" /\ Nobody \notin {e.bridge, e.root}}}

UndividedIn(S) ==
    \A ev \in S : ev.kind = "DeviceAddress" =>
        LET slot == Slot(ev.address, ev.vantage, ev.origin)
        IN  IF IsMac(ev.device) THEN \A c \in ClaimsIn(S, slot) : Claimant(c) = Claimant(ev)
            ELSE OwnSlot(Claimant(ev)) = slot

\* A slot is a station's that claimed it, or the address identity's whose slot it is.
OwnersHome(g, S) ==
    \A slot \in DOMAIN g.address_owner :
        LET owner == g.address_owner[slot]
        IN  IF IsMac(owner) THEN \E c \in ClaimsIn(S, slot) : Claimant(c) = owner
            ELSE /\ IsKey(owner) /\ OwnSlot(owner) = slot
                 /\ owner.of \in GloballyUnique => owner.zone = NoZone

\* Kinds are decided at the end, except for a bridge.
KindsHome(g, S) ==
    \A id \in DOMAIN g.nodes : id[1] = "device" => g.nodes[id].kind = "Host" \/ id \in BridgesIn(S)

RolesHome(g, S) ==
    /\ DOMAIN g.contested_addresses = {}
    /\ OwnersHome(g, S)
    /\ NotesHome(g, S)
    /\ KindsHome(g, S)

\* A name that resolves to another identity resolves to a station.
LEMMA HomeIsStation ==
    ASSUME NEW g, NEW S, OwnersHome(g, S), NEW key, IsKey(key)
    PROVE  Home(g, key) = key \/ IsMac(Home(g, key))
<1> SUFFICES ASSUME ~IsMac(key), OwnSlot(key) \in DOMAIN g.address_owner,
                    ~IsMac(g.address_owner[OwnSlot(key)])
             PROVE  g.address_owner[OwnSlot(key)] = key
  BY Zenon DEF Home
<1> DEFINE owner == g.address_owner[OwnSlot(key)]
<1>1. /\ IsKey(owner) /\ OwnSlot(owner) = OwnSlot(key)
      /\ owner.of \in GloballyUnique => owner.zone = NoZone
  BY Zenon DEF OwnersHome
<1> HIDE DEF owner
<1>2. owner = key
  BY <1>1, Zenon DEF IsKey, OwnSlot, RealmOf, Key
<1> QED BY <1>2, Zenon DEF owner

\* More evidence: as many claims, as many bridges.
LEMMA MoreClaims ==
    ASSUME NEW S, NEW ev
    PROVE  LET T == S \cup {ev}
           IN  /\ \A slot : ClaimsIn(S, slot) \subseteq ClaimsIn(T, slot)
               /\ BridgesIn(S) \subseteq BridgesIn(T)
               /\ ev.kind = "BridgeLink" /\ Nobody \notin {ev.bridge, ev.root} =>
                    {Device(qualify_device(ev.bridge, ev.origin)),
                     Device(qualify_device(ev.root, ev.origin))} \subseteq BridgesIn(T)
               /\ UndividedIn(T) => UndividedIn(S)
<1> DEFINE T == S \cup {ev}
<1>1. ASSUME NEW slot PROVE ClaimsIn(S, slot) \subseteq ClaimsIn(T, slot)
  BY Zenon DEF ClaimsIn
<1>2. BridgesIn(S) \subseteq BridgesIn(T)
  BY Zenon DEF BridgesIn
<1>3. ev.kind = "BridgeLink" /\ Nobody \notin {ev.bridge, ev.root} =>
        {Device(qualify_device(ev.bridge, ev.origin)),
         Device(qualify_device(ev.root, ev.origin))} \subseteq BridgesIn(T)
  BY Zenon DEF BridgesIn
<1>4. ASSUME UndividedIn(T), NEW e \in S, e.kind = "DeviceAddress"
      PROVE  LET slot == Slot(e.address, e.vantage, e.origin)
             IN  IF IsMac(e.device) THEN \A c \in ClaimsIn(S, slot) : Claimant(c) = Claimant(e)
                 ELSE OwnSlot(Claimant(e)) = slot
  BY <1>1, <1>4, Zenon DEF UndividedIn
<1> QED BY <1>1, <1>2, <1>3, <1>4, Zenon DEF UndividedIn

\* Evidence that binds no address.
LEMMA OwnersKept ==
    ASSUME NEW g, NEW h, SameBindings(g, h), NEW S, NEW T, OwnersHome(g, S),
           \A slot : ClaimsIn(S, slot) \subseteq ClaimsIn(T, slot)
    PROVE  /\ OwnersHome(h, T)
           /\ \A key : Home(h, key) = Home(g, key) /\ Places(h, key) = Places(g, key)
<1>1. h.address_owner = g.address_owner
  BY Zenon DEF SameBindings
<1>2. OwnersHome(h, T)
  BY <1>1, Zenon DEF OwnersHome
<1>3. \A key : Home(h, key) = Home(g, key)
  BY <1>1, Zenon DEF Home
<1> QED BY <1>2, <1>3, Zenon DEF Places

\* A claim of an address that does not change hands binds it: to the station, or to
\* whom the name resolves to already.
LEMMA ClaimHome ==
    ASSUME NEW g, NEW S, OwnersHome(g, S), DOMAIN g.contested_addresses = {},
           NEW ev, IsEvidence(ev), ev.kind = "DeviceAddress", UndividedIn(S \cup {ev}),
           NEW h, NEW q, q = Qualified(ev), NEW slot, slot = Slot(ev.address, ev.vantage, ev.origin),
           Claimed(g, h, slot, canonical_key(g, q.device, q.address, q.origin), ev.source)
    PROVE  /\ OwnersHome(h, S \cup {ev})
           /\ DOMAIN h.contested_addresses = {}
           /\ \A key : IsKey(key) => Places(g, key) \subseteq Places(h, key)
<1> DEFINE T == S \cup {ev}
           name == Claimant(ev)
           key == canonical_key(g, q.device, q.address, q.origin)
<1>1. /\ q.origin = ev.origin /\ q.address = ev.address /\ q.device = name
      /\ IsKey(name) /\ name.of = ev.device.of
      /\ RealmOf(name.of, name.realm) = RealmOf(name.of, ev.origin)
  BY QualifiedFields, ClaimantIsKey, Zenon
<1>2. IsMac(name) <=> IsMac(ev.device)
  BY <1>1, Zenon DEF IsMac
<1>3. CASE IsMac(ev.device)
  <2>1. key = name /\ IsMac(key)
    BY <1>1, <1>2, <1>3, Zenon DEF canonical_key
  <2>2. ev \in ClaimsIn(T, slot) /\ \A c \in ClaimsIn(T, slot) : Claimant(c) = name
    BY <1>3, Zenon DEF UndividedIn, ClaimsIn
  <2> HIDE DEF key, name
  <2>3. slot \in DOMAIN g.address_owner =>
           g.address_owner[slot] = key \/ ~IsMac(g.address_owner[slot])
    BY <2>1, <2>2, MoreClaims, Zenon DEF OwnersHome
  <2>4. AddressClaim(g, slot, key, ev.source) \in {"Uncontested", "Refines"}
    BY <2>1, <2>3, Zenon DEF AddressClaim
  <2>5. Rebound(g, h, slot, key, ev.source)
    <3>1. Claimed(g, h, slot, key, ev.source)
      BY Zenon DEF key
    <3> QED BY <2>4, <3>1, Zenon DEF Claimed
  <2>6. /\ h.address_owner = With(g.address_owner, slot, key)
        /\ h.contested_addresses = g.contested_addresses
    BY <2>5, Zenon DEF Rebound
  <2>7. /\ DOMAIN h.address_owner = DOMAIN g.address_owner \cup {slot}
        /\ h.address_owner[slot] = key
        /\ \A x \in DOMAIN g.address_owner : x # slot => h.address_owner[x] = g.address_owner[x]
    BY <2>6, Zenon DEF With
  <2>8. OwnersHome(h, T)
    BY <2>1, <2>2, <2>7, MoreClaims, ZenonT(40) DEF OwnersHome, name
  <2>9. ASSUME NEW k, IsKey(k) PROVE Places(g, k) \subseteq Places(h, k)
    <3>1. CASE Home(h, k) = Home(g, k)
      BY <3>1, Zenon DEF Places
    <3>2. CASE Home(h, k) # Home(g, k)
      <4>1. ~IsMac(k) /\ OwnSlot(k) = slot
        BY <2>7, <3>2, Zenon DEF Home
      <4>2. Home(h, k) = key
        BY <2>7, <4>1, Zenon DEF Home
      <4>3. Home(g, k) = k \/ IsMac(Home(g, k))
        BY <2>9, HomeIsStation, Zenon
      <4>4. Home(g, k) = k
        BY <2>3, <3>2, <4>1, <4>2, <4>3, Zenon DEF Home
      <4> QED BY <4>4, Zenon DEF Places
    <3> QED BY <3>1, <3>2
  <2> QED BY <2>6, <2>8, <2>9, Zenon
<1>4. CASE ~IsMac(ev.device)
  <2>1. OwnSlot(name) = slot
    BY <1>4, Zenon DEF UndividedIn
  <2>2. ev.address = name.of /\ (name.of \in GloballyUnique => name.zone = NoZone)
    BY <2>1, GraphAssumption DEF OwnSlot, Slot
  <2>3. key = Home(g, name)
    <3>1. key = Canonical(g, name, ev.origin)
      BY <1>1, <2>2, Zenon DEF Canonical
    <3> QED BY <1>1, <3>1, CanonicalIsHome, Zenon
  <2>4. ~IsMac(name)
    BY <1>2, <1>4
  <2>5. /\ slot \in DOMAIN g.address_owner => key = g.address_owner[slot]
        /\ slot \notin DOMAIN g.address_owner => key = name
    BY <2>1, <2>3, <2>4, Zenon DEF Home
  <2>6. IsMac(key) \/ key = name
    BY <1>1, <2>3, HomeIsStation, Zenon
  <2>7. Claimed(g, h, slot, key, ev.source)
    BY Zenon
  <2> HIDE DEF key, name
  <2>8. AddressClaim(g, slot, key, ev.source) = "Uncontested"
    BY <2>5, Zenon DEF AddressClaim
  <2>9. Rebound(g, h, slot, key, ev.source)
    BY <2>7, <2>8 DEF Claimed
  <2>10. /\ h.address_owner = With(g.address_owner, slot, key)
         /\ h.contested_addresses = g.contested_addresses
    BY <2>9, Zenon DEF Rebound
  <2>11. /\ DOMAIN h.address_owner = DOMAIN g.address_owner \cup {slot}
         /\ h.address_owner[slot] = key
         /\ \A x \in DOMAIN g.address_owner : h.address_owner[x] = g.address_owner[x]
    BY <2>5, <2>10, Zenon DEF With
  <2>12. OwnersHome(h, T)
    <3> SUFFICES ASSUME NEW x \in DOMAIN h.address_owner
                 PROVE  LET owner == h.address_owner[x]
                        IN  IF IsMac(owner) THEN \E c \in ClaimsIn(T, x) : Claimant(c) = owner
                            ELSE /\ IsKey(owner) /\ OwnSlot(owner) = x
                                 /\ owner.of \in GloballyUnique => owner.zone = NoZone
      BY Zenon DEF OwnersHome
    <3>1. CASE x \in DOMAIN g.address_owner
      BY <2>11, <3>1, MoreClaims, Zenon DEF OwnersHome
    <3>2. CASE x \notin DOMAIN g.address_owner
      <4>1. x = slot /\ h.address_owner[x] = name
        BY <2>5, <2>11, <3>2, Zenon
      <4> QED BY <1>1, <2>1, <2>2, <2>4, <4>1, Zenon
    <3> QED BY <3>1, <3>2
  <2>13. ASSUME NEW k, IsKey(k) PROVE Places(g, k) \subseteq Places(h, k)
    <3>1. CASE IsMac(k) \/ OwnSlot(k) \in DOMAIN g.address_owner
      <4>1. Home(h, k) = Home(g, k)
        BY <2>11, <3>1, Zenon DEF Home
      <4> QED BY <4>1, Zenon DEF Places
    <3>2. CASE ~IsMac(k) /\ OwnSlot(k) \notin DOMAIN g.address_owner
      <4>1. Home(g, k) = k
        BY <3>2, Zenon DEF Home
      <4> QED BY <4>1, Zenon DEF Places
    <3> QED BY <3>1, <3>2
  <2> QED BY <2>10, <2>12, <2>13, Zenon
<1> QED BY <1>3, <1>4, Zenon

\* Evidence of any other kind marks nothing.
LEMMA AbsorbUnmarked ==
    ASSUME NEW g, Shaped(g), NEW ev, IsEvidence(ev),
           ev.kind \notin {"DeviceRoleSignal", "OpaqueBoundary"}, NEW S, ev \in S
    PROVE  Unmarked(g, absorb(g, ev), BridgesIn(S))
<1> DEFINE q == Qualified(ev)
           B == BridgesIn(S)
<1>1. q.kind = ev.kind /\ q.origin = ev.origin
  BY QualifiedFields, Zenon
<1>2. q.kind \in EvidenceKinds \ {"DeviceRoleSignal", "OpaqueBoundary"}
  BY <1>1 DEF IsEvidence
<1>3. q = Qualified(ev)
  BY Zenon
<1>4. ev.kind = "BridgeLink" /\ Nobody \notin {q.bridge, q.root} =>
        {Device(qualify_device(q.bridge, q.origin)), Device(qualify_device(q.root, q.origin))} \subseteq B
  <2> SUFFICES ASSUME ev.kind = "BridgeLink", Nobody \notin {q.bridge, q.root}
               PROVE  {Device(qualify_device(q.bridge, q.origin)),
                       Device(qualify_device(q.root, q.origin))} \subseteq B
    BY Zenon
  <2>1. "bridge" \in DOMAIN ev /\ "root" \in DOMAIN ev
    BY Zenon DEF IsEvidence
  <2>2. q.bridge = ev.bridge /\ q.root = ev.root
    BY <2>1, Zenon DEF Qualified
  <2> HIDE DEF q
  <2> QED BY <1>1, <2>2, Zenon DEF BridgesIn
<1> HIDE DEF q, B
<1>5. CASE q.kind \in {"Network", "InterfaceNetwork", "Vlan", "VlanNetwork", "Service"}
  <2>1. absorb(g, ev) \in {upsert_network(g, q.network, q.origin), AbsorbInterfaceNetwork(g, q),
                           AbsorbVlan(g, q), AbsorbVlanNetwork(g, q), AbsorbService(g, q)}
    BY <1>3, <1>5, Arms, Zenon
  <2> QED BY <2>1, PlacesUnmarked, Zenon DEF B
<1>6. CASE q.kind \in {"DeviceDescription", "DeviceCapability", "GatewayFor", "RoutesTo", "AttachedTo",
                       "ObservedBehind", "ForwardsToward"}
  <2>1. absorb(g, ev) \in {AbsorbMention(g, q), AbsorbRelation(g, q), AbsorbObservedBehind(g, q),
                           AbsorbForwardsToward(g, q)}
    BY <1>3, <1>6, Arms, Zenon
  <2> QED BY <2>1, MentionsUnmarked, Zenon DEF B
<1>7. CASE q.kind \in {"DeviceHostname", "ResolvedAs", "DeviceVendor"}
  <2>1. absorb(g, ev) \in {AbsorbHostname(g, q), AbsorbResolvedAs(g, q),
                           AbsorbStatement(g, q, "vendor")}
    BY <1>3, <1>7, Arms, Zenon
  <2> QED BY <2>1, SaidUnmarked, Zenon DEF B
<1>8. CASE q.kind = "BridgeLink"
  <2>1. absorb(g, ev) = AbsorbBridgeLink(g, q)
    BY <1>3, <1>8, Arms, Zenon
  <2> QED BY <1>1, <1>4, <1>8, <2>1, BridgeUnmarked, Zenon DEF B
<1>9. CASE q.kind = "DeviceAddress"
  <2>1. absorb(g, ev) = AbsorbDeviceAddress(g, q)
    BY <1>3, <1>9, Arms, Zenon
  <2> QED BY <2>1, ClaimUnmarked, Zenon DEF B
<1> QED BY <1>2, <1>5, <1>6, <1>7, <1>8, <1>9, SMTT(30) DEF EvidenceKinds

\* What is said is noted where it belongs, and what was stays where it belongs.
LEMMA NotesStayHome ==
    ASSUME NEW g, NEW S, NotesHome(g, S), NEW ev, \A e \in S : IsEvidence(e), NEW h, NEW B,
           \A key : IsKey(key) => Places(g, key) \subseteq Places(h, key),
           NEW id \in Places(h, Claimant(ev)), Notes(g, h, id, ev, B)
    PROVE  NotesHome(h, S \cup {ev})
<1> DEFINE T == S \cup {ev}
<1>1. ASSUME NEW e \in S, NEW kind, NEW what, Says(e, kind, what)
      PROVE  Places(g, Claimant(e)) \subseteq Places(h, Claimant(e))
  <2>1. e.kind \in {"DeviceAddress", "OpaqueBoundary", "DeviceRoleSignal"}
    BY <1>1, Zenon DEF Says
  <2> QED BY <2>1, ClaimantIsKey, Zenon
<1>2. ASSUME NEW n, NEW kind, NEW what, Noted(h, n, kind, what)
      PROVE  \E e \in T : Says(e, kind, what) /\ n \in Places(h, Claimant(e))
  <2>1. CASE Noted(g, n, kind, what)
    <3>1. PICK e \in S : Says(e, kind, what) /\ n \in Places(g, Claimant(e))
      BY <2>1, Zenon DEF NotesHome
    <3> QED BY <1>1, <3>1, Zenon
  <2>2. CASE n = id /\ Says(ev, kind, what)
    BY <2>2, Zenon
  <2> QED BY <1>2, <2>1, <2>2, Zenon DEF Notes
<1>3. ASSUME NEW e \in T, NEW kind, NEW what, Says(e, kind, what)
      PROVE  \E n \in Places(h, Claimant(e)) : Noted(h, n, kind, what)
  <2>1. CASE e \in S
    <3>1. PICK n \in Places(g, Claimant(e)) : Noted(g, n, kind, what)
      BY <1>3, <2>1, Zenon DEF NotesHome
    <3>2. Noted(h, n, kind, what)
      BY <3>1, Zenon DEF Notes
    <3> QED BY <1>1, <1>3, <2>1, <3>1, <3>2, Zenon
  <2>2. CASE e = ev
    BY <1>3, <2>2, Zenon DEF Notes
  <2> QED BY <2>1, <2>2
<1> QED BY <1>2, <1>3, Zenon DEF NotesHome

\* One more piece of evidence, while no address has changed hands.
LEMMA AbsorbRoles ==
    ASSUME NEW g, NEW S, NEW R, Faithful(g, S, R), NEW ev, ev.origin \in R,
           \A e \in S \cup {ev} : IsEvidence(e),
           RolesHome(g, S), UndividedIn(S \cup {ev})
    PROVE  RolesHome(absorb(g, ev), S \cup {ev})
<1> DEFINE h == absorb(g, ev)
           T == S \cup {ev}
           B == BridgesIn(T)
           here == Device(Home(g, Claimant(ev)))
<1>1. IsEvidence(ev) /\ ev \in T /\ \A e \in S : IsEvidence(e)
  BY Zenon
<1>2. Sound(g, R) /\ Shaped(g)
  BY SoundShaped, Zenon DEF Faithful
<1>3. /\ DOMAIN g.contested_addresses = {}
      /\ OwnersHome(g, S) /\ NotesHome(g, S) /\ KindsHome(g, S)
  BY Zenon DEF RolesHome
<1>4. /\ \A slot : ClaimsIn(S, slot) \subseteq ClaimsIn(T, slot)
      /\ BridgesIn(S) \subseteq B
  BY MoreClaims, Zenon
<1>5. /\ OwnersHome(h, T)
      /\ DOMAIN h.contested_addresses = {}
      /\ \A key : IsKey(key) => Places(g, key) \subseteq Places(h, key)
      /\ ev.kind # "DeviceAddress" => \A key : Places(g, key) = Places(h, key)
  <2>1. CASE ev.kind # "DeviceAddress"
    <3>1. SameBindings(g, h)
      BY <2>1, AbsorbFaithful, Zenon
    <3> HIDE DEF h
    <3>2. OwnersHome(h, T) /\ \A key : Places(h, key) = Places(g, key)
      BY <1>3, <1>4, <3>1, OwnersKept, Zenon
    <3> QED BY <1>3, <2>1, <3>1, <3>2, Zenon DEF SameBindings
  <2>2. CASE ev.kind = "DeviceAddress"
    <3> DEFINE q == Qualified(ev)
               slot == Slot(ev.address, ev.vantage, ev.origin)
               key == canonical_key(g, q.device, q.address, q.origin)
    <3>1. /\ q.kind = ev.kind /\ q.origin = ev.origin /\ q.source = ev.source
          /\ q.vantage = ev.vantage /\ q.address = ev.address /\ ev.address \in Addresses
      <4>1. ev.address \in Addresses
        BY <1>1, <2>2, Zenon DEF IsEvidence
      <4> QED BY <1>1, <2>2, <4>1, QualifiedFields, Zenon
    <3>2. h = AbsorbDeviceAddress(g, q)
      BY <2>2, <3>1, Arms, Zenon
    <3>3. slot = Slot(q.address, q.vantage, q.origin)
      BY <3>1, Zenon
    <3> HIDE DEF h
    <3>4. Claimed(g, h, slot, key, ev.source)
      <4> HIDE DEF q
      <4>1. Claimed(g, h, Slot(q.address, q.vantage, q.origin), key, q.source)
        BY <1>2, <3>1, <3>2, DeviceAddressBinds, Zenon
      <4> QED BY <3>1, <3>3, <4>1, Zenon
    <3>5. /\ OwnersHome(h, T)
          /\ DOMAIN h.contested_addresses = {}
          /\ \A k : IsKey(k) => Places(g, k) \subseteq Places(h, k)
      <4>1. q = Qualified(ev) /\ slot = Slot(ev.address, ev.vantage, ev.origin)
        BY Zenon
      <4>2. UndividedIn(S \cup {ev})
        BY Zenon
      <4> HIDE DEF q, slot
      <4> QED BY <1>1, <1>3, <2>2, <3>4, <4>1, <4>2, ClaimHome, ZenonT(80)
    <3> QED BY <2>2, <3>5, Zenon
  <2> QED BY <2>1, <2>2
<1>6. \E id \in Places(h, Claimant(ev)) : Notes(g, h, id, ev, B)
  <2>1. CASE ev.kind \in {"DeviceRoleSignal", "OpaqueBoundary"}
    <3>1. Notes(g, h, here, ev, B)
      BY <1>1, <1>2, <2>1, SignalNotes, BoundaryNotes, Zenon
    <3>2. here \in Places(h, Claimant(ev))
      <4>1. Places(g, Claimant(ev)) = Places(h, Claimant(ev))
        BY <1>5, <2>1
      <4>2. here \in Places(g, Claimant(ev))
        BY Zenon DEF Places
      <4> HIDE DEF here, h
      <4> QED BY <4>1, <4>2, Zenon
    <3> HIDE DEF here, h
    <3> QED BY <3>1, <3>2, Zenon
  <2>2. CASE ev.kind \notin {"DeviceRoleSignal", "OpaqueBoundary"}
    <3>1. Unmarked(g, h, B)
      BY <1>1, <1>2, <2>2, AbsorbUnmarked, Zenon
    <3> HIDE DEF h
    <3>2. Notes(g, h, Device(Claimant(ev)), ev, B)
      BY <2>2, <3>1, OtherNotes, Zenon
    <3> QED BY <3>2, Zenon DEF Places
  <2> QED BY <2>1, <2>2, Zenon
<1>7. PICK id \in Places(h, Claimant(ev)) : Notes(g, h, id, ev, B)
  BY <1>6, Zenon
<1> HIDE DEF h
<1>8. NotesHome(h, T)
  BY <1>1, <1>3, <1>5, <1>7, NotesStayHome, Zenon
<1>9. KindsHome(h, T)
  BY <1>3, <1>4, <1>7, Zenon DEF KindsHome, Notes
<1> QED BY <1>5, <1>8, <1>9, Zenon DEF RolesHome, h

------------------------------------------------------------------------------
(* Folding and finishing.                                                   *)

\* A place of a device is folded into a place of the same device.
LEMMA SurvivorStaysHome ==
    ASSUME NEW g, NEW S, OwnersHome(g, S), NEW key, IsKey(key), NEW n \in Places(g, key)
    PROVE  Survivor(g, n) \in Places(g, key)
<1>1. CASE n \notin Foldable(g)
  BY <1>1, Zenon DEF Survivor
<1>2. CASE n \in Foldable(g)
  <2>1. /\ Survivor(g, n) = Device(g.address_owner[OwnSlot(n[2])])
        /\ ~IsMac(n[2]) /\ OwnSlot(n[2]) \in DOMAIN g.address_owner
    BY <1>2, Survives, Zenon
  <2>2. n[2] \in {key, Home(g, key)}
    BY NodeNames, Zenon DEF Places
  <2>3. n[2] = key
    BY <2>1, <2>2, HomeIsStation, Zenon
  <2>4. Survivor(g, n) = Device(Home(g, key))
    BY <2>1, <2>3, Zenon DEF Home
  <2> QED BY <2>4, Zenon DEF Places
<1> QED BY <1>1, <1>2, Zenon

\* Merging moves what is noted to the identity that remains, and keeps kinds.
LEMMA MergeNotes ==
    ASSUME NEW g, NEW R, Sound(g, R)
    PROVE  LET h == merge_address_identities(g)
           IN  /\ \A n, kind, what : Noted(h, n, kind, what) <=>
                     \E s : Noted(g, s, kind, what) /\ Survivor(g, s) = n
               /\ \A n \in DOMAIN h.nodes :
                     n \in DOMAIN g.nodes /\ h.nodes[n].kind = g.nodes[n].kind
<1> DEFINE gone == Foldable(g)
           Sources(id) == {s \in gone : Survivor(g, s) = id}
           touched == {e \in g.edges : e[1] \in gone \/ e[2] \in gone}
           moved == {<<Survivor(g, e[1]), Survivor(g, e[2]), e[3]>> : e \in touched}
           weighed == {Survivor(g, id) : id \in DOMAIN g.role_weights}
           nodes == [id \in DOMAIN g.nodes \ gone |->
                       FoldInto(g.nodes[id], {g.nodes[s] : s \in Sources(id)})]
           edges == (g.edges \ touched) \cup {e \in moved : e[1] # e[2]}
           weights == [id \in weighed |->
                         UNION {g.role_weights[s] :
                                  s \in DOMAIN g.role_weights \cap ({id} \cup Sources(id))}]
           h == merge_address_identities(g)
<1>1. h = [g EXCEPT !.nodes = nodes, !.edges = edges, !.role_weights = weights]
  BY Zenon DEF merge_address_identities
<1>2. h.nodes = nodes /\ h.role_weights = weights
  <2> HIDE DEF h, nodes, edges, weights
  <2> QED BY <1>1, Zenon DEF Sound, GraphFields
<1> HIDE DEF h
<1>3. \A id \in gone : id \in DOMAIN g.nodes
  BY Zenon DEF Foldable, Devices
<1>4. \A s : /\ Survivor(g, s) \notin gone
             /\ s \notin gone => Survivor(g, s) = s
  <2>1. ASSUME NEW s \in gone PROVE Survivor(g, s) \notin gone
    BY Survives, Zenon
  <2> QED BY <2>1, Zenon DEF Survivor
<1>5. \A s \in DOMAIN g.nodes : Survivor(g, s) \in DOMAIN g.nodes
  <2>1. ASSUME NEW s \in gone PROVE Survivor(g, s) \in DOMAIN g.nodes
    <3>1. Survivor(g, s) \in Devices(g)
      BY Survives, Zenon
    <3> QED BY <3>1, Zenon DEF Devices
  <2> QED BY <1>4, <2>1, Zenon
<1>6. \A n, s : Survivor(g, s) = n <=> (s = n /\ n \notin gone) \/ s \in Sources(n)
  BY <1>4, Zenon
<1>7. ASSUME NEW n \in DOMAIN nodes
      PROVE  /\ n \in DOMAIN g.nodes /\ n \notin gone
             /\ nodes[n].kind = g.nodes[n].kind
             /\ nodes[n].opaque_reason # Nobody <=>
                  \/ g.nodes[n].opaque_reason # Nobody
                  \/ \E s \in Sources(n) : g.nodes[s].opaque_reason # Nobody
  <2> DEFINE target == g.nodes[n]
             sources == {g.nodes[s] : s \in Sources(n)}
             m == FoldInto(target, sources)
             having == {x \in sources : x["opaque_reason"] # Nobody}
  <2>1. n \in DOMAIN g.nodes /\ n \notin gone /\ nodes[n] = m
    BY <1>7, Zenon
  <2>2. DOMAIN target = NodeFields
    BY <2>1, Zenon DEF Sound, NodesTyped, NodeTyped
  <2>3. (\E x \in sources : x.opaque_reason # Nobody) <=>
          \E s \in Sources(n) : g.nodes[s].opaque_reason # Nobody
    BY Zenon
  <2> HIDE DEF target, sources
  <2>4. m.kind = target.kind /\ m.opaque_reason = FirstStated(target, sources, "opaque_reason")
    BY <2>2, Zenon DEF FoldInto, NodeFields
  <2>5. FirstStated(target, sources, "opaque_reason") # Nobody <=>
          target.opaque_reason # Nobody \/ \E x \in sources : x.opaque_reason # Nobody
    <3>1. CASE target.opaque_reason # Nobody
      BY <3>1, Zenon DEF FirstStated
    <3>2. CASE target.opaque_reason = Nobody /\ having = {}
      BY <3>2, Zenon DEF FirstStated
    <3>3. CASE target.opaque_reason = Nobody /\ having # {}
      <4>1. (CHOOSE x \in having : TRUE) \in having
        BY <3>3, Zenon
      <4>2. FirstStated(target, sources, "opaque_reason") = (CHOOSE x \in having : TRUE).opaque_reason
        BY <3>3, Zenon DEF FirstStated
      <4> QED BY <3>3, <4>1, <4>2, Zenon
    <3> QED BY <3>1, <3>2, <3>3, Zenon
  <2> HIDE DEF m
  <2> QED BY <2>1, <2>3, <2>4, <2>5, Zenon DEF target
<1>8. ASSUME NEW n, NEW what
      PROVE  n \in DOMAIN weights /\ what \in weights[n] <=>
               \E s \in DOMAIN g.role_weights : what \in g.role_weights[s] /\ Survivor(g, s) = n
  <2>1. DOMAIN weights = weighed
    BY Zenon
  <2>2. ASSUME n \in weighed
        PROVE  what \in weights[n] <=>
                 \E s \in DOMAIN g.role_weights : what \in g.role_weights[s] /\ Survivor(g, s) = n
    <3>1. n \notin gone
      <4>1. PICK s \in DOMAIN g.role_weights : n = Survivor(g, s)
        BY <2>2, Zenon
      <4> QED BY <1>4, <4>1, Zenon
    <3>2. weights[n] = UNION {g.role_weights[s] :
                                s \in DOMAIN g.role_weights \cap ({n} \cup Sources(n))}
      BY <2>2, Zenon
    <3>3. \A s : s \in {n} \cup Sources(n) <=> Survivor(g, s) = n
      BY <1>6, <3>1, Zenon
    <3> HIDE DEF weights, Sources
    <3> QED BY <3>2, <3>3, ZenonT(40)
  <2>3. n \notin weighed => ~\E s \in DOMAIN g.role_weights : Survivor(g, s) = n
    BY Zenon
  <2> HIDE DEF weights, weighed
  <2> QED BY <2>1, <2>2, <2>3, Zenon
<1>9. DOMAIN nodes = DOMAIN g.nodes \ gone
  BY Zenon
<1>10. ASSUME NEW n
       PROVE  n \in DOMAIN nodes /\ nodes[n].opaque_reason # Nobody <=>
                \E s \in DOMAIN g.nodes : g.nodes[s].opaque_reason # Nobody /\ Survivor(g, s) = n
  <2> HIDE DEF nodes
  <2>1. ASSUME NEW s \in DOMAIN g.nodes, Survivor(g, s) = n
        PROVE  n \in DOMAIN nodes
    BY <1>4, <1>5, <1>9, <2>1, Zenon
  <2>2. n \in DOMAIN nodes =>
          (nodes[n].opaque_reason # Nobody <=>
             \E s \in DOMAIN g.nodes : g.nodes[s].opaque_reason # Nobody /\ Survivor(g, s) = n)
    <3> SUFFICES ASSUME n \in DOMAIN nodes
                 PROVE  nodes[n].opaque_reason # Nobody <=>
                          \E s \in DOMAIN g.nodes : g.nodes[s].opaque_reason # Nobody /\ Survivor(g, s) = n
      BY Zenon
    <3>1. \A s : s \in DOMAIN g.nodes /\ Survivor(g, s) = n <=> s = n \/ s \in Sources(n)
      BY <1>3, <1>6, <1>7, ZenonT(40)
    <3> HIDE DEF Sources
    <3> QED BY <1>7, <3>1, Zenon
  <2> QED BY <2>1, <2>2, Zenon
<1> HIDE DEF nodes, weights
<1>11. ASSUME NEW n, NEW kind, NEW what
       PROVE  Noted(h, n, kind, what) <=> \E s : Noted(g, s, kind, what) /\ Survivor(g, s) = n
  <2>1. CASE kind = "DeviceRoleSignal"
    <3>1. \A x, y : Noted(x, y, kind, what) <=> y \in DOMAIN x.role_weights /\ what \in x.role_weights[y]
      BY <2>1 DEF Noted
    <3> QED BY <1>2, <1>8, <3>1, Zenon
  <2>2. CASE kind = "OpaqueBoundary" /\ what = Nobody
    <3>1. \A x, y : Noted(x, y, kind, what) <=> y \in DOMAIN x.nodes /\ x.nodes[y].opaque_reason # Nobody
      BY <2>2, Zenon DEF Noted
    <3> QED BY <1>2, <1>10, <3>1, Zenon
  <2>3. CASE kind # "DeviceRoleSignal" /\ ~(kind = "OpaqueBoundary" /\ what = Nobody)
    BY <2>3, Zenon DEF Noted
  <2> QED BY <2>1, <2>2, <2>3, Zenon
<1> QED BY <1>2, <1>7, <1>11, Zenon DEF h

\* Merging while no address has changed hands.
LEMMA MergeRoles ==
    ASSUME NEW g, NEW S, NEW R, Faithful(g, S, R), \A e \in S : IsEvidence(e), RolesHome(g, S)
    PROVE  RolesHome(merge_address_identities(g), S)
<1> DEFINE h == merge_address_identities(g)
<1>1. Sound(g, R) /\ SameBindings(g, h)
  BY MergeKeeps, Zenon DEF Faithful, Keeps
<1>2. /\ DOMAIN g.contested_addresses = {}
      /\ OwnersHome(g, S) /\ NotesHome(g, S) /\ KindsHome(g, S)
  BY Zenon DEF RolesHome
<1>3. /\ \A n, kind, what : Noted(h, n, kind, what) <=>
            \E s : Noted(g, s, kind, what) /\ Survivor(g, s) = n
      /\ \A n \in DOMAIN h.nodes : n \in DOMAIN g.nodes /\ h.nodes[n].kind = g.nodes[n].kind
  BY <1>1, MergeNotes, Zenon
<1> HIDE DEF h
<1>4. OwnersHome(h, S) /\ \A key : Places(h, key) = Places(g, key)
  BY <1>1, <1>2, OwnersKept, Zenon
<1>5. DOMAIN h.contested_addresses = {}
  BY <1>1, <1>2, Zenon DEF SameBindings
<1>6. KindsHome(h, S)
  BY <1>2, <1>3, Zenon DEF KindsHome
<1>7. ASSUME NEW ev \in S, NEW kind, NEW what, Says(ev, kind, what),
             NEW s \in Places(g, Claimant(ev))
      PROVE  Survivor(g, s) \in Places(h, Claimant(ev))
  <2>1. ev.kind \in {"DeviceAddress", "OpaqueBoundary", "DeviceRoleSignal"}
    BY <1>7, Zenon DEF Says
  <2>2. IsKey(Claimant(ev))
    BY <2>1, ClaimantIsKey, Zenon
  <2>3. Survivor(g, s) \in Places(g, Claimant(ev))
    BY <1>2, <2>2, SurvivorStaysHome, Zenon
  <2> QED BY <1>4, <2>3, Zenon
<1>8. ASSUME NEW n, NEW kind, NEW what, Noted(h, n, kind, what)
      PROVE  \E ev \in S : Says(ev, kind, what) /\ n \in Places(h, Claimant(ev))
  <2>1. PICK s : Noted(g, s, kind, what) /\ Survivor(g, s) = n
    BY <1>3, <1>8, Zenon
  <2>2. PICK ev \in S : Says(ev, kind, what) /\ s \in Places(g, Claimant(ev))
    BY <1>2, <2>1, Zenon DEF NotesHome
  <2> QED BY <1>7, <2>1, <2>2, Zenon
<1>9. ASSUME NEW ev \in S, NEW kind, NEW what, Says(ev, kind, what)
      PROVE  \E n \in Places(h, Claimant(ev)) : Noted(h, n, kind, what)
  <2>1. PICK s \in Places(g, Claimant(ev)) : Noted(g, s, kind, what)
    BY <1>2, <1>9, Zenon DEF NotesHome
  <2> QED BY <1>3, <1>7, <1>9, <2>1, Zenon
<1>10. NotesHome(h, S)
  BY <1>8, <1>9, Zenon DEF NotesHome
<1> QED BY <1>4, <1>5, <1>6, <1>10, Zenon DEF RolesHome, h

\* At the end what is noted is at the identity that its device resolves to.
NotesAtEnd(g, S) ==
    \A n, kind, what : Noted(g, n, kind, what) <=>
        \E ev \in S : Says(ev, kind, what) /\ n = Device(Home(g, Claimant(ev)))

\* With nothing left to fold, every place is the one that its device resolves to.
LEMMA NotesFinal ==
    ASSUME NEW g, NEW S, NEW R, Sound(g, R), Bound(g, S), RolesHome(g, S), Foldable(g) = {},
           \A e \in S : IsEvidence(e)
    PROVE  NotesAtEnd(g, S)
<1>1. OwnersHome(g, S) /\ NotesHome(g, S)
  BY Zenon DEF RolesHome
<1>2. ASSUME NEW n, NEW kind, NEW what, Noted(g, n, kind, what) PROVE n \in DOMAIN g.nodes
  <2>1. DOMAIN g.role_weights \subseteq DOMAIN g.nodes
    BY Zenon DEF Sound, Weighed, Devices
  <2> QED BY <1>2, <2>1, Zenon DEF Noted
<1>3. ASSUME NEW ev \in S, NEW kind, NEW what, Says(ev, kind, what),
             NEW n \in Places(g, Claimant(ev)), n \in DOMAIN g.nodes
      PROVE  n = Device(Home(g, Claimant(ev)))
  <2> DEFINE key == Claimant(ev)
  <2>1. IsKey(key)
    <3>1. ev.kind \in {"DeviceAddress", "OpaqueBoundary", "DeviceRoleSignal"}
      BY <1>3, Zenon DEF Says
    <3> QED BY <3>1, ClaimantIsKey, Zenon
  <2>2. n \in {Device(key), Device(Home(g, key))}
    BY <1>3, Zenon DEF Places
  <2> HIDE DEF key
  <2> SUFFICES ASSUME n = Device(key), Home(g, key) # key PROVE FALSE
    BY <2>2, Zenon DEF key
  <2>3. /\ ~IsMac(key) /\ OwnSlot(key) \in DOMAIN g.address_owner
        /\ Home(g, key) = g.address_owner[OwnSlot(key)]
    BY Zenon DEF Home
  <2>4. IsMac(Home(g, key))
    BY <1>1, <2>1, HomeIsStation, Zenon
  <2>5. Device(Home(g, key)) \in DOMAIN g.nodes
    BY <2>3, <2>4, Zenon DEF Bound, OwnersBound
  <2>6. n[1] = "device" /\ n[2] = key
    BY NodeNames, Zenon
  <2>7. n \in Foldable(g)
    BY <1>3, <2>3, <2>4, <2>5, <2>6, Zenon DEF Foldable, Devices
  <2> QED BY <2>7, Zenon
<1>4. ASSUME NEW n, NEW kind, NEW what, Noted(g, n, kind, what)
      PROVE  \E ev \in S : Says(ev, kind, what) /\ n = Device(Home(g, Claimant(ev)))
  <2>1. PICK ev \in S : Says(ev, kind, what) /\ n \in Places(g, Claimant(ev))
    BY <1>1, <1>4, Zenon DEF NotesHome
  <2>2. n \in DOMAIN g.nodes
    BY <1>2, <1>4, Zenon
  <2> QED BY <1>3, <2>1, <2>2, Zenon
<1>5. ASSUME NEW ev \in S, NEW kind, NEW what, Says(ev, kind, what)
      PROVE  Noted(g, Device(Home(g, Claimant(ev))), kind, what)
  <2>1. PICK n \in Places(g, Claimant(ev)) : Noted(g, n, kind, what)
    BY <1>1, <1>5, Zenon DEF NotesHome
  <2>2. n \in DOMAIN g.nodes
    BY <1>2, <2>1, Zenon
  <2>3. n = Device(Home(g, Claimant(ev)))
    BY <1>3, <1>5, <2>1, <2>2, Zenon
  <2> QED BY <2>1, <2>3, Zenon
<1> QED BY <1>4, <1>5, Zenon DEF NotesAtEnd

\* What finalize_roles makes of the kinds, and what it leaves alone.
LEMMA FinalizeKinds ==
    ASSUME NEW g0, NEW R, NEW g, g = merge_address_identities(g0), Sound(g, R)
    PROVE  LET h == finalize_roles(g0)
               role(id) == IF id \in DOMAIN g.role_weights
                             THEN score_role(g.role_weights[id]) ELSE "Host"
           IN  /\ SameBindings(g, h) /\ DOMAIN h.nodes = DOMAIN g.nodes
               /\ \A id \in DOMAIN g.nodes :
                     h.nodes[id].kind = IF g.nodes[id].opaque_reason # Nobody THEN "OpaqueBoundary"
                                        ELSE IF role(id) # "Host" THEN role(id)
                                        ELSE g.nodes[id].kind
<1> DEFINE role(id) == IF id \in DOMAIN g.role_weights
                         THEN score_role(g.role_weights[id]) ELSE "Host"
           kind(id) == IF g.nodes[id].opaque_reason # Nobody THEN "OpaqueBoundary"
                       ELSE IF role(id) # "Host" THEN role(id)
                       ELSE g.nodes[id].kind
           nodes == [id \in DOMAIN g.nodes |-> [g.nodes[id] EXCEPT !.kind = kind(id)]]
           h == [g EXCEPT !.nodes = nodes]
<1>1. finalize_roles(g0) = h
  BY Zenon DEF finalize_roles
<1>2. DOMAIN nodes = DOMAIN g.nodes
  BY Zenon
<1>3. ASSUME NEW id \in DOMAIN g.nodes PROVE nodes[id].kind = kind(id)
  <2> DEFINE n == g.nodes[id]
             m == nodes[id]
             k == kind(id)
  <2>1. DOMAIN n = NodeFields
    BY Zenon DEF Sound, NodesTyped, NodeTyped
  <2>2. m = [n EXCEPT !.kind = k]
    BY Zenon
  <2> HIDE DEF n, m, k, kind, nodes
  <2>3. m.kind = k
    BY <2>1, <2>2, Zenon DEF NodeFields
  <2> QED BY <2>3, Zenon DEF m, k
<1> HIDE DEF nodes
<1>4. h.nodes = nodes /\ SameBindings(g, h)
  <2>1. DOMAIN g = GraphFields
    BY Zenon DEF Sound
  <2> QED BY ONLY <2>1, SetNodes, Zenon
<1> HIDE DEF h
<1> QED BY <1>1, <1>2, <1>3, <1>4, Zenon

\* The last of it: the kinds that the evidence about each device gives it.
AboutIn(g, S, id) ==
    {ev \in S : "device" \in DOMAIN ev /\
                Survivor(g, Device(Canonical(g, qualify_device(ev.device, ev.origin), ev.origin))) = id}

KindsFinal(g, S) ==
    \A id \in Devices(g) \ BridgesIn(S) :
        LET signals == {ev.signal : ev \in {e \in AboutIn(g, S, id) : e.kind = "DeviceRoleSignal"}}
            bounded == \E ev \in AboutIn(g, S, id) : ev.kind = "OpaqueBoundary"
        IN  g.nodes[id].kind = IF bounded THEN "OpaqueBoundary" ELSE score_role(signals)

\* Without a signal a device is a host.
LEMMA UnsignalledHost == score_role({}) = "Host"
BY DEF score_role

\* Finishing while no address has changed hands.
LEMMA FinalizeRoles ==
    ASSUME NEW g0, NEW S, NEW R, Faithful(g0, S, R), \A e \in S : IsEvidence(e), RolesHome(g0, S)
    PROVE  KindsFinal(finalize_roles(g0), S)
<1> DEFINE g == merge_address_identities(g0)
           h == finalize_roles(g0)
           role(id) == IF id \in DOMAIN g.role_weights
                         THEN score_role(g.role_weights[id]) ELSE "Host"
<1>1. RolesHome(g, S)
  BY MergeRoles, Zenon
<1>2. Keeps(g0, g, R) /\ Foldable(g) = {} /\ Foldable(h) = {}
  BY MergeKeeps, FinalizeKeeps, Zenon DEF Faithful
<1>3. Sound(g, R) /\ Bound(g, S)
  BY <1>2, KeptBound, Zenon DEF Keeps, Faithful
<1>4. /\ SameBindings(g, h) /\ DOMAIN h.nodes = DOMAIN g.nodes
      /\ \A id \in DOMAIN g.nodes :
            h.nodes[id].kind = IF g.nodes[id].opaque_reason # Nobody THEN "OpaqueBoundary"
                               ELSE IF role(id) # "Host" THEN role(id)
                               ELSE g.nodes[id].kind
  BY <1>3, FinalizeKinds, Zenon
<1> HIDE DEF g, h
<1>5. NotesAtEnd(g, S)
  BY <1>1, <1>2, <1>3, NotesFinal, Zenon
<1>6. ASSUME NEW ev \in S, NEW kind, NEW what, Says(ev, kind, what), NEW id
      PROVE  ev \in AboutIn(h, S, id) <=> id = Device(Home(g, Claimant(ev)))
  <2>1. ev.kind \in {"DeviceAddress", "OpaqueBoundary", "DeviceRoleSignal"} /\ "device" \in DOMAIN ev
    <3>1. ev.kind \in {"OpaqueBoundary", "DeviceRoleSignal"}
      BY <1>6, Zenon DEF Says
    <3>2. IsEvidence(ev)
      BY Zenon
    <3> QED BY <3>1, <3>2, Zenon DEF IsEvidence
  <2>2. Canonical(h, Claimant(ev), ev.origin) = Home(h, Claimant(ev))
    BY <2>1, ClaimantIsKey, CanonicalIsHome, Zenon
  <2>3. Home(h, Claimant(ev)) = Home(g, Claimant(ev))
    BY <1>4, Zenon DEF SameBindings, Home
  <2>4. \A x : Survivor(h, x) = x
    BY <1>2, Zenon DEF Survivor
  <2> QED BY <2>1, <2>2, <2>3, <2>4, Zenon DEF AboutIn, Claimant
<1>7. ASSUME NEW id \in Devices(h) \ BridgesIn(S)
      PROVE  LET signals == {ev.signal : ev \in {e \in AboutIn(h, S, id) : e.kind = "DeviceRoleSignal"}}
                 bounded == \E ev \in AboutIn(h, S, id) : ev.kind = "OpaqueBoundary"
             IN  h.nodes[id].kind = IF bounded THEN "OpaqueBoundary" ELSE score_role(signals)
  <2> DEFINE signals == {ev.signal : ev \in {e \in AboutIn(h, S, id) : e.kind = "DeviceRoleSignal"}}
             bounded == \E ev \in AboutIn(h, S, id) : ev.kind = "OpaqueBoundary"
  <2>1. id \in DOMAIN g.nodes /\ id[1] = "device" /\ id \notin BridgesIn(S)
    BY <1>4, <1>7, Zenon DEF Devices
  <2>2. g.nodes[id].kind = "Host"
    BY <1>1, <2>1, Zenon DEF RolesHome, KindsHome
  <2>3. \A ev \in AboutIn(h, S, id) : ev \in S
    BY Zenon DEF AboutIn
  <2>4. bounded <=> g.nodes[id].opaque_reason # Nobody
    <3>1. Noted(g, id, "OpaqueBoundary", Nobody) <=> g.nodes[id].opaque_reason # Nobody
      BY <2>1 DEF Noted
    <3>2. \A ev : Says(ev, "OpaqueBoundary", Nobody) <=> ev.kind = "OpaqueBoundary"
      BY DEF Says
    <3> QED BY <1>5, <1>6, <2>3, <3>1, <3>2, ZenonT(40) DEF NotesAtEnd
  <2>5. \A what : what \in signals <=> Noted(g, id, "DeviceRoleSignal", what)
    <3>1. \A ev, what : Says(ev, "DeviceRoleSignal", what) <=> ev.kind = "DeviceRoleSignal" /\ what = ev.signal
      BY Zenon DEF Says
    <3>2. ASSUME NEW what, what \in signals PROVE Noted(g, id, "DeviceRoleSignal", what)
      <4>1. PICK ev \in AboutIn(h, S, id) : ev.kind = "DeviceRoleSignal" /\ what = ev.signal
        BY <3>2, Zenon
      <4>2. ev \in S /\ Says(ev, "DeviceRoleSignal", what)
        BY <2>3, <3>1, <4>1, Zenon
      <4>3. id = Device(Home(g, Claimant(ev)))
        BY <1>6, <4>2, Zenon
      <4> QED BY <1>5, <4>2, <4>3, Zenon DEF NotesAtEnd
    <3>3. ASSUME NEW what, Noted(g, id, "DeviceRoleSignal", what) PROVE what \in signals
      <4>1. PICK ev \in S : Says(ev, "DeviceRoleSignal", what) /\ id = Device(Home(g, Claimant(ev)))
        BY <1>5, <3>3, Zenon DEF NotesAtEnd
      <4>2. ev \in AboutIn(h, S, id)
        BY <1>6, <4>1, Zenon
      <4>3. ev.kind = "DeviceRoleSignal" /\ what = ev.signal
        BY <3>1, <4>1, Zenon
      <4> QED BY <4>2, <4>3, Zenon
    <3> QED BY <3>2, <3>3, Zenon
  <2>6. \A what : Noted(g, id, "DeviceRoleSignal", what) <=>
           id \in DOMAIN g.role_weights /\ what \in g.role_weights[id]
    BY DEF Noted
  <2>7. score_role(signals) = role(id)
    <3> HIDE DEF signals
    <3>1. CASE id \in DOMAIN g.role_weights
      <4>1. signals = g.role_weights[id]
        BY <2>5, <2>6, <3>1, Zenon
      <4> QED BY <3>1, <4>1, Zenon
    <3>2. CASE id \notin DOMAIN g.role_weights
      <4>1. signals = {}
        BY <2>5, <2>6, <3>2, Zenon
      <4> QED BY <3>2, <4>1, UnsignalledHost, Zenon
    <3> QED BY <3>1, <3>2
  <2>8. h.nodes[id].kind = IF g.nodes[id].opaque_reason # Nobody THEN "OpaqueBoundary"
                           ELSE IF role(id) # "Host" THEN role(id)
                           ELSE g.nodes[id].kind
    BY <1>4, <2>1, Zenon
  <2> HIDE DEF signals, bounded, role
  <2>9. h.nodes[id].kind = IF bounded THEN "OpaqueBoundary" ELSE score_role(signals)
    BY <2>2, <2>4, <2>7, <2>8, Zenon
  <2> QED BY <2>9, Zenon DEF signals, bounded
<1> QED BY <1>7, Zenon DEF KindsFinal, h

------------------------------------------------------------------------------
\* What is noted is where it belongs until the end, and then it decides the kinds.
RolesInv ==
    UndividedIn(seen) =>
        /\ ~final => RolesHome(graph, seen)
        /\ final => KindsFinal(graph, seen)

\* Nothing is noted of nobody.
LEMMA RolesInit == Init => RolesInv
<1> SUFFICES ASSUME Init PROVE ~final /\ RolesHome(graph, seen)
  BY Zenon DEF RolesInv
<1>1. graph = EmptyGraph /\ seen = {} /\ ~final
  BY DEF Init
<1>2. /\ DOMAIN graph.nodes = {} /\ DOMAIN graph.role_weights = {}
      /\ DOMAIN graph.address_owner = {} /\ DOMAIN graph.contested_addresses = {}
  BY <1>1 DEF EmptyGraph
<1> QED BY <1>1, <1>2, Zenon DEF RolesHome, OwnersHome, NotesHome, KindsHome, Noted

\* Every step keeps what is noted where it belongs.
LEMMA RolesStep ==
    ASSUME GraphInv, RolesInv, [Next]_vars
    PROVE  RolesInv'
<1>1. /\ Faithful(graph, seen, Realms) /\ final \in BOOLEAN
      /\ \A e \in world : IsEvidence(e) /\ e.origin \in Realms
      /\ \A e \in seen : IsEvidence(e)
  BY GraphAssumption DEF GraphInv, Realms
<1>2. ASSUME NEW ev \in world, Absorb(ev)
      PROVE  RolesInv'
  <2>1. final = FALSE /\ final' = FALSE /\ graph' = absorb(graph, ev) /\ seen' = seen \cup {ev}
    BY <1>1, <1>2 DEF Absorb
  <2>2. ev.origin \in Realms /\ \A e \in seen \cup {ev} : IsEvidence(e)
    BY <1>1
  <2>3. ASSUME UndividedIn(seen') PROVE RolesHome(graph', seen')
    <3>1. UndividedIn(seen)
      BY <2>1, <2>3, MoreClaims, Zenon
    <3>2. RolesHome(graph, seen)
      BY <2>1, <3>1, Zenon DEF RolesInv
    <3> QED BY <1>1, <2>1, <2>2, <2>3, <3>2, AbsorbRoles, Zenon
  <2> QED BY <2>1, <2>3, Zenon DEF RolesInv
<1>3. CASE Merge
  <2>1. final = FALSE /\ final' = FALSE /\ graph' = merge_address_identities(graph) /\ seen' = seen
    BY <1>1, <1>3 DEF Merge
  <2> QED BY <1>1, <2>1, MergeRoles, Zenon DEF RolesInv
<1>4. CASE Finalize
  <2>1. final = FALSE /\ final' = TRUE /\ graph' = finalize_roles(graph) /\ seen' = seen
    BY <1>1, <1>4 DEF Finalize
  <2> QED BY <1>1, <2>1, FinalizeRoles, Zenon DEF RolesInv
<1>5. CASE UNCHANGED vars
  <2>1. graph' = graph /\ seen' = seen /\ final' = final
    BY <1>5 DEF vars
  <2> QED BY <2>1, Zenon DEF RolesInv
<1> QED BY <1>2, <1>3, <1>4, <1>5 DEF Next, Returned

\* finalize_roles, for any evidence in any order with merges anywhere: every device is
\* reported once, and as long as no address changed hands its kind is a function of the
\* set of evidence about it (score_role, merge_address_identities).
THEOREM ReportIsFinal == Spec => []FinalReport
<1>1. Init => GraphInv /\ RolesInv
  BY GraphInit, RolesInit, Zenon
<1>2. GraphInv /\ RolesInv /\ [Next]_vars => (GraphInv /\ RolesInv)'
  BY GraphStep, RolesStep, Zenon
<1>3. GraphInv /\ RolesInv => FinalReport
  <2> SUFFICES ASSUME GraphInv, RolesInv PROVE FinalReport
    OBVIOUS
  <2>1. ReportedOnce
    BY GraphPromises, Zenon
  <2>2. Bridges = BridgesIn(seen) /\ (Undivided <=> UndividedIn(seen))
        /\ \A id : About(id) = AboutIn(graph, seen, id)
    BY Zenon DEF Bridges, BridgesIn, Undivided, UndividedIn, Claims, ClaimsIn, About, AboutIn
  <2>3. KindIsOrderFree
    BY <2>2, Zenon DEF RolesInv, KindsFinal, KindIsOrderFree
  <2> QED BY <2>1, <2>3, Zenon DEF FinalReport
<1> QED BY <1>1, <1>2, <1>3, PTL DEF Spec

==============================================================================
