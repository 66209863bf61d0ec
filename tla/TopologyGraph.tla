---------------------------- MODULE TopologyGraph ----------------------------
(***************************************************************************)
(* The graph of src/topology/graph.rs: how evidence from any provider, in  *)
(* any order, from this machine or from peers, becomes nodes and edges.    *)
(*                                                                         *)
(* A device key is what it names (`of`: a MAC or an address), the zone of  *)
(* a link-local address and the observation domain it was qualified with;  *)
(* DeviceKey::Address is the key with neither.  An observation domain is   *)
(* `Local` or one vantage of one peer.  A node keeps what the graph reads  *)
(* back: `reachable` are the addresses noted as locally observed, and of   *)
(* vendor, opaque reason and provenance only whose statement each is.      *)
(* Confidence, wording and the contents of descriptions are left out.      *)
(***************************************************************************)
EXTENDS Integers, FiniteSets, RoleScoring

CONSTANTS Local,             \* Realm::Local
          NoZone,            \* no interface part
          Nobody,            \* an absent vendor or reason
          Macs, Addresses,
          GloballyUnique,    \* manufacturer MACs, public addresses and prefixes
          LinkLocal,         \* addresses that require a zone
          NotTopology,       \* prefixes is_topology_network refuses
          Alphabets          \* sets of evidence: what there may be to report

EvidenceKinds ==
    {"Network", "InterfaceNetwork", "Vlan", "VlanNetwork", "DeviceAddress", "DeviceHostname",
     "DeviceVendor", "OpaqueBoundary", "DeviceDescription", "DeviceCapability",
     "DeviceRoleSignal", "GatewayFor", "RoutesTo", "AttachedTo", "BridgeLink",
     "ForwardsToward", "ObservedBehind", "Service", "ResolvedAs"}

\* A provider names devices in its own domain (qualify_device adds the peer's),
\* a name is about what it is given for, and the validated reply of a sweep names
\* a MAC, or without a link-layer option the address that was asked for.
IsEvidence(ev) ==
    /\ {"kind", "origin", "source", "vantage"} \subseteq DOMAIN ev
    /\ ev.kind \in EvidenceKinds
    /\ ev.origin # Nobody
    /\ ev.kind \in {"DeviceAddress", "DeviceHostname", "DeviceVendor", "OpaqueBoundary",
                    "DeviceRoleSignal"} =>
          /\ "device" \in DOMAIN ev
          /\ ev.device = [of |-> ev.device.of, zone |-> ev.device.zone, realm |-> Local]
          /\ ev.device.of \in Macs \cup Addresses
    /\ ev.kind = "DeviceAddress" =>
          /\ "address" \in DOMAIN ev /\ ev.address \in Addresses
          /\ ev.source = "probe" =>
               \/ ev.device.of \in Macs
               \/ /\ ev.device.of = ev.address
                  /\ ev.device.zone = IF ev.address \in LinkLocal THEN ev.vantage ELSE NoZone
    /\ ev.kind = "DeviceHostname" => "about" \in DOMAIN ev /\ ev.about = ev.device.of
    /\ ev.kind = "ResolvedAs" => "address" \in DOMAIN ev
    /\ ev.kind = "DeviceRoleSignal" => "signal" \in DOMAIN ev
    /\ ev.kind = "BridgeLink" => {"bridge", "root"} \subseteq DOMAIN ev

ASSUME GraphAssumption ==
    /\ \A w \in Alphabets : \A ev \in w : IsEvidence(ev)
    /\ Macs \cap Addresses = {}
    /\ LinkLocal \subseteq Addresses \ GloballyUnique
    /\ Nobody # Local

VARIABLES world,   \* the evidence that may arrive in this run
          graph,   \* TopologyGraph
          seen,    \* history: evidence absorbed so far
          final    \* whether finalize_roles has run

vars == <<world, graph, seen, final>>

------------------------------------------------------------------------------
(* Identities and observation domains (topology/realm.rs).                  *)

Key(of, zone, realm) == [of |-> of, zone |-> zone, realm |-> realm]
IsMac(key) == key.of \in Macs
Device(key) == <<"device", key>>

qualify_device(key, realm) ==
    IF \/ realm = Local
       \/ key.of \in GloballyUnique /\ key.zone = NoZone
      THEN key
      ELSE [key EXCEPT !.realm = realm]

\* Fault: a name means the same in every domain.
RealmOf_everywhere(name, realm) == Local

\* network_realm and address_realm.
RealmOf(name, realm) == IF name \in GloballyUnique THEN Local ELSE realm

Network(prefix, realm) == <<"network", prefix, RealmOf(prefix, realm)>>
Vlan(id, realm) == <<"vlan", id, realm>>
Interface(name, realm) == <<"interface", name, realm>>
Service(address, port, realm) == <<"service", <<address, port>>, RealmOf(address, realm)>>

\* The key of address_owner, address_binding and contested_addresses.
Slot(address, vantage, realm) ==
    <<address, IF address \in LinkLocal THEN vantage ELSE NoZone, RealmOf(address, realm)>>

------------------------------------------------------------------------------
(* Nodes and edges.                                                         *)

NewNode(kind) ==
    [kind |-> kind, addresses |-> {}, reachable |-> {}, hostnames |-> {},
     vendor |-> Nobody, opaque_reason |-> Nobody, provenance |-> {},
     contested_addresses |-> {}, superseded_addresses |-> {}]

EmptyGraph ==
    [nodes |-> << >>, edges |-> {}, address_owner |-> << >>,
     address_binding |-> << >>, contested_addresses |-> << >>,
     vlans_without_prefix |-> {}, egress_path |-> << >>, role_weights |-> << >>]

\* insert and remove of a map.
With(f, x, v) == [y \in DOMAIN f \cup {x} |-> IF y = x THEN v ELSE f[y]]
Without(f, x) == [y \in DOMAIN f \ {x} |-> f[y]]

\* The kind is decided by whoever mentions the node first.
upsert(g, id, kind, realm) ==
    LET node == IF id \in DOMAIN g.nodes THEN g.nodes[id] ELSE NewNode(kind)
    IN  [g EXCEPT !.nodes = With(@, id, [node EXCEPT !.provenance = @ \cup {realm}])]

link(g, from, to, relationship) ==
    [g EXCEPT !.edges = @ \cup {<<from, to, relationship>>}]

\* Replaces a node that exists; a missing one is left missing.
Update(g, id, node) ==
    IF id \in DOMAIN g.nodes THEN [g EXCEPT !.nodes[id] = node] ELSE g

\* `addresses.insert` with `note_address`.
Hold(node, address, realm) ==
    [node EXCEPT !.addresses = @ \cup {address},
                 !.reachable = IF realm = Local THEN @ \cup {address} ELSE @]

supersede_address(node, address, holder) ==
    [node EXCEPT !.addresses = @ \ {address},
                 !.reachable = @ \ {address},
                 !.superseded_addresses = @ \cup {<<address, holder>>}]

Dispute(node, address, realm) ==
    [Hold(node, address, realm) EXCEPT !.contested_addresses = @ \cup {address}]

locally_observed(node) == Local \in node.provenance

------------------------------------------------------------------------------
(* Resolution of an address-based identity to the device that holds it.     *)

owner_in_realm(g, address, zone, realm, otherwise) ==
    LET slot == <<address, zone, RealmOf(address, realm)>>
    IN  IF slot \in DOMAIN g.address_owner THEN g.address_owner[slot] ELSE otherwise

\* canonical_key: its own address first, then the address the fact is about.
canonical_key(g, key, address, realm) ==
    IF IsMac(key) THEN key
    ELSE owner_in_realm(g, key.of, key.zone, realm,
                        owner_in_realm(g, address, key.zone, realm, key))

\* The same for a fact that is about no address.
Canonical(g, key, realm) == canonical_key(g, key, key.of, realm)

\* Fault: a reply counts no more than a memory.
binding_freshness_flat(source) == 1

\* Fault: a memory counts as much as a reply.
binding_freshness_trusting(source) == 2

\* How current a binding is: 2 for a validated reply, 1 for a memory.
binding_freshness(source) == IF source = "probe" THEN 2 ELSE 1

\* AddressClaim: what a claim by `key` does to a slot that is not in dispute.
AddressClaim(g, slot, key, source) ==
    LET held == slot \in DOMAIN g.address_owner
        owner == g.address_owner[slot]
        claim == binding_freshness(source)
        since == binding_freshness(g.address_binding[slot])
    IN  IF ~held \/ owner = key                   THEN "Uncontested"
        ELSE IF IsMac(key) /\ ~IsMac(owner)       THEN "Refines"
        ELSE IF ~IsMac(key) /\ IsMac(owner)       THEN "Refined"
        ELSE IF claim > since                     THEN "Supersedes"
        ELSE IF claim = since /\ claim = 2        THEN "Contested"
        ELSE "Superseded"

------------------------------------------------------------------------------
(* `absorb`, one operator per arm.                                          *)

\* Who is in a dispute once `key` has joined it.
Joined(claimants, key) == claimants \cup {key}

AbsorbDeviceAddress(g0, ev) ==
    LET key == canonical_key(g0, ev.device, ev.address, ev.origin)
        id == Device(key)
        g == upsert(g0, id, "Host", ev.origin)
        slot == Slot(ev.address, ev.vantage, ev.origin)
        claim == AddressClaim(g, slot, key, ev.source)
        previous == g.address_owner[slot]
        held == Update(g, id, Hold(g.nodes[id], ev.address, ev.origin))
        owned == [held EXCEPT !.address_owner = With(@, slot, key),
                              !.address_binding = With(@, slot, ev.source)]
        claimants == g.contested_addresses[slot]
        disputed(h, who) == Update(h, Device(who),
                                   Dispute(h.nodes[Device(who)], ev.address, ev.origin))
    IN  IF slot \in DOMAIN g.contested_addresses
          THEN [disputed(g, key) EXCEPT !.contested_addresses[slot] = Joined(claimants, key)]
        ELSE CASE claim \in {"Uncontested", "Refines"} -> owned
               [] claim = "Supersedes" ->
                    Update(owned, Device(previous),
                           supersede_address(owned.nodes[Device(previous)], ev.address, key))
               [] claim = "Superseded" ->
                    Update(g, id, supersede_address(g.nodes[id], ev.address, previous))
               [] claim = "Refined" -> held
               [] claim = "Contested" ->
                    [disputed(disputed(g, previous), key) EXCEPT
                        !.address_owner = Without(@, slot),
                        !.address_binding = Without(@, slot),
                        !.contested_addresses = With(@, slot, {previous, key})]

\* A name, by whom it was stated and about what.
AbsorbHostname(g0, ev) ==
    LET id == Device(Canonical(g0, ev.device, ev.origin))
        g == upsert(g0, id, "Host", ev.origin)
    IN  [g EXCEPT !.nodes[id].hostnames = @ \cup {<<ev.about, ev.origin>>}]

\* DeviceVendor and OpaqueBoundary: a peer may fill in, never replace.
Stated(node, field, origin) ==
    LET established_locally == node[field] # Nobody /\ locally_observed(node)
    IN  IF origin # Local /\ established_locally THEN node
        ELSE [node EXCEPT ![field] = origin]

AbsorbStatement(g0, ev, field) ==
    LET id == Device(Canonical(g0, ev.device, ev.origin))
        g == upsert(g0, id, "Host", ev.origin)
    IN  [g EXCEPT !.nodes[id] = Stated(@, field, ev.origin)]

AbsorbRoleSignal(g0, ev) ==
    LET id == Device(Canonical(g0, ev.device, ev.origin))
        g == upsert(g0, id, "Host", ev.origin)
        known == IF id \in DOMAIN g.role_weights THEN g.role_weights[id] ELSE {}
    IN  [g EXCEPT !.role_weights = With(@, id, known \cup {ev.signal})]

\* DeviceDescription and DeviceCapability: the node is mentioned.
AbsorbMention(g, ev) ==
    upsert(g, Device(Canonical(g, ev.device, ev.origin)), "Host", ev.origin)

\* upsert_network: refused for loopback, link-local and multicast prefixes.
upsert_network(g, prefix, realm) ==
    IF prefix \in NotTopology THEN g
    ELSE upsert(g, Network(prefix, realm), "Network", realm)

AbsorbInterfaceNetwork(g, ev) ==
    LET id == Interface(ev.interface, ev.origin)
    IN  IF ev.network \in NotTopology THEN g
        ELSE link(upsert(upsert_network(g, ev.network, ev.origin), id, "Interface", ev.origin),
                  id, Network(ev.network, ev.origin), "AttachedTo")

\* GatewayFor, RoutesTo (with its next hop) and AttachedTo.
AbsorbRelation(g0, ev) ==
    LET id == Device(Canonical(g0, ev.device, ev.origin))
        g1 == upsert_network(upsert(g0, id, "Host", ev.origin), ev.network, ev.origin)
        g2 == link(g1, id, Network(ev.network, ev.origin), ev.kind)
        hop == Key(ev.next_hop, NoZone, Local)
    IN  IF ev.network \in NotTopology THEN g1
        ELSE IF ev.kind = "RoutesTo" /\ ev.next_hop # Nobody
          THEN upsert(g2, Device(canonical_key(g2, hop, ev.next_hop, ev.origin)),
                      "Host", ev.origin)
          ELSE g2

AbsorbVlan(g, ev) ==
    [upsert(g, Vlan(ev.vlan, ev.origin), "Vlan", ev.origin) EXCEPT
        !.vlans_without_prefix = @ \cup {Vlan(ev.vlan, ev.origin)}]

\* Unlike the other arms it adds its network without asking is_topology_network.
AbsorbVlanNetwork(g, ev) ==
    LET vlan == Vlan(ev.vlan, ev.origin)
        network == Network(ev.network, ev.origin)
        both == upsert(upsert(g, vlan, "Vlan", ev.origin), network, "Network", ev.origin)
    IN  [link(both, vlan, network, "CarriesNetwork") EXCEPT
            !.vlans_without_prefix = @ \ {vlan}]

\* bridge_identity is Nobody for an identifier with no hardware address in it,
\* and a link with such an end creates no device.
AbsorbBridgeLink(g, ev) ==
    LET bridge == Device(qualify_device(ev.bridge, ev.origin))
        root == Device(qualify_device(ev.root, ev.origin))
        both == upsert(upsert(g, bridge, "Switch", ev.origin), root, "Switch", ev.origin)
    IN  IF Nobody \in {ev.bridge, ev.root} THEN g
        ELSE IF bridge = root THEN both
        ELSE link(both, bridge, root, "PossibleUplink")

\* A hop of the egress path; the hop before it is linked, not created.
AbsorbForwardsToward(g0, ev) ==
    LET id == Device(Canonical(g0, ev.device, ev.origin))
        g == [upsert(g0, id, "Host", ev.origin) EXCEPT
                !.egress_path = With(@, ev.distance, id)]
        from == Device(Canonical(g, ev.previous, ev.origin))
    IN  IF ev.previous = Nobody \/ from = id THEN g
        ELSE link(g, from, id, "ForwardsToward")

AbsorbObservedBehind(g, ev) ==
    LET id == Device(Canonical(g, ev.device, ev.origin))
        via == Device(Canonical(g, ev.via, ev.origin))
    IN  link(upsert(upsert(g, id, "Host", ev.origin), via, "Host", ev.origin),
             id, via, "ObservedBehind")

\* A service belongs to whoever owns its address when it is absorbed.
AbsorbService(g0, ev) ==
    LET id == Service(ev.address, ev.port, ev.origin)
        g == upsert(g0, id, "Service", ev.origin)
        slot == Slot(ev.address, ev.vantage, ev.origin)
    IN  IF slot \in DOMAIN g.address_owner
          THEN link(g, Device(g.address_owner[slot]), id, "Advertises")
          ELSE g

AbsorbResolvedAs(g, ev) ==
    LET slot == Slot(ev.address, ev.vantage, ev.origin)
        id == Device(g.address_owner[slot])
    IN  IF slot \in DOMAIN g.address_owner
          THEN [upsert(g, id, "Host", ev.origin) EXCEPT
                  !.nodes[id].hostnames = @ \cup {<<ev.address, ev.origin>>}]
          ELSE g

\* qualify_fact: `device` and `via` of every fact that has an arm there, which
\* ForwardsToward has not; a next hop stays as it is too.
Qualified(ev) ==
    [field \in DOMAIN ev |->
        IF field \in {"device", "via"} /\ ev.kind # "ForwardsToward"
          THEN qualify_device(ev[field], ev.origin)
          ELSE ev[field]]

absorb(g, ev) ==
    LET q == Qualified(ev)
    IN  CASE q.kind = "Network" -> upsert_network(g, q.network, q.origin)
          [] q.kind = "InterfaceNetwork" -> AbsorbInterfaceNetwork(g, q)
          [] q.kind = "Vlan" -> AbsorbVlan(g, q)
          [] q.kind = "VlanNetwork" -> AbsorbVlanNetwork(g, q)
          [] q.kind = "DeviceAddress" -> AbsorbDeviceAddress(g, q)
          [] q.kind = "DeviceHostname" -> AbsorbHostname(g, q)
          [] q.kind = "DeviceVendor" -> AbsorbStatement(g, q, "vendor")
          [] q.kind = "OpaqueBoundary" -> AbsorbStatement(g, q, "opaque_reason")
          [] q.kind \in {"DeviceDescription", "DeviceCapability"} -> AbsorbMention(g, q)
          [] q.kind = "DeviceRoleSignal" -> AbsorbRoleSignal(g, q)
          [] q.kind \in {"GatewayFor", "RoutesTo", "AttachedTo"} -> AbsorbRelation(g, q)
          [] q.kind = "BridgeLink" -> AbsorbBridgeLink(g, q)
          [] q.kind = "ForwardsToward" -> AbsorbForwardsToward(g, q)
          [] q.kind = "ObservedBehind" -> AbsorbObservedBehind(g, q)
          [] q.kind = "Service" -> AbsorbService(g, q)
          [] q.kind = "ResolvedAs" -> AbsorbResolvedAs(g, q)

------------------------------------------------------------------------------
(* merge_address_identities: every address identity whose slot a hardware   *)
(* identity owns is folded into that device.                                *)

Devices(g) == {id \in DOMAIN g.nodes : id[1] = "device"}

OwnSlot(key) == <<key.of, key.zone, RealmOf(key.of, key.realm)>>

Foldable(g) ==
    {id \in Devices(g) :
        /\ ~IsMac(id[2])
        /\ OwnSlot(id[2]) \in DOMAIN g.address_owner
        /\ IsMac(g.address_owner[OwnSlot(id[2])])
        /\ Device(g.address_owner[OwnSlot(id[2])]) \in DOMAIN g.nodes}

\* Fault: edges keep naming the identity that was folded away.
Survivor_none(g, id) == id

Survivor(g, id) ==
    IF id \in Foldable(g) THEN Device(g.address_owner[OwnSlot(id[2])]) ELSE id

\* The first of `sources` that has the field; the target keeps its own.
FirstStated(target, sources, field) ==
    LET having == {n \in sources : n[field] # Nobody}
    IN  IF target[field] # Nobody \/ having = {} THEN target[field]
        ELSE (CHOOSE n \in having : TRUE)[field]

FoldInto(target, sources) ==
    LET All(field) == target[field] \cup UNION {n[field] : n \in sources}
    IN  [target EXCEPT !.addresses = All("addresses"),
                       !.reachable = All("reachable"),
                       !.hostnames = All("hostnames"),
                       !.provenance = All("provenance"),
                       !.vendor = FirstStated(target, sources, "vendor"),
                       !.opaque_reason = FirstStated(target, sources, "opaque_reason")]

merge_address_identities(g) ==
    LET gone == Foldable(g)
        Sources(id) == {s \in gone : Survivor(g, s) = id}
        touched == {e \in g.edges : e[1] \in gone \/ e[2] \in gone}
        moved == {<<Survivor(g, e[1]), Survivor(g, e[2]), e[3]>> : e \in touched}
        weighed == {Survivor(g, id) : id \in DOMAIN g.role_weights}
    IN  [g EXCEPT
           !.nodes = [id \in DOMAIN g.nodes \ gone |->
                        FoldInto(g.nodes[id], {g.nodes[s] : s \in Sources(id)})],
           !.edges = (@ \ touched) \cup {e \in moved : e[1] # e[2]},
           !.role_weights = [id \in weighed |->
                               UNION {g.role_weights[s] :
                                        s \in DOMAIN @ \cap ({id} \cup Sources(id))}]]

\* finalize_roles: fold, score, and a boundary is a boundary whatever it does.
finalize_roles(g0) ==
    LET g == merge_address_identities(g0)
        role(id) == IF id \in DOMAIN g.role_weights
                      THEN score_role(g.role_weights[id]) ELSE "Host"
    IN  [g EXCEPT !.nodes =
            [id \in DOMAIN g.nodes |->
               [g.nodes[id] EXCEPT !.kind =
                  IF g.nodes[id].opaque_reason # Nobody THEN "OpaqueBoundary"
                  ELSE IF role(id) # "Host" THEN role(id)
                  ELSE @]]]

------------------------------------------------------------------------------
Init ==
    /\ world \in Alphabets
    /\ graph = EmptyGraph
    /\ seen = {}
    /\ final = FALSE

Absorb(ev) ==
    /\ ~final
    /\ graph' = absorb(graph, ev)
    /\ seen' = seen \cup {ev}
    /\ UNCHANGED <<world, final>>

Merge ==
    /\ ~final
    /\ graph' = merge_address_identities(graph)
    /\ UNCHANGED <<world, seen, final>>

Finalize ==
    /\ ~final
    /\ graph' = finalize_roles(graph)
    /\ final' = TRUE
    /\ UNCHANGED <<world, seen>>

Returned == final /\ UNCHANGED vars

Next ==
    \/ \E ev \in world : Absorb(ev)
    \/ Merge
    \/ Finalize
    \/ Returned

Spec == Init /\ [][Next]_vars

------------------------------------------------------------------------------
(* Properties.                                                              *)

\* Claims of hardware identities absorbed so far for one address slot.
Claims(slot) ==
    {ev \in seen : /\ ev.kind = "DeviceAddress"
                   /\ IsMac(ev.device)
                   /\ Slot(ev.address, ev.vantage, ev.origin) = slot}

Claimant(ev) == qualify_device(ev.device, ev.origin)

Answered(slot) == {Claimant(ev) : ev \in {c \in Claims(slot) : c.source = "probe"}}

\* Somebody answered who did not say which station it is.
Anonymous(slot) ==
    \E ev \in seen : /\ ev.kind = "DeviceAddress" /\ ~IsMac(ev.device) /\ ev.source = "probe"
                     /\ Slot(ev.address, ev.vantage, ev.origin) = slot

Slots == {Slot(ev.address, ev.vantage, ev.origin) :
            ev \in {e \in seen : e.kind = "DeviceAddress"}}

Realms == {Local} \cup {ev.origin : ev \in world}

NodeKinds == {"Host", "Network", "Vlan", "Interface", "Service", "Router", "Switch",
              "Layer3Switch", "OpaqueBoundary"}

TypeOK ==
    /\ \A id \in DOMAIN graph.nodes :
          LET n == graph.nodes[id]
          IN  /\ n.kind \in NodeKinds
              /\ n.addresses \subseteq Addresses
              /\ n.reachable \subseteq n.addresses
              /\ n.contested_addresses \subseteq Addresses
              /\ n.provenance \subseteq Realms
              /\ {n.vendor, n.opaque_reason} \subseteq Realms \cup {Nobody}
    /\ DOMAIN graph.address_owner = DOMAIN graph.address_binding
    /\ DOMAIN graph.role_weights \subseteq Devices(graph)
    /\ world \in Alphabets
    /\ seen \subseteq world
    /\ final \in BOOLEAN

(* A disputed address resolves to nobody, and every station that claimed it *)
(* is in the report and says so, whatever is absorbed or folded afterwards. *)
(* It keeps the address ("The node keeps the address -- it did answer for   *)
(* it") unless the same address was taken over on another link or in        *)
(* another domain, and then it names the new holder: a node has one set of  *)
(* addresses for all of them.  (An address identity may join a dispute too  *)
(* and is folded away later; FoldInto does not carry its disputes over.)    *)
DisputedIsUnowned ==
    \A slot \in DOMAIN graph.contested_addresses :
        /\ slot \notin DOMAIN graph.address_owner
        /\ \A key \in graph.contested_addresses[slot] :
              IsMac(key) =>
                /\ Device(key) \in DOMAIN graph.nodes
                /\ LET n == graph.nodes[Device(key)]
                   IN  /\ slot[1] \in n.contested_addresses
                       /\ \/ slot[1] \in n.addresses
                          \/ \E taken \in n.superseded_addresses : taken[1] = slot[1]

(* A dispute is opened by two validated answers for the address on the same *)
(* link of the same domain; a memory may join it, and never opens one.  Two *)
(* of the stations listed answered themselves, or one did and the other     *)
(* answer carried no MAC: an advertisement without a link-layer option      *)
(* counts for whoever was known to hold the address.                        *)
DisputesAreReal ==
    \A slot \in DOMAIN graph.contested_addresses :
        LET answered == graph.contested_addresses[slot] \cap Answered(slot)
        IN  \/ \E a, b \in answered : a # b
            \/ answered # {} /\ Anonymous(slot)

(* A dispute never ends and no claimant leaves it ("later claimants only    *)
(* join the dispute").                                                      *)
DisputesOnlyGrow ==
    [][\A slot \in DOMAIN graph.contested_addresses :
         /\ slot \in DOMAIN graph'.contested_addresses
         /\ graph.contested_addresses[slot] \subseteq graph'.contested_addresses[slot]]_vars

(* A remembered binding never displaces a confirmed one: once a station     *)
(* answered for an address, the address belongs to a station that answered, *)
(* or is in dispute.                                                        *)
AnsweredNowHolds ==
    \A slot \in Slots :
        Answered(slot) # {} =>
            \/ slot \in DOMAIN graph.contested_addresses
            \/ slot \in DOMAIN graph.address_owner
                 /\ graph.address_owner[slot] \in Answered(slot)

(* After the final merge no device is reported twice: an address identity   *)
(* whose slot a hardware identity owns is gone, and its edges and its role  *)
(* signals are on the device that remains.  (A service seen after the merge *)
(* at a second address of a folded identity is attributed to the identity   *)
(* that is gone: address_owner is not re-pointed.  The hop before a hop is  *)
(* linked whether or not it was reported itself.)                           *)
ReportedOnce ==
    final => /\ Foldable(graph) = {}
             /\ \A e \in graph.edges :
                   /\ e[2] \in DOMAIN graph.nodes
                   /\ e[3] \notin {"Advertises", "ForwardsToward"} =>
                         e[1] \in DOMAIN graph.nodes
             /\ DOMAIN graph.role_weights \subseteq DOMAIN graph.nodes

\* A machine placed a private address on a host that the world knows: it reported
\* it for a public address, or for an address placed that way.
Disclosed(address, realm) ==
    LET polls == {ev \in seen : /\ ev.kind = "DeviceAddress"
                               /\ ev.origin = realm
                               /\ ~IsMac(ev.device)}
        Closed(S) == \A ev \in polls : ev.device.of \in GloballyUnique \cup S => ev.address \in S
    IN  \A S \in SUBSET Addresses : Closed(S) => address \in S

(* Names stay in the domain that stated them: what one machine says about a *)
(* private address or a randomized MAC never lands on a device of another   *)
(* domain, unless that device carries a globally unique MAC, or the machine *)
(* itself reported the private address as one of a host with a public one   *)
(* (whoever holds the public address then holds the private one too).       *)
NamesStayInDomain ==
    \A id \in Devices(graph) : \A h \in graph.nodes[id].hostnames :
        h[1] \notin GloballyUnique =>
            \/ id[2].realm = h[2]
            \/ IsMac(id[2]) /\ id[2].of \in GloballyUnique
            \/ Disclosed(h[1], h[2])

(* "A peer may fill in a vendor this vantage never learned, but it must not *)
(* replace one established here": a station stays in the report with it.    *)
LocalVendorKept ==
    \A ev \in seen :
        ev.kind = "DeviceVendor" /\ ev.origin = Local /\ IsMac(ev.device) =>
            /\ Device(ev.device) \in DOMAIN graph.nodes
            /\ graph.nodes[Device(ev.device)].vendor = Local

\* Evidence about a device under any of the identities it ends up with.
About(id) ==
    {ev \in seen : "device" \in DOMAIN ev /\
                   Survivor(graph, Device(Canonical(graph, qualify_device(ev.device, ev.origin),
                                                    ev.origin))) = id}

\* Devices that a BPDU names.
Bridges ==
    UNION {{Device(qualify_device(ev.bridge, ev.origin)), Device(qualify_device(ev.root, ev.origin))} :
             ev \in {e \in seen : e.kind = "BridgeLink" /\ Nobody \notin {e.bridge, e.root}}}

\* No address has changed hands: the stations that claim a slot are one, and an
\* address identity claims no address but its own.
Undivided ==
    \A ev \in seen : ev.kind = "DeviceAddress" =>
        LET slot == Slot(ev.address, ev.vantage, ev.origin)
        IN  IF IsMac(ev.device) THEN \A c \in Claims(slot) : Claimant(c) = Claimant(ev)
            ELSE OwnSlot(Claimant(ev)) = slot

(* Roles are "weighed together rather than in arrival order": as long as    *)
(* no address changes hands, the kind a device is reported with is a        *)
(* function of the set of evidence about it, under whichever identity each  *)
(* piece arrived, and not of its order.  (A bridge is the exception: it is  *)
(* a switch if its BPDU came first.  And what was said of an address before *)
(* another station took it over, or before a device known by another        *)
(* address disclosed it, stays with whoever it was said of.)                *)
KindIsOrderFree ==
    final /\ Undivided =>
        \A id \in Devices(graph) \ Bridges :
            LET signals == {ev.signal : ev \in {e \in About(id) : e.kind = "DeviceRoleSignal"}}
                bounded == \E ev \in About(id) : ev.kind = "OpaqueBoundary"
            IN  graph.nodes[id].kind = IF bounded THEN "OpaqueBoundary"
                                       ELSE score_role(signals)

(* Disputes are sound: opened by two stations that answered, and nobody's   *)
(* address while they last; the graph keeps its types (bind_address).       *)
DisputesSound == TypeOK /\ DisputedIsUnowned /\ DisputesAreReal

(* A peer's words stay a peer's: neither its names nor its vendors replace  *)
(* what this machine established (qualify_device, merge_vendor).            *)
PeersStayApart == NamesStayInDomain /\ LocalVendorKept

(* What is reported at the end has each device once, and the kind the whole *)
(* of the evidence gives it (merge_identities, finalize_roles).             *)
FinalReport == ReportedOnce /\ KindIsOrderFree
==============================================================================
