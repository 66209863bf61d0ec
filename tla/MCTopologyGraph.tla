--------------------------- MODULE MCTopologyGraph ---------------------------
(* Alphabets of evidence for TopologyGraph: m1 has a manufacturer MAC, m2 a *)
(* randomized one; x and y are private addresses, z is public, l is         *)
(* link-local and seen from the interfaces en0 and en1; lo is a prefix that *)
(* is no part of the topology.                                              *)
EXTENDS TopologyGraph, TLC

VARIABLE signals     \* role signals of one device

CONSTANTS m1, m2, x, y, z, l, net, lo, p, en0, en1

By(origin, source) == [origin |-> origin, source |-> source, vantage |-> NoZone]

Here(source) == By(Local, source)

MacKey(mac) == Key(mac, NoZone, Local)
AddressKey(address) == Key(address, NoZone, Local)

Claim(device, address, how) ==
    [kind |-> "DeviceAddress", device |-> device, address |-> address] @@ how

About1(kind, device, how) == [kind |-> kind, device |-> device] @@ how

Named(device, how) == About1("DeviceHostname", device, how) @@ [about |-> device.of]

Signal(device, signal) ==
    About1("DeviceRoleSignal", device, Here("observed")) @@ [signal |-> signal]

Relation(kind, device, network, hop, how) ==
    About1(kind, device, how) @@ [network |-> network, next_hop |-> hop]

\* Two stations and a sweep at one address, each claim fresh and remembered.
ClaimAlphabet ==
    {Claim(MacKey(m), x, Here(s)) : m \in {m1, m2}, s \in {"probe", "cache"}}
    \cup {Claim(AddressKey(x), x, Here("icmp")),
          Claim(MacKey(m1), y, Here("cache")),
          Named(AddressKey(x), Here("dns"))}

\* The same address and the same random MAC here and at a peer, a public
\* address both see, and a manufacturer MAC both see.
PeerAlphabet ==
    UNION {{Claim(MacKey(m2), x, By(o, "cache")), Claim(AddressKey(x), x, By(o, "icmp")),
            Named(AddressKey(x), By(o, "dns")), About1("DeviceVendor", MacKey(m1), By(o, "cache"))} :
             o \in {Local, p}}
    \cup {Claim(MacKey(m1), x, Here("probe")), Named(AddressKey(z), By(p, "dns"))}

\* A router known by its address first and by its hardware later.
RelationAlphabet ==
    {Claim(AddressKey(x), x, Here("icmp")), Claim(MacKey(m1), x, Here("cache")),
     Relation("GatewayFor", AddressKey(x), net, Nobody, Here("route")),
     Relation("RoutesTo", MacKey(m2), net, x, Here("snmp")),
     Signal(AddressKey(x), "ObservedForwarding"), Signal(MacKey(m1), "ManagementSurface"),
     About1("OpaqueBoundary", AddressKey(x), Here("icmp")),
     About1("ObservedBehind", MacKey(m2), Here("snmp")) @@ [via |-> AddressKey(x)],
     Relation("AttachedTo", AddressKey(x), net, Nobody, Here("snmp")),
     About1("DeviceDescription", AddressKey(x), Here("snmp")),
     [kind |-> "InterfaceNetwork", interface |-> en0, network |-> net] @@ Here("route"),
     [kind |-> "Network", network |-> net] @@ Here("route")}

\* An address that changes hands between two stations, or is one of several of a device.
HandoverAlphabet ==
    {Claim(MacKey(m1), x, Here("cache")), Claim(MacKey(m2), x, Here("probe")),
     Claim(AddressKey(x), y, Here("snmp")),
     Signal(AddressKey(x), "ObservedForwarding"), Signal(MacKey(m1), "ManagementSurface"),
     Signal(AddressKey(y), "DefaultGateway"), About1("OpaqueBoundary", AddressKey(y), Here("icmp"))}

Hop(device, how) ==
    About1("ForwardsToward", device, how) @@ [distance |-> 1, previous |-> Nobody]

SecondHop(device, previous, how) ==
    About1("ForwardsToward", device, how) @@ [distance |-> 2, previous |-> previous]

\* Next hops and hops of the egress path, as a peer and as this machine sees them.
HopAlphabet ==
    {Hop(AddressKey(x), By(p, "icmp")), Claim(AddressKey(y), y, Here("icmp")),
     Relation("RoutesTo", MacKey(m1), net, x, By(p, "snmp"))}

\* Two hops of the egress path, which turn out to be two devices or one.
EgressAlphabet ==
    {Hop(AddressKey(x), Here("icmp")), SecondHop(AddressKey(y), AddressKey(x), Here("icmp")),
     Claim(MacKey(m1), x, Here("cache")), Claim(MacKey(m1), y, Here("cache")),
     Claim(MacKey(m2), y, Here("probe")), Signal(AddressKey(y), "ObservedForwarding")}

VlanAlphabet ==
    {[kind |-> "Vlan", vlan |-> 20] @@ Here("capture"),
     [kind |-> "VlanNetwork", vlan |-> 20, network |-> net] @@ Here("snmp")}

\* A router polled by address discloses a second address, which has a service.
ServiceAlphabet ==
    {Claim(AddressKey(x), x, Here("icmp")), Claim(AddressKey(x), y, Here("snmp")),
     Claim(MacKey(m1), x, Here("cache")),
     Claim(MacKey(m1), y, Here("probe")), Claim(MacKey(m2), y, Here("probe")),
     [kind |-> "Service", address |-> y, port |-> 443] @@ Here("tcp"),
     [kind |-> "ResolvedAs", address |-> y] @@ Here("dns")}

\* BPDUs of a bridge, of the root itself, and with a root that does not parse.
BridgeAlphabet ==
    {[kind |-> "BridgeLink", bridge |-> MacKey(m1), root |-> root] @@ Here("stp") :
        root \in {MacKey(m1), MacKey(m2), Nobody}}
    \cup {Signal(MacKey(m1), "SpanningTreeBridge"), Claim(MacKey(m2), x, Here("cache"))}

\* A peer places m1 at a public address where this machine finds m2, and knows a
\* private address of the host it polls there.
PublicAlphabet ==
    {Claim(MacKey(m1), x, Here("cache")), Claim(MacKey(m1), z, By(p, "probe")),
     Claim(MacKey(m2), z, Here("probe")),
     Claim(AddressKey(z), y, By(p, "snmp")), Named(AddressKey(y), By(p, "dns"))}

\* A peer places its own m2 there, and this machine polls the public address.
PolledAlphabet ==
    {Claim(MacKey(m2), z, By(p, "cache")), Claim(MacKey(m1), z, Here("probe")),
     Claim(AddressKey(z), x, Here("snmp")), Claim(AddressKey(x), y, Here("snmp")),
     Named(AddressKey(x), Here("dns")), Named(AddressKey(y), Here("dns"))}

\* One link-local address on two links, and prefixes that are refused.
OnLink(nic, source) == [Here(source) EXCEPT !.vantage = nic]

LinkAlphabet ==
    {Claim(MacKey(m1), l, OnLink(en0, s)) : s \in {"probe", "cache"}}
    \cup {Claim(MacKey(m2), l, OnLink(nic, "probe")) : nic \in {en0, en1}}
    \cup {Claim(Key(l, en0, Local), l, OnLink(en0, s)) : s \in {"probe", "icmp"}}
    \cup {Claim(MacKey(m1), l, OnLink(en1, "cache")),
          Relation("GatewayFor", Key(l, en0, Local), lo, Nobody, Here("route")),
          [kind |-> "InterfaceNetwork", interface |-> en0, network |-> lo] @@ Here("route")}

AllAlphabets ==
    {ClaimAlphabet, PeerAlphabet, RelationAlphabet, HandoverAlphabet, HopAlphabet,
     EgressAlphabet, VlanAlphabet, ServiceAlphabet, BridgeAlphabet, PublicAlphabet, PolledAlphabet,
     LinkAlphabet}

-------------------------------------------------------------------------------
(* With no evidence to absorb, the role signals of one device accumulate in *)
(* any order instead.                                                       *)
NoAlphabet == {}
WithRoles == AllAlphabets \cup {NoAlphabet}

mcInit == Init /\ signals = {}
Observe(signal) == signals' = signals \cup {signal}

mcNext ==
    \/ world # NoAlphabet /\ Next /\ UNCHANGED signals
    \/ world = NoAlphabet /\ (\E signal \in RoleSignals : Observe(signal)) /\ UNCHANGED vars

mcSpec == mcInit /\ [][mcNext]_<<vars, signals>>

\* What a role says a device does.
Does(role) ==
    CASE role = "Host" -> {}
      [] role = "Router" -> {"routes"}
      [] role = "Switch" -> {"bridges"}
      [] role = "Layer3Switch" -> {"routes", "bridges"}

(* More evidence never takes a behaviour away: a device once reported as    *)
(* routing or bridging is not demoted by a further signal, a bridge that    *)
(* turns out to route becomes both (role.rs, score_role).                   *)
NeverDemoted == [][Does(score_role(signals)) \subseteq Does(score_role(signals'))]_signals

(* Evidence only adds: a dispute is not closed and loses no claimant, and a *)
(* device keeps every behaviour it was given a role for.                    *)
NothingTakenBack == DisputesOnlyGrow /\ NeverDemoted
==============================================================================
