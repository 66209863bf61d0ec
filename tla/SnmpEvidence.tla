---------------------------- MODULE SnmpEvidence ----------------------------
(* What the map is told about a device that was harvested over SNMP            *)
(* (providers/network.rs: SnmpProvider and snmp_harvest_evidence), composed    *)
(* with the harvest that may have stopped part-way through any table.          *)
EXTENDS SnmpHarvest

\* The device that is asked.
target == <<10, 1, 0, 1>>
device == Address(target)

\* The one gate of an ipRouteTable row: what it says, None when it says nothing.
promotable_route(entry) ==
    LET prefix_len == contiguous_prefix_len(entry.mask)
    IN  IF ~usable(entry) \/ prefix_len = None \/ is_unspecified(entry.dest) THEN None
        ELSE IF prefix_len \notin 1..31 THEN None
        ELSE [network |-> Net(entry.dest, prefix_len),
              next_hop |-> IF is_unspecified(entry.next_hop) THEN None ELSE entry.next_hop,
              kind |-> IF direct(entry) THEN "Direct"
                       ELSE IF entry.route_type = 4 THEN "Indirect" ELSE "Unstated"]

implies_forwarding(route) ==
    route.kind = "Indirect" \/ (route.kind = "Unstated" /\ route.next_hop # None)

\* An inetCidr row: its prefix and its next hop, where they name something from here.
prefix(route) ==
    LET index == parse_index(route.index)
    IN  IF index.destination.family \in zoned \cup {0} THEN None
        ELSE Net(index.destination.octets, index.prefix_len)
hop_of(route) ==
    IF usable_next_hop(route) THEN parse_index(route.index).next_hop.octets ELSE None
usable_route_prefix(p) == p.len \in 1..(8 * Len(p.addr) - 1)

inet_route_implies_forwarding(route) ==
    active(route) /\ route.route_type \in {Missing, 1, 4} /\ usable_next_hop(route)

\* One inetCidr row: out of force, unreadable, discarding or out of scope it describes the
\* device; a default or host route says nothing; otherwise a network and the device's part in it.
inet_route_evidence(route) ==
    IF ~active(route) \/ route.route_type = Invalid \/ discards(route) \/ prefix(route) = None
    THEN {DeviceDescription(device, route)}
    ELSE IF ~usable_route_prefix(prefix(route)) THEN {}
    ELSE {Network(prefix(route))} \cup
         (IF route.route_type = 3 THEN {AttachedTo(device, prefix(route))}
          ELSE When(usable_next_hop(route), {RoutesTo(device, prefix(route), hop_of(route))}))

\* An interface address is the device's whatever its mask; its network needs a mask of one run.
local_ip_evidence(addr) ==
    LET prefix_len == contiguous_prefix_len(addr.mask)
    IN  When(addr.ip # target, {DeviceAddress(device, addr.ip)}) \cup
        (IF prefix_len = None THEN {}
         ELSE When(prefix_len \in 1..31,
                   LET n == Net(addr.ip, prefix_len) IN {Network(n), AttachedTo(device, n)}))

route_evidence(entry) ==
    LET route == promotable_route(entry)
    IN  IF route = None THEN {}
        ELSE {Network(route.network),
              IF route.kind = "Direct" THEN AttachedTo(device, route.network)
              ELSE RoutesTo(device, route.network, route.next_hop)}

\* The device forwards when it says so, or hands over a row that says it does.
forwards(found) ==
    \/ found.forwarding = TRUE
    \/ \E entry \in found.routes :
         promotable_route(entry) # None /\ implies_forwarding(promotable_route(entry))
    \/ \E route \in found.inet_routes : inet_route_implies_forwarding(route)

snmp_harvest_evidence(found) ==
    Says("Snmp", "Observed", {DeviceAddress(device, target)}) \cup
    Says("Snmp", "Advertised",
         When(forwards(found), {DeviceRoleSignal(device, Signal("SnmpForwarding"))})
         \cup When(found.sys_name # None, {DeviceHostname(device, found.sys_name)})
         \cup (UNION {local_ip_evidence(addr) : addr \in found.local_ips})
         \cup (UNION {route_evidence(entry) : entry \in found.routes})
         \cup (UNION {inet_route_evidence(route) : route \in found.inet_routes})
         \cup {DeviceAddress(mac(entry.mac), entry.ip) : entry \in found.arp_cache})

\* The provider returns evidence only when a community harvested.
ProviderEvidence == IF stage = "done" THEN snmp_harvest_evidence(info) ELSE {}

-----------------------------------------------------------------------------
\* What the device itself would say, every table read to its end.
Table(m, t) == [i \in {j \in DOMAIN m : m[j][1][1] = t} |-> m[i]]
Instances(m, oid) == {i \in DOMAIN m : m[i][1] = oid}
Whole(m) ==
    LET flag == Instances(m, ScalarOid["ipForwarding"])
        name == Instances(m, ScalarOid["sysName"])
    IN  [sys_name |-> IF name = {} THEN None ELSE as_str(m[Min(name)][2]),
         forwarding |-> IF flag = {} THEN None ELSE m[Min(flag)][2].v = 1,
         arp_cache |-> arp_cache(Table(m, 22)), routes |-> routes(Table(m, 21)),
         local_ips |-> local_ips(Table(m, 20)), inet_routes |-> inet_routes(Table(m, 24))]
WholeEvidence == [m \in Mibs |-> snmp_harvest_evidence(Whole(m))]

Claims(evidence) == {e \in evidence : e.fact.kind # "DeviceDescription"}

\* A harvest that stopped part-way through any table, for any reason, claims nothing the
\* device's whole answer would not: no network, attachment, route, address or forwarding role
\* comes from half a row (inet_route_evidence: "treating absence as active would build topology
\* out of rows the agent never finished describing").  It rests on the order of a walk: the
\* column that strikes a row out is read before the one that lets it in.
PartialSaysLess == lies = 0 => Claims(ProviderEvidence) \subseteq WholeEvidence[mib]
=============================================================================
