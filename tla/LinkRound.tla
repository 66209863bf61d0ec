------------------------------ MODULE LinkRound ------------------------------
(* One round of the questions that are asked of a link and not of a device     *)
(* (providers/network.rs: ssdp, mndp, vendor broadcasts, egress-path,          *)
(* router-discovery, dhcp-inform; probes/upnp.rs, mndp.rs, path.rs, ra.rs,     *)
(* dhcp_inform.rs; providers/vendor.rs).  The providers run beside each other  *)
(* and each hears what the link chooses to say; the trace to the outside is    *)
(* the one that takes several steps (PathTrace).                               *)
EXTENDS FrameDecode, PathTrace

CONSTANTS
    VantageName, VantageAddress, VantageMac, VantageIndex,   \* the interface asked from
    Scopes,          \* the scopes a round may have: a network or None
    Announcements,   \* what SSDP listeners may hear: sequences of messages
    Descriptors,     \* the description document behind each location, None when refused
    MndpPackets,     \* sequences of MNDP packets
    Advertisements,  \* sequences of router advertisements
    InformReplies,   \* sequences of DHCP replies
    Transaction      \* the transaction identifier of our INFORM

VARIABLES
    scope,     \* the round's scope
    told       \* evidence of the providers that have returned, by provider

linkRoundVars == <<scope, told, traceVars>>

-----------------------------------------------------------------------------
\* SSDP.  A message is who sent it, its locations and its types; a type is what it names and whether the
\* code has lowered its case, which it does to announced types only.

is_internet_gateway(d) ==
    \/ d.device_type # None /\ d.device_type.igd /\ ~d.device_type.lowered
    \/ \E i \in DOMAIN d.announced_types : d.announced_types[i].igd

Collected(messages, ip, Of(_)) ==
    Once(Concat(Each(SelectSeq(messages, LAMBDA m : m.from = ip), Of)), LAMBDA v : v)
locations(messages, ip) == Collected(messages, ip, LAMBDA m : m.locations)
urns(messages, ip) ==
    Each(SelectSeq(Collected(messages, ip, LAMBDA m : m.types), LAMBDA t : t.urn),
         LAMBDA t : [t EXCEPT !.lowered = TRUE])

\* The first descriptor that answers.
fetched(messages, ip) ==
    LET answered == SelectSeq(locations(messages, ip), LAMBDA l : Descriptors[l] # None)
    IN  IF answered = <<>> THEN None ELSE Descriptors[answered[1]]

UpnpDevice(messages, ip) ==
    LET described == fetched(messages, ip)
        devices == SelectSeq(urns(messages, ip), LAMBDA t : t.device)
        stated == IF described = None THEN None ELSE described.device_type
    IN  [ip |-> ip, friendly_name |-> IF described = None THEN None ELSE described.friendly_name,
         model |-> IF described = None THEN None ELSE described.model,
         device_type |-> IF stated # None THEN stated
                         ELSE IF devices = <<>> THEN None ELSE devices[1],
         announced_types |-> urns(messages, ip)]
discover_upnp_devices(messages) ==
    {UpnpDevice(messages, ip) :
       ip \in {i \in {m.from : m \in Range(messages)} :
                 locations(messages, i) # <<>> \/ urns(messages, i) # <<>>}}

ssdp_evidence(devices) ==
    UNION {LET key == Address(d.ip)
           IN  Says("Ssdp", "Observed", {DeviceAddress(key, d.ip)})
               \cup Says("Ssdp", "Advertised",
                    When(d.friendly_name # None, {DeviceHostname(key, d.friendly_name)})
                    \cup When(d.model # None, {DeviceDescription(key, Text("own", d.model))})
                    \cup When(is_internet_gateway(d),
                              {DeviceRoleSignal(key, Signal("InternetGatewayDevice")),
                               DeviceCapability(key, "NatGateway")}))
           : d \in {x \in devices : scope = None \/ contains(scope, x.ip)}}

-----------------------------------------------------------------------------
\* MNDP: one neighbour per hardware address; its address is not repeated.

listen_mndp_neighbors(packets) ==
    Once(SelectSeq(Each(packets, parse_mndp_packet), LAMBDA n : n # None), LAMBDA n : n.mac)
mndp_provider_evidence(neighbors) ==
    UNION {Says("Mndp", "Advertised",
                {DeviceHostname(mac(n.mac), n.identity),
                 DeviceRoleSignal(mac(n.mac), LinkLayerCapability("Router"))}
                \cup When(n.board # None, {DeviceDescription(mac(n.mac), Text("own", n.board))}))
           : n \in Range(neighbors)}

-----------------------------------------------------------------------------
\* Vendor mechanisms may say how a device behaves and never what the network is.  The one
\* broadcast there is reports itself unavailable and sends nothing.

adapter_may_assert(f) ==
    f.kind \notin {"Network", "Vlan", "InterfaceNetwork", "GatewayFor", "RoutesTo", "AttachedTo",
                   "BridgeLink", "ObservedBehind", "OpaqueBoundary"}
broadcasts == << [is |-> "Unavailable"] >>
run_broadcasts(outcomes) ==
    UNION {{e \in o.result : adapter_may_assert(e.fact)} : o \in {x \in Range(outcomes) : x.is = "Answered"}}

-----------------------------------------------------------------------------
\* Router discovery, whole-link rounds only.

ra_evidence(ra) ==
    LET d == IF ra.mac # None THEN mac(ra.mac) ELSE scoped_address(ra.router, VantageName)
        onlink == {p.prefix : p \in Range(on_link_prefixes(ra))}
        beyond == {r.prefix : r \in Range(usable_routes(ra))}
    IN  Says("RouterAdvertisement", "Observed",
             {DeviceAddress(d, ra.router), DeviceRoleSignal(d, Signal("RouterAdvertisement"))})
        \cup Says("RouterAdvertisement", "Advertised",
                  (UNION {{Network(p), InterfaceNetwork(VantageName, p), AttachedTo(d, p)} : p \in onlink})
                  \cup (UNION {{Network(p), RoutesTo(d, p, ra.router)} : p \in beyond})
                  \cup When(ra.router_lifetime > 0, {DeviceRoleSignal(d, Signal("DefaultGateway"))}))
router_discovery(messages) ==
    LET outcome == solicit(messages, VantageIndex)
    IN  IF scope # None \/ outcome.is # "Answered" THEN {}
        ELSE UNION {ra_evidence(ra) : ra \in Range(outcome.result)}

-----------------------------------------------------------------------------
\* DHCPINFORM, whole-link rounds only: a default route names its router and makes no network.

inform_route_evidence(server, r) ==
    LET hop == IF is_unspecified(r.next_hop) THEN None ELSE r.next_hop
    IN  When(r.prefix.len > 0, {Network(r.prefix)})
        \cup {RoutesTo(IF hop = None THEN server ELSE Address(hop), r.prefix, hop)}
disclosure_evidence(d) ==
    LET server == Address(d.server)
        here == attached_prefix(d, VantageAddress)
    IN  Says("DhcpLease", "Observed", {DeviceAddress(server, d.server)})
        \cup Says("DhcpLease", "Advertised",
                  When(here # None, {Network(here), InterfaceNetwork(VantageName, here)})
                  \cup {DeviceAddress(Address(r), r) : r \in Range(d.routers)}
                  \cup {DeviceRoleSignal(Address(r), Signal("DhcpRouter")) : r \in Range(d.routers)}
                  \cup UNION {inform_route_evidence(server, r) : r \in Range(d.classless_routes)})
inform_evidence(replies) ==
    LET outcome == inform_disclosures(replies, Transaction, VantageMac)
    IN  IF scope # None \/ outcome.is # "Answered" THEN {}
        ELSE UNION {disclosure_evidence(d) : d \in Range(outcome.result)}

-----------------------------------------------------------------------------
LinkProviders == {"ssdp", "mndp", "vendor", "router-discovery", "dhcp-inform", "egress-path"}

LinkRoundInit ==
    /\ scope \in Scopes /\ told = [p \in {} |-> {}]
    /\ TraceInit

Returns(provider, found) ==
    /\ provider \notin DOMAIN told
    /\ told' = [p \in DOMAIN told \cup {provider} |-> IF p = provider THEN found ELSE told[p]]

RunSsdp(m) == Returns("ssdp", ssdp_evidence(discover_upnp_devices(m))) /\ UNCHANGED <<scope, traceVars>>
RunMndp(p) ==
    Returns("mndp", mndp_provider_evidence(listen_mndp_neighbors(p))) /\ UNCHANGED <<scope, traceVars>>
RunVendor == Returns("vendor", run_broadcasts(broadcasts)) /\ UNCHANGED <<scope, traceVars>>
RunRouterDiscovery(m) ==
    Returns("router-discovery", router_discovery(m)) /\ UNCHANGED <<scope, traceVars>>
RunInform(r) == Returns("dhcp-inform", inform_evidence(r)) /\ UNCHANGED <<scope, traceVars>>

\* The trace takes a step; when it has ended its hops are told.
Trace == TraceNext /\ UNCHANGED <<scope, told>>

TraceEnds ==
    /\ trace.stage = "end" /\ Returns("egress-path", path_evidence(trace.hops))
    /\ UNCHANGED <<scope, traceVars>>

RoundOver == DOMAIN told = LinkProviders /\ UNCHANGED linkRoundVars

LinkRoundNext ==
    \/ \E m \in Announcements : RunSsdp(m)
    \/ \E p \in MndpPackets : RunMndp(p)
    \/ RunVendor
    \/ \E m \in Advertisements : RunRouterDiscovery(m)
    \/ \E r \in InformReplies : RunInform(r)
    \/ Trace \/ TraceEnds
    \/ RoundOver
LinkRoundSpec == LinkRoundInit /\ [][LinkRoundNext]_linkRoundVars

-----------------------------------------------------------------------------
\* A network or a route that a solicited answer puts on the map was stated by an answer to this
\* run's own question, undamaged and from this link; and a device that announces itself an
\* internet gateway, or whose descriptor does, is reported as one whichever of its locations
\* refuse a connection (discover_upnp_devices: "an unreachable descriptor never hides that the
\* device is a gateway").
SolicitedIsOurs ==
    /\ "router-discovery" \in DOMAIN told =>
         \A f \in Facts(told["router-discovery"]) : f.kind = "Network" =>
            \E s \in Advertisements : \E m \in Range(s) : \E o \in Range(m.options) :
                /\ m.arrived_on = VantageIndex /\ m.hop_limit = 255 /\ m.checksum_ok /\ is_link_local(m.source)
                /\ f.fields.prefix = Net(o.addr, o.len)
                /\ IF o.kind = "prefix" THEN o.on_link ELSE o.lifetime > 0 /\ o.preference # "reserved"
    /\ "dhcp-inform" \in DOMAIN told =>
         \A f \in Facts(told["dhcp-inform"]) : f.kind \in {"Network", "RoutesTo"} =>
            \E s \in InformReplies : \E m \in Range(s) : \E o \in Range(m.options) :
                /\ m.transaction = Transaction /\ m.client = VantageMac
                /\ LET p == IF f.kind = "Network" THEN f.fields.prefix ELSE f.fields.network
                   IN  \/ o.code = "mask" /\ p = Masked(VantageAddress, o.value)
                       \/ o.code = "routes" /\ \E e \in Range(o.routes) : p = Net(e.addr, e.len)
    /\ "ssdp" \in DOMAIN told => \E m \in Announcements :
         /\ told["ssdp"] = ssdp_evidence(discover_upnp_devices(m))
         /\ \A ip \in {x.from : x \in Range(m)} :
              (/\ scope = None \/ contains(scope, ip)
               /\ \/ \E x \in Range(m) : x.from = ip /\ \E t \in Range(x.types) : t.urn /\ t.igd
                  \/ \E i \in DOMAIN locations(m, ip) :
                        LET document == Descriptors[locations(m, ip)[i]]
                        IN  /\ document # None /\ document.device_type # None /\ document.device_type.igd
                            /\ \A k \in 1..(i - 1) : Descriptors[locations(m, ip)[k]] = None)
              => DeviceCapability(Address(ip), "NatGateway") \in Facts(told["ssdp"])

\* Nothing enters from an answer to somebody else's question: every hop answered one of our probes
\* and every solicited fact one of our requests (matches_probe, fetched).
RepliesAreOurs == HopsAreOurs /\ SolicitedIsOurs
=============================================================================
