--------------------------- MODULE WireVocabulary ---------------------------
(* Evidence as it crosses between peers (federation/wire.rs): every fact as a *)
(* record of named fields, the conversion to strings and back, and the        *)
(* fields whose length is checked before a message is acted on.  A string is  *)
(* what it says, under the name of the type that wrote it; nothing here       *)
(* depends on its characters except the case of a hardware address.           *)
EXTENDS Evidence

\* The fields of each kind of fact and the type of each (enum WireFact, enum Fact).  A type
\* with a leading "?" is optional.
Fields ==
    [Network           |-> [prefix |-> "prefix"],
     Vlan              |-> [id |-> "number"],
     VlanNetwork       |-> [vlan |-> "number", network |-> "prefix"],
     InterfaceNetwork  |-> [interface |-> "text", prefix |-> "prefix"],
     DeviceAddress     |-> [device |-> "device", address |-> "address"],
     DeviceHostname    |-> [device |-> "device", hostname |-> "text"],
     DeviceVendor      |-> [device |-> "device", vendor |-> "text"],
     DeviceDescription |-> [device |-> "device", text |-> "text"],
     DeviceRoleSignal  |-> [device |-> "device", signal |-> "signal"],
     DeviceCapability  |-> [device |-> "device", capability |-> "capability", detail |-> "?text"],
     GatewayFor        |-> [device |-> "device", network |-> "prefix"],
     RoutesTo          |-> [device |-> "device", network |-> "prefix", next_hop |-> "?address"],
     AttachedTo        |-> [device |-> "device", network |-> "prefix"],
     BridgeLink        |-> [bridge_id |-> "text", root_id |-> "text", port |-> "?text"],
     ObservedBehind    |-> [device |-> "device", via |-> "device"],
     ForwardsToward    |-> [device |-> "device", toward |-> "address", distance |-> "number",
                            previous |-> "?device"],
     OpaqueBoundary    |-> [device |-> "device", why |-> "text"],
     Service           |-> [address |-> "address", port |-> "number", protocol |-> "protocol",
                            detail |-> "?text"],
     ResolvedAs        |-> [name |-> "text", address |-> "address"]]

\* The strings of the two closed vocabularies generated by wire_names!: one per variant, the
\* same on the way out and back.
sources ==
    {"InterfaceAddress", "KernelRoute", "DefaultGateway", "ResolverConfig", "DhcpLease",
     "ArpCache", "NdpCache", "ArpProbe", "NdpProbe", "IcmpProbe", "TcpProbe", "Mdns",
     "UnicastDns", "Ssdp", "Nbns", "Llmnr", "Mndp", "Lldp", "Cdp", "Stp",
     "RouterAdvertisement", "Snmp", "Rip", "VendorDiscovery", "NatPmp", "AiProtocol", "Mcp",
     "UserSupplied"}
capabilities ==
    {"DefaultGateway", "Ipv4Forwarding", "Ipv6Router", "NatGateway", "DhcpServer",
     "DnsServer", "Bridge", "WirelessAp", "ManagementInterface", "AiRuntime", "AiAgent",
     "McpServer"}
confidences == {"Observed", "Advertised", "Inferred", "UserSupplied"}
protocols == {"tcp", "udp"}

\* Role signals without a label, and the labels accepted with the one that has one.
plain_signals ==
    {"DefaultGateway", "DhcpRouter", "RouterAdvertisement", "InternetGatewayDevice",
     "SnmpForwarding", "RipRouteAdvertisement", "ObservedForwarding", "KernelNextHop",
     "SpanningTreeBridge", "ManagementSurface"}
accepted_labels == {"Router", "Bridge", "Switch", "WLAN AP"}

role_signal_wire(signal) ==
    IF signal.name = "LinkLayerCapability"
    THEN [signal |-> signal.name, label |-> signal.label]
    ELSE [signal |-> signal.name, label |-> None]

\* Fault: the label is not read back.
role_signal_from_wire_unlabelled(wire) ==
    IF wire.signal \in plain_signals \cup {"LinkLayerCapability"}
    THEN [name |-> wire.signal] ELSE Refused

role_signal_from_wire(wire) ==
    IF wire.signal \in plain_signals THEN [name |-> wire.signal]
    ELSE IF wire.signal = "LinkLayerCapability" /\ wire.label \in accepted_labels
    THEN [name |-> wire.signal, label |-> wire.label]
    ELSE Refused

\* Device keys: a hardware address is lowered on the way in, a zone is kept as it is.
from_key(key) ==
    CASE key.by = "mac" -> [by |-> "mac", mac |-> key.mac]
      [] key.by = "address" -> [by |-> "address", address |-> key.address]
      [] key.by = "scoped_address" ->
            [by |-> "scoped_address", address |-> key.address, zone |-> key.zone]

to_key(wire) ==
    CASE wire.by = "mac" -> [wire EXCEPT !.mac = [@ EXCEPT !.upper = FALSE]]
      [] OTHER -> wire

\* One field on its way out and back, by its type; a field of text or a number crosses as
\* it is, an address or prefix as the text its parser accepts.
Base(type) ==
    CASE type \in {"?text"} -> "text" [] type = "?address" -> "address"
      [] type = "?device" -> "device" [] OTHER -> type

encode(type, value) ==
    CASE value = None -> None
      [] Base(type) = "device" -> from_key(value)
      [] Base(type) = "signal" -> role_signal_wire(value)
      [] OTHER -> value

decode(type, wire) ==
    CASE wire = None -> None
      [] Base(type) = "device" -> to_key(wire)
      [] Base(type) = "signal" -> role_signal_from_wire(wire)
      [] Base(type) = "capability" -> IF wire \in capabilities THEN wire ELSE Refused
      [] Base(type) = "protocol" -> IF wire \in protocols THEN wire ELSE Refused
      [] OTHER -> wire

\* Whole seconds since the epoch; a time before it is taken as the epoch.  Times are counted
\* in halves of a second.
unix_seconds(time) == IF time < 0 THEN 0 ELSE time \div 2

from_evidence(e) ==
    [fact |-> [kind |-> e.fact.kind,
               fields |-> [f \in DOMAIN e.fact.fields |->
                            encode(Fields[e.fact.kind][f], e.fact.fields[f])]],
     source |-> e.source, confidence |-> e.confidence, vantage |-> e.vantage,
     observed_at |-> unix_seconds(e.observed_at), detail |-> e.detail]

\* The evidence a record says, or a refusal of the whole record.
to_evidence(w) ==
    LET fields == [f \in DOMAIN w.fact.fields |->
                    decode(Fields[w.fact.kind][f], w.fact.fields[f])]
    IN  IF \/ \E f \in DOMAIN fields : fields[f] = Refused
           \/ w.source \notin sources
           \/ w.confidence \notin confidences
        THEN Refused
        ELSE [fact |-> [kind |-> w.fact.kind, fields |-> fields],
              source |-> w.source, confidence |-> w.confidence, vantage |-> w.vantage,
              observed_at |-> 2 * w.observed_at, detail |-> w.detail]

----------------------------------------------------------------------------
(* Checked text (text_fields, check_message) *)

\* What of a fact's fields is listed for the length check.  An optional field is listed when
\* it is there.
text_fields(kind) ==
    CASE kind = "Network" -> {"prefix"}
      [] kind = "Vlan" -> {}
      [] kind = "VlanNetwork" -> {"network"}
      [] kind = "InterfaceNetwork" -> {"interface", "prefix"}
      [] kind = "DeviceAddress" -> {"device", "address"}
      [] kind = "DeviceHostname" -> {"device", "hostname"}
      [] kind = "DeviceVendor" -> {"device", "vendor"}
      [] kind = "DeviceDescription" -> {"device", "text"}
      [] kind = "DeviceRoleSignal" -> {"device", "signal"}
      [] kind = "DeviceCapability" -> {"device", "capability", "detail"}
      [] kind \in {"GatewayFor", "AttachedTo"} -> {"device", "network"}
      [] kind = "RoutesTo" -> {"device", "network", "next_hop"}
      [] kind = "BridgeLink" -> {"bridge_id", "root_id", "port"}
      [] kind = "ObservedBehind" -> {"device", "via"}
      [] kind = "ForwardsToward" -> {"device", "toward", "previous"}
      [] kind = "OpaqueBoundary" -> {"device", "why"}
      [] kind = "Service" -> {"address", "protocol", "detail"}
      [] kind = "ResolvedAs" -> {"name", "address"}

\* A message passes when the bundle has few enough records and every listed string, and the
\* bundle's own, is short enough.
check_message(b, limit) ==
    /\ Cardinality(b.records) <= limit
    /\ b.vantage /= "long"
    /\ \A r \in b.records : r.long \notin text_fields(r.kind) \cup {"source", "confidence", "vantage", "detail"}
=============================================================================
