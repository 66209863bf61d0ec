--------------------------- MODULE PassiveCapture ---------------------------
(* Listening to the link (net/capture.rs, providers/passive.rs).  A reader     *)
(* thread takes frames from the kernel, decodes them and leaves the facts in a *)
(* shared buffer; the engine drains the buffer while it works and, at the end, *)
(* stops the reader, waits for it and drains once more.                        *)
EXTENDS FrameDecode

CONSTANTS
    LocalMac,     \* this interface's own hardware address
    LinkFrames,   \* frames the link may carry
    MaxRead,      \* frames read in all
    MaxBatch      \* frames one read may return: 1 on Linux, a buffer of them on macOS

VARIABLES
    engine,        \* "new", "running", "joining", "draining", "finished", "unavailable"
    reader,        \* "check", "read", "count", "extend", "exited", "none"
    stop_flag,     \* what the reader polls
    batch,         \* frames of the buffer last read, not handed over yet
    frames_seen,   \* the session's counter
    observed,      \* facts decoded and not drained
    final_frames,  \* the counter as sampled at shutdown
    tally,         \* RipTally
    evidence,      \* what the engine was given
    handed,        \* history: frames handed to the decoder
    drained        \* history: facts drained

captureVars == <<engine, reader, stop_flag, batch, frames_seen, observed, final_frames, tally,
                 evidence, handed, drained>>

-----------------------------------------------------------------------------
\* From facts to evidence: seeing a frame is Observed, what it says is Advertised.

bridge_identity(b) == mac(b.mac)
bridge_evidence(s) ==
    Says("Stp", "Observed", {DeviceRoleSignal(bridge_identity(s.bridge), Signal("SpanningTreeBridge"))})
    \cup Says("Stp", "Advertised", {BridgeLink(s.bridge, s.root, s.port)})

dhcp_evidence(s) ==
    LET leased == IF s.assigned = None \/ s.mask = None THEN None ELSE Masked(s.assigned, s.mask)
    IN  Says("DhcpLease", "Advertised",
             When(leased # None /\ leased.len >= 1, {Network(leased)})
             \cup {DeviceAddress(Address(r), r) : r \in Range(s.routers)}
             \cup {DeviceRoleSignal(Address(r), Signal("DhcpRouter")) : r \in Range(s.routers)}
             \cup UNION {{Network(r.prefix), RoutesTo(Address(r.hop), r.prefix, r.hop)}
                         : r \in Range(s.routes)})
        \cup Says("DhcpLease", "Observed", {DeviceRoleSignal(mac(s.server), Signal("DhcpRouter"))})

\* A table or an adjacency heard: router behaviour, and the prefixes it stands for.
Speaks(s) ==
    Says("Rip", "Observed",
         {DeviceRoleSignal(mac(s.device), Signal("RipRouteAdvertisement"))}
         \cup When(s.sender # None, {DeviceAddress(mac(s.device), s.sender)}))
control_plane_evidence(s) ==
    Speaks(s)
    \cup Says("Rip", "Observed", {DeviceDescription(mac(s.device), Text("speaks", None))}
                                 \cup {DeviceDescription(mac(s.device), Text("reported", p)) : p \in Range(s.reported_only)})
    \cup Says("Rip", "Advertised",
              UNION {{Network(p.prefix), RoutesTo(mac(s.device), p.prefix, s.sender)}
                     : p \in Range(s.current)})
routing_update_evidence(s) ==
    Speaks(s)
    \cup Says("Rip", "Observed", {DeviceDescription(mac(s.device), Text("withdrew", r)) : r \in Range(s.withdrawn)})
    \cup Says("Rip", "Advertised",
              UNION {{Network(r.prefix),
                      RoutesTo(mac(s.device), r.prefix,
                               IF r.next_hop = None THEN s.sender ELSE r.next_hop)}
                     : r \in Range(s.routes)})

router_advertisement_evidence(s) ==
    Says("RouterAdvertisement", "Observed",
         {DeviceRoleSignal(mac(s.device), Signal("RouterAdvertisement")),
          DeviceAddress(mac(s.device), s.address)})
    \cup Says("RouterAdvertisement", "Advertised",
              (UNION {{Network(p), GatewayFor(mac(s.device), p)} : p \in Range(s.prefixes)})
              \cup UNION {{Network(p), RoutesTo(mac(s.device), p, s.address)} : p \in Range(s.routes)})
neighbor_evidence(s) ==
    Says("NdpCache", "Observed",
         {DeviceAddress(mac(s.device), s.address)}
         \cup When(s.router, {DeviceRoleSignal(mac(s.device), Signal("RouterAdvertisement"))}))

capability_signal(cap) ==
    CASE cap = "Router" -> {LinkLayerCapability("Router")}
      [] cap \in {"Bridge/Switch", "Transparent Bridge", "Source Route Bridge", "Switch"} ->
            {LinkLayerCapability("Bridge/Switch")}
      [] OTHER -> {}
link_layer_evidence(s) ==
    LET d == mac(s.chassis)
    IN  Says("Lldp", "Advertised",
             When(s.name # None, {DeviceHostname(d, s.name)})
             \cup When(s.description # None, {DeviceDescription(d, Text("own", s.description))})
             \cup When(s.management # None, {DeviceAddress(d, s.management)})
             \cup {DeviceRoleSignal(d, g) : g \in UNION {capability_signal(c) : c \in Range(s.capabilities)}})
mndp_evidence(s) ==
    LET d == mac(s.mac)
    IN  Says("Mndp", "Advertised",
             {DeviceHostname(d, s.identity), DeviceRoleSignal(d, LinkLayerCapability("Router"))}
             \cup When(s.address # None, {DeviceAddress(d, s.address)}))

convert_fact(h) ==
    CASE h.is = "VlanNetwork" -> Says("DhcpLease", "Observed", {VlanNetwork(h.says.vlan, h.says.network)})
      [] h.is = "Vlan" -> Says("Stp", "Observed", {Vlan(h.says.id)})
      [] h.is = "Bridge" -> bridge_evidence(h.says)
      [] h.is = "Arp" -> Says("ArpCache", "Observed", {DeviceAddress(mac(h.says.device), h.says.address)})
      [] h.is = "Dhcp" -> dhcp_evidence(h.says)
      [] h.is = "ControlPlane" -> control_plane_evidence(h.says)
      [] h.is = "RoutingUpdate" -> routing_update_evidence(h.says)
      [] h.is = "RouterAdvertisement" -> router_advertisement_evidence(h.says)
      [] h.is = "Neighbor" -> neighbor_evidence(h.says)
      [] h.is = "LinkLayerNeighbor" -> link_layer_evidence(h.says)
      [] h.is = "Mndp" -> mndp_evidence(h.says)
      [] OTHER -> {}
\* Repeated facts are converted once: evidence is a set here.
convert(facts) == UNION {convert_fact(h) : h \in Range(facts)}

-----------------------------------------------------------------------------
\* What the routing protocols amounted to.

NoTally == [datagrams |-> 0, updates |-> 0, routes |-> 0, withdrawals |-> 0, requests |-> 0,
            local_requests |-> 0, control_packets |-> 0, control_hellos |-> 0,
            control_prefixes |-> 0, control_reported_only |-> 0, control_invalid |-> 0]
note_with_local_mac(t, h) ==
    CASE h.is = "RoutingRequest" ->
           [t EXCEPT !.datagrams = @ + 1, !.requests = @ + 1,
                     !.local_requests = @ + (IF h.says.sender = LocalMac THEN 1 ELSE 0)]
      [] h.is = "RoutingUpdate" ->
           [t EXCEPT !.datagrams = @ + 1, !.updates = @ + 1, !.routes = @ + Len(h.says.routes),
                     !.withdrawals = @ + Len(h.says.withdrawn)]
      [] h.is = "RoutingUpdateRejected" ->
           IF h.says.protocol \in {"RIPv2", "RIPng"} THEN [t EXCEPT !.datagrams = @ + 1]
           ELSE [t EXCEPT !.control_invalid = @ + 1]
      [] h.is = "ControlPlane" ->
           [t EXCEPT !.control_packets = @ + 1,
                     !.control_hellos = @ + (IF h.says.hello THEN 1 ELSE 0),
                     !.control_prefixes = @ + Len(h.says.current),
                     !.control_reported_only = @ + Len(h.says.reported_only)]
      [] OTHER -> t
-----------------------------------------------------------------------------
CaptureInit ==
    /\ engine = "new" /\ reader = "none" /\ stop_flag = FALSE /\ batch = <<>> /\ frames_seen = 0
    /\ observed = <<>> /\ final_frames = 0 /\ tally = NoTally /\ evidence = {}
    /\ handed = <<>> /\ drained = <<>>

\* The device opens and the reader starts, or observing is unavailable and stays so: then
\* the engine is given no source to drain.
Start ==
    /\ engine = "new"
    /\ \/ engine' = "running" /\ reader' = "check"
       \/ engine' = "unavailable" /\ reader' = "none"
    /\ UNCHANGED <<stop_flag, batch, frames_seen, observed, final_frames, tally, evidence, handed, drained>>

\* Fault: the reader looks at the flag only while the link is busy.
Check_deaf ==
    /\ reader = "check"
    /\ reader' = IF stop_flag /\ Len(handed) < MaxRead THEN "exited" ELSE "read"
    /\ UNCHANGED <<engine, stop_flag, batch, frames_seen, observed, final_frames, tally, evidence,
                   handed, drained>>

\* The reader looks at the flag before each read.
Check ==
    /\ reader = "check"
    /\ reader' = IF stop_flag THEN "exited" ELSE "read"
    /\ UNCHANGED <<engine, stop_flag, batch, frames_seen, observed, final_frames, tally, evidence,
                   handed, drained>>

\* A read returns nothing, and the reader sleeps, or the frames that were waiting.
ReadNothing ==
    /\ reader = "read" /\ reader' = "check"
    /\ UNCHANGED <<engine, stop_flag, batch, frames_seen, observed, final_frames, tally, evidence,
                   handed, drained>>
ReadFrames ==
    /\ reader = "read" /\ reader' = "count"
    /\ \E n \in 1..MaxBatch : Len(handed) + n <= MaxRead /\ batch' \in [1..n -> LinkFrames]
    /\ UNCHANGED <<engine, stop_flag, frames_seen, observed, final_frames, tally, evidence, handed, drained>>

\* What each frame of the link decodes to.
Decoded == [f \in LinkFrames |-> decode_frame(f)]

\* Each frame is counted and then handed to the decoder, whatever the flag says by now.
CountFrame ==
    /\ reader = "count" /\ reader' = "extend"
    /\ frames_seen' = frames_seen + 1
    /\ UNCHANGED <<engine, stop_flag, batch, observed, final_frames, tally, evidence, handed, drained>>
ExtendObserved ==
    /\ reader = "extend" /\ reader' = IF Len(batch) = 1 THEN "check" ELSE "count"
    /\ observed' = observed \o Decoded[batch[1]]
    /\ handed' = Append(handed, batch[1]) /\ batch' = Tail(batch)
    /\ UNCHANGED <<engine, stop_flag, frames_seen, final_frames, tally, evidence, drained>>

\* The buffer is taken whole: counted fact by fact, and converted.
TakeObserved ==
    /\ observed' = <<>> /\ drained' = drained \o observed
    /\ tally' = Accumulate(note_with_local_mac, tally, observed)
    /\ evidence' = evidence \cup convert(observed)

Drain ==
    /\ engine = "running" /\ observed # <<>> /\ TakeObserved
    /\ UNCHANGED <<engine, reader, stop_flag, batch, frames_seen, final_frames, handed>>

\* finish: the flag, the join, the final count, the last drain.
Finish ==
    /\ engine = "running" /\ engine' = "joining" /\ stop_flag' = TRUE
    /\ UNCHANGED <<reader, batch, frames_seen, observed, final_frames, tally, evidence, handed, drained>>

\* Fault: the reader is told, not waited for.
Join_eager ==
    /\ engine = "joining"
    /\ engine' = "draining" /\ final_frames' = frames_seen
    /\ UNCHANGED <<reader, stop_flag, batch, frames_seen, observed, tally, evidence, handed, drained>>

Join ==
    /\ engine = "joining" /\ reader = "exited"
    /\ engine' = "draining" /\ final_frames' = frames_seen
    /\ UNCHANGED <<reader, stop_flag, batch, frames_seen, observed, tally, evidence, handed, drained>>
FinalDrain ==
    /\ engine = "draining" /\ engine' = "finished" /\ TakeObserved
    /\ UNCHANGED <<reader, stop_flag, batch, frames_seen, final_frames, handed>>

ReaderStep == Check \/ ReadNothing \/ ReadFrames \/ CountFrame \/ ExtendObserved
CaptureNext == Start \/ ReaderStep \/ Drain \/ Finish \/ Join \/ FinalDrain
-----------------------------------------------------------------------------
\* Once finish returns the reader is gone, every frame it was handed has been decoded, drained
\* and counted, each exactly once and in order, and the frame count is the final one, however
\* the drains of the run interleaved with the reader (finish: "Both counters are therefore
\* final on return").
FinishedIsComplete ==
    engine = "finished" =>
        /\ reader = "exited" /\ final_frames = Len(handed)
        /\ drained = Concat([i \in DOMAIN handed |-> Decoded[handed[i]]])
        /\ tally = Accumulate(note_with_local_mac, NoTally, Concat([i \in DOMAIN handed |-> Decoded[handed[i]]]))

\* The prefixes a frame states as current, read off its fields.
CurrentLsas(b) == {l \in Range(b.lsas) : l.whole /\ l.age < MAX_AGE}
States(f) ==
    LET b == f.body
    IN  CASE b.proto = "rip" ->
               {Masked(e.addr, e.mask) : e \in {x \in Range(b.entries) :
                  b.command = 2 /\ b.version = 2 /\ x.family = 2 /\ x.metric \in 1..15}}
          [] b.proto = "ripng" ->
               {Net(e.addr, e.len) : e \in {x \in Range(b.entries) : b.command = 2 /\ x.metric \in 1..15}}
          [] b.proto = "ospf2" ->
               When(b.checksum_ok /\ b.auth \in {"none", "simple"},
                    UNION {{Masked(l.id, l.mask)} \cup {Masked(k.addr, k.mask) : k \in Range(l.links)}
                           : l \in CurrentLsas(b)})
          [] b.proto = "ospf3" ->
               UNION {{Net(p.addr, p.len) : p \in Range(l.prefixes)} : l \in CurrentLsas(b)}
          [] b.proto = "isis" ->
               When(~\E t \in Range(b.tlvs) : t.code = "auth" /\ t.auth # "cleartext",
                    UNION {{IF t.code = "ip" THEN Masked(e.addr, e.mask) ELSE Net(e.addr, e.len)
                            : e \in Range(t.entries)} : t \in Range(b.tlvs)})
          [] b.proto = "dhcp" ->
               When(b.op = "reply",
                    {Masked(b.yiaddr, o.value) : o \in {x \in Range(b.options) : x.code = "mask"}}
                    \cup UNION {{Net(e.addr, e.len) : e \in Range(o.routes)}
                                : o \in {x \in Range(b.options) : x.code = "routes"}})
          [] b.proto = "ra" ->
               When(b.hop_limit = 255 /\ b.checksum_ok /\ is_link_local(b.source),
                    {Net(o.addr, o.len) : o \in {x \in Range(b.options) :
                       \/ x.kind = "prefix" /\ x.on_link
                       \/ x.kind = "route" /\ x.lifetime > 0 /\ x.preference # "reserved"}})
          [] OTHER -> {}

\* No network enters the topology unless a frame of this capture stated it as current and in a
\* way that could be checked: never on the strength of a withdrawal, an LSA at MaxAge, a digest
\* nobody can verify, or an advertisement from off the link; and a VLAN is said to carry a
\* network only where one client-facing acknowledgement with that single tag says so
\* (convert: "A withdrawal creates nothing"; join_tagged_prefix: the four conditions).
TopologyIsStated ==
    \A e \in evidence :
        /\ e.fact.kind = "Network" => \E f \in Range(handed) : e.fact.fields.prefix \in States(f)
        /\ e.fact.kind = "VlanNetwork" =>
             \E f \in Range(handed) :
                 /\ f.body.proto = "dhcp" /\ is_unspecified(f.body.giaddr)
                 /\ \E o \in Range(f.body.options) : o.code = "type" /\ o.value = "ack"
                 /\ SelectSeq(f.tags, Real) = <<e.fact.fields.vlan>>
                 /\ e.fact.fields.network \in States(f)

\* Told to stop, the capture ends: the reader polls the flag between non-blocking reads, so
\* the join in stop returns and the last drain follows.
CaptureEnds == engine = "joining" ~> engine = "finished"
=============================================================================
