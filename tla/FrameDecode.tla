----------------------------- MODULE FrameDecode -----------------------------
(* One captured Ethernet frame and the facts it carries (probes/passive.rs,    *)
(* lldp.rs, cdp.rs, mndp.rs).  A frame is the hardware address it came from,   *)
(* the VLAN identifiers of its tags and a body, named by the protocol its      *)
(* type, LLC header or port selects.  Bytes a body is too short to have make   *)
(* it a body of protocol "none".                                               *)
EXTENDS RoutingDecode

Heard(is, fields) == [is |-> is, says |-> fields]
Real(vlan) == vlan \notin {0, 4095}

\* A walk over type-length-value items: it ends at one that claims more than is there, and
\* the last item of a type is the one kept.
Tlvs(items) == Before(items, LAMBDA t : ~t.whole)
Kept(items, type) == LastOf([i \in DOMAIN items |->
                       [code |-> items[i].type, value |-> items[i].value]], type)

-----------------------------------------------------------------------------
\* Spanning tree.

decode_bpdu(f, b) ==
    IF ~b.whole \/ b.protocol # 0 \/ b.type \notin {0, 2} THEN None
    ELSE [source |-> f.src, bridge |-> b.bridge, root |-> b.root, port |-> b.port, vlan |-> None]

\* The VLAN a per-VLAN BPDU names: the two-byte words after it are zero padding, up to eight
\* of them, and then type 0, length 2, the identifier.
MAX_PADDING_WORDS == 8
pvst_originating_vlan(words) ==
    LET padding == {i \in 1..Len(words) : i < Len(words) /\ words[i] = 0 /\ words[i + 1] = 0}
        at == Min((1..(Len(words) + 1)) \ padding)
    IN  IF at <= MAX_PADDING_WORDS + 1 /\ at + 2 <= Len(words) /\ words[at] = 0
           /\ words[at + 1] = 2 /\ Real(words[at + 2])
        THEN words[at + 2] ELSE None

decode_pvst(f, b) ==
    LET bridge == decode_bpdu(f, b)
        vlan == pvst_originating_vlan(b.words)
    IN  IF ~b.snap \/ bridge = None THEN <<>>
        ELSE <<Heard("Bridge", [bridge EXCEPT !.vlan = vlan])>>
             \o (IF vlan = None THEN <<>> ELSE <<Heard("Vlan", [id |-> vlan])>>)

-----------------------------------------------------------------------------
\* Neighbours that name themselves.

\* CDP wants a version it knows, a device and a port.  The first IPv4 address it gives is kept.
parse_cdp_frame(b) ==
    LET items == Tlvs(b.tlvs)
        addresses == Concat(Each(SelectSeq(items, LAMBDA t : t.type = "addresses"),
                                 LAMBDA t : t.value))
    IN  IF b.version \notin {1, 2} \/ Kept(items, "device") = None \/ Kept(items, "port") = None
        THEN None
        ELSE [chassis |-> Kept(items, "device"), name |-> Kept(items, "device").id,
              description |-> IF Kept(items, "platform") # None THEN Kept(items, "platform")
                              ELSE Kept(items, "software"),
              management |-> IF addresses = <<>> THEN None ELSE addresses[1],
              capabilities |-> Concat(Each(SelectSeq(items, LAMBDA t : t.type = "capabilities"),
                                           LAMBDA t : t.value))]

\* LLDP ends at its end TLV too, and wants a chassis and a port.  The walk starts at a fixed
\* offset, so behind a tag of a low VLAN it meets an end TLV at once.
parse_lldp_frame(f, b) ==
    LET items == Before(Tlvs(b.tlvs), LAMBDA t : t.type = "end")
    IN  IF f.tags # <<>> \/ Kept(items, "chassis") = None \/ Kept(items, "port") = None THEN None
        ELSE [chassis |-> Kept(items, "chassis"), name |-> Kept(items, "name"),
              description |-> Kept(items, "description"), management |-> Kept(items, "management"),
              capabilities |-> Concat(Each(SelectSeq(items, LAMBDA t : t.type = "capabilities"),
                                           LAMBDA t : t.value))]

parse_mndp_packet(b) ==
    LET items == Tlvs(b.tlvs)
    IN  IF Kept(items, "identity") = None \/ Kept(items, "mac") = None THEN None
        ELSE [identity |-> Kept(items, "identity"), mac |-> Kept(items, "mac"),
              board |-> Kept(items, "board"), address |-> Kept(items, "address")]

-----------------------------------------------------------------------------
\* DHCP: a server's reply, its options up to the end or the first cut short.

decode_classless_routes(o) ==
    Each(Before(o.routes, route_entry_bad), LAMBDA e : [prefix |-> Net(e.addr, e.len), hop |-> e.hop])

decode_dhcp(f, b) ==
    LET options == Before(b.options, LAMBDA o : o.code = "end" \/ ~o.whole)
        routers == Concat(Each(Named(options, "routers"), LAMBDA o : o.value))
        routes == Concat(Each(Named(options, "routes"), decode_classless_routes))
    IN  IF b.op # "reply" \/ ~b.ethernet \/ ~b.cookie
           \/ (LastOf(options, "mask") = None /\ routers = <<>> /\ routes = <<>>)
        THEN None
        ELSE [server |-> f.src, assigned |-> IF is_unspecified(b.yiaddr) THEN None ELSE b.yiaddr,
              mask |-> LastOf(options, "mask"), routers |-> routers, routes |-> routes,
              type |-> LastOf(options, "type"), relayed |-> ~is_unspecified(b.giaddr)]

\* A tag and a prefix are joined where one frame has exactly one tag and acknowledges, to a
\* client on this link, an address under a mask.
join_tagged_prefix(facts) ==
    LET tags == SelectSeq(facts, LAMBDA h : h.is = "Vlan")
        acks == SelectSeq(facts, LAMBDA h :
                  h.is = "Dhcp" /\ h.says.assigned # None /\ h.says.mask # None
                  /\ h.says.type = "ack" /\ ~h.says.relayed
                  /\ Masked(h.says.assigned, h.says.mask) # None)
    IN  IF Len(tags) # 1 THEN facts
        ELSE facts \o Each(acks, LAMBDA h :
               Heard("VlanNetwork", [vlan |-> tags[1].says.id,
                                     network |-> Masked(h.says.assigned, h.says.mask)]))

-----------------------------------------------------------------------------
\* Routing protocols.

Rejected(f, protocol) == Heard("RoutingUpdateRejected", [sender |-> f.src, protocol |-> protocol])

\* Fault: an LSA on its way out is as good as a new one.
control_plane_fact_aged(f, sender, packet) ==
    Heard("ControlPlane",
          [device |-> f.src, sender |-> sender, hello |-> packet.hello,
           current |-> SelectSeq(packet.prefixes, LAMBDA p : routes_are_verifiable(packet.authentication)),
           reported_only |-> SelectSeq(packet.prefixes,
                               LAMBDA p : ~routes_are_verifiable(packet.authentication))])

\* Current when the packet can be verified and the LSA is not at MaxAge; otherwise reported.
control_plane_fact(f, sender, packet) ==
    LET promoted(p) == routes_are_verifiable(packet.authentication) /\ ~p.withdrawn
    IN  Heard("ControlPlane",
              [device |-> f.src, sender |-> sender, hello |-> packet.hello,
               current |-> SelectSeq(packet.prefixes, promoted),
               reported_only |-> SelectSeq(packet.prefixes, LAMBDA p : ~promoted(p))])
decode_ospf(f, packet, protocol) ==
    IF packet = None THEN Rejected(f, protocol) ELSE control_plane_fact(f, f.body.source, packet)

split_isis_prefixes(pdu) ==
    LET all == Each(pdu.prefixes, LAMBDA p : [prefix |-> p, withdrawn |-> FALSE])
    IN  IF pdu.unverifiable THEN [current |-> <<>>, reported_only |-> all]
        ELSE [current |-> all, reported_only |-> <<>>]
decode_isis(f, pdu) ==
    IF pdu = None THEN Rejected(f, "IS-IS")
    ELSE Heard("ControlPlane",
               [device |-> f.src, sender |-> None, hello |-> pdu.hello,
                current |-> split_isis_prefixes(pdu).current,
                reported_only |-> split_isis_prefixes(pdu).reported_only])

Update(f, protocol, routes) ==
    Heard("RoutingUpdate",
          [device |-> f.src, sender |-> f.body.source, protocol |-> protocol,
           routes |-> SelectSeq(routes, is_reachable),
           withdrawn |-> SelectSeq(routes, LAMBDA r : ~is_reachable(r))])
decode_rip_v2(f, b) ==
    IF parse_response(b) \in {None, <<>>} THEN Rejected(f, "RIPv2")
    ELSE Update(f, "RIPv2", parse_response(b))
classify_rip(f, b) ==
    CASE b.command = 1 /\ b.version = 2 /\ b.len >= 4 ->
            Heard("RoutingRequest", [sender |-> f.src, protocol |-> "RIPv2"])
      [] b.command = 2 -> decode_rip_v2(f, b)
      [] OTHER -> Rejected(f, "RIPv2")

\* RIPng: an entry of metric 255 names the next hop of the entries that follow it.
ripng_entry(acc, e) ==
    CASE e.metric = 255 -> IF e.tag # 0 \/ e.len # 0 THEN acc
                           ELSE [acc EXCEPT !.hop = IF is_unspecified(e.addr) THEN None ELSE e.addr]
      [] e.metric # 255 /\ e.metric \in 1..16 /\ e.len <= 128 ->
            [acc EXCEPT !.routes = Append(@, [prefix |-> Net(e.addr, e.len), next_hop |-> acc.hop,
                                              metric |-> e.metric, tag |-> e.tag])]
      [] OTHER -> acc
decode_ripng(f, b) ==
    LET read == Accumulate(ripng_entry, [hop |-> None, routes |-> <<>>], b.entries).routes
    IN  IF b.command # 2 \/ b.version # 1 \/ b.reserved # 0 \/ b.ragged \/ read = <<>>
        THEN Rejected(f, "RIPng") ELSE Update(f, "RIPng", read)

-----------------------------------------------------------------------------
\* IPv6 neighbour discovery.

decode_ra(f, b) ==
    LET ra == parse_ra(b, b.source, b.hop_limit)
    IN  Heard("RouterAdvertisement",
              [device |-> f.src, address |-> b.source,
               prefixes |-> IF ra = None THEN <<>>
                            ELSE Each(on_link_prefixes(ra), LAMBDA p : p.prefix),
               routes |-> IF ra = None THEN <<>> ELSE Each(usable_routes(ra), LAMBDA r : r.prefix)])
Neighbor(f, address, router) ==
    Heard("Neighbor", [device |-> f.src, address |-> address, router |-> router])

-----------------------------------------------------------------------------
One(is, fields) == IF fields = None THEN <<>> ELSE <<Heard(is, fields)>>

\* 802.3 frames carry an LLC header.
decode_llc(f) ==
    LET b == f.body
    IN  CASE b.proto = "isis" -> <<decode_isis(f, parse_isis(b))>>
          [] b.proto = "stp" -> One("Bridge", decode_bpdu(f, b))
          [] b.proto = "cdp" -> IF f.tags # <<>> THEN <<>>
                                ELSE One("LinkLayerNeighbor", parse_cdp_frame(b))
          [] b.proto = "pvst" -> decode_pvst(f, b)
decode_ipv4(f) ==
    LET b == f.body
    IN  CASE b.proto = "ospf2" -> <<decode_ospf(f, parse_v2(b), "OSPFv2")>>
          [] b.proto = "dhcp" -> One("Dhcp", decode_dhcp(f, b))
          [] b.proto = "rip" -> <<classify_rip(f, b)>>
          [] b.proto = "mndp" -> One("Mndp", parse_mndp_packet(b))
decode_ipv6(f) ==
    LET b == f.body
    IN  CASE b.proto = "ripng" -> <<decode_ripng(f, b)>>
          [] b.proto = "ospf3" -> <<decode_ospf(f, parse_v3(b), "OSPFv3")>>
          [] b.proto = "ra" -> <<decode_ra(f, b)>>
          [] b.proto = "ns" -> IF is_unspecified(b.source) THEN <<>>
                               ELSE <<Neighbor(f, b.source, FALSE)>>
          [] b.proto = "na" -> <<Neighbor(f, b.target, b.router)>>
decode_arp(f) ==
    IF is_unspecified(f.body.address) THEN <<>>
    ELSE <<Heard("Arp", [device |-> f.body.mac, address |-> f.body.address])>>

LlcProtos == {"isis", "stp", "cdp", "pvst"}
Ipv4Protos == {"ospf2", "dhcp", "rip", "mndp"}
Ipv6Protos == {"ripng", "ospf3", "ra", "ns", "na"}
decode_frame(f) ==
    LET tags == Each(SelectSeq(f.tags, Real), LAMBDA v : Heard("Vlan", [id |-> v]))
    IN  CASE f.body.proto \in LlcProtos -> tags \o decode_llc(f)
          [] f.body.proto \in Ipv4Protos -> join_tagged_prefix(tags \o decode_ipv4(f))
          [] f.body.proto \in Ipv6Protos -> tags \o decode_ipv6(f)
          [] f.body.proto = "arp" -> tags \o decode_arp(f)
          [] f.body.proto = "lldp" ->
                tags \o One("LinkLayerNeighbor", parse_lldp_frame(f, f.body))
          [] OTHER -> tags
=============================================================================
