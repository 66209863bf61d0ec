---------------------------- MODULE RoutingDecode ----------------------------
(* What routers and servers say on the wire and how much of it is believed     *)
(* (probes/rip.rs, ra.rs, ospf.rs, isis.rs, dhcp_inform.rs).  A message is its *)
(* fields; "whole" says that the bytes a length field claims are all there.    *)
EXTENDS Evidence, FiniteSetsExt

\* A fold from the first element to the last, sequences in a row, and the last element.
Accumulate(op(_,_), base, s) ==
    MapThenFoldSet(LAMBDA x, acc : op(acc, x), base, LAMBDA i : s[i], Max, DOMAIN s)
Concat(seqs) == Accumulate(LAMBDA all, s : all \o s, <<>>, seqs)
LastIn(s) == s[Len(s)]

\* A walk over a list that ends at the first element it cannot read.
Before(s, Stop(_)) ==
    LET stops == {i \in DOMAIN s : Stop(s[i])}
    IN  IF stops = {} THEN s ELSE SubSeq(s, 1, Min(stops) - 1)
Each(s, F(_)) == [i \in DOMAIN s |-> F(s[i])]
\* The first element of each key, in order.
Once(s, Key(_)) ==
    Accumulate(LAMBDA out, x : IF \E i \in DOMAIN out : Key(out[i]) = Key(x) THEN out
                               ELSE Append(out, x),
               <<>>, s)

\* An address under a mask, None when the mask is not a run of ones.
Masked(a, mask) ==
    IF contiguous_prefix_len(mask) = None THEN None ELSE Net(a, contiguous_prefix_len(mask))

-----------------------------------------------------------------------------
\* RIPv2: a message is refused whole, an entry alone.

MAX_ENTRIES_PER_DATAGRAM == 25
rip_usable(e) == e.family = 2 /\ e.metric \in 1..16 /\ Masked(e.addr, e.mask) # None
rip_route(e) ==
    [prefix |-> Masked(e.addr, e.mask), next_hop |-> IF is_unspecified(e.hop) THEN None ELSE e.hop,
     metric |-> e.metric, tag |-> e.tag]
is_reachable(r) == r.metric < 16
parse_response(m) ==
    IF m.command # 2 \/ m.version # 2 \/ m.reserved # 0 \/ m.ragged
       \/ Len(m.entries) > MAX_ENTRIES_PER_DATAGRAM
    THEN None ELSE Each(SelectSeq(m.entries, rip_usable), rip_route)

\* A table asked for: the datagrams of the router asked, each route once, until it is quiet.
request_table(target, datagrams) ==
    LET valid == SelectSeq(datagrams, LAMBDA d : d.from = target /\ parse_response(d) # None)
        routes == Concat(Each(valid, parse_response))
    IN  IF valid = <<>> THEN None
        ELSE [routes |-> Once(routes, LAMBDA r : r), datagrams |-> Len(valid)]
advertised_routes(table) == \E i \in DOMAIN table.routes : is_reachable(table.routes[i])

-----------------------------------------------------------------------------
\* Router advertisements: one bad option and nothing of the message is believed.

parse_prefix_information(o) ==
    IF o.len > 128 THEN <<>> ELSE <<[prefix |-> Net(o.addr, o.len), on_link |-> o.on_link]>>
parse_route_information(o) ==
    IF o.units \notin 1..3 \/ o.len > (IF o.units = 1 THEN 0 ELSE IF o.units = 2 THEN 64 ELSE 128)
    THEN <<>>
    ELSE <<[prefix |-> Net(o.addr, o.len), preference |-> o.preference, lifetime |-> o.lifetime]>>
parse_ra(m, source, hop_limit) ==
    LET options(kind, Ok(_)) == SelectSeq(m.options, LAMBDA o : o.kind = kind /\ Ok(o))
        macs == options("source_mac", LAMBDA o : o.units = 1 /\ o.mac.id \notin {"group", "zero"})
    IN  IF hop_limit # 255 \/ ~m.whole \/ ~m.checksum_ok \/ ~is_link_local(source)
           \/ \E i \in DOMAIN m.options : m.options[i].units = 0 \/ ~m.options[i].whole
        THEN None
        ELSE [router |-> source, router_lifetime |-> m.lifetime,
              mac |-> IF macs = <<>> THEN None ELSE LastIn(macs).mac,
              prefixes |-> Concat(Each(options("prefix", LAMBDA o : o.units = 4),
                                    parse_prefix_information)),
              routes |-> Concat(Each(options("route", LAMBDA o : TRUE), parse_route_information))]
on_link_prefixes(ra) == SelectSeq(ra.prefixes, LAMBDA p : p.on_link)
usable_routes(ra) == SelectSeq(ra.routes, LAMBDA r : r.preference # "reserved" /\ r.lifetime > 0)

\* Soliciting: what arrived on our interface and is an advertisement, one per router.
is_candidate(m, scope) == m.arrived_on = scope /\ m.whole
solicit(messages, scope) ==
    LET candidates == SelectSeq(messages, LAMBDA m : is_candidate(m, scope))
        parsed == SelectSeq(Each(candidates, LAMBDA m : parse_ra(m, m.source, m.hop_limit)),
                            LAMBDA r : r # None)
    IN  IF parsed # <<>>
        THEN [is |-> "Answered", result |-> Once(parsed, LAMBDA r : r.router)]
        ELSE IF candidates # <<>> THEN [is |-> "InvalidResponse", rejected |-> Len(candidates)]
        ELSE [is |-> "NoResponse"]

-----------------------------------------------------------------------------
\* OSPF: LSAs up to the first cut short; what they state, and whether it is going away.

MAX_AGE == 3600
routes_are_verifiable(auth) == auth \in {"none", "simple"}
Stated(lsa, addr, mask) ==
    IF Masked(addr, mask) = None THEN <<>>
    ELSE <<[prefix |-> Masked(addr, mask), withdrawn |-> lsa.age >= MAX_AGE]>>
read_v2_lsa(lsa) ==
    CASE lsa.kind \in {"summary", "asbr", "external", "nssa", "network"} ->
            IF lsa.room THEN Stated(lsa, lsa.id, lsa.mask) ELSE <<>>
      [] lsa.kind = "router" ->
            Concat(Each(SelectSeq(Before(lsa.links, LAMBDA l : ~l.whole), LAMBDA l : l.stub),
                     LAMBDA l : Stated(lsa, l.addr, l.mask)))
      [] OTHER -> <<>>
read_v3_lsa(lsa) ==
    LET read == Each(Before(lsa.prefixes, LAMBDA p : p.len > 128 \/ ~p.whole),
                     LAMBDA p : [prefix |-> Net(p.addr, p.len), withdrawn |-> lsa.age >= MAX_AGE])
    IN  CASE lsa.kind = "intra" -> read
          [] lsa.kind \in {"inter", "external", "nssa"} /\ read # <<>> -> <<read[1]>>
          [] OTHER -> <<>>
Packet(m, auth, prefixes) ==
    [hello |-> m.type = "hello", authentication |-> auth,
     prefixes |-> IF m.type # "update" THEN <<>> ELSE Concat(prefixes)]
Lsas(m) == Before(m.lsas, LAMBDA l : ~l.whole)
parse_v2(m) ==
    IF m.version # 2 \/ ~m.whole \/ ~m.checksum_ok \/ (m.type = "update" /\ ~m.counted) THEN None
    ELSE Packet(m, m.auth, Each(Lsas(m), read_v2_lsa))
parse_v3(m) ==
    IF m.version # 3 \/ ~m.whole \/ (m.type = "update" /\ ~m.counted) THEN None
    ELSE Packet(m, "none", Each(Lsas(m), read_v3_lsa))

-----------------------------------------------------------------------------
\* IS-IS: a TLV cut short refuses the PDU, a reachability entry ends only its own TLV.

read_legacy_ip_reach(entries) ==
    SelectSeq(Each(entries, LAMBDA e : Masked(e.addr, e.mask)), LAMBDA p : p # None)
read_extended_ip_reach(entries) ==
    Each(Before(entries, LAMBDA e : e.len > 8 * Len(e.addr) \/ ~e.whole),
         LAMBDA e : Net(e.addr, e.len))
read_ipv6_reach(entries) == read_extended_ip_reach(entries)
Reach(tlv) ==
    CASE tlv.code = "ip" -> read_legacy_ip_reach(tlv.entries)
      [] tlv.code = "extended" -> read_extended_ip_reach(tlv.entries)
      [] tlv.code = "ipv6" -> read_ipv6_reach(tlv.entries)
      [] OTHER -> <<>>
parse_isis(m) ==
    IF ~m.whole \/ m.type \notin {"hello", "lsp"} \/ \E i \in DOMAIN m.tlvs : ~m.tlvs[i].whole
    THEN None
    ELSE [hello |-> m.type = "hello",
          unverifiable |-> \E i \in DOMAIN m.tlvs : m.tlvs[i].code = "auth"
                                                   /\ m.tlvs[i].auth # "cleartext",
          prefixes |-> Concat(Each(m.tlvs, Reach))]

-----------------------------------------------------------------------------
\* DHCP options, and the answer to an INFORM.

Named(options, code) == SelectSeq(options, LAMBDA o : o.code = code)
LastOf(options, code) ==
    IF Named(options, code) = <<>> THEN None ELSE LastIn(Named(options, code)).value
route_entry_bad(e) == e.len > 32 \/ ~e.whole
parse_classless_routes(o) ==
    IF \E i \in DOMAIN o.routes : route_entry_bad(o.routes[i]) THEN Refused
    ELSE Each(o.routes, LAMBDA e : [prefix |-> Net(e.addr, e.len), next_hop |-> e.hop])
parse_reply(m, transaction, client, server) ==
    LET options == Before(m.options, LAMBDA o : o.code = "end")
        routes == Each(Named(options, "routes"), parse_classless_routes)
    IN  IF m.op # "reply" \/ m.transaction # transaction \/ m.client # client \/ ~m.cookie
           \/ (\E i \in DOMAIN options : ~options[i].whole) \/ Refused \in Range(routes)
           \/ LastOf(options, "type") # "ack"
        THEN None
        ELSE [server |-> server, subnet_mask |-> LastOf(options, "mask"),
              routers |-> SelectSeq(Concat(Each(Named(options, "routers"), LAMBDA o : o.value)),
                                    LAMBDA a : ~is_unspecified(a)),
              classless_routes |-> Concat(routes)]
attached_prefix(d, a) == IF d.subnet_mask = None THEN None ELSE Masked(a, d.subnet_mask)
\* What came of the question once it was sent; a socket that could not be bound or written to gives
\* no reply and, like NoResponse, no evidence.
inform_disclosures(replies, transaction, client) ==
    LET parsed == SelectSeq(Each(replies, LAMBDA r : parse_reply(r, transaction, client, r.from)),
                            LAMBDA d : d # None)
    IN  IF parsed # <<>>
        THEN [is |-> "Answered", result |-> Once(parsed, LAMBDA d : d.server)]
        ELSE IF replies # <<>> THEN [is |-> "InvalidResponse", rejected |-> Len(replies)]
        ELSE [is |-> "NoResponse"]
=============================================================================
