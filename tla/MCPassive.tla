------------------------------ MODULE MCPassive ------------------------------
(* Frames a link carries: of each protocol a good one and the ways it goes     *)
(* wrong that the decoder tells apart.                                         *)
EXTENDS PeerShare

mcMac(id) == [id |-> id, upper |-> FALSE]
mcLocal == mcMac("ours")
mcRouter == <<10, 0, 0, 1>>
mcFar == <<10, 9, 0, 0>>
mc24 == <<255, 255, 255, 0>>
mcZero4 == <<0, 0, 0, 0>>
mcV6(first, last) == <<first, 128, 0, 0, 0, 0, 0, 0, 0, 0, 0, 0, 0, 0, 0, last>>
mcFrame(id, tags, body) == [src |-> mcMac(id), tags |-> tags, body |-> body]

mcRip(command, version, entries) ==
    mcFrame("router", <<>>, [proto |-> "rip", source |-> mcRouter, command |-> command, len |-> 24,
                             version |-> version, reserved |-> 0, ragged |-> FALSE, entries |-> entries])
mcEntry(mask, metric) ==
    [family |-> 2, addr |-> mcFar, mask |-> mask, hop |-> mcZero4, metric |-> metric, tag |-> 0]
mcRipFrames ==
    {mcRip(2, 2, <<mcEntry(mc24, 3), mcEntry(<<255, 0, 255, 0>>, 3)>>), mcRip(2, 2, <<mcEntry(mc24, 16)>>),
     mcRip(2, 2, <<mcEntry(mc24, 0)>>), mcRip(2, 1, <<mcEntry(mc24, 3)>>),
     [mcRip(1, 2, <<>>) EXCEPT !.src = mcLocal], mcRip(1, 1, <<>>)}

mcRipng(command, entries) ==
    mcFrame("router", <<>>, [proto |-> "ripng", source |-> mcV6(254, 1), command |-> command,
                             version |-> 1, reserved |-> 0, ragged |-> FALSE, entries |-> entries])
mcNgEntry(first, len, metric) == [addr |-> mcV6(first, 0), len |-> len, metric |-> metric, tag |-> 0]
mcRipngFrames ==
    {mcRipng(2, <<mcNgEntry(254, 0, 255), mcNgEntry(32, 32, 1), mcNgEntry(33, 32, 16)>>),
     mcRipng(1, <<mcNgEntry(0, 0, 16)>>)}

mcLsa(kind, age, whole) ==
    [kind |-> kind, age |-> age, whole |-> whole, room |-> TRUE, id |-> mcFar, mask |-> mc24,
     links |-> IF kind = "router"
               THEN <<[whole |-> TRUE, stub |-> TRUE, addr |-> <<10, 7, 0, 0>>, mask |-> mc24]>> ELSE <<>>,
     prefixes |-> <<[addr |-> mcV6(32, 0), len |-> 32, whole |-> TRUE],
                    [addr |-> mcV6(32, 0), len |-> 129, whole |-> TRUE]>>]
mcOspf(proto, auth, ok, lsas) ==
    mcFrame("router", <<>>, [proto |-> proto, source |-> IF proto = "ospf2" THEN mcRouter ELSE mcV6(254, 1),
                             version |-> IF proto = "ospf2" THEN 2 ELSE 3, whole |-> TRUE, counted |-> TRUE,
                             checksum_ok |-> ok, type |-> IF lsas = <<>> THEN "hello" ELSE "update",
                             auth |-> auth, lsas |-> lsas])
mcOspfFrames ==
    {mcOspf("ospf2", "none", TRUE, <<>>), mcOspf("ospf2", "none", FALSE, <<mcLsa("summary", 1, TRUE)>>),
     mcOspf("ospf2", "simple", TRUE, <<mcLsa("router", 1, TRUE), mcLsa("summary", MAX_AGE, TRUE)>>),
     mcOspf("ospf2", "none", TRUE, <<mcLsa("network", 1, FALSE), mcLsa("summary", 1, TRUE)>>),
     mcOspf("ospf2", "crypto", TRUE, <<mcLsa("external", 1, TRUE)>>),
     mcOspf("ospf3", "none", TRUE, <<mcLsa("intra", 1, TRUE)>>),
     mcOspf("ospf3", "none", TRUE, <<mcLsa("inter", MAX_AGE, TRUE)>>)}

mcTlv(code, auth, entries, whole) == [code |-> code, auth |-> auth, entries |-> entries, whole |-> whole]
mcReach(len, whole) == [addr |-> mcFar, len |-> len, mask |-> mc24, whole |-> whole]
mcIsis(tlvs) == mcFrame("router", <<>>, [proto |-> "isis", whole |-> TRUE, type |-> "lsp", tlvs |-> tlvs])
mcIsisFrames ==
    {mcIsis(<<mcTlv("auth", "cleartext", <<>>, TRUE),
              mcTlv("extended", None, <<mcReach(24, TRUE), mcReach(40, TRUE), mcReach(16, TRUE)>>, TRUE)>>),
     mcIsis(<<mcTlv("ip", None, <<mcReach(24, TRUE)>>, TRUE), mcTlv("auth", "digest", <<>>, TRUE)>>),
     mcIsis(<<mcTlv("ip", None, <<mcReach(24, TRUE)>>, FALSE)>>)}

mcOption(code, value) == [code |-> code, whole |-> TRUE, value |-> value, routes |-> <<>>]
mcRoutes == [mcOption("routes", None) EXCEPT !.routes =
                 <<[addr |-> mcFar, len |-> 16, hop |-> mcRouter, whole |-> TRUE],
                   [addr |-> mcFar, len |-> 33, hop |-> mcRouter, whole |-> TRUE]>>]
mcDhcp(tags, op, type, giaddr) ==
    mcFrame("server", tags, [proto |-> "dhcp", op |-> op, ethernet |-> TRUE, cookie |-> TRUE,
                             yiaddr |-> <<10, 0, 0, 9>>, giaddr |-> giaddr,
                             options |-> <<mcOption("type", type), mcOption("mask", mc24),
                                           mcOption("routers", <<mcRouter>>), mcRoutes,
                                           mcOption("end", None)>>])
mcDhcpFrames ==
    {mcDhcp(<<10>>, "reply", "ack", mcZero4), mcDhcp(<<10>>, "reply", "offer", mcZero4),
     mcDhcp(<<10>>, "reply", "ack", mcRouter), mcDhcp(<<10, 20>>, "reply", "ack", mcZero4),
     mcDhcp(<<0, 10>>, "reply", "ack", mcZero4), mcDhcp(<<>>, "request", "ack", mcZero4)}

mcRaOption(kind, units, len) ==
    [kind |-> kind, units |-> units, whole |-> TRUE, len |-> len, addr |-> mcV6(32, 0), on_link |-> TRUE,
     lifetime |-> 60, preference |-> "medium", mac |-> mcMac("router")]
mcRa(hop_limit, options) ==
    mcFrame("router", <<>>, [proto |-> "ra", source |-> mcV6(254, 1), hop_limit |-> hop_limit,
                             checksum_ok |-> TRUE, whole |-> TRUE, lifetime |-> 60, options |-> options])
mcRaFrames ==
    {mcRa(255, <<mcRaOption("prefix", 4, 64), mcRaOption("route", 1, 48), mcRaOption("route", 2, 48)>>),
     mcRa(255, <<mcRaOption("prefix", 4, 64), mcRaOption("mtu", 0, 0)>>),
     mcRa(64, <<mcRaOption("prefix", 4, 64)>>),
     mcRa(255, <<[mcRaOption("prefix", 4, 64) EXCEPT !.on_link = FALSE],
                 [mcRaOption("route", 3, 48) EXCEPT !.lifetime = 0]>>)}

mcItem(type, value) == [type |-> type, whole |-> TRUE, value |-> value]
mcBpdu(proto, type, words) ==
    mcFrame("port", <<>>, [proto |-> proto, snap |-> TRUE, whole |-> TRUE, protocol |-> 0, type |-> type,
                           bridge |-> [priority |-> 1, mac |-> mcMac("bridge")],
                           root |-> [priority |-> 0, mac |-> mcMac("root")], port |-> 1, words |-> words])
mcLinkFrames ==
    {mcBpdu("stp", 2, <<>>), mcBpdu("stp", 128, <<>>), mcBpdu("pvst", 0, <<0, 0, 2, 30>>),
     mcBpdu("pvst", 0, <<0, 0, 0, 0, 0, 0, 0, 0, 0, 0, 2, 30>>), mcBpdu("pvst", 0, <<7, 2, 30>>),
     mcFrame("host", <<5>>, [proto |-> "arp", mac |-> mcMac("host"), address |-> <<10, 0, 0, 7>>]),
     mcFrame("host", <<>>, [proto |-> "arp", mac |-> mcMac("host"), address |-> mcZero4]),
     mcFrame("host", <<>>, [proto |-> "ns", source |-> mcV6(254, 7)]),
     mcFrame("host", <<>>, [proto |-> "na", target |-> mcV6(254, 7), router |-> TRUE]),
     mcFrame("host", <<>>, [proto |-> "mndp", tlvs |-> <<mcItem("identity", "name"),
                            mcItem("mac", mcMac("tik")), mcItem("address", mcRouter)>>]),
     mcFrame("switch", <<>>, [proto |-> "cdp", version |-> 2, tlvs |-> <<mcItem("device", mcMac("switch")),
                              mcItem("port", "text"), mcItem("addresses", <<>>),
                              mcItem("addresses", <<mcRouter>>), mcItem("addresses", <<mcFar>>),
                              mcItem("capabilities", <<"Router", "Host">>)>>]),
     mcFrame("switch", <<>>, [proto |-> "none"])}
mcLldp(tags) ==
    mcFrame("switch", tags, [proto |-> "lldp", tlvs |-> <<mcItem("chassis", mcMac("switch")),
                             mcItem("port", "text"), mcItem("name", "name"),
                             mcItem("capabilities", <<"Bridge/Switch">>), mcItem("end", None)>>])

mcLengths == {"short", "bundle vantage", "hostname", "text", "device", "network", "signal", "detail"}
mcFrames == mcRipFrames \cup mcRipngFrames \cup mcOspfFrames \cup mcIsisFrames \cup mcDhcpFrames
            \cup mcRaFrames \cup mcLinkFrames \cup {mcLldp(<<>>), mcLldp(<<7>>)}
=============================================================================
