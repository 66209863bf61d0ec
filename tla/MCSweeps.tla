------------------------------ MODULE MCSweeps ------------------------------
(* The active sweeps on small links.  A behaviour runs one of them, as the     *)
(* engine awaits one round before the next: the examination of an attached     *)
(* network, the neighbour solicitation of a link, the reachability sweep or    *)
(* a round of the link-wide questions.  The others rest in an initial state.   *)
EXTENDS ReachSweep, HostSweep, LinkRound

VARIABLE mode

mcMac(id) == [id |-> id, upper |-> FALSE]
mcA(n) == <<10, 0, 0, n>>
mcL(n) == <<254, 128, 0, 0, 0, 0, 0, 0, 0, 0, 0, 0, 0, 0, 0, n>>

-----------------------------------------------------------------------------
\* An attached /30 with two hosts, and a link with two neighbours: good answers, answers of
\* two stations, damaged ones and ones for somebody else.
mcOurMac == mcMac("us")
mcOurAddress == mcA(1)
mcCidr == Net(mcA(0), 30)
mcHosts == <<mcA(1), mcA(2)>>
mcReply(ip, m) ==
    [dst |-> mcOurMac, vlan |-> None, arp |-> TRUE, whole |-> TRUE, op |-> "reply",
     sender_ip |-> ip, sender_mac |-> m, target_ip |-> mcOurAddress, target_mac |-> mcOurMac]
mcAdvert(a, macs) ==
    [arrived_on |-> 3, advertisement |-> TRUE, hop_limit |-> 255, checksum_ok |-> TRUE, target |-> a,
     solicited |-> TRUE, router |-> FALSE, options_whole |-> TRUE, target_macs |-> macs]
mcFrames ==
    [arp |-> {mcReply(mcA(2), mcMac("a")), mcReply(mcA(2), mcMac("b")), mcReply(mcA(3), mcMac("a")),
              [mcReply(mcA(2), mcMac("a")) EXCEPT !.vlan = 7],
              [mcReply(mcA(2), mcMac("c")) EXCEPT !.whole = FALSE],
              [mcReply(mcA(2), mcMac("c")) EXCEPT !.op = "request"],
              [mcReply(mcA(2), mcMac("c")) EXCEPT !.target_ip = mcA(2)],
              mcReply(mcA(2), mcMac("group"))},
     ndp |-> {mcAdvert(mcL(2), <<mcMac("a")>>), mcAdvert(mcL(2), <<mcMac("group")>>),
              mcAdvert(mcL(3), <<mcMac("zero"), mcMac("b"), mcMac("unlisted")>>),
              [mcAdvert(mcL(3), <<>>) EXCEPT !.router = TRUE],
              [mcAdvert(mcL(2), <<mcMac("c")>>) EXCEPT !.solicited = FALSE],
              [mcAdvert(mcL(2), <<mcMac("c")>>) EXCEPT !.arrived_on = 4],
              [mcAdvert(mcL(2), <<mcMac("c")>>) EXCEPT !.hop_limit = 64]}]
mcArp(targets) == [proto |-> "arp", targets |-> targets, network |-> mcCidr]
mcNdp(targets) == [proto |-> "ndp", targets |-> targets, network |-> None]
mcCases == {mcArp(mcHosts), mcArp(<<mcA(1)>>), mcArp(<<mcA(2), mcA(3), <<10, 0, 1, 9>>>>),
            mcNdp(<<mcL(2), mcL(3)>>), mcNdp(<<>>)}
mcRow(ip, m, st) == [ip |-> ip, mac |-> m, state |-> st, interface |-> "en0"]
mcCaches ==
    {{}, {mcRow(mcA(2), mcMac("b"), "resolved"), mcRow(mcA(3), mcMac("a"), "resolved")},
     {mcRow(mcA(2), mcMac("broadcast"), "resolved"), mcRow(mcA(2), mcMac("a"), "incomplete")},
     {mcRow(mcA(2), mcMac("zero"), "resolved"), [mcRow(mcA(1), mcMac("a"), "resolved") EXCEPT !.interface = "en1"]}}
mcBindings == {for_interface({mcA(1)}, 3), for_interface({mcL(1)}, 3)}
mcAnswers == {"accepted", "ConnectionRefused", "TimedOut", "PermissionDenied", "Uncategorized"}

-----------------------------------------------------------------------------
\* Two private blocks of /24s, an octet of four values, a window of one subnet; the vantage
\* stands in either block, in both through its neighbour cache, or outside; its gateway is
\* unknown, in the cache, or named by the kernel alone.
mcBlocks == << [first |-> 0, size |-> 4], [first |-> 8, size |-> 12] >>
mcVantage(ip, arp, gateway) == [ip |-> ip, arp |-> arp, gateway |-> gateway]
mcOutside == mcVantage(At(6, 1), {}, <<>>)
mcVantages ==
    {mcVantage(At(1, 7), {}, <<>>), mcVantage(At(9, 1), {At(9, 254)}, <<At(9, 254)>>),
     mcVantage(At(17, 7), {}, <<At(17, 254)>>), mcVantage(At(8, 1), {At(2, 254)}, <<>>), mcOutside}
mcWorlds ==
    {{}, {At(10, 1), At(12, 1), At(13, 254), At(14, 1)},
     {At(n, 1) : n \in {0, 2, 3, 8, 10, 11, 16, 17, 18, 19}}}

-----------------------------------------------------------------------------
\* A link round: a gateway whose first descriptor is refused, one that only announces, a
\* printer; a good advertisement and ones that fail a check; replies to us and to others.
mcType(igd, urn) == [igd |-> igd, urn |-> urn, device |-> TRUE, lowered |-> FALSE]
mcSsdp(from, locs, types) == [from |-> from, locations |-> locs, types |-> types]
mcAnnouncements ==
    {<<>>, <<mcSsdp(mcA(1), <<"refused", "igd">>, <<>>), mcSsdp(mcA(1), <<"igd">>, <<mcType(FALSE, TRUE)>>)>>,
     <<mcSsdp(mcA(2), <<"refused">>, <<mcType(TRUE, TRUE)>>), mcSsdp(<<10, 7, 0, 1>>, <<>>, <<mcType(TRUE, TRUE)>>)>>,
     <<mcSsdp(mcA(3), <<"printer">>, <<mcType(TRUE, FALSE)>>)>>}
mcDescriptors ==
    [refused |-> None,
     igd |-> [friendly_name |-> None, model |-> "model", device_type |-> mcType(TRUE, TRUE)],
     printer |-> [friendly_name |-> "name", model |-> None, device_type |-> None]]
mcItem(type, value) == [type |-> type, whole |-> TRUE, value |-> value]
mcTik(m) == [tlvs |-> <<mcItem("identity", "name"), mcItem("mac", mcMac(m)), mcItem("board", "model")>>]
mcMndp == {<<>>, <<mcTik("t"), mcTik("t"), [tlvs |-> <<mcItem("identity", "name")>>]>>}
mcOption(kind, units, len) ==
    [kind |-> kind, units |-> units, whole |-> TRUE, len |-> len, addr |-> mcL(0), on_link |-> TRUE,
     lifetime |-> 60, preference |-> "medium", mac |-> mcMac("router")]
mcRa(hop_limit, index, options) ==
    [source |-> mcL(1), hop_limit |-> hop_limit, arrived_on |-> index, checksum_ok |-> TRUE,
     whole |-> TRUE, lifetime |-> 60, options |-> options]
mcAdvertisements ==
    {<<>>, <<mcRa(255, 3, <<mcOption("source_mac", 1, 0), mcOption("prefix", 4, 64), mcOption("route", 2, 48)>>)>>,
     <<mcRa(255, 4, <<mcOption("prefix", 4, 56)>>), mcRa(64, 3, <<mcOption("prefix", 4, 32)>>)>>,
     <<mcRa(255, 3, <<[mcOption("prefix", 4, 40) EXCEPT !.on_link = FALSE],
                      [mcOption("route", 3, 44) EXCEPT !.lifetime = 0]>>)>>}
mcDhcpOption(code, value, routes) == [code |-> code, whole |-> TRUE, value |-> value, routes |-> routes]
mcRoute(a, len, hop) == [addr |-> a, len |-> len, hop |-> hop, whole |-> TRUE]
mcInform(tx, routes) ==
    [op |-> "reply", transaction |-> tx, client |-> mcOurMac, cookie |-> TRUE, from |-> mcA(1),
     options |-> <<mcDhcpOption("type", "ack", <<>>), mcDhcpOption("mask", <<255, 255, 255, 252>>, <<>>),
                   mcDhcpOption("routers", <<mcA(1)>>, <<>>), mcDhcpOption("routes", None, routes),
                   mcDhcpOption("end", None, <<>>)>>]
mcInforms ==
    {<<>>, <<mcInform(7, <<mcRoute(mcA(0), 0, mcA(1)), mcRoute(<<10, 8, 0, 0>>, 16, <<0, 0, 0, 0>>)>>)>>,
     <<mcInform(8, <<mcRoute(<<10, 9, 0, 0>>, 16, mcA(1))>>), mcInform(7, <<mcRoute(mcA(0), 33, mcA(1))>>)>>}
mcPaths == {<<mcA(1), <<10, 1, 0, 1>>, <<10, 2, 0, 1>>>>, <<mcA(1), <<10, 1, 0, 1>>, mcA(1), <<10, 2, 0, 1>>>>}
mcScopes == {None, mcCidr}

-----------------------------------------------------------------------------
mcInit ==
    /\ mode \in {"network", "neighbours", "reach", "round"}
    /\ vantage \in (IF mode = "reach" THEN mcVantages ELSE {mcOutside})
    /\ alive \in (IF mode = "reach" THEN mcWorlds ELSE {{}})
    /\ ReachInit /\ HostInit /\ LinkRoundInit
    /\ case \in CASE mode = "network" -> {c \in mcCases : c.proto = "arp"}
                  [] mode = "neighbours" -> {c \in mcCases : c.proto = "ndp"}
                  [] OTHER -> {mcArp(<<mcA(1)>>)}
    /\ mode # "network" => binding = for_interface({mcA(1)}, 3)
    /\ mode # "round" => scope = None /\ path = <<mcA(1), <<10, 1, 0, 1>>, <<10, 2, 0, 1>>>>
mcNext ==
    /\ mode' = mode
    /\ \/ mode = "network" /\ HostNext /\ UNCHANGED <<reachVars, linkRoundVars>>
       \/ mode = "neighbours" /\ (SweepNext \/ SweepDone) /\ UNCHANGED <<hostVars, reachVars, linkRoundVars>>
       \/ mode = "reach" /\ ReachNext /\ UNCHANGED <<sweepVars, linkRoundVars>>
       \/ mode = "round" /\ LinkRoundNext /\ UNCHANGED <<sweepVars, reachVars>>
mcSpec == mcInit /\ [][mcNext]_<<mode, reachVars, sweepVars, linkRoundVars>>
=============================================================================
