--------------------------- MODULE MCInterrogation ---------------------------
(* Devices for a pass: a router that publishes more than an audit may read, a  *)
(* server with a certificate from an authority, hosts found at one stage only, *)
(* a resolver reached over TCP only, an IPv6 host with an MCP server.          *)
EXTENDS Interrogation, TLC

Prefix(n, len) == [addr |-> <<10, n, 0, 0>>, len |-> len]
Unit(form, labels, cidrs, quads) ==
    [part |-> "text", form |-> form, size |-> 100, claimed |-> FALSE, labels |-> labels,
     cidrs |-> cidrs, quads |-> quads]
Row(labels, n) == Unit("row", labels, <<Prefix(n, 16)>>, <<>>)
Page(status, fingerprint, body) ==
    [status |-> status, server |-> None, authenticate |-> FALSE, title |-> None, location |-> None,
     fingerprint |-> fingerprint, links |-> <<>>, body |-> body]
Link(path) ==
    [name |-> path, form |-> "path", path |-> path, port |-> None, ours |-> TRUE, query |-> FALSE,
     cgi |-> FALSE, action |-> FALSE, asset |-> FALSE, descriptor |-> FALSE, document |-> TRUE]
CommonName(id, space) == [id |-> id, words |-> {id}, tag |-> "utf8", space |-> space, dns |-> TRUE]

NoDevice ==
    [listening |-> <<{}, {}>>, pages |-> <<>>, tls |-> <<>>, smb |-> <<>>, telnet |-> <<>>,
     dns |-> [udp |-> <<>>, tcp |-> <<>>], natpmp |-> None, rip |-> <<>>, json |-> <<>>, mcp |-> <<>>]
Key(id) == mac([id |-> id, upper |-> TRUE])
Target(id, tier, endpoints, worth, dev) ==
    [device |-> Key(id), tier |-> tier, endpoints |-> endpoints, dev |-> dev,
     worth_full_interrogation |-> worth, known |-> [vendor |-> None, texts |-> {}]]

\* Mentions before statements, policies, examples and scripts beside routes and addresses.
StatusBody ==
    <<Row({}, 1), Row({"interface"}, 1), Row({"destination", "route", "policy"}, 2),
      Row({"destination", "route"}, 3), Row({"interface", "example"}, 4),
      [Row({"interface"}, 5) EXCEPT !.part = "script"],
      Unit("line", {"interface", "mask"}, <<>>, <<<<255, 255, 0, 0>>, <<10, 6, 1, 1>>>>),
      [Unit("object", {"interface"}, <<Prefix(7, 16)>>, <<>>) EXCEPT !.size = 600],
      Row({"destination"}, 8), Row({"interface"}, 3), Row({"interface"}, 9) >>
Links ==
    <<Link("/lan"), Link("/wan"), Link("/lan"), [Link("/reboot") EXCEPT !.action = TRUE],
      [Link("/info?x") EXCEPT !.query = TRUE], [Link("/style") EXCEPT !.asset = TRUE],
      [Link("/elsewhere") EXCEPT !.form = "http", !.ours = FALSE], Link("/system"), Link("/network"),
      [Link("/device") EXCEPT !.form = "http", !.port = 80]>>
RouterPages ==
    (<<80, "/">> :> [Page(302, 1, <<>>) EXCEPT !.location = Link("/index")])
    @@ (<<80, "/index">> :> [Page(200, 2, StatusBody) EXCEPT !.links = Links, !.title = {"asuswrt"}])
    @@ (<<80, "/status">> :> Page(200, 3, <<>>)) @@ (<<80, "/info">> :> Page(200, 3, <<>>))
    @@ (<<80, "/api/routes">> :> Page(404, 4, <<Row({"destination", "route"}, 10)>>))
    @@ (<<80, "/lan">> :> [Page(401, 5, <<Row({"interface"}, 11)>>) EXCEPT !.authenticate = TRUE])
    @@ (<<8080, "/">> :> [Page(401, 6, <<Row({"interface"}, 12)>>) EXCEPT
                            !.location = [Link("/x") EXCEPT !.form = "https"], !.server = {"httpd"}])
RipEntry(n, metric) ==
    [family |-> 2, metric |-> metric, addr |-> <<10, n, 0, 0>>, mask |-> <<255, 255, 0, 0>>,
     hop |-> <<0, 0, 0, 0>>, tag |-> 0]
RipReply(from, entries) ==
    [from |-> from, command |-> 2, version |-> 2, reserved |-> 0, ragged |-> FALSE, entries |-> entries]
DnsReply(txt) ==
    [from_target |-> TRUE, whole |-> TRUE, same_id |-> TRUE, response |-> TRUE,
     records |-> <<[whole |-> TRUE, txt |-> None], [whole |-> TRUE, txt |-> txt]>>]
RouterAt == <<10, 0, 0, 1>>
Router ==
    [NoDevice EXCEPT
       !.listening = <<{23, 53, 80, 8080, 8728}, {80, 443}>>, !.pages = RouterPages,
       !.telnet = <<[text |-> None, negotiates |-> TRUE], [text |-> {"rt-"}, negotiates |-> FALSE]>>,
       !.dns.udp = ("version.bind" :> DnsReply({"dnsmasq"})),
       !.natpmp = [from_target |-> TRUE, whole |-> TRUE, version |-> 0, opcode |-> 128, result |-> 0,
                   address |-> <<0, 0, 0, 0>>],
       !.rip = <<RipReply(RouterAt, <<RipEntry(20, 1), RipEntry(21, 16)>>),
                 RipReply(<<10, 0, 0, 9>>, <<RipEntry(22, 1)>>),
                 RipReply(RouterAt, <<RipEntry(20, 1), RipEntry(23, 2)>>)>>]

Certificate(issuer, subject) ==
    <<[type |-> "hello", whole |-> TRUE],
      [type |-> "certificate", whole |-> TRUE,
       certificate |-> [issuer |-> issuer, subject |-> subject, sans |-> <<>>]]>>
SelfSigned == Certificate(<<CommonName("nas", FALSE)>>, <<CommonName("nas", FALSE)>>)
Pair(id, value) == [id |-> id, whole |-> TRUE, value |-> value]
Server ==
    [NoDevice EXCEPT
       !.listening = <<{53, 139, 443, 8443}, {}>>,
       !.tls = (443 :> SelfSigned) @@ (8443 :> Certificate(<<>>, <<CommonName("An Office", TRUE)>>)),
       !.smb = (139 :> [smb2 |-> TRUE, pairs |-> <<Pair(1, {"nas"}), Pair(4, {"office"}),
                                                   Pair(0, {}), Pair(1, {"late"})>>]),
       !.dns.tcp = ("version.bind" :> DnsReply({"unbound"}))]
Signed ==
    [Server EXCEPT !.tls = (443 :> Certificate(<<CommonName("authority", FALSE)>>, <<CommonName("nas", FALSE)>>))]

Initialized(status, capabilities) ==
    [status |-> status, session |-> "s",
     initialize |-> [jsonrpc |-> TRUE, error |-> FALSE, id |-> 1,
                     result |-> [protocolVersion |-> "v", serverInfo |-> TRUE,
                                 capabilities |-> capabilities]],
     listings |-> [c \in {"tools", "resources", "prompts"} |->
                     [jsonrpc |-> TRUE, error |-> FALSE, id |-> IF c = "tools" THEN 2 ELSE 9,
                      result |-> [names |-> {c}]]]]
Agent ==
    [NoDevice EXCEPT
       !.listening = <<{3000, 11434}, {}>>,
       !.json = (<<11434, "/api/tags">> :> [status |-> 200, models |-> {"m"}, agent |-> None]),
       !.mcp = (<<3000, "/mcp">> :> Initialized(401, {})) @@
               (<<3000, "/sse">> :> Initialized(200, {"tools", "prompts"}))]

mcPasses ==
    LET router == Target("r", "EstablishedPivot", <<RouterAt, <<10, 1, 0, 1>>>>, TRUE, Router)
        candidate == [router EXCEPT !.tier = "Candidate"]
        server == Target("s", "Host", <<<<10, 0, 0, 2>>>>, FALSE, Server)
        agent == Target("g", "Host", <<[i \in 1..16 |-> IF i = 1 THEN 253 ELSE i]>>, TRUE, Agent)
        late(worth) == Target("l", "Host", <<<<10, 0, 0, 3>>>>, worth,
                              [NoDevice EXCEPT !.listening = <<{8728}, {}>>])
        unreachable == Target("u", "Host", <<>>, TRUE, NoDevice)
    IN  {("a" :> router) @@ ("b" :> unreachable), ("a" :> candidate) @@ ("b" :> late(TRUE)),
         ("a" :> server) @@ ("b" :> late(FALSE)), ("a" :> agent) @@ ("b" :> late(TRUE))}
mcSignedPasses == {"a" :> Target("s", "Host", <<<<10, 0, 0, 2>>>>, FALSE, Signed)}
mcLocalFaults ==
    {[reason |-> "none", refused |-> {}], [reason |-> "no socket", refused |-> {80, 8728}],
     [reason |-> "address gone", refused |-> STAGE_ONE_PORTS \cup STAGE_TWO_PORTS]}
=============================================================================
