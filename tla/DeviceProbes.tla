---------------------------- MODULE DeviceProbes ----------------------------
(* What one device says when it is asked (probes/http.rs, tls.rs, smb.rs,      *)
(* telnet.rs, dns.rs, natpmp.rs, management.rs, ai.rs, providers/ai.rs): how a *)
(* reply becomes an answer, and which replies do not.  A device is a record of *)
(* the replies it gives; text is the set of words the code looks for in it.    *)
EXTENDS RoutingDecode

\* The values in a sequence of optional ones.
Present(s) == SelectSeq(s, LAMBDA v : v # None)
FirstOf(s) == IF s = <<>> THEN None ELSE s[1]

-----------------------------------------------------------------------------
\* Prefixes in a page.  A unit is a table row, a small object or a line, with the kinds of label it
\* carries, the prefixes it writes out and the dotted quads in it.

HTTP_PORTS == {80, 81, 8000, 8008, 8080, 8081, 8123, 8181, 8888, 10000}

establishes_network(semantics) == semantics \in {"InterfaceAddress", "RouteDestination"}

\* Scripts, styles and comments are not what the page says.
strip_non_content(body) == SelectSeq(body, LAMBDA u : u.part = "text")

\* Rows, then objects of at most 512 bytes, then the lines that none of those claimed.
balanced_units(content) == SelectSeq(content, LAMBDA u : u.form = "object" /\ u.size <= 512)
structured_units(content) ==
    SelectSeq(content, LAMBDA u : u.form = "row") \o balanced_units(content)
    \o SelectSeq(content, LAMBDA u : u.form = "line" /\ ~u.claimed)

\* Whether one of the words of a kind of label is in a unit, however the field name is written.
has(u, kind) == kind \in u.labels
is_illustrative(u) == has(u, "example")

\* What a unit says of a prefix in it: a rule about traffic says nothing, and a destination needs a
\* routing table around it.
interface_labelled(u) == has(u, "interface") /\ ~has(u, "policy")
route_labelled(u) == has(u, "destination") /\ has(u, "route") /\ ~has(u, "policy")
semantics_of(u) == IF interface_labelled(u) THEN "InterfaceAddress"
                   ELSE IF route_labelled(u) THEN "RouteDestination" ELSE "Unlabelled"
PrefixCandidate(p, semantics) == [prefix |-> p, semantics |-> semantics]

is_contiguous_mask(a) == ~is_unspecified(a) /\ contiguous_prefix_len(a) # None
address_and_mask(u) ==
    LET mask == FirstOf(SelectSeq(u.quads, is_contiguous_mask))
        address == FirstOf(SelectSeq(u.quads, LAMBDA a : ~is_contiguous_mask(a)))
    IN  IF mask = None \/ address = None THEN <<>>
        ELSE <<PrefixCandidate(Net(address, contiguous_prefix_len(mask)), semantics_of(u))>>

\* Prefixes written out, other than single hosts, and then an address beside a labelled mask.
candidates_in_unit(u) ==
    Each(SelectSeq(u.cidrs, LAMBDA p : p.len # 8 * Len(p.addr)),
           LAMBDA p : PrefixCandidate(Net(p.addr, p.len), semantics_of(u)))
    \o (IF has(u, "mask") THEN address_and_mask(u) ELSE <<>>)

\* Fault: the first mention of a prefix stands, whatever is said of it later.
push_unique_first(out, c) ==
    IF \E i \in DOMAIN out : out[i].prefix = c.prefix THEN out ELSE Append(out, c)

\* One candidate per prefix: a statement replaces a mention, and nothing replaces a statement.
push_unique(out, c) ==
    LET at == {i \in DOMAIN out : out[i].prefix = c.prefix}
    IN  IF at = {} THEN Append(out, c)
        ELSE [i \in DOMAIN out |->
                IF i \in at /\ establishes_network(c.semantics)
                   /\ ~establishes_network(out[i].semantics) THEN c ELSE out[i]]

prefix_candidates(body) ==
    Accumulate(push_unique, <<>>,
             Concat(Each(SelectSeq(structured_units(strip_non_content(body)),
                                     LAMBDA u : ~is_illustrative(u)),
                               candidates_in_unit)))

-----------------------------------------------------------------------------
\* One plaintext page, and the redirects that stay on its origin.

MAX_REDIRECTS == 3

\* At most 200 links, as the page wrote them.
document_links(r) == SubSeq(r.links, 1, IF Len(r.links) > 200 THEN 200 ELSE Len(r.links))

\* What is kept of a response.
parse_http_identity(r) ==
    [status |-> r.status, server |-> r.server, authenticate |-> r.authenticate,
     title |-> r.title, prefixes |-> prefix_candidates(r.body), redirect_target |-> r.location,
     body_fingerprint |-> r.fingerprint, links |-> document_links(r)]
probe_http_path(dev, port, path) ==
    IF <<port, path>> \in DOMAIN dev.pages
    THEN parse_http_identity(dev.pages[<<port, path>>]) ELSE None

requires_authentication(i) == i.status \in {401, 407} \/ i.authenticate
description(i) == i.server # None \/ i.title # None \/ requires_authentication(i)

\* The path on this origin, or why there is none.  A URL without a port names this port.
Declined(reason) == [reason |-> reason, path |-> None]
same_origin_path(l, port) ==
    CASE l.form = "empty" -> Declined("empty Location")
      [] l.form = "protocol-relative" -> Declined("names another origin")
      [] l.form = "path" -> [reason |-> None, path |-> l.path]
      [] l.form = "https" -> Declined("HTTPS")
      [] l.form = "http" -> IF l.ours /\ l.port \in {None, port}
                            THEN [reason |-> None, path |-> l.path]
                            ELSE Declined("different host or port")
      [] OTHER -> Declined("not an absolute HTTP URL")

\* One turn of the redirect loop; `go` is false once the loop has been left.
Follow(dev, port, acc) ==
    LET target == acc.identity.redirect_target
        next == same_origin_path(target, port)
        got == probe_http_path(dev, port, next.path)
    IN  IF ~acc.go \/ target = None THEN [acc EXCEPT !.go = FALSE]
        ELSE IF next.path = None THEN [acc EXCEPT !.go = FALSE, !.declined = next.reason]
        ELSE IF next.path = acc.path THEN [acc EXCEPT !.go = FALSE]
        ELSE IF got = None THEN [acc EXCEPT !.go = FALSE, !.requests = @ + 1]
        ELSE [acc EXCEPT !.identity = got, !.path = next.path, !.chain = Append(@, next.path),
                         !.requests = @ + 1]
identify(dev, port) ==
    LET root == probe_http_path(dev, port, "/")
    IN  IF root = None THEN None
        ELSE Accumulate(LAMBDA acc, i : Follow(dev, port, acc),
                      [identity |-> root, path |-> "/", chain |-> <<>>, declined |-> None,
                       requests |-> 1, go |-> TRUE],
                      [i \in 1..MAX_REDIRECTS |-> i])

-----------------------------------------------------------------------------
\* The bounded audit of a management surface.

UNIVERSAL_PATHS == <<"/status", "/status.html", "/info", "/device.xml", "/status.json",
                     "/api/status", "/api/routes", "/api/routing">>
REQUEST_BUDGET == 12
MaxRefusals == 64

is_document_link(l) == ~l.asset /\ (l.descriptor \/ l.document)

\* Whether a link may be read, by the first rule that refuses it.
admissible(l, port) ==
    LET at == same_origin_path(l, port)
    IN  CASE l.form = "empty" -> Declined("empty link")
          [] l.form = "fragment" -> Declined("fragment")
          [] l.form = "scheme" -> Declined("not an HTTP URL")
          [] l.query -> Declined("query string")
          [] l.cgi -> Declined("CGI handler")
          [] l.action -> Declined("action semantics")
          [] at.path = None -> at
          [] ~is_document_link(l) -> Declined("not a document")
          [] OTHER -> at

AuditQueue(links, port) ==
    Once(Present(Each(links, LAMBDA l : admissible(l, port).path)) \o UNIVERSAL_PATHS, LAMBDA p : p)

\* What came of one path.
PathOutcome(r) ==
    IF r = None THEN [is |-> "NoResponse"]
    ELSE IF r.authenticate \/ r.status = 401 THEN [is |-> "AuthenticationRequired"]
    ELSE [is |-> "Answered", status |-> r.status, fingerprint |-> r.body_fingerprint]


\* The links the first page published, then the usual paths, until the budget is spent.
audit(dev, port, root) ==
    LET queue == AuditQueue(root.links, port)
        asked == SubSeq(queue, 1, IF Len(queue) > REQUEST_BUDGET THEN REQUEST_BUDGET ELSE Len(queue))
        refused == SelectSeq(root.links, LAMBDA l : admissible(l, port).path = None)
        got == Each(asked, LAMBDA p : probe_http_path(dev, port, p))
    IN  [asked |-> asked,
         refused |-> SubSeq(refused, 1, IF Len(refused) > MaxRefusals THEN MaxRefusals ELSE Len(refused)),
         outcomes |-> Each(got, PathOutcome),
         candidates |-> Concat(Each(Present(got), LAMBDA r : r.prefixes)),
         budget_exhausted |-> Len(queue) > REQUEST_BUDGET]

\* Statuses under which more than one path returned the same body.
identical_responses(a) ==
    {a.outcomes[i].status : i \in {j \in DOMAIN a.outcomes :
        a.outcomes[j].is = "Answered" /\ a.outcomes[j].fingerprint # None
        /\ \E k \in DOMAIN a.outcomes : k # j /\ a.outcomes[k] = a.outcomes[j]}}

-----------------------------------------------------------------------------
\* TLS.  A certificate holds the issuer's names and then the subject's, in that order on the wire.

TLS_PORTS == {443, 8443, 4443, 993, 995, 8006, 32400}

\* A name in one of the four string types the code reads; any other is passed over.
parse_asn1_string(n) == IF n.tag \in {"utf8", "printable", "teletex", "ia5"} THEN n ELSE None
is_plausible_dns_name(n) == n.dns
parse_x509_certificate(c) ==
    LET names == Present(Each(c.issuer \o c.subject, parse_asn1_string))
    IN  [common_name |-> FirstOf(names),
         issuer_cn |-> IF Len(names) > 1 THEN names[2] ELSE None,
         alt_names |-> Once(SelectSeq(c.sans, is_plausible_dns_name), LAMBDA n : n)]

\* The first certificate of the first certificate message that arrived whole.
parse_tls_response(messages) ==
    LET found == SelectSeq(messages, LAMBDA m : m.type = "certificate" /\ m.whole)
    IN  IF found = <<>> THEN None ELSE parse_x509_certificate(found[1].certificate)
probe_tls_certificate(dev, port) ==
    IF port \in DOMAIN dev.tls THEN parse_tls_response(dev.tls[port]) ELSE None

\* SMB.  A negotiation that names neither the computer nor its domain confirms nothing.  The pairs
\* end at identifier 0 or at one that claims more than is there, and the last of each is kept.
parse_ntlmssp_av_pairs(pairs) ==
    LET read == Before(pairs, LAMBDA p : p.id = 0 \/ ~p.whole)
        last(id) == LET of == SelectSeq(read, LAMBDA p : p.id = id)
                    IN  IF of = <<>> THEN None ELSE LastIn(of).value
    IN  [computer_name |-> last(1), domain_name |-> last(2),
         dns_computer_name |-> last(3), dns_domain_name |-> last(4)]
parse_smb2_response(r) ==
    LET info == parse_ntlmssp_av_pairs(r.pairs)
    IN  IF r.smb2 /\ (info.computer_name # None \/ info.domain_name # None) THEN info ELSE None
probe_smb(dev, port) == IF port \in DOMAIN dev.smb THEN parse_smb2_response(dev.smb[port]) ELSE None

\* Telnet.  The greeting with its negotiation removed; nothing when nothing came, or when the
\* deadline had passed by the time a read that did bring something was over.
parse_banner(chunks) ==
    [lines |-> SelectSeq(chunks, LAMBDA c : c.text # None /\ c.text # {}),
     negotiated |-> \E i \in DOMAIN chunks : chunks[i].negotiates]
read_banner(dev, late) ==
    IF dev.telnet = <<>> \/ late THEN None ELSE parse_banner(dev.telnet)

-----------------------------------------------------------------------------
\* DNS, NAT-PMP.  An answer is from the device asked and to the question asked.

IDENTITY_NAMES == {"version.bind", "hostname.bind", "id.server"}

\* The first TXT record with text in it, of the records that arrived whole.
extract_txt_answer(records) ==
    FirstOf(Present(Each(Before(records, LAMBDA r : ~r.whole), LAMBDA r : r.txt)))
parse_dns_response(r) ==
    IF r.whole /\ r.same_id /\ r.response
    THEN [version |-> extract_txt_answer(r.records)] ELSE None
confirm_over_udp(dev, name) ==
    IF name \in DOMAIN dev.dns.udp /\ dev.dns.udp[name].from_target
    THEN parse_dns_response(dev.dns.udp[name]) ELSE None
confirm_over_tcp(dev, name) ==
    IF name \in DOMAIN dev.dns.tcp THEN parse_dns_response(dev.dns.tcp[name]) ELSE None
dns_identify(dev, name) ==
    LET udp == confirm_over_udp(dev, name)
        answer == IF udp # None THEN udp ELSE confirm_over_tcp(dev, name)
    IN  IF answer = None THEN None ELSE answer.version

parse_external_address_response(r) ==
    IF r.whole /\ r.version = 0 /\ r.opcode = 128
    THEN [external |-> IF r.result = 0 /\ ~is_unspecified(r.address) THEN r.address ELSE None]
    ELSE None
probe_nat_gateway(dev) ==
    IF dev.natpmp # None /\ dev.natpmp.from_target
    THEN parse_external_address_response(dev.natpmp) ELSE None

-----------------------------------------------------------------------------
\* AI runtimes and MCP servers, from protocol answers and never from a port.

AI_CANDIDATE_PORTS == <<11434, 1234, 8000, 8080, 5000, 3000, 8081, 9000>>
http_get(dev, port, path) ==
    IF <<port, path>> \in DOMAIN dev.json THEN dev.json[<<port, path>>] ELSE None

\* The first endpoint among `ports` that is open and answers `path` with 200 and what is asked for.
Runtime(dev, ports, open, path, Kind(_), Has(_)) ==
    LET answers(p) == p \in open /\ http_get(dev, p, path) # None
                      /\ http_get(dev, p, path).status = 200 /\ Has(http_get(dev, p, path))
        at == SelectSeq(ports, answers)
    IN  IF at = <<>> THEN <<>>
        ELSE LET r == http_get(dev, at[1], path)
             IN  <<[runtime_type |-> Kind(at[1]), models |-> r.models, agent_name |-> r.agent]>>
probe_ollama(dev, open) ==
    Runtime(dev, <<11434>>, open, "/api/tags", LAMBDA p : "Ollama", LAMBDA r : TRUE)
probe_openai(dev, open) ==
    Runtime(dev, <<1234, 8000, 8080, 5000>>, open, "/v1/models",
            LAMBDA p : CASE p = 1234 -> "LM Studio" [] p = 8000 -> "vLLM" [] p = 8080 -> "LocalAI"
                         [] OTHER -> "LLM Inference Server",
            LAMBDA r : TRUE)
probe_agentpin(dev, open) ==
    Runtime(dev, <<80, 443, 3000, 8080>>, open, "/.well-known/agent-identity.json",
            LAMBDA p : "AgentPin Agent", LAMBDA r : r.agent # None)
probe_ai_runtime(dev, open) ==
    FirstOf(probe_ollama(dev, open) \o probe_openai(dev, open) \o probe_agentpin(dev, open))

\* A reply to request `id`: version 2.0, no error, the same identifier.
parse_json_rpc(r, id) == IF r.jsonrpc /\ ~r.error /\ r.id = id THEN r.result ELSE None
parse_initialize_result(r) == IF r.protocolVersion # None /\ r.serverInfo THEN r ELSE None

\* The lifecycle: initialize, then the advertised collections, each with the session's headers.
Listing(server, session, collection, id) ==
    LET carried == session.session = server.session
        reply == server.listings[collection]
    IN  IF collection \notin session.capabilities \/ ~carried \/ reply = None THEN {}
        ELSE IF parse_json_rpc(reply, id) = None THEN {} ELSE reply.result.names
http_exchange(dev, port, path) ==
    IF <<port, path>> \in DOMAIN dev.mcp THEN dev.mcp[<<port, path>>] ELSE None
confirm_mcp(dev, port, path) ==
    LET server == http_exchange(dev, port, path)
    IN  IF server = None THEN None
        ELSE LET result == parse_json_rpc(server.initialize, 1)
                 session == IF result = None THEN None ELSE parse_initialize_result(result)
             IN  IF server.status \in {401, 403} \/ session = None THEN None
                 ELSE LET held == [session |-> server.session, capabilities |-> session.capabilities]
                      IN  [protocol |-> session.protocolVersion,
                           tools |-> Listing(server, held, "tools", 2),
                           resources |-> Listing(server, held, "resources", 3),
                           prompts |-> Listing(server, held, "prompts", 4)]

\* One confirmed endpoint per port is enough.
mcp_servers(dev, ports) ==
    Each(ports, LAMBDA p :
        LET at == SelectSeq(<<"/mcp", "/sse", "/">>, LAMBDA path : confirm_mcp(dev, p, path) # None)
        IN  IF at = <<>> THEN None
            ELSE [port |-> p, server |-> confirm_mcp(dev, p, at[1])])
=============================================================================
