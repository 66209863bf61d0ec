---------------------------- MODULE Interrogation ----------------------------
(* One pass over the device queue (providers/target.rs, engine/enrich.rs,      *)
(* providers/vendor.rs, providers/ai.rs): every queued device has a task of    *)
(* its own that sweeps its ports in stages, asks the control plane, confirms   *)
(* what speaks on the ports that opened, looks at its other addresses, selects *)
(* vendor adapters and runs the per-device providers.  The pass joins the      *)
(* tasks as they end; a task that panics ends without a result.                *)
EXTENDS DeviceProbes

CONSTANTS
    Passes,       \* the queues a pass may be given: functions from devices to targets
    LocalFaults   \* what a sweep may meet on this machine: a reason and the ports it keeps from being asked

\* A pass is over finitely many devices, each queued once.
ASSUME PassAssumption ==
    \A q \in Passes : \A d, e \in DOMAIN q : q[d].device = q[e].device => d = e

VARIABLES
    queue,     \* the pass: what is asked of whom, and what each would say
    task,      \* per device: how far its task is and what it has put together
    evidence,  \* evidence of the joined tasks
    coverage,  \* their coverage records
    ended      \* whether every task has been joined

interrogationVars == <<queue, task, evidence, coverage, ended>>

STAGE_ONE_PORTS == {21, 22, 23, 25, 53, 80, 139, 161, 443, 445, 554, 1234, 8000, 8080, 8443, 9100, 11434}
STAGE_TWO_PORTS ==
    {81, 88, 110, 143, 389, 515, 548, 587, 631, 873, 902, 993, 995, 1080, 1883, 2000, 2049, 3000,
     3128, 3306, 3389, 4443, 5000, 5001, 5060, 5222, 5357, 5432, 5900, 6379, 7547, 8006, 8008, 8081,
     8123, 8181, 8728, 8888, 9000, 9090, 9200, 10000, 32400, 49152, 49153}
CONTROL_PLANE_UDP_PORTS == {5351, 53}
RIP_PORT == 520

\* A line of the coverage report, by what it is about.
Note(proto, port, what, prefix) == [proto |-> proto, port |-> port, what |-> what, prefix |-> prefix]

\* DeviceCoverage, as it starts and for a device that cannot be asked.
NewCoverage(t) ==
    [device |-> t.device, tier |-> t.tier, endpoints |-> <<>>, udp_attempted |-> {},
     protocols_confirmed |-> {}, auth_required |-> {}, vendor_adapters |-> {},
     adapter_outcomes |-> {}, skipped |-> FALSE]
skipped(t) == [NewCoverage(t) EXCEPT !.skipped = TRUE]

EndpointCoverage(e, primary, swept, omitted) ==
    [endpoint |-> e, primary |-> primary, stages_run |-> 1,
     tcp_attempted |-> Cardinality(STAGE_ONE_PORTS), tcp_responsive |-> swept.open,
     not_sent |-> swept.not_sent, omitted |-> omitted]

tcp_responsive(c) == UNION {c.endpoints[i].tcp_responsive : i \in DOMAIN c.endpoints}
not_sent(c) == MapThenSumSet(LAMBDA i : SumFunction(c.endpoints[i].not_sent), DOMAIN c.endpoints)
silent(c) == ~c.skipped /\ tcp_responsive(c) = {} /\ c.auth_required = {} /\ not_sent(c) = 0

merge_failures(into, more) ==
    LET Of(counts, r) == IF r \in DOMAIN counts THEN counts[r] ELSE 0
    IN  [r \in DOMAIN into \cup DOMAIN more |-> Of(into, r) + Of(more, r)]

\* One sweep: what accepted a connection, and what never left this machine, by reason.
sweep_ports(t, e, ports, fault) ==
    LET refused == ports \cap fault.refused
    IN  [open |-> (ports \cap t.dev.listening[e]) \ refused,
         not_sent |-> [reason \in {fault.reason : p \in refused} |-> Cardinality(refused)]]

-----------------------------------------------------------------------------
\* What the answers say.  An answer is evidence, lines of coverage and ports that want credentials.

Answer(out, notes, auth) == [out |-> out, notes |-> notes, auth |-> auth]
Nothing == Answer({}, {}, {})
Both(a, b) == Answer(a.out \cup b.out, a.notes \cup b.notes, a.auth \cup b.auth)
Every(S, Of(_)) == Answer(UNION {Of(x).out : x \in S}, UNION {Of(x).notes : x \in S},
                          UNION {Of(x).auth : x \in S})

\* A stated prefix becomes a network and a relationship; any other stays a line of coverage.
promote_http_prefix(t, c, port) ==
    IF ~establishes_network(c.semantics)
    THEN Answer({}, {Note("http", port, "candidate", c.prefix)}, {})
    ELSE Answer(Says("TcpProbe", "Advertised",
                     {Network(c.prefix),
                      IF c.semantics = "InterfaceAddress" THEN AttachedTo(t.device, c.prefix)
                      ELSE RoutesTo(t.device, c.prefix, None)}),
                {Note("http", port, "stated", c.prefix)}, {})
promoted(t, candidates, port) ==
    Every(Range(candidates), LAMBDA c : promote_http_prefix(t, c, port))

dns_evidence(t, transport) ==
    Answer(Says("UnicastDns", "Observed",
                {DeviceCapability(t.device, "DnsServer"), Service(t.endpoints[1], 53, transport)}),
           {Note("dns/53", 53, transport, None)}, {})

nat_evidence(t) ==
    IF probe_nat_gateway(t.dev) = None THEN Nothing
    ELSE Answer(Says("NatPmp", "Observed",
                     {DeviceCapability(t.device, "NatGateway"),
                      DeviceRoleSignal(t.device, Signal("ObservedForwarding"))}),
                {Note("nat-pmp", 5351, "answered", None)}, {})

\* Routes the router can still reach; the signal only when there was one.
rip_evidence(t) ==
    LET table == request_table(t.endpoints[1], t.dev.rip)
        usable == IF table = None THEN {} ELSE {r \in Range(table.routes) : is_reachable(r)}
    IN  IF table = None THEN Nothing
        ELSE Answer(Says("Rip", "Advertised",
                         UNION {{Network(r.prefix), RoutesTo(t.device, r.prefix, r.next_hop)}
                                : r \in usable})
                    \cup Says("Rip", "Observed",
                              When(advertised_routes(table),
                                   {DeviceRoleSignal(t.device, Signal("RipRouteAdvertisement"))})),
                    {Note("rip", RIP_PORT, IF advertised_routes(table) THEN "routes" ELSE "no routes",
                          None)}, {})

probe_control_plane(t) ==
    Both(Both(nat_evidence(t), rip_evidence(t)),
         IF confirm_over_udp(t.dev, "version.bind") = None THEN Nothing ELSE dns_evidence(t, "udp"))

\* The certificate's words, and its name for the device when it is not a phrase.
tls_evidence(t, port) ==
    LET cert == probe_tls_certificate(t.dev, port)
        cn == cert.common_name
    IN  IF cert = None THEN Nothing
        ELSE Answer(Says("TcpProbe", "Advertised",
                         {DeviceDescription(t.device, Text("tls", IF cn = None THEN {} ELSE cn.words))}
                         \cup When(cn # None /\ ~cn.space,
                                   {DeviceHostname(t.device, Text(cn.id, cn.words))}))
                    \cup Says("TcpProbe", "Observed", {Service(t.endpoints[1], port, "tcp")}),
                    {Note("tls", port, "certificate", None)}, {})

smb_evidence(t, open) ==
    LET port == IF 445 \in open THEN 445 ELSE 139
        smb == IF {445, 139} \cap open = {} THEN None ELSE probe_smb(t.dev, port)
        name == FirstOf(Present(<<smb.dns_computer_name, smb.computer_name>>))
        domain == FirstOf(Present(<<smb.dns_domain_name, smb.domain_name>>))
    IN  IF smb = None THEN Nothing
        ELSE Answer(Says("TcpProbe", "Advertised",
                         When(name # None, {DeviceHostname(t.device, Text("smb", name))})
                         \cup When(domain # None, {DeviceDescription(t.device, Text("domain", domain))}))
                    \cup Says("TcpProbe", "Observed", {Service(t.endpoints[1], port, "tcp")}),
                    {Note("smb", port, "negotiated", None)}, {})

\* The names are asked for where DNS had answered by then, which is over UDP.
dns_identities(t, confirmed) ==
    IF ~confirmed THEN Nothing
    ELSE Every(IDENTITY_NAMES, LAMBDA name :
           LET text == dns_identify(t.dev, name)
           IN  Answer(Says("UnicastDns", "Advertised",
                           When(text # None, {DeviceDescription(t.device, Text(name, text))})),
                      {Note("dns", 53, IF text = None THEN "no identity" ELSE "identity", None)}, {}))
dns_over_tcp(t, open, confirmed) ==
    IF 53 \in open /\ ~confirmed /\ confirm_over_tcp(t.dev, "version.bind") # None
    THEN dns_evidence(t, "tcp") ELSE Nothing

telnet_evidence(t, late) ==
    LET banner == read_banner(t.dev, late)
    IN  IF banner = None THEN Answer({}, {Note("telnet", 23, "no greeting", None)}, {})
        ELSE IF banner.lines = <<>>
        THEN Answer({}, {Note("telnet", 23, "negotiated, no greeting", None)}, {})
        ELSE Answer(Says("TcpProbe", "Advertised",
                         {DeviceDescription(t.device,
                            Text("telnet", UNION {l.text : l \in Range(banner.lines)}))}),
                    {Note("telnet", 23, "identity", None)}, {})

\* What the audit reports of its paths: one line for a repeated page, and none for any path that
\* answered with the status of a repeated page.
audit_notes(a, port) ==
    LET repeated == identical_responses(a)
    IN  {Note("http audit", port, "catch-all", None) : s \in repeated}
        \cup {Note("http audit", port, a.asked[i], None) : i \in
                {j \in DOMAIN a.asked : ~(a.outcomes[j].is = "Answered"
                                          /\ a.outcomes[j].status \in repeated)}}
        \cup {Note("http audit", port, l.name, None) : l \in Range(a.refused)}
        \cup When(a.budget_exhausted, {Note("http audit", port, "budget", None)})

\* Only a device already known to route or bridge is audited.
audit_evidence(t, port, root) ==
    IF t.tier # "EstablishedPivot" THEN Nothing
    ELSE LET a == audit(t.dev, port, root)
         IN  Both(promoted(t, a.candidates, port), Answer({}, audit_notes(a, port), {}))

http_evidence(t, port) ==
    LET got == identify(t.dev, port)
        page == got.identity
        locked == requires_authentication(page)
        words == UNION {w \in {page.server, page.title} : w # None}
    IN  IF got = None THEN Answer({}, {Note("http", port, "no response", None)}, {})
        ELSE Both(Both(promoted(t, page.prefixes, port), audit_evidence(t, port, page)),
                  Answer(Says("TcpProbe", "Observed",
                              When(description(page), {Service(t.endpoints[1], port, "tcp")})
                              \cup When(locked, {DeviceCapability(t.device, "ManagementInterface")}))
                         \cup Says("TcpProbe", "Advertised",
                                   When(description(page),
                                        {DeviceDescription(t.device, Text("http", words))})),
                         {Note("http", port, IF got.chain = <<>> THEN "identity" ELSE "redirected", None)}
                         \cup When(got.declined # None, {Note("http", port, "redirect declined", None)}),
                         When(locked, {port})))

\* TLS, SMB, DNS, telnet and HTTP, each on the ports that opened.
confirm_protocols(t, open, confirmed, late) ==
    Both(Both(Every(open \cap TLS_PORTS, LAMBDA p : tls_evidence(t, p)), smb_evidence(t, open)),
         Both(Both(dns_identities(t, confirmed), dns_over_tcp(t, open, confirmed)),
              Both(IF 23 \in open THEN telnet_evidence(t, late) ELSE Nothing,
                   Every(open \cap HTTP_PORTS, LAMBDA p : http_evidence(t, p)))))

runtime_evidence(t, ai) ==
    Says("AiProtocol", "Observed", {DeviceCapability(t.device, "AiRuntime")})
    \cup Says("AiProtocol", "Advertised",
              {DeviceDescription(t.device, Text("model", {m})) : m \in ai.models}
              \cup When(ai.agent_name # None, {DeviceCapability(t.device, "AiAgent")}))
mcp_evidence(t, found) ==
    Says("Mcp", "Observed", {DeviceCapability(t.device, "McpServer"),
                             Service(t.endpoints[1], found.port, "tcp")})
    \cup Says("Mcp", "Advertised",
              {DeviceDescription(t.device, Text("tool", {m})) : m \in found.server.tools})

\* Only the candidate ports that opened are asked anything.
probe_ai_services(t, open) ==
    LET reachable == SelectSeq(AI_CANDIDATE_PORTS, LAMBDA p : p \in open)
        ai == probe_ai_runtime(t.dev, Range(reachable))
    IN  When(ai # None, runtime_evidence(t, ai))
        \cup UNION {mcp_evidence(t, found) : found \in Range(Present(mcp_servers(t.dev, reachable)))}

-----------------------------------------------------------------------------
\* Vendor adapters: selected on what the graph knew and what was just said; none can be run yet.

DescriptionsIn(out) == {e.fact.fields.text : e \in {x \in out : x.fact.kind = "DeviceDescription"}}
HostnamesIn(out) == {e.fact.fields.hostname : e \in {x \in out : x.fact.kind = "DeviceHostname"}}
absorb_evidence(known, out) ==
    [known EXCEPT !.texts = @ \cup DescriptionsIn(out) \cup HostnamesIn(out)]
mentions(f, needle) == \E text \in f.texts : needle \in text.of
vendor_is(f, needle) == f.vendor = needle
asus_applies(f) == vendor_is(f, "asus") \/ mentions(f, "asuswrt") \/ mentions(f, "rt-")
mikrotik_applies(f, open) == vendor_is(f, "mikrotik") \/ mentions(f, "routeros") \/ 8728 \in open
ubiquiti_applies(f, open) == vendor_is(f, "ubiquiti") \/ mentions(f, "unifi") \/ 8443 \in open
selected_adapters(f, open) ==
    When(asus_applies(f), {"vendor:asus"}) \cup When(mikrotik_applies(f, open), {"vendor:mikrotik"})
    \cup When(ubiquiti_applies(f, open), {"vendor:ubiquiti"})
run_adapters(selected) == {Text("unavailable", {a}) : a \in selected}

-----------------------------------------------------------------------------
\* The tasks.  Stages: start, two, confirm, secondary, adapters, providers, done, joined, lost.

InterrogationInit ==
    /\ queue \in Passes
    /\ task = [d \in DOMAIN queue |-> [stage |-> "start", open |-> {}, primary |-> None, out |-> {},
                                       coverage |-> NewCoverage(queue[d])]]
    /\ evidence = {} /\ coverage = {} /\ ended = FALSE

Set(d, changes) == task' = [task EXCEPT ![d] = changes]
Rest == UNCHANGED <<queue, evidence, coverage, ended>>
Add(k, answer) ==
    [k EXCEPT !.out = @ \cup answer.out,
              !.coverage.protocols_confirmed = @ \cup answer.notes,
              !.coverage.auth_required = @ \cup answer.auth]

\* Stage 1 at the preferred address, and the control plane when that address is IPv4.
StageOne(d, fault) ==
    LET t == queue[d]
        swept == sweep_ports(t, 1, STAGE_ONE_PORTS, fault)
        begun == [task[d] EXCEPT !.stage = "two", !.open = swept.open,
                                 !.primary = EndpointCoverage(1, TRUE, swept, None)]
    IN  /\ task[d].stage = "start" /\ Rest
        /\ IF t.endpoints = <<>>
           THEN Set(d, [task[d] EXCEPT !.stage = "providers", !.coverage = skipped(t)])
           ELSE IF ~is_v4(t.endpoints[1]) THEN Set(d, begun)
           ELSE Set(d, Add([begun EXCEPT !.coverage.udp_attempted = CONTROL_PLANE_UDP_PORTS \cup {RIP_PORT}],
                           probe_control_plane(t)))

\* Fault: a device nothing opened on is left after stage 1 without a word.
StageTwo_unsaid(d, fault) ==
    LET t == queue[d]
        swept == sweep_ports(t, 1, STAGE_TWO_PORTS, fault)
        broaden == task[d].open # {}
    IN  /\ task[d].stage = "two" /\ Rest
        /\ Set(d, IF ~broaden THEN [task[d] EXCEPT !.stage = "confirm"]
                  ELSE [task[d] EXCEPT !.stage = "confirm", !.open = @ \cup swept.open,
                          !.primary.stages_run = 2, !.primary.tcp_responsive = @ \cup swept.open,
                          !.primary.tcp_attempted = @ + Cardinality(STAGE_TWO_PORTS),
                          !.primary.not_sent = merge_failures(@, swept.not_sent)])

\* Stage 2 for a device that has earned it or that answered, and a line saying so for any other.
StageTwo(d, fault) ==
    LET t == queue[d]
        swept == sweep_ports(t, 1, STAGE_TWO_PORTS, fault)
        broaden == t.worth_full_interrogation \/ task[d].open # {}
    IN  /\ task[d].stage = "two" /\ Rest
        /\ Set(d, IF ~broaden
                  THEN [task[d] EXCEPT !.stage = "confirm", !.primary.omitted = "stage 2"]
                  ELSE [task[d] EXCEPT !.stage = "confirm", !.open = @ \cup swept.open,
                          !.primary.stages_run = 2, !.primary.tcp_responsive = @ \cup swept.open,
                          !.primary.tcp_attempted = @ + Cardinality(STAGE_TWO_PORTS),
                          !.primary.not_sent = merge_failures(@, swept.not_sent)])

OpenServices(t, e, open) ==
    Says("TcpProbe", "Observed", {Service(t.endpoints[e], p, "tcp") : p \in open})

\* Stage 3 on what opened.
StageThree(d, late) ==
    LET t == queue[d]
        k == [task[d] EXCEPT !.stage = "secondary", !.out = @ \cup OpenServices(t, 1, task[d].open),
                !.coverage.endpoints = <<[task[d].primary EXCEPT
                                            !.stages_run = IF task[d].open = {} THEN @ ELSE 3]>>]
        confirmed == \E n \in task[d].coverage.protocols_confirmed : n.proto = "dns/53"
    IN  /\ task[d].stage = "confirm" /\ Rest
        /\ Set(d, IF task[d].open = {} THEN k
                  ELSE Add(k, Both(confirm_protocols(t, task[d].open, confirmed, late),
                                   Answer(probe_ai_services(t, task[d].open), {}, {}))))

\* The next of the other addresses, stage 1 only.
Secondary(d, fault) ==
    LET t == queue[d]
        e == Len(task[d].coverage.endpoints) + 1
        swept == sweep_ports(t, e, STAGE_ONE_PORTS, fault)
    IN  /\ task[d].stage = "secondary" /\ Rest
        /\ Set(d, IF e > Len(t.endpoints) THEN [task[d] EXCEPT !.stage = "adapters"]
                  ELSE [task[d] EXCEPT
                          !.out = @ \cup OpenServices(t, e, swept.open),
                          !.coverage.endpoints =
                             Append(@, EndpointCoverage(e, FALSE, swept, "stages 2-3"))])

Adapters(d) ==
    LET selected == selected_adapters(absorb_evidence(queue[d].known, task[d].out), task[d].open)
    IN  /\ task[d].stage = "adapters" /\ Rest
        /\ Set(d, [task[d] EXCEPT !.stage = "providers", !.coverage.vendor_adapters = selected,
                                  !.coverage.adapter_outcomes = run_adapters(selected)])

\* The providers that apply to one device: what SNMP made of it is another module's.
Providers(d, answered) ==
    /\ task[d].stage = "providers" /\ Rest /\ (answered => queue[d].endpoints # <<>>)
    /\ Set(d, Add([task[d] EXCEPT !.stage = "done"],
                  IF answered
                  THEN Answer(Says("Snmp", "Observed",
                                   {DeviceDescription(queue[d].device, Text("snmp", {}))}),
                              {Note("snmp", 161, "provider", None)}, {})
                  ELSE Nothing))

\* A task that panics is joined without a result.
Panic(d) ==
    /\ task[d].stage \notin {"done", "joined", "lost"} /\ Rest
    /\ task' = [task EXCEPT ![d].stage = "lost"]

\* Fault: a result is taken only while no task has been lost.
Join_all_or_nothing(d) ==
    /\ task[d].stage = "done"
    /\ task' = [task EXCEPT ![d].stage = "joined"]
    /\ evidence' = IF \E x \in DOMAIN task : task[x].stage = "lost" THEN evidence
                   ELSE evidence \cup task[d].out
    /\ coverage' = IF \E x \in DOMAIN task : task[x].stage = "lost" THEN coverage
                   ELSE coverage \cup {task[d].coverage}
    /\ UNCHANGED <<queue, ended>>

\* A finished task hands over its evidence and its record.
Join(d) ==
    /\ task[d].stage = "done"
    /\ task' = [task EXCEPT ![d].stage = "joined"]
    /\ evidence' = evidence \cup task[d].out
    /\ coverage' = coverage \cup {task[d].coverage}
    /\ UNCHANGED <<queue, ended>>

EndPass ==
    /\ ~ended /\ \A d \in DOMAIN task : task[d].stage \in {"joined", "lost"}
    /\ ended' = TRUE /\ UNCHANGED <<queue, task, evidence, coverage>>

InterrogationNext ==
    \/ \E d \in DOMAIN queue :
         \/ \E fault \in LocalFaults : StageOne(d, fault) \/ StageTwo(d, fault) \/ Secondary(d, fault)
         \/ \E late \in BOOLEAN : StageThree(d, late)
         \/ Adapters(d) \/ Panic(d) \/ Join(d)
         \/ \E answered \in BOOLEAN : Providers(d, answered)
    \/ EndPass
InterrogationSpec ==
    InterrogationInit /\ [][InterrogationNext]_interrogationVars

-----------------------------------------------------------------------------
Finished(d) == task[d].stage \in {"done", "joined"}

\* Nothing that listens goes missing from the report: at every address of a device, a listening port
\* is reported open, or it is one of the probes counted as never having left this machine, or the
\* record says that its stage was not run there; a device the graph has reason to believe in gets the
\* full set; and a device called silent had nothing to answer with on any port it was asked
\* (DeviceCoverage: "a device reported as yielding nothing can be told apart from one that was
\* never asked").
FoundOrSaid ==
    \A d \in DOMAIN queue : Finished(d) =>
        LET t == queue[d]  c == task[d].coverage
        IN  /\ c.skipped = (t.endpoints = <<>>)
            /\ ~c.skipped => Len(c.endpoints) = Len(t.endpoints)
            /\ \A e \in DOMAIN c.endpoints :
                 LET r == c.endpoints[e]
                     asked == STAGE_ONE_PORTS \cup When(r.omitted = None, STAGE_TWO_PORTS)
                     there == t.dev.listening[e] \cap asked
                 IN  /\ r.tcp_attempted = Cardinality(asked) /\ r.tcp_responsive \subseteq there
                     /\ Cardinality(there \ r.tcp_responsive) <= SumFunction(r.not_sent)
                     /\ silent(c) => there = {}
            /\ t.worth_full_interrogation /\ ~c.skipped => c.endpoints[1].omitted = None

\* What a page states of a prefix, wherever on the page and however often it is mentioned.
States(body, prefix, semantics) ==
    \E u \in Range(structured_units(strip_non_content(body))) :
        /\ {"example", "policy"} \cap u.labels = {}
        /\ IF semantics = "InterfaceAddress" THEN "interface" \in u.labels
           ELSE "interface" \notin u.labels /\ {"destination", "route"} \subseteq u.labels
        /\ \E i \in DOMAIN candidates_in_unit(u) : candidates_in_unit(u)[i].prefix = prefix

\* The pages of a device that were read in the end: where a port led, and what was audited there.
ReadAt(t, port) ==
    LET got == identify(t.dev, port)
    IN  IF got = None THEN {}
        ELSE {got.path} \cup When(t.tier = "EstablishedPivot", Range(audit(t.dev, port, got.identity).asked))
BodiesRead(t, open) ==
    {t.dev.pages[at].body : at \in {x \in DOMAIN t.dev.pages :
        x[1] \in open \cap HTTP_PORTS /\ x[2] \in ReadAt(t, x[1])}}

\* Reading pages and tables neither invents topology nor loses it: the networks a device is credited
\* with are exactly those a page it served states as its own address or as a route, whatever else
\* the same pages mention them as, together with the routes of its RIP table that are not
\* withdrawn; and it is said to route to a network only where a route was stated
\* (promote_http_prefix, push_unique, probe_control_plane).
StatedIsPromoted ==
    \A d \in DOMAIN queue : Finished(d) /\ ~task[d].coverage.skipped =>
        LET t == queue[d]  out == task[d].out
            bodies == BodiesRead(t, task[d].open)
            said(source, kind) == {e \in out : e.source = source /\ e.fact.kind = kind}
            prefixes == {p.prefix : p \in UNION {Range(prefix_candidates(b)) : b \in bodies}}
            live == {r \in UNION {Range(parse_response(g)) : g \in
                       {x \in Range(t.dev.rip) : x.from = t.endpoints[1] /\ parse_response(x) # None}}
                     : r.metric < 16}
        IN  /\ {e.fact.fields.prefix : e \in said("TcpProbe", "Network")} =
                 {p \in prefixes : \E b \in bodies, s \in {"InterfaceAddress", "RouteDestination"} :
                                    States(b, p, s)}
            /\ \A e \in said("TcpProbe", "RoutesTo") :
                 \E b \in bodies : States(b, e.fact.fields.network, "RouteDestination")
            /\ \A e \in said("TcpProbe", "AttachedTo") :
                 \E b \in bodies : States(b, e.fact.fields.network, "InterfaceAddress")
            /\ {<<e.fact.fields.network, e.fact.fields.next_hop>> : e \in said("Rip", "RoutesTo")} =
                 {<<r.prefix, r.next_hop>> : r \in When(is_v4(t.endpoints[1]), live)}


\* A task that panics costs its own device and no other: once the pass has ended every other device has
\* its one record and all of its evidence, and the lost one has neither (enrich_devices: "A
\* panicking probe must lose that one device, not the whole pass").
PassKeepsTheRest ==
    ended => LET kept == {d \in DOMAIN task : task[d].stage # "lost"}
             IN  /\ coverage = {task[d].coverage : d \in kept}
                 /\ \A d, e \in kept : task[d].coverage = task[e].coverage => d = e
                 /\ evidence = UNION {task[d].out : d \in kept}

\* The name a certificate gives a device is the name of the certificate's subject (probes/tls.rs:
\* "to extract Subject Common Name (CN), Subject Alternative Names (SANs), and Issuer").
CertificateNamesDevice ==
    \A d \in DOMAIN queue : \A e \in task[d].out :
        e.source = "TcpProbe" /\ e.fact.kind = "DeviceHostname" /\ e.fact.fields.hostname.what # "smb" =>
            \E port \in DOMAIN queue[d].dev.tls : \E m \in Range(queue[d].dev.tls[port]) :
                m.type = "certificate" /\
                \E n \in Range(m.certificate.subject) : n.id = e.fact.fields.hostname.what
=============================================================================
