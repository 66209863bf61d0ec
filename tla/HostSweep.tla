------------------------------ MODULE HostSweep ------------------------------
(* Examining one IPv4 network (engine/scanner.rs, net/socket.rs, net/arp.rs,   *)
(* the host-enrichment provider and NetworkReachability): after the link sweep *)
(* the neighbour cache seeds the hosts, every address is tried over TCP, those *)
(* this run has not heard from are echoed, names are gathered, and what        *)
(* answered and what was asked is merged into the network's reachability.      *)
EXTENDS LinkSweep

CONSTANTS
    Cidr,        \* the network, attached to this interface
    Hosts,       \* its host addresses, in order
    Ports,       \* the ports swept
    Bindings,    \* the bindings a run may have
    Caches,      \* what the kernel's neighbour tables may hold
    Answers      \* what a TCP connect may come to

\* The list of ports to sweep is a finite one.
ASSUME HostAssumption == IsFiniteSet(Ports)

VARIABLES
    binding,   \* [selected, index, v4, v6, link_local]: what this interface can send from
    turn,      \* "link", "tcp", "echo", "done"
    todo,      \* addresses this turn has still to treat
    hosts,     \* host_results: address -> [liveness, mac, vendor, ports, hostname, v6]
    extra,     \* hosts known by a neighbour entry of IPv6 alone
    tally,     \* [probed, sent, not_sent] of the sweep
    reach,     \* NetworkReachability of the network, merged over the providers
    truth      \* what really happened: [answered, left, echoed, provoked]

hostVars == <<binding, turn, todo, hosts, extra, tally, reach, truth>>
sweepVars == <<linkVars, hostVars>>

-----------------------------------------------------------------------------
\* Sockets.  A selected interface without a source in the family cannot send as itself.

NotAbove(a, b) == a = b \/ \E i \in DOMAIN a : a[i] < b[i] /\ \A j \in 1..(i - 1) : a[j] = b[j]
Lowest(addrs) == IF addrs = {} THEN None ELSE CHOOSE a \in addrs : \A b \in addrs : NotAbove(a, b)
for_interface(addresses, index) ==
    [selected |-> TRUE, index |-> index,
     v4 |-> Lowest({a \in addresses : is_v4(a)}),
     v6 |-> Lowest({a \in addresses : ~is_v4(a) /\ ~is_link_local(a)}),
     link_local |-> Lowest({a \in addresses : ~is_v4(a) /\ is_link_local(a)})]
Or(a, b) == IF a # None THEN a ELSE b
local_address_for(b, dst) ==
    IF is_v4(dst) THEN b.v4
    ELSE IF is_link_local(dst) THEN Or(b.link_local, b.v6) ELSE Or(b.v6, b.link_local)
can_reach(b, dst) == ~b.selected \/ local_address_for(b, dst) # None

\* Errors that say the socket could not be created or bound.
is_local_failure(e) ==
    e \in {"AddrNotAvailable", "AddrInUse", "InvalidInput", "PermissionDenied", "Unsupported"}

\* The status of a port: what the kernel or the peer made of the connect.
probe_tcp_socket(b, dst, answer) ==
    LET got == IF can_reach(b, dst) THEN answer ELSE "AddrNotAvailable"
    IN  CASE got = "accepted" -> "Open"
          [] got = "ConnectionRefused" -> "Closed"
          [] is_local_failure(got) -> "NotSent"
          [] OTHER -> "Filtered"

scan_host_tcp(statuses) ==
    [alive |-> \E p \in Ports : statuses[p] \in {"Open", "Closed"},
     open_ports |-> {p \in Ports : statuses[p] = "Open"},
     sent |-> Cardinality({p \in Ports : statuses[p] # "NotSent"}),
     not_sent |-> Cardinality({p \in Ports : statuses[p] = "NotSent"})]

-----------------------------------------------------------------------------
\* Reachability, derived and merged.

probed(responders, addresses, not_sent) ==
    [responders |-> responders, probed |-> addresses \cup responders, not_sent |-> not_sent]
merge(a, b) == [responders |-> a.responders \cup b.responders, probed |-> a.probed \cup b.probed,
                not_sent |-> a.not_sent + b.not_sent]
state(r) == IF r.responders # {} THEN "Reachable"
            ELSE IF r.probed # {} THEN "ProbedUnreachable" ELSE "NotEnumerated"
Unexamined == probed({}, {}, 0)

\* What a finished ARP sweep says of the network: the answers, and what never left.
arp_reachability(o) ==
    IF o.is = "Answered"
    THEN LET who == {o.result.replies[i].address : i \in DOMAIN o.result.replies}
         IN  probed(who, who, 0)
    ELSE IF transmitted(o) THEN Unexamined ELSE probed({}, {}, Len(Hosts))

-----------------------------------------------------------------------------
\* The neighbour cache: rows on this interface, from /proc/net/arp, which shows an unresolved
\* row with the zero address, or if that gives none from arp's output, which calls it
\* incomplete.  (Its Windows form, which names no interface, is left out.)
OnInterface(rows) == {r \in rows : r.interface = Zone /\ ~is_multicast(r.ip) /\ ~is_broadcast(r.ip)}
parse_proc_net_arp(rows) ==
    {r \in OnInterface(rows) : r.state # "incomplete" /\ r.mac.id # "zero"}
parse_arp_output(rows) ==
    {r \in OnInterface(rows) : r.state # "incomplete" /\ r.mac.id # "broadcast"}
read_system_arp_table(rows) ==
    IF parse_proc_net_arp(rows) # {} THEN parse_proc_net_arp(rows) ELSE parse_arp_output(rows)

Broadcast == [i \in 1..4 |-> Cidr.addr[i] + (255 - MaskOf(4, Cidr.len)[i])]

HeardFrom == [liveness |-> "Answered", mac |-> None, vendor |-> {}, ports |-> {},
              hostname |-> None, v6 |-> {}]

\* Fault: what the cache remembers counts as an answer.
Seed_answered(rows) ==
    LET kept == {r \in read_system_arp_table(rows) :
                   contains(Cidr, r.ip) /\ r.ip # Broadcast /\ r.mac.id # "broadcast"}
    IN  [ip \in {r.ip : r \in kept} |->
           LET r == CHOOSE x \in kept : x.ip = ip
           IN  [HeardFrom EXCEPT !.liveness = "Answered", !.mac = r.mac, !.vendor = lookup_vendor(r.mac)]]

\* The cache remembers a host: nothing has answered yet.
Seed(rows) ==
    LET kept == {r \in read_system_arp_table(rows) :
                   contains(Cidr, r.ip) /\ r.ip # Broadcast /\ r.mac.id # "broadcast"}
    IN  [ip \in {r.ip : r \in kept} |->
           LET r == CHOOSE x \in kept : x.ip = ip
           IN  [HeardFrom EXCEPT !.liveness = "Remembered", !.mac = r.mac, !.vendor = lookup_vendor(r.mac)]]

\* host_results with what is known of one address set.
With(map, ip, h) == [x \in DOMAIN map \cup {ip} |-> IF x = ip THEN h ELSE map[x]]

needs_echo(ip) == ip \notin DOMAIN hosts \/ hosts[ip].liveness # "Answered"

HostInit ==
    /\ SweepInit
    /\ binding \in Bindings /\ turn = "link" /\ todo = <<>> /\ hosts = <<>> /\ extra = {}
    /\ tally = [probed |-> {}, sent |-> 0, not_sent |-> 0] /\ reach = Unexamined
    /\ truth = [answered |-> {}, left |-> {}, echoed |-> {}, provoked |-> FALSE]

\* A step of the link sweep; when it is over its account of the network is merged.
LinkTurn ==
    /\ turn = "link" /\ stage # "done" /\ SweepNext
    /\ UNCHANGED hostVars

\* arp-liveness has ended, provoking the kernel unless a reply settled it, and its sweep is
\* gone; host-enrichment starts from what the cache holds by now.
StartHosts ==
    /\ turn = "link" /\ stage = "done"
    /\ \E rows \in Caches : hosts' = Seed(rows)
    /\ reach' = merge(reach, arp_reachability(outcome))
    /\ truth' = [truth EXCEPT !.answered = arp_reachability(outcome).responders,
                              !.provoked = resolve_sweep(outcome) = "Fallback"]
    /\ todo' = Hosts /\ turn' = "tcp"
    /\ sent' = <<>> /\ frames' = <<>> /\ found' = <<>> /\ outcome' = None
    /\ counts' = [candidates |-> 0, correlated |-> 0, rejected |-> 0]
    /\ UNCHANGED <<case, stage, binding, extra, tally>>

\* A task that panicked is passed over, and nothing is known of its host.
JoinLost ==
    /\ turn \in {"tcp", "echo"} /\ todo # <<>>
    /\ todo' = Tail(todo)
    /\ UNCHANGED <<linkVars, binding, turn, hosts, extra, tally, reach, truth>>

\* One host's TCP sweep is joined: a response or a refusal is this run hearing from it.
JoinTcp ==
    /\ turn = "tcp" /\ todo # <<>>
    /\ \E answers \in [Ports -> Answers] :
         LET ip == Head(todo)
             statuses == [p \in Ports |-> probe_tcp_socket(binding, ip, answers[p])]
             scan == scan_host_tcp(statuses)
             old == IF ip \in DOMAIN hosts THEN hosts[ip] ELSE HeardFrom
         IN  /\ tally' = [probed |-> tally.probed \cup (IF scan.sent > 0 THEN {ip} ELSE {}),
                          sent |-> tally.sent + scan.sent,
                          not_sent |-> tally.not_sent + scan.not_sent]
             /\ hosts' = IF scan.alive
                         THEN With(hosts, ip, [old EXCEPT !.liveness = "Answered", !.ports = scan.open_ports])
                         ELSE IF ip \in DOMAIN hosts
                         THEN With(hosts, ip, [old EXCEPT !.ports = scan.open_ports]) ELSE hosts
             /\ truth' = [truth EXCEPT
                  !.answered = @ \cup (IF scan.alive THEN {ip} ELSE {}),
                  !.left = @ \cup (IF can_reach(binding, ip) /\ \E p \in Ports :
                                      answers[p] \in {"accepted", "ConnectionRefused", "TimedOut"}
                                   THEN {ip} ELSE {})]
    /\ todo' = Tail(todo)
    /\ UNCHANGED <<linkVars, binding, turn, extra, reach>>

StartEcho ==
    /\ turn = "tcp" /\ todo = <<>>
    /\ turn' = "echo" /\ todo' = SelectSeq(Hosts, needs_echo)
    /\ UNCHANGED <<linkVars, binding, hosts, extra, tally, reach, truth>>

\* One echo is joined: never sent, sent and unanswered, or answered (account_echo).
JoinEcho ==
    /\ turn = "echo" /\ todo # <<>>
    /\ \E got \in IF can_reach(binding, Head(todo)) THEN {"NotSent", "NoResponse", "Answered"}
                  ELSE {"NotSent"} :
         LET ip == Head(todo)
         IN  /\ tally' = IF got = "NotSent" THEN [tally EXCEPT !.not_sent = @ + 1]
                         ELSE [tally EXCEPT !.sent = @ + 1, !.probed = @ \cup {ip}]
             /\ hosts' = IF got # "Answered" THEN hosts
                         ELSE With(hosts, ip, IF ip \in DOMAIN hosts
                                              THEN [hosts[ip] EXCEPT !.liveness = "Answered"] ELSE HeardFrom)
             /\ truth' = IF got = "NotSent" THEN truth
                         ELSE [truth EXCEPT !.left = @ \cup {ip}, !.echoed = @ \cup {ip},
                                 !.answered = @ \cup (IF got = "Answered" THEN {ip} ELSE {})]
    /\ todo' = Tail(todo)
    /\ UNCHANGED <<linkVars, binding, turn, extra, reach>>

\* A name that says nothing, and the name a host ends with: each source in turn, the later
\* ones only where what is there is missing; a file server's own name always wins.
is_generic(n) == n \in {None, "?", "-", "mac", "unknown"}
named(h, n) ==
    LET mdns == IF is_generic(h.hostname) /\ n.mdns # None THEN n.mdns ELSE h.hostname
        ptr  == IF mdns = None /\ n.ptr # None THEN n.ptr ELSE mdns
        upnp == IF is_generic(ptr) /\ n.upnp # None THEN n.upnp ELSE ptr
        smb  == IF h.ports \cap {139, 445} # {} /\ n.smb # None THEN n.smb ELSE upnp
        tls  == IF h.ports \cap {443, 8443} # {} /\ smb \in {None, "?", "-"} /\ n.tls # None
                THEN n.tls ELSE smb
    IN  IF tls \in {None, "?"} /\ h.v6 # {} /\ n.mdns6 # None THEN n.mdns6 ELSE tls

\* The IPv6 addresses of the neighbour entries with a host's hardware address, and its names; a
\* device description replaces the vendor.
Matches(h, e) == h.mac # None /\ mac(h.mac) = mac(e.mac)
WithNeighbours(h, ndp) == [h EXCEPT !.v6 = {e.ip : e \in {x \in ndp : Matches(h, x)}}]
WithNames(h, n) == [h EXCEPT !.hostname = named(h, n), !.vendor = IF n.upnp = None THEN @ ELSE {"model"}]

\* Which server the reverse names are asked of: the gateway if it is in the network, else the
\* lowest host with DNS open, else the gateway anyway.
dns_server(gateway) ==
    LET dns == {ip \in DOMAIN hosts : 53 \in hosts[ip].ports}
    IN  IF gateway # None /\ contains(Cidr, gateway) THEN gateway
        ELSE IF dns # {} THEN Lowest(dns) ELSE gateway

\* Hosts without an IPv4 address are not among them.
fresh_responders(rs) == {ip \in DOMAIN rs : rs[ip].liveness = "Answered"}

\* Names and neighbour entries are gathered, the sweep is summed up, and the provider reports.
\* One of the sources knows a name.
Gather ==
    /\ turn = "echo" /\ todo = <<>>
    /\ \E source \in {"mdns", "ptr", "upnp", "smb", "tls", "mdns6"}, name \in {None, "mac", "host.local"},
          ndp \in SUBSET {[ip |-> <<254,128,0,0,0,0,0,0,0,0,0,0,0,0,0,7>>, mac |-> [id |-> "b", upper |-> TRUE]]},
          gateway \in {None, Hosts[1]} :
         LET n == [s \in {"mdns", "ptr", "upnp", "smb", "tls", "mdns6"} |->
                     IF s # source \/ (s = "ptr" /\ dns_server(gateway) = None) THEN None ELSE name]
         IN  /\ hosts' = [ip \in DOMAIN hosts |-> WithNames(WithNeighbours(hosts[ip], ndp), n)]
             /\ extra' = {[ip |-> e.ip, mac |-> e.mac, hostname |-> n.mdns6] :
                             e \in {x \in ndp : \A ip \in DOMAIN hosts : ~Matches(hosts[ip], x)}}
    /\ reach' = merge(reach, probed(fresh_responders(hosts), tally.probed, tally.not_sent))
    /\ turn' = "done"
    /\ UNCHANGED <<linkVars, binding, todo, tally, truth>>

\* host-enrichment's evidence: the hardware address is the identity where there is one.
NameAndVendor(d, hostname, vendor) ==
    Says(IF hostname = "host.local" THEN "Mdns" ELSE "UnicastDns", "Observed",
         When(hostname # None, {DeviceHostname(d, hostname)}))
    \cup Says("ArpCache", "Observed", {DeviceVendor(d, v) : v \in vendor})
host_evidence ==
    (UNION {LET h == hosts[ip]
                d == IF h.mac # None THEN mac(h.mac) ELSE Address(ip)
                how == IF h.mac # None THEN "ArpCache" ELSE IF h.ports # {} THEN "TcpProbe" ELSE "IcmpProbe"
            IN  Says(how, "Observed", {DeviceAddress(d, ip)})
                \cup Says("NdpCache", "Observed", {DeviceAddress(d, a) : a \in h.v6})
                \cup NameAndVendor(d, h.hostname, h.vendor)
            : ip \in DOMAIN hosts})
    \cup (UNION {Says("NdpCache", "Observed", {DeviceAddress(mac(e.mac), e.ip)})
                 \cup NameAndVendor(mac(e.mac), e.hostname, lookup_vendor(e.mac)) : e \in extra})

HostDone == turn = "done" /\ UNCHANGED sweepVars
HostNext == LinkTurn \/ StartHosts \/ JoinTcp \/ JoinLost \/ StartEcho \/ JoinEcho \/ Gather \/ HostDone
HostSpec == HostInit /\ [][HostNext]_sweepVars

-----------------------------------------------------------------------------
\* A network is called reachable exactly when something in it answered during this run, to a
\* raw ARP request, a connect or an echo, and never because the neighbour cache remembers it;
\* what is listed as probed includes all that answered, and no host is put down to a connect
\* that was not answered (NetworkReachability.responders: "Never
\* a neighbour-cache entry"; fresh_responders, arp_reachability).
ReachableMeansAnswered ==
    turn = "done" =>
        /\ reach.responders = truth.answered
        /\ truth.answered \cup truth.left \subseteq reach.probed
        /\ state(reach) = "Reachable" <=> truth.answered # {}
        /\ on_link(case) # <<>> /\ ~truth.provoked => truth.answered # {}
        /\ \A e \in host_evidence : e.source = "TcpProbe" => e.fact.fields.address \in truth.answered
=============================================================================
