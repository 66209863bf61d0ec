----------------------------- MODULE SnmpHarvest -----------------------------
(* The SNMPv2c client (probes/snmp.rs, probes/inet_route.rs): one validated    *)
(* request, the bounded GETNEXT walk of a table, and the harvest that reads a  *)
(* device's scalars and its four tables in turn.  The agent answers from a MIB *)
(* that does not change, may lose any answer, may answer with an error, and    *)
(* may lie a bounded number of times.  An OID is a sequence of numbers under   *)
(* the number that tells the tables apart; a value is what its tag makes it.   *)
EXTENDS Evidence, FiniteSetsExt

CONSTANTS
    Mibs,          \* the MIBs an agent may serve: <<oid, value>> in the order of the OIDs
    MAX_STEPS,     \* 512: requests one walk may send
    TOTAL_BUDGET,  \* 20 seconds, in clock ticks
    TIMEOUT,       \* the longest one request waits, in clock ticks
    MaxLies        \* answers that are not what the MIB holds

ASSUME HarvestAssumption ==
    /\ MAX_STEPS \in Nat /\ TOTAL_BUDGET \in Nat /\ TIMEOUT \in Nat /\ MaxLies \in Nat
    /\ None \notin BOOLEAN

VARIABLES
    mib,     \* what the agent serves
    stage,   \* the question the harvest is on
    walk,    \* the walk in progress: [root, current, rows, steps, spent]
    info,    \* SnmpDeviceInfo and the inet rows beside it
    lies     \* lies told so far

vars == <<mib, stage, walk, info, lies>>

-----------------------------------------------------------------------------
\* Values and OIDs.

as_str(value) == IF value.kind \in {"text", "mac", "ip", "int"} THEN value ELSE None
as_ipv4(value) == IF value.kind = "ip" THEN value.v ELSE None
ZeroMac == [id |-> 0, upper |-> FALSE]
as_mac(value) == IF value.kind = "mac" THEN value.v ELSE None
as_integer(value) == IF value.kind = "int" THEN value.v ELSE None

starts_with(oid, prefix) ==
    Len(oid) >= Len(prefix) /\ SubSeq(oid, 1, Len(prefix)) = prefix

\* The derived order of Oid: lexicographic, a prefix before what extends it.
OidLess(a, b) ==
    \E i \in 1..Len(b) :
        /\ \A j \in 1..(i - 1) : j <= Len(a) /\ a[j] = b[j]
        /\ i > Len(a) \/ a[i] < b[i]

\* What an agent may serve, external: instances in the order of their OIDs, each with a value.
\* A table itself has none.
IsMib(m) ==
    /\ Len(m) \in Nat /\ DOMAIN m = 1..Len(m)
    /\ \A i \in DOMAIN m :
         /\ m[i][1] \in Seq(Nat) /\ m[i][1] # <<>>
         /\ m[i][1] \notin {<<20>>, <<21>>, <<22>>, <<24>>}
         /\ m[i][2].kind \notin {"absent", "endOfMibView"}
    /\ \A i, j \in DOMAIN m : i < j => OidLess(m[i][1], m[j][1])

ASSUME MibAssumption == \A m \in Mibs : IsMib(m)

\* The answers to one request.  A varbind is <<oid, value>>; what snmp_request checks before
\* the varbinds is one field, because every failure of it has the same outcome.
Reply(status, varbinds) == [genuine |-> TRUE, error_status |-> status, varbinds |-> varbinds]

\* snmp_request: the source, size, decoding, version, community, PDU type and request id are
\* right or nothing is returned; then the number of varbinds, and for a GET their OID.  A
\* datagram from elsewhere is skipped and leaves no trace.
snmp_request(pdu, oid, reply) ==
    LET answered == reply.error_status = 0
    IN  IF ~reply.genuine \/ (answered /\ Len(reply.varbinds) # 1)
           \/ (pdu = "Get" /\ answered /\ reply.varbinds[1][1] # oid)
        THEN None ELSE reply

\* What an agent serving m answers, external: a GET is the value or noSuchInstance, a GETNEXT
\* the least OID after the one asked.
Served(m, pdu, oid) ==
    LET from == {i \in DOMAIN m : IF pdu = "Get" THEN m[i][1] = oid ELSE OidLess(oid, m[i][1])}
    IN  Reply(0, << IF from # {} THEN m[Min(from)]
                    ELSE <<oid, [kind |-> IF pdu = "Get" THEN "absent" ELSE "endOfMibView"]>> >>)

\* The same agent refusing, answering late or not at all.
Unserved(oid) ==
    {Reply(2, << <<oid, [kind |-> "null"]>> >>), Reply(5, <<>>),
     [genuine |-> FALSE, error_status |-> 0, varbinds |-> <<>>]}

\* A value for any OID of the table asked, an answer with no varbind, and one that says the
\* table ends here.
Lies(m, oid) ==
    {Reply(0, << <<o, [kind |-> "int", v |-> 1]>> >>) :
        o \in {oid} \cup {m[i][1] : i \in {j \in DOMAIN m : m[j][1][1] = oid[1]}}}
    \cup {Reply(0, <<>>), Reply(0, << <<oid, [kind |-> "absent"]>> >>)}

-----------------------------------------------------------------------------
\* The walk.

NewWalk(root) == [root |-> root, current |-> root, rows |-> <<>>, steps |-> 0, spent |-> 0]

\* Fault: a request may wait its whole timeout whatever the walk has left.
RequestTimeout_whole(w) == TIMEOUT

\* The time left to a request: never more than what is left to the walk.
RequestTimeout(w) ==
    IF TIMEOUT < TOTAL_BUDGET - w.spent THEN TIMEOUT ELSE TOTAL_BUDGET - w.spent

\* Fault: an answer that repeats the OID is taken as the end of the table.
WalkEnd_repeats(w, message) ==
    IF message = None \/ message.error_status # 0 THEN "LeftSubtree"
    ELSE IF message.varbinds[1][2].kind \in {"endOfMibView", "absent"} THEN "EndOfMibView"
    ELSE IF starts_with(message.varbinds[1][1], w.root) THEN "advance" ELSE "LeftSubtree"

\* snmp_walk_target, one turn of the loop after a message: how the walk ends, or None.
WalkEnd(w, message) ==
    IF message = None THEN "Invalid"
    ELSE IF message.error_status # 0 THEN "AgentError"
    ELSE LET next == message.varbinds[1][1]
             value == message.varbinds[1][2]
         IN  CASE value.kind = "endOfMibView" -> "EndOfMibView"
               [] value.kind = "absent" -> "LeftSubtree"
               [] OTHER -> IF ~starts_with(next, w.root) THEN "LeftSubtree"
                           ELSE IF ~OidLess(w.current, next) THEN "OidDidNotAdvance"
                           ELSE "advance"

Advanced(w, message, elapsed) ==
    [w EXCEPT !.current = message.varbinds[1][1], !.rows = Append(@, message.varbinds[1]),
              !.steps = @ + 1, !.spent = @ + elapsed]

complete(end) == end \in {"EndOfMibView", "LeftSubtree"}

-----------------------------------------------------------------------------
\* Rows assembled by their index.

KeyOf(oid) == SubSeq(oid, 3, Len(oid))
Keys(rows) == {KeyOf(rows[i][1]) : i \in {j \in DOMAIN rows : Len(rows[j][1]) > 2}}

\* The value of one column of one index, None when the walk did not return it.
Cell(rows, column, key) ==
    LET at == {i \in DOMAIN rows : Len(rows[i][1]) > 2
                                   /\ rows[i][1][2] = column /\ KeyOf(rows[i][1]) = key}
    IN  IF at = {} THEN [kind |-> "null"] ELSE rows[CHOOSE i \in at : \A j \in at : j <= i][2]

arp_cache(rows) ==
    {entry \in {[ip |-> as_ipv4(Cell(rows, 3, k)), mac |-> as_mac(Cell(rows, 2, k)),
                 if_index |-> k[1]] : k \in Keys(rows)} :
        /\ entry.ip # None /\ entry.mac \notin {None, ZeroMac}
        /\ ~is_loopback(entry.ip) /\ ~is_broadcast(entry.ip)}

routes(rows) ==
    {route \in {[dest |-> as_ipv4(Cell(rows, 1, k)), mask |-> as_ipv4(Cell(rows, 11, k)),
                 next_hop |-> as_ipv4(Cell(rows, 7, k)),
                 route_type |-> as_integer(Cell(rows, 8, k))] : k \in Keys(rows)} :
        /\ route.dest # None /\ route.mask # None /\ route.next_hop # None
        /\ ~is_loopback(route.dest)}

usable(route) == route.route_type # 2
direct(route) == route.route_type = 3

local_ips(rows) ==
    {addr \in {[ip |-> as_ipv4(Cell(rows, 1, k)), mask |-> as_ipv4(Cell(rows, 3, k))] :
                 k \in Keys(rows)} :
        addr.ip # None /\ addr.mask # None /\ ~is_loopback(addr.ip)}

\* An address of an index: its family, its length and its octets, exactly; `at` is the first
\* position not read.
address_len == <<0, 4, 16, 8, 20>>
max_prefix_len == <<0, 32, 128, 32, 128>>
zoned == {3, 4}
read_address(subids, at) ==
    IF at + 1 > Len(subids) \/ subids[at] \notin 0..4 THEN None
    ELSE LET len == address_len[subids[at] + 1]
         IN  IF subids[at + 1] # len \/ at + 1 + len > Len(subids)
                \/ \E i \in 1..len : subids[at + 1 + i] > 255
             THEN None
             ELSE [family |-> subids[at], octets |-> SubSeq(subids, at + 2, at + 1 + len),
                   next |-> at + 2 + len]

\* parse_index: destination, prefix length, policy, next hop, and nothing after it.
parse_index(subids) ==
    LET dst == read_address(subids, 1)
    IN  IF dst = None THEN None
        ELSE IF dst.next + 1 > Len(subids) THEN None
        ELSE LET prefix_len == subids[dst.next]
                 hop_at == dst.next + 2 + subids[dst.next + 1]
                 hop == read_address(subids, hop_at)
             IN  IF prefix_len > max_prefix_len[dst.family + 1] \/ hop_at > Len(subids)
                 THEN None
                 ELSE IF hop = None THEN None
                 ELSE IF hop.next # Len(subids) + 1 THEN None
                 ELSE [destination |-> dst, prefix_len |-> prefix_len, next_hop |-> hop]

\* A column that decides promotion is missing, valid or unreadable; the valid ones are positive.
Missing == 0
Invalid == -1
Column(value, valid) ==
    CASE value.kind = "null" -> Missing
      [] value.kind = "int" -> IF value.v \in valid THEN value.v ELSE Invalid
      [] OTHER -> Invalid

inet_routes(rows) ==
    {[index |-> k, if_index |-> as_integer(Cell(rows, 7, k)),
      route_type |-> Column(Cell(rows, 8, k), 1..5), status |-> Column(Cell(rows, 17, k), 1..6)] :
       k \in {key \in Keys(rows) : parse_index(key) # None}}

\* Fault: a row is in force unless it says otherwise.
active_unless_stated(route) == route.status \in {Missing, 1}

active(route) == route.status = 1
discards(route) == route.route_type \in {2, 5}
usable_next_hop(route) ==
    LET hop == parse_index(route.index).next_hop
    IN  /\ hop.family \notin zoned \cup {0}
        /\ \E i \in DOMAIN hop.octets : hop.octets[i] # 0

-----------------------------------------------------------------------------
\* The harvest.

Tables == <<22, 21, 20, 24>>
ScalarOid == [sysDescr |-> <<1>>, sysName |-> <<2>>, ipForwarding |-> <<3>>]

EmptyInfo ==
    [sys_name |-> None, forwarding |-> None, table_status |-> <<>>, arp_cache |-> {}, routes |-> {},
     local_ips |-> {}, inet_routes |-> {}]

Init ==
    /\ mib \in Mibs
    /\ stage = "sysDescr"
    /\ walk = NewWalk(<<>>)
    /\ info = EmptyInfo
    /\ lies = 0

\* The replies the agent may send: what it serves, a refusal, or a lie.
Replies(pdu, oid, lie) ==
    IF lie THEN Lies(mib, oid) ELSE {Served(mib, pdu, oid)} \cup Unserved(oid)
Messages(pdu, oid, lie) == {snmp_request(pdu, oid, reply) : reply \in Replies(pdu, oid, lie)}
Told(lie) == lie => lies < MaxLies
Counted(lie) == lies' = IF lie THEN lies + 1 ELSE lies

FirstValue(message) ==
    IF message = None \/ message.varbinds = <<>> THEN [kind |-> "null"]
    ELSE message.varbinds[1][2]

\* harvest_snmp_target, its three GETs.  Only the first can end the harvest, and its
\* text is used for nothing.
GetScalar(lie) ==
    /\ stage \in DOMAIN ScalarOid /\ Told(lie) /\ Counted(lie)
    /\ UNCHANGED mib
    /\ \E message \in Messages("Get", ScalarOid[stage], lie) : \E value \in {FirstValue(message)} :
            CASE stage = "sysDescr" ->
                  /\ stage' = IF message = None THEN "none"
                              ELSE IF message.varbinds = <<>> THEN "none" ELSE "sysName"
                  /\ UNCHANGED <<info, walk>>
             [] stage = "sysName" ->
                  /\ stage' = "ipForwarding" /\ UNCHANGED walk
                  /\ info' = [info EXCEPT !.sys_name = as_str(value)]
             [] stage = "ipForwarding" ->
                  /\ stage' = "walk"
                  /\ info' = [info EXCEPT !.forwarding =
                                IF value.kind = "int" /\ value.v \in {1, 2}
                                THEN value.v = 1 ELSE None]
                  /\ walk' = NewWalk(<<Tables[1]>>)

\* Fault: a table that was not read to its end is asked for again.
FinishTable_retried(end, rows) ==
    /\ walk' = NewWalk(walk.root) /\ info' = info
    /\ stage' = IF complete(end) THEN "done" ELSE "walk"

\* walk_table and the assembly that follows it: the reason the walk stopped is recorded under
\* the table's name, its rows become entries, and the next table begins.
FinishTable(end, rows) ==
    LET table == walk.root[1]
        done == Len(info.table_status) + 1
        status == Append(info.table_status,
                         [table |-> table, rows |-> Len(rows), complete |-> complete(end)])
    IN  /\ info' = CASE table = 22 -> [info EXCEPT !.table_status = status, !.arp_cache = arp_cache(rows)]
                     [] table = 21 -> [info EXCEPT !.table_status = status, !.routes = routes(rows)]
                     [] table = 20 -> [info EXCEPT !.table_status = status, !.local_ips = local_ips(rows)]
                     [] table = 24 -> [info EXCEPT !.table_status = status, !.inet_routes = inet_routes(rows)]
        /\ stage' = IF done = Len(Tables) THEN "done" ELSE "walk"
        /\ walk' = IF done = Len(Tables) THEN NewWalk(<<>>) ELSE NewWalk(<<Tables[done + 1]>>)

\* The bounds, looked at before each request.
Bounded ==
    /\ stage = "walk"
    /\ walk.steps >= MAX_STEPS \/ walk.spent >= TOTAL_BUDGET
    /\ FinishTable("Bounded", walk.rows)
    /\ UNCHANGED <<mib, lies>>

\* One GETNEXT and what the walk makes of its answer.
WalkStep(lie) ==
    /\ stage = "walk" /\ Told(lie) /\ Counted(lie)
    /\ walk.steps < MAX_STEPS /\ walk.spent < TOTAL_BUDGET
    /\ UNCHANGED mib
    /\ \E message \in Messages("GetNext", walk.current, lie) :
         \E end \in {WalkEnd(walk, message)} :
             IF end = "advance"
             THEN /\ \E elapsed \in 0..RequestTimeout(walk) :
                        walk' = Advanced(walk, message, elapsed)
                  /\ UNCHANGED <<stage, info>>
             ELSE FinishTable(end, walk.rows)

\* The harvest has returned.
Done == stage \in {"none", "done"} /\ UNCHANGED vars

Next == \/ \E lie \in BOOLEAN : GetScalar(lie) \/ WalkStep(lie)
        \/ Bounded
        \/ Done

\* Every request ends by its timeout, so the harvest is always scheduled again.
Spec == Init /\ [][Next]_vars /\ WF_vars(Next)

-----------------------------------------------------------------------------
\* Properties.

\* Whatever the agent answers, a walk stays in its subtree in strictly increasing order,
\* sends at most max_steps requests, and never waits past its total budget (snmp_walk_target:
\* "a per-request timeout larger than the remaining budget let one slow step consume a
\* deadline the walk had already spent").
WalkBounded ==
    /\ walk.steps <= MAX_STEPS /\ walk.spent <= TOTAL_BUDGET
    /\ \A i \in DOMAIN walk.rows :
         /\ starts_with(walk.rows[i][1], walk.root)
         /\ i > 1 => OidLess(walk.rows[i - 1][1], walk.rows[i][1])

\* The instances below a root stand together in a MIB; there are n of them.
HasInstances(m, root, n) ==
    \E s \in 0..Len(m) : {j \in DOMAIN m : starts_with(m[j][1], root)} = (s + 1)..(s + n)

\* A table recorded as complete is the whole table: with no lie told, its rows are all the
\* rows of that table in the MIB, however many answers were lost, late or errors
\* (walk_table: "discarding that distinction let a partial answer look complete").
CompleteIsWhole ==
    lies = 0 =>
        \A i \in DOMAIN info.table_status :
            LET status == info.table_status[i]
            IN  status.complete =>
                  HasInstances(mib, <<status.table>>, status.rows)

\* The harvest returns, whatever is answered or lost.
HarvestEnds == <>(stage \in {"none", "done"})
=============================================================================
