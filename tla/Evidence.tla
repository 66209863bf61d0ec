------------------------------ MODULE Evidence ------------------------------
(* What every provider speaks (topology/evidence.rs, net/interface.rs):        *)
(* addresses and prefixes, device keys, facts, and a fact with where it came   *)
(* from.  An address is the sequence of its octets, four or sixteen of them;   *)
(* names, vendors and free text are values nothing looks into.                 *)
EXTENDS Integers, Sequences, FiniteSets

CONSTANTS None, Refused

is_v4(a) == Len(a) = 4
is_unspecified(a) == \A i \in DOMAIN a : a[i] = 0
is_loopback(a) == IF is_v4(a) THEN a[1] = 127
                  ELSE a[16] = 1 /\ \A i \in 1..15 : a[i] = 0
is_broadcast(a) == is_v4(a) /\ \A i \in DOMAIN a : a[i] = 255
is_multicast(a) == IF is_v4(a) THEN a[1] \in 224..239 ELSE a[1] = 255
is_link_local(a) == IF is_v4(a) THEN a[1] = 169 /\ a[2] = 254
                    ELSE a[1] = 254 /\ a[2] \in 128..191

\* The octets of a mask of `len` ones, and an address with what is past them cleared.
Bits(len, i) == IF len >= 8 * i THEN 8 ELSE IF len <= 8 * (i - 1) THEN 0 ELSE len - 8 * (i - 1)
MaskOf(width, len) == [i \in 1..width |-> 256 - 2^(8 - Bits(len, i))]
trunc(a, len) ==
    [i \in DOMAIN a |-> LET low == 2^(8 - Bits(len, i)) IN a[i] - (a[i] % low)]
Net(a, len) == [addr |-> trunc(a, len), len |-> len]
contains(net, a) == Len(net.addr) = Len(a) /\ trunc(a, net.len) = net.addr

\* The length of the run of ones a mask is, None when it is not one.
Masks == [width \in {4, 16} |-> [n \in 0..(8 * width) |-> MaskOf(width, n)]]
contiguous_prefix_len(mask) ==
    LET lens == {n \in 0..(8 * Len(mask)) : Masks[Len(mask)][n] = mask}
    IN  IF lens = {} THEN None ELSE CHOOSE n \in lens : TRUE

-----------------------------------------------------------------------------
\* Device keys.  A hardware address is written in either case and kept in one.

mac(raw) == [by |-> "mac", mac |-> [raw EXCEPT !.upper = FALSE]]
Address(a) == [by |-> "address", address |-> a]
requires_zone(a) == Len(a) = 16 /\ (is_link_local(a) \/ (a[1] = 255 /\ a[2] % 16 = 2))
scoped_address(a, zone) ==
    IF requires_zone(a) /\ zone # None
    THEN [by |-> "scoped_address", address |-> a, zone |-> zone] ELSE Address(a)

-----------------------------------------------------------------------------
\* Facts, by kind and named fields, and evidence: a fact from a source, with a weight.

Fact(kind, fields) == [kind |-> kind, fields |-> fields]
Network(p) == Fact("Network", [prefix |-> p])
Vlan(id) == Fact("Vlan", [id |-> id])
VlanNetwork(id, p) == Fact("VlanNetwork", [vlan |-> id, network |-> p])
BridgeLink(bridge, root, port) ==
    Fact("BridgeLink", [bridge_id |-> bridge, root_id |-> root, port |-> port])
InterfaceNetwork(i, p) == Fact("InterfaceNetwork", [interface |-> i, prefix |-> p])
DeviceAddress(d, a) == Fact("DeviceAddress", [device |-> d, address |-> a])
DeviceHostname(d, n) == Fact("DeviceHostname", [device |-> d, hostname |-> n])
DeviceVendor(d, v) == Fact("DeviceVendor", [device |-> d, vendor |-> v])
\* Free text, by what it is about: nothing looks into the words.
Text(what, of) == [what |-> what, of |-> of]
DeviceDescription(d, t) == Fact("DeviceDescription", [device |-> d, text |-> t])
Signal(name) == [name |-> name]
LinkLayerCapability(label) == [name |-> "LinkLayerCapability", label |-> label]
DeviceRoleSignal(d, s) == Fact("DeviceRoleSignal", [device |-> d, signal |-> s])
DeviceCapability(d, c) ==
    Fact("DeviceCapability", [device |-> d, capability |-> c, detail |-> "text"])
GatewayFor(d, p) == Fact("GatewayFor", [device |-> d, network |-> p])
AttachedTo(d, p) == Fact("AttachedTo", [device |-> d, network |-> p])
RoutesTo(d, p, hop) == Fact("RoutesTo", [device |-> d, network |-> p, next_hop |-> hop])
ForwardsToward(d, to, n, prev) ==
    Fact("ForwardsToward", [device |-> d, toward |-> to, distance |-> n, previous |-> prev])
Service(a, port, proto) ==
    Fact("Service", [address |-> a, port |-> port, protocol |-> proto, detail |-> "text"])
ResolvedAs(n, a) == Fact("ResolvedAs", [name |-> n, address |-> a])

Says(source, confidence, facts) ==
    {[fact |-> f, source |-> source, confidence |-> confidence] : f \in facts}
Facts(evidence) == {e.fact : e \in evidence}
When(condition, set) == IF condition THEN set ELSE {}
=============================================================================
