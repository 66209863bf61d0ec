------------------------------ MODULE LinkSweep ------------------------------
(* Asking the attached link who is on it (probes/arp.rs, probes/ndp.rs,        *)
(* net/linklayer.rs, probes/attempt.rs and the arp-liveness and ndp-liveness   *)
(* providers): requests go out one by one until the channel refuses one, then  *)
(* whatever the link carries is read until the deadline or a channel fault,    *)
(* and only a frame that answers a request that left confirms anything.        *)
EXTENDS Evidence, Functions

CONSTANTS
    OurMac,       \* the hardware address this interface sends from
    OurAddress,   \* the IPv4 address it asks from
    ScopeIndex,   \* the kernel index of this interface
    Zone,         \* its name, the vantage
    Frames,       \* the frames the link may carry, per protocol
    Cases,        \* what there is to ask: records of the protocol, the targets, the attached network
    MaxFrames     \* frames read in one sweep

\* A sweep asks in one of the two protocols.
ASSUME SweepAssumption == \A c \in Cases : c.proto \in {"arp", "ndp"}

VARIABLES
    case,     \* the sweep under way
    stage,    \* "start", "send", "read", "done"
    sent,     \* queries the channel accepted, as their targets, in order
    frames,   \* frames read so far
    found,    \* validated replies: distinct (address, hardware address), in arrival order
    counts,   \* [candidates, correlated, rejected]
    outcome   \* AttemptOutcome, None while running

linkVars == <<case, stage, sent, frames, found, counts, outcome>>

\* AttemptOutcome: only Answered carries a result.
Attempt(is) == [is |-> is]
transmitted(o) == o.is \in {"NoResponse", "InvalidResponse", "Answered"}

\* A hardware address a station can have: neither a group address nor zero.
Station(m) == m.id \notin {"group", "broadcast", "zero"}

\* Addresses worth asking about: on the attached prefix and not our own; for neighbour
\* discovery link-local, or on a prefix named as on-link.
on_link(c) ==
    SelectSeq(c.targets,
              LAMBDA a : IF c.proto = "arp" THEN contains(c.network, a) /\ a # OurAddress
                         ELSE is_link_local(a) \/ (c.network # None /\ contains(c.network, a)))

\* An ARP reply to this station, whatever it is about, tagged or not, whole or cut short.
is_candidate_reply(f) == f.dst = OurMac /\ f.arp /\ f.op = "reply"

\* The answer to a query for `target`, if it is one: every field checked against what was asked.
parse_arp_reply(f, target) ==
    When(f.dst = OurMac /\ f.arp /\ f.whole /\ f.op = "reply" /\ f.sender_ip = target
         /\ f.target_ip = OurAddress /\ f.target_mac = OurMac /\ Station(f.sender_mac),
         {[address |-> f.sender_ip, mac |-> f.sender_mac, vlan |-> f.vlan]})

\* A neighbour advertisement that reached this interface about an address we solicited.
is_candidate_advertisement(f, asked) ==
    f.arrived_on = ScopeIndex /\ f.advertisement /\ f.target \in asked

\* The answer to a solicitation for `target`: undamaged, from this link, solicited, with
\* options that can be walked; the last station address among them is its hardware address.
parse_advertisement(f, target) ==
    LET macs == SelectSeq(f.target_macs, Station)
    IN  When(f.hop_limit = 255 /\ f.advertisement /\ f.checksum_ok /\ f.target = target
             /\ f.solicited /\ f.options_whole,
             {[address |-> f.target, mac |-> IF macs = <<>> THEN None ELSE macs[Len(macs)],
               router |-> f.router]})

Candidate(f) == IF case.proto = "arp" THEN is_candidate_reply(f)
                ELSE is_candidate_advertisement(f, Range(sent))
Parse(f, target) == IF case.proto = "arp" THEN parse_arp_reply(f, target)
                    ELSE parse_advertisement(f, target)

\* Fault: a frame is held against every address there was to ask about.
Correlated_unsent(f) == UNION {Parse(f, t) : t \in Range(on_link(case))}

\* What a frame says about the queries that left, and nothing about the ones that did not.  A
\* frame is about one address, so there is at most one.
Correlated(f) == UNION {Parse(f, t) : t \in Range(sent)}

\* What of it no reply of the same station for the same address has said before.
Unseen(f) == {r \in Correlated(f) :
                \A i \in DOMAIN found : found[i].address # r.address \/ found[i].mac # r.mac}

SweepInit ==
    /\ case \in Cases /\ stage = "start" /\ sent = <<>> /\ frames = <<>> /\ found = <<>>
    /\ counts = [candidates |-> 0, correlated |-> 0, rejected |-> 0] /\ outcome = None

\* The sweep begins: nothing to ask, no hardware address, no channel, or a channel.
Open ==
    /\ stage = "start"
    /\ IF on_link(case) = <<>> THEN stage' = "done" /\ outcome' = Attempt("NotApplicable")
       ELSE \/ stage' = "done" /\ outcome' \in {Attempt("NotSent"), Attempt("Unavailable")}
            \/ stage' = "send" /\ UNCHANGED outcome
    /\ UNCHANGED <<case, sent, frames, found, counts>>

\* The next request is accepted, or refused: the first refusal ends the sending.
SendRequest ==
    /\ stage = "send"
    /\ \/ /\ sent' = Append(sent, on_link(case)[Len(sent) + 1])
          /\ stage' = IF Len(sent') = Len(on_link(case)) THEN "read" ELSE "send"
          /\ UNCHANGED outcome
       \/ /\ IF sent = <<>> THEN stage' = "done" /\ outcome' = Attempt("NotSent")
             ELSE stage' = "read" /\ UNCHANGED outcome
          /\ UNCHANGED sent
    /\ UNCHANGED <<case, frames, found, counts>>

\* One frame: counted once if it is a candidate, and held against what was sent.
ReadFrame(f) ==
    /\ stage = "read" /\ Len(frames) < MaxFrames
    /\ frames' = Append(frames, f)
    /\ IF case.proto = "ndp" /\ ~Candidate(f) THEN UNCHANGED <<found, counts>>
       ELSE /\ found' = IF Unseen(f) = {} THEN found ELSE Append(found, CHOOSE r \in Unseen(f) : TRUE)
            /\ counts' = [candidates |-> counts.candidates + (IF Candidate(f) THEN 1 ELSE 0),
                          correlated |-> counts.correlated + Cardinality(Correlated(f)),
                          rejected |-> counts.rejected
                                       + (IF Correlated(f) = {} /\ Candidate(f) THEN 1 ELSE 0)]
    /\ UNCHANGED <<case, stage, sent, outcome>>

\* What the sweep amounted to.  A faulted ARP channel that heard no answer did not hear the link.
Outcome(fault) ==
    IF found # <<>>
    THEN [is |-> "Answered",
          result |-> [asked |-> sent, replies |-> found,
                      rejected |-> counts.candidates - counts.correlated]]
    ELSE IF fault THEN Attempt("NotSent")
    ELSE IF counts.rejected > 0
    THEN [is |-> "InvalidResponse", rejected |-> counts.rejected]
    ELSE Attempt("NoResponse")

\* The read ends at the deadline or, for ARP, at a channel fault; a lost task sent nothing.
EndRead ==
    /\ stage = "read" /\ stage' = "done"
    /\ \/ \E fault \in (IF case.proto = "arp" THEN BOOLEAN ELSE {FALSE}) : outcome' = Outcome(fault)
       \/ outcome' = Attempt("NotSent")
    /\ UNCHANGED <<case, sent, frames, found, counts>>

SweepDone == stage = "done" /\ UNCHANGED linkVars
SweepNext == Open \/ SendRequest \/ (\E f \in Frames[case.proto] : ReadFrame(f)) \/ EndRead
LinkSpec == SweepInit /\ [][SweepNext]_linkVars

-----------------------------------------------------------------------------
\* What the providers say of a finished sweep.

\* Addresses asked and not answered, and addresses more than one station answered for.
unconfirmed(s) == {a \in Range(s.asked) : \A i \in DOMAIN s.replies : s.replies[i].address # a}
contested(s) == {s.replies[i].address : i \in {j \in DOMAIN s.replies :
                   \E k \in DOMAIN s.replies : k # j /\ s.replies[k].address = s.replies[j].address}}

\* Whether the kernel is provoked to ask again: only a validated reply settles the link.
resolve_sweep(o) == CASE o.is = "Answered" -> "Confirmed"
                      [] o.is = "NotApplicable" -> "Skip"
                      [] OTHER -> "Fallback"

\* The registry names a manufacturer for some addresses, or calls them randomised.
lookup_vendor(m) == IF m.id = "unlisted" THEN {} ELSE {"vendor"}

arp_evidence(s) ==
    UNION {LET r == s.replies[i]
           IN  Says("ArpProbe", "Observed",
                    {DeviceAddress(mac(r.mac), r.address)}
                    \cup {DeviceVendor(mac(r.mac), v) : v \in lookup_vendor(r.mac)}
                    \cup When(r.vlan # None, {Vlan(r.vlan)}))
           : i \in DOMAIN s.replies}

ndp_evidence(s) ==
    UNION {LET r == s.replies[i]
               d == IF r.mac = None THEN scoped_address(r.address, Zone) ELSE mac(r.mac)
           IN  Says("NdpProbe", "Observed",
                    {DeviceAddress(d, r.address)}
                    \cup When(r.mac # None, {DeviceVendor(d, v) : v \in lookup_vendor(r.mac)}))
               \cup Says("NdpProbe", "Advertised",
                         When(r.router, {DeviceRoleSignal(d, Signal("RouterAdvertisement"))}))
           : i \in DOMAIN s.replies}

LinkEvidence == IF outcome = None \/ outcome.is # "Answered" THEN {}
                ELSE IF case.proto = "arp" THEN arp_evidence(outcome.result)
                ELSE ndp_evidence(outcome.result)

-----------------------------------------------------------------------------
\* What a frame says of an address: a neighbour advertisement has to have reached this interface.
Heeded(f, a) == When(case.proto = "ndp" => Candidate(f), Parse(f, a))

\* A device is said to hold an address only when this run asked for that address and the very
\* station named answered it, and what was heard is accounted for frame by frame: a candidate
\* that answers no request that left is rejected exactly once, however many were asked and
\* however often the channel refused (sweep_liveness: "Only queries whose request actually
\* reached the wire may correlate a reply").
ConfirmedByAsking ==
    /\ \A e \in LinkEvidence : e.fact.kind = "DeviceAddress" =>
         /\ e.fact.fields.address \in Range(sent)
         /\ \E i \in DOMAIN frames : \E r \in Heeded(frames[i], e.fact.fields.address) :
              e.fact.fields.device = (IF case.proto = "ndp" /\ r.mac = None
                                      THEN scoped_address(r.address, Zone) ELSE mac(r.mac))
    /\ outcome # None /\ outcome.is = "Answered" =>
         /\ case.proto = "arp" => outcome.result.rejected =
              Cardinality({i \in DOMAIN frames : Candidate(frames[i])
                             /\ \A t \in Range(sent) : Parse(frames[i], t) = {}})
         /\ unconfirmed(outcome.result) =
              {a \in Range(sent) : \A i \in DOMAIN frames : Heeded(frames[i], a) = {}}
         /\ contested(outcome.result) =
              {a \in Range(sent) : \E i, j \in DOMAIN frames :
                 \E r \in Heeded(frames[i], a), q \in Heeded(frames[j], a) : r.mac # q.mac}
=============================================================================
