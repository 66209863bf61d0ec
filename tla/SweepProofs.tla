---------------------------- MODULE SweepProofs -----------------------------
(***************************************************************************)
(* Proofs about the active sweeps and the pass over the devices they find, *)
(* for every link, set of frames, list of hosts, cache, queue and order of *)
(* arrival.                                                                *)
(*                                                                         *)
(* That the link sweep confirms nothing it did not ask for (LinkSweep)     *)
(* needs that the replies kept and the frames read tell the same story     *)
(* after every frame, and that the two counters differ by the candidates   *)
(* that answered nothing.  That reachability is what answered (HostSweep)  *)
(* carries the same account through the TCP and the echo turn.             *)
(*                                                                         *)
(* What a lost task costs a pass (Interrogation) needs that what the pass  *)
(* holds is what the joined tasks had put together.                        *)
(***************************************************************************)
EXTENDS HostSweep, Interrogation, FiniteSetTheorems, TLAPS

\* A sequence, whatever its elements are.
IsSeq(s) == s \in Seq({s[i] : i \in DOMAIN s})

\* The empty sequence is one, and has no place.
LEMMA EmptyIsSeq == IsSeq(<<>>) /\ DOMAIN <<>> = {}
  BY DEF IsSeq

\* A sequence is empty exactly when it has no place.
LEMMA SeqPlaces ==
    ASSUME NEW s, IsSeq(s)
    PROVE  /\ DOMAIN s = 1..Len(s) /\ Len(s) \in Nat
           /\ s = <<>> <=> DOMAIN s = {}
  BY DEF IsSeq

\* Appending adds one place at the end and leaves the others as they were.
LEMMA AppendGrows ==
    ASSUME NEW s, NEW x, IsSeq(s)
    PROVE  LET longer == Append(s, x)
           IN  /\ IsSeq(longer)
               /\ Len(longer) = Len(s) + 1 /\ DOMAIN longer = 1..(Len(s) + 1)
               /\ \A i \in 1..Len(s) : longer[i] = s[i]
               /\ longer[Len(s) + 1] = x
  <1> DEFINE S == {s[i] : i \in DOMAIN s}
             T == S \cup {x}
             longer == Append(s, x)
  <1>1. s \in Seq(T) /\ x \in T
    BY DEF IsSeq
  <1>2. /\ longer \in Seq(T) /\ Len(longer) = Len(s) + 1 /\ DOMAIN longer = 1..(Len(s) + 1)
        /\ \A i \in 1..Len(s) : longer[i] = s[i]
        /\ longer[Len(s) + 1] = x
    BY <1>1
  <1>3. IsSeq(longer)
    BY <1>2 DEF IsSeq
  <1> QED BY <1>2, <1>3

-----------------------------------------------------------------------------
(* The link sweep.                                                          *)

\* What a frame that is heeded says about the queries that left.
Said(f) == When(case.proto = "ndp" => Candidate(f), Correlated(f))

\* The replies kept are what the frames said, each station and address once.
RepliesAreHeard ==
    /\ \A i \in DOMAIN found : \E k \in DOMAIN frames : found[i] \in Said(frames[k])
    /\ \A k \in DOMAIN frames : \A r \in Said(frames[k]) :
         \E i \in DOMAIN found : found[i].address = r.address /\ found[i].mac = r.mac
    /\ \A i, j \in DOMAIN found :
         found[i].address = found[j].address /\ found[i].mac = found[j].mac => i = j

\* Candidates that answered no request that left.
Passed == {i \in DOMAIN frames : Candidate(frames[i]) /\ Correlated(frames[i]) = {}}

CountsBalance ==
    /\ counts.candidates \in Nat /\ counts.correlated \in Nat
    /\ IsFiniteSet(Passed)
    /\ counts.candidates = counts.correlated + Cardinality(Passed)

\* An outcome that says somebody answered carries the replies; one that says there was nothing
\* to ask is right.
OutcomeStands ==
    /\ outcome.is = "Answered" =>
         /\ found # <<>>
         /\ outcome.result = [asked |-> sent, replies |-> found,
                              rejected |-> counts.candidates - counts.correlated]
    /\ outcome.is = "NotApplicable" => on_link(case) = <<>>

LinkInv ==
    /\ case \in Cases
    /\ IsSeq(frames) /\ IsSeq(found)
    /\ stage \in {"start", "send"} => frames = <<>> /\ found = <<>>
    /\ RepliesAreHeard /\ CountsBalance
    /\ outcome # None => stage = "done" /\ OutcomeStands

\* An answer is about the address it was held against, and a frame is about one address
\* (parse_arp_reply, parse_advertisement).
LEMMA OneAddress ==
    ASSUME NEW f, NEW t, NEW u, NEW r \in Parse(f, t), NEW q \in Parse(f, u)
    PROVE  t = u /\ r = q /\ r.address = t
  <1>1. CASE case.proto = "arp"
    BY <1>1 DEF Parse, parse_arp_reply, When
  <1>2. CASE case.proto # "arp"
    <2>1. \E advert : \A a : \A x \in parse_advertisement(f, a) : x = advert /\ a = f.target /\ x.address = a
      <3> DEFINE macs == SelectSeq(f.target_macs, Station)
                 advert == [address |-> f.target, mac |-> IF macs = <<>> THEN None ELSE macs[Len(macs)],
                          router |-> f.router]
      <3>1. \A a : \A x \in parse_advertisement(f, a) : x = advert /\ a = f.target
        BY Zenon DEF parse_advertisement, When
      <3>2. advert.address = f.target
        BY Zenon
      <3> HIDE DEF advert
      <3>3. \A a : \A x \in parse_advertisement(f, a) : x = advert /\ a = f.target /\ x.address = a
        BY <3>1, <3>2, Zenon
      <3> QED BY <3>3
    <2> QED BY <1>2, <2>1, Zenon DEF Parse
  <1> QED BY <1>1, <1>2, Zenon

\* A frame says at most one thing.
LEMMA SaysOne ==
    ASSUME NEW f
    PROVE  Correlated(f) = {} \/ \E r : Correlated(f) = {r}
  <1>1. ASSUME NEW r \in Correlated(f), NEW q \in Correlated(f) PROVE r = q
    <2>1. PICK t \in Range(sent) : r \in Parse(f, t)
      BY <1>1 DEF Correlated
    <2>2. PICK u \in Range(sent) : q \in Parse(f, u)
      BY <1>1 DEF Correlated
    <2> QED BY <2>1, <2>2, OneAddress
  <1> QED BY <1>1, Zenon

\* A frame that answers an ARP request is a candidate, whatever address it is about.
LEMMA AnswerIsCandidate ==
    ASSUME NEW f, NEW t, case.proto = "arp", Parse(f, t) # {}
    PROVE  Candidate(f)
  BY Zenon DEF Parse, parse_arp_reply, When, Candidate, is_candidate_reply

-----------------------------------------------------------------------------
\* A sweep that begins has heard nothing.
LEMMA LinkStarts == SweepInit => LinkInv
  <1> SUFFICES ASSUME SweepInit PROVE LinkInv
    BY Zenon
  <1>1. frames = <<>> /\ found = <<>> /\ outcome = None /\ counts.candidates = 0 /\ counts.correlated = 0
    BY Zenon DEF SweepInit
  <1>2. Passed = {}
    BY <1>1, EmptyIsSeq DEF Passed
  <1>3. CountsBalance
    BY <1>1, <1>2, FS_EmptySet DEF CountsBalance
  <1>4. RepliesAreHeard
    BY <1>1, EmptyIsSeq, Zenon DEF RepliesAreHeard
  <1> QED BY <1>1, <1>3, <1>4, EmptyIsSeq DEF LinkInv, SweepInit

\* What a frame says, and whether it is a candidate, depends on what there was to ask and on what
\* was sent, and on nothing the read changes.
LEMMA SaidIsFixed ==
    ASSUME UNCHANGED <<case, sent>>
    PROVE  \A f : /\ Candidate(f)' <=> Candidate(f)
                  /\ Correlated(f)' = Correlated(f)
                  /\ Said(f)' = Said(f)
  <1>1. \A f, t : Parse(f, t)' = Parse(f, t)
    BY Zenon DEF Parse
  <1>2. \A f : Candidate(f)' <=> Candidate(f)
    BY Zenon DEF Candidate
  <1>3. \A f : Correlated(f)' = Correlated(f)
    BY <1>1, Zenon DEF Correlated
  <1>4. \A f : Said(f)' = Said(f)
    BY <1>2, <1>3, Zenon DEF Said
  <1> QED BY <1>2, <1>3, <1>4, Zenon

\* A frame read keeps the account: what it says is kept unless it was kept before, and it is
\* counted as a candidate, as an answer, or not at all.
LEMMA ReadKeeps ==
    ASSUME LinkInv, NEW f, ReadFrame(f)
    PROVE  LinkInv' /\ stage' = "read"
  <1> DEFINE n == Len(frames) + 1
  <1>1. stage = "read" /\ stage' = "read" /\ UNCHANGED <<case, sent, outcome>>
    BY Zenon DEF ReadFrame
  <1>2. /\ IsSeq(frames') /\ DOMAIN frames = 1..Len(frames) /\ Len(frames) \in Nat
        /\ DOMAIN frames' = 1..n /\ frames'[n] = f /\ \A k \in 1..Len(frames) : frames'[k] = frames[k]
    BY AppendGrows, SeqPlaces DEF ReadFrame, LinkInv
  <1>3. n \notin DOMAIN frames /\ DOMAIN frames' = DOMAIN frames \cup {n}
        /\ \A k \in DOMAIN frames : frames'[k] = frames[k]
    BY <1>2
  <1> HIDE DEF n
  <1>4. CASE case.proto = "ndp" /\ ~Candidate(f)
    <2>1. UNCHANGED <<found, counts>>
      BY <1>4 DEF ReadFrame
    <2>2. Said(f) = {}
      BY <1>4 DEF Said, When
    <2>3. RepliesAreHeard'
      <3>1. \A x : Said(x)' = Said(x)
        BY <1>1, SaidIsFixed
      <3>2. \A k \in DOMAIN frames' : k # n => k \in DOMAIN frames /\ frames'[k] = frames[k]
        BY <1>3
      <3>3. \A i \in DOMAIN found' : \E k \in DOMAIN frames' : found'[i] \in Said(frames'[k])
        BY <1>3, <2>1 DEF LinkInv, RepliesAreHeard
      <3>4. \A k \in DOMAIN frames' : \A r \in Said(frames'[k]) :
              \E i \in DOMAIN found' : found'[i].address = r.address /\ found'[i].mac = r.mac
        BY <1>2, <2>1, <2>2, <3>2 DEF LinkInv, RepliesAreHeard
      <3>5. \A i, j \in DOMAIN found' :
              found'[i].address = found'[j].address /\ found'[i].mac = found'[j].mac => i = j
        BY <2>1 DEF LinkInv, RepliesAreHeard
      <3> QED BY <3>1, <3>3, <3>4, <3>5 DEF RepliesAreHeard
    <2>4. Passed' = Passed
      BY <1>1, <1>2, <1>3, <1>4, SaidIsFixed, ZenonT(40) DEF Passed
    <2>5. CountsBalance'
      BY <2>1, <2>4 DEF LinkInv, CountsBalance
    <2> QED BY <1>1, <1>2, <2>1, <2>3, <2>5, Zenon DEF LinkInv
  <1>5. CASE ~(case.proto = "ndp" /\ ~Candidate(f))
    <2>1. Said(f) = Correlated(f)
      BY <1>5 DEF Said, When
    <2>2. found' = IF Unseen(f) = {} THEN found ELSE Append(found, CHOOSE r \in Unseen(f) : TRUE)
      BY <1>5 DEF ReadFrame
    <2>3. IsSeq(found') /\ RepliesAreHeard'
      <3>1. CASE Unseen(f) = {}
        <4>1. found' = found
          BY <2>2, <3>1, Zenon
        <4>2. \A r \in Said(f) : \E i \in DOMAIN found : found[i].address = r.address /\ found[i].mac = r.mac
          BY <2>1, <3>1 DEF Unseen
        <4>3. \A x : Said(x)' = Said(x)
          BY <1>1, SaidIsFixed, Zenon
        <4>4. \A k \in DOMAIN frames' : k # n => k \in DOMAIN frames /\ frames'[k] = frames[k]
          BY <1>3, Zenon
        <4> QED BY <1>2, <1>3, <4>1, <4>2, <4>3, <4>4, SMTT(30) DEF LinkInv, RepliesAreHeard
      <3>2. CASE Unseen(f) # {}
        <4> DEFINE new == CHOOSE r \in Unseen(f) : TRUE
                   m == Len(found) + 1
        <4>1. new \in Unseen(f)
          BY <3>2, Zenon
        <4>2. found' = Append(found, new)
          BY <2>2, <3>2
        <4> HIDE DEF new
        <4>3. /\ IsSeq(found') /\ DOMAIN found = 1..Len(found) /\ Len(found) \in Nat
              /\ DOMAIN found' = 1..m /\ found'[m] = new /\ \A k \in 1..Len(found) : found'[k] = found[k]
          BY <4>2, AppendGrows, SeqPlaces DEF LinkInv
        <4>4. m \notin DOMAIN found /\ DOMAIN found' = DOMAIN found \cup {m}
              /\ \A k \in DOMAIN found : found'[k] = found[k]
          BY <4>3
        <4>5. Said(f) = {new}
          BY <2>1, <4>1, SaysOne, Zenon DEF Unseen
        <4>6. \A i \in DOMAIN found : found[i].address # new.address \/ found[i].mac # new.mac
          BY <4>1 DEF Unseen
        <4> HIDE DEF m
        <4>7. \A i \in DOMAIN found' : \E k \in DOMAIN frames' : found'[i] \in Said(frames'[k])
          <5> SUFFICES ASSUME NEW i \in DOMAIN found' PROVE \E k \in DOMAIN frames' : found'[i] \in Said(frames'[k])
            BY Zenon
          <5>1. CASE i = m
            BY <1>2, <1>3, <4>3, <4>5, <5>1, ZenonT(40)
          <5>2. CASE i # m
            BY <1>3, <4>4, <5>2 DEF LinkInv, RepliesAreHeard
          <5> QED BY <5>1, <5>2
        <4>8. \A k \in DOMAIN frames' : \A r \in Said(frames'[k]) :
                \E i \in DOMAIN found' : found'[i].address = r.address /\ found'[i].mac = r.mac
          <5> SUFFICES ASSUME NEW k \in DOMAIN frames', NEW r \in Said(frames'[k])
                       PROVE  \E i \in DOMAIN found' : found'[i].address = r.address /\ found'[i].mac = r.mac
            BY Zenon
          <5>1. CASE k = n
            BY <1>2, <4>3, <4>4, <4>5, <5>1, ZenonT(40)
          <5>2. CASE k # n
            BY <1>3, <4>4, <5>2 DEF LinkInv, RepliesAreHeard
          <5> QED BY <5>1, <5>2
        <4>9. \A i, j \in DOMAIN found' :
                found'[i].address = found'[j].address /\ found'[i].mac = found'[j].mac => i = j
          BY <4>3, <4>4, <4>6, ZenonT(40) DEF LinkInv, RepliesAreHeard
        <4> QED BY <1>1, <4>3, <4>7, <4>8, <4>9, SaidIsFixed DEF RepliesAreHeard
      <3> QED BY <3>1, <3>2
    <2>4. CountsBalance'
      <3>1. /\ counts'.candidates = counts.candidates + (IF Candidate(f) THEN 1 ELSE 0)
            /\ counts'.correlated = counts.correlated + Cardinality(Correlated(f))
        BY <1>5 DEF ReadFrame
      <3>2. CASE Correlated(f) = {} /\ Candidate(f)
        <4>1. Passed' = Passed \cup {n} /\ n \notin Passed
          BY <1>1, <1>2, <1>3, <3>2, SaidIsFixed, ZenonT(40) DEF Passed
        <4>2. IsFiniteSet(Passed') /\ Cardinality(Passed') = Cardinality(Passed) + 1
              /\ Cardinality(Passed) \in Nat
          BY <4>1, FS_AddElement, FS_CardinalityType DEF LinkInv, CountsBalance
        <4> QED BY <3>1, <3>2, <4>2, FS_EmptySet DEF LinkInv, CountsBalance
      <3>3. CASE Correlated(f) = {} /\ ~Candidate(f)
        <4>1. Passed' = Passed
          BY <1>1, <1>2, <1>3, <3>3, SaidIsFixed, Zenon DEF Passed
        <4> QED BY <3>1, <3>3, <4>1, FS_EmptySet DEF LinkInv, CountsBalance
      <3>4. CASE Correlated(f) # {}
        <4>1. Passed' = Passed
          BY <1>1, <1>2, <1>3, <3>4, SaidIsFixed, ZenonT(40) DEF Passed
        <4>2. Cardinality(Correlated(f)) = 1
          BY <3>4, SaysOne, FS_Singleton, ZenonT(40)
        <4>3. Candidate(f)
          <5>1. PICK t : Parse(f, t) # {}
            BY <3>4 DEF Correlated
          <5>2. CASE case.proto = "arp"
            BY <5>1, <5>2, AnswerIsCandidate
          <5>3. CASE case.proto # "arp"
            BY <5>3, <1>5, SweepAssumption DEF LinkInv
          <5> QED BY <5>2, <5>3
        <4> QED BY <3>1, <4>1, <4>2, <4>3, FS_CardinalityType DEF LinkInv, CountsBalance
      <3> QED BY <3>2, <3>3, <3>4
    <2> QED BY <1>1, <1>2, <2>3, <2>4 DEF LinkInv
  <1> QED BY <1>1, <1>4, <1>5

\* Opening the channel, sending and ending the read keep the account, and an outcome stands when
\* the sweep is over.
LEMMA SweepKeeps ==
    ASSUME LinkInv, SweepNext
    PROVE  LinkInv' /\ (stage' = "done" => OutcomeStands')
  <1>1. CASE Open
    <2>1. UNCHANGED <<case, sent, frames, found, counts>> /\ stage = "start"
      BY <1>1, Zenon DEF Open
    <2>2. RepliesAreHeard' /\ CountsBalance' /\ IsSeq(frames)' /\ IsSeq(found)' /\ (case \in Cases)'
          /\ frames' = <<>> /\ found' = <<>>
      <3>1. \A x : Said(x)' = Said(x)
        BY <2>1, SaidIsFixed, Zenon
      <3>2. Passed' = Passed
        BY <2>1, SaidIsFixed, Zenon DEF Passed
      <3> QED BY <2>1, <3>1, <3>2 DEF LinkInv, RepliesAreHeard, CountsBalance
    <2>3. CASE stage' = "send" /\ UNCHANGED outcome
      BY <2>1, <2>2, <2>3 DEF LinkInv
    <2>4. CASE stage' = "done" /\ on_link(case) = <<>> /\ outcome' = Attempt("NotApplicable")
      <3>1. OutcomeStands'
        <4>1. on_link(case)' = <<>>
          BY <2>1, <2>4
        <4>2. outcome'.is = "NotApplicable"
          BY <2>4 DEF Attempt
        <4> QED BY <4>1, <4>2 DEF OutcomeStands
      <3> QED BY <2>2, <2>4, <3>1 DEF LinkInv
    <2>5. CASE stage' = "done" /\ outcome' \in {Attempt("NotSent"), Attempt("Unavailable")}
      <3>1. OutcomeStands'
        BY <2>5 DEF OutcomeStands, Attempt
      <3> QED BY <2>2, <2>5, <3>1 DEF LinkInv
    <2> QED BY <1>1, <2>3, <2>4, <2>5 DEF Open
  <1>2. CASE SendRequest
    <2>1. UNCHANGED <<case, frames, found, counts>> /\ stage = "send" /\ frames = <<>> /\ found = <<>>
      BY <1>2 DEF SendRequest, LinkInv
    <2>2. RepliesAreHeard' /\ CountsBalance' /\ IsSeq(frames)' /\ IsSeq(found)' /\ (case \in Cases)'
          /\ frames' = <<>> /\ found' = <<>>
      <3>1. Passed' = {} /\ Passed = {}
        BY <2>1, EmptyIsSeq DEF Passed
      <3>2. RepliesAreHeard'
        BY <2>1, EmptyIsSeq DEF RepliesAreHeard
      <3> QED BY <2>1, <3>1, <3>2 DEF LinkInv, CountsBalance
    <2>3. CASE stage' \in {"send", "read"} /\ UNCHANGED outcome
      BY <2>1, <2>2, <2>3 DEF LinkInv
    <2>4. CASE stage' = "done" /\ outcome' = Attempt("NotSent")
      <3>1. OutcomeStands'
        BY <2>4, Zenon DEF OutcomeStands, Attempt
      <3> QED BY <2>2, <2>4, <3>1 DEF LinkInv
    <2> QED BY <1>2, <2>3, <2>4 DEF SendRequest
  <1>3. ASSUME NEW f \in Frames[case.proto], ReadFrame(f)
        PROVE  LinkInv' /\ (stage' = "done" => OutcomeStands')
    BY <1>3, ReadKeeps
  <1>4. CASE EndRead
    <2>1. UNCHANGED <<case, sent, frames, found, counts>> /\ stage' = "done"
      BY <1>4 DEF EndRead
    <2>2. RepliesAreHeard' /\ CountsBalance' /\ IsSeq(frames)' /\ IsSeq(found)' /\ (case \in Cases)'
      <3>1. \A x : Said(x)' = Said(x)
        BY <2>1, SaidIsFixed, Zenon
      <3>2. Passed' = Passed
        BY <2>1, SaidIsFixed, Zenon DEF Passed
      <3> QED BY <2>1, <3>1, <3>2 DEF LinkInv, RepliesAreHeard, CountsBalance
    <2>3. OutcomeStands'
      <3>1. CASE outcome' = Attempt("NotSent")
        BY <3>1 DEF OutcomeStands, Attempt
      <3>2. ASSUME NEW fault, outcome' = Outcome(fault) PROVE OutcomeStands'
        BY <2>1, <3>2 DEF Outcome, OutcomeStands, Attempt
      <3> QED BY <1>4, <3>1, <3>2, ZenonT(40) DEF EndRead
    <2> QED BY <2>1, <2>2, <2>3 DEF LinkInv
  <1> QED BY <1>1, <1>2, <1>3, <1>4, Zenon DEF SweepNext

-----------------------------------------------------------------------------
\* What is said of addresses by ARP: the station of each reply holds the address it answered for.
LEMMA ArpNames ==
    ASSUME NEW s, NEW e \in arp_evidence(s), e.fact.kind = "DeviceAddress"
    PROVE  \E i \in DOMAIN s.replies : /\ e.fact.fields.address = s.replies[i].address
                                       /\ e.fact.fields.device = mac(s.replies[i].mac)
  <1>1. PICK i \in DOMAIN s.replies :
          e \in LET r == s.replies[i]
                IN  Says("ArpProbe", "Observed",
                         {DeviceAddress(mac(r.mac), r.address)}
                         \cup {DeviceVendor(mac(r.mac), v) : v \in lookup_vendor(r.mac)}
                         \cup When(r.vlan # None, {Vlan(r.vlan)}))
    BY Zenon DEF arp_evidence
  <1> DEFINE r == s.replies[i]
  <1>2. \/ e.fact = DeviceAddress(mac(r.mac), r.address)
        \/ \E v : e.fact = DeviceVendor(mac(r.mac), v)
        \/ e.fact = Vlan(r.vlan)
    BY <1>1 DEF Says, When
  <1>3. e.fact = DeviceAddress(mac(r.mac), r.address)
    <2>1. \A d, v : DeviceVendor(d, v).kind = "DeviceVendor"
      BY ZenonT(40) DEF DeviceVendor, Fact
    <2>2. Vlan(r.vlan).kind = "Vlan"
      BY ZenonT(40) DEF Vlan, Fact
    <2> QED BY <1>2, <2>1, <2>2, ZenonT(40)
  <1> QED BY <1>3 DEF DeviceAddress, Fact

\* By neighbour discovery the station, or the address itself where none was named.
LEMMA NdpNames ==
    ASSUME NEW s, NEW e \in ndp_evidence(s), e.fact.kind = "DeviceAddress"
    PROVE  \E i \in DOMAIN s.replies :
             LET r == s.replies[i]
             IN  /\ e.fact.fields.address = r.address
                 /\ e.fact.fields.device = IF r.mac = None THEN scoped_address(r.address, Zone) ELSE mac(r.mac)
  <1>1. PICK i \in DOMAIN s.replies :
          e \in LET r == s.replies[i]
                    d == IF r.mac = None THEN scoped_address(r.address, Zone) ELSE mac(r.mac)
                IN  Says("NdpProbe", "Observed",
                         {DeviceAddress(d, r.address)}
                         \cup When(r.mac # None, {DeviceVendor(d, v) : v \in lookup_vendor(r.mac)}))
                    \cup Says("NdpProbe", "Advertised",
                              When(r.router, {DeviceRoleSignal(d, Signal("RouterAdvertisement"))}))
    BY Zenon DEF ndp_evidence
  <1> DEFINE r == s.replies[i]
             d == IF r.mac = None THEN scoped_address(r.address, Zone) ELSE mac(r.mac)
  <1>2. \/ e.fact = DeviceAddress(d, r.address)
        \/ \E v : e.fact = DeviceVendor(d, v)
        \/ e.fact = DeviceRoleSignal(d, Signal("RouterAdvertisement"))
    <2>1. e \in Says("NdpProbe", "Observed",
                     {DeviceAddress(d, r.address)}
                     \cup When(r.mac # None, {DeviceVendor(d, v) : v \in lookup_vendor(r.mac)}))
                \cup Says("NdpProbe", "Advertised",
                          When(r.router, {DeviceRoleSignal(d, Signal("RouterAdvertisement"))}))
      BY <1>1, Zenon
    <2> HIDE DEF d
    <2> QED BY <2>1 DEF Says, When
  <1> HIDE DEF d
  <1>3. e.fact = DeviceAddress(d, r.address)
    <2>1. \A v : DeviceVendor(d, v).kind = "DeviceVendor"
      BY Zenon DEF DeviceVendor, Fact
    <2>2. \A x : DeviceRoleSignal(d, x).kind = "DeviceRoleSignal"
      BY Zenon DEF DeviceRoleSignal, Fact
    <2> QED BY <1>2, <2>1, <2>2
  <1>4. e.fact.fields.address = r.address /\ e.fact.fields.device = d
    BY <1>3 DEF DeviceAddress, Fact
  <1> QED BY <1>4, Zenon DEF d

\* What a frame says of the queries that left is what it says of each address that was sent.
LEMMA SaidIsHeeded ==
    /\ \A f : \A r \in Said(f) : r.address \in Range(sent) /\ r \in Heeded(f, r.address)
    /\ \A f : \A a \in Range(sent) : \A r \in Heeded(f, a) : r \in Said(f) /\ r.address = a
  <1>1. ASSUME NEW f, NEW r \in Said(f)
        PROVE  r.address \in Range(sent) /\ r \in Heeded(f, r.address)
    <2>1. r \in Correlated(f) /\ (case.proto = "ndp" => Candidate(f))
      BY <1>1, Zenon DEF Said, When
    <2>2. PICK t \in Range(sent) : r \in Parse(f, t)
      BY <2>1, Zenon DEF Correlated
    <2>3. r.address = t
      BY <2>2, OneAddress, Zenon
    <2> QED BY <2>1, <2>2, <2>3 DEF Heeded, When
  <1>2. ASSUME NEW f, NEW a \in Range(sent), NEW r \in Heeded(f, a)
        PROVE  r \in Said(f) /\ r.address = a
    <2>1. r \in Parse(f, a) /\ (case.proto = "ndp" => Candidate(f))
      BY <1>2, Zenon DEF Heeded, When
    <2> QED BY <2>1, OneAddress DEF Said, Correlated, When
  <1> QED BY <1>1, <1>2

\* The account of the sweep says what the providers and the log make of it.
LEMMA AccountConfirms ==
    ASSUME LinkInv
    PROVE  ConfirmedByAsking
  <1>1. CASE outcome = None \/ outcome.is # "Answered"
    BY <1>1, Zenon DEF ConfirmedByAsking, LinkEvidence
  <1>2. CASE outcome # None /\ outcome.is = "Answered"
    <2> DEFINE s == outcome.result
    <2>1. s.asked = sent /\ s.replies = found /\ s.rejected = counts.candidates - counts.correlated
      BY <1>2 DEF LinkInv, OutcomeStands
    <2> HIDE DEF s
    <2>2. \A i \in DOMAIN found : \E k \in DOMAIN frames :
            found[i].address \in Range(sent) /\ found[i] \in Heeded(frames[k], found[i].address)
      BY SaidIsHeeded DEF LinkInv, RepliesAreHeard
    <2>3. \A k \in DOMAIN frames : \A a \in Range(sent) : \A r \in Heeded(frames[k], a) :
            \E i \in DOMAIN found : found[i].address = a /\ found[i].mac = r.mac
      BY SaidIsHeeded DEF LinkInv, RepliesAreHeard
    <2>4. ASSUME NEW e \in LinkEvidence, e.fact.kind = "DeviceAddress"
          PROVE  /\ e.fact.fields.address \in Range(sent)
                 /\ \E i \in DOMAIN frames : \E r \in Heeded(frames[i], e.fact.fields.address) :
                      e.fact.fields.device = (IF case.proto = "ndp" /\ r.mac = None
                                              THEN scoped_address(r.address, Zone) ELSE mac(r.mac))
      <3>1. \E j \in DOMAIN found :
              LET r == found[j]
              IN  /\ e.fact.fields.address = r.address
                  /\ e.fact.fields.device = (IF case.proto = "ndp" /\ r.mac = None
                                             THEN scoped_address(r.address, Zone) ELSE mac(r.mac))
        <4>1. CASE case.proto = "arp"
          <5>1. e \in arp_evidence(s)
            BY <1>2, <2>4, <4>1 DEF LinkEvidence, s
          <5>2. PICK j \in DOMAIN s.replies : /\ e.fact.fields.address = s.replies[j].address
                                              /\ e.fact.fields.device = mac(s.replies[j].mac)
            BY <2>4, <5>1, ArpNames, Zenon
          <5> QED BY <2>1, <4>1, <5>2
        <4>2. CASE case.proto = "ndp"
          <5>1. e \in ndp_evidence(s)
            BY <1>2, <2>4, <4>2 DEF LinkEvidence, s
          <5>2. PICK j \in DOMAIN s.replies :
                  LET r == s.replies[j]
                  IN  /\ e.fact.fields.address = r.address
                      /\ e.fact.fields.device = IF r.mac = None THEN scoped_address(r.address, Zone) ELSE mac(r.mac)
            BY <2>4, <5>1, NdpNames, Zenon
          <5> QED BY <2>1, <4>2, <5>2
        <4> QED BY <4>1, <4>2, SweepAssumption, Zenon DEF LinkInv
      <3> QED BY <2>2, <3>1, Zenon
    <2>5. s.rejected = Cardinality({i \in DOMAIN frames : Candidate(frames[i])
                                      /\ \A t \in Range(sent) : Parse(frames[i], t) = {}})
      <3>1. Passed = {i \in DOMAIN frames : Candidate(frames[i])
                        /\ \A t \in Range(sent) : Parse(frames[i], t) = {}}
        BY DEF Passed, Correlated
      <3>2. counts.candidates - counts.correlated = Cardinality(Passed)
        BY FS_CardinalityType DEF LinkInv, CountsBalance
      <3> QED BY <2>1, <3>1, <3>2
    <2>6. unconfirmed(s) = {a \in Range(sent) : \A i \in DOMAIN frames : Heeded(frames[i], a) = {}}
      <3>1. unconfirmed(s) = {a \in Range(sent) : \A i \in DOMAIN found : found[i].address # a}
        BY <2>1, Zenon DEF unconfirmed
      <3>2. ASSUME NEW a \in Range(sent)
            PROVE  (\A i \in DOMAIN found : found[i].address # a)
                     <=> \A i \in DOMAIN frames : Heeded(frames[i], a) = {}
        BY <2>2, <2>3
      <3> QED BY <3>1, <3>2, Zenon
    <2>7. contested(s) = {a \in Range(sent) : \E i, j \in DOMAIN frames :
                            \E r \in Heeded(frames[i], a), q \in Heeded(frames[j], a) : r.mac # q.mac}
      <3>1. contested(s) = {found[i].address : i \in {j \in DOMAIN found :
                              \E k \in DOMAIN found : k # j /\ found[k].address = found[j].address}}
        BY <2>1, Zenon DEF contested
      <3>2. ASSUME NEW j \in DOMAIN found, NEW k \in DOMAIN found, k # j, found[k].address = found[j].address
            PROVE  /\ found[j].address \in Range(sent)
                   /\ \E x, y \in DOMAIN frames :
                        \E r \in Heeded(frames[x], found[j].address), q \in Heeded(frames[y], found[j].address) :
                           r.mac # q.mac
        <4>1. found[k].mac # found[j].mac
          BY <3>2, Zenon DEF LinkInv, RepliesAreHeard
        <4> QED BY <2>2, <3>2, <4>1
      <3>3. ASSUME NEW a \in Range(sent), NEW x \in DOMAIN frames, NEW y \in DOMAIN frames,
                   NEW r \in Heeded(frames[x], a), NEW q \in Heeded(frames[y], a), r.mac # q.mac
            PROVE  \E j, k \in DOMAIN found : k # j /\ found[k].address = a /\ found[j].address = a
        BY <2>3, <3>3
      <3> QED BY <3>1, <3>2, <3>3
    <2> QED BY <1>2, <2>4, <2>5, <2>6, <2>7 DEF ConfirmedByAsking, s
  <1> QED BY <1>1, <1>2, Zenon

\* Nothing about the account changes while the sweep rests.
LEMMA LinkRests ==
    ASSUME LinkInv, UNCHANGED linkVars
    PROVE  LinkInv' /\ (OutcomeStands' <=> OutcomeStands)
  <1>1. UNCHANGED <<case, stage, sent, frames, found, counts, outcome>>
    BY Zenon DEF linkVars
  <1>2. \A x : Said(x)' = Said(x)
    BY <1>1, SaidIsFixed, Zenon
  <1>3. Passed' = Passed
    BY <1>1, SaidIsFixed, Zenon DEF Passed
  <1>4. OutcomeStands' <=> OutcomeStands
    BY <1>1, Zenon DEF OutcomeStands
  <1> QED BY <1>1, <1>2, <1>3, <1>4 DEF LinkInv, RepliesAreHeard, CountsBalance

\* A device is said to hold an address only if this run asked for the address and that station
\* answered, and the rejected, unanswered and contested addresses are what the frames make them,
\* for every list of targets and every sequence of frames (sweep_liveness).
THEOREM LinkConfirmed == LinkSpec => []ConfirmedByAsking
  <1>1. SweepInit => LinkInv
    BY LinkStarts, Zenon
  <1>2. LinkInv /\ [SweepNext]_linkVars => LinkInv'
    <2>1. LinkInv /\ SweepNext => LinkInv'
      BY SweepKeeps, Zenon
    <2>2. LinkInv /\ UNCHANGED linkVars => LinkInv'
      <3> SUFFICES ASSUME LinkInv, UNCHANGED linkVars PROVE LinkInv'
        BY Zenon
      <3> QED BY LinkRests, Zenon
    <2> QED BY <2>1, <2>2
  <1>3. LinkInv => ConfirmedByAsking
    BY AccountConfirms, Zenon
  <1> QED BY <1>1, <1>2, <1>3, PTL DEF LinkSpec

-----------------------------------------------------------------------------
(* The examination of a network.                                            *)

HostFields == {"liveness", "mac", "vendor", "ports", "hostname", "v6"}
TruthFields == {"answered", "left", "echoed", "provoked"}
TallyFields == {"probed", "sent", "not_sent"}

\* A host with an open port answered this run.
PortsAnswered ==
    \A ip \in DOMAIN hosts : /\ DOMAIN hosts[ip] = HostFields
                             /\ hosts[ip].ports # {} => ip \in truth.answered

\* While hosts are treated: those that answered are the network's responders and the hosts heard
\* from, and nothing left for an address that is not counted as probed.
Accounted ==
    /\ truth.answered = reach.responders \cup fresh_responders(hosts)
    /\ reach.responders \subseteq reach.probed
    /\ truth.left \subseteq tally.probed

\* And when the provider has reported.
Reported ==
    /\ reach.responders = truth.answered
    /\ truth.answered \cup truth.left \subseteq reach.probed

HostInv ==
    /\ LinkInv
    /\ turn \in {"link", "tcp", "echo", "done"}
    /\ turn = "link" => /\ stage = "done" => OutcomeStands
                        /\ reach = Unexamined /\ tally.probed = {} /\ truth.left = {}
    /\ DOMAIN truth = TruthFields /\ DOMAIN tally = TallyFields /\ PortsAnswered
    /\ turn \in {"tcp", "echo"} => Accounted
    /\ turn = "done" => Reported
    /\ turn # "link" /\ on_link(case) # <<>> /\ ~truth.provoked => truth.answered # {}

\* A host whose sweep found a port open is alive, and one to which a connect left was probed
\* (probe_tcp_socket, scan_host_tcp).
LEMMA ScanSays ==
    ASSUME NEW b, NEW ip, NEW answers
    PROVE  LET scan == scan_host_tcp([p \in Ports |-> probe_tcp_socket(b, ip, answers[p])])
           IN  /\ scan.open_ports # {} => scan.alive
               /\ can_reach(b, ip) /\ (\E p \in Ports :
                       answers[p] \in {"accepted", "ConnectionRefused", "TimedOut"}) => scan.sent > 0
  <1> DEFINE statuses == [p \in Ports |-> probe_tcp_socket(b, ip, answers[p])]
             scan == scan_host_tcp(statuses)
             left == {p \in Ports : statuses[p] # "NotSent"}
  <1>1. scan.open_ports = {p \in Ports : statuses[p] = "Open"}
        /\ (scan.alive <=> \E p \in Ports : statuses[p] \in {"Open", "Closed"})
        /\ scan.sent = Cardinality(left)
    <2> HIDE DEF statuses
    <2> QED BY Zenon DEF scan_host_tcp
  <1>2. ASSUME NEW p \in left PROVE scan.sent > 0
    <2>1. IsFiniteSet(left)
      BY HostAssumption, FS_Subset, ZenonT(40)
    <2> HIDE DEF left
    <2>2. Cardinality(left) \in Nat /\ Cardinality(left) # 0
      BY <1>2, <2>1, FS_EmptySet, FS_CardinalityType, Zenon
    <2> QED BY <1>1, <2>2
  <1>3. ASSUME NEW p \in Ports, answers[p] \in {"accepted", "ConnectionRefused", "TimedOut"}, can_reach(b, ip)
        PROVE  statuses[p] # "NotSent"
    <2>1. statuses[p] = probe_tcp_socket(b, ip, answers[p])
      BY Zenon
    <2> QED BY <1>3, <2>1 DEF probe_tcp_socket, is_local_failure
  <1> HIDE DEF statuses
  <1>4. can_reach(b, ip) /\ (\E p \in Ports :
                answers[p] \in {"accepted", "ConnectionRefused", "TimedOut"}) => scan.sent > 0
    <2> SUFFICES ASSUME can_reach(b, ip), NEW p \in Ports,
                        answers[p] \in {"accepted", "ConnectionRefused", "TimedOut"}
                 PROVE  scan.sent > 0
      BY Zenon
    <2> QED BY <1>2, <1>3, Zenon
  <1>5. scan.open_ports # {} => scan.alive
    BY <1>1, Zenon
  <1> HIDE DEF scan
  <1> QED BY <1>4, <1>5 DEF scan, statuses

\* An examination that begins knows of no host.
LEMMA HostStarts == HostInit => HostInv
  <1> SUFFICES ASSUME HostInit PROVE HostInv
    BY Zenon
  <1>1. LinkInv
    BY LinkStarts, Zenon DEF HostInit
  <1>2. /\ turn = "link" /\ stage = "start" /\ hosts = <<>> /\ tally.probed = {} /\ reach = Unexamined
        /\ DOMAIN truth = TruthFields /\ DOMAIN tally = TallyFields /\ truth.left = {}
    BY Zenon DEF HostInit, SweepInit, TruthFields, TallyFields
  <1>3. PortsAnswered
    BY <1>2, EmptyIsSeq DEF PortsAnswered
  <1> QED BY <1>1, <1>2, <1>3 DEF HostInv

\* A host the cache remembers has answered nothing and has no open port (Seed).
LEMMA SeedRemembers ==
    ASSUME NEW rows, NEW ip \in DOMAIN Seed(rows)
    PROVE  LET h == Seed(rows)[ip]
           IN  DOMAIN h = HostFields /\ h.ports = {} /\ h.liveness = "Remembered"
  <1> DEFINE kept == {r \in read_system_arp_table(rows) :
                        contains(Cidr, r.ip) /\ r.ip # Broadcast /\ r.mac.id # "broadcast"}
             m == CHOOSE x \in kept : x.ip = ip
             h == [HeardFrom EXCEPT !.liveness = "Remembered", !.mac = m.mac, !.vendor = lookup_vendor(m.mac)]
  <1>1. Seed(rows)[ip] = h
    <2>1. Seed(rows) = [x \in {r.ip : r \in kept} |->
            LET r == CHOOSE y \in kept : y.ip = x
            IN  [HeardFrom EXCEPT !.liveness = "Remembered", !.mac = r.mac, !.vendor = lookup_vendor(r.mac)]]
      BY Zenon DEF Seed
    <2> HIDE DEF kept
    <2>2. ip \in {r.ip : r \in kept}
      BY <2>1, Zenon
    <2> QED BY <2>1, <2>2, Zenon
  <1> HIDE DEF m
  <1>2. DOMAIN h = HostFields /\ h.ports = {} /\ h.liveness = "Remembered"
    BY Zenon DEF HeardFrom, HostFields
  <1> HIDE DEF h
  <1> QED BY <1>1, <1>2

\* What a finished link sweep says of the network: who answered was probed, and somebody did
\* unless the kernel is provoked or there was nothing to ask (arp_reachability, resolve_sweep).
LEMMA SweepSettles ==
    ASSUME LinkInv, OutcomeStands
    PROVE  LET r == arp_reachability(outcome)
           IN  /\ r.responders \subseteq r.probed
               /\ on_link(case) # <<>> /\ resolve_sweep(outcome) # "Fallback" => r.responders # {}
  <1>1. CASE outcome.is = "Answered"
    <2> DEFINE who == {outcome.result.replies[i].address : i \in DOMAIN outcome.result.replies}
    <2>1. arp_reachability(outcome) = probed(who, who, 0)
      BY <1>1, Zenon DEF arp_reachability
    <2>2. who # {}
      <3>1. outcome.result.replies = found /\ found # <<>>
        BY <1>1 DEF OutcomeStands
      <3>2. DOMAIN found # {}
        BY <3>1, SeqPlaces, ZenonT(40) DEF LinkInv
      <3> QED BY <3>1, <3>2, ZenonT(40)
    <2> HIDE DEF who
    <2>3. probed(who, who, 0).responders = who /\ probed(who, who, 0).probed = who
      BY Zenon DEF probed
    <2> QED BY <2>1, <2>2, <2>3, Zenon
  <1>2. CASE outcome.is # "Answered"
    <2>1. arp_reachability(outcome).responders = {}
      BY <1>2, ZenonT(40) DEF arp_reachability, Unexamined, probed
    <2>2. resolve_sweep(outcome) # "Fallback" => on_link(case) = <<>>
      BY <1>2, Zenon DEF resolve_sweep, OutcomeStands
    <2> QED BY <2>1, <2>2, Zenon
  <1> QED BY <1>1, <1>2, Zenon

\* When the hosts are started those that answered are those that answered the link sweep.
LEMMA HostsStart ==
    ASSUME HostInv, StartHosts
    PROVE  HostInv'
  <1> DEFINE r == arp_reachability(outcome)
  <1>1. /\ turn = "link" /\ stage = "done" /\ turn' = "tcp" /\ UNCHANGED <<case, stage, tally>>
        /\ sent' = <<>> /\ frames' = <<>> /\ found' = <<>> /\ outcome' = None
        /\ counts'.candidates = 0 /\ counts'.correlated = 0
    BY Zenon DEF StartHosts
  <1>2. LinkInv'
    <2>1. Passed' = {}
      BY <1>1, EmptyIsSeq DEF Passed
    <2>2. CountsBalance'
      BY <1>1, <2>1, FS_EmptySet DEF CountsBalance
    <2>3. RepliesAreHeard'
      BY <1>1, EmptyIsSeq, ZenonT(40) DEF RepliesAreHeard
    <2> QED BY <1>1, <2>2, <2>3, EmptyIsSeq DEF LinkInv, HostInv
  <1>3. LinkInv /\ OutcomeStands
    BY <1>1, Zenon DEF HostInv
  <1>4. r.responders \subseteq r.probed
        /\ (on_link(case) # <<>> /\ resolve_sweep(outcome) # "Fallback" => r.responders # {})
    BY <1>3, SweepSettles
  <1> HIDE DEF r
  <1>5. truth' = [truth EXCEPT !.answered = r.responders, !.provoked = (resolve_sweep(outcome) = "Fallback")]
    BY Zenon DEF StartHosts, r
  <1>6. /\ DOMAIN truth' = TruthFields /\ truth'.answered = r.responders
        /\ truth'.provoked = (resolve_sweep(outcome) = "Fallback") /\ truth'.left = {}
    <2>1. DOMAIN truth = TruthFields /\ truth.left = {}
      BY <1>1, Zenon DEF HostInv
    <2> QED BY <1>5, <2>1, Zenon DEF TruthFields
  <1>7. reach' = merge(Unexamined, r)
    BY <1>1 DEF StartHosts, HostInv, r
  <1>8. reach'.responders = r.responders /\ reach'.probed = r.probed
    BY <1>7 DEF merge, Unexamined, probed
  <1>9. PICK rows : hosts' = Seed(rows)
    BY Zenon DEF StartHosts
  <1>10. PortsAnswered' /\ fresh_responders(hosts') = {}
    BY <1>9, SeedRemembers DEF PortsAnswered, fresh_responders
  <1>11. Accounted'
    BY <1>1, <1>4, <1>6, <1>8, <1>10 DEF Accounted, HostInv
  <1>12. on_link(case)' = on_link(case)
    BY <1>1, Zenon
  <1> QED BY <1>1, <1>2, <1>4, <1>6, <1>10, <1>11, <1>12, ZenonT(40) DEF HostInv

\* A host that answered is one more of those heard from.
LEMMA FreshHost ==
    ASSUME NEW map, NEW ip, NEW h, h.liveness = "Answered"
    PROVE  fresh_responders(With(map, ip, h)) = fresh_responders(map) \cup {ip}
  <1> DEFINE new == With(map, ip, h)
  <1>1. /\ DOMAIN new = DOMAIN map \cup {ip} /\ new[ip] = h
        /\ \A x \in DOMAIN map : x # ip => new[x] = map[x]
    BY Zenon DEF With
  <1> HIDE DEF new
  <1>2. fresh_responders(new) = fresh_responders(map) \cup {ip}
    BY <1>1, Zenon DEF fresh_responders
  <1> QED BY <1>2, Zenon DEF new

\* One host treated: whoever is added to those that answered is added to those heard from.
LEMMA HostTreated ==
    ASSUME HostInv, turn \in {"tcp", "echo"}, turn' \in {"tcp", "echo"}, UNCHANGED <<linkVars, reach>>,
           NEW more,
           DOMAIN truth' = TruthFields, DOMAIN tally' = TallyFields, truth'.provoked = truth.provoked,
           truth'.answered = truth.answered \cup more,
           fresh_responders(hosts') = fresh_responders(hosts) \cup more,
           truth'.left \subseteq tally'.probed, PortsAnswered'
    PROVE  HostInv'
  <1>1. LinkInv'
    BY LinkRests, ZenonT(40) DEF HostInv
  <1>2. Accounted'
    BY Zenon DEF HostInv, Accounted
  <1>3. on_link(case)' = on_link(case)
    BY Zenon DEF linkVars
  <1>4. on_link(case) # <<>> /\ ~truth.provoked => truth.answered # {}
    BY Zenon DEF HostInv
  <1> QED BY <1>1, <1>2, <1>3, <1>4 DEF HostInv

\* A TCP sweep that is joined.
LEMMA TcpJoined ==
    ASSUME HostInv, JoinTcp
    PROVE  HostInv'
  <1> DEFINE ip == Head(todo)
             old == IF ip \in DOMAIN hosts THEN hosts[ip] ELSE HeardFrom
  <1>1. PICK answers \in [Ports -> Answers] :
          LET scan == scan_host_tcp([p \in Ports |-> probe_tcp_socket(binding, ip, answers[p])])
          IN  /\ tally' = [probed |-> tally.probed \cup (IF scan.sent > 0 THEN {ip} ELSE {}),
                           sent |-> tally.sent + scan.sent,
                           not_sent |-> tally.not_sent + scan.not_sent]
              /\ hosts' = IF scan.alive
                          THEN With(hosts, ip, [old EXCEPT !.liveness = "Answered", !.ports = scan.open_ports])
                          ELSE IF ip \in DOMAIN hosts
                          THEN With(hosts, ip, [old EXCEPT !.ports = scan.open_ports]) ELSE hosts
              /\ truth' = [truth EXCEPT
                   !.answered = @ \cup (IF scan.alive THEN {ip} ELSE {}),
                   !.left = @ \cup (IF can_reach(binding, ip) /\ \E p \in Ports :
                                       answers[p] \in {"accepted", "ConnectionRefused", "TimedOut"}
                                    THEN {ip} ELSE {})]
    BY Zenon DEF JoinTcp
  <1> DEFINE scan == scan_host_tcp([p \in Ports |-> probe_tcp_socket(binding, ip, answers[p])])
             reached == can_reach(binding, ip) /\ \E p \in Ports :
                          answers[p] \in {"accepted", "ConnectionRefused", "TimedOut"}
             more == IF scan.alive THEN {ip} ELSE {}
             gone == IF reached THEN {ip} ELSE {}
  <1>2. /\ scan.open_ports # {} => scan.alive
        /\ reached => scan.sent > 0
    BY ScanSays, ZenonT(40)
  <1>3. /\ tally'.probed = tally.probed \cup (IF scan.sent > 0 THEN {ip} ELSE {})
        /\ truth' = [truth EXCEPT !.answered = truth.answered \cup more, !.left = truth.left \cup gone]
        /\ hosts' = IF scan.alive
                    THEN With(hosts, ip, [old EXCEPT !.liveness = "Answered", !.ports = scan.open_ports])
                    ELSE IF ip \in DOMAIN hosts
                    THEN With(hosts, ip, [old EXCEPT !.ports = scan.open_ports]) ELSE hosts
    <2>1. truth' = [truth EXCEPT !.answered = truth.answered \cup more, !.left = truth.left \cup gone]
      BY <1>1, Zenon
    <2> HIDE DEF ip, old, scan
    <2>2. tally' = [probed |-> tally.probed \cup (IF scan.sent > 0 THEN {ip} ELSE {}),
                    sent |-> tally.sent + scan.sent,
                    not_sent |-> tally.not_sent + scan.not_sent]
      BY <1>1, Zenon DEF scan, ip
    <2>3. tally'.probed = tally.probed \cup (IF scan.sent > 0 THEN {ip} ELSE {})
      BY <2>2, Zenon
    <2>4. hosts' = IF scan.alive
                    THEN With(hosts, ip, [old EXCEPT !.liveness = "Answered", !.ports = scan.open_ports])
                    ELSE IF ip \in DOMAIN hosts
                    THEN With(hosts, ip, [old EXCEPT !.ports = scan.open_ports]) ELSE hosts
      BY <1>1, Zenon DEF scan, ip, old
    <2> QED BY <2>1, <2>3, <2>4
  <1>4. turn = "tcp" /\ turn' = "tcp" /\ UNCHANGED <<linkVars, reach>>
    BY Zenon DEF JoinTcp
  <1>5. DOMAIN truth = TruthFields /\ PortsAnswered /\ Accounted
    BY <1>4, Zenon DEF HostInv
  <1>6. DOMAIN old = HostFields
    BY <1>5, Zenon DEF PortsAnswered, HeardFrom, HostFields
  <1> HIDE DEF ip, old, scan, reached, more, gone
  <1>7. /\ DOMAIN truth' = TruthFields /\ truth'.provoked = truth.provoked
        /\ truth'.answered = truth.answered \cup more /\ truth'.left = truth.left \cup gone
    BY <1>3, <1>5, Zenon DEF TruthFields
  <1>8. truth'.left \subseteq tally'.probed
    BY <1>2, <1>3, <1>5, <1>7 DEF Accounted, gone
  <1>9. fresh_responders(hosts') = fresh_responders(hosts) \cup more /\ PortsAnswered'
    <2>1. CASE scan.alive
      <3> DEFINE h == [old EXCEPT !.liveness = "Answered", !.ports = scan.open_ports]
      <3>1. DOMAIN h = HostFields /\ h.liveness = "Answered"
        BY <1>6, Zenon DEF HostFields
      <3>2. hosts' = With(hosts, ip, h) /\ more = {ip}
        BY <1>3, <2>1 DEF more
      <3> HIDE DEF h
      <3>3. /\ DOMAIN hosts' = DOMAIN hosts \cup {ip} /\ hosts'[ip] = h
            /\ \A x \in DOMAIN hosts : x # ip => hosts'[x] = hosts[x]
        BY <3>2 DEF With
      <3>4. PortsAnswered'
        BY <1>5, <1>7, <3>1, <3>2, <3>3, Zenon DEF PortsAnswered
      <3>5. fresh_responders(With(hosts, ip, h)) = fresh_responders(hosts) \cup {ip}
        BY <3>1, FreshHost, ZenonT(40)
      <3> QED BY <3>2, <3>4, <3>5, ZenonT(40)
    <2>2. CASE ~scan.alive /\ ip \in DOMAIN hosts
      <3> DEFINE h == [old EXCEPT !.ports = scan.open_ports]
      <3>1. DOMAIN h = HostFields /\ h.liveness = old.liveness /\ h.ports = scan.open_ports
        BY <1>6, Zenon DEF HostFields
      <3>2. hosts' = With(hosts, ip, h) /\ more = {} /\ old = hosts[ip]
        BY <1>3, <2>2 DEF more, old
      <3> HIDE DEF h
      <3>3. h.ports = {}
        BY <1>2, <2>2, <3>1
      <3>4. /\ DOMAIN hosts' = DOMAIN hosts \cup {ip} /\ hosts'[ip] = h
            /\ \A x \in DOMAIN hosts : x # ip => hosts'[x] = hosts[x]
        BY <3>2 DEF With
      <3>5. PortsAnswered'
        BY <1>5, <1>7, <3>1, <3>2, <3>3, <3>4 DEF PortsAnswered
      <3>6. fresh_responders(hosts') = fresh_responders(hosts)
        BY <2>2, <3>1, <3>2, <3>4 DEF fresh_responders
      <3> QED BY <3>2, <3>5, <3>6
    <2>3. CASE ~scan.alive /\ ip \notin DOMAIN hosts
      <3>1. hosts' = hosts /\ more = {}
        BY <1>3, <2>3 DEF more
      <3> QED BY <1>5, <1>7, <3>1 DEF PortsAnswered
    <2> QED BY <2>1, <2>2, <2>3
  <1>10. DOMAIN tally' = TallyFields
    BY <1>1 DEF TallyFields
  <1> QED BY <1>4, <1>7, <1>8, <1>9, <1>10, HostTreated

\* An echo that is joined.
LEMMA EchoJoined ==
    ASSUME HostInv, JoinEcho
    PROVE  HostInv'
  <1> DEFINE ip == Head(todo)
  <1>1. PICK got \in {"NotSent", "NoResponse", "Answered"} :
          /\ tally' = IF got = "NotSent" THEN [tally EXCEPT !.not_sent = @ + 1]
                      ELSE [tally EXCEPT !.sent = @ + 1, !.probed = @ \cup {ip}]
          /\ hosts' = IF got # "Answered" THEN hosts
                      ELSE With(hosts, ip, IF ip \in DOMAIN hosts
                                           THEN [hosts[ip] EXCEPT !.liveness = "Answered"] ELSE HeardFrom)
          /\ truth' = IF got = "NotSent" THEN truth
                      ELSE [truth EXCEPT !.left = @ \cup {ip}, !.echoed = @ \cup {ip},
                              !.answered = @ \cup (IF got = "Answered" THEN {ip} ELSE {})]
    BY Zenon DEF JoinEcho
  <1> HIDE DEF ip
  <1>2. turn = "echo" /\ turn' = "echo" /\ UNCHANGED <<linkVars, reach>>
    BY Zenon DEF JoinEcho
  <1>3. DOMAIN truth = TruthFields /\ DOMAIN tally = TallyFields /\ PortsAnswered /\ Accounted
    BY <1>2 DEF HostInv
  <1>4. CASE got = "NotSent"
    <2>1. truth' = truth /\ hosts' = hosts /\ tally' = [tally EXCEPT !.not_sent = @ + 1]
      BY <1>1, <1>4
    <2>2. tally'.probed = tally.probed /\ DOMAIN tally' = TallyFields
      BY <1>3, <2>1, Zenon DEF TallyFields
    <2>3. PortsAnswered' /\ truth'.left \subseteq tally'.probed
      BY <1>3, <2>1, <2>2 DEF PortsAnswered, Accounted
    <2>4. truth'.answered = truth.answered \cup {} /\ fresh_responders(hosts') = fresh_responders(hosts) \cup {}
      BY <2>1
    <2>5. DOMAIN truth' = TruthFields /\ truth'.provoked = truth.provoked
      BY <1>3, <2>1
    <2> QED BY <1>2, <2>2, <2>3, <2>4, <2>5, HostTreated, ZenonT(40)
  <1>5. CASE got # "NotSent"
    <2> DEFINE more == IF got = "Answered" THEN {ip} ELSE {}
    <2>1. /\ tally' = [tally EXCEPT !.sent = @ + 1, !.probed = @ \cup {ip}]
          /\ truth' = [truth EXCEPT !.left = @ \cup {ip}, !.echoed = @ \cup {ip}, !.answered = @ \cup more]
      BY <1>1, <1>5, Zenon
    <2> HIDE DEF more
    <2>2. tally'.probed = tally.probed \cup {ip} /\ DOMAIN tally' = TallyFields
      BY <1>3, <2>1, Zenon DEF TallyFields
    <2>3. /\ DOMAIN truth' = TruthFields /\ truth'.provoked = truth.provoked
          /\ truth'.answered = truth.answered \cup more /\ truth'.left = truth.left \cup {ip}
      BY <1>3, <2>1, Zenon DEF TruthFields
    <2>4. truth'.left \subseteq tally'.probed
      BY <1>3, <2>2, <2>3 DEF Accounted
    <2>5. fresh_responders(hosts') = fresh_responders(hosts) \cup more /\ PortsAnswered'
      <3>1. CASE got # "Answered"
        <4>1. hosts' = hosts /\ more = {}
          BY <1>1, <3>1 DEF more
        <4> QED BY <1>3, <2>3, <4>1, ZenonT(40) DEF PortsAnswered
      <3>2. CASE got = "Answered"
        <4> DEFINE h == IF ip \in DOMAIN hosts THEN [hosts[ip] EXCEPT !.liveness = "Answered"] ELSE HeardFrom
        <4>1. DOMAIN h = HostFields /\ h.liveness = "Answered"
          <5>1. CASE ip \in DOMAIN hosts
            <6>1. DOMAIN hosts[ip] = HostFields /\ h = [hosts[ip] EXCEPT !.liveness = "Answered"]
              BY <1>3, <5>1 DEF PortsAnswered
            <6> HIDE DEF h
            <6> QED BY <6>1, Zenon DEF HostFields
          <5>2. CASE ip \notin DOMAIN hosts
            BY <5>2 DEF HeardFrom, HostFields
          <5> QED BY <5>1, <5>2
        <4>2. hosts' = With(hosts, ip, h) /\ more = {ip}
          BY <1>1, <3>2 DEF more
        <4> HIDE DEF h
        <4>3. /\ DOMAIN hosts' = DOMAIN hosts \cup {ip} /\ hosts'[ip] = h
              /\ \A x \in DOMAIN hosts : x # ip => hosts'[x] = hosts[x]
          BY <4>2, Zenon DEF With
        <4>4. PortsAnswered'
          BY <1>3, <2>3, <4>1, <4>2, <4>3, ZenonT(40) DEF PortsAnswered
        <4>5. fresh_responders(With(hosts, ip, h)) = fresh_responders(hosts) \cup {ip}
          BY <4>1, FreshHost, ZenonT(40)
        <4> QED BY <4>2, <4>4, <4>5, ZenonT(40)
      <3> QED BY <3>1, <3>2
    <2> QED BY <1>2, <2>2, <2>3, <2>4, <2>5, HostTreated, ZenonT(40)
  <1> QED BY <1>4, <1>5

\* The names and neighbour entries that are gathered leave who answered as it was.
LEMMA NamesGathered ==
    ASSUME HostInv, Gather
    PROVE  HostInv'
  <1>1. turn = "echo" /\ turn' = "done" /\ UNCHANGED <<linkVars, tally, truth>>
        /\ reach' = merge(reach, probed(fresh_responders(hosts), tally.probed, tally.not_sent))
    BY ZenonT(40) DEF Gather
  <1>2. PICK n, ndp : hosts' = [ip \in DOMAIN hosts |-> WithNames(WithNeighbours(hosts[ip], ndp), n)]
    BY ZenonT(40) DEF Gather
  <1>3. DOMAIN truth = TruthFields /\ DOMAIN tally = TallyFields /\ PortsAnswered /\ Accounted
    BY <1>1, ZenonT(40) DEF HostInv
  <1>4. /\ DOMAIN hosts' = DOMAIN hosts
        /\ \A ip \in DOMAIN hosts : DOMAIN hosts'[ip] = HostFields /\ hosts'[ip].ports = hosts[ip].ports
    <2>1. ASSUME NEW h, DOMAIN h = HostFields
          PROVE  DOMAIN WithNeighbours(h, ndp) = HostFields /\ WithNeighbours(h, ndp).ports = h.ports
      BY <2>1, Zenon DEF WithNeighbours, HostFields
    <2>2. ASSUME NEW h, DOMAIN h = HostFields
          PROVE  DOMAIN WithNames(h, n) = HostFields /\ WithNames(h, n).ports = h.ports
      BY <2>2, Zenon DEF WithNames, HostFields
    <2> QED BY <1>2, <1>3, <2>1, <2>2, ZenonT(40) DEF PortsAnswered
  <1>5. PortsAnswered'
    BY <1>1, <1>3, <1>4, ZenonT(40) DEF PortsAnswered
  <1>6. /\ reach'.responders = reach.responders \cup fresh_responders(hosts)
        /\ reach'.probed = reach.probed \cup (tally.probed \cup fresh_responders(hosts))
    BY <1>1, ZenonT(40) DEF merge, probed
  <1>7. Reported'
    BY <1>1, <1>3, <1>6, ZenonT(40) DEF Accounted, Reported
  <1>8. LinkInv'
    BY <1>1, LinkRests, ZenonT(40) DEF HostInv
  <1>9. on_link(case)' = on_link(case)
    BY <1>1, Zenon DEF linkVars
  <1>10. on_link(case) # <<>> /\ ~truth.provoked => truth.answered # {}
    BY <1>1, ZenonT(40) DEF HostInv
  <1> QED BY <1>1, <1>3, <1>5, <1>7, <1>8, <1>9, <1>10, ZenonT(40) DEF HostInv

\* Every step of the examination keeps the account.
LEMMA HostKeeps ==
    ASSUME HostInv, [HostNext]_sweepVars
    PROVE  HostInv'
  <1>1. CASE LinkTurn
    <2>1. /\ turn = "link" /\ SweepNext
          /\ UNCHANGED <<binding, turn, todo, hosts, extra, tally, reach, truth>>
      BY <1>1 DEF LinkTurn, hostVars
    <2>2. LinkInv' /\ (stage' = "done" => OutcomeStands')
      BY <2>1, SweepKeeps, ZenonT(40) DEF HostInv
    <2>3. PortsAnswered'
      BY <2>1, ZenonT(40) DEF HostInv, PortsAnswered
    <2> QED BY <2>1, <2>2, <2>3, ZenonT(40) DEF HostInv
  <1>2. CASE StartHosts
    BY <1>2, HostsStart
  <1>3. CASE JoinTcp
    BY <1>3, TcpJoined, Zenon
  <1>4. CASE JoinEcho
    BY <1>4, EchoJoined, Zenon
  <1>5. CASE Gather
    BY <1>5, NamesGathered, Zenon
  <1>6. CASE JoinLost \/ StartEcho
    <2>1. /\ turn \in {"tcp", "echo"} /\ turn' \in {"tcp", "echo"} /\ UNCHANGED <<linkVars, reach>>
          /\ UNCHANGED <<hosts, tally, truth>>
      BY <1>6 DEF JoinLost, StartEcho
    <2>2. truth'.answered = truth.answered \cup {} /\ fresh_responders(hosts') = fresh_responders(hosts) \cup {}
      BY <2>1
    <2>3. PortsAnswered' /\ truth'.left \subseteq tally'.probed
      BY <2>1, ZenonT(40) DEF HostInv, PortsAnswered, Accounted
    <2>4. DOMAIN truth' = TruthFields /\ DOMAIN tally' = TallyFields /\ truth'.provoked = truth.provoked
      BY <2>1 DEF HostInv
    <2> QED BY <2>1, <2>2, <2>3, <2>4, HostTreated, ZenonT(40)
  <1>7. CASE UNCHANGED sweepVars
    <2>1. UNCHANGED linkVars /\ UNCHANGED <<binding, turn, todo, hosts, extra, tally, reach, truth>>
      BY <1>7 DEF sweepVars, hostVars
    <2>2. LinkInv' /\ (OutcomeStands' <=> OutcomeStands)
      BY <2>1, LinkRests, ZenonT(40) DEF HostInv
    <2>3. PortsAnswered'
      BY <2>1, ZenonT(40) DEF HostInv, PortsAnswered
    <2>4. UNCHANGED <<case, stage>>
      BY <2>1 DEF linkVars
    <2> QED BY <2>1, <2>2, <2>3, <2>4, ZenonT(40) DEF HostInv, Accounted, Reported
  <1> QED BY <1>1, <1>2, <1>3, <1>4, <1>5, <1>6, <1>7 DEF HostNext, HostDone

\* A host put down to a connect has an open port, and the fact is about its address.
LEMMA ConnectsHavePorts ==
    ASSUME NEW e \in host_evidence, e.source = "TcpProbe"
    PROVE  \E ip \in DOMAIN hosts : hosts[ip].ports # {} /\ e.fact.fields.address = ip
  <1>1. ASSUME NEW d, NEW n, NEW v, NEW x \in NameAndVendor(d, n, v) PROVE x.source # "TcpProbe"
    BY <1>1, SMTT(40) DEF NameAndVendor, Says
  <1>2. ASSUME NEW facts, NEW s, NEW x \in Says(s, "Observed", facts) PROVE x.source = s /\ x.fact \in facts
    BY <1>2, SMTT(40) DEF Says
  <1>3. CASE \E y \in extra : e \in Says("NdpCache", "Observed", {DeviceAddress(mac(y.mac), y.ip)})
                               \cup NameAndVendor(mac(y.mac), y.hostname, lookup_vendor(y.mac))
    <2>1. PICK y \in extra : e \in Says("NdpCache", "Observed", {DeviceAddress(mac(y.mac), y.ip)})
                               \cup NameAndVendor(mac(y.mac), y.hostname, lookup_vendor(y.mac))
      BY <1>3
    <2>2. e \in Says("NdpCache", "Observed", {DeviceAddress(mac(y.mac), y.ip)})
      BY <1>1, <2>1
    <2>3. e.source = "NdpCache"
      BY <1>2, <2>2
    <2> QED BY <2>3
  <1>4. ASSUME NEW ip \in DOMAIN hosts, NEW d,
               e \in Says(IF hosts[ip].mac # None THEN "ArpCache" ELSE IF hosts[ip].ports # {} THEN "TcpProbe" ELSE "IcmpProbe",
                          "Observed", {DeviceAddress(d, ip)})
                     \cup Says("NdpCache", "Observed", {DeviceAddress(d, a) : a \in hosts[ip].v6})
                     \cup NameAndVendor(d, hosts[ip].hostname, hosts[ip].vendor)
        PROVE  hosts[ip].ports # {} /\ e.fact.fields.address = ip
    <2> DEFINE how == IF hosts[ip].mac # None THEN "ArpCache" ELSE IF hosts[ip].ports # {} THEN "TcpProbe" ELSE "IcmpProbe"
    <2>1. e \notin NameAndVendor(d, hosts[ip].hostname, hosts[ip].vendor)
      BY <1>1, Zenon
    <2>2. e \notin Says("NdpCache", "Observed", {DeviceAddress(d, a) : a \in hosts[ip].v6})
      BY <1>2
    <2>3. e \in Says(how, "Observed", {DeviceAddress(d, ip)})
      BY <1>4, <2>1, <2>2, ZenonT(40)
    <2> HIDE DEF how
    <2>4. e.source = how /\ e.fact = DeviceAddress(d, ip)
      BY <1>2, <2>3
    <2>5. e.fact.fields.address = ip
      BY <2>4, SMTT(40) DEF DeviceAddress, Fact
    <2> QED BY <2>4, <2>5, ZenonT(40) DEF how
  <1>5. \/ \E y \in extra : e \in Says("NdpCache", "Observed", {DeviceAddress(mac(y.mac), y.ip)})
                               \cup NameAndVendor(mac(y.mac), y.hostname, lookup_vendor(y.mac))
        \/ \E ip \in DOMAIN hosts : \E d :
             e \in Says(IF hosts[ip].mac # None THEN "ArpCache" ELSE IF hosts[ip].ports # {} THEN "TcpProbe" ELSE "IcmpProbe",
                          "Observed", {DeviceAddress(d, ip)})
                     \cup Says("NdpCache", "Observed", {DeviceAddress(d, a) : a \in hosts[ip].v6})
                     \cup NameAndVendor(d, hosts[ip].hostname, hosts[ip].vendor)
    <2> DEFINE Key(ip) == IF hosts[ip].mac # None THEN mac(hosts[ip].mac) ELSE Address(ip)
               How(ip) == IF hosts[ip].mac # None THEN "ArpCache" ELSE IF hosts[ip].ports # {} THEN "TcpProbe" ELSE "IcmpProbe"
               Here(ip) == Says(How(ip), "Observed", {DeviceAddress(Key(ip), ip)})
                           \cup Says("NdpCache", "Observed", {DeviceAddress(Key(ip), a) : a \in hosts[ip].v6})
                           \cup NameAndVendor(Key(ip), hosts[ip].hostname, hosts[ip].vendor)
               There(y) == Says("NdpCache", "Observed", {DeviceAddress(mac(y.mac), y.ip)})
                           \cup NameAndVendor(mac(y.mac), y.hostname, lookup_vendor(y.mac))
    <2>1. host_evidence = (UNION {Here(ip) : ip \in DOMAIN hosts}) \cup (UNION {There(y) : y \in extra})
      BY Zenon DEF host_evidence
    <2> HIDE DEF Here, There
    <2>2. (\E y \in extra : e \in There(y)) \/ (\E ip \in DOMAIN hosts : e \in Here(ip))
      BY <2>1
    <2> HIDE DEF Key
    <2> QED BY <2>2, Zenon DEF Here, There
  <1> QED BY <1>3, <1>4, <1>5, ZenonT(40)

\* When a network has been examined it is reachable exactly if something in it answered this run,
\* all that answered and all that a probe left for is listed as probed, a link that did not answer
\* has been provoked, and no host is put down to a connect nothing answered, for every cache, list
\* of hosts and ports and every way the probes can end (NetworkReachability, fresh_responders).
THEOREM ReachabilityIsEarned == HostSpec => []ReachableMeansAnswered
  <1>1. HostInit => HostInv
    BY HostStarts, Zenon
  <1>2. HostInv /\ [HostNext]_sweepVars => HostInv'
    BY HostKeeps, Zenon
  <1>3. HostInv => ReachableMeansAnswered
    <2> SUFFICES ASSUME HostInv, turn = "done" PROVE ReachableMeansAnswered
      BY ZenonT(40) DEF ReachableMeansAnswered
    <2>1. Reported /\ PortsAnswered /\ (on_link(case) # <<>> /\ ~truth.provoked => truth.answered # {})
      BY Zenon DEF HostInv
    <2>2. state(reach) = "Reachable" <=> truth.answered # {}
      BY <2>1, Zenon DEF Reported, state
    <2>3. \A e \in host_evidence : e.source = "TcpProbe" => e.fact.fields.address \in truth.answered
      BY <2>1, ConnectsHavePorts, Zenon DEF PortsAnswered
    <2> QED BY <2>1, <2>2, <2>3, ZenonT(40) DEF ReachableMeansAnswered, Reported
  <1> QED BY <1>1, <1>2, <1>3, PTL DEF HostSpec

\* The link sweep inside the examination of a network confirms only what it asked for, too.
THEOREM NetworkConfirmed == HostSpec => []ConfirmedByAsking
  <1>1. HostInit => HostInv
    BY HostStarts, Zenon
  <1>2. HostInv /\ [HostNext]_sweepVars => HostInv'
    BY HostKeeps, Zenon
  <1>3. HostInv => ConfirmedByAsking
    BY AccountConfirms, Zenon DEF HostInv
  <1> QED BY <1>1, <1>2, <1>3, PTL DEF HostSpec

-----------------------------------------------------------------------------
(* The pass over the device queue: what a lost task costs. *)

\* A coverage record of a device, and what its task has put together.
CoverageOf(c, owner) ==
    c \in [device : {owner}, tier : {c.tier}, endpoints : {c.endpoints},
           udp_attempted : {c.udp_attempted}, protocols_confirmed : {c.protocols_confirmed},
           auth_required : {c.auth_required}, vendor_adapters : {c.vendor_adapters},
           adapter_outcomes : {c.adapter_outcomes}, skipped : {c.skipped}]
TaskOf(k, owner) ==
    /\ k \in [stage : {k.stage}, open : {k.open}, primary : {k.primary}, out : {k.out},
              coverage : {k.coverage}]
    /\ CoverageOf(k.coverage, owner)

Joined == {d \in DOMAIN task : task[d].stage = "joined"}

\* What was taken is what the joined tasks had; a pass ends with all tasks joined or lost.
PassInv ==
    /\ queue \in Passes
    /\ task \in [DOMAIN queue -> {task[d] : d \in DOMAIN queue}]
    /\ \A d \in DOMAIN queue : TaskOf(task[d], queue[d].device)
    /\ coverage = {task[d].coverage : d \in Joined}
    /\ evidence = UNION {task[d].out : d \in Joined}
    /\ ended => \A d \in DOMAIN queue : task[d].stage \in {"joined", "lost"}

LEMMA PassStarts == InterrogationInit => PassInv
  <1> SUFFICES ASSUME InterrogationInit PROVE PassInv
    BY Zenon
  <1>1. /\ queue \in Passes /\ evidence = {} /\ coverage = {} /\ ended = FALSE
        /\ DOMAIN task = DOMAIN queue
        /\ task \in [DOMAIN queue -> {task[d] : d \in DOMAIN queue}]
    BY Zenon DEF InterrogationInit
  <1>2. ASSUME NEW d \in DOMAIN queue
        PROVE  TaskOf(task[d], queue[d].device) /\ task[d].stage = "start"
    <2>1. task[d] = [stage |-> "start", open |-> {}, primary |-> None, out |-> {},
                     coverage |-> NewCoverage(queue[d])]
      BY Zenon DEF InterrogationInit
    <2>2. CoverageOf(NewCoverage(queue[d]), queue[d].device)
      BY Zenon DEF NewCoverage, CoverageOf
    <2> QED BY <2>1, <2>2 DEF TaskOf
  <1>3. Joined = {}
    BY <1>1, <1>2, Zenon DEF Joined
  <1> QED BY <1>1, <1>2, <1>3 DEF PassInv

\* A step of one task that does not end in its being joined.
TaskStep(d, k) ==
    /\ task[d].stage \notin {"joined", "lost"}
    /\ queue' = queue /\ evidence' = evidence /\ coverage' = coverage /\ ended' = ended
    /\ task' = [task EXCEPT ![d] = k]
    /\ k.stage /= "joined"
    /\ TaskOf(k, queue[d].device)

LEMMA TaskStepKeeps ==
    ASSUME PassInv, NEW d \in DOMAIN queue, NEW k, TaskStep(d, k)
    PROVE  PassInv'
  <1>1. DOMAIN task = DOMAIN queue /\ DOMAIN task' = DOMAIN queue
    BY Zenon DEF PassInv, TaskStep
  <1>2. task'[d] = k /\ \A e \in DOMAIN queue : e /= d => task'[e] = task[e]
    BY <1>1, Zenon DEF TaskStep
  <1>3. task' \in [DOMAIN queue -> {task'[e] : e \in DOMAIN queue}]
    BY <1>1, Zenon DEF TaskStep
  <1>4. d \notin Joined /\ d \notin Joined'
    BY <1>2, Zenon DEF Joined, TaskStep
  <1>5. Joined' = Joined
    BY <1>1, <1>2, <1>4 DEF Joined
  <1>6. \A e \in Joined : task'[e] = task[e]
    BY <1>1, <1>2, <1>4, Zenon DEF Joined
  <1>7. coverage' = {task'[e].coverage : e \in Joined'} /\ evidence' = UNION {task'[e].out : e \in Joined'}
    <2>1. {task'[e].coverage : e \in Joined'} = {task[e].coverage : e \in Joined}
      BY <1>5, <1>6, Zenon
    <2>2. {task'[e].out : e \in Joined'} = {task[e].out : e \in Joined}
      BY <1>5, <1>6, Zenon
    <2> QED BY <2>1, <2>2, Zenon DEF PassInv, TaskStep
  <1>8. \A e \in DOMAIN queue : TaskOf(task'[e], queue[e].device)
    BY <1>2, Zenon DEF PassInv, TaskStep
  <1>9. ended' = FALSE \/ ~ended'
    BY Zenon DEF PassInv, TaskStep
  <1>10. queue' = queue /\ queue \in Passes
    BY Zenon DEF PassInv, TaskStep
  <1> QED BY <1>3, <1>7, <1>8, <1>9, <1>10, Zenon DEF PassInv

\* What the steps of a task do to its record.
LEMMA AddKeeps ==
    ASSUME NEW k, NEW answer, NEW owner, TaskOf(k, owner)
    PROVE  TaskOf(Add(k, answer), owner) /\ Add(k, answer).stage = k.stage
  BY Zenon DEF TaskOf, CoverageOf, Add

LEMMA StageOneStep ==
    ASSUME PassInv, NEW d \in DOMAIN queue, NEW fault, StageOne(d, fault)
    PROVE  \E k : TaskStep(d, k)
  <1> DEFINE t == queue[d]
             begun == [task[d] EXCEPT !.stage = "two", !.open = sweep_ports(t, 1, STAGE_ONE_PORTS, fault).open,
                          !.primary = EndpointCoverage(1, TRUE, sweep_ports(t, 1, STAGE_ONE_PORTS, fault), None)]
             asked == [begun EXCEPT !.coverage.udp_attempted = CONTROL_PLANE_UDP_PORTS \cup {RIP_PORT}]
             none == [task[d] EXCEPT !.stage = "providers", !.coverage = skipped(t)]
  <1>1. TaskOf(task[d], t.device)
    BY Zenon DEF PassInv
  <1>2. TaskOf(begun, t.device) /\ begun.stage = "two"
    BY <1>1, Zenon DEF TaskOf
  <1>3. TaskOf(asked, t.device) /\ asked.stage = "two"
    <2> HIDE DEF begun
    <2> QED BY <1>2, Zenon DEF TaskOf, CoverageOf
  <1>4. TaskOf(none, t.device) /\ none.stage = "providers"
    <2>1. CoverageOf(skipped(t), t.device)
      BY Zenon DEF skipped, NewCoverage, CoverageOf
    <2> QED BY <1>1, <2>1, Zenon DEF TaskOf
  <1>5. TaskOf(Add(asked, probe_control_plane(t)), t.device) /\ Add(asked, probe_control_plane(t)).stage = "two"
    <2> HIDE DEF asked, t
    <2> QED BY <1>3, AddKeeps, Zenon
  <1>6. \/ task' = [task EXCEPT ![d] = none]
        \/ task' = [task EXCEPT ![d] = begun]
        \/ task' = [task EXCEPT ![d] = Add(asked, probe_control_plane(t))]
    BY Zenon DEF StageOne, Set
  <1>7. /\ task[d].stage = "start"
        /\ queue' = queue /\ evidence' = evidence /\ coverage' = coverage /\ ended' = ended
    BY Zenon DEF StageOne, Rest
  <1> HIDE DEF none, begun, asked
  <1>8. CASE task' = [task EXCEPT ![d] = none]
    BY <1>4, <1>7, <1>8, Zenon DEF TaskStep
  <1>9. CASE task' = [task EXCEPT ![d] = begun]
    BY <1>2, <1>7, <1>9, Zenon DEF TaskStep
  <1>10. CASE task' = [task EXCEPT ![d] = Add(asked, probe_control_plane(t))]
    BY <1>5, <1>7, <1>10, Zenon DEF TaskStep
  <1> QED BY <1>6, <1>8, <1>9, <1>10, Zenon

LEMMA StageTwoStep ==
    ASSUME PassInv, NEW d \in DOMAIN queue, NEW fault, StageTwo(d, fault)
    PROVE  \E k : TaskStep(d, k)
  <1> DEFINE t == queue[d]
             swept == sweep_ports(t, 1, STAGE_TWO_PORTS, fault)
             said == [task[d] EXCEPT !.stage = "confirm", !.primary.omitted = "stage 2"]
             more == [task[d] EXCEPT !.stage = "confirm", !.open = @ \cup swept.open,
                        !.primary.stages_run = 2, !.primary.tcp_responsive = @ \cup swept.open,
                        !.primary.tcp_attempted = @ + Cardinality(STAGE_TWO_PORTS),
                        !.primary.not_sent = merge_failures(@, swept.not_sent)]
  <1>1. TaskOf(task[d], t.device)
    BY Zenon DEF PassInv
  <1>2. TaskOf(said, t.device) /\ said.stage = "confirm"
    BY <1>1, Zenon DEF TaskOf
  <1>3. TaskOf(more, t.device) /\ more.stage = "confirm"
    BY <1>1, Zenon DEF TaskOf
  <1>4. task' = [task EXCEPT ![d] = said] \/ task' = [task EXCEPT ![d] = more]
    BY Zenon DEF StageTwo, Set
  <1>5. /\ task[d].stage = "two"
        /\ queue' = queue /\ evidence' = evidence /\ coverage' = coverage /\ ended' = ended
    BY Zenon DEF StageTwo, Rest
  <1> HIDE DEF said, more
  <1>6. CASE task' = [task EXCEPT ![d] = said]
    BY <1>2, <1>5, <1>6, Zenon DEF TaskStep
  <1>7. CASE task' = [task EXCEPT ![d] = more]
    BY <1>3, <1>5, <1>7, Zenon DEF TaskStep
  <1> QED BY <1>4, <1>6, <1>7, Zenon

LEMMA StageThreeStep ==
    ASSUME PassInv, NEW d \in DOMAIN queue, NEW late, StageThree(d, late)
    PROVE  \E k : TaskStep(d, k)
  <1> DEFINE t == queue[d]
             first == <<[task[d].primary EXCEPT !.stages_run = IF task[d].open = {} THEN @ ELSE 3]>>
             k == [task[d] EXCEPT !.stage = "secondary", !.out = @ \cup OpenServices(t, 1, task[d].open),
                                  !.coverage.endpoints = first]
             confirmed == \E n \in task[d].coverage.protocols_confirmed : n.proto = "dns/53"
             answer == Both(confirm_protocols(t, task[d].open, confirmed, late),
                            Answer(probe_ai_services(t, task[d].open), {}, {}))
  <1>1. TaskOf(task[d], t.device)
    BY Zenon DEF PassInv
  <1>2. TaskOf(k, t.device) /\ k.stage = "secondary"
    <2> HIDE DEF first
    <2> QED BY <1>1, Zenon DEF TaskOf, CoverageOf
  <1>3. task' = [task EXCEPT ![d] = k] \/ task' = [task EXCEPT ![d] = Add(k, answer)]
    BY Zenon DEF StageThree, Set
  <1>4. /\ task[d].stage = "confirm"
        /\ queue' = queue /\ evidence' = evidence /\ coverage' = coverage /\ ended' = ended
    BY Zenon DEF StageThree, Rest
  <1> HIDE DEF k, answer
  <1>5. TaskOf(Add(k, answer), t.device) /\ Add(k, answer).stage = "secondary"
    <2> HIDE DEF t
    <2> QED BY <1>2, AddKeeps, Zenon
  <1>6. CASE task' = [task EXCEPT ![d] = k]
    BY <1>2, <1>4, <1>6, Zenon DEF TaskStep
  <1>7. CASE task' = [task EXCEPT ![d] = Add(k, answer)]
    BY <1>5, <1>4, <1>7, Zenon DEF TaskStep
  <1> QED BY <1>3, <1>6, <1>7, Zenon

LEMMA SecondaryStep ==
    ASSUME PassInv, NEW d \in DOMAIN queue, NEW fault, Secondary(d, fault)
    PROVE  \E k : TaskStep(d, k)
  <1> DEFINE t == queue[d]
             e == Len(task[d].coverage.endpoints) + 1
             swept == sweep_ports(t, e, STAGE_ONE_PORTS, fault)
             over == [task[d] EXCEPT !.stage = "adapters"]
             more == [task[d] EXCEPT
                        !.out = @ \cup OpenServices(t, e, swept.open),
                        !.coverage.endpoints =
                           Append(@, EndpointCoverage(e, FALSE, swept, "stages 2-3"))]
  <1>1. TaskOf(task[d], t.device) /\ task[d].stage = "secondary"
    BY Zenon DEF PassInv, Secondary
  <1>2. TaskOf(over, t.device) /\ over.stage = "adapters"
    BY <1>1, Zenon DEF TaskOf
  <1>3. TaskOf(more, t.device) /\ more.stage = "secondary"
    BY <1>1, Zenon DEF TaskOf, CoverageOf
  <1>4. task' = [task EXCEPT ![d] = over] \/ task' = [task EXCEPT ![d] = more]
    BY Zenon DEF Secondary, Set
  <1>5. queue' = queue /\ evidence' = evidence /\ coverage' = coverage /\ ended' = ended
    BY Zenon DEF Secondary, Rest
  <1> HIDE DEF over, more
  <1>6. CASE task' = [task EXCEPT ![d] = over]
    BY <1>1, <1>2, <1>5, <1>6, Zenon DEF TaskStep
  <1>7. CASE task' = [task EXCEPT ![d] = more]
    BY <1>1, <1>3, <1>5, <1>7, Zenon DEF TaskStep
  <1> QED BY <1>4, <1>6, <1>7, Zenon

LEMMA AdaptersStep ==
    ASSUME PassInv, NEW d \in DOMAIN queue, Adapters(d)
    PROVE  \E k : TaskStep(d, k)
  <1> DEFINE selected == selected_adapters(absorb_evidence(queue[d].known, task[d].out), task[d].open)
             k == [task[d] EXCEPT !.stage = "providers", !.coverage.vendor_adapters = selected,
                                  !.coverage.adapter_outcomes = run_adapters(selected)]
  <1>1. TaskOf(task[d], queue[d].device)
    BY Zenon DEF PassInv
  <1>2. TaskOf(k, queue[d].device) /\ k.stage = "providers"
    BY <1>1, Zenon DEF TaskOf, CoverageOf
  <1>3. /\ task[d].stage = "adapters" /\ task' = [task EXCEPT ![d] = k]
        /\ queue' = queue /\ evidence' = evidence /\ coverage' = coverage /\ ended' = ended
    BY Zenon DEF Adapters, Set, Rest
  <1> HIDE DEF k
  <1> QED BY <1>2, <1>3, Zenon DEF TaskStep

LEMMA ProvidersStep ==
    ASSUME PassInv, NEW d \in DOMAIN queue, NEW answered \in BOOLEAN, Providers(d, answered)
    PROVE  \E k : TaskStep(d, k)
  <1> DEFINE k == [task[d] EXCEPT !.stage = "done"]
  <1>1. TaskOf(task[d], queue[d].device)
    BY Zenon DEF PassInv
  <1>2. TaskOf(k, queue[d].device) /\ k.stage = "done"
    BY <1>1, Zenon DEF TaskOf
  <1>3. PICK answer : task' = [task EXCEPT ![d] = Add(k, answer)]
    BY Zenon DEF Providers, Set
  <1>4. /\ task[d].stage = "providers"
        /\ queue' = queue /\ evidence' = evidence /\ coverage' = coverage /\ ended' = ended
    BY Zenon DEF Providers, Rest
  <1> HIDE DEF k
  <1>5. TaskOf(Add(k, answer), queue[d].device) /\ Add(k, answer).stage = "done"
    BY <1>2, AddKeeps, Zenon
  <1> QED BY <1>3, <1>4, <1>5, Zenon DEF TaskStep

LEMMA PanicStep ==
    ASSUME PassInv, NEW d \in DOMAIN queue, Panic(d)
    PROVE  \E k : TaskStep(d, k)
  <1> DEFINE k == [task[d] EXCEPT !.stage = "lost"]
  <1>1. TaskOf(task[d], queue[d].device) /\ task \in [DOMAIN queue -> {task[e] : e \in DOMAIN queue}]
    BY Zenon DEF PassInv
  <1>2. TaskOf(k, queue[d].device) /\ k.stage = "lost"
    BY <1>1, Zenon DEF TaskOf
  <1>3. task' = [task EXCEPT ![d] = k]
    BY Zenon DEF Panic
  <1>4. /\ task[d].stage \notin {"joined", "lost"}
        /\ queue' = queue /\ evidence' = evidence /\ coverage' = coverage /\ ended' = ended
    BY Zenon DEF Panic, Rest
  <1> HIDE DEF k
  <1> QED BY <1>2, <1>3, <1>4, Zenon DEF TaskStep

LEMMA JoinKeeps ==
    ASSUME PassInv, NEW d \in DOMAIN queue, Join(d)
    PROVE  PassInv'
  <1> DEFINE k == [task[d] EXCEPT !.stage = "joined"]
  <1>1. TaskOf(task[d], queue[d].device) /\ task \in [DOMAIN queue -> {task[e] : e \in DOMAIN queue}]
    BY Zenon DEF PassInv
  <1>2. /\ TaskOf(k, queue[d].device) /\ k.stage = "joined"
        /\ k.out = task[d].out /\ k.coverage = task[d].coverage
    BY <1>1, Zenon DEF TaskOf
  <1>3. task' = [task EXCEPT ![d] = k]
    BY Zenon DEF Join
  <1>4. task[d].stage = "done" /\ queue' = queue /\ ended' = ended
    BY Zenon DEF Join
  <1> HIDE DEF k
  <1>5. DOMAIN task = DOMAIN queue /\ DOMAIN task' = DOMAIN queue
    BY <1>1, <1>3
  <1>6. task'[d] = k /\ \A e \in DOMAIN queue : e /= d => task'[e] = task[e]
    BY <1>3, <1>5, Zenon
  <1>7. task' \in [DOMAIN queue -> {task'[e] : e \in DOMAIN queue}]
    BY <1>3, <1>5, Zenon
  <1>8. Joined' = Joined \cup {d}
    BY <1>2, <1>5, <1>6, Zenon DEF Joined
  <1>9. \A e \in Joined' : task'[e].out = task[e].out /\ task'[e].coverage = task[e].coverage
    BY <1>2, <1>5, <1>6, Zenon DEF Joined
  <1>10. coverage' = {task'[e].coverage : e \in Joined'}
    <2>1. {task'[e].coverage : e \in Joined'} = {task[e].coverage : e \in Joined} \cup {task[d].coverage}
      BY <1>8, <1>9
    <2> QED BY <2>1, Zenon DEF PassInv, Join
  <1>11. evidence' = UNION {task'[e].out : e \in Joined'}
    <2>1. {task'[e].out : e \in Joined'} = {task[e].out : e \in Joined} \cup {task[d].out}
      BY <1>8, <1>9
    <2>2. evidence = UNION {task[e].out : e \in Joined} /\ evidence' = evidence \cup task[d].out
      BY Zenon DEF PassInv, Join
    <2> QED BY <2>1, <2>2, Zenon
  <1>12. \A e \in DOMAIN queue : TaskOf(task'[e], queue[e].device)
    BY <1>2, <1>6, Zenon DEF PassInv
  <1>13. ~ended
    BY <1>4, Zenon DEF PassInv
  <1>14. queue' \in Passes
    BY <1>4, Zenon DEF PassInv
  <1> QED BY <1>4, <1>7, <1>10, <1>11, <1>12, <1>13, <1>14, Zenon DEF PassInv

LEMMA PassSteps == PassInv /\ [InterrogationNext]_interrogationVars => PassInv'
  <1> SUFFICES ASSUME PassInv, [InterrogationNext]_interrogationVars PROVE PassInv'
    BY Zenon
  <1>1. ASSUME NEW d \in DOMAIN queue, \E k : TaskStep(d, k) PROVE PassInv'
    BY <1>1, TaskStepKeeps, Zenon
  <1>2. CASE EndPass
    <2>1. UNCHANGED <<queue, task, evidence, coverage>> /\ Joined' = Joined
      BY <1>2, Zenon DEF EndPass, Joined
    <2>2. DOMAIN task = DOMAIN queue
      BY Zenon DEF PassInv
    <2>3. \A d \in DOMAIN queue : task[d].stage \in {"joined", "lost"}
      BY <1>2, <2>2, Zenon DEF EndPass
    <2> QED BY <2>1, <2>3, Zenon DEF PassInv
  <1>3. CASE UNCHANGED interrogationVars
    BY <1>3, Zenon DEF PassInv, Joined, interrogationVars
  <1>4. ASSUME NEW d \in DOMAIN queue, NEW fault \in LocalFaults,
               StageOne(d, fault) \/ StageTwo(d, fault) \/ Secondary(d, fault)
        PROVE  PassInv'
    BY <1>1, <1>4, StageOneStep, StageTwoStep, SecondaryStep, Zenon
  <1>5. ASSUME NEW d \in DOMAIN queue, NEW late \in BOOLEAN, StageThree(d, late) PROVE PassInv'
    BY <1>1, <1>5, StageThreeStep, Zenon
  <1>6. ASSUME NEW d \in DOMAIN queue, NEW answered \in BOOLEAN, Providers(d, answered) PROVE PassInv'
    BY <1>1, <1>6, ProvidersStep, Zenon
  <1>7. ASSUME NEW d \in DOMAIN queue, Adapters(d) \/ Panic(d) \/ Join(d) PROVE PassInv'
    BY <1>1, <1>7, AdaptersStep, PanicStep, JoinKeeps, Zenon
  <1> QED BY <1>2, <1>3, <1>4, <1>5, <1>6, <1>7, Zenon DEF InterrogationNext

\* At the end the joined tasks are those not lost, and each has a record of its own.
LEMMA PassEnds == PassInv => PassKeepsTheRest
  <1> SUFFICES ASSUME PassInv, ended PROVE PassKeepsTheRest
    BY Zenon DEF PassKeepsTheRest
  <1> DEFINE kept == {d \in DOMAIN task : task[d].stage # "lost"}
  <1>1. DOMAIN task = DOMAIN queue
    BY Zenon DEF PassInv
  <1>2. kept = Joined
    BY <1>1, Zenon DEF PassInv, Joined
  <1>3. coverage = {task[d].coverage : d \in kept} /\ evidence = UNION {task[d].out : d \in kept}
    BY <1>2, Zenon DEF PassInv
  <1>5. \A d, e \in kept : task[d].coverage = task[e].coverage => d = e
    <2>1. \A d \in kept : d \in DOMAIN queue /\ task[d].coverage.device = queue[d].device
      BY <1>1, Zenon DEF PassInv, TaskOf, CoverageOf
    <2>2. \A d, e \in DOMAIN queue : queue[d].device = queue[e].device => d = e
      BY PassAssumption, Zenon DEF PassInv
    <2> HIDE DEF kept
    <2> QED BY <2>1, <2>2, ZenonT(40)
  <1> QED BY <1>3, <1>5, Zenon DEF PassKeepsTheRest

\* A task that panics costs its own device and no other, for any queue of distinct devices, any
\* answers and any order in which the tasks end (enrich_devices).
THEOREM PassKeepsOthers == InterrogationSpec => []PassKeepsTheRest
  <1>1. InterrogationInit => PassInv
    BY PassStarts, Zenon
  <1>2. PassInv /\ [InterrogationNext]_interrogationVars => PassInv'
    BY PassSteps, Zenon
  <1>3. PassInv => PassKeepsTheRest
    BY PassEnds, Zenon
  <1> QED BY <1>1, <1>2, <1>3, PTL DEF InterrogationSpec

=============================================================================
