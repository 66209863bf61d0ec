------------------------ MODULE FederationLinkProofs ------------------------
(* Proofs about the link of two peers through the relay, for any sizes,        *)
(* limits, number of messages and of broken connections.                       *)
(*                                                                             *)
(* No nonce is used twice under one key: a handshake draws keys above all      *)
(* earlier ones; `low` is the lower of the two drawn last.  The argument is    *)
(* that a session whose ephemerals are the latest has the prefix its side's    *)
(* ephemeral gives it, that two sides of one session have different prefixes,  *)
(* and that a side which has moved on never returns to an earlier key.         *)
(*                                                                             *)
(* The rest is about what passes through the relay (RelayProofs): it is the    *)
(* mailbox it promises to be, it stays within its limits, and what a peer      *)
(* opens is in the order of sealing, because what waits for it continues what  *)
(* it has opened.                                                              *)
EXTENDS RelayProofs

-----------------------------------------------------------------------------
(* No nonce is used twice. *)

SessionsOf ==
    [key : Nat \X Nat, peer : Peers, send_prefix : {0, 1}, receive_prefix : {0, 1}, sent : Nat]

\* The keys of consecutive ephemerals.
Consecutive(key) == key = <<key[1], key[1] + 1>>

\* The offers of the latest handshake.
OfferInv(low) ==
    /\ \A p \in Peers : offers[p].ephemeral \in {low, low + 1}
    /\ \/ \A p \in Peers : offers[p] = NoOffer /\ low = 0
       \/ /\ \A p \in Peers : offers[p] = Handshake(p, offers[p].ephemeral)
          /\ \A p, q \in Peers : p /= q => offers[p].ephemeral /= offers[q].ephemeral

\* Sessions, and the two sides of one.
SessionInv(low) ==
    /\ sessions \in [Peers -> SessionsOf \cup {NoSession}]
    /\ \A p \in Peers : sessions[p] \in SessionsOf =>
         /\ Consecutive(sessions[p].key) /\ sessions[p].key[1] <= low
         /\ sessions[p].key[1] = low =>
              sessions[p].send_prefix = IF offers[p].ephemeral = low THEN 0 ELSE 1
    /\ \A p, q \in Peers :
         p /= q /\ sessions[p] \in SessionsOf /\ sessions[q] \in SessionsOf
           /\ sessions[p].key = sessions[q].key
         => sessions[p].send_prefix /= sessions[q].send_prefix

\* A frame lies behind the session that sealed it, and beside the other side's.
Behind(f, held) ==
    LET p == f.message.from
    IN  /\ held[p] \in SessionsOf
        /\ Consecutive(f.key) /\ f.key[1] <= held[p].key[1]
        /\ f.key = held[p].key =>
             f.prefix = held[p].send_prefix /\ f.counter < held[p].sent
        /\ \A q \in Peers \ {p} :
             held[q] \in SessionsOf /\ f.key = held[q].key
             => f.prefix /= held[q].send_prefix

SealedInv ==
    /\ sealed \in Seq(Frames)
    /\ \A i \in DOMAIN sealed : Behind(sealed[i], sessions)

LinkInv(low) == OfferInv(low) /\ SessionInv(low) /\ SealedInv /\ NonceNeverReused

Inv == \E low \in Nat : LinkInv(low)

\* The other one of two.
LEMMA Others ==
    ASSUME NEW p \in Peers
    PROVE  Other(p) \in Peers /\ Other(p) /= p
  <1>1. \E q \in Peers : q /= p
    BY LinkAssumption, Zenon
  <1> QED BY <1>1, Zenon DEF Other

\* A session has a key, no session has none.
LEMMA NotASession == NoSession \notin SessionsOf
  BY DEF NoSession, SessionsOf

\* Nothing has been offered or sealed yet.
LEMMA Initially == Init => Inv
  <1> SUFFICES ASSUME Init PROVE LinkInv(0)
    BY Zenon DEF Inv
  <1>1. OfferInv(0)
    BY Zenon DEF Init, OfferInv, NoOffer
  <1>2. SessionInv(0)
    BY NotASession, Zenon DEF Init, SessionInv
  <1>3. SealedInv /\ NonceNeverReused
    BY DEF Init, SealedInv, NonceNeverReused
  <1> QED BY <1>1, <1>2, <1>3, Zenon DEF LinkInv

\* A new handshake draws keys above all that are in use.
LEMMA ConnectKeeps ==
    ASSUME Inv, NEW n \in 1..(MaxFailures + 1), Connect(n)
    PROVE  Inv'
  <1>1. PICK low \in Nat : LinkInv(low)
    BY Zenon DEF Inv
  <1>2. PICK k \in [Peers -> Ephemerals(n)] :
          /\ \A p, q \in Peers : p /= q => k[p] /= k[q]
          /\ offers' = [p \in Peers |-> Handshake(p, k[p])]
    BY Zenon DEF Connect
  <1>3. UNCHANGED <<sessions, sealed>> /\ n \in Nat /\ n >= 1
    BY LinkAssumption DEF Connect
  <1>4. low = 2 * (n - 1)
    <2>1. PICK p, q \in Peers : p /= q /\ Peers = {p, q}
      BY LinkAssumption, Zenon
    <2>2. /\ offers[p].ephemeral \in {2 * (n - 1), 2 * (n - 1) + 1}
          /\ offers[q].ephemeral \in {2 * (n - 1), 2 * (n - 1) + 1}
      BY <2>1, Zenon DEF Connect, Ephemerals
    <2>3. CASE low = 0 /\ offers[p] = NoOffer
      BY <1>3, <2>2, <2>3 DEF NoOffer
    <2>4. CASE offers[p].ephemeral /= offers[q].ephemeral
      BY <1>1, <1>3, <2>1, <2>2, <2>4 DEF LinkInv, OfferInv
    <2> QED BY <1>1, <2>1, <2>3, <2>4, Zenon DEF LinkInv, OfferInv
  <1>5. OfferInv(low + 2)'
    <2>1. \A p \in Peers : k[p] \in {low + 2, low + 2 + 1}
      BY <1>2, <1>3, <1>4 DEF Ephemerals
    <2>2. \A p \in Peers : offers'[p] = Handshake(p, k[p]) /\ offers'[p].ephemeral = k[p]
      BY <1>2, Zenon DEF Handshake
    <2> QED BY <1>2, <2>1, <2>2 DEF OfferInv
  <1>6. SessionInv(low + 2)'
    <2>1. ASSUME NEW p \in Peers, sessions[p] \in SessionsOf
          PROVE  sessions[p].key[1] <= low + 2 /\ sessions[p].key[1] /= low + 2
      <3>1. sessions[p].key[1] <= low /\ sessions[p].key \in Nat \X Nat
        BY <1>1, <2>1 DEF LinkInv, SessionInv, SessionsOf
      <3> QED BY <3>1
    <2> QED BY <1>1, <1>3, <2>1, Zenon DEF LinkInv, SessionInv
  <1>7. SealedInv' /\ NonceNeverReused'
    BY <1>1, <1>3 DEF LinkInv, SealedInv, NonceNeverReused
  <1> QED BY <1>5, <1>6, <1>7 DEF Inv, LinkInv

\* Accepting puts one side on the latest key, with the prefix its own ephemeral gives it.
LEMMA AcceptKeeps ==
    ASSUME Inv, NEW p \in Peers, Accept(p)
    PROVE  Inv'
  <1>1. PICK low \in Nat : LinkInv(low)
    BY Zenon DEF Inv
  <1> DEFINE ours == offers[p].ephemeral
             theirs == offers[Other(p)].ephemeral
             fresh == accept(offers[p], offers[Other(p)], {Other(p)})
  <1>2. /\ fresh /= NoSession /\ sessions[p].key /= fresh.key
        /\ sessions' = [sessions EXCEPT ![p] = fresh]
        /\ UNCHANGED <<offers, sealed>>
    BY Zenon DEF Accept
  <1>3. ours \in {low, low + 1} /\ theirs \in {low, low + 1} /\ ours /= theirs
    <2>1. offers[p] /= NoOffer
      BY Zenon DEF Accept
    <2> QED BY <1>1, <2>1, Others DEF LinkInv, OfferInv
  <1>4. fresh = [key |-> OrderedPair(ours, theirs), peer |-> offers[Other(p)].peer,
                 send_prefix |-> send_prefix(ours, theirs),
                 receive_prefix |-> 1 - send_prefix(ours, theirs), sent |-> 0]
        /\ offers[Other(p)].peer = Other(p)
    BY <1>2, Zenon DEF accept
  <1>5. /\ OrderedPair(ours, theirs) = <<low, low + 1>>
        /\ send_prefix(ours, theirs) = IF ours = low THEN 0 ELSE 1
    BY <1>3 DEF OrderedPair, send_prefix
  <1> HIDE DEF fresh, ours, theirs
  <1>6. /\ fresh \in SessionsOf /\ fresh.key = <<low, low + 1>>
        /\ fresh.send_prefix = (IF ours = low THEN 0 ELSE 1) /\ fresh.key[1] = low
    BY <1>4, <1>5, Others DEF SessionsOf
  <1>7. /\ sessions \in [Peers -> SessionsOf \cup {NoSession}]
        /\ sessions'[p] = fresh /\ \A q \in Peers \ {p} : sessions'[q] = sessions[q]
    BY <1>1, <1>2, Zenon DEF LinkInv, SessionInv
  <1>8. \A q \in Peers \ {p} : offers[q].ephemeral \in {low, low + 1} /\ offers[q].ephemeral /= ours
    <2>1. offers[p] /= NoOffer
      BY Zenon DEF Accept
    <2> QED BY <1>1, <2>1, Zenon DEF LinkInv, OfferInv, ours
  <1>9. \A q \in Peers \ {p} : sessions[q] \in SessionsOf /\ sessions[q].key[1] = low =>
           sessions[q].send_prefix /= fresh.send_prefix
    BY <1>1, <1>3, <1>6, <1>8 DEF LinkInv, SessionInv
  <1>10. SessionInv(low)'
    <2>1. sessions' \in [Peers -> SessionsOf \cup {NoSession}]
      BY <1>2, <1>6, <1>7, Zenon
    <2>2. ASSUME NEW q \in Peers, sessions'[q] \in SessionsOf
          PROVE  /\ Consecutive(sessions'[q].key) /\ sessions'[q].key[1] <= low
                 /\ sessions'[q].key[1] = low =>
                      sessions'[q].send_prefix = IF offers[q].ephemeral = low THEN 0 ELSE 1
      <3>1. CASE q = p
        BY <1>6, <1>7, <3>1 DEF Consecutive, ours
      <3>2. CASE q /= p
        BY <1>1, <1>7, <2>2, <3>2, Zenon DEF LinkInv, SessionInv
      <3> QED BY <3>1, <3>2, Zenon
    <2>3. ASSUME NEW q \in Peers, NEW r \in Peers, q /= r, sessions'[q] \in SessionsOf,
                 sessions'[r] \in SessionsOf, sessions'[q].key = sessions'[r].key
          PROVE  sessions'[q].send_prefix /= sessions'[r].send_prefix
      <3>1. CASE q /= p /\ r /= p
        BY <1>1, <1>7, <2>3, <3>1 DEF LinkInv, SessionInv
      <3>2. CASE q = p
        BY <1>6, <1>7, <1>9, <2>3, <3>2, SMTT(30)
      <3>3. CASE r = p
        BY <1>6, <1>7, <1>9, <2>3, <3>3
      <3> QED BY <3>1, <3>2, <3>3
    <2> QED BY <1>2, <2>1, <2>2, <2>3, Zenon DEF SessionInv
  <1>11. SealedInv'
    <2> SUFFICES ASSUME NEW f \in Frames, Behind(f, sessions) PROVE Behind(f, sessions')
      <3>1. \A i \in DOMAIN sealed : sealed[i] \in Frames /\ Behind(sealed[i], sessions)
        BY <1>1 DEF LinkInv, SealedInv
      <3> QED BY <1>1, <1>2, <3>1, ZenonT(40) DEF LinkInv, SealedInv
    <2> DEFINE q == f.message.from
    <2>1. q \in Peers /\ f.key \in Nat \X Nat
      BY Zenon DEF Frames
    <2>2. /\ sessions[q] \in SessionsOf
          /\ Consecutive(f.key) /\ f.key[1] <= sessions[q].key[1]
          /\ f.key = sessions[q].key =>
               f.prefix = sessions[q].send_prefix /\ f.counter < sessions[q].sent
          /\ \A r \in Peers \ {q} : sessions[r] \in SessionsOf /\ f.key = sessions[r].key
                                      => f.prefix /= sessions[r].send_prefix
      BY Zenon DEF Behind
    <2> HIDE DEF q
    <2>3. /\ sessions[q].key \in Nat \X Nat /\ Consecutive(sessions[q].key)
          /\ sessions[q].key[1] <= low
      BY <1>1, <2>1, <2>2 DEF LinkInv, SessionInv, SessionsOf
    <2>4. f.key[1] = low => /\ f.key = sessions[q].key /\ sessions[q].key[1] = low
                            /\ sessions[q].key = fresh.key
      BY <1>6, <2>1, <2>2, <2>3, SMTT(30) DEF Consecutive
    <2>5. CASE q = p
      <3>1. f.key /= fresh.key
        BY <1>2, <1>6, <2>4, <2>5
      <3>2. \A r \in Peers \ {q} : sessions'[r] = sessions[r]
        BY <1>7, <2>5, SMTT(30)
      <3> QED BY <1>6, <1>7, <2>1, <2>2, <2>3, <2>5, <3>1, <3>2, SMTT(30) DEF Behind, q
    <2>6. CASE q /= p
      <3>1. sessions'[q] = sessions[q]
        BY <1>7, <2>1, <2>6
      <3>2. ASSUME NEW r \in Peers \ {q}, sessions'[r] \in SessionsOf, f.key = sessions'[r].key
            PROVE  f.prefix /= sessions'[r].send_prefix
        <4>1. CASE r /= p
          BY <1>7, <2>2, <3>2, <4>1, SMTT(30)
        <4>2. CASE r = p
          <5>1. f.key[1] = low
            BY <1>6, <1>7, <3>2, <4>2
          <5>2. f.prefix = sessions[q].send_prefix /\ sessions[q].key[1] = low
            BY <2>2, <2>4, <5>1
          <5> QED BY <1>7, <1>9, <2>1, <2>2, <2>6, <4>2, <5>2, SMTT(30)
        <4> QED BY <4>1, <4>2
      <3> QED BY <2>2, <3>1, <3>2 DEF Behind, q
    <2> QED BY <2>5, <2>6
  <1>12. OfferInv(low)' /\ NonceNeverReused'
    BY <1>1, <1>2 DEF LinkInv, OfferInv, NonceNeverReused
  <1> QED BY <1>10, <1>11, <1>12, Zenon DEF Inv, LinkInv

\* What sending does to the session: its counter is spent, or used up already.
LEMMA Sends ==
    ASSUME NEW session \in SessionsOf, NEW message
    PROVE  LET result == send(session, message)
               f == [key |-> session.key, prefix |-> session.send_prefix, counter |-> session.sent,
                     message |-> message, size |-> message.size + SEALING_BYTES]
           IN  \/ result.session = session /\ result.frames = {}
               \/ /\ result.session = [session EXCEPT !.sent = session.sent + 1]
                  /\ result.frames = {} \/ result.frames = {f}
  <1>1. CASE session.sent = U64_MAX
    BY <1>1, Zenon DEF send, seal
  <1>2. CASE session.sent /= U64_MAX
    BY <1>2, Zenon DEF send, seal
  <1> QED BY <1>1, <1>2, Zenon

\* A spent counter leaves what was sealed behind it.
LEMMA CounterMoves ==
    ASSUME NEW low \in Nat, LinkInv(low), NEW p \in Peers, sessions[p] \in SessionsOf,
           sessions' = [sessions EXCEPT ![p] = [sessions[p] EXCEPT !.sent = sessions[p].sent + 1]],
           UNCHANGED offers
    PROVE  /\ SessionInv(low)'
           /\ \A f \in Frames : Behind(f, sessions) => Behind(f, sessions')
  <1>1. /\ sessions \in [Peers -> SessionsOf \cup {NoSession}]
        /\ \A q \in Peers \ {p} : sessions'[q] = sessions[q]
        /\ sessions'[p] = [sessions[p] EXCEPT !.sent = sessions[p].sent + 1]
    BY Zenon DEF LinkInv, SessionInv
  <1>2. /\ sessions'[p] \in SessionsOf /\ sessions'[p].key = sessions[p].key
        /\ sessions'[p].send_prefix = sessions[p].send_prefix
        /\ sessions'[p].sent = sessions[p].sent + 1 /\ sessions[p].sent \in Nat
    BY <1>1 DEF SessionsOf
  <1>3. \A q \in Peers :
          /\ sessions'[q] \in SessionsOf <=> sessions[q] \in SessionsOf
          /\ sessions[q] \in SessionsOf =>
               /\ sessions'[q].key = sessions[q].key
               /\ sessions'[q].send_prefix = sessions[q].send_prefix
               /\ sessions'[q].sent \in Nat /\ sessions[q].sent \in Nat
               /\ sessions'[q].sent >= sessions[q].sent
    <2>1. \A q \in Peers : sessions[q] \in SessionsOf => sessions[q].sent \in Nat
      BY Zenon DEF SessionsOf
    <2> QED BY <1>1, <1>2, <2>1
  <1>4. SessionInv(low)'
    <2>1. sessions' \in [Peers -> SessionsOf \cup {NoSession}]
      BY <1>1, <1>2, Zenon
    <2> QED BY <1>3, <2>1 DEF LinkInv, SessionInv
  <1>5. ASSUME NEW f \in Frames, Behind(f, sessions) PROVE Behind(f, sessions')
    <2> DEFINE q == f.message.from
    <2>1. q \in Peers /\ f.counter \in Nat
      BY Zenon DEF Frames
    <2>2. /\ sessions[q] \in SessionsOf
          /\ Consecutive(f.key) /\ f.key[1] <= sessions[q].key[1]
          /\ f.key = sessions[q].key =>
               f.prefix = sessions[q].send_prefix /\ f.counter < sessions[q].sent
          /\ \A r \in Peers \ {q} : sessions[r] \in SessionsOf /\ f.key = sessions[r].key
                                      => f.prefix /= sessions[r].send_prefix
      BY <1>5, Zenon DEF Behind
    <2> HIDE DEF q
    <2>3. /\ sessions'[q] \in SessionsOf /\ sessions'[q].key = sessions[q].key
          /\ sessions'[q].send_prefix = sessions[q].send_prefix
          /\ f.counter < sessions[q].sent => f.counter < sessions'[q].sent
      BY <1>3, <2>1, <2>2
    <2>4. \A r \in Peers \ {q} : sessions'[r] \in SessionsOf /\ f.key = sessions'[r].key
                                   => f.prefix /= sessions'[r].send_prefix
      BY <1>3, <2>2, Zenon
    <2> QED BY <2>2, <2>3, <2>4, Zenon DEF Behind, q
  <1> QED BY <1>4, <1>5, ZenonT(40)

\* What is neither offered, accepted nor sealed changes nothing.
LEMMA OthersKeep ==
    ASSUME Inv, UNCHANGED <<offers, sessions, sealed>>
    PROVE  Inv'
  <1>1. PICK low \in Nat : LinkInv(low)
    BY Zenon DEF Inv
  <1>2. OfferInv(low)' /\ NonceNeverReused'
    BY <1>1 DEF LinkInv, OfferInv, NonceNeverReused
  <1>3. SessionInv(low)'
    BY <1>1, Zenon DEF LinkInv, SessionInv
  <1>4. SealedInv'
    BY <1>1, Zenon DEF LinkInv, SealedInv
  <1> QED BY <1>2, <1>3, <1>4 DEF Inv, LinkInv

\* A sealed frame has the session's next number, and the other side has another prefix.
LEMMA SendKeeps ==
    ASSUME Inv, NEW p \in Peers, NEW size \in Sizes, Send(p, size)
    PROVE  Inv'
  <1>1. PICK low \in Nat : LinkInv(low)
    BY Zenon DEF Inv
  <1> DEFINE message == [id |-> Len(sealed), from |-> p, size |-> size]
             result == send(sessions[p], message)
             f == [key |-> sessions[p].key, prefix |-> sessions[p].send_prefix,
                   counter |-> sessions[p].sent, message |-> message,
                   size |-> message.size + SEALING_BYTES]
  <1>2. sessions[p] \in SessionsOf
    BY <1>1 DEF Send, LinkInv, SessionInv
  <1>3. sealed \in Seq(Frames) /\ sessions \in [Peers -> SessionsOf \cup {NoSession}]
    BY <1>1 DEF LinkInv, SealedInv, SessionInv
  <1>4. /\ sessions' = [sessions EXCEPT ![p] = result.session]
        /\ sealed' = sealed \o (IF result.frames = {} THEN <<>>
                                ELSE <<CHOOSE g \in result.frames : TRUE>>)
        /\ UNCHANGED offers
    BY Zenon DEF Send
  <1>5. \/ result.session = sessions[p] /\ result.frames = {}
        \/ /\ result.session = [sessions[p] EXCEPT !.sent = sessions[p].sent + 1]
           /\ result.frames = {} \/ result.frames = {f}
    BY <1>2, Sends
  <1>6. f \in Frames /\ f.message.from = p /\ f.key = sessions[p].key
        /\ f.prefix = sessions[p].send_prefix /\ f.counter = sessions[p].sent
    <2>1. Len(sealed) \in Nat /\ size \in Nat /\ size + SEALING_BYTES \in Nat
      BY <1>3, LinkAssumption
    <2> QED BY <1>2, <2>1 DEF SessionsOf, Frames
  <1> HIDE DEF result, f
  <1>7. CASE sessions' = sessions /\ sealed' = sealed
    BY <1>4, <1>7, OthersKeep, Zenon
  <1>8. CASE /\ sessions' = [sessions EXCEPT ![p] = [sessions[p] EXCEPT !.sent = sessions[p].sent + 1]]
             /\ sealed' = sealed
    <2>1. SessionInv(low)' /\ SealedInv'
      <3>1. SessionInv(low)'
        BY <1>1, <1>2, <1>4, <1>8, CounterMoves, Zenon
      <3>2. \A g \in Frames : Behind(g, sessions) => Behind(g, sessions')
        BY <1>1, <1>2, <1>4, <1>8, CounterMoves, Zenon
      <3>3. \A i \in DOMAIN sealed : sealed[i] \in Frames /\ Behind(sealed[i], sessions)
        BY <1>1, <1>3 DEF LinkInv, SealedInv
      <3> QED BY <1>3, <1>8, <3>1, <3>2, <3>3, Zenon DEF SealedInv
    <2>2. OfferInv(low)'
      BY <1>1, <1>4, Zenon DEF LinkInv, OfferInv
    <2>3. NonceNeverReused'
      BY <1>1, <1>8 DEF LinkInv, NonceNeverReused
    <2> QED BY <2>1, <2>2, <2>3, Zenon DEF Inv, LinkInv
  <1>9. CASE /\ sessions' = [sessions EXCEPT ![p] = [sessions[p] EXCEPT !.sent = sessions[p].sent + 1]]
             /\ sealed' = Append(sealed, f)
    <2>1. /\ sealed' \in Seq(Frames) /\ Len(sealed') = Len(sealed) + 1
          /\ DOMAIN sealed' = DOMAIN sealed \cup {Len(sealed) + 1}
          /\ sealed'[Len(sealed) + 1] = f
          /\ \A i \in DOMAIN sealed : sealed'[i] = sealed[i] /\ i /= Len(sealed) + 1
      BY <1>3, <1>6, <1>9
    <2>2. SessionInv(low)'
      BY <1>1, <1>2, <1>4, <1>9, CounterMoves, ZenonT(40)
    <2>3. SealedInv'
      <3>1. /\ sessions'[p] = [sessions[p] EXCEPT !.sent = sessions[p].sent + 1]
            /\ \A q \in Peers \ {p} : sessions'[q] = sessions[q]
        BY <1>3, <1>9
      <3>2. /\ sessions'[p] \in SessionsOf /\ sessions'[p].key = sessions[p].key
            /\ sessions'[p].send_prefix = sessions[p].send_prefix
            /\ sessions'[p].sent = sessions[p].sent + 1 /\ sessions[p].sent \in Nat
            /\ sessions[p].key \in Nat \X Nat
        BY <1>2, <3>1 DEF SessionsOf
      <3>3. \A q \in Peers \ {p} : sessions[q] \in SessionsOf /\ sessions[p].key = sessions[q].key
                                     => sessions[p].send_prefix /= sessions[q].send_prefix
        BY <1>1, <1>2, Zenon DEF LinkInv, SessionInv
      <3>4. Consecutive(sessions[p].key)
        BY <1>1, <1>2 DEF LinkInv, SessionInv
      <3>5. Behind(f, sessions')
        BY <1>6, <3>1, <3>2, <3>3, <3>4, SMTT(30) DEF Behind
      <3>6. \A i \in DOMAIN sealed : sealed[i] \in Frames /\ Behind(sealed[i], sessions)
        BY <1>1, <1>3 DEF LinkInv, SealedInv
      <3>7. \A g \in Frames : Behind(g, sessions) => Behind(g, sessions')
        BY <1>1, <1>2, <1>4, <1>9, CounterMoves, Zenon
      <3> QED BY <2>1, <3>5, <3>6, <3>7 DEF SealedInv
    <2>4. NonceNeverReused'
      <3>1. ASSUME NEW i \in DOMAIN sealed
            PROVE  <<sealed[i].key, sealed[i].prefix, sealed[i].counter>>
                     /= <<f.key, f.prefix, f.counter>>
        <4> DEFINE q == sealed[i].message.from
        <4>1. sealed[i] \in Frames /\ q \in Peers /\ sealed[i].counter \in Nat
          <5>1. sealed[i] \in Frames
            BY <1>3
          <5> QED BY <5>1 DEF Frames
        <4>2. sessions[p].sent \in Nat
          BY <1>2, Zenon DEF SessionsOf
        <4>3. CASE q = p
          <5>1. sealed[i].key = sessions[p].key => sealed[i].counter < sessions[p].sent
            BY <1>1, <4>3 DEF LinkInv, SealedInv, Behind
          <5> QED BY <1>6, <4>1, <4>2, <5>1
        <4>4. CASE q /= p
          <5>1. sealed[i].key = sessions[p].key => sealed[i].prefix /= sessions[p].send_prefix
            BY <1>1, <1>2, <4>1, <4>4 DEF LinkInv, SealedInv, Behind
          <5> QED BY <1>6, <5>1
        <4> QED BY <4>3, <4>4, Zenon
      <3> QED BY <1>1, <2>1, <3>1 DEF LinkInv, NonceNeverReused
    <2> QED BY <1>1, <1>4, <2>2, <2>3, <2>4, SMTT(30) DEF Inv, LinkInv, OfferInv
  <1>10. QED
    <2>1. CASE result.frames = {}
      <3>1. sealed' = sealed
        BY <1>3, <1>4, <2>1
      <3>2. result.session = sessions[p] => sessions' = sessions
        BY <1>3, <1>4, Zenon
      <3> QED BY <1>4, <1>5, <1>7, <1>8, <3>1, <3>2, Zenon
    <2>2. CASE result.frames = {f}
      <3>1. result.frames /= {} /\ (CHOOSE g \in result.frames : TRUE) = f
        BY <2>2
      <3>2. sealed' = Append(sealed, f)
        BY <1>3, <1>4, <1>6, <3>1
      <3> QED BY <1>4, <1>5, <1>9, <3>1, <3>2, ZenonT(40)
    <2> QED BY <1>5, <2>1, <2>2

\* Every step of the link keeps the invariant.
LEMMA Steps == Inv /\ [Next]_linkVars => Inv'
  <1> SUFFICES ASSUME Inv, [Next]_linkVars PROVE Inv'
    BY Zenon
  <1>1. CASE UNCHANGED <<offers, sessions, sealed>>
    BY <1>1, OthersKeep
  <1>2. CASE \E n \in 1..(MaxFailures + 1) : Connect(n)
    BY <1>2, ConnectKeeps
  <1>3. CASE \E p \in Peers : Accept(p)
    BY <1>3, AcceptKeeps
  <1>4. CASE \E p \in Peers, size \in Sizes : Send(p, size)
    BY <1>4, SendKeeps
  <1> QED BY <1>1, <1>2, <1>3, <1>4, ZenonT(40)
          DEF Next, linkVars, Authenticate, Collect, Tick, RelayRestart

\* No two frames are ever sealed under one key with one nonce, whichever side sealed them, with
\* sessions replaced at any moment on one side or on both, and to the end of the counter
\* (session.rs accept, seal, nonce).
THEOREM NoncesUnique == Spec => []NonceNeverReused
  <1>1. Inv => NonceNeverReused
    BY Zenon DEF Inv, LinkInv
  <1> QED BY Initially, Steps, <1>1, PTL DEF Spec

-----------------------------------------------------------------------------
(* The relay implements the mailbox it promises to be. *)

RelayInv ==
    /\ now \in Nat
    /\ Shape(relay, now)
    /\ identity \in [Peers -> Peers \cup {NoPeer}]
    /\ \A p \in Peers : identity[p] \in {p, NoPeer}

\* What sending does to the relay and the history: no frame; or one, which the relay is not
\* given, or is.
LEMMA SendSteps ==
    ASSUME Inv, RelayInv, NEW p \in Peers, NEW size \in Sizes, Send(p, size)
    PROVE  \/ UNCHANGED <<sealed, relay>>
           \/ \E f \in Frames :
                /\ f.message.id = Len(sealed) /\ f.message.from = p
                /\ sealed' = Append(sealed, f)
                /\ \/ UNCHANGED relay
                   \/ relay' \in deposit(relay, mailbox(p, Other(p)), f, now)
  <1>1. PICK low \in Nat : LinkInv(low)
    BY Zenon DEF Inv
  <1> DEFINE message == [id |-> Len(sealed), from |-> p, size |-> size]
             result == send(sessions[p], message)
             f == [key |-> sessions[p].key, prefix |-> sessions[p].send_prefix,
                   counter |-> sessions[p].sent, message |-> message,
                   size |-> message.size + SEALING_BYTES]
             keep(g) == deposit(relay, DepositBox(identity[p], Other(p)), g, now)
  <1>2. sessions[p] \in SessionsOf /\ sealed \in Seq(Frames)
    BY <1>1 DEF Send, LinkInv, SessionInv, SealedInv
  <1>3. result.frames = {} \/ result.frames = {f}
    BY <1>2, Sends, Zenon
  <1>4. f \in Frames /\ f.message.id = Len(sealed) /\ f.message.from = p
    <2>1. Len(sealed) \in Nat /\ size \in Nat /\ size + SEALING_BYTES \in Nat
      BY <1>2, LinkAssumption
    <2> QED BY <1>2, <2>1 DEF SessionsOf, Frames
  <1>5. /\ sealed' = sealed \o (IF result.frames = {} THEN <<>>
                                ELSE <<CHOOSE g \in result.frames : TRUE>>)
        /\ IF result.frames = {} \/ identity[p] = NoPeer
           THEN UNCHANGED relay
           ELSE \E g \in result.frames : relay' \in keep(g)
    BY Zenon DEF Send
  <1>6. identity[p] = p \/ identity[p] = NoPeer
    BY Zenon DEF RelayInv
  <1> HIDE DEF result, f
  <1>7. CASE result.frames = {}
    BY <1>2, <1>5, <1>7
  <1>8. CASE result.frames = {f}
    <2>1. result.frames /= {} /\ (CHOOSE g \in result.frames : TRUE) = f
      BY <1>8
    <2>2. sealed' = Append(sealed, f)
      BY <1>2, <1>4, <1>5, <2>1
    <2>3. UNCHANGED relay \/ relay' \in deposit(relay, mailbox(p, Other(p)), f, now)
      BY <1>5, <1>6, <1>8, <2>1, Zenon DEF DepositBox
    <2> QED BY <1>4, <2>2, <2>3, Zenon
  <1> QED BY <1>3, <1>7, <1>8

\* What collecting does to the relay.
LEMMA CollectSteps ==
    ASSUME RelayInv, NEW p \in Peers, Collect(p)
    PROVE  LET m == mailbox(Other(p), p)
           IN  /\ m \in Pairs
               /\ Shape(relay', now)
               /\ \E k : /\ Rest(k, waiting(relay, m))
                         /\ collect(relay, m, now).held = Envelopes(k)
                         /\ handed' = [handed EXCEPT ![m] = @ \o Envelopes(k)]
               /\ waiting(relay', m) = <<>>
               /\ \A n : n /= m => Rest(waiting(relay', n), waiting(relay, n))
               /\ UNCHANGED <<now, identity, sealed>>
  <1> DEFINE m == mailbox(Other(p), p)
             c == collect(relay, m, now)
  <1>1. identity[p] = p
    BY Zenon DEF RelayInv, Collect
  <1>2. relay' = c.relay /\ handed' = [handed EXCEPT ![m] = @ \o c.held]
    BY <1>1, Zenon DEF Collect, CollectBox
  <1>3. m \in Pairs
    BY Others DEF Pairs
  <1>4. /\ Shape(c.relay, now)
        /\ \E k : Rest(k, waiting(relay, m)) /\ c.held = Envelopes(k)
        /\ waiting(c.relay, m) = <<>>
        /\ \A n : n /= m => Rest(waiting(c.relay, n), waiting(relay, n))
    BY CollectOutcome, Zenon DEF RelayInv
  <1>5. UNCHANGED <<now, identity, sealed>>
    BY Zenon DEF Collect
  <1> HIDE DEF m, c
  <1> QED BY <1>2, <1>3, <1>4, <1>5, Zenon DEF m, c

\* Time passes over a relay in shape.
LEMMA ShapeLater ==
    ASSUME NEW t \in Nat, NEW r, Shape(r, t)
    PROVE  Shape(r, t + 1)
  <1>1. ASSUME NEW q, Box(q, t) PROVE Box(q, t + 1)
    <2>1. ASSUME NEW i \in 1..Len(q) PROVE q[i].deposited <= t + 1
      <3>1. q[i] \in Held /\ q[i].deposited <= t
        BY <1>1 DEF Box
      <3>2. q[i].deposited \in Nat
        BY <3>1 DEF Held
      <3> QED BY <3>1, <3>2
    <2> QED BY <1>1, <2>1 DEF Box
  <1> QED BY <1>1, Zenon DEF Shape

\* A new relay is in shape, and nothing waits in it.
LEMMA EmptyShape ==
    ASSUME NEW t
    PROVE  Shape(EmptyRelay, t) /\ \A m : waiting(EmptyRelay, m) = <<>>
  <1>1. DOMAIN EmptyRelay.mailboxes = {}
    BY DEF EmptyRelay
  <1> QED BY <1>1, Zenon DEF Shape, waiting

\* At the start nothing waits and nobody is known.
LEMMA RelayStarts == Init => RelayInv
  BY EmptyShape DEF Init, RelayInv

\* Every step keeps the shape of the relay.
LEMMA RelaySteps ==
    ASSUME Inv, RelayInv, [Next]_linkVars
    PROVE  RelayInv'
  <1>1. CASE UNCHANGED <<relay, now, identity>>
    BY <1>1 DEF RelayInv
  <1>2. ASSUME NEW p \in Peers, NEW claimed \in Peers, Authenticate(p, claimed)
        PROVE  RelayInv'
    BY <1>2 DEF Authenticate, RelayInv
  <1>3. ASSUME NEW p \in Peers, NEW size \in Sizes, Send(p, size)
        PROVE  RelayInv'
    <2>1. UNCHANGED <<now, identity>>
      BY <1>3 DEF Send
    <2>2. mailbox(p, Other(p)) \in Pairs
      BY Others DEF Pairs
    <2>3. Shape(relay, now) /\ now \in Nat
      BY DEF RelayInv
    <2>4. Shape(relay', now)
      BY <1>3, <2>2, <2>3, SendSteps, DepositOutcome, Zenon
    <2> QED BY <2>1, <2>4, Zenon DEF RelayInv
  <1>4. ASSUME NEW p \in Peers, Collect(p)
        PROVE  RelayInv'
    <2>1. Shape(relay', now) /\ UNCHANGED <<now, identity>>
      BY <1>4, CollectSteps, Zenon
    <2> QED BY <2>1, Zenon DEF RelayInv
  <1>5. CASE Tick
    <2>1. now' = now + 1 /\ relay' = relay /\ identity' = identity
      BY <1>5 DEF Tick
    <2>2. Shape(relay, now + 1)
      BY ShapeLater, Zenon DEF RelayInv
    <2> QED BY <2>1, <2>2 DEF RelayInv
  <1>6. CASE RelayRestart
    BY <1>6, EmptyShape, Zenon DEF RelayRestart, RelayInv
  <1> QED BY <1>1, <1>2, <1>3, <1>4, <1>5, <1>6, ZenonT(40)
          DEF Next, linkVars, Connect, Accept

\* What the users of the relay see, before and after a step.
LEMMA Seen ==
    ASSUME NEW m \in Pairs
    PROVE  /\ [n \in Pairs |-> Contents(n)][m] = Envelopes(waiting(relay, m))
           /\ [n \in Pairs |-> Contents(n)]'[m] = Envelopes(waiting(relay', m))
  BY Zenon DEF Contents, Envelopes

\* A step on which every mailbox loses oldest envelopes.
LEMMA LoseStep ==
    ASSUME RelayInv, \A m \in Pairs : Rest(waiting(relay', m), waiting(relay, m)), UNCHANGED handed
    PROVE  Promise!Next
  <1>1. ASSUME NEW m \in Pairs
        PROVE  [n \in Pairs |-> Contents(n)]'[m]
                 \in Promise!Remainders([n \in Pairs |-> Contents(n)][m])
    <2>1. waiting(relay, m) \in Seq(Held)
      BY Waits, Zenon DEF RelayInv
    <2>2. Envelopes(waiting(relay', m)) \in Promise!Remainders(Envelopes(waiting(relay, m)))
      BY <2>1, EnvelopesRest, Zenon
    <2> QED BY <2>2, Seen, Zenon
  <1>2. DOMAIN [n \in Pairs |-> Contents(n)]' = Pairs
    BY Zenon
  <1> QED BY <1>1, <1>2, Zenon DEF Promise!Next, Promise!Lose

\* A step on which one mailbox takes an envelope.
LEMMA DepositStep ==
    ASSUME RelayInv, NEW m \in Pairs, NEW f \in Frames,
           Pushed(relay, relay', m, [envelope |-> f, deposited |-> now]), UNCHANGED handed
    PROVE  Promise!Next
  <1> DEFINE h == [envelope |-> f, deposited |-> now]
             old == [n \in Pairs |-> Contents(n)]
             new == [n \in Pairs |-> Contents(n)]'
  <1>1. h \in Held /\ h.envelope = f
    BY DEF Held, RelayInv
  <1>2. PICK k : Rest(k, waiting(relay, m)) /\ waiting(relay', m) = Append(k, h)
    BY DEF Pushed
  <1>3. \A n \in Pairs : waiting(relay, n) \in Seq(Held)
    BY Waits, Zenon DEF RelayInv
  <1>4. k \in Seq(Held)
    BY <1>2, <1>3, RestElements, Zenon
  <1>5. Envelopes(k) \in Promise!Remainders(Envelopes(waiting(relay, m)))
    BY <1>2, <1>3, EnvelopesRest, Zenon
  <1>6. /\ Len(Envelopes(Append(k, h))) = Len(Envelopes(k)) + 1
        /\ SubSeq(Envelopes(Append(k, h)), 1, Len(Envelopes(k))) = Envelopes(k)
        /\ Envelopes(Append(k, h))[Len(Envelopes(Append(k, h)))] = h.envelope
    <2> HIDE DEF h
    <2> QED BY <1>1, <1>4, EnvelopesAppend, Zenon
  <1> HIDE DEF h
  <1>7. new[m] = Envelopes(Append(k, h)) /\ old[m] = Envelopes(waiting(relay, m))
    BY <1>2, Seen, Zenon
  <1>8. ASSUME NEW n \in Pairs \ {m} PROVE new[n] \in Promise!Remainders(old[n])
    <2>1. Rest(waiting(relay', n), waiting(relay, n))
      BY <1>8, Zenon DEF Pushed
    <2>2. Envelopes(waiting(relay', n)) \in Promise!Remainders(Envelopes(waiting(relay, n)))
      BY <1>3, <2>1, EnvelopesRest, Zenon
    <2> QED BY <2>2, Seen, Zenon
  <1>9. DOMAIN new = Pairs
    BY Zenon
  <1>10. \E kept \in Promise!Remainders(old[m]) :
            Len(new[m]) = Len(kept) + 1 /\ SubSeq(new[m], 1, Len(kept)) = kept
    <2> HIDE DEF old, new
    <2> QED BY <1>5, <1>6, <1>7, Zenon
  <1>11. new[m][Len(new[m])] \in Frames
    <2> HIDE DEF old, new
    <2> QED BY <1>1, <1>6, <1>7, Zenon
  <1> QED BY <1>8, <1>9, <1>10, <1>11, Zenon DEF Promise!Next, Promise!Deposit

\* A step on which one mailbox is handed over.
LEMMA CollectStep ==
    ASSUME RelayInv, NEW p \in Peers, Collect(p)
    PROVE  Promise!Next
  <1> DEFINE m == mailbox(Other(p), p)
             old == [n \in Pairs |-> Contents(n)]
             new == [n \in Pairs |-> Contents(n)]'
  <1>1. /\ m \in Pairs
        /\ \E k : /\ Rest(k, waiting(relay, m))
                  /\ handed' = [handed EXCEPT ![m] = @ \o Envelopes(k)]
        /\ waiting(relay', m) = <<>>
        /\ \A n : n /= m => Rest(waiting(relay', n), waiting(relay, n))
    BY CollectSteps, Zenon
  <1> HIDE DEF m
  <1>2. PICK k : /\ Rest(k, waiting(relay, m))
                 /\ handed' = [handed EXCEPT ![m] = @ \o Envelopes(k)]
    BY <1>1, Zenon
  <1>3. \A n \in Pairs : waiting(relay, n) \in Seq(Held)
    BY Waits, Zenon DEF RelayInv
  <1>4. Envelopes(k) \in Promise!Remainders(old[m])
    BY <1>1, <1>2, <1>3, EnvelopesRest, Seen, Zenon
  <1>5. Envelopes(<<>>) = <<>>
    BY DEF Envelopes
  <1>6. new[m] = <<>>
    BY <1>1, <1>5, Seen, Zenon
  <1>7. ASSUME NEW n \in Pairs \ {m} PROVE new[n] \in Promise!Remainders(old[n])
    <2>1. Envelopes(waiting(relay', n)) \in Promise!Remainders(Envelopes(waiting(relay, n)))
      BY <1>1, <1>3, EnvelopesRest, Zenon
    <2> QED BY <2>1, Seen, Zenon
  <1>8. DOMAIN new = Pairs
    BY Zenon
  <1> QED BY <1>1, <1>2, <1>4, <1>6, <1>7, <1>8, Zenon DEF Promise!Next, Promise!Collect

\* Every step of the link is a step of the mailbox, or none.
LEMMA Refines ==
    ASSUME Inv, RelayInv, [Next]_linkVars
    PROVE  [Promise!Next]_(Promise!vars)
  <1>1. CASE UNCHANGED <<relay, handed>>
    BY <1>1, Zenon DEF Promise!vars, Contents
  <1>2. ASSUME NEW p \in Peers, NEW size \in Sizes, Send(p, size)
        PROVE  [Promise!Next]_(Promise!vars)
    <2>1. UNCHANGED handed
      BY <1>2 DEF Send
    <2>2. CASE UNCHANGED relay
      BY <1>1, <2>1, <2>2
    <2>3. ASSUME NEW f \in Frames, relay' \in deposit(relay, mailbox(p, Other(p)), f, now)
          PROVE  Promise!Next
      <3> DEFINE m == mailbox(p, Other(p))
      <3>1. m \in Pairs
        BY Others DEF Pairs
      <3> HIDE DEF m
      <3>2. Loses(relay, relay') \/ Pushed(relay, relay', m, [envelope |-> f, deposited |-> now])
        BY <2>3, <3>1, DepositOutcome, Zenon DEF RelayInv, m
      <3>3. CASE Loses(relay, relay')
        BY <2>1, <3>3, LoseStep, Zenon DEF Loses
      <3>4. CASE Pushed(relay, relay', m, [envelope |-> f, deposited |-> now])
        BY <2>1, <3>1, <3>4, DepositStep, Zenon
      <3> QED BY <3>2, <3>3, <3>4
    <2> QED BY <1>2, <2>2, <2>3, SendSteps, Zenon
  <1>3. ASSUME NEW p \in Peers, Collect(p)
        PROVE  [Promise!Next]_(Promise!vars)
    BY <1>3, CollectStep, Zenon
  <1>4. CASE RelayRestart
    <2>1. relay' = EmptyRelay /\ UNCHANGED handed
      BY <1>4 DEF RelayRestart
    <2>2. ASSUME NEW m PROVE Rest(waiting(relay', m), waiting(relay, m))
      <3>1. waiting(relay', m) = <<>> /\ waiting(relay, m) \in Seq(Held)
        BY <2>1, EmptyShape, Waits, Zenon DEF RelayInv
      <3> QED BY <3>1, RestEnds, Zenon
    <2> QED BY <2>1, <2>2, LoseStep, Zenon
  <1> QED BY <1>1, <1>2, <1>3, <1>4, ZenonT(40)
          DEF Next, linkVars, Connect, Accept, Authenticate, Tick

\* The relay is the mailbox it promises to be, for any limits, sizes and lifetimes: eviction,
\* expiry and a restart only lose the oldest envelopes of a direction; nothing is repeated,
\* reordered, altered or handed to the other direction (relay.rs deposit, collect, expire).
THEOREM RelayKeepsPromise == Spec => RelayIsMailbox
  <1>1. Init => Promise!Init
    <2> SUFFICES ASSUME Init PROVE Promise!Init
      OBVIOUS
    <2>1. \A m \in Pairs : Contents(m) = <<>>
      <3>1. ASSUME NEW m PROVE Contents(m) = <<>>
        <4>1. waiting(relay, m) = <<>>
          BY EmptyShape, Zenon DEF Init
        <4> QED BY <4>1 DEF Contents
      <3> QED BY <3>1
    <2> QED BY <2>1, Zenon DEF Promise!Init, Init
  <1>2. Inv /\ RelayInv /\ [Next]_linkVars => RelayInv'
    BY RelaySteps
  <1>3. Inv /\ RelayInv /\ [Next]_linkVars => [Promise!Next]_(Promise!vars)
    BY Refines
  <1> QED BY Initially, Steps, RelayStarts, <1>1, <1>2, <1>3, PTL
          DEF Spec, RelayIsMailbox, Promise!Spec

-----------------------------------------------------------------------------
(* What a peer opens is in the order of sealing.  The messages that wait for a *)
(* peer continue those it has opened.                                          *)

Messages == [id : Nat, from : Peers, size : Nat]

\* The messages in a queue of sealed frames.
MessagesOf(envelopes) == [i \in DOMAIN envelopes |-> envelopes[i].message]

\* Messages from q, in the order of sealing, among the first n sealed.
Ascends(s, n, q) ==
    /\ s \in Seq(Messages)
    /\ \A i \in 1..Len(s) : s[i].from = q /\ s[i].id < n
    /\ \A i, j \in 1..Len(s) : i < j => s[i].id < s[j].id

\* Every message of a was sealed before every message of b.
Below(a, b) == \A i \in 1..Len(a), j \in 1..Len(b) : a[i].id < b[j].id

\* The elements of s are elements of t, in the order they have there.
Within(s, t) ==
    \E f \in [1..Len(s) -> 1..Len(t)] :
        /\ \A i \in 1..Len(s) : s[i] = t[f[i]]
        /\ \A i, j \in 1..Len(s) : i < j => f[i] < f[j]

\* What waits for p.
Line(r, p) == MessagesOf(Envelopes(waiting(r, mailbox(Other(p), p))))

OrderInv ==
    /\ opened \in [Peers -> Seq(Messages)]
    /\ \A p \in Peers :
         /\ Ascends(opened[p], Len(sealed), Other(p))
         /\ Ascends(Line(relay, p), Len(sealed), Other(p))
         /\ Below(opened[p], Line(relay, p))

\* A part of ordered messages is ordered, and above what the whole was above.
LEMMA WithinOrder ==
    ASSUME NEW t, NEW n, NEW q, Ascends(t, n, q), NEW s \in Seq(Messages), Within(s, t)
    PROVE  Ascends(s, n, q) /\ \A a : Below(a, t) => Below(a, s)
  <1>1. PICK f \in [1..Len(s) -> 1..Len(t)] :
          /\ \A i \in 1..Len(s) : s[i] = t[f[i]]
          /\ \A i, j \in 1..Len(s) : i < j => f[i] < f[j]
    BY SMTT(30) DEF Within
  <1>2. \A i \in 1..Len(s) : f[i] \in 1..Len(t)
    BY <1>1, Zenon
  <1>3. Ascends(s, n, q)
    <2>1. ASSUME NEW i \in 1..Len(s), NEW j \in 1..Len(s), i < j PROVE s[i].id < s[j].id
      BY <1>1, <1>2, <2>1, Zenon DEF Ascends
    <2>2. ASSUME NEW i \in 1..Len(s) PROVE s[i].from = q /\ s[i].id < n
      <3>1. f[i] \in 1..Len(t) /\ s[i] = t[f[i]]
        BY <1>1, <1>2, Zenon
      <3>2. t[f[i]].from = q /\ t[f[i]].id < n
        BY <3>1, Zenon DEF Ascends
      <3> QED BY <3>1, <3>2, Zenon
    <2> QED BY <2>1, <2>2, Zenon DEF Ascends
  <1>4. ASSUME NEW a, Below(a, t) PROVE Below(a, s)
    BY <1>1, <1>2, <1>4, Zenon DEF Below
  <1> QED BY <1>3, <1>4, Zenon

\* Ordered messages stay so when more are sealed.
LEMMA MoreSealed ==
    ASSUME NEW n \in Nat, NEW s, NEW q, Ascends(s, n, q)
    PROVE  Ascends(s, n + 1, q)
  <1>1. ASSUME NEW i \in 1..Len(s) PROVE s[i].id < n + 1
    <2>1. s[i] \in Messages /\ s[i].id < n
      BY DEF Ascends
    <2>2. s[i].id \in Nat
      BY <2>1 DEF Messages
    <2> QED BY <2>1, <2>2
  <1> QED BY <1>1 DEF Ascends

\* The message sealed next continues what was sealed before.
LEMMA NextContinues ==
    ASSUME NEW n \in Nat, NEW s, NEW q, Ascends(s, n, q),
           NEW g \in Messages, g.id = n, g.from = q
    PROVE  /\ Ascends(Append(s, g), n + 1, q)
           /\ \A a : Ascends(a, n, q) /\ Below(a, s) => Below(a, Append(s, g))
  <1>1. s \in Seq(Messages)
    BY DEF Ascends
  <1>2. /\ Append(s, g) \in Seq(Messages) /\ Len(Append(s, g)) = Len(s) + 1
        /\ Append(s, g)[Len(s) + 1] = g
        /\ \A i \in 1..Len(s) : Append(s, g)[i] = s[i]
    BY <1>1, Appended
  <1>3. \A i \in 1..(Len(s) + 1) : i \in 1..Len(s) \/ i = Len(s) + 1
    BY <1>1
  <1> DEFINE t == Append(s, g)
  <1>4. Ascends(s, n + 1, q)
    BY MoreSealed, Zenon
  <1>5. n < n + 1
    OBVIOUS
  <1>6. ASSUME NEW i \in 1..(Len(s) + 1) PROVE t[i].from = q /\ t[i].id < n + 1
    BY <1>2, <1>3, <1>4, <1>5, Zenon DEF Ascends
  <1>7. ASSUME NEW i \in 1..(Len(s) + 1), NEW j \in 1..(Len(s) + 1), i < j
        PROVE  t[i].id < t[j].id
    <2>1. i \in 1..Len(s)
      BY <1>1, <1>7
    <2>2. t[i] = s[i] /\ s[i].id < n
      BY <1>2, <2>1, Zenon DEF Ascends
    <2>3. CASE j \in 1..Len(s)
      BY <1>2, <1>7, <2>1, <2>2, <2>3, Zenon DEF Ascends
    <2>4. CASE j = Len(s) + 1
      BY <1>2, <2>2, <2>4, Zenon
    <2> QED BY <1>3, <2>3, <2>4
  <1>8. Ascends(t, n + 1, q)
    BY <1>2, <1>6, <1>7, Zenon DEF Ascends
  <1>9. ASSUME NEW a, Ascends(a, n, q), Below(a, s) PROVE Below(a, t)
    <2>1. ASSUME NEW i \in 1..Len(a), NEW j \in 1..(Len(s) + 1) PROVE a[i].id < t[j].id
      <3>1. a[i].id < n
        BY <1>9, Zenon DEF Ascends
      <3>2. CASE j \in 1..Len(s)
        BY <1>2, <1>9, <3>2, Zenon DEF Below
      <3>3. CASE j = Len(s) + 1
        BY <1>2, <3>1, <3>3, Zenon
      <3> QED BY <1>3, <3>2, <3>3
    <2> QED BY <1>2, <2>1, Zenon DEF Below
  <1> QED BY <1>8, <1>9, Zenon

\* Ordered messages after ordered ones that were all sealed before.
LEMMA JoinOrder ==
    ASSUME NEW n, NEW q, NEW a, NEW b, Ascends(a, n, q), Ascends(b, n, q), Below(a, b)
    PROVE  Ascends(a \o b, n, q)
  <1>1. a \in Seq(Messages) /\ b \in Seq(Messages)
    BY DEF Ascends
  <1> DEFINE c == a \o b
  <1>2. /\ c \in Seq(Messages) /\ Len(c) = Len(a) + Len(b)
        /\ \A i \in 1..Len(c) : \/ i \in 1..Len(a) /\ c[i] = a[i]
                                \/ i > Len(a) /\ i - Len(a) \in 1..Len(b) /\ c[i] = b[i - Len(a)]
    BY <1>1
  <1>3. Len(a) \in Nat /\ Len(b) \in Nat
    BY <1>1
  <1> HIDE DEF c
  <1>4. ASSUME NEW i \in 1..Len(c) PROVE c[i].from = q /\ c[i].id < n
    BY <1>2, Zenon DEF Ascends
  <1>5. ASSUME NEW i \in 1..Len(c), NEW j \in 1..Len(c), i < j PROVE c[i].id < c[j].id
    <2>1. CASE j \in 1..Len(a) /\ c[j] = a[j]
      <3>1. i \in 1..Len(a) /\ ~(i > Len(a))
        BY <1>3, <1>5, <2>1
      <3> QED BY <1>2, <1>5, <2>1, <3>1, Zenon DEF Ascends
    <2>2. CASE j > Len(a) /\ j - Len(a) \in 1..Len(b) /\ c[j] = b[j - Len(a)]
      <3>1. CASE i \in 1..Len(a) /\ c[i] = a[i]
        BY <2>2, <3>1, Zenon DEF Below
      <3>2. CASE i > Len(a) /\ i - Len(a) \in 1..Len(b) /\ c[i] = b[i - Len(a)]
        <4>1. i - Len(a) < j - Len(a)
          BY <1>3, <1>5
        <4> QED BY <2>2, <3>2, <4>1, Zenon DEF Ascends
      <3> QED BY <1>2, <3>1, <3>2, Zenon
    <2> QED BY <1>2, <2>1, <2>2, Zenon
  <1>6. Ascends(c, n, q)
    BY <1>2, <1>4, <1>5, Zenon DEF Ascends
  <1> QED BY <1>6 DEF c

\* The messages of frames, as many as there are frames.
LEMMA MessagesTyped ==
    ASSUME NEW e \in Seq(Frames)
    PROVE  /\ MessagesOf(e) \in Seq(Messages) /\ Len(MessagesOf(e)) = Len(e)
           /\ \A i \in 1..Len(e) : MessagesOf(e)[i] = e[i].message
  <1>1. ASSUME NEW i \in 1..Len(e) PROVE e[i].message \in Messages
    <2>1. e[i] \in Frames
      OBVIOUS
    <2> QED BY <2>1, Zenon DEF Frames, Messages
  <1> QED BY <1>1 DEF MessagesOf

\* The messages of a queue the relay holds.
LEMMA MessagesHeld ==
    ASSUME NEW q \in Seq(Held)
    PROVE  /\ MessagesOf(Envelopes(q)) \in Seq(Messages) /\ Len(MessagesOf(Envelopes(q))) = Len(q)
           /\ \A i \in 1..Len(q) : MessagesOf(Envelopes(q))[i] = q[i].envelope.message
  <1> DEFINE e == Envelopes(q)
  <1>1. e \in Seq(Frames) /\ Len(e) = Len(q) /\ \A i \in 1..Len(q) : e[i] = q[i].envelope
    BY EnvelopesOf, Zenon
  <1> HIDE DEF e
  <1>2. /\ MessagesOf(e) \in Seq(Messages) /\ Len(MessagesOf(e)) = Len(e)
        /\ \A i \in 1..Len(e) : MessagesOf(e)[i] = e[i].message
    BY <1>1, MessagesTyped, Zenon
  <1>3. ASSUME NEW i \in 1..Len(q) PROVE MessagesOf(e)[i] = q[i].envelope.message
    <2>1. MessagesOf(e)[i] = e[i].message /\ e[i] = q[i].envelope
      BY <1>1, <1>2
    <2> QED BY <2>1, Zenon
  <1> QED BY <1>1, <1>2, <1>3 DEF e

\* A queue that lost its oldest is part of what it was.
LEMMA RestWithin ==
    ASSUME NEW q \in Seq(Held), NEW s, Rest(s, q)
    PROVE  /\ MessagesOf(Envelopes(s)) \in Seq(Messages)
           /\ Within(MessagesOf(Envelopes(s)), MessagesOf(Envelopes(q)))
  <1>1. PICK n \in 0..Len(q) : Len(s) = Len(q) - n /\ \A i \in 1..Len(s) : s[i] = q[n + i]
    BY RestElements
  <1>2. s \in Seq(Held)
    BY RestElements, Zenon
  <1> DEFINE a == MessagesOf(Envelopes(s))
             b == MessagesOf(Envelopes(q))
             f == [i \in 1..Len(s) |-> n + i]
  <1>3. a \in Seq(Messages) /\ Len(a) = Len(s) /\ \A i \in 1..Len(s) : a[i] = s[i].envelope.message
    BY <1>2, MessagesHeld
  <1>4. b \in Seq(Messages) /\ Len(b) = Len(q) /\ \A i \in 1..Len(q) : b[i] = q[i].envelope.message
    BY MessagesHeld
  <1> HIDE DEF a, b
  <1>5. \A i \in 1..Len(s) : n + i \in 1..Len(q)
    BY <1>1, <1>2
  <1>6. f \in [1..Len(a) -> 1..Len(b)] /\ \A i \in 1..Len(s) : f[i] = n + i
    BY <1>3, <1>4, <1>5
  <1>7. \A i \in 1..Len(a) : a[i] = b[f[i]]
    <2> SUFFICES ASSUME NEW i \in 1..Len(s) PROVE a[i] = b[f[i]]
      BY <1>3, Zenon
    <2>1. f[i] = n + i /\ n + i \in 1..Len(q) /\ s[i] = q[n + i]
      BY <1>1, <1>5, <1>6
    <2> HIDE DEF f
    <2> QED BY <1>3, <1>4, <2>1, Zenon
  <1>8. \A i, j \in 1..Len(a) : i < j => f[i] < f[j]
    BY <1>3, <1>6
  <1> HIDE DEF f
  <1>9. Within(a, b)
    BY <1>6, <1>7, <1>8, Zenon DEF Within
  <1> QED BY <1>3, <1>9, Zenon DEF a, b

\* What could be opened is part of what was handed over.
LEMMA RetainedWithin ==
    ASSUME NEW e \in Seq(Frames), NEW kept
    PROVE  /\ MessagesOf(Retained(e, kept)) \in Seq(Messages)
           /\ Within(MessagesOf(Retained(e, kept)), MessagesOf(e))
  <1> DEFINE t == Retained(e, kept)
             a == MessagesOf(t)
             b == MessagesOf(e)
  <1>1. t \in Seq(Frames) /\ \E f : Picks(f, t, e, kept, Len(e))
    BY RetainedPicks, Zenon
  <1> HIDE DEF t
  <1>2. PICK f : Picks(f, t, e, kept, Len(e))
    BY <1>1, Zenon
  <1>3. a \in Seq(Messages) /\ Len(a) = Len(t) /\ \A i \in 1..Len(t) : a[i] = t[i].message
    BY <1>1, MessagesTyped, Zenon
  <1>4. Len(b) = Len(e) /\ \A i \in 1..Len(e) : b[i] = e[i].message
    BY MessagesTyped, Zenon
  <1> HIDE DEF a, b
  <1>5. f \in [1..Len(a) -> 1..Len(b)] /\ \A i \in 1..Len(t) : f[i] \in 1..Len(e) /\ t[i] = e[f[i]]
    BY <1>2, <1>3, <1>4, Zenon DEF Picks
  <1>6. \A i \in 1..Len(a) : a[i] = b[f[i]]
    <2> SUFFICES ASSUME NEW i \in 1..Len(t) PROVE a[i] = b[f[i]]
      BY <1>3, Zenon
    <2>1. f[i] \in 1..Len(e) /\ t[i] = e[f[i]]
      BY <1>5, Zenon
    <2> QED BY <1>3, <1>4, <2>1, Zenon
  <1>7. \A i, j \in 1..Len(a) : i < j => f[i] < f[j]
    BY <1>2, <1>3, Zenon DEF Picks
  <1>8. Within(a, b)
    BY <1>5, <1>6, <1>7, Zenon DEF Within
  <1> QED BY <1>3, <1>8, Zenon DEF a, b, t

\* One more message at the end of the line.
LEMMA MessagesAppend ==
    ASSUME NEW k \in Seq(Held), NEW h \in Held
    PROVE  /\ MessagesOf(Envelopes(Append(k, h))) = Append(MessagesOf(Envelopes(k)), h.envelope.message)
           /\ h.envelope.message \in Messages
  <1> DEFINE a == MessagesOf(Envelopes(Append(k, h)))
             b == MessagesOf(Envelopes(k))
             g == h.envelope.message
  <1>1. g \in Messages
    BY Zenon DEF Held, Frames, Messages
  <1>2. /\ Append(k, h) \in Seq(Held) /\ Len(Append(k, h)) = Len(k) + 1
        /\ Append(k, h)[Len(k) + 1] = h
        /\ \A i \in 1..Len(k) : Append(k, h)[i] = k[i]
    BY Appended
  <1>3. /\ a \in Seq(Messages) /\ Len(a) = Len(k) + 1
        /\ \A i \in 1..(Len(k) + 1) : a[i] = Append(k, h)[i].envelope.message
    BY <1>2, MessagesHeld, Zenon
  <1>4. b \in Seq(Messages) /\ Len(b) = Len(k) /\ \A i \in 1..Len(k) : b[i] = k[i].envelope.message
    BY MessagesHeld, Zenon
  <1>5. Len(k) \in Nat /\ Len(k) + 1 \in 1..(Len(k) + 1) /\ \A i \in 1..Len(k) : i \in 1..(Len(k) + 1)
    OBVIOUS
  <1>6. a[Len(k) + 1] = g /\ \A i \in 1..Len(k) : a[i] = b[i]
    BY <1>2, <1>3, <1>4, <1>5, Zenon
  <1>7. /\ Append(b, g) \in Seq(Messages) /\ Len(Append(b, g)) = Len(b) + 1
        /\ Append(b, g)[Len(b) + 1] = g
        /\ \A i \in 1..Len(b) : Append(b, g)[i] = b[i]
    <2> HIDE DEF b, g
    <2> QED BY <1>1, <1>4, Appended
  <1> DEFINE c == Append(b, g)
  <1>8. c \in Seq(Messages) /\ Len(c) = Len(k) + 1 /\ c[Len(k) + 1] = g /\ \A i \in 1..Len(k) : c[i] = b[i]
    BY <1>4, <1>7, Zenon
  <1> HIDE DEF a, b, c, g
  <1>9. \A i \in 1..(Len(k) + 1) : i \in 1..Len(k) \/ i = Len(k) + 1
    OBVIOUS
  <1>10. \A i \in 1..(Len(k) + 1) : a[i] = c[i]
    BY <1>6, <1>8, <1>9, Zenon
  <1>11. a = c
    BY <1>3, <1>5, <1>8, <1>10
  <1> QED BY <1>1, <1>11, Zenon DEF a, b, c, g

\* What is left of the line continues what was opened.
LEMMA LineRest ==
    ASSUME RelayInv, OrderInv, NEW p \in Peers, NEW k, Rest(k, waiting(relay, mailbox(Other(p), p)))
    PROVE  /\ Ascends(MessagesOf(Envelopes(k)), Len(sealed), Other(p))
           /\ Below(opened[p], MessagesOf(Envelopes(k)))
  <1> DEFINE q == waiting(relay, mailbox(Other(p), p))
  <1>1. q \in Seq(Held)
    BY Waits, Zenon DEF RelayInv
  <1>2. /\ MessagesOf(Envelopes(k)) \in Seq(Messages)
        /\ Within(MessagesOf(Envelopes(k)), Line(relay, p))
    BY <1>1, RestWithin, Zenon DEF Line
  <1>3. Ascends(Line(relay, p), Len(sealed), Other(p)) /\ Below(opened[p], Line(relay, p))
    BY Zenon DEF OrderInv
  <1> QED BY <1>2, <1>3, WithinOrder, Zenon

\* Nothing waits, so nothing is out of order.
LEMMA NoLine ==
    ASSUME NEW r, NEW p, waiting(r, mailbox(Other(p), p)) = <<>>, NEW n, NEW q, NEW a
    PROVE  Ascends(Line(r, p), n, q) /\ Below(a, Line(r, p))
  <1>1. Line(r, p) = <<>>
    BY DEF Line, Envelopes, MessagesOf
  <1>2. <<>> \in Seq(Messages) /\ 1..Len(<<>>) = {}
    OBVIOUS
  <1> QED BY <1>1, <1>2, Zenon DEF Ascends, Below

\* Nothing has been sealed or opened.
LEMMA OrderStarts == Init => OrderInv
  <1> SUFFICES ASSUME Init PROVE OrderInv
    BY Zenon
  <1>1. \A p \in Peers : opened[p] = <<>>
    BY Zenon DEF Init
  <1>2. <<>> \in Seq(Messages) /\ 1..Len(<<>>) = {}
    OBVIOUS
  <1>3. opened \in [Peers -> Seq(Messages)]
    BY <1>2 DEF Init
  <1>4. \A m : waiting(relay, m) = <<>>
    BY EmptyShape, Zenon DEF Init
  <1>5. ASSUME NEW p \in Peers PROVE Ascends(opened[p], Len(sealed), Other(p))
    BY <1>1, <1>2, Zenon DEF Ascends
  <1> QED BY <1>3, <1>4, <1>5, NoLine, Zenon DEF OrderInv

\* Sealing and depositing keeps the line of the receiver in order, and only shortens the other.
LEMMA SendOrder ==
    ASSUME Inv, RelayInv, OrderInv, NEW p \in Peers, NEW size \in Sizes, Send(p, size)
    PROVE  OrderInv'
  <1> DEFINE n == Len(sealed)
  <1>1. opened' = opened
    BY Zenon DEF Send
  <1>2. n \in Nat
    <2>1. sealed \in Seq(Frames)
      BY Zenon DEF Inv, LinkInv, SealedInv
    <2> QED BY <2>1
  <1>3. CASE UNCHANGED <<sealed, relay>>
    BY <1>1, <1>3 DEF OrderInv
  <1>4. ASSUME NEW f \in Frames, f.message.id = n, f.message.from = p, sealed' = Append(sealed, f),
               \/ UNCHANGED relay
               \/ relay' \in deposit(relay, mailbox(p, Other(p)), f, now)
        PROVE  OrderInv'
    <2> DEFINE m == mailbox(p, Other(p))
               h == [envelope |-> f, deposited |-> now]
    <2>1. Len(sealed') = n + 1
      <3>1. sealed \in Seq(Frames)
        BY DEF Inv, LinkInv, SealedInv
      <3> QED BY <1>4, <3>1
    <2>2. m \in Pairs
      BY Others DEF Pairs
    <2>3. h \in Held /\ h.envelope = f
      BY Zenon DEF Held, RelayInv
    <2>4. Loses(relay, relay') \/ Pushed(relay, relay', m, h)
      <3>1. CASE UNCHANGED relay
        BY <3>1, LosesNothing, Zenon DEF RelayInv
      <3>2. CASE relay' \in deposit(relay, m, f, now)
        BY <2>2, <3>2, DepositOutcome, Zenon DEF RelayInv
      <3> QED BY <1>4, <3>1, <3>2
    <2> HIDE DEF n, h
    <2>5. ASSUME NEW x \in Peers, Rest(waiting(relay', mailbox(Other(x), x)),
                                       waiting(relay, mailbox(Other(x), x)))
          PROVE  Ascends(Line(relay', x), n + 1, Other(x)) /\ Below(opened[x], Line(relay', x))
      <3>1. Ascends(Line(relay', x), n, Other(x)) /\ Below(opened[x], Line(relay', x))
        BY <2>5, LineRest, Zenon DEF Line, n
      <3> QED BY <1>2, <3>1, MoreSealed, Zenon
    <2>6. ASSUME NEW x \in Peers, mailbox(Other(x), x) = m, Pushed(relay, relay', m, h)
          PROVE  Ascends(Line(relay', x), n + 1, Other(x)) /\ Below(opened[x], Line(relay', x))
      <3>1. PICK k : Rest(k, waiting(relay, m)) /\ waiting(relay', m) = Append(k, h)
        BY <2>6, Zenon DEF Pushed
      <3>2. k \in Seq(Held)
        <4>1. waiting(relay, m) \in Seq(Held)
          BY Waits, Zenon DEF RelayInv
        <4> QED BY <3>1, <4>1, RestElements, Zenon
      <3> DEFINE s == MessagesOf(Envelopes(k))
      <3>3. Ascends(s, n, Other(x)) /\ Below(opened[x], s)
        BY <2>6, <3>1, LineRest, Zenon DEF n
      <3>4. Line(relay', x) = Append(s, f.message) /\ f.message \in Messages
        BY <2>3, <2>6, <3>1, <3>2, MessagesAppend, Zenon DEF Line
      <3>5. Other(x) = p
        BY <2>6 DEF mailbox
      <3>6. Ascends(opened[x], n, Other(x))
        BY Zenon DEF OrderInv, n
      <3> HIDE DEF s
      <3>7. f.message.id = n /\ f.message.from = Other(x)
        BY <1>4, <3>5, Zenon
      <3> QED BY <1>2, <3>3, <3>4, <3>6, <3>7, NextContinues, Zenon
    <2>7. ASSUME NEW x \in Peers
          PROVE  /\ Ascends(opened[x], n + 1, Other(x))
                 /\ Ascends(Line(relay', x), n + 1, Other(x))
                 /\ Below(opened[x], Line(relay', x))
      <3>1. Ascends(opened[x], n + 1, Other(x))
        BY <1>2, MoreSealed, Zenon DEF OrderInv, n
      <3>2. Ascends(Line(relay', x), n + 1, Other(x)) /\ Below(opened[x], Line(relay', x))
        <4>1. CASE Loses(relay, relay')
          BY <2>5, <4>1, Zenon DEF Loses
        <4>2. CASE Pushed(relay, relay', m, h) /\ mailbox(Other(x), x) = m
          BY <2>6, <4>2, Zenon
        <4>3. CASE Pushed(relay, relay', m, h) /\ mailbox(Other(x), x) /= m
          BY <2>5, <4>3, Zenon DEF Pushed
        <4> QED BY <2>4, <4>1, <4>2, <4>3
      <3> QED BY <3>1, <3>2, Zenon
    <2> QED BY <1>1, <2>1, <2>7, Zenon DEF OrderInv
  <1> QED BY <1>3, <1>4, SendSteps, Zenon

\* What a peer opens comes from its line, after all it has opened; the line is then empty.
LEMMA CollectOrder ==
    ASSUME RelayInv, OrderInv, NEW p \in Peers, Collect(p)
    PROVE  OrderInv'
  <1> DEFINE m == mailbox(Other(p), p)
             held == collect(relay, m, now).held
             kept == {i \in DOMAIN held : open(sessions[p], held[i]) /= <<>>}
             got == MessagesOf(Retained(held, kept))
             n == Len(sealed)
  <1>1. identity[p] = p
    BY Zenon DEF RelayInv, Collect
  <1>2. opened' = [opened EXCEPT ![p] = @ \o got]
    BY <1>1, Zenon DEF Collect, CollectBox, MessagesOf
  <1>3. /\ \E k : Rest(k, waiting(relay, m)) /\ held = Envelopes(k)
        /\ waiting(relay', m) = <<>>
        /\ \A b : b /= m => Rest(waiting(relay', b), waiting(relay, b))
        /\ sealed' = sealed
    BY CollectSteps, Zenon
  <1> HIDE DEF held, kept
  <1>4. PICK k : Rest(k, waiting(relay, m)) /\ held = Envelopes(k)
    BY <1>3
  <1>5. k \in Seq(Held)
    <2>1. waiting(relay, m) \in Seq(Held)
      BY Waits, Zenon DEF RelayInv
    <2> QED BY <1>4, <2>1, RestElements, Zenon
  <1>6. held \in Seq(Frames)
    BY <1>4, <1>5, EnvelopesOf, Zenon
  <1>7. got \in Seq(Messages) /\ Within(got, MessagesOf(held))
    BY <1>6, RetainedWithin, Zenon
  <1>8. Ascends(MessagesOf(held), n, Other(p)) /\ Below(opened[p], MessagesOf(held))
    BY <1>4, LineRest, Zenon
  <1> HIDE DEF got, n
  <1>9. Ascends(got, n, Other(p)) /\ Below(opened[p], got)
    BY <1>7, <1>8, WithinOrder, Zenon
  <1>10. Ascends(opened[p], n, Other(p)) /\ opened \in [Peers -> Seq(Messages)]
    BY Zenon DEF OrderInv, n
  <1>11. Ascends(opened[p] \o got, n, Other(p))
    BY <1>9, <1>10, JoinOrder, Zenon
  <1>12. /\ opened'[p] = opened[p] \o got
         /\ \A x \in Peers : x /= p => opened'[x] = opened[x]
         /\ opened' \in [Peers -> Seq(Messages)]
    <2>1. opened[p] \o got \in Seq(Messages)
      BY <1>11 DEF Ascends
    <2> QED BY <1>2, <1>10, <2>1, Zenon
  <1>13. Ascends(Line(relay', p), n, Other(p)) /\ Below(opened'[p], Line(relay', p))
    BY <1>3, NoLine, Zenon
  <1>14. ASSUME NEW x \in Peers, x /= p
         PROVE  /\ Ascends(opened'[x], n, Other(x))
                /\ Ascends(Line(relay', x), n, Other(x))
                /\ Below(opened'[x], Line(relay', x))
    <2>1. mailbox(Other(x), x) /= m
      BY <1>14 DEF mailbox
    <2>2. Rest(waiting(relay', mailbox(Other(x), x)), waiting(relay, mailbox(Other(x), x)))
      BY <1>3, <2>1, Zenon
    <2>3. Ascends(Line(relay', x), n, Other(x)) /\ Below(opened[x], Line(relay', x))
      BY <2>2, LineRest, Zenon DEF Line, n
    <2>4. Ascends(opened[x], n, Other(x)) /\ opened'[x] = opened[x]
      BY <1>12, <1>14, Zenon DEF OrderInv, n
    <2> QED BY <2>3, <2>4, Zenon
  <1>15. Len(sealed') = n
    BY <1>3 DEF n
  <1>16. ASSUME NEW x \in Peers
         PROVE  /\ Ascends(opened'[x], Len(sealed'), Other(x))
                /\ Ascends(Line(relay', x), Len(sealed'), Other(x))
                /\ Below(opened'[x], Line(relay', x))
    <2>1. CASE x = p
      BY <1>11, <1>12, <1>13, <1>15, <2>1, Zenon
    <2>2. CASE x /= p
      BY <1>14, <1>15, <2>2, Zenon
    <2> QED BY <2>1, <2>2
  <1> QED BY <1>12, <1>16, Zenon DEF OrderInv

\* Every step keeps the order.
LEMMA OrderSteps ==
    ASSUME Inv, RelayInv, OrderInv, [Next]_linkVars
    PROVE  OrderInv'
  <1>1. CASE UNCHANGED <<relay, sealed, opened>>
    BY <1>1, Zenon DEF OrderInv
  <1>2. CASE \E p \in Peers, size \in Sizes : Send(p, size)
    BY <1>2, SendOrder, Zenon
  <1>3. CASE \E p \in Peers : Collect(p)
    BY <1>3, CollectOrder, Zenon
  <1>4. CASE RelayRestart
    <2>1. relay' = EmptyRelay /\ UNCHANGED <<sealed, opened>>
      BY <1>4, Zenon DEF RelayRestart
    <2>2. \A b : waiting(relay', b) = <<>>
      BY <2>1, EmptyShape, Zenon
    <2> QED BY <2>1, <2>2, NoLine, Zenon DEF OrderInv
  <1> QED BY <1>1, <1>2, <1>3, <1>4, ZenonT(40)
          DEF Next, linkVars, Connect, Accept, Authenticate, Tick

\* A peer opens what the other one sealed for it, each message at most once and in the order of
\* sealing, whatever the relay lost and whichever sessions were replaced
\* (session.rs open, relay.rs deposit, collect).
THEOREM OrderKept == Spec => []OpenedInOrder
  <1>1. OrderInv => OpenedInOrder
    <2> SUFFICES ASSUME OrderInv, NEW p \in Peers
                 PROVE  /\ \A i \in DOMAIN opened[p] : opened[p][i].from = Other(p)
                        /\ \A i, j \in DOMAIN opened[p] : i < j => opened[p][i].id < opened[p][j].id
      BY Zenon DEF OpenedInOrder
    <2>1. Ascends(opened[p], Len(sealed), Other(p))
      BY Zenon DEF OrderInv
    <2>2. DOMAIN opened[p] = 1..Len(opened[p])
      BY <2>1 DEF Ascends
    <2> QED BY <2>1, <2>2, Zenon DEF Ascends
  <1>2. Inv /\ RelayInv /\ [Next]_linkVars => RelayInv'
    BY RelaySteps, Zenon
  <1>3. Inv /\ RelayInv /\ OrderInv /\ [Next]_linkVars => OrderInv'
    BY OrderSteps, Zenon
  <1> QED BY Initially, Steps, RelayStarts, OrderStarts, <1>1, <1>2, <1>3, PTL DEF Spec

-----------------------------------------------------------------------------
(* The relay stays within its limits. *)

\* A new relay is within any limits.
LEMMA EmptyLimits == Limits(EmptyRelay)
  <1>1. EmptyRelay.total_bytes = 0 /\ DOMAIN EmptyRelay.mailboxes = {}
    BY Zenon DEF EmptyRelay
  <1>2. Shape(EmptyRelay, 0) /\ \A m : waiting(EmptyRelay, m) = <<>>
    BY EmptyShape, Zenon
  <1>3. Kept(EmptyRelay) = 0
    <2>1. HeldBytes(EmptyRelay.mailboxes) = Kept(EmptyRelay)
      BY <1>2, HeldOver, Zenon
    <2>2. IsFiniteSet({})
      BY FS_EmptySet, Zenon
    <2>3. HeldBytes(EmptyRelay.mailboxes) = 0
      BY <1>1, <2>2, SumPicked, Zenon DEF HeldBytes, SumFunction
    <2> QED BY <2>1, <2>3, Zenon
  <1>4. Cardinality({}) = 0
    BY FS_EmptySet, Zenon
  <1>5. \A m : Len(waiting(EmptyRelay, m)) = 0
    BY <1>2
  <1> QED BY <1>1, <1>3, <1>4, <1>5, RelayAssumption DEF Limits

\* Every step keeps the limits.
LEMMA LimitSteps ==
    ASSUME Inv, RelayInv, Limits(relay), [Next]_linkVars
    PROVE  Limits(relay')
  <1>1. Shape(relay, now) /\ now \in Nat
    BY Zenon DEF RelayInv
  <1>2. CASE UNCHANGED relay
    BY <1>2, Zenon
  <1>3. ASSUME NEW p \in Peers, NEW size \in Sizes, Send(p, size)
        PROVE  Limits(relay')
    <2>1. mailbox(p, Other(p)) \in Pairs
      BY Others DEF Pairs
    <2> QED BY <1>1, <1>2, <1>3, <2>1, SendSteps, DepositLimits, Zenon
  <1>4. ASSUME NEW p \in Peers, Collect(p)
        PROVE  Limits(relay')
    <2>1. mailbox(Other(p), p) \in Pairs
      BY Others DEF Pairs
    <2>2. identity[p] = p
      BY <1>4, Zenon DEF RelayInv, Collect
    <2>3. relay' = collect(relay, mailbox(Other(p), p), now).relay
      BY <1>4, <2>2, Zenon DEF Collect, CollectBox
    <2> QED BY <1>1, <2>1, <2>3, CollectLimits, Zenon
  <1>5. CASE RelayRestart
    <2>1. relay' = EmptyRelay
      BY <1>5, Zenon DEF RelayRestart
    <2> QED BY <2>1, EmptyLimits, Zenon
  <1> QED BY <1>2, <1>3, <1>4, <1>5, ZenonT(40)
          DEF Next, linkVars, Connect, Accept, Authenticate, Tick

\* What the limits say of the mailboxes.
LEMMA WithinLimits ==
    ASSUME RelayInv, Limits(relay)
    PROVE  HeldWithinLimits
  <1>1. Shape(relay, now)
    BY Zenon DEF RelayInv
  <1>2. relay.total_bytes = HeldBytes(relay.mailboxes) /\ relay.total_bytes <= MAX_TOTAL_BYTES
        /\ Cardinality(DOMAIN relay.mailboxes) <= MAX_MAILBOXES
    BY <1>1, HeldOver, Zenon DEF Limits
  <1>3. ASSUME NEW m \in DOMAIN relay.mailboxes
        PROVE  Len(relay.mailboxes[m]) \in 1..MAX_QUEUED_ENVELOPES
    <2>1. /\ relay.mailboxes[m] \in Seq(Held) /\ relay.mailboxes[m] /= <<>>
          /\ Len(relay.mailboxes[m]) <= MAX_QUEUED_ENVELOPES
      BY <1>1, Zenon DEF Limits, Shape, Box, waiting
    <2> QED BY <2>1, RelayAssumption
  <1> QED BY <1>2, <1>3, Zenon DEF HeldWithinLimits

\* The relay is within its limits at every moment, for any limits and sizes, and the byte
\* count it decides by is what it holds: expiry counts anew, and eviction, deposit and collect
\* add and take off exactly what comes and goes, so the saturating subtraction never saturates
\* (relay.rs:39-55, expire_older_than, discard_oldest).
THEOREM LimitsKept == Spec => []HeldWithinLimits
  <1>1. Init => Limits(relay)
    BY EmptyLimits, Zenon DEF Init
  <1>2. Inv /\ RelayInv /\ [Next]_linkVars => RelayInv'
    BY RelaySteps, Zenon
  <1>3. Inv /\ RelayInv /\ Limits(relay) /\ [Next]_linkVars => Limits(relay)'
    <2>1. Inv /\ RelayInv /\ Limits(relay) /\ [Next]_linkVars => Limits(relay')
      BY LimitSteps, Zenon
    <2> QED BY <2>1, Zenon DEF Limits, Kept, Load, waiting
  <1>4. RelayInv /\ Limits(relay) => HeldWithinLimits
    BY WithinLimits, Zenon
  <1> QED BY Initially, Steps, RelayStarts, <1>1, <1>2, <1>3, <1>4, PTL DEF Spec
=============================================================================
