--------------------------- MODULE FederationLink ---------------------------
(* Two peers that cannot reach each other: they hold sealed sessions          *)
(* (Session), leave sealed frames with a relay and collect them there         *)
(* (RelayQueue), as tests/federation_transport.rs drives them.  The link may  *)
(* fail after one side has its session, the relay evicts, expires and is      *)
(* restarted, clients connect to it anew.                                     *)
EXTENDS RelayQueue, Session

CONSTANTS
    Peers,        \* the two peers
    NoPeer,       \* the identity of a client that has not proved one
    Sizes,        \* sizes of messages
    MaxMessages,  \* bound: messages sealed
    MaxClock,     \* bound: time
    MaxFailures   \* bound: broken connections and relay restarts

ASSUME LinkAssumption ==
    /\ MAX_FRAME_BYTES = MAX_ENVELOPE_BYTES
    /\ NoPeer \notin Peers
    /\ \E p, q \in Peers : p /= q /\ Peers = {p, q}
    /\ {MaxMessages, MaxClock, MaxFailures, SEALING_BYTES, U64_MAX} \subseteq Nat
    /\ Sizes \subseteq Nat

VARIABLES
    relay,     \* the relay's queue
    now,       \* the relay's clock
    identity,  \* the relay's side of each peer's connection: who it has proved to be
    failures,  \* broken connections and relay restarts so far
    offers,    \* the offer each peer has made in the current connection
    sessions,  \* each peer's session
    sealed,    \* history: every frame ever sealed, in order
    handed,    \* history: what the relay handed over, per mailbox
    opened     \* history: the messages each peer opened, in order

linkVars == <<relay, now, identity, failures, offers, sessions, sealed, handed,
              opened>>

\* The other one of the two.
Other(p) == CHOOSE q \in Peers : q /= p

Pairs == {mailbox(p, q) : p, q \in Peers}

NoOffer == [peer |-> NoPeer, ephemeral |-> 0, signer |-> NoPeer]

Init ==
    /\ relay = EmptyRelay
    /\ now = 0
    /\ identity = [p \in Peers |-> NoPeer]
    /\ failures = 0
    /\ offers = [p \in Peers |-> NoOffer]
    /\ sessions = [p \in Peers |-> NoSession]
    /\ sealed = <<>>
    /\ handed = [m \in Pairs |-> <<>>]
    /\ opened = [p \in Peers |-> <<>>]

----------------------------------------------------------------------------
(* Sessions *)

\* Ephemeral keys of the n-th handshake; which of the two is the lower is chance.
Ephemerals(n) == {2 * n, 2 * n + 1}

\* A connection: both sides draw a key and send their offer.  Earlier sessions stay in use
\* until a new one is accepted.
Connect(n) ==
    /\ \A p \in Peers : offers[p].ephemeral \in Ephemerals(n - 1)
    /\ \E k \in [Peers -> Ephemerals(n)] :
        /\ \A p, q \in Peers : p /= q => k[p] /= k[q]
        /\ offers' = [p \in Peers |-> Handshake(p, k[p])]
    /\ failures' = IF n = 1 THEN failures ELSE failures + 1
    /\ failures' <= MaxFailures
    /\ UNCHANGED <<relay, now, identity, sessions, sealed, handed, opened>>

\* One side reads the other's offer and has its session; the other may never get so far.
Accept(p) ==
    /\ offers[p] /= NoOffer
    /\ LET fresh == accept(offers[p], offers[Other(p)], {Other(p)})
       IN  /\ fresh /= NoSession
           /\ sessions[p].key /= fresh.key
           /\ sessions' = [sessions EXCEPT ![p] = fresh]
    /\ UNCHANGED <<relay, now, identity, failures, offers, sealed, handed, opened>>

----------------------------------------------------------------------------
(* The relay's clients *)

\* authenticate: a signature over this connection's challenge is the client's own, so it
\* proves the client's own identity; any other claim is refused and changes nothing.
Authenticate(p, claimed) ==
    /\ claimed = p
    /\ identity' = [identity EXCEPT ![p] = claimed]
    /\ UNCHANGED <<relay, now, failures, offers, sessions, sealed, handed, opened>>

\* The mailbox a client's deposit goes to, and the one it collects from.
DepositBox(client, to) == mailbox(client, to)
CollectBox(client, from) == mailbox(from, client)

\* A peer seals its next message and asks the relay to keep it; a refused frame is lost, its
\* number is not used again.
Send(p, size) ==
    /\ sessions[p] /= NoSession
    /\ Len(sealed) < MaxMessages
    /\ LET result == send(sessions[p], [id |-> Len(sealed), from |-> p, size |-> size])
           keep(f) == deposit(relay, DepositBox(identity[p], Other(p)), f, now)
       IN  /\ sessions' = [sessions EXCEPT ![p] = result.session]
           /\ sealed' = sealed \o (IF result.frames = {} THEN <<>>
                                   ELSE <<CHOOSE f \in result.frames : TRUE>>)
           /\ IF result.frames = {} \/ identity[p] = NoPeer
              THEN UNCHANGED relay
              ELSE \E f \in result.frames : relay' \in keep(f)
    /\ UNCHANGED <<now, identity, failures, offers, handed, opened>>

\* A peer collects what is left for it and opens what it can.
Collect(p) ==
    /\ identity[p] /= NoPeer
    /\ LET m     == CollectBox(identity[p], Other(p))
           taken == collect(relay, m, now)
           opens == {i \in DOMAIN taken.held : open(sessions[p], taken.held[i]) /= <<>>}
           read  == Retained(taken.held, opens)
       IN  /\ relay' = taken.relay
           /\ handed' = [handed EXCEPT ![m] = @ \o taken.held]
           /\ opened' = [opened EXCEPT ![p] = @ \o [i \in DOMAIN read |-> read[i].message]]
    /\ UNCHANGED <<now, identity, failures, offers, sessions, sealed>>

----------------------------------------------------------------------------
(* Time and failure *)

Tick ==
    /\ now < MaxClock
    /\ now' = now + 1
    /\ UNCHANGED <<relay, identity, failures, offers, sessions, sealed, handed, opened>>

\* The relay is restarted: it keeps nothing, and its clients connect anew.
RelayRestart ==
    /\ failures < MaxFailures
    /\ failures' = failures + 1
    /\ relay' = EmptyRelay
    /\ identity' = [p \in Peers |-> NoPeer]
    /\ UNCHANGED <<now, offers, sessions, sealed, handed, opened>>

Next ==
    \/ \E n \in 1..(MaxFailures + 1) : Connect(n)
    \/ \E p \in Peers : Accept(p)
    \/ \E p, claimed \in Peers : Authenticate(p, claimed)
    \/ \E p \in Peers, size \in Sizes : Send(p, size)
    \/ \E p \in Peers : Collect(p)
    \/ Tick
    \/ RelayRestart

Spec == Init /\ [][Next]_linkVars

----------------------------------------------------------------------------
(* Properties *)

\* The frames a peer can have sealed.
Frames ==
    [key : Nat \X Nat, prefix : {0, 1}, counter : Nat, size : Nat,
     message : [id : Nat, from : Peers, size : Nat]]

\* The contents of a mailbox, as its users see them.
Contents(m) == [i \in DOMAIN waiting(relay, m) |-> waiting(relay, m)[i].envelope]

Promise == INSTANCE Mailbox WITH
    Boxes <- Pairs, Envelopes <- Frames, box <- [m \in Pairs |-> Contents(m)]

\* The relay is the mailbox it promises to be: eviction, expiry and a restart only lose the
\* oldest envelopes; nothing is repeated, reordered or handed to the other direction
\* (relay.rs deposit, collect, expire).
RelayIsMailbox == Promise!Spec

\* Every limit of the relay holds at every moment, and the byte count it decides by is what
\* it holds (relay.rs:39-55, expire_older_than, discard_oldest).
HeldWithinLimits ==
    /\ relay.total_bytes = HeldBytes(relay.mailboxes)
    /\ relay.total_bytes <= MAX_TOTAL_BYTES
    /\ Cardinality(DOMAIN relay.mailboxes) <= MAX_MAILBOXES
    /\ \A m \in DOMAIN relay.mailboxes :
        Len(relay.mailboxes[m]) \in 1..MAX_QUEUED_ENVELOPES

\* No two frames are sealed under the same key with the same nonce, whichever side sealed
\* them and however often the peers shook hands (session.rs accept, seal, nonce).
NonceNeverReused ==
    \A i, j \in DOMAIN sealed :
        i /= j => <<sealed[i].key, sealed[i].prefix, sealed[i].counter>>
                    /= <<sealed[j].key, sealed[j].prefix, sealed[j].counter>>

\* A peer opens what the other one sealed for it, each message at most once and in the order
\* of sealing, whatever was lost on the way or sealed under an earlier session
\* (session.rs open, relay.rs collect).
OpenedInOrder ==
    \A p \in Peers :
        /\ \A i \in DOMAIN opened[p] : opened[p][i].from = Other(p)
        /\ \A i, j \in DOMAIN opened[p] : i < j => opened[p][i].id < opened[p][j].id
=============================================================================
