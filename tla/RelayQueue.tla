----------------------------- MODULE RelayQueue -----------------------------
(* The store-and-forward relay of federation/relay.rs as operations on its    *)
(* state: a record of the mailboxes that exist (none is empty) and the byte   *)
(* count kept beside them.  A mailbox is named by the pair of peers the code  *)
(* hashes.  An envelope is a record with a size; the relay never looks into   *)
(* it.  Time is in units of which ENVELOPE_TTL are a day.                     *)
EXTENDS Naturals, FiniteSets, Sequences, Functions

CONSTANTS
    MAX_QUEUED_ENVELOPES,  \* envelopes in one mailbox
    MAX_TOTAL_BYTES,       \* bytes in all of them
    MAX_MAILBOXES,         \* mailboxes
    MAX_ENVELOPE_BYTES,    \* bytes of one envelope
    ENVELOPE_TTL           \* how long one is held

ASSUME RelayAssumption ==
    /\ MAX_QUEUED_ENVELOPES \in Nat \ {0}
    /\ {MAX_TOTAL_BYTES, MAX_MAILBOXES, MAX_ENVELOPE_BYTES, ENVELOPE_TTL} \subseteq Nat

\* A relay that holds nothing.
EmptyRelay == [mailboxes |-> [m \in {} |-> <<>>], total_bytes |-> 0]

\* Where one peer leaves envelopes for another.
mailbox(from, to) == <<from, to>>

check_frame_length(claimed, limit) == claimed <= limit

QueueBytes(queue) == SumFunction([i \in DOMAIN queue |-> queue[i].envelope.size])

HeldBytes(boxes) == SumFunction([m \in DOMAIN boxes |-> QueueBytes(boxes[m])])

\* What collect would hand over.
waiting(relay, m) == IF m \in DOMAIN relay.mailboxes THEN relay.mailboxes[m] ELSE <<>>

\* Boxes without those that became empty.
NonEmpty(boxes) == Restrict(boxes, {m \in DOMAIN boxes : boxes[m] /= <<>>})

\* retain: the elements at the positions in `kept`, in their order.
Retained(queue, kept) ==
    LET upto[i \in 0..Len(queue)] ==
            IF i = 0 THEN <<>>
            ELSE IF i \in kept THEN Append(upto[i - 1], queue[i]) ELSE upto[i - 1]
    IN  upto[Len(queue)]

\* The code's subtraction on an unsigned byte count.
saturating_sub(a, b) == IF b > a THEN 0 ELSE a - b

\* Fault: expiry forgets to recount.
expire_uncounted(relay, now) ==
    LET young(queue) == Retained(queue, {i \in DOMAIN queue : now - queue[i].deposited < ENVELOPE_TTL})
    IN  [relay EXCEPT !.mailboxes =
            NonEmpty([m \in DOMAIN relay.mailboxes |-> young(relay.mailboxes[m])])]

\* Envelopes of full age leave, emptied mailboxes go, and the bytes are counted anew.
expire(relay, now) ==
    LET young(queue) == Retained(queue, {i \in DOMAIN queue : now - queue[i].deposited < ENVELOPE_TTL})
        left == NonEmpty([m \in DOMAIN relay.mailboxes |-> young(relay.mailboxes[m])])
    IN  [mailboxes |-> left, total_bytes |-> HeldBytes(left)]

\* Fault: the newest envelope goes instead.
DropFirst_last(relay, m) ==
    LET queue == relay.mailboxes[m]
        boxes == NonEmpty([relay.mailboxes EXCEPT ![m] = SubSeq(queue, 1, Len(queue) - 1)])
    IN  [mailboxes |-> boxes, total_bytes |-> HeldBytes(boxes)]

\* The first envelope of mailbox m removed.
DropFirst(relay, m) ==
    [mailboxes |-> NonEmpty([relay.mailboxes EXCEPT ![m] = Tail(@)]),
     total_bytes |-> saturating_sub(relay.total_bytes,
                                    Head(relay.mailboxes[m]).envelope.size)]

\* The mailboxes whose first envelope is the oldest of all; which of several the code takes
\* depends on the iteration order of its map.
Oldest(boxes) ==
    {m \in DOMAIN boxes : \A n \in DOMAIN boxes :
        Head(boxes[m]).deposited <= Head(boxes[n]).deposited}

\* The relays that one more round of the eviction loop can leave: the same one when there is
\* room or nothing to discard.
EvictOne(relay, size) ==
    IF relay.total_bytes + size <= MAX_TOTAL_BYTES \/ DOMAIN relay.mailboxes = {}
    THEN {relay}
    ELSE {DropFirst(relay, m) : m \in Oldest(relay.mailboxes)}

\* The relays the eviction loop can end in, after as many rounds as there can be envelopes.
Evicted(relay, size) ==
    LET after[n \in 0..(MAX_MAILBOXES * MAX_QUEUED_ENVELOPES)] ==
            IF n = 0 THEN {relay} ELSE UNION {EvictOne(r, size) : r \in after[n - 1]}
    IN  after[MAX_MAILBOXES * MAX_QUEUED_ENVELOPES]

\* The envelope at the end of its mailbox, whose oldest leaves when it is full.
Push(relay, m, envelope, now) ==
    LET room  == IF Len(waiting(relay, m)) >= MAX_QUEUED_ENVELOPES
                 THEN DropFirst(relay, m) ELSE relay
        queue == Append(waiting(room, m), [envelope |-> envelope, deposited |-> now])
        boxes == [n \in DOMAIN room.mailboxes \cup {m} |->
                    IF n = m THEN queue ELSE room.mailboxes[n]]
    IN  [mailboxes |-> boxes, total_bytes |-> room.total_bytes + envelope.size]

\* The relays a deposit can leave.  A refused one (too large, too many mailboxes, no room)
\* keeps what expiry and eviction did before it.
deposit(relay, m, envelope, now) ==
    LET fresh == expire(relay, now)
        full  == m \notin DOMAIN fresh.mailboxes
                    /\ Cardinality(DOMAIN fresh.mailboxes) >= MAX_MAILBOXES
        outcome(r) ==
            IF r.total_bytes + envelope.size > MAX_TOTAL_BYTES
            THEN r ELSE Push(r, m, envelope, now)
    IN  IF ~check_frame_length(envelope.size, MAX_ENVELOPE_BYTES) THEN {relay}
        ELSE IF full THEN {fresh}
        ELSE {outcome(r) : r \in Evicted(fresh, envelope.size)}

\* Fault: what was handed over stays in the mailbox.
collect_kept(relay, m, now) ==
    LET fresh == expire(relay, now)
    IN  [relay |-> fresh,
         held |-> [i \in DOMAIN waiting(fresh, m) |-> waiting(fresh, m)[i].envelope]]

\* collect: a whole mailbox leaves the relay, which keeps what is left.
collect(relay, m, now) ==
    LET fresh == expire(relay, now)
    IN  [relay |-> [mailboxes |-> Restrict(fresh.mailboxes, DOMAIN fresh.mailboxes \ {m}),
                    total_bytes |-> saturating_sub(fresh.total_bytes,
                                                   QueueBytes(waiting(fresh, m)))],
         held |-> [i \in DOMAIN waiting(fresh, m) |-> waiting(fresh, m)[i].envelope]]
=============================================================================
