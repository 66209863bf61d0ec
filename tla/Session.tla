------------------------------ MODULE Session ------------------------------
(* Sealed sessions between two peers (federation/session.rs, transport.rs).   *)
(* An ephemeral key is a number, drawn afresh for every offer; the session    *)
(* key is what Diffie-Hellman over the two and a salt of both in order give,  *)
(* so it is known by the pair.  A sealed frame carries its counter in clear   *)
(* and opens under the same key, direction and counter only.                  *)
EXTENDS Naturals, Sequences

CONSTANTS
    MAX_FRAME_BYTES,  \* MAX_ENVELOPE_BYTES of limits.rs
    SEALING_BYTES,    \* what sealing adds: the counter and the tag
    U64_MAX           \* where the counter ends

NoSession == [key |-> <<>>]

frame_length_ok(claimed) == claimed <= MAX_FRAME_BYTES

\* What one side sends first: its identity, its ephemeral key and the signature over it.
Handshake(peer, ephemeral) == [peer |-> peer, ephemeral |-> ephemeral, signer |-> peer]

verify(theirs) == theirs.signer = theirs.peer

OrderedPair(a, b) == IF a <= b THEN <<a, b>> ELSE <<b, a>>

\* Fault: both sides number their messages in one space.
send_prefix_shared(ours, theirs) == 0

\* The prefix of the nonces one side sends with: the lower ephemeral key has 0.
send_prefix(ours, theirs) == IF ours <= theirs THEN 0 ELSE 1

\* accept: no session unless the signature verifies and the peer is the expected one.  With
\* no expectation the peer that answered is taken (transport.rs handshake).
accept(ours, theirs, expected) ==
    IF ~verify(theirs) \/ theirs.peer \notin expected THEN NoSession
    ELSE [key            |-> OrderedPair(ours.ephemeral, theirs.ephemeral),
          peer           |-> theirs.peer,
          send_prefix    |-> send_prefix(ours.ephemeral, theirs.ephemeral),
          receive_prefix |-> 1 - send_prefix(ours.ephemeral, theirs.ephemeral),
          sent           |-> 0]

\* seal: the session afterwards and the frame, or no frame when the counter is used up.
seal(session, message) ==
    IF session.sent = U64_MAX
    THEN [session |-> session, frames |-> {}]
    ELSE [session |-> [session EXCEPT !.sent = @ + 1],
          frames  |-> {[key |-> session.key, prefix |-> session.send_prefix,
                        counter |-> session.sent, message |-> message,
                        size |-> message.size + SEALING_BYTES]}]

\* send: the frame of seal is written unless it is over the limit of a frame; the counter is
\* spent either way.
send(session, message) ==
    LET sealed == seal(session, message)
    IN  [sealed EXCEPT !.frames = {f \in @ : frame_length_ok(f.size)}]

\* open: what a frame says, if it opens.  The receiver keeps no position, so order and
\* repetition do not matter to it.
open(session, frame) ==
    IF /\ session /= NoSession
       /\ frame_length_ok(frame.size)
       /\ frame.key = session.key
       /\ frame.prefix = session.receive_prefix
    THEN <<frame.message>>
    ELSE <<>>
=============================================================================
