------------------------------ MODULE Mailbox ------------------------------
(* What a relay promises to the peers on both sides of it                    *)
(* (federation/relay.rs:1-17): for each direction a queue of envelopes that   *)
(* may lose its oldest ones at any time and hands the rest over once, whole   *)
(* and in the order of deposit.  It never invents, alters, repeats or         *)
(* reorders an envelope, and never moves one to another direction.            *)
EXTENDS Sequences, Naturals

CONSTANTS
    Boxes,      \* the directions: who left the envelope for whom
    Envelopes   \* what can be deposited

VARIABLES
    box,        \* what each direction holds, oldest first
    handed      \* what each direction has handed over so far

vars == <<box, handed>>

\* What is left of a queue that lost its n oldest elements.
After(queue, n) == SubSeq(queue, n + 1, Len(queue))

\* Every queue that q becomes by losing some of its oldest elements.
Remainders(q) == {After(q, n) : n \in 0..Len(q)}

Init ==
    /\ box = [b \in Boxes |-> <<>>]
    /\ handed = [b \in Boxes |-> <<>>]

\* Envelopes grow old or are evicted.
Lose ==
    /\ \A b \in Boxes : box'[b] \in Remainders(box[b])
    /\ DOMAIN box' = Boxes
    /\ UNCHANGED handed

\* One envelope goes to the end of one queue; others may be evicted for it.
Deposit(b) ==
    /\ \E kept \in Remainders(box[b]) :
        /\ Len(box'[b]) = Len(kept) + 1
        /\ SubSeq(box'[b], 1, Len(kept)) = kept
    /\ box'[b][Len(box'[b])] \in Envelopes
    /\ \A c \in Boxes \ {b} : box'[c] \in Remainders(box[c])
    /\ DOMAIN box' = Boxes
    /\ UNCHANGED handed

\* One queue is handed over and empty afterwards.
Collect(b) ==
    /\ \E kept \in Remainders(box[b]) : handed' = [handed EXCEPT ![b] = @ \o kept]
    /\ box'[b] = <<>>
    /\ \A c \in Boxes \ {b} : box'[c] \in Remainders(box[c])
    /\ DOMAIN box' = Boxes

Next ==
    \/ Lose
    \/ \E b \in Boxes : Deposit(b) \/ Collect(b)

Spec == Init /\ [][Next]_vars
=============================================================================
