----------------------------- MODULE PeerLedger ------------------------------
(***************************************************************************)
(* The ledger of src/federation/ledger.rs: which peers are believed, the   *)
(* highest sequence accepted from each, and the reservation that keeps the *)
(* transaction of one peer serial.                                         *)
(*                                                                         *)
(* A bundle is abstracted to what `prepare` tells apart: who signed it,    *)
(* its sequence, whether `verify` accepts it and whether every record of   *)
(* it can be decoded by this build.  A receipt is the peer, sequence and   *)
(* token that `Prepared::split` keeps after the evidence is given away.    *)
(***************************************************************************)
EXTENDS Integers

CONSTANTS Peers,        \* public keys
          MaxSequence   \* bound: highest sequence number that is used

VARIABLES trusted,           \* paired peers
          highest_sequence,  \* per peer; NoCursor when the map has no entry
          in_flight,         \* per peer, the token reserved; NoToken if none
          next_token         \* the last token handed out

ledgerVars == <<trusted, highest_sequence, in_flight, next_token>>

NoCursor == -1
NoToken == 0

SequenceNumbers == 0..MaxSequence

Bundles == [peer : Peers, sequence : SequenceNumbers,
            genuine : BOOLEAN, decodable : BOOLEAN]

Receipts == [peer : Peers, sequence : SequenceNumbers, token : Nat]

Larger(a, b) == IF a > b THEN a ELSE b

LedgerTypeOK ==
    /\ trusted \in SUBSET Peers
    /\ highest_sequence \in [Peers -> SequenceNumbers \cup {NoCursor}]
    /\ in_flight \in [Peers -> Nat]
    /\ next_token \in Nat

\* PeerLedger::new().
LedgerInit ==
    /\ trusted = {}
    /\ highest_sequence = [p \in Peers |-> NoCursor]
    /\ in_flight = [p \in Peers |-> NoToken]
    /\ next_token = 0

------------------------------------------------------------------------------
pair(p) ==
    /\ trusted' = trusted \cup {p}
    /\ UNCHANGED <<highest_sequence, in_flight, next_token>>

\* The early returns of `prepare`, in their order; "Prepared" when none fires.
verdict(b) ==
    IF ~b.genuine                                      THEN "Unverifiable"
    ELSE IF b.peer \notin trusted                      THEN "NotPaired"
    ELSE IF b.sequence <= highest_sequence[b.peer]     THEN "Stale"
    ELSE IF ~b.decodable                               THEN "Undecodable"
    ELSE IF in_flight[b.peer] # NoToken                THEN "Busy"
    ELSE "Prepared"

\* `prepare` on the path that succeeds; a refusal leaves the ledger alone.
prepare(b) ==
    /\ verdict(b) = "Prepared"
    /\ next_token' = next_token + 1
    /\ in_flight' = [in_flight EXCEPT ![b.peer] = next_token + 1]
    /\ UNCHANGED <<trusted, highest_sequence>>

\* The receipt `split` leaves for the reservation `prepare` is about to take.
split(b) == [peer |-> b.peer, sequence |-> b.sequence, token |-> next_token + 1]

Owns(receipt) == in_flight[receipt.peer] = receipt.token

\* Fault: the cursor is kept as the next sequence expected.
commit_next(receipt) ==
    /\ IF Owns(receipt)
         THEN /\ highest_sequence' = [highest_sequence EXCEPT ![receipt.peer] =
                                        receipt.sequence + 1]
              /\ in_flight' = [in_flight EXCEPT ![receipt.peer] = NoToken]
         ELSE UNCHANGED <<highest_sequence, in_flight>>
    /\ UNCHANGED <<trusted, next_token>>

\* `commit`: ignored unless the receipt owns the current reservation.
commit(receipt) ==
    /\ IF Owns(receipt)
         THEN /\ highest_sequence' = [highest_sequence EXCEPT ![receipt.peer] =
                                        Larger(@, receipt.sequence)]
              /\ in_flight' = [in_flight EXCEPT ![receipt.peer] = NoToken]
         ELSE UNCHANGED <<highest_sequence, in_flight>>
    /\ UNCHANGED <<trusted, next_token>>

\* Faults: any receipt releases the reservation of its peer; none does.
abandon_any(receipt) ==
    /\ in_flight' = [in_flight EXCEPT ![receipt.peer] = NoToken]
    /\ UNCHANGED <<trusted, highest_sequence, next_token>>
abandon_never(receipt) == UNCHANGED ledgerVars

\* `abandon`: releases the reservation, again only its own.
abandon(receipt) ==
    /\ in_flight' = IF Owns(receipt)
                      THEN [in_flight EXCEPT ![receipt.peer] = NoToken]
                      ELSE in_flight
    /\ UNCHANGED <<trusted, highest_sequence, next_token>>

\* Fault: the ledger of a new process starts without the stored cursors.
restore_forgetting(paired, cursors) ==
    /\ trusted' = paired
    /\ highest_sequence' = [p \in Peers |-> NoCursor]
    /\ in_flight' = [p \in Peers |-> NoToken]
    /\ next_token' = 0

\* A new ledger at startup: `pair` for every stored pairing, `restore_cursor`
\* for every stored cursor.
restore(paired, cursors) ==
    /\ trusted' = paired
    /\ highest_sequence' = [p \in Peers |-> Larger(NoCursor, cursors[p])]
    /\ in_flight' = [p \in Peers |-> NoToken]
    /\ next_token' = 0

\* The process is gone and the ledger with it.
lose ==
    /\ trusted' = {}
    /\ highest_sequence' = [p \in Peers |-> NoCursor]
    /\ in_flight' = [p \in Peers |-> NoToken]
    /\ next_token' = 0
==============================================================================
