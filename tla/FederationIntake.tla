-------------------------- MODULE FederationIntake ---------------------------
(***************************************************************************)
(* How a peer's bundle becomes evidence: the ledger, the durable store and *)
(* the continuous source composed, driven by one task per connection.      *)
(*                                                                         *)
(* A task runs the transaction that ledger.rs prescribes: prepare, hand    *)
(* the evidence to the engine, persist the cursor, commit, acknowledge;    *)
(* abandon when the engine declines or the cursor cannot be written.  The  *)
(* task itself is a caller of the library: its order of calls is the       *)
(* contract stated there, every call is the code's.  Connections of one    *)
(* peer run concurrently (a direct link and a relay), a relay may repeat,  *)
(* reorder or damage bundles, the engine drains and finishes meanwhile,    *)
(* and the process may stop between any two steps.                         *)
(***************************************************************************)
EXTENDS FederationStore, FiniteSets

CONSTANTS Connections,   \* tasks, each talking to whichever peer dialled in
          NoReceipt,     \* a connection with no transaction
          MaxTokens,     \* bound: reservations taken by one process
          MaxFaults,     \* bound: crashes, failed writes and lost tasks
          TasksMayDie    \* whether a task can be dropped mid-transaction

ASSUME IntakeAssumption ==
    /\ MaxTokens \in Nat
    /\ MaxFaults \in Nat
    /\ TasksMayDie \in BOOLEAN
    /\ IsFiniteSet(Connections)

VARIABLES trusted, highest_sequence, in_flight, next_token,
          pending, stopped, accepted_records, outcomes, absorbed,
          pc,          \* where each connection's task is
          txn,         \* the receipt of its transaction
          finished,    \* receipts already committed or abandoned, still held
          acked,       \* history: <<peer, sequence>> acknowledged, ever
          everQueued,  \* history: <<peer, sequence>> queued, ever
          faults       \* how many faults have happened

Evidence == Peers \X (0..MaxSequence)

Ledger == INSTANCE PeerLedger
Source == INSTANCE FederationSource

ledgerVars == <<trusted, highest_sequence, in_flight, next_token>>
sourceVars == <<pending, stopped, accepted_records, outcomes, absorbed>>
taskVars == <<pc, txn, finished, acked, everQueued>>
vars == <<storeVars, ledgerVars, sourceVars, taskVars, faults>>

Running == phase \notin {"closed", "open"}

\* Transaction states that hold a reservation ...
Reserved == {"prepared", "declined", "enqueued", "counted", "queued",
             "recording", "durable", "unpersisted"}
\* ... and all states of a task.
TaskStates == Reserved \cup {"idle", "committed"}

Item(receipt) == <<receipt.peer, receipt.sequence>>

TypeOK ==
    /\ StoreTypeOK
    /\ Ledger!LedgerTypeOK
    /\ Source!SourceTypeOK
    /\ pc \in [Connections -> TaskStates]
    /\ txn \in [Connections -> Ledger!Receipts \cup {NoReceipt}]
    /\ finished \in SUBSET Ledger!Receipts
    /\ acked \in SUBSET Evidence
    /\ everQueued \in SUBSET Evidence
    /\ faults \in Nat

Init ==
    /\ StoreInit
    /\ Ledger!LedgerInit
    /\ Source!SourceInit
    /\ pc = [c \in Connections |-> "idle"]
    /\ txn = [c \in Connections |-> NoReceipt]
    /\ finished = {}
    /\ acked = {}
    /\ everQueued = {}
    /\ faults = 0

------------------------------------------------------------------------------
(* Startup.                                                                 *)

Open ==
    /\ open
    /\ UNCHANGED <<ledgerVars, sourceVars, taskVars, faults>>

\* The store is open: the ledger is seeded from it, and the run begins.
Opened ==
    /\ phase = "open"
    /\ persist_ok
    /\ Ledger!restore(state.paired, state.inbound_cursor)
    /\ UNCHANGED <<sourceVars, taskVars, faults>>

------------------------------------------------------------------------------
(* The operator pairs and unpairs.  Pairing reaches the ledger once it is   *)
(* durable; the ledger has no way to unpair, so unpairing takes effect at   *)
(* the next start.                                                          *)

Pair(p) ==
    /\ p \notin state.paired
    /\ pair(p)
    /\ UNCHANGED <<ledgerVars, sourceVars, taskVars, faults>>

Paired(p) ==
    /\ phase = "pair"
    /\ p \in state.paired \ previous.paired
    /\ persist_ok
    /\ Ledger!pair(p)
    /\ UNCHANGED <<sourceVars, taskVars, faults>>

Unpair(p) ==
    /\ p \in state.paired
    /\ unpair(p)
    /\ UNCHANGED <<ledgerVars, sourceVars, taskVars, faults>>

Unpaired ==
    /\ phase = "unpair"
    /\ persist_ok
    /\ UNCHANGED <<ledgerVars, sourceVars, taskVars, faults>>

------------------------------------------------------------------------------
(* One connection's task.                                                   *)

\* A bundle arrives and is prepared.
Prepare(c, b) ==
    /\ Running
    /\ pc[c] = "idle"
    /\ next_token < MaxTokens
    /\ Ledger!prepare(b)
    /\ pc' = [pc EXCEPT ![c] = "prepared"]
    /\ txn' = [txn EXCEPT ![c] = Ledger!split(b)]
    /\ UNCHANGED <<storeVars, sourceVars, finished, acked, everQueued, faults>>

\* A bundle arrives and is refused; the refusal is reported, not hidden.
Refuse(c, b) ==
    /\ Running
    /\ pc[c] = "idle"
    /\ Ledger!verdict(b) # "Prepared"
    /\ Source!reject(b.peer, Ledger!verdict(b))
    /\ UNCHANGED <<storeVars, ledgerVars, taskVars, faults>>

\* `deliver` is split where it releases the queue's lock.
Deliver(c) ==
    /\ pc[c] = "prepared"
    /\ Source!deliver_enqueue(Item(txn[c]))
    /\ pc' = [pc EXCEPT ![c] = "enqueued"]
    /\ everQueued' = everQueued \cup {Item(txn[c])}
    /\ UNCHANGED <<storeVars, ledgerVars, txn, finished, acked, faults>>

\* Fault: a declined delivery is counted.
Declined_counted(c) ==
    /\ pc[c] = "prepared"
    /\ Source!deliver_declined
    /\ pc' = [pc EXCEPT ![c] = "enqueued"]
    /\ UNCHANGED <<storeVars, ledgerVars, txn, finished, acked, everQueued, faults>>

Declined(c) ==
    /\ pc[c] = "prepared"
    /\ Source!deliver_declined
    /\ pc' = [pc EXCEPT ![c] = "declined"]
    /\ UNCHANGED <<storeVars, ledgerVars, txn, finished, acked, everQueued, faults>>

CountRecords(c) ==
    /\ pc[c] = "enqueued"
    /\ Source!deliver_count
    /\ pc' = [pc EXCEPT ![c] = "counted"]
    /\ UNCHANGED <<storeVars, ledgerVars, txn, finished, acked, everQueued, faults>>

NoteOutcome(c) ==
    /\ pc[c] = "counted"
    /\ Source!deliver_outcome(txn[c].peer)
    /\ pc' = [pc EXCEPT ![c] = "queued"]
    /\ UNCHANGED <<storeVars, ledgerVars, txn, finished, acked, everQueued, faults>>

\* The cursor is written, unless the store already covers the sequence.
RecordInbound(c) ==
    /\ pc[c] = "queued"
    /\ IF phase = "ready" /\ AlreadyRecorded(txn[c].peer, txn[c].sequence)
         THEN /\ record_inbound_noop(txn[c].peer, txn[c].sequence)
              /\ pc' = [pc EXCEPT ![c] = "durable"]
         ELSE /\ record_inbound(txn[c].peer, txn[c].sequence)
              /\ pc' = [pc EXCEPT ![c] = "recording"]
    /\ UNCHANGED <<ledgerVars, sourceVars, txn, finished, acked, everQueued, faults>>

Recorded(c) ==
    /\ pc[c] = "recording"
    /\ persist_ok
    /\ pc' = [pc EXCEPT ![c] = "durable"]
    /\ UNCHANGED <<ledgerVars, sourceVars, txn, finished, acked, everQueued, faults>>

\* `commit` says whether this receipt still owned the reservation.
Commit(c) ==
    /\ pc[c] = "durable"
    /\ Ledger!commit(txn[c])
    /\ IF Ledger!Owns(txn[c])
         THEN /\ pc' = [pc EXCEPT ![c] = "committed"]
              /\ UNCHANGED txn
         ELSE /\ pc' = [pc EXCEPT ![c] = "idle"]
              /\ txn' = [txn EXCEPT ![c] = NoReceipt]
    /\ finished' = finished \cup {txn[c]}
    /\ UNCHANGED <<storeVars, sourceVars, acked, everQueued, faults>>

Acknowledge(c) ==
    /\ pc[c] = "committed"
    /\ acked' = acked \cup {Item(txn[c])}
    /\ pc' = [pc EXCEPT ![c] = "idle"]
    /\ txn' = [txn EXCEPT ![c] = NoReceipt]
    /\ UNCHANGED <<storeVars, ledgerVars, sourceVars, finished, everQueued, faults>>

Abandon(c) ==
    /\ pc[c] \in {"declined", "unpersisted"}
    /\ Ledger!abandon(txn[c])
    /\ pc' = [pc EXCEPT ![c] = "idle"]
    /\ txn' = [txn EXCEPT ![c] = NoReceipt]
    /\ finished' = finished \cup {txn[c]}
    /\ UNCHANGED <<storeVars, sourceVars, acked, everQueued, faults>>

\* A task that stalled finishes late: its receipt is used a second time.
LateCommit(receipt) ==
    /\ Running
    /\ Ledger!commit(receipt)
    /\ UNCHANGED <<storeVars, sourceVars, taskVars, faults>>

LateAbandon(receipt) ==
    /\ Running
    /\ Ledger!abandon(receipt)
    /\ UNCHANGED <<storeVars, sourceVars, taskVars, faults>>

------------------------------------------------------------------------------
(* The engine.                                                              *)

Drain ==
    /\ Running
    /\ ~stopped
    /\ Source!drain
    /\ UNCHANGED <<storeVars, ledgerVars, taskVars, faults>>

Conclude ==
    /\ Running
    /\ ~stopped
    /\ Source!finish
    /\ UNCHANGED <<storeVars, ledgerVars, taskVars, faults>>

------------------------------------------------------------------------------
(* Faults.                                                                  *)

Fault ==
    /\ faults < MaxFaults
    /\ faults' = faults + 1

\* Fault: the error of a failed write is not looked at.
WriteFails_ignored ==
    /\ Fault
    /\ persist_err
    /\ pc' = [c \in Connections |->
                IF pc[c] = "recording" THEN "durable" ELSE pc[c]]
    /\ UNCHANGED <<ledgerVars, sourceVars, txn, finished, acked, everQueued>>

\* A write fails; a connection waiting for it is told.
WriteFails ==
    /\ Fault
    /\ persist_err
    /\ pc' = [c \in Connections |->
                IF pc[c] = "recording" THEN "unpersisted" ELSE pc[c]]
    /\ UNCHANGED <<ledgerVars, sourceVars, txn, finished, acked, everQueued>>

\* A task is dropped with its receipt: neither commit nor abandon is called.
\* (Inside the store's write there is no await, so it is not dropped there.)
TaskDies(c) ==
    /\ TasksMayDie
    /\ Fault
    /\ pc[c] \notin {"idle", "recording"}
    /\ pc' = [pc EXCEPT ![c] = "idle"]
    /\ txn' = [txn EXCEPT ![c] = NoReceipt]
    /\ UNCHANGED <<storeVars, ledgerVars, sourceVars, finished, acked, everQueued>>

\* The process ends, by a crash or because the run is over.
Crash(renamed) ==
    /\ Fault
    /\ store_crash(renamed)
    /\ Ledger!lose
    /\ Source!renew
    /\ pc' = [c \in Connections |-> "idle"]
    /\ txn' = [c \in Connections |-> NoReceipt]
    /\ finished' = {}
    /\ UNCHANGED <<acked, everQueued>>

Task(c) ==
    \/ Deliver(c) \/ Declined(c) \/ CountRecords(c) \/ NoteOutcome(c)
    \/ RecordInbound(c) \/ Recorded(c)
    \/ Commit(c) \/ Acknowledge(c) \/ Abandon(c)

Next ==
    \/ Open \/ Opened
    \/ \E p \in Peers : Pair(p)
    \/ \E p \in Peers : Paired(p)
    \/ \E p \in Peers : Unpair(p)
    \/ Unpaired
    \/ \E c \in Connections, b \in Ledger!Bundles : Prepare(c, b)
    \/ \E c \in Connections, b \in Ledger!Bundles : Refuse(c, b)
    \/ \E c \in Connections : Task(c)
    \/ \E receipt \in finished : LateCommit(receipt)
    \/ \E receipt \in finished : LateAbandon(receipt)
    \/ Drain \/ Conclude
    \/ WriteFails
    \/ \E c \in Connections : TaskDies(c)
    \/ \E renamed \in BOOLEAN : Crash(renamed)

Spec == Init /\ [][Next]_vars

------------------------------------------------------------------------------
(* The transaction of one peer is serial: two connections never both hold   *)
(* its reservation, whatever receipts are replayed late (`commit` and       *)
(* `abandon` act only on the reservation they own).                         *)
SerialPerPeer ==
    \A c, d \in Connections :
        /\ pc[c] \in Reserved
        /\ pc[d] \in Reserved
        /\ txn[c].peer = txn[d].peer
        => c = d

(* An acknowledged sequence is covered by the cursor on disk, for good: no  *)
(* failed write and no crash between prepare and acknowledgement loses it,  *)
(* so a peer told "accepted" is never asked for that bundle again.          *)
AckedIsDurable ==
    \A e \in acked : e[2] <= disk.inbound_cursor[e[1]]

(* The ledger's replay cursor never runs ahead of the durable one: `commit` *)
(* is called last, after `record_inbound` returned.                         *)
LedgerNeverAheadOfDisk ==
    \A p \in Peers : highest_sequence[p] <= disk.inbound_cursor[p]

(* A durable cursor stands for evidence that really was handed to an        *)
(* engine: no sequence is marked consumed by work that did not happen.      *)
ConsumedWasQueued ==
    \A p \in Peers :
        disk.inbound_cursor[p] # NoCursor
            => <<p, disk.inbound_cursor[p]>> \in everQueued

(* Once the run has concluded nothing is left in the queue: a bundle is     *)
(* either taken by the final drain or declined (`deliver` and `finish`      *)
(* decide under one lock).                                                  *)
NothingStranded == stopped => pending = <<>>

(* The counter and the per-peer outcomes trail the queue by the deliveries  *)
(* still between their three steps: no declined evidence is counted, ever,  *)
(* and no queued evidence is left out unless a task was dropped there       *)
(* (`deliver` counts after it has released the queue).                      *)
CountsAgree ==
    LET delivered(p) == Cardinality({i \in 1..Len(pending) : pending[i][1] = p})
                        + Cardinality({i \in 1..Len(absorbed) : absorbed[i][1] = p})
        within(S, p) == Cardinality({c \in Connections :
                                       pc[c] \in S /\ txn[c].peer = p})
        counted == accepted_records + Cardinality({c \in Connections : pc[c] = "enqueued"})
        noted(p) == outcomes[p].bundles + within({"enqueued", "counted"}, p)
    IN  /\ counted <= Len(pending) + Len(absorbed)
        /\ faults = 0 => counted = Len(pending) + Len(absorbed)
        /\ \A p \in Peers : /\ noted(p) <= delivered(p)
                            /\ faults = 0 => noted(p) = delivered(p)

(* No bundle is lost between a peer that was told "accepted" and an engine  *)
(* that has its evidence: what is acknowledged is durable, what is durable  *)
(* was queued, what memory refuses to take again is durable, and what was   *)
(* queued has been drained when the run is over (the order of calls that    *)
(* ledger.rs prescribes, `deliver` and `finish`).                           *)
NothingLost == AckedIsDurable /\ LedgerNeverAheadOfDisk /\ ConsumedWasQueued /\ NothingStranded

(* Evidence enters the queue only for a sequence above the durable cursor:  *)
(* once a cursor is on disk its bundle is never applied again, by another   *)
(* connection, a replay or a restarted process.                             *)
NeverReappliedOnceDurable ==
    [][\A e \in Evidence :
         pending' = Append(pending, e) => e[2] > disk.inbound_cursor[e[1]]]_vars

(* A bundle is acknowledged only in the run whose engine owns its evidence. *)
AckMeansQueued ==
    [][\A e \in acked' \ acked :
         \/ \E i \in 1..Len(pending) : pending[i] = e
         \/ \E i \in 1..Len(absorbed) : absorbed[i] = e]_vars

(* Evidence is applied at most once for a durable cursor and acknowledged   *)
(* only where it was applied, whichever connection, replay or restart       *)
(* brings it (`prepare`, `deliver`, `commit`).                              *)
AppliedOnce == NeverReappliedOnceDurable /\ AckMeansQueued

------------------------------------------------------------------------------
(* What ledger.rs:86-88 says of a prepared bundle that is dropped: "leaves  *)
(* the ledger untouched, and the identical sequence can be offered again".  *)
(* A reservation then always belongs to a transaction somebody still holds. *)
DroppedIsReofferable ==
    \A p \in Peers :
        in_flight[p] # Ledger!NoToken =>
            \E c \in Connections : /\ pc[c] \in Reserved
                                   /\ txn[c].peer = p
                                   /\ txn[c].token = in_flight[p]

------------------------------------------------------------------------------
(* Fairness: the runtime keeps running tasks that can run, a write ends,    *)
(* and a peer that has not been acknowledged keeps resending its latest     *)
(* bundle on each of its connections (bundles arrive infinitely often, so   *)
(* one that is admissible infinitely often is prepared).                    *)
Latest(p) == [peer |-> p, sequence |-> MaxSequence, genuine |-> TRUE, decodable |-> TRUE]

Fairness ==
    /\ WF_vars(Open) /\ WF_vars(Opened) /\ WF_vars(Unpaired)
    /\ \A p \in Peers : WF_vars(Paired(p))
    /\ \A c \in Connections : SF_vars(Task(c))
    /\ \A c \in Connections, p \in Peers : SF_vars(Prepare(c, Latest(p)))

FairSpec == Spec /\ Fairness

(* A trusted peer that keeps resending its latest bundle is not locked out: *)
(* a failed write or a lost race for the reservation only delays it.        *)
(* Either its cursor reaches that bundle, or the run concludes, or the      *)
(* process ends, or a dropped task has left the peer's reservation held by  *)
(* nobody (DroppedIsReofferable).                                           *)
ResendLands ==
    \A p \in Peers :
        p \in trusted ~> \/ disk.inbound_cursor[p] = MaxSequence
                         \/ stopped
                         \/ ~Running
                         \/ /\ in_flight[p] # Ledger!NoToken
                            /\ ~\E c \in Connections : pc[c] \in Reserved /\ txn[c].peer = p
==============================================================================
