------------------------ MODULE FederationStoreProofs ------------------------
(***************************************************************************)
(* Proofs about the durable federation state, for any set of peers, seeds  *)
(* and connections, any bound on sequence numbers and any number of        *)
(* faults.                                                                 *)
(*                                                                         *)
(* First the store alone: its type, the agreement of memory and file, and  *)
(* what survives every failed write and every crash.  Then the store       *)
(* inside the intake, in layers that rest on each other: the types; the    *)
(* reservations, which make the transaction of a peer serial; the cursors  *)
(* on disk, in the store's memory and in the ledger, against the           *)
(* transactions in progress.                                               *)
(***************************************************************************)
EXTENDS FederationIntake, TLAPS

------------------------------------------------------------------------------
(* The store alone.                                                         *)

\* What is true of a change that `persist` is writing: the clone to roll back
\* to is the file, and the change never takes a cursor, the outbound number
\* or an identity back.
Forward(old, new) ==
    /\ \A p \in Peers : old.inbound_cursor[p] <= new.inbound_cursor[p]
    /\ old.outbound_sequence <= new.outbound_sequence
    /\ old.identity_seed # NoSeed => new.identity_seed = old.identity_seed

Writing ==
    phase \in Operations =>
        /\ Forward(disk, state)
        /\ phase # "open" => previous = disk
        /\ phase = "open" => state.identity_seed \in Seeds
        /\ phase = "next_sequence" => disk.outbound_sequence < state.outbound_sequence

\* Every number handed out is covered by the file.
IssuedCovered == \A i \in 1..Len(issued) : issued[i] <= disk.outbound_sequence

\* Every identity shown is the one in the file.
KnownIsStored == \A seed \in known : seed = disk.identity_seed

\* The inductive invariant.
StoreInv ==
    /\ StoreTypeOK
    /\ MemoryAgreesWithDisk
    /\ Writing
    /\ RecordedCursorSurvives
    /\ IssuedCovered
    /\ SequenceNeverReissued
    /\ KnownIsStored

\* Whatever is written next, what was promised about the file stays true: the
\* file only moves forward.
LEMMA FileMovesForward ==
    ASSUME StoreInv, phase \in Operations
    PROVE  /\ \A p \in Peers : recorded[p] <= state.inbound_cursor[p]
           /\ \A i \in 1..Len(issued) : issued[i] <= state.outbound_sequence
           /\ \A seed \in known : seed = state.identity_seed
PROOF
  <1>1. /\ StoreTypeOK /\ Forward(disk, state)
        /\ RecordedCursorSurvives /\ IssuedCovered /\ KnownIsStored
    BY Zenon DEF StoreInv, Writing
  <1>2. ASSUME NEW p \in Peers PROVE recorded[p] <= state.inbound_cursor[p]
    <2>1. /\ recorded[p] \in Int /\ disk.inbound_cursor[p] \in Int
          /\ state.inbound_cursor[p] \in Int
      BY <1>1, StoreAssumption DEF StoreTypeOK, StoredState, SequenceNumbers, NoCursor
    <2>2. QED BY <1>1, <2>1 DEF Forward, RecordedCursorSurvives
  <1>3. ASSUME NEW i \in 1..Len(issued) PROVE issued[i] <= state.outbound_sequence
    <2>1. /\ issued[i] \in Int /\ disk.outbound_sequence \in Int
          /\ state.outbound_sequence \in Int
      BY <1>1, StoreAssumption DEF StoreTypeOK, StoredState, SequenceNumbers
    <2>2. QED BY <1>1, <2>1 DEF Forward, IssuedCovered
  <1>4. ASSUME NEW seed \in known PROVE seed = state.identity_seed
    <2>1. seed \in Seeds /\ seed = disk.identity_seed
      BY <1>1, Zenon DEF StoreTypeOK, KnownIsStored
    <2>2. QED BY <1>1, <2>1, StoreAssumption, Zenon DEF Forward
  <1>5. QED BY <1>2, <1>3, <1>4, Zenon

\* The empty state of a store never written has the type of a stored state.
LEMMA EmptyStateTyped == EmptyState \in StoredState
  BY StoreAssumption DEF EmptyState, StoredState, SequenceNumbers, NoCursor

\* A store nobody has opened satisfies the invariant.
LEMMA StoreInitInv == StoreInit => StoreInv
PROOF
  <1> SUFFICES ASSUME StoreInit PROVE StoreInv BY Zenon
  <1>1. StoreTypeOK
    BY EmptyStateTyped, StoreAssumption DEF StoreInit, StoreTypeOK, SequenceNumbers, NoCursor
  <1>2. RecordedCursorSurvives
    <2>1. ASSUME NEW p \in Peers PROVE recorded[p] <= disk.inbound_cursor[p]
      <3>1. recorded[p] = NoCursor /\ disk.inbound_cursor[p] = NoCursor
        BY Zenon DEF StoreInit, EmptyState
      <3>2. QED BY <3>1 DEF NoCursor
    <2>2. QED BY <2>1, Zenon DEF RecordedCursorSurvives
  <1>3. MemoryAgreesWithDisk /\ Writing
    BY Zenon DEF StoreInit, MemoryAgreesWithDisk, Writing, Operations
  <1>4. IssuedCovered /\ SequenceNeverReissued /\ KnownIsStored
    BY DEF StoreInit, IssuedCovered, SequenceNeverReissued, KnownIsStored
  <1>5. QED BY <1>1, <1>2, <1>3, <1>4, Zenon DEF StoreInv

\* Any change handed to `commit` that is a stored state and moves forward.
LEMMA CommitInv ==
    ASSUME StoreInv, NEW operation \in Operations \ {"open"},
           NEW changed \in StoredState,
           Forward(state, changed),
           operation = "next_sequence" => state.outbound_sequence < changed.outbound_sequence,
           commit(operation, changed)
    PROVE  StoreInv'
PROOF
  <1>1. state = disk
    BY Zenon DEF StoreInv, MemoryAgreesWithDisk, commit
  <1>2. StoreTypeOK'
    BY Zenon DEF StoreInv, StoreTypeOK, commit
  <1>3. phase' = operation /\ operation # "ready" /\ operation # "open"
    BY Zenon DEF commit, Operations
  <1>4. MemoryAgreesWithDisk' /\ Writing'
    BY <1>1, <1>3, Zenon DEF MemoryAgreesWithDisk, Writing, commit, Forward
  <1>5. RecordedCursorSurvives' /\ IssuedCovered' /\ SequenceNeverReissued' /\ KnownIsStored'
    BY Zenon DEF StoreInv, commit, RecordedCursorSurvives, IssuedCovered, SequenceNeverReissued,
           KnownIsStored
  <1>6. QED BY <1>2, <1>4, <1>5, Zenon DEF StoreInv

\* `pair` keeps the invariant.
LEMMA PairInv ==
    ASSUME StoreInv, NEW p \in Peers, pair(p) PROVE StoreInv'
PROOF
  <1> DEFINE changed == [state EXCEPT !.paired = @ \cup {p}]
  <1>1. state \in StoredState BY Zenon DEF StoreInv, StoreTypeOK
  <1>2. changed \in StoredState BY <1>1, Zenon DEF StoredState
  <1>3. Forward(state, changed)
    BY <1>1, StoreAssumption DEF Forward, StoredState, SequenceNumbers, NoCursor
  <1>4. QED BY <1>2, <1>3, CommitInv, Zenon DEF pair, Operations

\* `unpair` keeps the invariant.
LEMMA UnpairInv ==
    ASSUME StoreInv, NEW p \in Peers, unpair(p) PROVE StoreInv'
PROOF
  <1> DEFINE changed == [state EXCEPT !.paired = @ \ {p}]
  <1>1. state \in StoredState BY Zenon DEF StoreInv, StoreTypeOK
  <1>2. changed \in StoredState BY <1>1, Zenon DEF StoredState
  <1>3. Forward(state, changed)
    BY <1>1, StoreAssumption DEF Forward, StoredState, SequenceNumbers, NoCursor
  <1>4. QED BY <1>2, <1>3, CommitInv, Zenon DEF unpair, Operations

\* `next_sequence` keeps the invariant: the number it reserves is a new one.
LEMMA NextSequenceInv ==
    ASSUME StoreInv, next_sequence PROVE StoreInv'
PROOF
  <1> DEFINE changed == [state EXCEPT !.outbound_sequence = @ + 1]
  <1>1. state \in StoredState BY Zenon DEF StoreInv, StoreTypeOK
  <1>2. state.outbound_sequence < MaxSequence BY Zenon DEF next_sequence
  <1>3. changed \in StoredState
    BY <1>1, <1>2, StoreAssumption DEF StoredState, SequenceNumbers
  <1>4. Forward(state, changed)
    BY <1>1, StoreAssumption DEF Forward, StoredState, SequenceNumbers, NoCursor
  <1>5. state.outbound_sequence < changed.outbound_sequence
    BY <1>1, StoreAssumption DEF StoredState, SequenceNumbers
  <1>6. QED BY <1>3, <1>4, <1>5, CommitInv, Zenon DEF next_sequence, Operations

\* `record_inbound` keeps the invariant, its early return included.
LEMMA RecordInboundInv ==
    ASSUME StoreInv, NEW p \in Peers, NEW s \in SequenceNumbers, record_inbound(p, s)
    PROVE  StoreInv'
PROOF
  <1> DEFINE changed == [state EXCEPT !.inbound_cursor[p] = s]
  <1>1. state \in StoredState BY Zenon DEF StoreInv, StoreTypeOK
  <1>2. changed \in StoredState BY <1>1, Zenon DEF StoredState
  <1>3. state.inbound_cursor[p] < s
    BY <1>1, StoreAssumption
    DEF record_inbound, AlreadyRecorded, StoredState, SequenceNumbers, NoCursor
  <1>4. Forward(state, changed)
    BY <1>1, <1>3, StoreAssumption DEF Forward, StoredState, SequenceNumbers, NoCursor
  <1>5. QED BY <1>2, <1>4, CommitInv, Zenon DEF record_inbound, Operations

\* The early return: a covered sequence is reported, and is covered.
LEMMA RecordNoopInv ==
    ASSUME StoreInv, NEW p \in Peers, NEW s \in SequenceNumbers, record_inbound_noop(p, s)
    PROVE  StoreInv'
PROOF
  <1>1. StoreTypeOK'
    BY Zenon DEF StoreInv, StoreTypeOK, record_inbound_noop, Larger
  <1>2. s <= disk.inbound_cursor[p]
    BY StoreAssumption, Zenon DEF StoreInv, StoreTypeOK, StoredState, SequenceNumbers, NoCursor,
       MemoryAgreesWithDisk, record_inbound_noop, AlreadyRecorded
  <1>3. RecordedCursorSurvives'
    BY <1>2, StoreAssumption, Zenon DEF StoreInv, StoreTypeOK, StoredState, SequenceNumbers, NoCursor,
       RecordedCursorSurvives, record_inbound_noop, Larger
  <1>4. MemoryAgreesWithDisk' /\ Writing'
    BY Zenon DEF StoreInv, MemoryAgreesWithDisk, Writing, record_inbound_noop, Operations
  <1>5. IssuedCovered' /\ SequenceNeverReissued' /\ KnownIsStored'
    BY Zenon DEF StoreInv, record_inbound_noop, IssuedCovered, SequenceNeverReissued, KnownIsStored
  <1>6. QED BY <1>1, <1>3, <1>4, <1>5, Zenon DEF StoreInv

\* `open` keeps the invariant: memory is what the disk says.
LEMMA OpenInv ==
    ASSUME StoreInv, open PROVE StoreInv'
PROOF
  <1>1. disk \in StoredState /\ StoreTypeOK BY Zenon DEF StoreInv, StoreTypeOK
  <1>2. /\ state' \in StoredState
        /\ state'.identity_seed \in Seeds
        /\ state'.inbound_cursor = disk.inbound_cursor
        /\ state'.outbound_sequence = disk.outbound_sequence
        /\ disk.identity_seed # NoSeed => state'.identity_seed = disk.identity_seed
    BY <1>1, Zenon DEF open, StoredState
  <1>3. StoreTypeOK'
    BY <1>1, <1>2, Zenon DEF open, StoreTypeOK, Operations
  <1>4. MemoryAgreesWithDisk' /\ Writing'
    BY <1>1, <1>2, StoreAssumption DEF MemoryAgreesWithDisk, Writing, Forward, open,
       Operations, StoredState, SequenceNumbers, NoCursor
  <1>5. /\ RecordedCursorSurvives' /\ IssuedCovered'
        /\ SequenceNeverReissued' /\ KnownIsStored'
    BY Zenon DEF StoreInv, open, RecordedCursorSurvives, IssuedCovered, SequenceNeverReissued,
           KnownIsStored
  <1>6. QED BY <1>3, <1>4, <1>5, Zenon DEF StoreInv

\* The file becomes the memory; a number that is now returned is above all
\* that were, a cursor that is now reported is in the file.
LEMMA PersistOkInv ==
    ASSUME StoreInv, persist_ok PROVE StoreInv'
PROOF
  <1>1. /\ StoreTypeOK /\ Writing /\ phase \in Operations
        /\ disk' = state /\ state' = state /\ phase' = "ready" /\ previous' = EmptyState
    BY Zenon DEF StoreInv, persist_ok
  <1>2. state.outbound_sequence \in SequenceNumbers
    BY <1>1, Zenon DEF StoreTypeOK, StoredState
  <1>3. StoreTypeOK'
    <2>1. issued' \in Seq(SequenceNumbers)
      BY <1>1, <1>2 DEF StoreTypeOK, persist_ok
    <2>2. recorded' \in [Peers -> SequenceNumbers \cup {NoCursor}]
      BY <1>1, Zenon DEF StoreTypeOK, persist_ok, StoredState, Larger
    <2>3. known' \in SUBSET Seeds
      BY <1>1, Zenon DEF StoreTypeOK, persist_ok, Writing
    <2>4. QED BY <1>1, <2>1, <2>2, <2>3, EmptyStateTyped, Zenon DEF StoreTypeOK
  <1>4. MemoryAgreesWithDisk' /\ Writing'
    BY <1>1, Zenon DEF MemoryAgreesWithDisk, Writing, Operations
  <1>5. RecordedCursorSurvives'
    <2>1. ASSUME NEW p \in Peers PROVE recorded'[p] <= state.inbound_cursor[p]
      <3>1. recorded[p] <= state.inbound_cursor[p]
        BY <1>1, FileMovesForward, Zenon
      <3>2. state.inbound_cursor[p] \in Int
        BY <1>1, StoreAssumption DEF StoreTypeOK, StoredState, SequenceNumbers, NoCursor
      <3>3. recorded'[p] \in {recorded[p], state.inbound_cursor[p]}
        BY <1>1, Zenon DEF persist_ok, Larger, StoreTypeOK
      <3>4. QED BY <3>1, <3>2, <3>3
    <2>2. QED BY <1>1, <2>1, Zenon DEF RecordedCursorSurvives
  <1>6. IssuedCovered' /\ SequenceNeverReissued'
    <2>1. \A i \in 1..Len(issued) : issued[i] <= state.outbound_sequence
      BY <1>1, FileMovesForward, Zenon
    <2>2. CASE phase # "next_sequence"
      BY <1>1, <2>1, <2>2, Zenon DEF persist_ok, StoreInv, IssuedCovered, SequenceNeverReissued
    <2>3. CASE phase = "next_sequence"
      <3>1. issued' = Append(issued, state.outbound_sequence)
        BY <2>3, Zenon DEF persist_ok
      <3>2. /\ issued \in Seq(SequenceNumbers)
            /\ state.outbound_sequence \in Int /\ disk.outbound_sequence \in Int
            /\ \A i \in 1..Len(issued) : issued[i] \in Int
        BY <1>1, StoreAssumption DEF StoreTypeOK, StoredState, SequenceNumbers
      <3>3. /\ Len(issued') = Len(issued) + 1
            /\ \A i \in 1..Len(issued) : issued'[i] = issued[i]
            /\ issued'[Len(issued) + 1] = state.outbound_sequence
        BY <3>1, <3>2
      <3>4. \A i \in 1..Len(issued) : issued[i] < state.outbound_sequence
        BY <1>1, <2>3, <3>2 DEF StoreInv, IssuedCovered, Writing
      <3>5. IssuedCovered'
        BY <1>1, <2>1, <3>2, <3>3 DEF IssuedCovered
      <3>6. SequenceNeverReissued'
        <4>1. SUFFICES ASSUME NEW i \in 1..Len(issued'), NEW j \in 1..Len(issued'), i < j
                       PROVE  issued'[i] < issued'[j]
          BY Zenon DEF SequenceNeverReissued
        <4>2. Len(issued) \in Nat BY <3>2
        <4>3. i \in 1..Len(issued) BY <3>3, <4>1, <4>2
        <4>4. CASE j \in 1..Len(issued)
          BY <3>3, <4>1, <4>3, <4>4, Zenon DEF StoreInv, SequenceNeverReissued
        <4>5. CASE j = Len(issued) + 1
          BY <3>3, <3>4, <4>3, <4>5, Zenon
        <4>6. QED BY <3>3, <4>1, <4>2, <4>4, <4>5
      <3>7. QED BY <3>5, <3>6, Zenon
    <2>4. QED BY <2>2, <2>3, Zenon
  <1>7. KnownIsStored'
    BY <1>1, FileMovesForward DEF persist_ok, KnownIsStored
  <1>8. QED BY <1>3, <1>4, <1>5, <1>6, <1>7, Zenon DEF StoreInv

\* The roll-back: memory is the file again, or there is no store.
LEMMA PersistErrInv ==
    ASSUME StoreInv, persist_err PROVE StoreInv'
PROOF
  <1>1. StoreTypeOK'
    BY EmptyStateTyped, Zenon DEF StoreInv, StoreTypeOK, persist_err
  <1>2. MemoryAgreesWithDisk' /\ Writing'
    BY Zenon DEF StoreInv, MemoryAgreesWithDisk, Writing, persist_err, Operations
  <1>3. /\ RecordedCursorSurvives' /\ IssuedCovered'
        /\ SequenceNeverReissued' /\ KnownIsStored'
    BY Zenon DEF StoreInv, persist_err, RecordedCursorSurvives, IssuedCovered,
           SequenceNeverReissued, KnownIsStored
  <1>4. QED BY <1>1, <1>2, <1>3, Zenon DEF StoreInv

\* A crash keeps the old file, or the new one if its rename had happened.
LEMMA CrashInv ==
    ASSUME StoreInv, NEW renamed \in BOOLEAN, store_crash(renamed) PROVE StoreInv'
PROOF
  <1>1. StoreTypeOK'
    BY EmptyStateTyped, Zenon DEF StoreInv, StoreTypeOK, store_crash
  <1>2. MemoryAgreesWithDisk' /\ Writing'
    BY Zenon DEF MemoryAgreesWithDisk, Writing, store_crash, Operations
  <1>3. CASE renamed /\ phase \in Operations
    <2>1. disk' = state BY <1>3, Zenon DEF store_crash
    <2>2. RecordedCursorSurvives' /\ IssuedCovered' /\ KnownIsStored'
      BY <1>3, <2>1, FileMovesForward, Zenon
      DEF store_crash, RecordedCursorSurvives, IssuedCovered, KnownIsStored
    <2>3. SequenceNeverReissued'
      BY Zenon DEF StoreInv, store_crash, SequenceNeverReissued
    <2>4. QED BY <1>1, <1>2, <2>2, <2>3, Zenon DEF StoreInv
  <1>4. CASE ~(renamed /\ phase \in Operations)
    <2>1. disk' = disk BY <1>4, Zenon DEF store_crash
    <2>2. /\ RecordedCursorSurvives' /\ IssuedCovered'
          /\ SequenceNeverReissued' /\ KnownIsStored'
      BY <2>1, Zenon DEF StoreInv, store_crash, RecordedCursorSurvives, IssuedCovered,
                  SequenceNeverReissued, KnownIsStored
    <2>3. QED BY <1>1, <1>2, <2>2, Zenon DEF StoreInv
  <1>5. QED BY <1>3, <1>4, Zenon

\* Every step of the store keeps the invariant.
LEMMA StoreNextInv == StoreInv /\ [StoreNext]_storeVars => StoreInv'
PROOF
  <1> SUFFICES ASSUME StoreInv, [StoreNext]_storeVars PROVE StoreInv' BY Zenon
  <1>1. CASE open BY <1>1, OpenInv, Zenon
  <1>2. CASE \E p \in Peers : pair(p) BY <1>2, PairInv, Zenon
  <1>3. CASE \E p \in Peers : unpair(p) BY <1>3, UnpairInv, Zenon
  <1>4. CASE next_sequence BY <1>4, NextSequenceInv, Zenon
  <1>5. CASE \E p \in Peers, s \in SequenceNumbers : record_inbound(p, s)
    BY <1>5, RecordInboundInv, Zenon
  <1>6. CASE \E p \in Peers, s \in SequenceNumbers : record_inbound_noop(p, s)
    BY <1>6, RecordNoopInv, Zenon
  <1>7. CASE persist_ok BY <1>7, PersistOkInv, Zenon
  <1>8. CASE persist_err BY <1>8, PersistErrInv, Zenon
  <1>9. CASE \E renamed \in BOOLEAN : store_crash(renamed) BY <1>9, CrashInv, Zenon
  <1>10. CASE UNCHANGED storeVars
    BY <1>10, Zenon DEF StoreInv, storeVars, StoreTypeOK, MemoryAgreesWithDisk, Writing,
       RecordedCursorSurvives, IssuedCovered, SequenceNeverReissued, KnownIsStored, Forward
  <1>11. QED
    BY <1>1, <1>2, <1>3, <1>4, <1>5, <1>6, <1>7, <1>8, <1>9, <1>10 DEF StoreNext

\* The invariant holds throughout.
THEOREM StoreInvariant == StoreSpec => []StoreInv
  BY StoreInitInv, StoreNextInv, PTL DEF StoreSpec

\* store.rs, the whole module: memory, file and history keep their types; in
\* particular no cursor and no outbound number leaves its range.
THEOREM StoreTypeCorrect == StoreSpec => []StoreTypeOK
  <1>1. StoreInv => StoreTypeOK BY Zenon DEF StoreInv
  <1>2. QED BY <1>1, StoreInvariant, PTL

\* store.rs, `commit`: between operations memory is the file, whatever write
\* failed before.
THEOREM RollbackAgrees == StoreSpec => []MemoryAgreesWithDisk
  <1>1. StoreInv => MemoryAgreesWithDisk BY Zenon DEF StoreInv
  <1>2. QED BY <1>1, StoreInvariant, PTL

\* store.rs, `record_inbound`: a cursor reported as written is in the file from
\* then on.
THEOREM CursorDurable == StoreSpec => []RecordedCursorSurvives
  <1>1. StoreInv => RecordedCursorSurvives BY Zenon DEF StoreInv
  <1>2. QED BY <1>1, StoreInvariant, PTL

\* store.rs, `next_sequence`: the numbers returned are strictly increasing
\* across failures and restarts, so none is used for two bundles.
THEOREM SequencesUnique == StoreSpec => []SequenceNeverReissued
  <1>1. StoreInv => SequenceNeverReissued BY Zenon DEF StoreInv
  <1>2. QED BY <1>1, StoreInvariant, PTL

\* store.rs, `open`: one file shows one identity, across every restart.
THEOREM IdentityUnique == StoreSpec => []OneIdentity
  <1>1. StoreInv => OneIdentity BY Zenon DEF StoreInv, KnownIsStored, OneIdentity
  <1>2. QED BY <1>1, StoreInvariant, PTL

\* store.rs, `record_inbound`, `next_sequence` and `open` together: what the
\* file has promised outlives every failed write and every crash.
THEOREM HistoryDurable == StoreSpec => []DurableHistory
  <1>1. RecordedCursorSurvives /\ SequenceNeverReissued /\ OneIdentity => DurableHistory
    BY Zenon DEF DurableHistory
  <1>2. QED BY <1>1, CursorDurable, SequencesUnique, IdentityUnique, PTL

------------------------------------------------------------------------------
(* Layer 1: the store's invariant and types.                                *)

\* A task inside a transaction holds its receipt, and the process runs.
HoldsReceipt ==
    \A c \in Connections : pc[c] # "idle" => txn[c] \in Ledger!Receipts /\ Running

TypeInv == StoreInv /\ TypeOK /\ HoldsReceipt

\* Each operation of ledger.rs keeps the types of the ledger.
LEMMA LedgerTyped ==
    ASSUME Ledger!LedgerTypeOK
    PROVE  /\ \A p \in Peers : Ledger!pair(p) => Ledger!LedgerTypeOK'
           /\ \A b \in Ledger!Bundles : Ledger!prepare(b) => Ledger!LedgerTypeOK'
           /\ \A r \in Ledger!Receipts : Ledger!commit(r) => Ledger!LedgerTypeOK'
           /\ \A r \in Ledger!Receipts : Ledger!abandon(r) => Ledger!LedgerTypeOK'
           /\ UNCHANGED ledgerVars => Ledger!LedgerTypeOK'
           /\ Ledger!lose => Ledger!LedgerTypeOK'
PROOF
  <1>1. \A p \in Peers : Ledger!pair(p) => Ledger!LedgerTypeOK'
    BY Zenon DEF Ledger!LedgerTypeOK, Ledger!pair
  <1>2. \A b \in Ledger!Bundles : Ledger!prepare(b) => Ledger!LedgerTypeOK'
    BY DEF Ledger!LedgerTypeOK, Ledger!prepare, Ledger!Bundles
  <1>3. \A r \in Ledger!Receipts : Ledger!commit(r) => Ledger!LedgerTypeOK'
    BY DEF Ledger!LedgerTypeOK, Ledger!commit, Ledger!Receipts, Ledger!NoToken, Ledger!Larger
  <1>4. \A r \in Ledger!Receipts : Ledger!abandon(r) => Ledger!LedgerTypeOK'
    BY DEF Ledger!LedgerTypeOK, Ledger!abandon, Ledger!Receipts, Ledger!NoToken
  <1>5. UNCHANGED ledgerVars => Ledger!LedgerTypeOK'
    BY Zenon DEF Ledger!LedgerTypeOK, ledgerVars
  <1>6. Ledger!lose => Ledger!LedgerTypeOK'
    BY DEF Ledger!LedgerTypeOK, Ledger!lose, Ledger!NoToken
  <1>7. QED BY <1>1, <1>2, <1>3, <1>4, <1>5, <1>6, Zenon

\* The ledger of a new process, seeded from a stored state.
LEMMA RestoreTyped ==
    ASSUME NEW paired \in SUBSET Peers,
           NEW cursors \in [Peers -> Ledger!SequenceNumbers \cup {Ledger!NoCursor}],
           Ledger!restore(paired, cursors)
    PROVE  Ledger!LedgerTypeOK'
  BY Zenon DEF Ledger!LedgerTypeOK, Ledger!restore, Ledger!NoToken, Ledger!Larger

\* Each operation of source.rs keeps the types of the queue.
LEMMA SourceTyped ==
    ASSUME Source!SourceTypeOK
    PROVE  /\ \A e \in Evidence : Source!deliver_enqueue(e) => Source!SourceTypeOK'
           /\ Source!deliver_declined => Source!SourceTypeOK'
           /\ Source!deliver_count => Source!SourceTypeOK'
           /\ \A p \in Peers : Source!deliver_outcome(p) => Source!SourceTypeOK'
           /\ \A p \in Peers : \A why : Source!reject(p, why) => Source!SourceTypeOK'
           /\ Source!drain => Source!SourceTypeOK'
           /\ Source!finish => Source!SourceTypeOK'
           /\ Source!renew => Source!SourceTypeOK'
           /\ UNCHANGED sourceVars => Source!SourceTypeOK'
PROOF
  <1>1. \A e \in Evidence : Source!deliver_enqueue(e) => Source!SourceTypeOK'
    BY DEF Source!SourceTypeOK, Source!deliver_enqueue
  <1>2. UNCHANGED sourceVars => Source!SourceTypeOK'
    BY Zenon DEF Source!SourceTypeOK, sourceVars
  <1>3. Source!deliver_declined => Source!SourceTypeOK'
    BY <1>2, Zenon DEF Source!deliver_declined, Source!sourceVars, sourceVars
  <1>4. Source!deliver_count => Source!SourceTypeOK'
    BY DEF Source!SourceTypeOK, Source!deliver_count
  <1>5. ASSUME NEW p \in Peers, Source!deliver_outcome(p) PROVE Source!SourceTypeOK'
    <2>1. /\ outcomes[p].bundles + 1 \in Nat
          /\ outcomes \in [Peers -> [bundles : Nat, rejected : SUBSET Source!Refusals]]
      BY DEF Source!SourceTypeOK
    <2>2. outcomes' \in [Peers -> [bundles : Nat, rejected : SUBSET Source!Refusals]]
      BY <1>5, <2>1, Zenon DEF Source!deliver_outcome
    <2>3. QED BY <1>5, <2>2, Zenon DEF Source!SourceTypeOK, Source!deliver_outcome
  <1>6. ASSUME NEW p \in Peers, NEW why, Source!reject(p, why) PROVE Source!SourceTypeOK'
    BY <1>6, SMTT(30) DEF Source!SourceTypeOK, Source!reject
  <1>7. Source!drain => Source!SourceTypeOK'
    BY DEF Source!SourceTypeOK, Source!drain
  <1>8. Source!finish => Source!SourceTypeOK'
    BY DEF Source!SourceTypeOK, Source!finish
  <1>9. ASSUME Source!renew PROVE Source!SourceTypeOK'
    <2>1. [bundles |-> 0, rejected |-> {}] \in [bundles : Nat, rejected : SUBSET Source!Refusals]
      BY Zenon
    <2>2. outcomes' \in [Peers -> [bundles : Nat, rejected : SUBSET Source!Refusals]]
      BY <1>9, <2>1, Zenon DEF Source!renew
    <2>3. <<>> \in Seq(Evidence) OBVIOUS
    <2>4. accepted_records' \in Nat /\ stopped' \in BOOLEAN BY <1>9, Zenon DEF Source!renew
    <2>5. pending' \in Seq(Evidence) /\ absorbed' \in Seq(Evidence)
      BY <1>9, <2>3, Zenon DEF Source!renew
    <2>6. QED BY <2>2, <2>4, <2>5, Zenon DEF Source!SourceTypeOK
  <1>10. QED BY <1>1, <1>2, <1>3, <1>4, <1>5, <1>6, <1>7, <1>8, <1>9, Zenon

\* What the store does here is what it does in FederationStore: a step of its
\* own specification, or nothing.
LEMMA StepOfStore ==
    ASSUME TypeInv, [Next]_vars
    PROVE  [StoreNext]_storeVars
PROOF
  <1>1. ASSUME NEW c \in Connections, pc[c] # "idle"
        PROVE  txn[c].peer \in Peers /\ txn[c].sequence \in SequenceNumbers
    BY <1>1, Zenon DEF TypeInv, HoldsReceipt, Ledger!Receipts, Ledger!SequenceNumbers,
                SequenceNumbers
  <1>2. CASE UNCHANGED storeVars
    BY <1>2, Zenon DEF storeVars, storeVars
  <1>3. CASE Open \/ Opened \/ Unpaired \/ WriteFails
    BY <1>3, Zenon DEF Open, Opened, Unpaired, WriteFails, StoreNext
  <1>4. CASE \E p \in Peers : Pair(p) \/ Paired(p) \/ Unpair(p)
    BY <1>4, Zenon DEF Pair, Paired, Unpair, StoreNext
  <1>5. CASE \E c \in Connections : RecordInbound(c)
    BY <1>1, <1>5, Zenon DEF RecordInbound, StoreNext
  <1>6. CASE \E c \in Connections : Recorded(c)
    BY <1>6, Zenon DEF Recorded, StoreNext
  <1>7. CASE \E renamed \in BOOLEAN : Crash(renamed)
    BY <1>7, Zenon DEF Crash, StoreNext
  <1>8. CASE \E c \in Connections, b \in Ledger!Bundles : Prepare(c, b) \/ Refuse(c, b)
    BY <1>2, <1>8, Zenon DEF Prepare, Refuse
  <1>9. CASE \E c \in Connections :
               \/ Deliver(c) \/ Declined(c) \/ CountRecords(c) \/ NoteOutcome(c)
               \/ Commit(c) \/ Acknowledge(c) \/ Abandon(c) \/ TaskDies(c)
    BY <1>2, <1>9, Zenon DEF Deliver, Declined, CountRecords, NoteOutcome, Commit, Acknowledge,
                      Abandon, TaskDies
  <1>10. CASE (\E r \in finished : LateCommit(r) \/ LateAbandon(r)) \/ Drain \/ Conclude
    BY <1>2, <1>10, Zenon DEF LateCommit, LateAbandon, Drain, Conclude
  <1>11. CASE UNCHANGED vars
    BY <1>2, <1>11, Zenon DEF vars
  <1>12. QED
    BY <1>3, <1>4, <1>5, <1>6, <1>7, <1>8, <1>9, <1>10, <1>11 DEF Next, Task

\* The store's invariant, proved for the store alone, holds inside the intake.
LEMMA StoreKept ==
    ASSUME TypeInv, [Next]_vars PROVE StoreInv'
PROOF
  BY StepOfStore, StoreNextInv, Zenon DEF TypeInv

\* The part of TypeOK that is about the tasks themselves.
TasksTyped ==
    /\ pc \in [Connections -> TaskStates]
    /\ txn \in [Connections -> Ledger!Receipts \cup {NoReceipt}]
    /\ finished \in SUBSET Ledger!Receipts
    /\ acked \in SUBSET Evidence
    /\ everQueued \in SUBSET Evidence
    /\ faults \in Nat
    /\ HoldsReceipt

\* The parts of the type layer, for leaves that need one of them only.
LEMMA TypeInvParts ==
    /\ TypeInv <=> /\ StoreInv /\ Ledger!LedgerTypeOK
                   /\ Source!SourceTypeOK /\ TasksTyped
    /\ StoreInv => StoreTypeOK
PROOF
  <1>1. StoreInv => StoreTypeOK
    BY Zenon DEF StoreInv
  <1>2. QED BY <1>1, Zenon DEF TypeInv, TypeOK, TasksTyped

\* The first state has its types.
LEMMA InitTyped == Init => TypeInv
PROOF
  <1> SUFFICES ASSUME Init PROVE TypeInv BY Zenon
  <1>1. StoreInv
    BY StoreInitInv, Zenon DEF Init
  <1>2. Ledger!LedgerTypeOK
    BY Zenon DEF Init, Ledger!LedgerInit, Ledger!LedgerTypeOK, Ledger!NoToken
  <1>3. Source!SourceTypeOK
    <2>1. [bundles |-> 0, rejected |-> {}] \in [bundles : Nat, rejected : SUBSET Source!Refusals]
      BY Zenon
    <2>2. outcomes \in [Peers -> [bundles : Nat, rejected : SUBSET Source!Refusals]]
      BY <2>1, Zenon DEF Init, Source!SourceInit
    <2>3. accepted_records \in Nat /\ stopped \in BOOLEAN BY Zenon DEF Init, Source!SourceInit
    <2>4. <<>> \in Seq(Evidence) OBVIOUS
    <2>5. pending \in Seq(Evidence) /\ absorbed \in Seq(Evidence)
      BY <2>4, Zenon DEF Init, Source!SourceInit
    <2>6. QED BY <2>2, <2>3, <2>5, Zenon DEF Source!SourceTypeOK
  <1>4. TasksTyped
    BY Zenon DEF Init, TasksTyped, HoldsReceipt, TaskStates
  <1>5. QED BY <1>1, <1>2, <1>3, <1>4, TypeInvParts

\* Every step of the intake keeps the type layer, action by action.
LEMMA NextTyped ==
    ASSUME TypeInv, [Next]_vars PROVE TypeInv'
PROOF
  <1> USE DEF TaskStates, Reserved
  <1>1. /\ Ledger!LedgerTypeOK /\ Source!SourceTypeOK /\ StoreTypeOK /\ TasksTyped
        /\ StoreInv'
    BY TypeInvParts, StoreKept, Zenon
  <1>2. SUFFICES Ledger!LedgerTypeOK' /\ Source!SourceTypeOK' /\ TasksTyped'
    <2>1. StoreTypeOK'
      BY <1>1, Zenon DEF StoreInv
    <2>2. QED BY <1>1, <2>1, Zenon DEF TypeInv, TypeOK, TasksTyped
  <1>3. ASSUME NEW c \in Connections, pc[c] # "idle"
        PROVE  /\ txn[c] \in Ledger!Receipts /\ Running
               /\ txn[c].peer \in Peers /\ Item(txn[c]) \in Evidence
    BY <1>1, <1>3, Zenon DEF TasksTyped, HoldsReceipt, Ledger!Receipts, Evidence, Item,
                      Ledger!SequenceNumbers
  <1>4. CASE Open
    BY <1>1, <1>4, LedgerTyped, SourceTyped, Zenon
    DEF Open, open, TasksTyped, HoldsReceipt, Running, taskVars
  <1>5. CASE Opened
    <2>1. Ledger!LedgerTypeOK'
      BY <1>1, <1>5, RestoreTyped DEF Opened, StoreTypeOK, StoredState,
         SequenceNumbers, Ledger!SequenceNumbers, NoCursor, Ledger!NoCursor
    <2>2. QED
      BY <1>1, <1>5, <2>1, SourceTyped, ZenonT(40)
      DEF Opened, persist_ok, TasksTyped, HoldsReceipt, Running, taskVars
  <1>6. ASSUME NEW p \in Peers, Pair(p) \/ Paired(p) \/ Unpair(p)
        PROVE  Ledger!LedgerTypeOK' /\ Source!SourceTypeOK' /\ TasksTyped'
    BY <1>1, <1>6, LedgerTyped, SourceTyped
    DEF Pair, Paired, Unpair, pair, unpair, commit, persist_ok,
        TasksTyped, HoldsReceipt, Running, taskVars
  <1>7. ASSUME NEW c \in Connections, NEW b \in Ledger!Bundles, Prepare(c, b)
        PROVE  Ledger!LedgerTypeOK' /\ Source!SourceTypeOK' /\ TasksTyped'
    <2>1. Ledger!split(b) \in Ledger!Receipts
      BY <1>1 DEF Ledger!split, Ledger!Receipts, Ledger!Bundles, Ledger!LedgerTypeOK
    <2>2. QED
      BY <1>1, <1>7, <2>1, LedgerTyped, SourceTyped
      DEF Prepare, TasksTyped, HoldsReceipt, Running, storeVars
  <1>8. ASSUME NEW c \in Connections, NEW b \in Ledger!Bundles, Refuse(c, b)
        PROVE  Ledger!LedgerTypeOK' /\ Source!SourceTypeOK' /\ TasksTyped'
    BY <1>1, <1>8, LedgerTyped, SourceTyped, Zenon
    DEF Refuse, Ledger!Bundles, TasksTyped, HoldsReceipt, Running, storeVars, taskVars
  <1>9. ASSUME NEW c \in Connections,
               Deliver(c) \/ Declined(c) \/ CountRecords(c) \/ NoteOutcome(c)
        PROVE  Ledger!LedgerTypeOK' /\ Source!SourceTypeOK' /\ TasksTyped'
    BY <1>1, <1>3, <1>9, LedgerTyped, SourceTyped, Zenon
    DEF Deliver, Declined, CountRecords, NoteOutcome, TasksTyped, HoldsReceipt, Running,
        storeVars
  <1>10. ASSUME NEW c \in Connections, RecordInbound(c) \/ Recorded(c)
         PROVE  Ledger!LedgerTypeOK' /\ Source!SourceTypeOK' /\ TasksTyped'
    BY <1>1, <1>3, <1>10, LedgerTyped, SourceTyped
    DEF RecordInbound, Recorded, record_inbound, record_inbound_noop,
        commit, persist_ok, TasksTyped, HoldsReceipt, Running
  <1>11. ASSUME NEW c \in Connections,
                Commit(c) \/ Acknowledge(c) \/ Abandon(c) \/ TaskDies(c)
         PROVE  Ledger!LedgerTypeOK' /\ Source!SourceTypeOK' /\ TasksTyped'
    <2>1. CASE Commit(c)
      BY <1>1, <1>3, <2>1, LedgerTyped, SourceTyped
      DEF Commit, TasksTyped, HoldsReceipt, Running, storeVars
    <2>2. CASE Acknowledge(c)
      BY <1>1, <1>3, <2>2, LedgerTyped, SourceTyped, Zenon
      DEF Acknowledge, TasksTyped, HoldsReceipt, Running, storeVars
    <2>3. CASE Abandon(c)
      BY <1>1, <1>3, <2>3, LedgerTyped, SourceTyped
      DEF Abandon, TasksTyped, HoldsReceipt, Running, storeVars
    <2>4. CASE TaskDies(c)
      <3>1. Ledger!LedgerTypeOK' /\ Source!SourceTypeOK'
        BY <1>1, <2>4, LedgerTyped, SourceTyped DEF TaskDies
      <3>2. TasksTyped'
        BY <1>1, <1>3, <2>4 DEF TaskDies, Fault, TasksTyped, HoldsReceipt, Running, storeVars
      <3>3. QED BY <3>1, <3>2, Zenon
    <2>5. QED BY <1>11, <2>1, <2>2, <2>3, <2>4
  <1>12. ASSUME NEW r \in finished, LateCommit(r) \/ LateAbandon(r)
         PROVE  Ledger!LedgerTypeOK' /\ Source!SourceTypeOK' /\ TasksTyped'
    BY <1>1, <1>12, LedgerTyped, SourceTyped, SMTT(30)
    DEF LateCommit, LateAbandon, TasksTyped, HoldsReceipt, Running, storeVars, taskVars
  <1>13. CASE Drain \/ Conclude \/ Unpaired
    BY <1>1, <1>13, LedgerTyped, SourceTyped, Zenon
    DEF Drain, Conclude, Unpaired, persist_ok, TasksTyped, HoldsReceipt, Running,
        storeVars, taskVars
  <1>14. CASE WriteFails
    <2>1. Ledger!LedgerTypeOK' /\ Source!SourceTypeOK'
      BY <1>1, <1>14, LedgerTyped, SourceTyped DEF WriteFails
    <2>2. TasksTyped'
      BY <1>1, <1>14
      DEF WriteFails, Fault, persist_err, TasksTyped, HoldsReceipt, Running
    <2>3. QED BY <2>1, <2>2, Zenon
  <1>15. ASSUME NEW renamed \in BOOLEAN, Crash(renamed)
         PROVE  Ledger!LedgerTypeOK' /\ Source!SourceTypeOK' /\ TasksTyped'
    BY <1>1, <1>15, LedgerTyped, SourceTyped, SMTT(30)
    DEF Crash, Fault, TasksTyped, HoldsReceipt
  <1>16. CASE UNCHANGED vars
    BY <1>1, <1>16, LedgerTyped, SourceTyped, Zenon
    DEF vars, storeVars, taskVars, TasksTyped, HoldsReceipt, Running
  <1>17. QED
    BY <1>4, <1>5, <1>6, <1>7, <1>8, <1>9, <1>10, <1>11, <1>12, <1>13, <1>14, <1>15, <1>16
    DEF Next, Task

------------------------------------------------------------------------------
(* Layer 2: reservations.  A task in a transaction holds the reservation of *)
(* its peer by a token nobody else has; a receipt that was used owns        *)
(* nothing, so using it again does nothing.                                 *)

TaskOwns ==
    \A c \in Connections : pc[c] \in Reserved =>
        /\ in_flight[txn[c].peer] = txn[c].token
        /\ 1 <= txn[c].token /\ txn[c].token <= next_token

TokensDistinct ==
    \A c, d \in Connections :
        pc[c] \in Reserved /\ pc[d] \in Reserved /\ txn[c].token = txn[d].token => c = d

TokensIssued == \A p \in Peers : in_flight[p] <= next_token

FinishedOwnNothing ==
    \A r \in finished : /\ in_flight[r.peer] # r.token
                        /\ 1 <= r.token /\ r.token <= next_token

FinishedOfThisRun == ~Running => finished = {}

ReservationInv ==
    /\ TaskOwns
    /\ TokensDistinct
    /\ TokensIssued
    /\ FinishedOwnNothing
    /\ FinishedOfThisRun

\* Tokens decide: two transactions of one peer would hold one token.
LEMMA ReservationsSerial == ReservationInv => SerialPerPeer
  BY DEF ReservationInv, TaskOwns, TokensDistinct, SerialPerPeer

\* No reservation is held when the process starts.
LEMMA InitReserved == Init => ReservationInv
PROOF
  <1> SUFFICES ASSUME Init PROVE ReservationInv BY Zenon
  <1>1. TaskOwns /\ TokensDistinct
    BY Zenon DEF Init, TaskOwns, TokensDistinct, Reserved
  <1>2. TokensIssued
    <2>1. next_token = 0 /\ \A p \in Peers : in_flight[p] = 0
      BY Zenon DEF Init, Ledger!LedgerInit, Ledger!NoToken
    <2>2. 0 <= 0
      OBVIOUS
    <2>3. QED BY <2>1, <2>2, Zenon DEF TokensIssued
  <1>3. FinishedOwnNothing /\ FinishedOfThisRun
    BY Zenon DEF Init, FinishedOwnNothing, FinishedOfThisRun
  <1>4. QED BY <1>1, <1>2, <1>3, Zenon DEF ReservationInv

\* A step of the reserved tasks that leaves the ledger's reservations alone:
\* tasks move on, or end, and no receipt is added.
LEMMA ReservationFrame ==
    ASSUME ReservationInv,
           UNCHANGED <<in_flight, next_token, finished>>,
           \A c \in Connections : pc'[c] \in Reserved => pc[c] \in Reserved /\ txn'[c] = txn[c],
           Running => Running'
    PROVE  ReservationInv'
PROOF
  <1>1. TaskOwns' /\ TokensDistinct'
    BY DEF ReservationInv, TaskOwns, TokensDistinct
  <1>2. TokensIssued' /\ FinishedOwnNothing'
    BY Zenon DEF ReservationInv, TokensIssued, FinishedOwnNothing
  <1>3. FinishedOfThisRun'
    BY Zenon DEF ReservationInv, FinishedOfThisRun
  <1>4. QED BY <1>1, <1>2, <1>3, Zenon DEF ReservationInv

\* `prepare` issues a token nobody holds, to a peer without a reservation.
LEMMA PrepareReserves ==
    ASSUME TypeInv, ReservationInv,
           NEW c \in Connections, NEW b \in Ledger!Bundles, Prepare(c, b)
    PROVE  ReservationInv'
PROOF
  <1>1. /\ Ledger!LedgerTypeOK /\ TasksTyped BY TypeInvParts, Zenon
  <1>2. /\ next_token \in Nat /\ next_token' = next_token + 1
        /\ b.peer \in Peers
        /\ in_flight' = [in_flight EXCEPT ![b.peer] = next_token + 1]
        /\ in_flight \in [Peers -> Nat]
        /\ in_flight[b.peer] = 0
    BY <1>1, Zenon DEF Prepare, Ledger!prepare, Ledger!verdict, Ledger!LedgerTypeOK, Ledger!Bundles,
                Ledger!NoToken
  <1>3. /\ pc' = [pc EXCEPT ![c] = "prepared"]
        /\ txn' = [txn EXCEPT ![c] = Ledger!split(b)]
        /\ pc \in [Connections -> TaskStates]
        /\ txn \in [Connections -> Ledger!Receipts \cup {NoReceipt}]
        /\ Ledger!split(b) = [peer |-> b.peer, sequence |-> b.sequence, token |-> next_token + 1]
        /\ UNCHANGED <<finished, phase>> /\ pc[c] = "idle"
    BY <1>1, Zenon DEF Prepare, TasksTyped, Ledger!split, storeVars
  <1>4. ASSUME NEW d \in Connections, d # c, pc'[d] \in Reserved
        PROVE  /\ pc[d] \in Reserved /\ txn'[d] = txn[d]
               /\ txn[d].token <= next_token /\ txn[d].token \in Nat /\ 1 <= txn[d].token
               /\ txn[d].peer # b.peer /\ txn[d].peer \in Peers
               /\ in_flight[txn[d].peer] = txn[d].token
    <2>1. pc[d] \in Reserved /\ txn'[d] = txn[d] BY <1>3, <1>4, Zenon
    <2>2. txn[d] \in Ledger!Receipts BY <1>1, <2>1, Zenon DEF TasksTyped, HoldsReceipt, Reserved
    <2>3. txn[d].peer \in Peers /\ txn[d].token \in Nat BY <2>2, Zenon DEF Ledger!Receipts
    <2>4. /\ in_flight[txn[d].peer] = txn[d].token
          /\ 1 <= txn[d].token /\ txn[d].token <= next_token
      BY <2>1, Zenon DEF ReservationInv, TaskOwns
    <2>5. txn[d].token # 0 BY <2>3, <2>4
    <2>6. in_flight[b.peer] = 0 BY <1>2, Zenon
    <2>7. txn[d].peer # b.peer BY <2>4, <2>5, <2>6
    <2>8. QED BY <2>1, <2>3, <2>4, <2>7, Zenon
  <1>5. /\ txn'[c].token = next_token + 1 /\ txn'[c].peer = b.peer
    BY <1>3
  <1>6. TaskOwns'
    <2>1. SUFFICES ASSUME NEW d \in Connections, pc'[d] \in Reserved
                   PROVE  /\ in_flight'[txn'[d].peer] = txn'[d].token
                          /\ 1 <= txn'[d].token /\ txn'[d].token <= next_token'
      BY Zenon DEF TaskOwns
    <2>2. CASE d = c BY <1>2, <1>5, <2>2
    <2>3. CASE d # c
      <3>1. /\ txn'[d] = txn[d] /\ txn[d].token <= next_token /\ txn[d].token \in Nat
            /\ 1 <= txn[d].token /\ txn[d].peer # b.peer /\ txn[d].peer \in Peers
            /\ in_flight[txn[d].peer] = txn[d].token
        BY <1>4, <2>1, <2>3
      <3>2. in_flight'[txn[d].peer] = in_flight[txn[d].peer] BY <1>2, <3>1, Zenon
      <3>3. txn[d].token <= next_token'
        <4>1. next_token \in Nat /\ next_token' = next_token + 1 BY <1>2, Zenon
        <4>2. txn[d].token \in Nat /\ txn[d].token <= next_token BY <3>1, Zenon
        <4>3. QED BY <4>1, <4>2
      <3>4. QED BY <3>1, <3>2, <3>3, Zenon
    <2>4. QED BY <2>2, <2>3, Zenon
  <1>7. TokensDistinct'
    <2>1. SUFFICES ASSUME NEW d \in Connections, NEW e \in Connections,
                          pc'[d] \in Reserved, pc'[e] \in Reserved,
                          txn'[d].token = txn'[e].token
                   PROVE  d = e
      BY Zenon DEF TokensDistinct
    <2>2. CASE d # c /\ e # c
      BY <1>4, <2>1, <2>2 DEF ReservationInv, TokensDistinct
    <2>3. ASSUME NEW f \in Connections, f # c, pc'[f] \in Reserved
          PROVE  txn'[f].token # txn'[c].token
      <3>1. /\ txn'[f] = txn[f] /\ txn[f].token <= next_token /\ txn[f].token \in Nat
        BY <1>4, <2>3, Zenon
      <3>2. next_token \in Nat /\ txn'[c].token = next_token + 1 BY <1>2, <1>5, Zenon
      <3>3. txn[f].token # next_token + 1 BY <3>1, <3>2
      <3>4. QED BY <3>1, <3>2, <3>3
    <2>4. QED BY <2>1, <2>2, <2>3, Zenon
  <1>8. TokensIssued'
    BY <1>2 DEF ReservationInv, TokensIssued
  <1>9. FinishedOwnNothing'
    <2>1. \A r \in finished : r.peer \in Peers /\ r.token \in Nat
      BY <1>1, Zenon DEF TasksTyped, Ledger!Receipts
    <2>2. ASSUME NEW r \in finished
          PROVE  in_flight'[r.peer] # r.token /\ 1 <= r.token /\ r.token <= next_token'
      <3>1. /\ in_flight[r.peer] # r.token /\ 1 <= r.token /\ r.token <= next_token
            /\ r.peer \in Peers /\ r.token \in Nat
        BY <2>1, Zenon DEF ReservationInv, FinishedOwnNothing
      <3>2. r.token <= next_token' /\ r.token # next_token + 1
        <4>1. next_token \in Nat /\ next_token' = next_token + 1 BY <1>2, Zenon
        <4>2. r.token \in Nat /\ r.token <= next_token BY <3>1, Zenon
        <4>3. QED BY <4>1, <4>2
      <3>3. in_flight'[r.peer] # r.token BY <1>2, <3>1, <3>2
      <3>4. QED BY <3>1, <3>2, <3>3
    <2>3. finished' = finished BY <1>3, Zenon
    <2>4. QED BY <2>2, <2>3 DEF FinishedOwnNothing
  <1>10. FinishedOfThisRun'
    BY <1>3, Zenon DEF ReservationInv, FinishedOfThisRun, Running
  <1>11. QED BY <1>6, <1>7, <1>8, <1>9, <1>10, Zenon DEF ReservationInv

\* `commit` and `abandon` of the task that holds the reservation: it is
\* released, and the receipt owns nothing any more.
LEMMA ReleaseReserves ==
    ASSUME TypeInv, ReservationInv, NEW c \in Connections, Commit(c) \/ Abandon(c)
    PROVE  /\ ReservationInv'
           /\ Ledger!Owns(txn[c])
           /\ in_flight' = [in_flight EXCEPT ![txn[c].peer] = Ledger!NoToken]
           /\ \A d \in Connections : d # c /\ pc[d] \in Reserved => txn[d].peer # txn[c].peer
PROOF
  <1>1. /\ Ledger!LedgerTypeOK /\ TasksTyped BY TypeInvParts, Zenon
  <1>2. /\ pc[c] \in Reserved /\ txn[c] \in Ledger!Receipts /\ txn[c].peer \in Peers
        /\ in_flight[txn[c].peer] = txn[c].token /\ txn[c].token \in Nat
        /\ 1 <= txn[c].token /\ txn[c].token <= next_token
    BY <1>1, Zenon DEF Commit, Abandon, Reserved, TasksTyped, HoldsReceipt, ReservationInv, TaskOwns,
                Ledger!Receipts
  <1>3. Ledger!Owns(txn[c]) BY <1>2, Zenon DEF Ledger!Owns
  <1>4. /\ in_flight' = [in_flight EXCEPT ![txn[c].peer] = Ledger!NoToken]
        /\ next_token' = next_token /\ finished' = finished \cup {txn[c]}
        /\ phase' = phase
        /\ pc'[c] \notin Reserved
        /\ \A d \in Connections : d # c => pc'[d] = pc[d] /\ txn'[d] = txn[d]
    BY <1>1, <1>3, SMTT(30) DEF Commit, Abandon, Ledger!commit, Ledger!abandon, TasksTyped, storeVars,
                      Reserved
  <1>5. \A d \in Connections : d # c /\ pc[d] \in Reserved => txn[d].peer # txn[c].peer
    BY <1>2, ReservationsSerial, ZenonT(40) DEF SerialPerPeer
  <1>6. in_flight \in [Peers -> Nat] /\ next_token \in Nat BY <1>1, Zenon DEF Ledger!LedgerTypeOK
  <1>7. TaskOwns' /\ TokensDistinct'
    <2>1. \A d \in Connections : pc'[d] \in Reserved =>
             d # c /\ pc[d] \in Reserved /\ txn'[d] = txn[d] /\ txn[d].peer # txn[c].peer
      BY <1>4, <1>5, ZenonT(40)
    <2>2. TokensDistinct' BY <2>1, Zenon DEF ReservationInv, TokensDistinct
    <2>3. ASSUME NEW d \in Connections, pc'[d] \in Reserved
          PROVE  /\ in_flight'[txn'[d].peer] = txn'[d].token
                 /\ 1 <= txn'[d].token /\ txn'[d].token <= next_token'
      <3>1. /\ pc[d] \in Reserved /\ txn'[d] = txn[d] /\ txn[d].peer # txn[c].peer
        BY <2>1, <2>3, Zenon
      <3>2. /\ in_flight[txn[d].peer] = txn[d].token
            /\ 1 <= txn[d].token /\ txn[d].token <= next_token
        BY <3>1, Zenon DEF ReservationInv, TaskOwns
      <3>3. txn[d].peer \in Peers
        BY <1>1, <3>1, Zenon DEF TasksTyped, HoldsReceipt, Reserved, Ledger!Receipts
      <3>4. in_flight'[txn[d].peer] = in_flight[txn[d].peer] BY <1>4, <1>6, <3>1, <3>3
      <3>5. next_token' = next_token BY <1>4, Zenon
      <3>6. QED BY <3>1, <3>2, <3>4, <3>5, Zenon
    <2>4. TaskOwns' BY <2>3, Zenon DEF TaskOwns
    <2>5. QED BY <2>2, <2>4, SMTT(30)
  <1>8. TokensIssued'
    <2>1. ASSUME NEW p \in Peers PROVE in_flight'[p] <= next_token
      <3>1. in_flight[p] <= next_token /\ 0 <= next_token
        BY <1>6 DEF ReservationInv, TokensIssued
      <3>2. in_flight'[p] = 0 \/ in_flight'[p] = in_flight[p]
        BY <1>4, <1>6, Zenon DEF Ledger!NoToken
      <3>3. QED BY <3>1, <3>2
    <2>2. next_token' = next_token BY <1>4
    <2>3. QED BY <2>1, <2>2 DEF TokensIssued
  <1>9. FinishedOwnNothing'
    <2>1. \A r \in finished' : /\ r.peer \in Peers /\ r.token \in Nat
                               /\ 1 <= r.token /\ r.token <= next_token
      BY <1>1, <1>2, <1>4, Zenon DEF TasksTyped, Ledger!Receipts, ReservationInv, FinishedOwnNothing
    <2>2. ASSUME NEW r \in finished' PROVE in_flight'[r.peer] # r.token
      <3>1. r.peer \in Peers /\ r.token # 0
        <4>1. r.peer \in Peers /\ r.token \in Nat /\ 1 <= r.token BY <2>1, Zenon
        <4>2. QED BY <4>1
      <3>2. CASE r.peer = txn[c].peer
        <4>1. in_flight'[r.peer] = 0 BY <1>4, <1>6, <3>1, <3>2 DEF Ledger!NoToken
        <4>2. QED BY <3>1, <4>1, Zenon
      <3>3. CASE r.peer # txn[c].peer
        <4>1. in_flight'[r.peer] = in_flight[r.peer] BY <1>4, <1>6, <3>1, <3>3, Zenon
        <4>2. r \in finished BY <1>4, <3>3, Zenon
        <4>3. in_flight[r.peer] # r.token BY <4>2, Zenon DEF ReservationInv, FinishedOwnNothing
        <4>4. QED BY <4>1, <4>3, Zenon
      <3>4. QED BY <3>2, <3>3, Zenon
    <2>3. QED BY <1>4, <2>1, <2>2, SMTT(30) DEF FinishedOwnNothing
  <1>10. FinishedOfThisRun'
    BY <1>1, <1>2, <1>4, Zenon DEF FinishedOfThisRun, Running, TasksTyped, HoldsReceipt, Reserved
  <1>11. QED BY <1>3, <1>4, <1>5, <1>7, <1>8, <1>9, <1>10, Zenon DEF ReservationInv

\* A receipt used a second time changes nothing in the ledger.
LEMMA LateIsIgnored ==
    ASSUME ReservationInv, NEW r \in finished, LateCommit(r) \/ LateAbandon(r)
    PROVE  UNCHANGED ledgerVars
  BY Zenon DEF ReservationInv, FinishedOwnNothing, LateCommit, LateAbandon, Ledger!commit,
         Ledger!abandon, Ledger!Owns, ledgerVars

\* Every step of the intake keeps the reservation layer, action by action.
LEMMA NextReserved ==
    ASSUME TypeInv, ReservationInv, [Next]_vars PROVE ReservationInv'
PROOF
  <1>1. TasksTyped /\ HoldsReceipt BY TypeInvParts, Zenon DEF TypeInv
  <1>2. CASE Open
    BY <1>2, ReservationFrame, Zenon DEF Open, open, Running, ledgerVars, taskVars
  <1>3. CASE Opened
    <2>1. \A c \in Connections : pc'[c] = "idle"
      BY <1>1, <1>3, Zenon DEF Opened, HoldsReceipt, Running, taskVars
    <2>2. finished' = {}
      BY <1>3, Zenon DEF Opened, ReservationInv, FinishedOfThisRun, Running, taskVars
    <2>3. TokensIssued'
      BY <1>3 DEF Opened, Ledger!restore, TokensIssued, Ledger!NoToken
    <2>4. QED
      BY <2>1, <2>2, <2>3, Zenon DEF ReservationInv, TaskOwns, TokensDistinct, FinishedOwnNothing,
         FinishedOfThisRun, Reserved
  <1>4. ASSUME NEW p \in Peers, Pair(p) \/ Paired(p) \/ Unpair(p) PROVE ReservationInv'
    BY <1>4, ReservationFrame
    DEF Pair, Paired, Unpair, pair, unpair, commit, persist_ok,
        Ledger!pair, Running, ledgerVars, taskVars
  <1>5. CASE Unpaired
    BY <1>5, ReservationFrame, Zenon DEF Unpaired, persist_ok, Running, ledgerVars, taskVars
  <1>6. ASSUME NEW c \in Connections, NEW b \in Ledger!Bundles, Prepare(c, b)
        PROVE  ReservationInv'
    BY <1>6, PrepareReserves, Zenon
  <1>7. ASSUME NEW c \in Connections, NEW b \in Ledger!Bundles, Refuse(c, b)
        PROVE  ReservationInv'
    BY <1>7, ReservationFrame, Zenon DEF Refuse, Running, storeVars, ledgerVars, taskVars
  <1>8. ASSUME NEW c \in Connections,
               Deliver(c) \/ Declined(c) \/ CountRecords(c) \/ NoteOutcome(c)
        PROVE  ReservationInv'
    BY <1>1, <1>8, ReservationFrame, Zenon
    DEF Deliver, Declined, CountRecords, NoteOutcome, TasksTyped, Reserved, Running,
        storeVars, ledgerVars
  <1>9. ASSUME NEW c \in Connections, RecordInbound(c) \/ Recorded(c)
        PROVE  ReservationInv'
    BY <1>1, <1>9, ReservationFrame
    DEF RecordInbound, Recorded, record_inbound, record_inbound_noop,
        commit, persist_ok, TasksTyped, Reserved, Running, ledgerVars
  <1>10. ASSUME NEW c \in Connections, Commit(c) \/ Abandon(c) PROVE ReservationInv'
    BY <1>10, ReleaseReserves, Zenon
  <1>11. ASSUME NEW c \in Connections, Acknowledge(c) \/ TaskDies(c) PROVE ReservationInv'
    BY <1>1, <1>11, ReservationFrame
    DEF Acknowledge, TaskDies, TasksTyped, Reserved, Running, storeVars, ledgerVars
  <1>12. ASSUME NEW r \in finished, LateCommit(r) \/ LateAbandon(r) PROVE ReservationInv'
    <2>1. UNCHANGED <<in_flight, next_token, finished, pc, txn, phase>>
      BY <1>12, LateIsIgnored, ZenonT(40) DEF LateCommit, LateAbandon, storeVars, ledgerVars, taskVars
    <2>2. Running => Running'
      BY <2>1, Zenon DEF Running
    <2>3. QED BY <2>1, <2>2, ReservationFrame, ZenonT(40)
  <1>13. CASE Drain \/ Conclude
    BY <1>13, ReservationFrame, ZenonT(40) DEF Drain, Conclude, Running, storeVars, ledgerVars, taskVars
  <1>14. CASE WriteFails
    BY <1>1, <1>14, ReservationFrame
    DEF WriteFails, persist_err, TasksTyped, Reserved, Running, ledgerVars
  <1>15. ASSUME NEW renamed \in BOOLEAN, Crash(renamed) PROVE ReservationInv'
    <2>1. TokensIssued'
      BY <1>15 DEF Crash, Ledger!lose, TokensIssued, Ledger!NoToken
    <2>2. QED
      BY <1>15, <2>1, Zenon DEF Crash, ReservationInv, TaskOwns, TokensDistinct, FinishedOwnNothing,
         FinishedOfThisRun, Reserved
  <1>16. CASE UNCHANGED vars
    BY <1>16, ReservationFrame, Zenon DEF vars, storeVars, ledgerVars, taskVars, Running
  <1>17. QED
    BY <1>2, <1>3, <1>4, <1>5, <1>6, <1>7, <1>8, <1>9, <1>10, <1>11, <1>12, <1>13, <1>14,
       <1>15, <1>16, Zenon
    DEF Next, Task

------------------------------------------------------------------------------
\* Arithmetic, stated once so that a leaf about cursors needs none of its own.
LEMMA NaturalIsInteger == ASSUME NEW x \in Nat PROVE x \in Int
OBVIOUS

\* One that is not above is below.
LEMMA Below == ASSUME NEW x \in Int, NEW y \in Int, ~(y <= x) PROVE x < y
OBVIOUS

\* The converse of Below.
LEMMA NotAbove == ASSUME NEW x \in Int, NEW y \in Int, x < y PROVE ~(y <= x)
OBVIOUS

\* Order is transitive.
LEMMA AtMostTransitive ==
    ASSUME NEW x \in Int, NEW y \in Int, NEW z \in Int, x <= y, y <= z PROVE x <= z
OBVIOUS

\* Equal integers are ordered.
LEMMA EqualIsAtMost == ASSUME NEW x \in Int, NEW y \in Int, y = x PROVE x <= y
OBVIOUS

------------------------------------------------------------------------------
(* Layer 3: cursors.  While nobody holds the reservation of a peer, ledger  *)
(* and disk agree on its cursor; a transaction that is not durable yet is   *)
(* above both; one that is durable is what the disk says.                   *)

Phases == phase \in {"closed", "open", "ready", "pair", "unpair", "record_inbound"}

\* What `persist` is writing, as far as cursors go.
CursorsWritten ==
    /\ phase \in {"open", "pair", "unpair"} => state.inbound_cursor = disk.inbound_cursor
    /\ phase = "record_inbound" => \E c \in Connections : pc[c] = "recording"
    /\ \A c \in Connections : pc[c] = "recording" =>
          /\ phase = "record_inbound"
          /\ state.inbound_cursor
                = [disk.inbound_cursor EXCEPT ![txn[c].peer] = txn[c].sequence]
    /\ \A c, d \in Connections : pc[c] = "recording" /\ pc[d] = "recording" => c = d

Undurable == Reserved \ {"durable"}

\* Where the cursor of a task's peer stands, by how far the task is.
TaskCursors ==
    \A c \in Connections :
        LET cursor == disk.inbound_cursor[txn[c].peer]
            highest == highest_sequence[txn[c].peer]
        IN  /\ pc[c] \in Undurable => cursor = highest /\ highest < txn[c].sequence
            /\ pc[c] = "durable" => cursor = txn[c].sequence
            /\ pc[c] = "committed" => txn[c].sequence <= cursor

\* With no reservation, the ledger's cursor is the disk's.
QuietPeersAgree ==
    Running => \A p \in Peers : in_flight[p] = Ledger!NoToken =>
                    highest_sequence[p] = disk.inbound_cursor[p]

\* A task past `deliver` has queued its evidence.
TaskQueued ==
    \A c \in Connections :
        pc[c] \in {"enqueued", "counted", "queued", "recording", "durable"}
            => Item(txn[c]) \in everQueued

CursorInv ==
    /\ Phases
    /\ CursorsWritten
    /\ TaskCursors
    /\ QuietPeersAgree
    /\ TaskQueued
    /\ LedgerNeverAheadOfDisk
    /\ AckedIsDurable
    /\ ConsumedWasQueued

\* The types the cursor arguments need.
LEMMA CursorTypes ==
    ASSUME TypeInv
    PROVE  /\ disk.inbound_cursor \in [Peers -> Int]
           /\ \A p \in Peers : Ledger!NoCursor <= disk.inbound_cursor[p]
           /\ state.inbound_cursor \in [Peers -> Int]
           /\ highest_sequence \in [Peers -> Int]
           /\ in_flight \in [Peers -> Nat]
           /\ pc \in [Connections -> TaskStates]
           /\ txn \in [Connections -> Ledger!Receipts \cup {NoReceipt}]
           /\ acked \subseteq Evidence
           /\ \A c \in Connections : pc[c] # "idle" =>
                 /\ Running /\ txn[c] \in Ledger!Receipts
                 /\ txn[c].peer \in Peers /\ txn[c].sequence \in Nat
                 /\ txn[c].sequence \in SequenceNumbers
           /\ phase = "ready" => state = disk
           /\ phase \in {"pair", "unpair", "record_inbound"} => previous = disk
PROOF
  <1>1. /\ StoreTypeOK /\ Ledger!LedgerTypeOK /\ TasksTyped /\ StoreInv
    BY TypeInvParts, Zenon
  <1>2. /\ disk.inbound_cursor \in [Peers -> Int] /\ state.inbound_cursor \in [Peers -> Int]
        /\ \A p \in Peers : Ledger!NoCursor <= disk.inbound_cursor[p]
    <2>1. /\ disk.inbound_cursor \in [Peers -> SequenceNumbers \cup {NoCursor}]
          /\ state.inbound_cursor \in [Peers -> SequenceNumbers \cup {NoCursor}]
      BY <1>1, Zenon DEF StoreTypeOK, StoredState
    <2>2. \A x \in SequenceNumbers \cup {NoCursor} : x \in Int /\ -1 <= x
      BY StoreAssumption DEF SequenceNumbers, NoCursor
    <2>3. QED BY <2>1, <2>2 DEF Ledger!NoCursor
  <1>3. highest_sequence \in [Peers -> Int] /\ in_flight \in [Peers -> Nat]
    BY <1>1, StoreAssumption DEF Ledger!LedgerTypeOK, Ledger!SequenceNumbers, Ledger!NoCursor
  <1>4. ASSUME NEW c \in Connections, pc[c] # "idle"
        PROVE  /\ Running /\ txn[c] \in Ledger!Receipts
               /\ txn[c].peer \in Peers /\ txn[c].sequence \in Nat
               /\ txn[c].sequence \in SequenceNumbers
    BY <1>1, <1>4, StoreAssumption DEF TasksTyped, HoldsReceipt, Ledger!Receipts,
       Ledger!SequenceNumbers, SequenceNumbers
  <1>5. phase = "ready" => state = disk
    BY <1>1, Zenon DEF StoreInv, MemoryAgreesWithDisk
  <1>6. phase \in {"pair", "unpair", "record_inbound"} => previous = disk
    BY <1>1, Zenon DEF StoreInv, Writing, Operations
  <1>7. QED BY <1>1, <1>2, <1>3, <1>4, <1>5, <1>6, Zenon DEF TasksTyped

\* Just the ranges of the cursors.
LEMMA CursorRanges ==
    ASSUME TypeInv, NEW p \in Peers
    PROVE  /\ disk.inbound_cursor[p] \in Int /\ -1 <= disk.inbound_cursor[p]
           /\ highest_sequence[p] \in Int
PROOF
  <1>1. disk.inbound_cursor \in [Peers -> Int] /\ highest_sequence \in [Peers -> Int]
    BY CursorTypes, Zenon
  <1>2. Ledger!NoCursor <= disk.inbound_cursor[p] BY CursorTypes, Zenon
  <1>3. QED BY <1>1, <1>2, Zenon DEF Ledger!NoCursor

\* A step that does not touch the store and starts or ends no write.
LEMMA WrittenFrame ==
    ASSUME CursorInv, UNCHANGED <<disk, state, phase>>,
           \A c \in Connections : pc'[c] = "recording" => pc[c] = "recording",
           \A c \in Connections : pc[c] = "recording" => pc'[c] = "recording",
           \A c \in Connections : pc[c] = "recording" => txn'[c] = txn[c]
    PROVE  Phases' /\ CursorsWritten'
PROOF
  <1>1. Phases' BY DEF CursorInv, Phases
  <1>2. CursorsWritten BY Zenon DEF CursorInv
  <1>3. phase' \in {"open", "pair", "unpair"} => state'.inbound_cursor = disk'.inbound_cursor
    BY <1>2, Zenon DEF CursorsWritten
  <1>4. phase' = "record_inbound" => \E c \in Connections : pc'[c] = "recording"
    BY <1>2, Zenon DEF CursorsWritten
  <1>5. ASSUME NEW c \in Connections, pc'[c] = "recording"
        PROVE  /\ phase' = "record_inbound"
               /\ state'.inbound_cursor
                     = [disk'.inbound_cursor EXCEPT ![txn'[c].peer] = txn'[c].sequence]
    <2>1. pc[c] = "recording" /\ txn'[c] = txn[c] BY <1>5, Zenon
    <2>2. QED BY <1>2, <2>1 DEF CursorsWritten
  <1>6. \A c, d \in Connections : pc'[c] = "recording" /\ pc'[d] = "recording" => c = d
    BY <1>2, Zenon DEF CursorsWritten
  <1>7. QED BY <1>1, <1>3, <1>4, <1>5, <1>6 DEF CursorsWritten

\* A step that leaves the cursors of disk and ledger alone and moves tasks on
\* within what their place already says about those cursors.
LEMMA CursorFrame ==
    ASSUME CursorInv,
           disk'.inbound_cursor = disk.inbound_cursor,
           UNCHANGED <<highest_sequence, in_flight, acked>>,
           Running' => Running,
           everQueued \subseteq everQueued',
           \A c \in Connections : pc'[c] # "idle" =>
               /\ txn'[c] = txn[c]
               /\ pc'[c] \in Undurable => pc[c] \in Undurable
               /\ pc'[c] \in {"durable", "committed"} => pc[c] = pc'[c]
               /\ pc'[c] \in {"enqueued", "counted", "queued", "recording", "durable"}
                     => Item(txn[c]) \in everQueued'
    PROVE  /\ TaskCursors' /\ QuietPeersAgree' /\ TaskQueued' /\ LedgerNeverAheadOfDisk'
           /\ AckedIsDurable' /\ ConsumedWasQueued'
PROOF
  <1>1. TaskCursors'
    <2>1. SUFFICES ASSUME NEW c \in Connections, pc'[c] # "idle"
                   PROVE  LET cursor == disk.inbound_cursor[txn[c].peer]
                              highest == highest_sequence[txn[c].peer]
                          IN  /\ pc'[c] \in Undurable =>
                                    cursor = highest /\ highest < txn[c].sequence
                              /\ pc'[c] = "durable" => cursor = txn[c].sequence
                              /\ pc'[c] = "committed" => txn[c].sequence <= cursor
      BY ZenonT(40) DEF TaskCursors, Undurable, Reserved
    <2>2. /\ pc'[c] \in Undurable => pc[c] \in Undurable
          /\ pc'[c] \in {"durable", "committed"} => pc[c] = pc'[c]
      BY <2>1, Zenon
    <2>3. QED BY <2>2, ZenonT(40) DEF CursorInv, TaskCursors
  <1>2. QuietPeersAgree'
    BY Zenon DEF CursorInv, QuietPeersAgree
  <1>3. TaskQueued'
    BY Zenon DEF CursorInv, TaskQueued
  <1>4. LedgerNeverAheadOfDisk' /\ AckedIsDurable'
    BY Zenon DEF CursorInv, LedgerNeverAheadOfDisk, AckedIsDurable
  <1>5. ConsumedWasQueued'
    BY Zenon DEF CursorInv, ConsumedWasQueued
  <1>6. QED BY <1>1, <1>2, <1>3, <1>4, <1>5

\* The same for a step that does not touch the store and starts or ends no
\* write.
LEMMA CursorTaskFrame ==
    ASSUME CursorInv,
           UNCHANGED <<disk, state, phase, highest_sequence, in_flight, acked>>,
           everQueued \subseteq everQueued',
           \A c \in Connections : pc'[c] # "idle" =>
               /\ txn'[c] = txn[c]
               /\ pc'[c] \in Undurable => pc[c] \in Undurable
               /\ pc'[c] \in {"durable", "committed"} => pc[c] = pc'[c]
               /\ pc'[c] \in {"enqueued", "counted", "queued", "recording", "durable"}
                     => Item(txn[c]) \in everQueued',
           \A c \in Connections : pc'[c] = "recording" <=> pc[c] = "recording"
    PROVE  CursorInv'
PROOF
  <1>1. /\ TaskCursors' /\ QuietPeersAgree' /\ TaskQueued' /\ LedgerNeverAheadOfDisk'
        /\ AckedIsDurable' /\ ConsumedWasQueued'
    BY CursorFrame, Zenon DEF Running
  <1>2. Phases' /\ CursorsWritten'
    BY WrittenFrame, Zenon
  <1>3. QED BY <1>1, <1>2, Zenon DEF CursorInv

\* A process that starts on an empty store satisfies the cursor layer.
LEMMA InitCursors == Init => CursorInv
PROOF
  <1> SUFFICES ASSUME Init PROVE CursorInv BY Zenon
  <1>1. Phases /\ CursorsWritten /\ TaskCursors /\ QuietPeersAgree /\ TaskQueued
    BY Zenon DEF Init, StoreInit, Phases, CursorsWritten, TaskCursors, QuietPeersAgree,
           TaskQueued, Running, Undurable, Reserved
  <1>2. LedgerNeverAheadOfDisk
    <2>1. ASSUME NEW p \in Peers PROVE highest_sequence[p] <= disk.inbound_cursor[p]
      <3>1. highest_sequence[p] = -1 /\ disk.inbound_cursor[p] = -1
        BY Zenon DEF Init, StoreInit, EmptyState, NoCursor, Ledger!LedgerInit,
               Ledger!NoCursor
      <3>2. QED BY <3>1
    <2>2. QED BY <2>1, ZenonT(40) DEF LedgerNeverAheadOfDisk
  <1>3. AckedIsDurable /\ ConsumedWasQueued
    BY Zenon DEF Init, StoreInit, EmptyState, AckedIsDurable, ConsumedWasQueued
  <1>4. QED BY <1>1, <1>2, <1>3 DEF CursorInv

\* A new transaction is above the cursor that ledger and disk agree on.
LEMMA PrepareCursors ==
    ASSUME TypeInv, CursorInv,
           NEW c \in Connections, NEW b \in Ledger!Bundles, Prepare(c, b)
    PROVE  CursorInv'
PROOF
  <1> USE DEF Reserved, Undurable
  <1>1. /\ pc' = [pc EXCEPT ![c] = "prepared"] /\ txn' = [txn EXCEPT ![c] = Ledger!split(b)]
        /\ pc[c] = "idle" /\ Running
        /\ UNCHANGED <<disk, state, phase, highest_sequence, acked, everQueued>>
        /\ in_flight' = [in_flight EXCEPT ![b.peer] = next_token + 1]
        /\ in_flight[b.peer] = Ledger!NoToken
        /\ ~(b.sequence <= highest_sequence[b.peer])
        /\ b.peer \in Peers /\ b.sequence \in Int
    BY StoreAssumption DEF Prepare, Ledger!prepare, Ledger!verdict, storeVars, Ledger!Bundles,
       Ledger!SequenceNumbers
  <1>2. /\ txn'[c].peer = b.peer /\ txn'[c].sequence = b.sequence /\ pc'[c] = "prepared"
        /\ \A d \in Connections : d # c => pc'[d] = pc[d] /\ txn'[d] = txn[d]
    BY <1>1, CursorTypes, ZenonT(40) DEF Ledger!split
  <1>3. /\ highest_sequence[b.peer] = disk.inbound_cursor[b.peer]
        /\ highest_sequence[b.peer] < b.sequence
    <2>1. highest_sequence[b.peer] = disk.inbound_cursor[b.peer]
      BY <1>1, ZenonT(40) DEF CursorInv, QuietPeersAgree
    <2>2. highest_sequence[b.peer] \in Int BY <1>1, CursorRanges, ZenonT(40)
    <2>3. b.sequence \in Int /\ ~(b.sequence <= highest_sequence[b.peer]) BY <1>1, Zenon
    <2>4. highest_sequence[b.peer] < b.sequence BY <2>2, <2>3, Below, Zenon
    <2>5. QED BY <2>1, <2>4, Zenon
  <1>4. TaskCursors'
    <2>1. SUFFICES ASSUME NEW d \in Connections
                   PROVE  LET cursor == disk.inbound_cursor[txn'[d].peer]
                              highest == highest_sequence[txn'[d].peer]
                          IN  /\ pc'[d] \in Undurable =>
                                    cursor = highest /\ highest < txn'[d].sequence
                              /\ pc'[d] = "durable" => cursor = txn'[d].sequence
                              /\ pc'[d] = "committed" => txn'[d].sequence <= cursor
      BY <1>1, ZenonT(40) DEF TaskCursors
    <2>2. CASE d = c BY <1>2, <1>3, <2>2, ZenonT(40)
    <2>3. CASE d # c BY <1>2, <2>3, ZenonT(40) DEF CursorInv, TaskCursors
    <2>4. QED BY <2>2, <2>3, ZenonT(40)
  <1>5. QuietPeersAgree'
    <2>1. next_token + 1 # Ledger!NoToken
      BY TypeInvParts DEF Ledger!LedgerTypeOK, Ledger!NoToken
    <2>2. QED BY <1>1, <2>1, CursorTypes, ZenonT(40) DEF CursorInv, QuietPeersAgree, Running
  <1>6. Phases' /\ CursorsWritten' /\ TaskQueued'
    <2>1. \A d \in Connections : /\ pc'[d] = "recording" <=> pc[d] = "recording"
                                 /\ pc[d] = "recording" => txn'[d] = txn[d]
      BY <1>1, <1>2, ZenonT(40)
    <2>2. Phases' /\ CursorsWritten' BY <1>1, <2>1, WrittenFrame, ZenonT(40)
    <2>3. \A d \in Connections : pc'[d] \in Reserved /\ pc'[d] # "prepared" =>
                                     d # c /\ pc'[d] = pc[d] /\ txn'[d] = txn[d]
      BY <1>2, ZenonT(40)
    <2>4. everQueued' = everQueued BY <1>1, ZenonT(40)
    <2>5. TaskQueued' BY <2>3, <2>4, ZenonT(40) DEF CursorInv, TaskQueued, Item
    <2>6. QED BY <2>2, <2>5, Zenon
  <1>7. LedgerNeverAheadOfDisk' /\ AckedIsDurable' /\ ConsumedWasQueued'
    BY <1>1, ZenonT(40) DEF CursorInv, LedgerNeverAheadOfDisk, AckedIsDurable, ConsumedWasQueued
  <1>8. QED BY <1>4, <1>5, <1>6, <1>7 DEF CursorInv

\* `record_inbound` never takes its early return here: the transaction is
\* above the disk's cursor.
LEMMA RecordCursors ==
    ASSUME TypeInv, CursorInv, NEW c \in Connections, RecordInbound(c)
    PROVE  CursorInv'
PROOF
  <1> USE DEF Reserved, Undurable
  <1>1. /\ pc[c] = "queued" /\ phase = "ready" /\ state = disk
        /\ txn[c].peer \in Peers /\ txn[c].sequence \in Nat
    BY CursorTypes, Zenon DEF RecordInbound, record_inbound, record_inbound_noop,
       commit
  <1>2. disk.inbound_cursor[txn[c].peer] < txn[c].sequence
    BY <1>1, CursorTypes, ZenonT(40) DEF CursorInv, TaskCursors
  <1>3. ~AlreadyRecorded(txn[c].peer, txn[c].sequence)
    <2>1. disk.inbound_cursor[txn[c].peer] \in Int /\ txn[c].sequence \in Int
      BY <1>1, CursorRanges
    <2>2. ~(txn[c].sequence <= disk.inbound_cursor[txn[c].peer]) BY <1>2, <2>1, NotAbove
    <2>3. state = disk BY <1>1, Zenon
    <2>4. QED BY <2>2, <2>3 DEF AlreadyRecorded
  <1>4. /\ pc' = [pc EXCEPT ![c] = "recording"] /\ phase' = "record_inbound"
        /\ state' = [state EXCEPT !.inbound_cursor[txn[c].peer] = txn[c].sequence]
        /\ UNCHANGED <<disk, highest_sequence, in_flight, txn, acked, everQueued>>
    BY <1>3, Zenon DEF RecordInbound, record_inbound, commit, ledgerVars
  <1>5. state'.inbound_cursor
          = [disk.inbound_cursor EXCEPT ![txn[c].peer] = txn[c].sequence]
    BY <1>1, <1>4, TypeInvParts DEF TypeInv, StoreTypeOK, StoredState
  <1>6. pc'[c] = "recording" /\ \A d \in Connections : d # c => pc'[d] = pc[d]
    BY <1>4, CursorTypes
  <1>7. \A d \in Connections : pc[d] # "recording"
    BY <1>1, Zenon DEF CursorInv, CursorsWritten
  <1>8. CursorsWritten'
    BY <1>4, <1>5, <1>6, <1>7 DEF CursorsWritten
  <1>9. /\ TaskCursors' /\ QuietPeersAgree' /\ TaskQueued' /\ LedgerNeverAheadOfDisk'
        /\ AckedIsDurable' /\ ConsumedWasQueued'
    <2>1. Item(txn[c]) \in everQueued BY <1>1, Zenon DEF CursorInv, TaskQueued
    <2>2. ASSUME NEW d \in Connections, pc'[d] # "idle"
          PROVE  /\ txn'[d] = txn[d]
                 /\ pc'[d] \in Undurable => pc[d] \in Undurable
                 /\ pc'[d] \in {"durable", "committed"} => pc[d] = pc'[d]
                 /\ pc'[d] \in {"enqueued", "counted", "queued", "recording", "durable"}
                       => Item(txn[d]) \in everQueued'
      <3>1. CASE d = c BY <1>1, <1>4, <1>6, <2>1, <3>1
      <3>2. CASE d # c BY <1>4, <1>6, <3>2 DEF CursorInv, TaskQueued
      <3>3. QED BY <3>1, <3>2, Zenon
    <2>3. QED BY <1>1, <1>4, <2>2, CursorFrame, Zenon DEF Running
  <1>10. Phases' BY <1>4 DEF Phases
  <1>11. QED BY <1>8, <1>9, <1>10 DEF CursorInv

\* The cursor of one peer moves, and no other transaction is of that peer.
LEMMA RecordedCursors ==
    ASSUME TypeInv, ReservationInv, CursorInv, NEW c \in Connections, Recorded(c)
    PROVE  CursorInv'
PROOF
  <1> USE DEF Reserved, Undurable
  <1> DEFINE p == txn[c].peer
  <1>1. /\ pc[c] = "recording" /\ disk' = state /\ state' = state /\ phase' = "ready"
        /\ pc' = [pc EXCEPT ![c] = "durable"]
        /\ UNCHANGED <<highest_sequence, in_flight, txn, acked, everQueued>>
    BY Zenon DEF Recorded, persist_ok, ledgerVars
  <1>2. /\ p \in Peers /\ txn[c].sequence \in Nat /\ Running
        /\ disk'.inbound_cursor = [disk.inbound_cursor EXCEPT ![p] = txn[c].sequence]
        /\ disk.inbound_cursor[p] < txn[c].sequence
        /\ \A d \in Connections : d # c => pc[d] # "recording"
    BY <1>1, CursorTypes, ZenonT(40) DEF CursorInv, CursorsWritten, TaskCursors
  <1>3. /\ pc'[c] = "durable" /\ \A d \in Connections : d # c => pc'[d] = pc[d]
    BY <1>1, CursorTypes, ZenonT(40)
  <1>4. /\ disk'.inbound_cursor[p] = txn[c].sequence
        /\ \A q \in Peers : q # p => disk'.inbound_cursor[q] = disk.inbound_cursor[q]
        /\ \A q \in Peers : disk.inbound_cursor[q] <= disk'.inbound_cursor[q]
    <2>1. disk.inbound_cursor \in [Peers -> Int] BY CursorTypes, Zenon
    <2>2. /\ p \in Peers
          /\ disk'.inbound_cursor = [disk.inbound_cursor EXCEPT ![p] = txn[c].sequence]
      BY <1>2
    <2>3. /\ disk'.inbound_cursor[p] = txn[c].sequence
          /\ \A q \in Peers : q # p => disk'.inbound_cursor[q] = disk.inbound_cursor[q]
      BY <2>1, <2>2
    <2>4. ASSUME NEW q \in Peers PROVE disk.inbound_cursor[q] <= disk'.inbound_cursor[q]
      <3>1. disk.inbound_cursor[q] \in Int BY CursorRanges, Zenon
      <3>2. CASE q = p
        <4>1. txn[c].sequence \in Int /\ disk.inbound_cursor[q] < txn[c].sequence
          BY <1>2, <3>2
        <4>2. disk.inbound_cursor[q] <= txn[c].sequence BY <3>1, <4>1
        <4>3. QED BY <2>3, <3>2, <4>2
      <3>3. CASE q # p
        <4>1. disk'.inbound_cursor[q] = disk.inbound_cursor[q] BY <2>3, <3>3
        <4>2. QED BY <3>1, <4>1, EqualIsAtMost, Zenon
      <3>4. QED BY <3>2, <3>3
    <2>5. QED BY <2>3, <2>4, Zenon
  <1>5. TaskCursors'
    <2>1. SUFFICES ASSUME NEW d \in Connections
                   PROVE  LET cursor == disk'.inbound_cursor[txn[d].peer]
                              highest == highest_sequence[txn[d].peer]
                          IN  /\ pc'[d] \in Undurable =>
                                    cursor = highest /\ highest < txn[d].sequence
                              /\ pc'[d] = "durable" => cursor = txn[d].sequence
                              /\ pc'[d] = "committed" => txn[d].sequence <= cursor
      BY <1>1, ZenonT(40) DEF TaskCursors
    <2>2. CASE d = c BY <1>3, <1>4, <2>2, ZenonT(40)
    <2>3. CASE d # c /\ pc[d] \in Reserved
      <3>1. txn[d].peer # p BY <1>1, <2>3, ReservationsSerial DEF SerialPerPeer
      <3>2. txn[d].peer \in Peers BY <2>3, CursorTypes
      <3>3. QED BY <1>3, <1>4, <2>3, <3>1, <3>2, ZenonT(40) DEF CursorInv, TaskCursors
    <2>4. CASE d # c /\ pc[d] = "committed"
      <3>1. /\ txn[d].peer \in Peers /\ txn[d].sequence \in Nat
            /\ txn[d].sequence <= disk.inbound_cursor[txn[d].peer]
        BY <2>4, CursorTypes DEF CursorInv, TaskCursors
      <3>2. /\ disk.inbound_cursor[txn[d].peer] \in Int
            /\ disk'.inbound_cursor[txn[d].peer] \in Int
        <4>1. disk.inbound_cursor[txn[d].peer] \in Int BY <3>1, CursorRanges, ZenonT(40)
        <4>2. CASE txn[d].peer = p
          <5>1. disk'.inbound_cursor[p] = txn[c].sequence BY <1>4, Zenon
          <5>2. txn[c].sequence \in Int BY <1>2, NaturalIsInteger
          <5>3. QED BY <4>1, <4>2, <5>1, <5>2, ZenonT(40)
        <4>3. CASE txn[d].peer # p BY <1>4, <3>1, <4>1, <4>3
        <4>4. QED BY <4>1, <4>2, <4>3, ZenonT(40)
      <3>3. disk.inbound_cursor[txn[d].peer] <= disk'.inbound_cursor[txn[d].peer]
        BY <1>4, <3>1
      <3>4. txn[d].sequence <= disk'.inbound_cursor[txn[d].peer]
        BY <3>1, <3>2, <3>3
      <3>5. pc'[d] = "committed" BY <1>3, <2>4
      <3>6. QED BY <3>4, <3>5
    <2>5. CASE d # c /\ pc[d] \notin Reserved /\ pc[d] # "committed"
      BY <1>3, <2>5
    <2>6. QED BY <2>2, <2>3, <2>4, <2>5, ZenonT(40)
  <1>6. QuietPeersAgree'
    <2>1. in_flight[p] # Ledger!NoToken
      <3>1. in_flight[p] = txn[c].token /\ 1 <= txn[c].token
        BY <1>1, Zenon DEF ReservationInv, TaskOwns
      <3>2. QED BY <3>1 DEF Ledger!NoToken
    <2>2. QED BY <1>1, <1>2, <1>4, <2>1, Zenon DEF CursorInv, QuietPeersAgree
  <1>7. TaskQueued'
    BY <1>1, <1>3, ZenonT(40) DEF CursorInv, TaskQueued
  <1>8. LedgerNeverAheadOfDisk'
    <2>1. ASSUME NEW q \in Peers
          PROVE  /\ highest_sequence[q] \in Int /\ disk.inbound_cursor[q] \in Int
                 /\ disk'.inbound_cursor[q] \in Int
      <3>1. highest_sequence[q] \in Int /\ disk.inbound_cursor[q] \in Int BY CursorRanges, Zenon
      <3>2. CASE q = p
        <4>1. disk'.inbound_cursor[p] = txn[c].sequence BY <1>4, Zenon
        <4>2. txn[c].sequence \in Int BY <1>2, NaturalIsInteger
        <4>3. QED BY <3>1, <3>2, <4>1, <4>2
      <3>3. CASE q # p BY <1>4, <3>1, <3>3
      <3>4. QED BY <3>1, <3>2, <3>3, Zenon
    <2>2. \A q \in Peers : highest_sequence[q] <= disk.inbound_cursor[q]
      BY Zenon DEF CursorInv, LedgerNeverAheadOfDisk
    <2>3. ASSUME NEW q \in Peers PROVE highest_sequence[q] <= disk'.inbound_cursor[q]
      <3>1. disk.inbound_cursor[q] <= disk'.inbound_cursor[q] BY <1>4, Zenon
      <3>2. highest_sequence[q] <= disk.inbound_cursor[q] BY <2>2, Zenon
      <3>3. /\ highest_sequence[q] \in Int /\ disk.inbound_cursor[q] \in Int
            /\ disk'.inbound_cursor[q] \in Int
        BY <2>1, Zenon
      <3>4. QED BY <3>1, <3>2, <3>3, AtMostTransitive
    <2>4. QED BY <1>1, <2>3, ZenonT(40) DEF LedgerNeverAheadOfDisk
  <1>9. AckedIsDurable'
    <2>1. SUFFICES ASSUME NEW e \in acked PROVE e[2] <= disk'.inbound_cursor[e[1]]
      BY <1>1, Zenon DEF AckedIsDurable
    <2>2. e[1] \in Peers /\ e[2] \in Int
      <3>1. acked \subseteq Evidence BY CursorTypes, Zenon
      <3>2. QED BY <3>1, StoreAssumption DEF Evidence
    <2>3. e[2] <= disk.inbound_cursor[e[1]] BY Zenon DEF CursorInv, AckedIsDurable
    <2>4. CASE e[1] = p
      <3>1. disk.inbound_cursor[p] \in Int BY <1>2, CursorRanges, Zenon
      <3>2. disk.inbound_cursor[p] <= disk'.inbound_cursor[p] BY <1>2, <1>4
      <3>3. disk'.inbound_cursor[p] \in Int BY <1>2, <1>4, NaturalIsInteger
      <3>4. e[2] <= disk.inbound_cursor[p] BY <2>3, <2>4
      <3>5. e[2] <= disk'.inbound_cursor[p] BY <2>2, <3>1, <3>2, <3>3, <3>4, AtMostTransitive
      <3>6. QED BY <2>4, <3>5, Zenon
    <2>5. CASE e[1] # p BY <1>4, <2>2, <2>3, <2>5
    <2>6. QED BY <2>4, <2>5
  <1>10. ConsumedWasQueued'
    <2>1. <<p, txn[c].sequence>> \in everQueued
      BY <1>1, Zenon DEF CursorInv, TaskQueued, Item
    <2>2. QED BY <1>1, <1>4, <2>1, Zenon DEF CursorInv, ConsumedWasQueued
  <1>11. Phases' /\ CursorsWritten'
    BY <1>1, <1>2, <1>3 DEF Phases, CursorsWritten
  <1>12. QED BY <1>5, <1>6, <1>7, <1>8, <1>9, <1>10, <1>11 DEF CursorInv

\* The reservation is released with ledger and disk in agreement: on commit
\* the ledger moves up to the disk, on abandon neither has moved.
LEMMA ReleaseCursors ==
    ASSUME TypeInv, ReservationInv, CursorInv, NEW c \in Connections, Commit(c) \/ Abandon(c)
    PROVE  CursorInv'
PROOF
  <1> USE DEF Reserved, Undurable
  <1> DEFINE p == txn[c].peer
  <1>1. /\ in_flight' = [in_flight EXCEPT ![p] = Ledger!NoToken] /\ Ledger!Owns(txn[c])
        /\ \A d \in Connections : d # c /\ pc[d] \in Reserved => txn[d].peer # p
    BY ReleaseReserves, Zenon
  <1>2. /\ UNCHANGED <<disk, state, phase, acked, everQueued>>
        /\ pc[c] \in {"durable", "declined", "unpersisted"}
        /\ pc'[c] \in {"committed", "idle"}
        /\ pc'[c] = "committed" => pc[c] = "durable" /\ txn'[c] = txn[c]
        /\ \A d \in Connections : d # c => pc'[d] = pc[d] /\ txn'[d] = txn[d]
    BY CursorTypes, ZenonT(40) DEF Commit, Abandon, storeVars
  <1>3. /\ p \in Peers /\ txn[c].sequence \in Nat /\ Running BY <1>2, CursorTypes, ZenonT(40)
  <1>4. /\ highest_sequence'[p] = disk.inbound_cursor[p]
        /\ \A q \in Peers : q # p => highest_sequence'[q] = highest_sequence[q]
    <2>1. CASE Commit(c)
      <3>1. /\ disk.inbound_cursor[p] = txn[c].sequence
            /\ highest_sequence[p] <= disk.inbound_cursor[p]
        BY <1>3, <2>1, ZenonT(40) DEF Commit, CursorInv, TaskCursors, LedgerNeverAheadOfDisk
      <3>2. highest_sequence' = [highest_sequence EXCEPT ![p] =
                                   Ledger!Larger(highest_sequence[p], txn[c].sequence)]
        BY <1>1, <2>1, ZenonT(40) DEF Commit, Ledger!commit
      <3>3. QED BY <1>3, <3>1, <3>2, CursorTypes DEF Ledger!Larger
    <2>2. CASE Abandon(c)
      BY <1>2, <2>2, ZenonT(40) DEF Abandon, Ledger!abandon, CursorInv, TaskCursors
    <2>3. QED BY <2>1, <2>2, ZenonT(40)
  <1>5. TaskCursors'
    <2>1. SUFFICES ASSUME NEW d \in Connections
                   PROVE  LET cursor == disk.inbound_cursor[txn'[d].peer]
                              highest == highest_sequence'[txn'[d].peer]
                          IN  /\ pc'[d] \in Undurable =>
                                    cursor = highest /\ highest < txn'[d].sequence
                              /\ pc'[d] = "durable" => cursor = txn'[d].sequence
                              /\ pc'[d] = "committed" => txn'[d].sequence <= cursor
      BY <1>2, ZenonT(40) DEF TaskCursors
    <2>2. CASE d = c
      <3>1. pc[c] = "durable" => disk.inbound_cursor[p] = txn[c].sequence
        BY ZenonT(40) DEF CursorInv, TaskCursors
      <3>2. pc'[c] \notin Undurable /\ pc'[c] # "durable" BY <1>2, ZenonT(40)
      <3>3. ASSUME pc'[c] = "committed"
            PROVE  txn'[c].sequence <= disk.inbound_cursor[txn'[c].peer]
        <4>1. pc[c] = "durable" /\ txn'[c] = txn[c] BY <1>2, <3>3, ZenonT(40)
        <4>2. disk.inbound_cursor[p] = txn[c].sequence BY <3>1, <4>1, ZenonT(40)
        <4>3. txn[c].sequence \in Int BY <1>3
        <4>4. txn[c].sequence <= disk.inbound_cursor[p] BY <4>2, <4>3, EqualIsAtMost, SMTT(30)
        <4>5. QED BY <4>1, <4>4, ZenonT(40)
      <3>4. QED BY <2>2, <3>2, <3>3, ZenonT(40)
    <2>3. CASE d # c /\ pc[d] \in Reserved
      <3>1. txn[d].peer # p /\ txn[d].peer \in Peers BY <1>1, <2>3, CursorTypes, ZenonT(40)
      <3>2. pc'[d] = pc[d] /\ txn'[d] = txn[d]
            /\ highest_sequence'[txn[d].peer] = highest_sequence[txn[d].peer]
        BY <1>2, <1>4, <2>3, <3>1, ZenonT(40)
      <3>3. LET cursor == disk.inbound_cursor[txn[d].peer]
                highest == highest_sequence[txn[d].peer]
            IN  /\ pc[d] \in Undurable => cursor = highest /\ highest < txn[d].sequence
                /\ pc[d] = "durable" => cursor = txn[d].sequence
                /\ pc[d] = "committed" => txn[d].sequence <= cursor
        BY ZenonT(40) DEF CursorInv, TaskCursors
      <3>4. QED BY <3>2, <3>3, ZenonT(40)
    <2>4. CASE d # c /\ pc[d] \notin Reserved
      BY <1>2, <2>4, ZenonT(40) DEF CursorInv, TaskCursors
    <2>5. QED BY <2>2, <2>3, <2>4, ZenonT(40)
  <1>6. QuietPeersAgree'
    BY <1>1, <1>2, <1>3, <1>4, CursorTypes, ZenonT(40) DEF CursorInv, QuietPeersAgree
  <1>7. TaskQueued'
    BY <1>2, ZenonT(40) DEF CursorInv, TaskQueued
  <1>8. LedgerNeverAheadOfDisk'
    <2>1. \A q \in Peers : highest_sequence[q] <= disk.inbound_cursor[q]
      BY Zenon DEF CursorInv, LedgerNeverAheadOfDisk
    <2>2. ASSUME NEW q \in Peers PROVE highest_sequence'[q] <= disk.inbound_cursor[q]
      <3>1. disk.inbound_cursor[q] \in Int BY CursorRanges, Zenon
      <3>2. CASE q = p
        <4>1. highest_sequence'[p] = disk.inbound_cursor[p] BY <1>4, Zenon
        <4>2. QED BY <3>1, <3>2, <4>1, EqualIsAtMost
      <3>3. CASE q # p BY <1>4, <2>1, <3>3
      <3>4. QED BY <3>2, <3>3
    <2>3. QED BY <1>2, <2>2, ZenonT(40) DEF LedgerNeverAheadOfDisk
  <1>9. AckedIsDurable' /\ ConsumedWasQueued'
    BY <1>2, ZenonT(40) DEF CursorInv, AckedIsDurable, ConsumedWasQueued
  <1>10. Phases' /\ CursorsWritten'
    <2>1. \A d \in Connections : /\ pc'[d] = "recording" <=> pc[d] = "recording"
                                 /\ pc[d] = "recording" => txn'[d] = txn[d]
      BY <1>2, ZenonT(40)
    <2>2. QED BY <1>2, <2>1, WrittenFrame, ZenonT(40)
  <1>11. QED BY <1>5, <1>6, <1>7, <1>8, <1>9, <1>10, Zenon DEF CursorInv

\* The acknowledgement goes out for a sequence the disk's cursor covers.
LEMMA AcknowledgeCursors ==
    ASSUME TypeInv, CursorInv, NEW c \in Connections, Acknowledge(c)
    PROVE  CursorInv'
PROOF
  <1> USE DEF Reserved, Undurable
  <1>1. /\ pc[c] = "committed" /\ pc'[c] = "idle"
        /\ \A d \in Connections : d # c => pc'[d] = pc[d] /\ txn'[d] = txn[d]
        /\ UNCHANGED <<disk, state, phase, highest_sequence, in_flight, everQueued>>
        /\ acked' = acked \cup {<<txn[c].peer, txn[c].sequence>>}
    BY CursorTypes, ZenonT(40) DEF Acknowledge, Item, storeVars, ledgerVars
  <1>2. txn[c].sequence <= disk.inbound_cursor[txn[c].peer]
    BY <1>1, ZenonT(40) DEF CursorInv, TaskCursors
  <1>3. AckedIsDurable'
    <2>1. \A e \in acked : e[2] <= disk.inbound_cursor[e[1]] BY DEF CursorInv, AckedIsDurable
    <2>2. ASSUME NEW e \in acked' PROVE e[2] <= disk.inbound_cursor[e[1]]
      <3>1. CASE e \in acked BY <2>1, <3>1, Zenon
      <3>2. CASE e = <<txn[c].peer, txn[c].sequence>> BY <1>2, <3>2, Zenon
      <3>3. QED BY <1>1, <3>1, <3>2, ZenonT(40)
    <2>3. QED BY <1>1, <2>2, ZenonT(40) DEF AckedIsDurable
  <1>4. TaskCursors' /\ TaskQueued'
    <2>1. TaskCursors'
      <3>1. SUFFICES ASSUME NEW d \in Connections, d # c
                     PROVE  LET cursor == disk.inbound_cursor[txn[d].peer]
                                highest == highest_sequence[txn[d].peer]
                            IN  /\ pc[d] \in Undurable =>
                                      cursor = highest /\ highest < txn[d].sequence
                                /\ pc[d] = "durable" => cursor = txn[d].sequence
                                /\ pc[d] = "committed" => txn[d].sequence <= cursor
        BY <1>1 DEF TaskCursors
      <3>2. QED BY Zenon DEF CursorInv, TaskCursors
    <2>2. TaskQueued' BY <1>1, Zenon DEF CursorInv, TaskQueued, Item
    <2>3. QED BY <2>1, <2>2, Zenon
  <1>5. QuietPeersAgree' /\ LedgerNeverAheadOfDisk' /\ ConsumedWasQueued'
    BY <1>1, ZenonT(40) DEF CursorInv, QuietPeersAgree, LedgerNeverAheadOfDisk, ConsumedWasQueued, Running
  <1>6. Phases' /\ CursorsWritten'
    <2>1. \A d \in Connections : /\ pc'[d] = "recording" <=> pc[d] = "recording"
                                 /\ pc[d] = "recording" => txn'[d] = txn[d]
      BY <1>1, Zenon
    <2>2. QED BY <1>1, <2>1, WrittenFrame, Zenon
  <1>7. QED BY <1>3, <1>4, <1>5, <1>6, SMTT(30) DEF CursorInv

\* The disk is as it was, and the task that waited knows.
LEMMA WriteFailsCursors ==
    ASSUME TypeInv, CursorInv, WriteFails PROVE CursorInv'
PROOF
  <1> USE DEF Reserved, Undurable
  <1>1. /\ pc' = [c \in Connections |-> IF pc[c] = "recording" THEN "unpersisted" ELSE pc[c]]
        /\ UNCHANGED <<disk, highest_sequence, in_flight, txn, acked, everQueued>>
        /\ phase \in Operations
        /\ phase' = IF phase = "open" THEN "closed" ELSE "ready"
    BY Zenon DEF WriteFails, persist_err, ledgerVars
  <1>2. \A c \in Connections : /\ pc[c] = "recording" => pc'[c] = "unpersisted"
                               /\ pc[c] # "recording" => pc'[c] = pc[c]
                               /\ pc'[c] # "recording"
    BY <1>1, Zenon
  <1>3. Running' => Running
    BY <1>1, Zenon DEF Running, Operations
  <1>4. /\ TaskCursors' /\ QuietPeersAgree' /\ TaskQueued' /\ LedgerNeverAheadOfDisk'
        /\ AckedIsDurable' /\ ConsumedWasQueued'
    <2>1. ASSUME NEW d \in Connections, pc'[d] # "idle"
          PROVE  /\ txn'[d] = txn[d]
                 /\ pc'[d] \in Undurable => pc[d] \in Undurable
                 /\ pc'[d] \in {"durable", "committed"} => pc[d] = pc'[d]
                 /\ pc'[d] \in {"enqueued", "counted", "queued", "recording", "durable"}
                       => Item(txn[d]) \in everQueued'
      BY <1>1, <1>2, <2>1, SMTT(30) DEF CursorInv, TaskQueued
    <2>2. QED BY <1>1, <1>3, <2>1, CursorFrame, ZenonT(40)
  <1>5. Phases' /\ CursorsWritten'
    BY <1>1, <1>2, ZenonT(40) DEF Phases, CursorsWritten
  <1>6. QED BY <1>4, <1>5 DEF CursorInv

\* A crash leaves the file of before the write or of after it; the ledger and
\* the tasks are gone.
LEMMA CrashCursors ==
    ASSUME TypeInv, CursorInv, NEW renamed \in BOOLEAN, Crash(renamed)
    PROVE  CursorInv'
PROOF
  <1>1. /\ \A c \in Connections : pc'[c] = "idle"
        /\ phase' = "closed" /\ UNCHANGED <<acked, everQueued>>
        /\ \A p \in Peers : highest_sequence'[p] = -1
        /\ phase # "closed"
        /\ disk' = disk \/ (disk' = state /\ phase \in Operations)
    BY Zenon DEF Crash, store_crash, Ledger!lose, Ledger!NoCursor
  <1>2. /\ Phases' /\ CursorsWritten' /\ TaskCursors' /\ QuietPeersAgree' /\ TaskQueued'
    BY <1>1, Zenon DEF Phases, CursorsWritten, TaskCursors, QuietPeersAgree, TaskQueued, Running,
                Undurable, Reserved
  <1>3. \/ disk'.inbound_cursor = disk.inbound_cursor
        \/ \E c \in Connections :
              /\ pc[c] = "recording"
              /\ disk'.inbound_cursor
                    = [disk.inbound_cursor EXCEPT ![txn[c].peer] = txn[c].sequence]
    BY <1>1, ZenonT(40) DEF CursorInv, Phases, CursorsWritten, Operations
  <1>4. CASE disk'.inbound_cursor = disk.inbound_cursor
    <2>1. LedgerNeverAheadOfDisk'
      BY <1>1, <1>4, CursorTypes DEF LedgerNeverAheadOfDisk, Ledger!NoCursor
    <2>2. AckedIsDurable' /\ ConsumedWasQueued'
      BY <1>1, <1>4 DEF CursorInv, AckedIsDurable, ConsumedWasQueued
    <2>3. QED BY <1>2, <2>1, <2>2, Zenon DEF CursorInv
  <1>5. ASSUME NEW c \in Connections, pc[c] = "recording",
               disk'.inbound_cursor
                 = [disk.inbound_cursor EXCEPT ![txn[c].peer] = txn[c].sequence]
        PROVE  CursorInv'
    <2>1. /\ txn[c].peer \in Peers /\ txn[c].sequence \in Nat
          /\ disk.inbound_cursor[txn[c].peer] < txn[c].sequence
          /\ <<txn[c].peer, txn[c].sequence>> \in everQueued
      BY <1>5, CursorTypes, ZenonT(40) DEF CursorInv, TaskCursors, TaskQueued, Item, Undurable, Reserved
    <2>2. ASSUME NEW q \in Peers
          PROVE  /\ disk.inbound_cursor[q] \in Int /\ disk'.inbound_cursor[q] \in Int
                 /\ disk.inbound_cursor[q] <= disk'.inbound_cursor[q]
                 /\ -1 <= disk'.inbound_cursor[q]
      <3>1. disk.inbound_cursor[q] \in Int /\ -1 <= disk.inbound_cursor[q] BY CursorRanges, Zenon
      <3>2. disk.inbound_cursor \in [Peers -> Int] BY CursorTypes, Zenon
      <3>3. CASE q = txn[c].peer
        <4>1. disk'.inbound_cursor[q] = txn[c].sequence BY <1>5, <3>2, <3>3
        <4>2. txn[c].sequence \in Nat /\ disk.inbound_cursor[q] < txn[c].sequence
          BY <2>1, <3>3
        <4>3. txn[c].sequence \in Int /\ -1 <= txn[c].sequence BY <4>2
        <4>4. disk.inbound_cursor[q] <= txn[c].sequence BY <3>1, <4>2, <4>3
        <4>5. QED BY <3>1, <4>1, <4>3, <4>4
      <3>4. CASE q # txn[c].peer
        <4>1. disk'.inbound_cursor[q] = disk.inbound_cursor[q] BY <1>5, <3>2, <3>4
        <4>2. QED BY <3>1, <4>1
      <3>5. QED BY <3>3, <3>4, ZenonT(40)
    <2>3. LedgerNeverAheadOfDisk'
      BY <1>1, <2>2, Zenon DEF LedgerNeverAheadOfDisk
    <2>4. AckedIsDurable'
      <3>1. \A e \in acked : e[1] \in Peers /\ e[2] \in Int
        BY CursorTypes, StoreAssumption, SMTT(30) DEF Evidence
      <3>2. QED BY <1>1, <2>2, <3>1 DEF CursorInv, AckedIsDurable
    <2>5. ConsumedWasQueued'
      BY <1>1, <1>5, <2>1, CursorTypes DEF CursorInv, ConsumedWasQueued
    <2>6. QED BY <1>2, <2>3, <2>4, <2>5, SMTT(30) DEF CursorInv
  <1>6. QED BY <1>3, <1>4, <1>5, Zenon

\* The ledger of the new process starts from the stored cursors.
LEMMA OpenedCursors ==
    ASSUME TypeInv, CursorInv, Opened PROVE CursorInv'
PROOF
  <1>1. /\ phase = "open" /\ phase' = "ready" /\ disk' = state
        /\ UNCHANGED <<pc, acked, everQueued>>
        /\ highest_sequence' = [p \in Peers |->
                                  Ledger!Larger(Ledger!NoCursor, state.inbound_cursor[p])]
    BY Zenon DEF Opened, persist_ok, Ledger!restore, taskVars
  <1>2. /\ disk'.inbound_cursor = disk.inbound_cursor
        /\ \A c \in Connections : pc'[c] = "idle"
    BY <1>1, CursorTypes, Zenon DEF CursorInv, CursorsWritten, Running
  <1>3. \A p \in Peers : highest_sequence'[p] = disk.inbound_cursor[p]
    <2>1. SUFFICES ASSUME NEW p \in Peers
                   PROVE  highest_sequence'[p] = disk.inbound_cursor[p]
      BY Zenon
    <2>2. disk.inbound_cursor[p] \in Int /\ -1 <= disk.inbound_cursor[p] BY CursorRanges, Zenon
    <2>3. state.inbound_cursor[p] = disk.inbound_cursor[p] BY <1>1, <1>2, ZenonT(40)
    <2>4. highest_sequence'[p] = Ledger!Larger(-1, disk.inbound_cursor[p])
      BY <1>1, <2>3, ZenonT(40) DEF Ledger!NoCursor
    <2>5. QED BY <2>2, <2>4 DEF Ledger!Larger
  <1>4. Phases' /\ CursorsWritten' /\ TaskCursors' /\ QuietPeersAgree' /\ TaskQueued'
    BY <1>1, <1>2, <1>3 DEF Phases, CursorsWritten, TaskCursors, QuietPeersAgree, TaskQueued,
       Undurable, Reserved
  <1>5. LedgerNeverAheadOfDisk'
    <2>1. ASSUME NEW p \in Peers PROVE highest_sequence'[p] <= disk'.inbound_cursor[p]
      <3>1. disk.inbound_cursor[p] \in Int BY CursorTypes, Zenon
      <3>2. QED BY <1>2, <1>3, <3>1
    <2>2. QED BY <2>1, Zenon DEF LedgerNeverAheadOfDisk
  <1>6. AckedIsDurable' /\ ConsumedWasQueued'
    BY <1>1, <1>2, ZenonT(40) DEF CursorInv, AckedIsDurable, ConsumedWasQueued
  <1>7. QED BY <1>4, <1>5, <1>6 DEF CursorInv

\* Every step of the intake keeps the cursor layer, action by action.
LEMMA NextCursors ==
    ASSUME TypeInv, ReservationInv, CursorInv, [Next]_vars PROVE CursorInv'
PROOF
  <1> USE DEF Reserved, Undurable
  <1>1. ASSUME UNCHANGED <<pc, txn, highest_sequence, in_flight, acked, everQueued>>,
               Running' => Running,
               disk'.inbound_cursor = disk.inbound_cursor
        PROVE  /\ TaskCursors' /\ QuietPeersAgree' /\ TaskQueued' /\ LedgerNeverAheadOfDisk'
               /\ AckedIsDurable' /\ ConsumedWasQueued'
    BY <1>1, CursorFrame, ZenonT(40) DEF CursorInv, TaskQueued
  <1>2. CASE Open
    <2>1. Phases' /\ CursorsWritten'
      <3>1. state'.inbound_cursor = disk.inbound_cursor
        BY <1>2, TypeInvParts DEF TypeInv, Open, open, StoreTypeOK, StoredState
      <3>2. QED BY <1>2, <3>1 DEF Open, open, CursorInv, Phases, CursorsWritten, taskVars
    <2>2. QED BY <1>1, <1>2, <2>1 DEF Open, open, CursorInv, Running, ledgerVars, taskVars
  <1>3. CASE Opened BY <1>3, OpenedCursors
  <1>4. ASSUME NEW p \in Peers, Pair(p) \/ Unpair(p) PROVE CursorInv'
    <2>1. Phases' /\ CursorsWritten'
      <3>1. /\ phase = "ready" /\ state = disk /\ disk' = disk
            /\ phase' \in {"pair", "unpair"} /\ UNCHANGED <<pc, txn>>
        BY <1>4, CursorTypes
        DEF Pair, Unpair, pair, unpair, commit, taskVars
      <3>2. state'.inbound_cursor = state.inbound_cursor
        BY <1>4, TypeInvParts DEF TypeInv, Pair, Unpair, pair, unpair, commit,
           StoreTypeOK, StoredState
      <3>3. QED BY <3>1, <3>2, ZenonT(40) DEF CursorInv, Phases, CursorsWritten
    <2>2. QED
      BY <1>1, <1>4, <2>1, SMTT(30) DEF Pair, Unpair, pair, unpair, commit, CursorInv,
         Running, ledgerVars, taskVars
  <1>5. ASSUME (\E p \in Peers : Paired(p)) \/ Unpaired PROVE CursorInv'
    <2>1. /\ phase \in {"pair", "unpair"} /\ phase' = "ready" /\ disk' = state
          /\ UNCHANGED <<pc, txn, highest_sequence, in_flight, acked, everQueued>>
      BY <1>5, ZenonT(40) DEF Paired, Unpaired, persist_ok, Ledger!pair, ledgerVars, taskVars
    <2>2. disk'.inbound_cursor = disk.inbound_cursor
      BY <2>1, ZenonT(40) DEF CursorInv, CursorsWritten
    <2>3. Phases' /\ CursorsWritten'
      BY <2>1, ZenonT(40) DEF CursorInv, Phases, CursorsWritten
    <2>4. QED BY <1>1, <2>1, <2>2, <2>3, ZenonT(40) DEF CursorInv, Running
  <1>6. ASSUME NEW c \in Connections, NEW b \in Ledger!Bundles, Prepare(c, b)
        PROVE  CursorInv'
    BY <1>6, PrepareCursors, Zenon
  <1>7. ASSUME NEW c \in Connections, NEW b \in Ledger!Bundles, Refuse(c, b)
        PROVE  CursorInv'
    BY <1>7, CursorTaskFrame, Zenon
    DEF Refuse, CursorInv, TaskQueued, storeVars, ledgerVars, taskVars
  <1>8. ASSUME NEW c \in Connections,
               Deliver(c) \/ Declined(c) \/ CountRecords(c) \/ NoteOutcome(c)
        PROVE  CursorInv'
    BY <1>8, CursorTypes, CursorTaskFrame, ZenonT(40)
    DEF Deliver, Declined, CountRecords, NoteOutcome, CursorInv, TaskQueued, storeVars,
        ledgerVars
  <1>9. ASSUME NEW c \in Connections, RecordInbound(c) PROVE CursorInv'
    BY <1>9, RecordCursors, Zenon
  <1>10. ASSUME NEW c \in Connections, Recorded(c) PROVE CursorInv'
    BY <1>10, RecordedCursors
  <1>11. ASSUME NEW c \in Connections, Commit(c) \/ Abandon(c) PROVE CursorInv'
    BY <1>11, ReleaseCursors, SMTT(30)
  <1>12. ASSUME NEW c \in Connections, Acknowledge(c) PROVE CursorInv'
    BY <1>12, AcknowledgeCursors, Zenon
  <1>13. ASSUME NEW c \in Connections, TaskDies(c) PROVE CursorInv'
    BY <1>13, CursorTypes, CursorTaskFrame, ZenonT(40)
    DEF TaskDies, CursorInv, TaskQueued, storeVars, ledgerVars
  <1>14. ASSUME NEW r \in finished, LateCommit(r) \/ LateAbandon(r) PROVE CursorInv'
    BY <1>14, LateIsIgnored, CursorTaskFrame, ZenonT(40)
    DEF LateCommit, LateAbandon, CursorInv, TaskQueued, storeVars, ledgerVars, taskVars
  <1>15. CASE Drain \/ Conclude
    BY <1>15, CursorTaskFrame, ZenonT(40)
    DEF Drain, Conclude, CursorInv, TaskQueued, storeVars, ledgerVars, taskVars
  <1>16. CASE WriteFails BY <1>16, WriteFailsCursors, Zenon
  <1>17. ASSUME NEW renamed \in BOOLEAN, Crash(renamed) PROVE CursorInv'
    BY <1>17, CrashCursors, SMTT(30)
  <1>18. CASE UNCHANGED vars
    BY <1>18, CursorTaskFrame, ZenonT(40)
    DEF vars, CursorInv, TaskQueued, storeVars, ledgerVars, taskVars
  <1>19. QED
    BY <1>2, <1>3, <1>4, <1>5, <1>6, <1>7, <1>8, <1>9, <1>10, <1>11, <1>12, <1>13, <1>14,
       <1>15, <1>16, <1>17, <1>18, ZenonT(40)
    DEF Next, Task
==============================================================================
