--------------------------- MODULE FederationStore ---------------------------
(***************************************************************************)
(* The durable federation state of src/federation/store.rs: an identity,   *)
(* the paired peers, the outbound sequence and one inbound cursor per      *)
(* peer.  Every mutation goes through `commit`, which changes the copy in  *)
(* memory, writes a temporary file, renames it over the old one and rolls  *)
(* the memory back if that failed.  The store is used through `&mut self`, *)
(* so one mutation at a time is inside `commit`; what can intervene is a   *)
(* crash of the process, at any point of it.                               *)
(*                                                                         *)
(* A crash here loses memory and keeps the file the last rename left; the  *)
(* directory flush after the rename (`sync_directory`) is what makes that  *)
(* hold for a power failure too, on the filesystems that honour it.        *)
(***************************************************************************)
EXTENDS Integers, Sequences

CONSTANTS Peers,        \* paired or not, the peers that may be named
          Seeds,        \* identity seeds PeerKey::generate may draw
          NoSeed,       \* the empty string of a state file never written
          MaxSequence   \* bound: highest sequence number that is used

ASSUME StoreAssumption ==
    /\ NoSeed \notin Seeds
    /\ MaxSequence \in Nat

VARIABLES disk,      \* the file at `path`; EmptyState when there is none
          state,     \* FederationStore::state, the copy in memory
          previous,  \* the clone `commit` keeps to roll back to
          phase,     \* "closed", "ready", or the operation inside `persist`
          issued,    \* history: outbound numbers next_sequence has returned
          recorded,  \* history: per peer, highest cursor reported as durable
          known      \* history: identities an open store has shown

storeVars == <<disk, state, previous, phase, issued, recorded, known>>

\* An absent map entry; below every u64, so `<=` treats it as the code does.
NoCursor == -1

SequenceNumbers == 0..MaxSequence

Larger(a, b) == IF a > b THEN a ELSE b

StoredState == [identity_seed     : Seeds \cup {NoSeed},
                paired            : SUBSET Peers,
                outbound_sequence : SequenceNumbers,
                inbound_cursor    : [Peers -> SequenceNumbers \cup {NoCursor}]]

\* StoredState::default().
EmptyState == [identity_seed     |-> NoSeed,
               paired            |-> {},
               outbound_sequence |-> 0,
               inbound_cursor    |-> [p \in Peers |-> NoCursor]]

Operations == {"open", "pair", "unpair", "next_sequence", "record_inbound"}

StoreTypeOK ==
    /\ disk \in StoredState
    /\ state \in StoredState
    /\ previous \in StoredState
    /\ phase \in Operations \cup {"closed", "ready"}
    /\ issued \in Seq(SequenceNumbers)
    /\ recorded \in [Peers -> SequenceNumbers \cup {NoCursor}]
    /\ known \in SUBSET Seeds

StoreInit ==
    /\ disk = EmptyState
    /\ state = EmptyState
    /\ previous = EmptyState
    /\ phase = "closed"
    /\ issued = <<>>
    /\ recorded = [p \in Peers |-> NoCursor]
    /\ known = {}

------------------------------------------------------------------------------
(* `open`: load the file, draw an identity if it holds none, and write the  *)
(* result back before the store is handed to anyone.                        *)
open ==
    /\ phase = "closed"
    /\ \/ /\ disk.identity_seed # NoSeed
          /\ state' = disk
       \/ /\ disk.identity_seed = NoSeed
          /\ \E seed \in Seeds : state' = [disk EXCEPT !.identity_seed = seed]
    /\ phase' = "open"
    /\ UNCHANGED <<disk, previous, issued, recorded, known>>

\* The first half of `commit`: the change is in memory, `persist` is running.
commit(operation, changed) ==
    /\ phase = "ready"
    /\ previous' = state
    /\ state' = changed
    /\ phase' = operation
    /\ UNCHANGED <<disk, issued, recorded, known>>

pair(p) ==
    commit("pair", [state EXCEPT !.paired = @ \cup {p}])

unpair(p) ==
    commit("unpair", [state EXCEPT !.paired = @ \ {p}])

next_sequence ==
    /\ state.outbound_sequence < MaxSequence
    /\ commit("next_sequence", [state EXCEPT !.outbound_sequence = @ + 1])

\* Whether `record_inbound` returns at once: the cursor already covers it.
AlreadyRecorded(p, sequence) == state.inbound_cursor[p] >= sequence

record_inbound(p, sequence) ==
    /\ ~AlreadyRecorded(p, sequence)
    /\ commit("record_inbound", [state EXCEPT !.inbound_cursor[p] = sequence])

\* The early return of `record_inbound`: success, and nothing is written.
record_inbound_noop(p, sequence) ==
    /\ phase = "ready"
    /\ AlreadyRecorded(p, sequence)
    /\ recorded' = [recorded EXCEPT ![p] = Larger(@, sequence)]
    /\ UNCHANGED <<disk, state, previous, phase, issued, known>>

------------------------------------------------------------------------------
\* Fault: an outbound number is returned without being written.
persist_ok_lazy ==
    /\ phase \in Operations
    /\ disk' = IF phase = "next_sequence" THEN disk ELSE state
    /\ phase' = "ready"
    /\ issued' = IF phase = "next_sequence"
                   THEN Append(issued, state.outbound_sequence) ELSE issued
    /\ known' = IF phase = "open" THEN known \cup {state.identity_seed} ELSE known
    /\ previous' = EmptyState
    /\ UNCHANGED <<state, recorded>>

(* `persist` renamed the temporary file into place: the caller is told so.  *)
persist_ok ==
    /\ phase \in Operations
    /\ disk' = state
    /\ phase' = "ready"
    /\ issued' = IF phase = "next_sequence"
                   THEN Append(issued, state.outbound_sequence) ELSE issued
    /\ recorded' = IF phase = "record_inbound"
                     THEN [p \in Peers |->
                             IF state.inbound_cursor[p] # previous.inbound_cursor[p]
                               THEN Larger(recorded[p], state.inbound_cursor[p])
                               ELSE recorded[p]]
                     ELSE recorded
    /\ known' = IF phase = "open" THEN known \cup {state.identity_seed} ELSE known
    /\ previous' = EmptyState
    /\ UNCHANGED state

\* Fault: a failed write is not rolled back in memory.
persist_err_kept ==
    /\ phase \in Operations
    /\ phase' = IF phase = "open" THEN "closed" ELSE "ready"
    /\ previous' = EmptyState
    /\ UNCHANGED <<disk, state, issued, recorded, known>>

\* `persist` failed before the rename.  `commit` restores the clone; a
\* failing `open` returns the error and there is no store.
persist_err ==
    /\ phase \in Operations
    /\ \/ /\ phase = "open"
          /\ phase' = "closed"
          /\ state' = EmptyState
       \/ /\ phase # "open"
          /\ phase' = "ready"
          /\ state' = previous
    /\ previous' = EmptyState
    /\ UNCHANGED <<disk, issued, recorded, known>>

\* The process dies, anywhere: before the rename, after it, or between calls.
\* `renamed` says whether a rename in progress had reached the directory.
store_crash(renamed) ==
    /\ phase # "closed"
    /\ disk' = IF renamed /\ phase \in Operations THEN state ELSE disk
    /\ state' = EmptyState
    /\ previous' = EmptyState
    /\ phase' = "closed"
    /\ UNCHANGED <<issued, recorded, known>>

StoreNext ==
    \/ open
    \/ \E p \in Peers : pair(p)
    \/ \E p \in Peers : unpair(p)
    \/ next_sequence
    \/ \E p \in Peers, s \in SequenceNumbers : record_inbound(p, s)
    \/ \E p \in Peers, s \in SequenceNumbers : record_inbound_noop(p, s)
    \/ persist_ok
    \/ persist_err
    \/ \E renamed \in BOOLEAN : store_crash(renamed)

StoreSpec == StoreInit /\ [][StoreNext]_storeVars

------------------------------------------------------------------------------
(* A failed write leaves memory and disk agreeing (the roll-back of         *)
(* `commit`): between operations the open store is exactly its file.        *)
MemoryAgreesWithDisk == phase = "ready" => state = disk

(* A cursor `record_inbound` reported as written is in the file from then   *)
(* on, through failed writes of other operations and crashes: replay        *)
(* protection never forgets what it promised.                               *)
RecordedCursorSurvives ==
    \A p \in Peers : recorded[p] <= disk.inbound_cursor[p]

(* `next_sequence` is durable before it is returned, so the numbers it has  *)
(* returned only ever grow, whatever fails or crashes in between: no two    *)
(* bundles of this peer share a number.                                     *)
SequenceNeverReissued ==
    \A i, j \in 1..Len(issued) : i < j => issued[i] < issued[j]

(* Every open store of one file shows the same identity: a seed that was    *)
(* drawn but not written is shown to nobody.                                *)
OneIdentity == \A a, b \in known : a = b

(* What the file promises outlives every failed write and crash: recorded   *)
(* cursors stay, outbound numbers are never used twice, and one identity is *)
(* shown for ever (`record_inbound`, `next_sequence` and `open`, each       *)
(* reporting only what `persist` has renamed into place).                   *)
DurableHistory == RecordedCursorSurvives /\ SequenceNeverReissued /\ OneIdentity
==============================================================================
