----------------------- MODULE FederationIntakeProofs ------------------------
(***************************************************************************)
(* Proofs about the intake of a peer's evidence: on the store, the         *)
(* reservations and the cursors (FederationStoreProofs) rest the queue of  *)
(* the engine and the counters that trail it.  What follows from all       *)
(* layers: the acknowledgements and the ledger never run ahead of the      *)
(* disk, nothing is applied again once durable, no bundle is lost or       *)
(* counted twice, and the store inside the intake behaves as the store     *)
(* alone.                                                                  *)
(***************************************************************************)
EXTENDS FederationStoreProofs, FiniteSetTheorems

------------------------------------------------------------------------------
(* Layer 4: the queue.                                                      *)

\* In the queue, or taken from it by the engine of this run.
InEngine(e) ==
    \/ \E i \in 1..Len(pending) : pending[i] = e
    \/ \E i \in 1..Len(absorbed) : absorbed[i] = e

PastDeliver == {"enqueued", "counted", "queued", "recording", "durable", "committed"}

Delivered ==
    \A c \in Connections : pc[c] \in PastDeliver => InEngine(Item(txn[c]))

QueueInv == NothingStranded /\ Delivered

\* What the engine or its queue holds, it keeps until the process ends.
LEMMA EngineKeeps ==
    ASSUME Source!SourceTypeOK, NEW e \in Evidence, InEngine(e),
           \/ \E f \in Evidence : Source!deliver_enqueue(f)
           \/ Source!drain \/ Source!finish \/ UNCHANGED <<pending, absorbed>>
    PROVE  InEngine(e)'
PROOF
  <1>1. pending \in Seq(Evidence) /\ absorbed \in Seq(Evidence)
    BY Zenon DEF Source!SourceTypeOK
  <1>2. ASSUME NEW f \in Evidence, Source!deliver_enqueue(f) PROVE InEngine(e)'
    <2>1. /\ pending' = Append(pending, f) /\ absorbed' = absorbed
      BY <1>2, Zenon DEF Source!deliver_enqueue
    <2>2. /\ Len(pending') = Len(pending) + 1
          /\ \A i \in 1..Len(pending) : i \in 1..Len(pending') /\ pending'[i] = pending[i]
      BY <1>1, <2>1
    <2>3. QED BY <2>1, <2>2, Zenon DEF InEngine
  <1>3. CASE Source!drain \/ Source!finish
    <2>1. absorbed' = absorbed \o pending BY <1>3, Zenon DEF Source!drain, Source!finish
    <2>2. /\ Len(absorbed') = Len(absorbed) + Len(pending)
          /\ \A i \in 1..Len(absorbed) : i \in 1..Len(absorbed') /\ absorbed'[i] = absorbed[i]
          /\ \A i \in 1..Len(pending) :
                /\ Len(absorbed) + i \in 1..Len(absorbed')
                /\ absorbed'[Len(absorbed) + i] = pending[i]
      BY <1>1, <2>1
    <2>3. QED BY <2>2, ZenonT(40) DEF InEngine
  <1>4. CASE UNCHANGED <<pending, absorbed>>
    BY <1>4, Zenon DEF InEngine
  <1>5. QED BY <1>2, <1>3, <1>4

\* A step that keeps what the engine holds and lets no task past `deliver`
\* that was not past it.
LEMMA QueueFrame ==
    ASSUME TypeInv, Delivered,
           \/ \E f \in Evidence : Source!deliver_enqueue(f)
           \/ Source!drain \/ Source!finish \/ UNCHANGED <<pending, absorbed>>,
           \A c \in Connections :
               pc'[c] \in PastDeliver =>
                   /\ txn'[c] = txn[c]
                   /\ pc[c] \in PastDeliver \/ InEngine(Item(txn[c]))'
    PROVE  Delivered'
PROOF
  <1>1. \A c \in Connections : pc[c] # "idle" => Item(txn[c]) \in Evidence
    BY TypeInvParts, Zenon DEF TasksTyped, HoldsReceipt, Ledger!Receipts, Evidence, Item,
       Ledger!SequenceNumbers
  <1>2. Source!SourceTypeOK BY TypeInvParts, Zenon
  <1>3. SUFFICES ASSUME NEW c \in Connections,
                        pc'[c] \in PastDeliver
                 PROVE  InEngine(Item(txn[c]))'
    BY Zenon DEF Delivered, Item
  <1>4. CASE pc[c] \in PastDeliver
    <2>1. Item(txn[c]) \in Evidence /\ InEngine(Item(txn[c]))
      BY <1>1, <1>4, ZenonT(40) DEF Delivered, PastDeliver
    <2>2. PICK e \in Evidence : e = Item(txn[c]) BY <2>1, ZenonT(40)
    <2>3. InEngine(e)' BY <1>2, <2>1, <2>2, EngineKeeps, ZenonT(40)
    <2>4. txn'[c] = txn[c] BY <1>3, Zenon
    <2>5. QED BY <2>2, <2>3, <2>4 DEF InEngine, Item
  <1>5. QED BY <1>3, <1>4, Zenon

\* The same for a step that leaves the queue alone.
LEMMA QueueTaskFrame ==
    ASSUME TypeInv, QueueInv, UNCHANGED <<pending, absorbed, stopped>>,
           \A c \in Connections :
               pc'[c] \in PastDeliver => txn'[c] = txn[c] /\ pc[c] \in PastDeliver
    PROVE  QueueInv'
PROOF
  <1>1. NothingStranded' BY Zenon DEF QueueInv, NothingStranded
  <1>2. Delivered' BY QueueFrame DEF QueueInv
  <1>3. QED BY <1>1, <1>2 DEF QueueInv

\* Every step of the intake keeps the queue layer, action by action.
LEMMA NextQueue ==
    ASSUME TypeInv, QueueInv, [Next]_vars PROVE QueueInv'
PROOF
  <1>1. /\ NothingStranded /\ Delivered /\ Source!SourceTypeOK
        /\ pc \in [Connections -> TaskStates]
        /\ txn \in [Connections -> Ledger!Receipts \cup {NoReceipt}]
        /\ pending \in Seq(Evidence)
        /\ \A c \in Connections : pc[c] # "idle" => Item(txn[c]) \in Evidence
    BY TypeInvParts, Zenon DEF QueueInv, TasksTyped, Source!SourceTypeOK, HoldsReceipt,
       Ledger!Receipts, Evidence, Item, Ledger!SequenceNumbers
  <1>2. CASE UNCHANGED <<pending, absorbed, stopped, pc, txn>>
    BY <1>2, QueueTaskFrame
  <1>3. CASE Open \/ Opened \/ Unpaired
    BY <1>2, <1>3 DEF Open, Opened, Unpaired, sourceVars, taskVars
  <1>4. ASSUME NEW p \in Peers, Pair(p) \/ Paired(p) \/ Unpair(p) PROVE QueueInv'
    BY <1>2, <1>4 DEF Pair, Paired, Unpair, sourceVars, taskVars
  <1>5. ASSUME NEW c \in Connections, NEW b \in Ledger!Bundles, Prepare(c, b) PROVE QueueInv'
    <2>1. UNCHANGED <<pending, absorbed, stopped>> BY <1>5, Zenon DEF Prepare, sourceVars
    <2>2. \A d \in Connections :
             pc'[d] \in PastDeliver => txn'[d] = txn[d] /\ pc[d] \in PastDeliver
      BY <1>1, <1>5 DEF Prepare, PastDeliver
    <2>3. QED BY <2>1, <2>2, QueueTaskFrame
  <1>6. ASSUME NEW c \in Connections, NEW b \in Ledger!Bundles, Refuse(c, b) PROVE QueueInv'
    BY <1>2, <1>6 DEF Refuse, Source!reject, taskVars
  <1>7. ASSUME NEW c \in Connections, Deliver(c) PROVE QueueInv'
    <2>1. /\ pending' = Append(pending, Item(txn[c])) /\ ~stopped /\ stopped' = stopped
          /\ pc' = [pc EXCEPT ![c] = "enqueued"] /\ txn' = txn /\ Item(txn[c]) \in Evidence
      BY <1>1, <1>7 DEF Deliver, Source!deliver_enqueue
    <2>2. /\ Len(pending') = Len(pending) + 1 /\ Len(pending) \in Nat
          /\ pending'[Len(pending) + 1] = Item(txn[c])
      BY <1>1, <2>1
    <2>3. InEngine(Item(txn[c]))'
      BY <2>1, <2>2 DEF InEngine, Item
    <2>4. \E f \in Evidence : Source!deliver_enqueue(f)
      BY <1>7, <2>1 DEF Deliver
    <2>5. ASSUME NEW d \in Connections,
                 pc'[d] \in PastDeliver
          PROVE  /\ txn'[d] = txn[d]
                 /\ pc[d] \in PastDeliver \/ InEngine(Item(txn[d]))'
      BY <1>1, <2>1, <2>3, <2>5, Zenon DEF PastDeliver
    <2>6. Delivered' BY <1>1, <2>4, <2>5, QueueFrame, ZenonT(40)
    <2>7. QED BY <2>1, <2>6 DEF QueueInv, NothingStranded
  <1>8. ASSUME NEW c \in Connections, Declined(c) \/ CountRecords(c) \/ NoteOutcome(c)
        PROVE  QueueInv'
    <2>1. UNCHANGED <<pending, absorbed, stopped>>
      BY <1>8, Zenon DEF Declined, CountRecords, NoteOutcome, Source!deliver_declined,
         Source!deliver_count, Source!deliver_outcome, Source!sourceVars
    <2>2. \A d \in Connections :
             pc'[d] \in PastDeliver => txn'[d] = txn[d] /\ pc[d] \in PastDeliver
      <3>1. CASE Declined(c) BY <1>1, <3>1 DEF Declined, PastDeliver
      <3>2. CASE CountRecords(c) BY <1>1, <3>2 DEF CountRecords, PastDeliver
      <3>3. CASE NoteOutcome(c) BY <1>1, <3>3 DEF NoteOutcome, PastDeliver
      <3>4. QED BY <1>8, <3>1, <3>2, <3>3
    <2>3. QED BY <2>1, <2>2, QueueTaskFrame
  <1>9. ASSUME NEW c \in Connections, RecordInbound(c) \/ Recorded(c) PROVE QueueInv'
    <2>1. UNCHANGED <<pending, absorbed, stopped>>
      BY <1>9, ZenonT(40) DEF RecordInbound, Recorded, sourceVars
    <2>2. \A d \in Connections :
             pc'[d] \in PastDeliver => txn'[d] = txn[d] /\ pc[d] \in PastDeliver
      <3>1. CASE RecordInbound(c) BY <1>1, <3>1 DEF RecordInbound, PastDeliver
      <3>2. CASE Recorded(c) BY <1>1, <3>2 DEF Recorded, PastDeliver
      <3>3. QED BY <1>9, <3>1, <3>2, ZenonT(40)
    <2>3. QED BY <2>1, <2>2, QueueTaskFrame, Zenon
  <1>10. ASSUME NEW c \in Connections,
                Commit(c) \/ Acknowledge(c) \/ Abandon(c) \/ TaskDies(c)
         PROVE  QueueInv'
    <2>1. UNCHANGED <<pending, absorbed, stopped>>
      BY <1>10, Zenon DEF Commit, Acknowledge, Abandon, TaskDies, sourceVars
    <2>2. \A d \in Connections :
             pc'[d] \in PastDeliver => txn'[d] = txn[d] /\ pc[d] \in PastDeliver
      <3>1. CASE Commit(c) BY <1>1, <3>1 DEF Commit, PastDeliver
      <3>2. CASE Acknowledge(c) BY <1>1, <3>2 DEF Acknowledge, PastDeliver
      <3>3. CASE Abandon(c) BY <1>1, <3>3 DEF Abandon, PastDeliver
      <3>4. CASE TaskDies(c) BY <1>1, <3>4 DEF TaskDies, PastDeliver
      <3>5. QED BY <1>10, <3>1, <3>2, <3>3, <3>4, ZenonT(40)
    <2>3. QED BY <2>1, <2>2, QueueTaskFrame, Zenon
  <1>11. ASSUME NEW r \in finished, LateCommit(r) \/ LateAbandon(r) PROVE QueueInv'
    BY <1>2, <1>11 DEF LateCommit, LateAbandon, sourceVars, taskVars
  <1>12. CASE Drain \/ Conclude
    <2>1. Delivered' BY <1>1, <1>12, QueueFrame DEF Drain, Conclude, taskVars, PastDeliver
    <2>2. NothingStranded'
      BY <1>12, Zenon DEF Drain, Conclude, Source!drain, Source!finish, NothingStranded
    <2>3. QED BY <2>1, <2>2, Zenon DEF QueueInv
  <1>13. CASE WriteFails
    BY <1>1, <1>13, QueueTaskFrame DEF WriteFails, sourceVars, PastDeliver
  <1>14. ASSUME NEW renamed \in BOOLEAN, Crash(renamed) PROVE QueueInv'
    BY <1>14, Zenon DEF Crash, Source!renew, QueueInv, NothingStranded, Delivered, PastDeliver
  <1>15. CASE UNCHANGED vars
    BY <1>2, <1>15 DEF vars, sourceVars, taskVars
  <1>16. QED
    BY <1>3, <1>4, <1>5, <1>6, <1>7, <1>8, <1>9, <1>10, <1>11, <1>12, <1>13, <1>14, <1>15, SMTT(30)
    DEF Next, Task

------------------------------------------------------------------------------
(* Layer 5: the counters.                                                   *)

\* The places of a queue that hold evidence of a peer.
At(s, p) == {i \in 1..Len(s) : s[i][1] = p}

\* Tasks between the queue and the counter, and of a peer before its outcome.
Uncounted == {c \in Connections : pc[c] = "enqueued"}
Unnoted(p) == {c \in Connections : pc[c] \in {"enqueued", "counted"} /\ txn[c].peer = p}

Counted == accepted_records + Cardinality(Uncounted)
Noted(p) == outcomes[p].bundles + Cardinality(Unnoted(p))
Taken == Len(pending) + Len(absorbed)
TakenOf(p) == Cardinality(At(pending, p)) + Cardinality(At(absorbed, p))

\* `n` trails `m` by what dropped tasks left uncounted.
Trails(n, m, f) == n <= m /\ (f = 0 => n = m)

\* The two counts of CountsAgree, by name.
LEMMA CountsNamed ==
    CountsAgree <=> /\ Trails(Counted, Taken, faults)
                    /\ \A p \in Peers : Trails(Noted(p), TakenOf(p), faults)
  BY ZenonT(40) DEF CountsAgree, Trails, Counted, Uncounted, Taken, Noted, Unnoted, TakenOf, At

\* A peer has finitely many places in a queue.
LEMMA AtFinite ==
    ASSUME NEW s \in Seq(Evidence), NEW p
    PROVE  IsFiniteSet(At(s, p)) /\ Cardinality(At(s, p)) \in Nat
  <1>1. At(s, p) \in SUBSET (1..Len(s))
    BY Zenon DEF At
  <1>2. Len(s) \in Int /\ 1 \in Int
    OBVIOUS
  <1>3. IsFiniteSet(1..Len(s))
    BY <1>2, FS_Interval, Zenon
  <1>4. IsFiniteSet(At(s, p))
    BY <1>1, <1>3, FS_Subset, Zenon
  <1>5. QED BY <1>4, FS_CardinalityType

\* Evidence at the end of a queue adds one place of its peer.
LEMMA AtAppend ==
    ASSUME NEW s \in Seq(Evidence), NEW e \in Evidence, NEW p
    PROVE  Cardinality(At(Append(s, e), p)) =
              Cardinality(At(s, p)) + (IF e[1] = p THEN 1 ELSE 0)
  <1>1. IsFiniteSet(At(s, p))
    BY AtFinite, Zenon
  <1>2. Cardinality(At(s, p)) \in Nat
    BY AtFinite, Zenon
  <1>3. At(Append(s, e), p) = IF e[1] = p THEN At(s, p) \cup {Len(s) + 1} ELSE At(s, p)
    BY DEF At
  <1>4. Len(s) + 1 \notin At(s, p)
    BY DEF At
  <1>5. Cardinality(At(s, p) \cup {Len(s) + 1}) = Cardinality(At(s, p)) + 1
    BY <1>1, <1>4, FS_AddElement, ZenonT(40)
  <1>6. QED BY <1>1, <1>2, <1>3, <1>5

\* Joining two queues adds their places up.
LEMMA AtConcat ==
    ASSUME NEW s \in Seq(Evidence), NEW t \in Seq(Evidence), NEW p
    PROVE  Cardinality(At(s \o t, p)) = Cardinality(At(s, p)) + Cardinality(At(t, p))
  <1> DEFINE shifted == {Len(s) + i : i \in At(t, p)}
             f == [i \in At(t, p) |-> Len(s) + i]
  <1>1. \A q \in Seq(Evidence) : IsFiniteSet(At(q, p)) /\ Cardinality(At(q, p)) \in Nat
    BY AtFinite, Zenon
  <1>2. f \in Bijection(At(t, p), shifted)
    <2>1. f \in [At(t, p) -> shifted]
      BY Zenon
    <2>2. \A i, j \in At(t, p) : f[i] = f[j] => i = j
      BY DEF At
    <2>3. \A x \in shifted : \E i \in At(t, p) : f[i] = x
      BY Zenon
    <2>4. QED BY <2>1, <2>2, <2>3 DEF Bijection, Injection, Surjection, IsInjective
  <1>3. IsFiniteSet(shifted) /\ Cardinality(shifted) = Cardinality(At(t, p))
    BY <1>1, <1>2, FS_Bijection DEF ExistsBijection
  <1>4. At(s \o t, p) = At(s, p) \cup shifted
    <2>1. /\ Len(s \o t) = Len(s) + Len(t) /\ Len(s) \in Nat /\ Len(t) \in Nat
          /\ \A i \in 1..(Len(s) + Len(t)) :
                (s \o t)[i] = IF i <= Len(s) THEN s[i] ELSE t[i - Len(s)]
      OBVIOUS
    <2>2. ASSUME NEW i \in At(s \o t, p) PROVE i \in At(s, p) \cup shifted
      <3>1. i \in 1..(Len(s) + Len(t)) /\ (s \o t)[i][1] = p
        BY <2>1, <2>2 DEF At
      <3>2. CASE i <= Len(s)
        BY <2>1, <3>1, <3>2 DEF At
      <3>3. CASE i > Len(s)
        <4>1. i - Len(s) \in At(t, p) /\ i = Len(s) + (i - Len(s))
          BY <2>1, <3>1, <3>3 DEF At
        <4>2. QED BY <4>1, Zenon
      <3>4. QED BY <2>1, <3>1, <3>2, <3>3
    <2>3. ASSUME NEW i \in At(s, p) PROVE i \in At(s \o t, p)
      BY <2>1, <2>3 DEF At
    <2>4. ASSUME NEW i \in At(t, p) PROVE Len(s) + i \in At(s \o t, p)
      BY <2>1, <2>4 DEF At
    <2>5. QED BY <2>2, <2>3, <2>4
  <1>5. At(s, p) \cap shifted = {}
    BY DEF At
  <1> HIDE DEF shifted
  <1>6. Cardinality(At(s, p) \cup shifted) =
           Cardinality(At(s, p)) + Cardinality(shifted) - Cardinality(At(s, p) \cap shifted)
    BY <1>1, <1>3, FS_Union
  <1>7. Cardinality(At(s, p) \cap shifted) = 0
    BY <1>5, FS_EmptySet, ZenonT(40)
  <1>8. Cardinality(At(s, p)) \in Nat /\ Cardinality(At(t, p)) \in Nat
    BY AtFinite
  <1>9. QED BY <1>3, <1>4, <1>6, <1>7, <1>8

\* Everything that is counted is a number.
LEMMA CountTypes ==
    ASSUME TypeInv
    PROVE  /\ IsFiniteSet(Uncounted) /\ Cardinality(Uncounted) \in Nat
           /\ \A p : IsFiniteSet(Unnoted(p)) /\ Cardinality(Unnoted(p)) \in Nat
           /\ accepted_records \in Nat /\ faults \in Nat
           /\ \A p \in Peers : outcomes[p].bundles \in Nat
           /\ pending \in Seq(Evidence) /\ absorbed \in Seq(Evidence)
           /\ \A p : Cardinality(At(pending, p)) \in Nat /\ Cardinality(At(absorbed, p)) \in Nat
  <1>1. /\ accepted_records \in Nat /\ faults \in Nat
        /\ outcomes \in [Peers -> [bundles : Nat, rejected : SUBSET Source!Refusals]]
        /\ pending \in Seq(Evidence) /\ absorbed \in Seq(Evidence)
    BY Zenon DEF TypeInv, TypeOK, Source!SourceTypeOK
  <1>2. IsFiniteSet(Connections)
    BY IntakeAssumption
  <1>3. Uncounted \in SUBSET Connections /\ \A p : Unnoted(p) \in SUBSET Connections
    BY Zenon DEF Uncounted, Unnoted
  <1>4. IsFiniteSet(Uncounted) /\ \A p : IsFiniteSet(Unnoted(p))
    BY <1>2, <1>3, FS_Subset
  <1>5. Cardinality(Uncounted) \in Nat /\ \A p : Cardinality(Unnoted(p)) \in Nat
    BY <1>4, FS_CardinalityType
  <1>6. \A q \in Seq(Evidence) : \A p : Cardinality(At(q, p)) \in Nat
    BY AtFinite
  <1>7. QED BY <1>1, <1>4, <1>5, <1>6

\* The arithmetic of the counters.
LEMMA Sums ==
    ASSUME NEW a \in Nat, NEW b \in Nat, NEW d \in Nat
    PROVE  /\ a + b \in Nat
           /\ a + (b + d) = (a + b) + d /\ (a + d) + b = (a + b) + d
           /\ (a + 1) + (b - 1) = a + b
           /\ d <= b => a + d <= a + b
  OBVIOUS

\* A step that touches neither queue nor counter, and no task that is still to count.
LEMMA CountsFrame ==
    ASSUME TypeInv, CountsAgree,
           UNCHANGED <<pending, absorbed, accepted_records>>,
           \A p \in Peers : outcomes'[p].bundles = outcomes[p].bundles,
           faults' = 0 => faults = 0,
           \A c \in Connections :
               \/ pc'[c] = pc[c] /\ txn'[c] = txn[c]
               \/ pc[c] \notin {"enqueued", "counted"} /\ pc'[c] \notin {"enqueued", "counted"}
    PROVE  CountsAgree'
  <1>1. Uncounted' = Uncounted /\ \A p : Unnoted(p)' = Unnoted(p)
    BY Zenon DEF Uncounted, Unnoted
  <1>2. Counted' = Counted /\ Taken' = Taken
    BY <1>1 DEF Counted, Taken
  <1>3. \A p \in Peers : Noted(p)' = Noted(p) /\ TakenOf(p)' = TakenOf(p)
    BY <1>1 DEF Noted, TakenOf, At
  <1>4. /\ Trails(Counted, Taken, faults)
        /\ \A p \in Peers : Trails(Noted(p), TakenOf(p), faults)
    BY CountsNamed, Zenon
  <1>5. /\ Trails(Counted, Taken, faults)'
        /\ \A p \in Peers : Trails(Noted(p), TakenOf(p), faults)'
    BY <1>2, <1>3, <1>4 DEF Trails
  <1>6. QED BY <1>5, ZenonT(40) DEF CountsAgree, Trails, Counted, Uncounted, Taken, Noted, Unnoted, TakenOf, At

\* What enters the queue is owed to the counters by the task that put it there.
LEMMA DeliverCounts ==
    ASSUME TypeInv, CountsAgree, NEW c \in Connections, Deliver(c) PROVE CountsAgree'
  <1> DEFINE e == Item(txn[c])
  <1>1. /\ pc \in [Connections -> TaskStates] /\ pc[c] = "prepared"
        /\ pc' = [pc EXCEPT ![c] = "enqueued"] /\ txn' = txn
        /\ pending' = Append(pending, e)
        /\ UNCHANGED <<absorbed, accepted_records, outcomes, faults>>
    BY TypeInvParts, Zenon DEF TasksTyped, Deliver, Source!deliver_enqueue
  <1>2. e \in Evidence /\ e[1] = txn[c].peer
    BY <1>1, TypeInvParts DEF TasksTyped, HoldsReceipt, Ledger!Receipts, Evidence, Item,
       Ledger!SequenceNumbers
  <1> HIDE DEF e
  <1>3. c \notin Uncounted /\ \A p : c \notin Unnoted(p)
    BY <1>1 DEF Uncounted, Unnoted
  <1>4. /\ Uncounted' = Uncounted \cup {c}
        /\ \A p : Unnoted(p)' = IF txn[c].peer = p THEN Unnoted(p) \cup {c} ELSE Unnoted(p)
    <2>1. pc'[c] = "enqueued" /\ \A d \in Connections : d # c => pc'[d] = pc[d]
      BY <1>1, Zenon
    <2>2. QED BY <1>1, <1>3, <2>1 DEF Uncounted, Unnoted
  <1>5. Cardinality(Uncounted') = Cardinality(Uncounted) + 1
    BY <1>3, <1>4, CountTypes, FS_AddElement, ZenonT(40)
  <1>6. ASSUME NEW p PROVE Cardinality(Unnoted(p)') =
                             Cardinality(Unnoted(p)) + (IF txn[c].peer = p THEN 1 ELSE 0)
    <2>1. IsFiniteSet(Unnoted(p)) /\ Cardinality(Unnoted(p)) \in Nat
      BY CountTypes, ZenonT(40)
    <2>2. Cardinality(Unnoted(p) \cup {c}) = Cardinality(Unnoted(p)) + 1
      BY <1>3, <2>1, FS_AddElement, ZenonT(40)
    <2>3. Unnoted(p)' = IF txn[c].peer = p THEN Unnoted(p) \cup {c} ELSE Unnoted(p)
      BY <1>4
    <2>4. QED BY <2>1, <2>2, <2>3
  <1>7. Len(pending') = Len(pending) + 1 /\ Len(pending) \in Nat /\ Len(absorbed) \in Nat
    BY <1>1, <1>2, CountTypes, SMTT(40)
  <1>8. ASSUME NEW p PROVE Cardinality(At(pending', p)) =
                             Cardinality(At(pending, p)) + (IF txn[c].peer = p THEN 1 ELSE 0)
    BY <1>1, <1>2, CountTypes, AtAppend, ZenonT(40)
  <1>9. Counted' = Counted + 1 /\ Taken' = Taken + 1
    <2>1. accepted_records \in Nat /\ Cardinality(Uncounted) \in Nat /\ 1 \in Nat
      BY CountTypes, ZenonT(40)
    <2>2. Counted' = accepted_records + (Cardinality(Uncounted) + 1)
      BY <1>1, <1>5, ZenonT(40) DEF Counted
    <2>3. Taken' = (Len(pending) + 1) + Len(absorbed)
      BY <1>1, <1>7, ZenonT(40) DEF Taken
    <2>4. accepted_records + (Cardinality(Uncounted) + 1) = (accepted_records + Cardinality(Uncounted)) + 1
      BY <2>1
    <2>5. (Len(pending) + 1) + Len(absorbed) = (Len(pending) + Len(absorbed)) + 1
      BY <1>7
    <2>6. Counted = accepted_records + Cardinality(Uncounted) /\ Taken = Len(pending) + Len(absorbed)
      BY ZenonT(40) DEF Counted, Taken
    <2>7. QED BY <2>2, <2>3, <2>4, <2>5, <2>6, ZenonT(40)
  <1>10. ASSUME NEW p \in Peers
         PROVE  /\ Noted(p)' = Noted(p) + (IF txn[c].peer = p THEN 1 ELSE 0)
                /\ TakenOf(p)' = TakenOf(p) + (IF txn[c].peer = p THEN 1 ELSE 0)
    <2>1. At(absorbed, p)' = At(absorbed, p)
      BY <1>1, Zenon DEF At
    <2>2. /\ outcomes[p].bundles \in Nat /\ Cardinality(Unnoted(p)) \in Nat
          /\ Cardinality(At(pending, p)) \in Nat /\ Cardinality(At(absorbed, p)) \in Nat
      BY CountTypes, ZenonT(40)
    <2>3. outcomes'[p] = outcomes[p]
      BY <1>1, ZenonT(40)
    <2> DEFINE d == IF txn[c].peer = p THEN 1 ELSE 0
    <2>4. d \in Nat
      BY Zenon
    <2>5. Noted(p)' = outcomes[p].bundles + (Cardinality(Unnoted(p)) + d)
      BY <1>6, <2>3, ZenonT(40) DEF Noted
    <2>6. TakenOf(p)' = (Cardinality(At(pending, p)) + d) + Cardinality(At(absorbed, p))
      BY <1>1, <1>8, <2>1, ZenonT(40) DEF TakenOf
    <2> HIDE DEF d
    <2>7. /\ outcomes[p].bundles + (Cardinality(Unnoted(p)) + d) = Noted(p) + d
          /\ (Cardinality(At(pending, p)) + d) + Cardinality(At(absorbed, p)) = TakenOf(p) + d
      BY <2>2, <2>4 DEF Noted, TakenOf
    <2>8. QED BY <2>5, <2>6, <2>7, ZenonT(40) DEF d
  <1>11. Counted \in Nat /\ Taken \in Nat /\ \A p \in Peers : Noted(p) \in Nat /\ TakenOf(p) \in Nat
    <2>1. /\ accepted_records \in Nat /\ Cardinality(Uncounted) \in Nat
          /\ \A p \in Peers : outcomes[p].bundles \in Nat /\ Cardinality(Unnoted(p)) \in Nat
          /\ \A p \in Peers : Cardinality(At(pending, p)) \in Nat /\ Cardinality(At(absorbed, p)) \in Nat
      BY CountTypes, ZenonT(40)
    <2>2. QED BY <1>7, <2>1, Sums, ZenonT(40) DEF Counted, Taken, Noted, TakenOf
  <1>12. /\ Trails(Counted, Taken, faults)'
         /\ \A p \in Peers : Trails(Noted(p), TakenOf(p), faults)'
    BY <1>1, <1>9, <1>10, <1>11, CountsNamed DEF Trails
  <1>13. QED BY <1>12, ZenonT(40) DEF CountsAgree, Trails, Counted, Uncounted, Taken, Noted, Unnoted, TakenOf, At

\* The counter is raised by the task that owed it.
LEMMA CountRecordsCounts ==
    ASSUME TypeInv, CountsAgree, NEW c \in Connections, CountRecords(c) PROVE CountsAgree'
  <1>1. /\ pc \in [Connections -> TaskStates] /\ pc[c] = "enqueued"
        /\ pc' = [pc EXCEPT ![c] = "counted"] /\ txn' = txn
        /\ accepted_records' = accepted_records + 1
        /\ UNCHANGED <<pending, absorbed, outcomes, faults>>
    BY TypeInvParts, Zenon DEF TasksTyped, CountRecords, Source!deliver_count
  <1>2. c \in Uncounted
    BY <1>1, Zenon DEF Uncounted
  <1>3. Uncounted' = Uncounted \ {c}
    BY <1>1, Zenon DEF Uncounted
  <1>4. \A p : Unnoted(p)' = Unnoted(p)
    BY <1>1, Zenon DEF Unnoted
  <1>5. Cardinality(Uncounted') = Cardinality(Uncounted) - 1
    BY <1>2, <1>3, CountTypes, FS_RemoveElement, ZenonT(40)
  <1>6. Counted' = Counted /\ Taken' = Taken
    <2>1. accepted_records \in Nat /\ Cardinality(Uncounted) \in Nat
      BY CountTypes, ZenonT(40)
    <2>2. Counted' = (accepted_records + 1) + (Cardinality(Uncounted) - 1)
      BY <1>1, <1>5, ZenonT(40) DEF Counted
    <2>3. Taken' = Taken
      BY <1>1, ZenonT(40) DEF Taken
    <2>4. QED BY <2>1, <2>2, <2>3, Sums, ZenonT(80) DEF Counted
  <1>7. \A p \in Peers : Noted(p)' = Noted(p) /\ TakenOf(p)' = TakenOf(p)
    BY <1>1, <1>4, Zenon DEF Noted, TakenOf, At
  <1>8. /\ Trails(Counted, Taken, faults)'
        /\ \A p \in Peers : Trails(Noted(p), TakenOf(p), faults)'
    BY <1>1, <1>6, <1>7, CountsNamed, Zenon DEF Trails
  <1>9. QED BY <1>8, ZenonT(40) DEF CountsAgree, Trails, Counted, Uncounted, Taken, Noted, Unnoted, TakenOf, At

\* So is the outcome of its peer.
LEMMA NoteOutcomeCounts ==
    ASSUME TypeInv, CountsAgree, NEW c \in Connections, NoteOutcome(c) PROVE CountsAgree'
  <1> DEFINE q == txn[c].peer
  <1>1. /\ pc \in [Connections -> TaskStates] /\ pc[c] = "counted"
        /\ pc' = [pc EXCEPT ![c] = "queued"] /\ txn' = txn
        /\ outcomes' = [outcomes EXCEPT ![q].bundles = @ + 1]
        /\ UNCHANGED <<pending, absorbed, accepted_records, faults>>
    BY TypeInvParts, Zenon DEF TasksTyped, NoteOutcome, Source!deliver_outcome
  <1>2. q \in Peers
    BY <1>1, TypeInvParts, Zenon DEF TasksTyped, HoldsReceipt, Ledger!Receipts
  <1>3. outcomes \in [Peers -> [bundles : Nat, rejected : SUBSET Source!Refusals]]
    BY Zenon DEF TypeInv, TypeOK, Source!SourceTypeOK
  <1>4. \A p \in Peers : outcomes'[p].bundles = outcomes[p].bundles + (IF q = p THEN 1 ELSE 0)
    BY <1>1, <1>2, <1>3
  <1>5. Uncounted' = Uncounted
    BY <1>1, Zenon DEF Uncounted
  <1>6. \A p : Unnoted(p)' = Unnoted(p) \ {c}
    BY <1>1, Zenon DEF Unnoted
  <1>7. \A p : c \in Unnoted(p) <=> q = p
    BY <1>1, Zenon DEF Unnoted
  <1> HIDE DEF q
  <1>8. ASSUME NEW p PROVE Cardinality(Unnoted(p)') =
                             Cardinality(Unnoted(p)) - (IF q = p THEN 1 ELSE 0)
    <2>1. IsFiniteSet(Unnoted(p)) /\ Cardinality(Unnoted(p)) \in Nat
      BY CountTypes, ZenonT(40)
    <2>2. Cardinality(Unnoted(p) \ {c}) =
             IF c \in Unnoted(p) THEN Cardinality(Unnoted(p)) - 1 ELSE Cardinality(Unnoted(p))
      BY <2>1, FS_RemoveElement, ZenonT(40)
    <2>3. QED BY <1>6, <1>7, <2>1, <2>2
  <1>9. Counted' = Counted /\ Taken' = Taken
    BY <1>1, <1>5, Zenon DEF Counted, Taken
  <1>10. \A p \in Peers : TakenOf(p)' = TakenOf(p)
    BY <1>1, Zenon DEF TakenOf, At
  <1>11. \A p \in Peers : Noted(p)' = Noted(p)
    <2> TAKE p \in Peers
    <2>1. outcomes[p].bundles \in Nat /\ Cardinality(Unnoted(p)) \in Nat
      BY CountTypes, ZenonT(40)
    <2>2. QED BY <1>4, <1>8, <2>1 DEF Noted
  <1>12. /\ Trails(Counted, Taken, faults)'
         /\ \A p \in Peers : Trails(Noted(p), TakenOf(p), faults)'
    BY <1>1, <1>9, <1>10, <1>11, CountsNamed DEF Trails
  <1>13. QED BY <1>12, ZenonT(40) DEF CountsAgree, Trails, Counted, Uncounted, Taken, Noted, Unnoted, TakenOf, At

\* What the engine takes from the queue stays taken.
LEMMA DrainCounts ==
    ASSUME TypeInv, CountsAgree, Source!drain \/ Source!finish, UNCHANGED <<pc, txn, faults>>
    PROVE  CountsAgree'
  <1>1. /\ absorbed' = absorbed \o pending /\ pending' = <<>>
        /\ UNCHANGED <<accepted_records, outcomes>>
    BY Zenon DEF Source!drain, Source!finish
  <1>2. pending \in Seq(Evidence) /\ absorbed \in Seq(Evidence)
    BY CountTypes, Zenon
  <1>3. Taken' = Taken
    <2>1. Len(absorbed') = Len(absorbed) + Len(pending) /\ Len(pending') = 0
          /\ Len(absorbed) \in Nat /\ Len(pending) \in Nat
      BY <1>1, <1>2
    <2>2. QED BY <2>1 DEF Taken
  <1>4. ASSUME NEW p PROVE TakenOf(p)' = TakenOf(p)
    <2>1. Cardinality(At(absorbed', p)) = Cardinality(At(absorbed, p)) + Cardinality(At(pending, p))
      BY <1>1, <1>2, AtConcat
    <2>2. At(pending', p) = {}
      BY <1>1 DEF At
    <2>3. Cardinality(At(pending', p)) = 0
      BY <2>2, FS_EmptySet, Zenon
    <2>4. Cardinality(At(pending, p)) \in Nat /\ Cardinality(At(absorbed, p)) \in Nat
      BY CountTypes, ZenonT(40)
    <2>5. QED BY <2>1, <2>3, <2>4 DEF TakenOf
  <1>5. Counted' = Counted /\ \A p : Noted(p)' = Noted(p)
    BY <1>1, Zenon DEF Counted, Uncounted, Noted, Unnoted
  <1>6. /\ Trails(Counted, Taken, faults)'
        /\ \A p \in Peers : Trails(Noted(p), TakenOf(p), faults)'
    BY <1>3, <1>4, <1>5, CountsNamed DEF Trails
  <1>7. QED BY <1>6, ZenonT(40) DEF CountsAgree, Trails, Counted, Uncounted, Taken, Noted, Unnoted, TakenOf, At

\* A task that is dropped leaves what it owed uncounted, which is a fault.
LEMMA TaskDiesCounts ==
    ASSUME TypeInv, CountsAgree, NEW c \in Connections, TaskDies(c) PROVE CountsAgree'
  <1>1. /\ pc \in [Connections -> TaskStates] /\ txn \in [Connections -> Ledger!Receipts \cup {NoReceipt}]
        /\ pc' = [pc EXCEPT ![c] = "idle"] /\ txn' = [txn EXCEPT ![c] = NoReceipt]
        /\ UNCHANGED <<pending, absorbed, accepted_records, outcomes>>
        /\ faults' = faults + 1
    BY TypeInvParts, Zenon DEF TasksTyped, TaskDies, Fault, sourceVars
  <1>2. \A d \in Connections : d # c => txn'[d] = txn[d]
    BY <1>1, Zenon
  <1>3. Uncounted' = Uncounted \ {c} /\ \A p : Unnoted(p)' = Unnoted(p) \ {c}
    BY <1>1, <1>2, Zenon DEF Uncounted, Unnoted
  <1>4. Cardinality(Uncounted') <= Cardinality(Uncounted) /\ Cardinality(Uncounted') \in Nat
    <2>1. IsFiniteSet(Uncounted) /\ Cardinality(Uncounted) \in Nat
      BY CountTypes, ZenonT(40)
    <2>2. IsFiniteSet(Uncounted \ {c}) /\ Cardinality(Uncounted \ {c}) =
             IF c \in Uncounted THEN Cardinality(Uncounted) - 1 ELSE Cardinality(Uncounted)
      BY <2>1, FS_RemoveElement, Zenon
    <2>3. Cardinality(Uncounted \ {c}) \in Nat
      BY <2>2, FS_CardinalityType, Zenon
    <2>4. QED BY <1>3, <2>1, <2>2, <2>3
  <1>5. ASSUME NEW p PROVE /\ Cardinality(Unnoted(p)') <= Cardinality(Unnoted(p))
                           /\ Cardinality(Unnoted(p)') \in Nat
    <2>1. IsFiniteSet(Unnoted(p)) /\ Cardinality(Unnoted(p)) \in Nat
      BY CountTypes, ZenonT(40)
    <2>2. IsFiniteSet(Unnoted(p) \ {c}) /\ Cardinality(Unnoted(p) \ {c}) =
             IF c \in Unnoted(p) THEN Cardinality(Unnoted(p)) - 1 ELSE Cardinality(Unnoted(p))
      BY <2>1, FS_RemoveElement, Zenon
    <2>3. Cardinality(Unnoted(p) \ {c}) \in Nat
      BY <2>2, FS_CardinalityType, Zenon
    <2>4. QED BY <1>3, <2>1, <2>2, <2>3
  <1>6. Taken' = Taken /\ \A p : TakenOf(p)' = TakenOf(p)
    BY <1>1, ZenonT(40) DEF Taken, TakenOf, At
  <1>7. Len(pending) \in Nat /\ Len(absorbed) \in Nat
    <2>1. pending \in Seq(Evidence) /\ absorbed \in Seq(Evidence)
      BY CountTypes, ZenonT(40)
    <2>2. QED BY <2>1
  <1>8. Counted' <= Counted /\ Counted' \in Nat /\ Counted \in Nat /\ Taken \in Nat
    <2>1. /\ accepted_records \in Nat /\ Cardinality(Uncounted) \in Nat
          /\ accepted_records' = accepted_records
      BY <1>1, CountTypes, ZenonT(40)
    <2>2. Counted' = accepted_records + Cardinality(Uncounted')
      BY <2>1, ZenonT(40) DEF Counted
    <2>3. QED BY <1>4, <1>7, <2>1, <2>2, Sums, ZenonT(40) DEF Counted, Taken
  <1>9. \A p \in Peers : /\ Noted(p)' <= Noted(p) /\ Noted(p)' \in Nat
                         /\ Noted(p) \in Nat /\ TakenOf(p) \in Nat
    <2> TAKE p \in Peers
    <2>1. /\ Cardinality(Unnoted(p)') <= Cardinality(Unnoted(p)) /\ Cardinality(Unnoted(p)') \in Nat
          /\ Cardinality(Unnoted(p)) \in Nat /\ outcomes[p].bundles \in Nat
          /\ Cardinality(At(pending, p)) \in Nat /\ Cardinality(At(absorbed, p)) \in Nat
      BY <1>5, CountTypes, ZenonT(40)
    <2>2. Noted(p)' = outcomes[p].bundles + Cardinality(Unnoted(p)')
      BY <1>1, ZenonT(40) DEF Noted
    <2>3. QED BY <2>1, <2>2, Sums, ZenonT(40) DEF Noted, TakenOf
  <1>10. faults' # 0
    BY <1>1, CountTypes, SMTT(40)
  <1>11. /\ Trails(Counted, Taken, faults)'
         /\ \A p \in Peers : Trails(Noted(p), TakenOf(p), faults)'
    BY <1>6, <1>8, <1>9, <1>10, CountsNamed, SMTT(40) DEF Trails
  <1>12. QED BY <1>11, ZenonT(40) DEF CountsAgree, Trails, Counted, Uncounted, Taken, Noted, Unnoted, TakenOf, At

\* Every step of the intake keeps the counters in step with the queue.
LEMMA NextCounts ==
    ASSUME TypeInv, CountsAgree, [Next]_vars PROVE CountsAgree'
PROOF
  <1>1. /\ pc \in [Connections -> TaskStates]
        /\ txn \in [Connections -> Ledger!Receipts \cup {NoReceipt}]
        /\ outcomes \in [Peers -> [bundles : Nat, rejected : SUBSET Source!Refusals]]
        /\ faults \in Nat
    BY TypeInvParts, ZenonT(40) DEF TasksTyped, TypeInv, TypeOK, Source!SourceTypeOK
  <1>2. CASE UNCHANGED <<pending, absorbed, accepted_records, outcomes, pc, txn, faults>>
    BY <1>2, CountsFrame, ZenonT(40)
  <1>3. CASE Open \/ Opened \/ Unpaired
    BY <1>2, <1>3, Zenon DEF Open, Opened, Unpaired, sourceVars, taskVars
  <1>4. ASSUME NEW p \in Peers, Pair(p) \/ Paired(p) \/ Unpair(p) PROVE CountsAgree'
    BY <1>2, <1>4, ZenonT(40) DEF Pair, Paired, Unpair, sourceVars, taskVars
  <1>5. ASSUME NEW c \in Connections, NEW b \in Ledger!Bundles, Prepare(c, b) PROVE CountsAgree'
    <2>1. UNCHANGED <<pending, absorbed, accepted_records, outcomes, faults>>
      BY <1>5, Zenon DEF Prepare, sourceVars
    <2>2. \A d \in Connections :
             \/ pc'[d] = pc[d] /\ txn'[d] = txn[d]
             \/ pc[d] \notin {"enqueued", "counted"} /\ pc'[d] \notin {"enqueued", "counted"}
      BY <1>1, <1>5, Zenon DEF Prepare
    <2>3. QED BY <2>1, <2>2, CountsFrame, ZenonT(40)
  <1>6. ASSUME NEW c \in Connections, NEW b \in Ledger!Bundles, Refuse(c, b) PROVE CountsAgree'
    <2>1. /\ UNCHANGED <<pending, absorbed, accepted_records, pc, txn, faults>>
          /\ \/ outcomes' = outcomes
             \/ \E x : outcomes' = [outcomes EXCEPT ![b.peer].rejected = x]
      BY <1>6, ZenonT(40) DEF Refuse, Source!reject, taskVars
    <2>2. ASSUME NEW x, outcomes' = [outcomes EXCEPT ![b.peer].rejected = x], NEW p \in Peers
          PROVE  outcomes'[p].bundles = outcomes[p].bundles
      <3>1. DOMAIN outcomes = Peers /\ DOMAIN outcomes[p] = {"bundles", "rejected"}
        BY <1>1, ZenonT(40)
      <3>2. CASE p = b.peer
        <4>1. outcomes'[p] = [outcomes[p] EXCEPT !.rejected = x]
          BY <2>2, <3>1, <3>2, Zenon
        <4>2. QED BY <3>1, <4>1, Zenon
      <3>3. CASE p # b.peer
        BY <2>2, <3>1, <3>3, Zenon
      <3>4. QED BY <3>2, <3>3, Zenon
    <2>a. \A p \in Peers : outcomes'[p].bundles = outcomes[p].bundles
      BY <2>1, <2>2, ZenonT(40)
    <2>3. QED BY <2>1, <2>a, CountsFrame, Zenon
  <1>7. ASSUME NEW c \in Connections, Deliver(c) \/ CountRecords(c) \/ NoteOutcome(c) \/ TaskDies(c)
        PROVE  CountsAgree'
    BY <1>7, DeliverCounts, CountRecordsCounts, NoteOutcomeCounts, TaskDiesCounts
  <1>8. ASSUME NEW c \in Connections,
               Declined(c) \/ RecordInbound(c) \/ Recorded(c) \/ Commit(c) \/ Acknowledge(c) \/ Abandon(c)
        PROVE  CountsAgree'
    <2>1. UNCHANGED <<pending, absorbed, accepted_records, outcomes, faults>>
      BY <1>8, ZenonT(40) DEF Declined, RecordInbound, Recorded, Commit, Acknowledge, Abandon,
         Source!deliver_declined, Source!sourceVars, sourceVars
    <2>2. \A d \in Connections :
             \/ pc'[d] = pc[d] /\ txn'[d] = txn[d]
             \/ pc[d] \notin {"enqueued", "counted"} /\ pc'[d] \notin {"enqueued", "counted"}
      <3>1. CASE Declined(c) BY <1>1, <3>1, Zenon DEF Declined
      <3>2. CASE RecordInbound(c) BY <1>1, <3>2, Zenon DEF RecordInbound
      <3>3. CASE Recorded(c) BY <1>1, <3>3, Zenon DEF Recorded
      <3>4. CASE Commit(c) BY <1>1, <3>4, Zenon DEF Commit
      <3>5. CASE Acknowledge(c) BY <1>1, <3>5, Zenon DEF Acknowledge
      <3>6. CASE Abandon(c) BY <1>1, <3>6, Zenon DEF Abandon
      <3>7. QED BY <1>8, <3>1, <3>2, <3>3, <3>4, <3>5, <3>6, ZenonT(40)
    <2>3. QED BY <2>1, <2>2, CountsFrame, ZenonT(40)
  <1>9. ASSUME NEW r \in finished, LateCommit(r) \/ LateAbandon(r) PROVE CountsAgree'
    BY <1>2, <1>9, Zenon DEF LateCommit, LateAbandon, sourceVars, taskVars
  <1>10. CASE Drain \/ Conclude
    BY <1>10, DrainCounts, Zenon DEF Drain, Conclude, taskVars
  <1>11. CASE WriteFails
    <2>1. /\ UNCHANGED <<pending, absorbed, accepted_records, outcomes, txn>>
          /\ faults' = faults + 1
          /\ pc' = [c \in Connections |-> IF pc[c] = "recording" THEN "unpersisted" ELSE pc[c]]
      BY <1>11, Zenon DEF WriteFails, Fault, sourceVars
    <2>2. \A d \in Connections :
             \/ pc'[d] = pc[d] /\ txn'[d] = txn[d]
             \/ pc[d] \notin {"enqueued", "counted"} /\ pc'[d] \notin {"enqueued", "counted"}
      BY <2>1, Zenon
    <2>3. QED BY <1>1, <2>1, <2>2, CountsFrame, SMTT(40)
  <1>12. ASSUME NEW renamed \in BOOLEAN, Crash(renamed) PROVE CountsAgree'
    <2>1. /\ pending' = <<>> /\ absorbed' = <<>> /\ accepted_records' = 0
          /\ outcomes' = [p \in Peers |-> [bundles |-> 0, rejected |-> {}]]
          /\ pc' = [c \in Connections |-> "idle"]
      BY <1>12, ZenonT(40) DEF Crash, Source!renew
    <2>2. Uncounted' = {} /\ \A p : Unnoted(p)' = {} /\ At(pending', p) = {} /\ At(absorbed', p) = {}
      <3>1. Uncounted' = {} /\ \A p : Unnoted(p)' = {}
        BY <2>1, Zenon DEF Uncounted, Unnoted
      <3>2. \A p : At(<<>>, p) = {}
        BY DEF At
      <3>3. QED BY <2>1, <3>1, <3>2, ZenonT(40)
    <2>3. Counted' = 0 /\ Taken' = 0
      BY <2>1, <2>2, FS_EmptySet DEF Counted, Taken
    <2>4. \A p \in Peers : Noted(p)' = 0 /\ TakenOf(p)' = 0
      <3>1. \A p \in Peers : outcomes'[p].bundles = 0
        BY <2>1, Zenon
      <3>2. Cardinality({}) = 0
        BY FS_EmptySet, Zenon
      <3>3. QED BY <2>2, <3>1, <3>2 DEF Noted, TakenOf
    <2>5. /\ Trails(Counted, Taken, faults)'
          /\ \A p \in Peers : Trails(Noted(p), TakenOf(p), faults)'
      BY <2>3, <2>4 DEF Trails
    <2>6. QED BY <2>5, ZenonT(40) DEF CountsAgree, Trails, Counted, Uncounted, Taken, Noted, Unnoted, TakenOf, At
  <1>13. CASE UNCHANGED vars
    BY <1>2, <1>13, Zenon DEF vars, sourceVars, taskVars
  <1>14. QED
    BY <1>3, <1>4, <1>5, <1>6, <1>7, <1>8, <1>9, <1>10, <1>11, <1>12, <1>13, SMTT(30) DEF Next, Task

------------------------------------------------------------------------------
(* The theorems.                                                            *)

IntakeInv == TypeInv /\ ReservationInv /\ CursorInv /\ QueueInv

\* The four layers hold throughout.
THEOREM IntakeInvariant == Spec => []IntakeInv
PROOF
  <1>1. Init => IntakeInv
    <2>1. Init => QueueInv
      BY Zenon DEF Init, Source!SourceInit, QueueInv, NothingStranded, Delivered, PastDeliver
    <2>2. QED BY <2>1, InitTyped, InitReserved, InitCursors, Zenon DEF IntakeInv
  <1>2. IntakeInv /\ [Next]_vars => IntakeInv'
    BY NextTyped, NextReserved, NextCursors, NextQueue, Zenon DEF IntakeInv
  <1>3. QED BY <1>1, <1>2, PTL DEF Spec

\* Ledger, store, queue and tasks keep their types under every interleaving,
\* fault and restart.
THEOREM IntakeTypeCorrect == Spec => []TypeOK
  <1>1. IntakeInv => TypeOK BY Zenon DEF IntakeInv, TypeInv
  <1>2. QED BY <1>1, IntakeInvariant, PTL

\* ledger.rs, `prepare`, `commit` and `abandon`: the transaction of one peer is
\* serial for any number of connections and late receipts.
THEOREM TransactionsSerial == Spec => []SerialPerPeer
  <1>1. IntakeInv => SerialPerPeer BY ReservationsSerial, Zenon DEF IntakeInv
  <1>2. QED BY <1>1, IntakeInvariant, PTL

\* ledger.rs and store.rs: what was acknowledged is on disk, for good.
THEOREM AcknowledgedDurable == Spec => []AckedIsDurable
  <1>1. IntakeInv => AckedIsDurable BY Zenon DEF IntakeInv, CursorInv
  <1>2. QED BY <1>1, IntakeInvariant, PTL

\* ledger.rs, `commit` after `record_inbound`: the replay cursor in memory never
\* runs ahead of the one on disk.
THEOREM LedgerBehindDisk == Spec => []LedgerNeverAheadOfDisk
  <1>1. IntakeInv => LedgerNeverAheadOfDisk BY Zenon DEF IntakeInv, CursorInv
  <1>2. QED BY <1>1, IntakeInvariant, PTL

\* A cursor on disk stands for evidence that was handed to an engine.
THEOREM CursorMeansQueued == Spec => []ConsumedWasQueued
  <1>1. IntakeInv => ConsumedWasQueued BY Zenon DEF IntakeInv, CursorInv
  <1>2. QED BY <1>1, IntakeInvariant, PTL

\* source.rs, `deliver` and `finish`: no bundle stays behind in the queue of a
\* run that has concluded.
THEOREM QueueDrained == Spec => []NothingStranded
  <1>1. IntakeInv => NothingStranded BY Zenon DEF IntakeInv, QueueInv
  <1>2. QED BY <1>1, IntakeInvariant, PTL

\* source.rs, `deliver`: the record counter and the outcomes of the peers trail the
\* queue by the deliveries between their steps, and by no more unless a task was
\* dropped there: no declined evidence is ever counted.
THEOREM CountersAgree == Spec => []CountsAgree
PROOF
  <1>1. Init => CountsAgree
    <2>1. SUFFICES ASSUME Init PROVE CountsAgree
      BY Zenon
    <2>2. /\ pending = <<>> /\ absorbed = <<>> /\ accepted_records = 0
          /\ outcomes = [p \in Peers |-> [bundles |-> 0, rejected |-> {}]]
          /\ pc = [c \in Connections |-> "idle"]
      BY <2>1, ZenonT(40) DEF Init, Source!SourceInit
    <2>3. Uncounted = {} /\ \A p : Unnoted(p) = {} /\ At(pending, p) = {} /\ At(absorbed, p) = {}
      BY <2>2 DEF Uncounted, Unnoted, At
    <2>4. Counted = 0 /\ Taken = 0
      BY <2>2, <2>3, FS_EmptySet DEF Counted, Taken
    <2>5. \A p \in Peers : Noted(p) = 0 /\ TakenOf(p) = 0
      <3>1. \A p \in Peers : outcomes[p].bundles = 0
        BY <2>2, Zenon
      <3>2. Cardinality({}) = 0
        BY FS_EmptySet, Zenon
      <3>3. 0 + 0 = 0
        OBVIOUS
      <3>4. QED BY <2>3, <3>1, <3>2, <3>3, Zenon DEF Noted, TakenOf
    <2>6. QED BY <2>4, <2>5, CountsNamed DEF Trails
  <1>2. IntakeInv /\ CountsAgree /\ [Next]_vars => CountsAgree'
    BY NextCounts, Zenon DEF IntakeInv
  <1>3. QED BY <1>1, <1>2, IntakeInvariant, PTL DEF Spec

\* A step that appends to the queue is the delivery of a task that is inside
\* its transaction and not yet durable.
LEMMA AppendIsDelivery ==
    ASSUME TypeInv, Next, NEW e \in Evidence, pending' = Append(pending, e)
    PROVE  \E c \in Connections : pc[c] = "prepared" /\ e = Item(txn[c])
PROOF
  <1>1. pending \in Seq(Evidence) BY TypeInvParts, Zenon DEF Source!SourceTypeOK
  <1>2. /\ Len(pending') = Len(pending) + 1 /\ Len(pending) \in Nat
        /\ pending'[Len(pending) + 1] = e
    BY <1>1
  <1>3. pending' # pending /\ pending' # <<>>
    BY <1>2
  <1>4. ASSUME NEW c \in Connections, Deliver(c)
        PROVE  pc[c] = "prepared" /\ e = Item(txn[c])
    <2>1. /\ pc[c] = "prepared" /\ pending' = Append(pending, Item(txn[c]))
      BY <1>4, Zenon DEF Deliver, Source!deliver_enqueue
    <2>2. pending'[Len(pending) + 1] = Item(txn[c]) BY <1>1, <2>1
    <2>3. QED BY <1>2, <2>1, <2>2, Zenon
  <1>5. CASE \E c \in Connections : Deliver(c) BY <1>4, <1>5, Zenon
  <1>6. CASE ~\E c \in Connections : Deliver(c)
    <2>1. pending' = pending \/ pending' = <<>>
      BY <1>6, Zenon DEF Next, Task, Open, Opened, Pair, Paired, Unpair, Unpaired, Prepare, Refuse,
         Declined, CountRecords, NoteOutcome, RecordInbound, Recorded, Commit, Acknowledge,
         Abandon, LateCommit, LateAbandon, Drain, Conclude, WriteFails, TaskDies, Crash,
         Source!reject, Source!deliver_declined, Source!deliver_count, Source!deliver_outcome,
         Source!drain, Source!finish, Source!renew, Source!sourceVars, sourceVars
    <2>2. QED BY <1>3, <2>1, SMTT(30)
  <1>7. QED BY <1>5, <1>6, Zenon

\* Evidence enters the queue only above the durable cursor of its peer: no
\* replay, second connection or restart applies it again.
THEOREM NoReapplication == Spec => NeverReappliedOnceDurable
PROOF
  <1>1. IntakeInv /\ [Next]_vars =>
          [\A e \in Evidence :
             pending' = Append(pending, e) => e[2] > disk.inbound_cursor[e[1]]]_vars
    <2>1. SUFFICES ASSUME IntakeInv, Next, NEW e \in Evidence, pending' = Append(pending, e)
                   PROVE  e[2] > disk.inbound_cursor[e[1]]
      BY Zenon
    <2>2. PICK c \in Connections : pc[c] = "prepared" /\ e = Item(txn[c])
      BY <2>1, AppendIsDelivery, Zenon DEF IntakeInv
    <2>3. /\ txn[c].peer \in Peers /\ txn[c].sequence \in Nat
          /\ disk.inbound_cursor[txn[c].peer] \in Int
          /\ disk.inbound_cursor[txn[c].peer] < txn[c].sequence
      BY <2>1, <2>2, CursorTypes, Zenon DEF IntakeInv, CursorInv, TaskCursors, Undurable, Reserved
    <2>4. e[1] = txn[c].peer /\ e[2] = txn[c].sequence BY <2>2, Zenon DEF Item
    <2>5. QED BY <2>3, <2>4, Zenon
  <1>2. QED BY <1>1, IntakeInvariant, PTL DEF Spec, NeverReappliedOnceDurable

\* What is acknowledged is in the engine of the run that acknowledges it.
THEOREM AcknowledgedQueued == Spec => AckMeansQueued
PROOF
  <1>1. IntakeInv /\ [Next]_vars =>
          [\A e \in acked' \ acked :
             \/ \E i \in 1..Len(pending) : pending[i] = e
             \/ \E i \in 1..Len(absorbed) : absorbed[i] = e]_vars
    <2>1. SUFFICES ASSUME IntakeInv, Next, NEW e \in acked' \ acked
                   PROVE  InEngine(e)
      BY Zenon DEF InEngine
    <2>2. PICK c \in Connections : Acknowledge(c)
      BY <2>1, ZenonT(40) DEF Next, Task, Open, Opened, Pair, Paired, Unpair, Unpaired, Prepare, Refuse,
         Deliver, Declined, CountRecords, NoteOutcome, RecordInbound, Recorded, Commit,
         Abandon, LateCommit, LateAbandon, Drain, Conclude, WriteFails, TaskDies, Crash,
         taskVars
    <2>3. pc[c] = "committed" /\ e = Item(txn[c])
      BY <2>1, <2>2, Zenon DEF Acknowledge
    <2>4. QED BY <2>1, <2>3, Zenon DEF IntakeInv, QueueInv, Delivered, PastDeliver
  <1>2. QED BY <1>1, IntakeInvariant, PTL DEF Spec, AckMeansQueued

\* The store inside the intake behaves as the store on its own: whatever is
\* proved of FederationStore holds here too.
THEOREM StoreImplemented == Spec => StoreSpec
PROOF
  <1>1. Init => StoreInit BY Zenon DEF Init
  <1>2. IntakeInv /\ [Next]_vars => [StoreNext]_storeVars
    BY StepOfStore, Zenon DEF IntakeInv
  <1>3. QED BY <1>1, <1>2, IntakeInvariant, PTL DEF Spec, StoreSpec

\* ledger.rs and source.rs, the order prepare, deliver, record, commit: from
\* the peer that was told "accepted" back to the engine, nothing is missing.
THEOREM NothingIsLost == Spec => []NothingLost
PROOF
  <1>1. AckedIsDurable /\ LedgerNeverAheadOfDisk /\ ConsumedWasQueued /\ NothingStranded
          => NothingLost
    BY Zenon DEF NothingLost
  <1>2. QED BY <1>1, AcknowledgedDurable, LedgerBehindDisk, CursorMeansQueued, QueueDrained, PTL

\* `prepare`, `deliver` and `commit`: evidence enters the queue only above the
\* durable cursor, and is acknowledged only where it was queued.
THEOREM AppliedAtMostOnce == Spec => AppliedOnce
  BY NoReapplication, AcknowledgedQueued, PTL DEF AppliedOnce
==============================================================================
