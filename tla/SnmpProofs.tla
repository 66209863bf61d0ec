----------------------------- MODULE SnmpProofs ------------------------------
(***************************************************************************)
(* Proofs about SNMP, the richest source of a run, for every MIB, every    *)
(* budget and any number of lies.                                          *)
(*                                                                         *)
(* The bounds of a walk (SnmpHarvest) need that the walk's position is the *)
(* OID of the last row it took: an answer is compared with the position,   *)
(* never with the rows.                                                    *)
(*                                                                         *)
(* What a harvest says (SnmpEvidence) needs that, as long as the agent did *)
(* not lie, a walk has taken a run of its table from the first instance    *)
(* on.  A walk is complete only at the end of that run, and a row of the   *)
(* run whose last column was reached reads as it does in the whole table.  *)
(***************************************************************************)
EXTENDS SnmpEvidence, WellFoundedInduction, TLAPS

------------------------------------------------------------------------------
(* The walk.                                                                *)

\* A sequence, whatever its elements are.
IsSeq(s) == s \in Seq({s[i] : i \in DOMAIN s})

\* A sequence and the same with one element more.
Grown(rows, row, longer) ==
    /\ IsSeq(longer)
    /\ DOMAIN longer = 1..(Len(rows) + 1) /\ Len(longer) = Len(rows) + 1
    /\ \A i \in 1..Len(rows) : longer[i] = rows[i]
    /\ longer[Len(rows) + 1] = row
    /\ DOMAIN rows = 1..Len(rows) /\ Len(rows) \in Nat

\* What the walk is made of: its clock has not passed the budget, its rows are a sequence.
WalkShape(w) ==
    /\ w \in [root : {w.root}, current : {w.current}, rows : {w.rows},
              steps : 0..MAX_STEPS, spent : 0..TOTAL_BUDGET]
    /\ IsSeq(w.rows)

\* The rows lie in the subtree and ascend, and the position is where they end.
RowsInOrder(w) ==
    /\ \A i \in DOMAIN w.rows :
         /\ starts_with(w.rows[i][1], w.root)
         /\ i > 1 => OidLess(w.rows[i - 1][1], w.rows[i][1])
    /\ Len(w.rows) > 0 => w.current = w.rows[Len(w.rows)][1]

WalkInv == WalkShape(walk) /\ RowsInOrder(walk)

-----------------------------------------------------------------------------
\* A walk that begins has taken nothing and spent nothing.
LEMMA WalkBegins ==
    ASSUME NEW root
    PROVE  WalkShape(NewWalk(root)) /\ RowsInOrder(NewWalk(root))
  <1> DEFINE w == NewWalk(root)
  <1>1. w.rows = <<>> /\ w.steps = 0 /\ w.spent = 0 /\ w.root = root /\ w.current = root
    BY Zenon DEF NewWalk
  <1>2. IsSeq(<<>>) /\ DOMAIN <<>> = {} /\ Len(<<>>) = 0
    BY DEF IsSeq
  <1>3. WalkShape(w)
    <2>1. w \in [root : {w.root}, current : {w.current}, rows : {w.rows},
                 steps : 0..MAX_STEPS, spent : 0..TOTAL_BUDGET]
      BY HarvestAssumption DEF NewWalk
    <2> HIDE DEF w
    <2> QED BY <1>1, <1>2, <2>1, Zenon DEF WalkShape
  <1> HIDE DEF w
  <1>4. RowsInOrder(w)
    BY <1>1, <1>2 DEF RowsInOrder
  <1> QED BY <1>3, <1>4, Zenon DEF w

\* A sequence with one element more is a sequence over its own elements, and its elements are
\* the old ones and the new one.
LEMMA RowsGrow ==
    ASSUME NEW rows, IsSeq(rows), NEW row, NEW longer, longer = Append(rows, row)
    PROVE  Grown(rows, row, longer)
  <1> DEFINE S == {rows[i] : i \in DOMAIN rows}
             T == S \cup {row}
             L == {longer[i] : i \in DOMAIN longer}
  <1>1. rows \in Seq(S)
    BY Zenon DEF IsSeq
  <1>2. rows \in Seq(T) /\ row \in T
    <2>1. S \subseteq T /\ row \in T
      BY Zenon
    <2> HIDE DEF S, T
    <2> QED BY <1>1, <2>1
  <1> HIDE DEF S, T
  <1>3. /\ longer \in Seq(T) /\ Len(longer) = Len(rows) + 1 /\ DOMAIN longer = 1..(Len(rows) + 1)
        /\ \A i \in 1..Len(rows) : longer[i] = rows[i]
        /\ longer[Len(rows) + 1] = row
        /\ DOMAIN rows = 1..Len(rows) /\ Len(rows) \in Nat
    BY <1>2
  <1>4. \A i \in DOMAIN longer : longer[i] \in L
    BY Zenon
  <1> HIDE DEF L
  <1>5. longer \in Seq(L)
    BY <1>3, <1>4
  <1> QED BY <1>3, <1>5, Zenon DEF IsSeq, L, Grown

\* An answer the walk goes on from lies in the subtree, after the position.
LEMMA AdvanceIsForward ==
    ASSUME NEW w, NEW message, WalkEnd(w, message) = "advance"
    PROVE  /\ starts_with(message.varbinds[1][1], w.root)
           /\ OidLess(w.current, message.varbinds[1][1])
  BY Zenon DEF WalkEnd

\* The update an advance makes, field by field.
LEMMA RecordUpdate ==
    ASSUME NEW R, NEW C, NEW S, NEW T, NEW P,
           NEW w \in [root : R, current : C, rows : S, steps : T, spent : P],
           NEW c \in C, NEW r \in S, NEW t \in T, NEW p \in P,
           NEW n, n = [w EXCEPT !.current = c, !.rows = r, !.steps = t, !.spent = p]
    PROVE  /\ n \in [root : R, current : C, rows : S, steps : T, spent : P]
           /\ n.root = w.root /\ n.current = c /\ n.rows = r /\ n.steps = t /\ n.spent = p
  BY Zenon

\* A request waits no longer than what is left, so a walk that advances keeps to its bounds.
LEMMA WalkAdvances ==
    ASSUME NEW w, WalkShape(w), RowsInOrder(w), w.steps < MAX_STEPS, w.spent < TOTAL_BUDGET,
           NEW message, WalkEnd(w, message) = "advance",
           NEW elapsed \in 0..RequestTimeout(w)
    PROVE  WalkShape(Advanced(w, message, elapsed)) /\ RowsInOrder(Advanced(w, message, elapsed))
  <1> DEFINE row == message.varbinds[1]
             n == Advanced(w, message, elapsed)
  <1>1. n = [w EXCEPT !.current = row[1], !.rows = Append(w.rows, row),
                      !.steps = w.steps + 1, !.spent = w.spent + elapsed]
    BY Zenon DEF Advanced
  <1>2. starts_with(row[1], w.root) /\ OidLess(w.current, row[1])
    BY AdvanceIsForward, Zenon
  <1> HIDE DEF n, row
  <1>3. w.steps + 1 \in 0..MAX_STEPS /\ w.spent + elapsed \in 0..TOTAL_BUDGET
    <2>1. w.steps \in 0..MAX_STEPS /\ w.spent \in 0..TOTAL_BUDGET
      BY Zenon DEF WalkShape
    <2>2. elapsed \in Nat /\ elapsed <= TOTAL_BUDGET - w.spent
      BY <2>1, HarvestAssumption DEF RequestTimeout
    <2> QED BY <2>1, <2>2, HarvestAssumption
  <1>4. /\ n.root = w.root /\ n.current = row[1] /\ n.rows = Append(w.rows, row)
        /\ n \in [root : {n.root}, current : {n.current}, rows : {n.rows},
                  steps : 0..MAX_STEPS, spent : 0..TOTAL_BUDGET]
    <2> DEFINE C == {w.current, row[1]}
               S == {w.rows, Append(w.rows, row)}
    <2>1. w \in [root : {w.root}, current : C, rows : S,
                 steps : 0..MAX_STEPS, spent : 0..TOTAL_BUDGET]
      BY Zenon DEF WalkShape
    <2>2. row[1] \in C /\ Append(w.rows, row) \in S
      BY SMTT(30)
    <2> HIDE DEF C, S
    <2>3. /\ n \in [root : {w.root}, current : C, rows : S,
                    steps : 0..MAX_STEPS, spent : 0..TOTAL_BUDGET]
          /\ n.root = w.root /\ n.current = row[1] /\ n.rows = Append(w.rows, row)
      BY <1>1, <1>3, <2>1, <2>2, RecordUpdate, ZenonT(40)
    <2> QED BY <2>3, Zenon
  <1>5. IsSeq(w.rows)
    BY Zenon DEF WalkShape
  <1>6. /\ IsSeq(n.rows)
        /\ DOMAIN n.rows = 1..(Len(w.rows) + 1) /\ Len(n.rows) = Len(w.rows) + 1
        /\ \A i \in 1..Len(w.rows) : n.rows[i] = w.rows[i]
        /\ n.rows[Len(w.rows) + 1] = row
        /\ DOMAIN w.rows = 1..Len(w.rows) /\ Len(w.rows) \in Nat
    <2>1. Grown(w.rows, row, n.rows)
      BY <1>4, <1>5, RowsGrow, Zenon
    <2> QED BY <2>1, Zenon DEF Grown
  <1>7. WalkShape(n)
    BY <1>4, <1>6, Zenon DEF WalkShape
  <1>8. ASSUME NEW i \in DOMAIN n.rows
        PROVE  /\ starts_with(n.rows[i][1], n.root)
               /\ i > 1 => OidLess(n.rows[i - 1][1], n.rows[i][1])
    <2>1. CASE i \in 1..Len(w.rows)
      <3>1. n.rows[i] = w.rows[i] /\ (i > 1 => n.rows[i - 1] = w.rows[i - 1])
        <4>1. i > 1 => i - 1 \in 1..Len(w.rows)
          BY <1>6, <2>1
        <4> QED BY <1>6, <2>1, <4>1, SMTT(60)
      <3> QED BY <1>4, <1>6, <2>1, <3>1, Zenon DEF RowsInOrder
    <2>2. CASE i = Len(w.rows) + 1
      <3>1. n.rows[i] = row
        BY <1>6, <2>2, Zenon
      <3>2. ASSUME i > 1 PROVE n.rows[i - 1][1] = w.current
        <4>1. i - 1 = Len(w.rows) /\ Len(w.rows) > 0 /\ n.rows[i - 1] = w.rows[Len(w.rows)]
          BY <1>6, <2>2, <3>2, SMTT(30)
        <4> QED BY <4>1, Zenon DEF RowsInOrder
      <3> QED BY <1>2, <1>4, <3>1, <3>2, Zenon
    <2> QED BY <1>6, <1>8, <2>1, <2>2
  <1>9. RowsInOrder(n)
    BY <1>4, <1>6, <1>8, SMTT(60) DEF RowsInOrder
  <1> QED BY <1>7, <1>9, Zenon DEF n

-----------------------------------------------------------------------------
\* Every step of the harvest keeps the walk's invariant: it begins a walk, advances one within
\* its bounds, or leaves it alone (harvest_snmp_target, snmp_walk_target).
LEMMA WalkInvKept == WalkInv /\ [Next]_vars => WalkInv'
  <1> SUFFICES ASSUME WalkInv, [Next]_vars PROVE WalkShape(walk') /\ RowsInOrder(walk')
    BY Zenon DEF WalkInv
  <1>0. ASSUME walk' = walk PROVE WalkShape(walk') /\ RowsInOrder(walk')
    BY <1>0, Zenon DEF WalkInv
  <1>1. ASSUME NEW end, NEW rows, FinishTable(end, rows)
        PROVE  WalkShape(walk') /\ RowsInOrder(walk')
    <2>1. walk' = NewWalk(<<>>) \/ \E t : walk' = NewWalk(<<t>>)
      BY <1>1, Zenon DEF FinishTable
    <2> QED BY <2>1, WalkBegins, Zenon
  <1>2. ASSUME NEW lie \in BOOLEAN, GetScalar(lie)
        PROVE  WalkShape(walk') /\ RowsInOrder(walk')
    <2>1. stage \in {"sysDescr", "sysName", "ipForwarding"}
      BY <1>2, Zenon DEF GetScalar, ScalarOid
    <2>2. walk' = walk \/ walk' = NewWalk(<<Tables[1]>>)
      BY <1>2, <2>1, ZenonT(40) DEF GetScalar
    <2> QED BY <1>0, <2>2, WalkBegins, Zenon
  <1>3. ASSUME NEW lie \in BOOLEAN, WalkStep(lie)
        PROVE  WalkShape(walk') /\ RowsInOrder(walk')
    <2>1. PICK message :
             IF WalkEnd(walk, message) = "advance"
             THEN \E elapsed \in 0..RequestTimeout(walk) : walk' = Advanced(walk, message, elapsed)
             ELSE FinishTable(WalkEnd(walk, message), walk.rows)
      BY <1>3, Zenon DEF WalkStep
    <2>2. CASE WalkEnd(walk, message) = "advance"
      <3>1. PICK elapsed \in 0..RequestTimeout(walk) : walk' = Advanced(walk, message, elapsed)
        BY <2>1, <2>2, Zenon
      <3>2. walk.steps < MAX_STEPS /\ walk.spent < TOTAL_BUDGET
        BY <1>3, Zenon DEF WalkStep
      <3> QED BY <2>2, <3>1, <3>2, WalkAdvances, Zenon DEF WalkInv
    <2>3. CASE WalkEnd(walk, message) # "advance"
      BY <1>1, <2>1, <2>3, Zenon
    <2> QED BY <2>2, <2>3, Zenon
  <1>4. CASE Bounded
    BY <1>1, <1>4, Zenon DEF Bounded
  <1>5. CASE Done \/ UNCHANGED vars
    BY <1>0, <1>5, Zenon DEF Done, vars
  <1> QED BY <1>2, <1>3, <1>4, <1>5, Zenon DEF Next

\* Whatever the agent serves, loses or makes up, a walk stays in its subtree in strictly
\* ascending order and inside both of its bounds (snmp_walk_target).
THEOREM WalkStaysBounded == Spec => []WalkBounded
  <1>1. Init => WalkInv
    BY WalkBegins, Zenon DEF Init, WalkInv
  <1>2. WalkInv => WalkBounded
    BY HarvestAssumption DEF WalkInv, WalkShape, RowsInOrder, WalkBounded
  <1> QED BY <1>1, <1>2, WalkInvKept, PTL DEF Spec

------------------------------------------------------------------------------
(* The harvest: what a run of a table says, and what the whole table says.  *)

\* The tables' numbers.
TableIds == {20, 21, 22, 24}

\* Rows that are a run of a table of m from its first instance on.
RunFrom(m, t, rows, s) ==
    /\ s \in Nat /\ s + Len(rows) <= Len(m)
    /\ \A i \in 1..Len(rows) : rows[i] = m[s + i] /\ m[s + i][1][1] = t
    /\ \A j \in DOMAIN m : m[j][1][1] >= t <=> j > s

\* What lies after a position is what follows place p.
After(m, oid, p) == \A j \in DOMAIN m : OidLess(oid, m[j][1]) <=> j > p

\* A walk is at the end of such a run, and what follows is what lies after its position.
AtRun(w, m, t) ==
    \E s \in Nat : RunFrom(m, t, w.rows, s) /\ After(m, w.current, s + Len(w.rows))

\* What a request can bring from an agent that does not lie.
Brings(m, pdu, oid) ==
    {snmp_request(pdu, oid, reply) : reply \in {Served(m, pdu, oid)} \cup Unserved(oid)}

\* One reading agrees with another as far as it goes; of an inetCidr row that is when the row is
\* in force.
Agrees(found, whole) ==
    /\ found.sys_name \in {None, whole.sys_name}
    /\ found.forwarding = TRUE => whole.forwarding = TRUE
    /\ found.arp_cache \subseteq whole.arp_cache
    /\ found.routes \subseteq whole.routes
    /\ found.local_ips \subseteq whole.local_ips
    /\ \A route \in found.inet_routes : active(route) => route \in whole.inet_routes

\* A table recorded as complete has all its rows.
StatusHolds(status, m) ==
    status.complete => HasInstances(m, <<status.table>>, status.rows)

InfoFields == {"sys_name", "forwarding", "table_status", "arp_cache", "routes", "local_ips", "inet_routes"}

\* What was read with no lie told, and the walk that reads on.
TruthInv ==
    /\ stage = "walk" => AtRun(walk, mib, walk.root[1])
    /\ Agrees(info, Whole(mib))
    /\ \A i \in DOMAIN info.table_status : StatusHolds(info.table_status[i], mib)

HarvestInv ==
    /\ mib \in Mibs /\ lies \in Nat
    /\ DOMAIN info = InfoFields /\ IsSeq(info.table_status)
    /\ stage \in DOMAIN ScalarOid => Len(info.table_status) = 0
    /\ stage = "walk" => /\ Len(info.table_status) \in 0..3
                         /\ walk.root = <<Tables[Len(info.table_status) + 1]>>
    /\ lies = 0 => TruthInv

------------------------------------------------------------------------------
(* The order of OIDs, and what an agent serves in that order.               *)

\* Of two OIDs at most one is less than the other.
LEMMA OidAsymmetric ==
    ASSUME NEW a \in Seq(Nat), NEW b \in Seq(Nat), OidLess(a, b)
    PROVE  ~OidLess(b, a)
  <1> SUFFICES ASSUME OidLess(b, a) PROVE FALSE
    BY Zenon
  <1>1. PICK i \in 1..Len(b) : /\ \A j \in 1..(i - 1) : j <= Len(a) /\ a[j] = b[j]
                               /\ i > Len(a) \/ a[i] < b[i]
    BY Zenon DEF OidLess
  <1>2. PICK k \in 1..Len(a) : /\ \A j \in 1..(k - 1) : j <= Len(b) /\ b[j] = a[j]
                               /\ k > Len(b) \/ b[k] < a[k]
    BY Zenon DEF OidLess
  <1>3. i \in Nat /\ k \in Nat /\ Len(a) \in Nat /\ Len(b) \in Nat
    OBVIOUS
  <1>4. CASE i < k
    <2>1. i \in 1..(k - 1) /\ i <= Len(a)
      BY <1>3, <1>4
    <2>2. a[i] < b[i] /\ a[i] = b[i] /\ a[i] \in Nat
      BY <1>1, <1>2, <1>3, <2>1, SMTT(30)
    <2> QED BY <2>2
  <1>5. CASE k < i
    <2>1. k \in 1..(i - 1) /\ k <= Len(b)
      BY <1>3, <1>5
    <2>2. b[k] < a[k] /\ a[k] = b[k] /\ a[k] \in Nat
      BY <1>1, <1>2, <1>3, <2>1, SMTT(30)
    <2> QED BY <2>2
  <1>6. CASE i = k
    <2>1. a[i] < b[i] /\ b[i] < a[i] /\ a[i] \in Nat /\ b[i] \in Nat
      BY <1>1, <1>2, <1>3, <1>6
    <2> QED BY <2>1
  <1> QED BY <1>3, <1>4, <1>5, <1>6

\* OIDs ascend in their first number, and under one of these in their second.
LEMMA OidHeads ==
    ASSUME NEW a \in Seq(Nat), NEW b \in Seq(Nat), a # <<>>, b # <<>>, OidLess(a, b)
    PROVE  /\ a[1] <= b[1]
           /\ a[1] = b[1] /\ Len(a) > 1 /\ Len(b) > 1 => a[2] <= b[2]
  <1>1. PICK i \in 1..Len(b) : /\ \A j \in 1..(i - 1) : j <= Len(a) /\ a[j] = b[j]
                               /\ i > Len(a) \/ a[i] < b[i]
    BY Zenon DEF OidLess
  <1>2. Len(a) \in Nat /\ Len(b) \in Nat /\ Len(a) >= 1 /\ Len(b) >= 1 /\ i \in Nat
    OBVIOUS
  <1>3. a[1] \in Nat /\ b[1] \in Nat /\ (Len(a) > 1 => a[2] \in Nat) /\ (Len(b) > 1 => b[2] \in Nat)
    BY <1>2, SMTT(30)
  <1>4. CASE i = 1
    BY <1>1, <1>2, <1>3, <1>4
  <1>5. CASE i = 2
    <2>1. a[1] = b[1]
      BY <1>1, <1>5
    <2> QED BY <1>1, <1>2, <1>3, <1>5, <2>1, SMTT(30)
  <1>6. CASE i > 2
    <2>1. 1 \in 1..(i - 1) /\ 2 \in 1..(i - 1)
      BY <1>2, <1>6
    <2>2. a[1] = b[1] /\ a[2] = b[2]
      BY <1>1, <2>1, Zenon
    <2> QED BY <1>2, <1>3, <2>1, <1>1, <2>2, SMTT(30)
  <1> QED BY <1>2, <1>4, <1>5, <1>6

\* A table begins where the first number of an OID reaches the table's.
LEMMA AfterTable ==
    ASSUME NEW t \in Nat, NEW x \in Seq(Nat), x # <<>>, x # <<t>>
    PROVE  OidLess(<<t>>, x) <=> x[1] >= t
  <1> DEFINE r == <<t>>
  <1>1. r \in Seq(Nat) /\ r # <<>> /\ r[1] = t /\ Len(r) = 1
    OBVIOUS
  <1>2. Len(x) \in Nat /\ Len(x) >= 1 /\ x[1] \in Nat
    OBVIOUS
  <1>3. x[1] = t => Len(x) >= 2
    <2>1. ASSUME x[1] = t, Len(x) = 1 PROVE FALSE
      <3>1. x = <<x[1]>>
        BY <2>1
      <3>2. x = <<t>>
        BY <2>1, <3>1, SMT
      <3> QED BY <3>2, Zenon
    <2>2. x[1] = t => Len(x) # 1
      BY <2>1, Zenon
    <2>3. \A n \in Nat : n >= 1 /\ n # 1 => n >= 2
      OBVIOUS
    <2> QED BY <1>2, <2>2, <2>3, Zenon
  <1> HIDE DEF r
  <1>4. ASSUME OidLess(r, x) PROVE x[1] >= t
    BY <1>1, <1>2, <1>4, OidHeads, Zenon
  <1>5. ASSUME x[1] > t PROVE OidLess(r, x)
    <2>1. 1 \in 1..Len(x) /\ r[1] < x[1] /\ \A j \in 1..(1 - 1) : j <= Len(r) /\ r[j] = x[j]
      BY <1>1, <1>2, <1>5
    <2> QED BY <2>1, Zenon DEF OidLess
  <1>6. ASSUME x[1] = t PROVE OidLess(r, x)
    <2>1. 2 \in 1..Len(x) /\ 2 > Len(r) /\ \A j \in 1..(2 - 1) : j <= Len(r) /\ r[j] = x[j]
      BY <1>1, <1>2, <1>3, <1>6
    <2> QED BY <2>1, Zenon DEF OidLess
  <1> QED BY <1>2, <1>4, <1>5, <1>6 DEF r

\* An OID lies in a table's subtree when its first number is the table's.
LEMMA InTable ==
    ASSUME NEW t, NEW x \in Seq(Nat), x # <<>>
    PROVE  starts_with(x, <<t>>) <=> x[1] = t
  <1>1. Len(x) >= 1 /\ Len(<<t>>) = 1
    OBVIOUS
  <1>2. SubSeq(x, 1, 1) = <<x[1]>>
    <2> DEFINE y == SubSeq(x, 1, 1)
    <2>1. y \in Seq(Nat) /\ Len(y) = 1 /\ y[1] = x[1]
      BY <1>1
    <2> HIDE DEF y
    <2>2. y = <<y[1]>>
      BY <2>1
    <2> QED BY <2>1, <2>2, Zenon DEF y
  <1>3. <<x[1]>> = <<t>> <=> x[1] = t
    BY Zenon
  <1> QED BY <1>1, <1>2, <1>3, Zenon DEF starts_with

\* The instances of a MIB, by name.
LEMMA MibEntries ==
    ASSUME NEW m, IsMib(m), NEW i \in DOMAIN m
    PROVE  /\ m[i][1] \in Seq(Nat) /\ m[i][1] # <<>> /\ m[i][1][1] \in Nat
           /\ m[i][1] \notin {<<t>> : t \in TableIds}
           /\ m[i][2].kind \notin {"absent", "endOfMibView"}
           /\ i \in 1..Len(m) /\ Len(m) \in Nat
  <1>1. m[i][1] \in Seq(Nat) /\ m[i][1] # <<>>
    BY Zenon DEF IsMib
  <1>2. m[i][1][1] \in Nat
    BY <1>1
  <1>3. m[i][1] \notin {<<20>>, <<21>>, <<22>>, <<24>>}
    BY Zenon DEF IsMib
  <1>4. m[i][1] \notin {<<t>> : t \in TableIds}
    BY <1>3, Zenon DEF TableIds
  <1> QED BY <1>1, <1>2, <1>4, Zenon DEF IsMib

\* After an instance come those at later places, and no other.
LEMMA MibOrder ==
    ASSUME NEW m, IsMib(m), NEW i \in DOMAIN m, NEW j \in DOMAIN m
    PROVE  OidLess(m[i][1], m[j][1]) <=> j > i
  <1>1. m[i][1] \in Seq(Nat) /\ m[j][1] \in Seq(Nat) /\ i \in Nat /\ j \in Nat
    BY MibEntries
  <1>2. i < j => OidLess(m[i][1], m[j][1])
    BY Zenon DEF IsMib
  <1>3. j < i => OidLess(m[j][1], m[i][1])
    BY Zenon DEF IsMib
  <1>4. j < i => ~OidLess(m[i][1], m[j][1])
    BY <1>1, <1>3, OidAsymmetric, Zenon
  <1>5. i = j => ~OidLess(m[i][1], m[j][1])
    BY <1>1, OidAsymmetric, Zenon
  <1> QED BY <1>1, <1>2, <1>4, <1>5

\* The first numbers ascend with the places.
LEMMA MibHeads ==
    ASSUME NEW m, IsMib(m), NEW i \in DOMAIN m, NEW j \in DOMAIN m, i <= j
    PROVE  m[i][1][1] <= m[j][1][1]
  <1>1. /\ m[i][1] \in Seq(Nat) /\ m[j][1] \in Seq(Nat) /\ m[i][1] # <<>> /\ m[j][1] # <<>>
        /\ i \in Nat /\ j \in Nat /\ m[i][1][1] \in Nat
    BY MibEntries
  <1>2. CASE i = j
    BY <1>1, <1>2
  <1>3. CASE i < j
    <2>1. OidLess(m[i][1], m[j][1])
      BY <1>3, Zenon DEF IsMib
    <2> QED BY <1>1, <2>1, OidHeads, Zenon
  <1> QED BY <1>1, <1>2, <1>3

------------------------------------------------------------------------------
(* A walk of an agent that does not lie takes a run of the table.           *)

\* A set of naturals has a least one.
LEMMA Least ==
    ASSUME NEW T, T \subseteq Nat, T # {}
    PROVE  \E x \in T : \A y \in T : x <= y
  <1> DEFINE R == OpToRel(<, Nat)
  <1>1. IsWellFoundedOn(R, Nat)
    BY NatLessThanWellFounded, Zenon
  <1>2. \A x, y \in Nat : y < x => <<y, x>> \in R
    BY Zenon DEF OpToRel
  <1> HIDE DEF R
  <1>3. PICK x \in T : \A y \in T : ~(<<y, x>> \in R)
    BY <1>1, WFMin, Zenon
  <1>4. ASSUME NEW y \in T PROVE x <= y
    <2>1. x \in Nat /\ y \in Nat /\ ~(y < x)
      BY <1>2, <1>3, Zenon
    <2> QED BY <2>1
  <1> QED BY <1>4, Zenon

\* The instances before a table's are the first ones.
LEMMA TableBegins ==
    ASSUME NEW m, IsMib(m), NEW t \in TableIds
    PROVE  \E s \in Nat : s <= Len(m) /\ \A j \in DOMAIN m : m[j][1][1] >= t <=> j > s
  <1> DEFINE A == {j \in DOMAIN m : m[j][1][1] >= t}
  <1>1. Len(m) \in Nat /\ DOMAIN m = 1..Len(m) /\ t \in Nat
    BY DEF IsMib, TableIds
  <1>2. CASE A = {}
    <2>1. \A j \in DOMAIN m : ~(m[j][1][1] >= t) /\ ~(j > Len(m))
      BY <1>1, <1>2
    <2> QED BY <1>1, <2>1, SMTT(30)
  <1>3. CASE A # {}
    <2>1. A \subseteq Nat
      BY <1>1
    <2>2. PICK x \in A : \A y \in A : x <= y
      <3> HIDE DEF A
      <3> QED BY <1>3, <2>1, Least, Zenon
    <2>3. x \in 1..Len(m) /\ m[x][1][1] >= t
      BY <1>1, Zenon
    <2>4. ASSUME NEW j \in DOMAIN m PROVE m[j][1][1] >= t <=> j > x - 1
      <3>1. j \in Nat /\ x \in Nat /\ m[j][1][1] \in Nat /\ m[x][1][1] \in Nat /\ x \in DOMAIN m
        BY <1>1, <2>3, MibEntries, SMTT(30)
      <3>2. j >= x => m[j][1][1] >= m[x][1][1]
        BY <3>1, MibHeads, Zenon
      <3>3. m[j][1][1] >= t => j >= x
        BY <2>2, Zenon
      <3> QED BY <1>1, <2>3, <3>1, <3>2, <3>3
    <2>5. x - 1 \in Nat /\ x - 1 <= Len(m)
      BY <1>1, <2>3
    <2> QED BY <2>4, <2>5, Zenon
  <1> QED BY <1>2, <1>3, Zenon

\* A walk that begins is at the end of the empty run.
LEMMA RunBegins ==
    ASSUME NEW m, IsMib(m), NEW t \in TableIds
    PROVE  AtRun(NewWalk(<<t>>), m, t)
  <1> DEFINE w == NewWalk(<<t>>)
  <1>1. PICK s \in Nat : s <= Len(m) /\ \A j \in DOMAIN m : m[j][1][1] >= t <=> j > s
    BY TableBegins, Zenon
  <1>2. w.rows = <<>> /\ w.current = <<t>>
    BY Zenon DEF NewWalk
  <1>3. Len(w.rows) = 0
    BY <1>2
  <1> HIDE DEF w
  <1>4. Len(m) \in Nat /\ DOMAIN m = 1..Len(m) /\ t \in Nat
    BY DEF IsMib, TableIds
  <1>5. ASSUME NEW j \in DOMAIN m PROVE OidLess(w.current, m[j][1]) <=> j > s + Len(w.rows)
    <2>1. m[j][1] \in Seq(Nat) /\ m[j][1] # <<>> /\ m[j][1] # <<t>>
      BY MibEntries, Zenon
    <2>2. OidLess(<<t>>, m[j][1]) <=> m[j][1][1] >= t
      BY <1>4, <2>1, AfterTable, Zenon
    <2>3. s + Len(w.rows) = s
      BY <1>3
    <2> QED BY <1>1, <1>2, <2>2, <2>3, Zenon
  <1>6. RunFrom(m, t, w.rows, s)
    BY <1>1, <1>3, <1>4 DEF RunFrom
  <1> QED BY <1>5, <1>6, Zenon DEF AtRun, After, w

\* What an honest agent answers is the instance after the run, or that there is none.
LEMMA ServedNext ==
    ASSUME NEW m, IsMib(m), NEW oid, NEW p \in Nat, After(m, oid, p)
    PROVE  Served(m, "GetNext", oid) =
             Reply(0, << IF p < Len(m) THEN m[p + 1] ELSE <<oid, [kind |-> "endOfMibView"]>> >>)
  <1> DEFINE I == {i \in DOMAIN m : OidLess(oid, m[i][1])}
  <1>1. Len(m) \in Nat /\ DOMAIN m = 1..Len(m)
    BY Zenon DEF IsMib
  <1>2. Served(m, "GetNext", oid) =
             Reply(0, << IF I # {} THEN m[Min(I)] ELSE <<oid, [kind |-> "endOfMibView"]>> >>)
    BY Zenon DEF Served
  <1>3. \A i : i \in I <=> i \in 1..Len(m) /\ i > p
    BY <1>1, Zenon DEF After
  <1> HIDE DEF I
  <1>4. CASE p < Len(m)
    <2>1. p + 1 \in I /\ \A y \in I : p + 1 <= y
      BY <1>1, <1>3, <1>4
    <2>2. \A x \in I : (\A y \in I : x <= y) => x = p + 1
      BY <1>1, <1>3, <2>1
    <2>3. Min(I) = p + 1
      BY <2>1, <2>2, Zenon DEF Min
    <2> QED BY <1>2, <1>4, <2>1, <2>3
  <1>5. CASE ~(p < Len(m))
    <2>1. I = {}
      BY <1>1, <1>3, <1>5
    <2> QED BY <1>2, <1>5, <2>1
  <1> QED BY <1>4, <1>5, Zenon

\* The walk takes the instance after place p, of table t, or ends; and it ends as complete only
\* where nothing of the table is left.
TakesNext(w, message, m, t, p) ==
    /\ WalkEnd(w, message) = "advance" =>
          /\ p + 1 \in DOMAIN m /\ message.varbinds[1] = m[p + 1] /\ m[p + 1][1][1] = t
    /\ complete(WalkEnd(w, message)) => \A j \in DOMAIN m : m[j][1][1] = t => j <= p

\* An honest agent, one that refuses or one that is not heard: the walk goes on behind its run.
LEMMA WalkTakesNext ==
    ASSUME NEW m, IsMib(m), NEW t \in TableIds, NEW w, w.root = <<t>>, IsSeq(w.rows),
           NEW s, RunFrom(m, t, w.rows, s), NEW p, p = s + Len(w.rows), After(m, w.current, p),
           NEW message \in Brings(m, "GetNext", w.current)
    PROVE  TakesNext(w, message, m, t, p)
  <1>1. /\ Len(m) \in Nat /\ DOMAIN m = 1..Len(m) /\ t \in Nat
        /\ s \in Nat /\ Len(w.rows) \in Nat /\ p \in Nat /\ p <= Len(m)
    <2>1. Len(w.rows) \in Nat
      BY DEF IsSeq
    <2> QED BY <2>1 DEF IsMib, TableIds, RunFrom
  <1> DEFINE last == <<w.current, [kind |-> "endOfMibView"]>>
             served == Reply(0, << IF p < Len(m) THEN m[p + 1] ELSE last >>)
  <1>2. PICK reply \in {served} \cup Unserved(w.current) :
           message = snmp_request("GetNext", w.current, reply)
    <2>1. Served(m, "GetNext", w.current) = served
      BY <1>1, ServedNext, Zenon
    <2> QED BY <2>1, Zenon DEF Brings
  <1>3. CASE reply # served
    <2>1. reply \in Unserved(w.current)
      BY <1>2, <1>3, Zenon
    <2>2. reply.genuine = FALSE \/ (reply.genuine = TRUE /\ reply.error_status \in {2, 5})
      BY <2>1 DEF Unserved, Reply
    <2>3. message = None \/ (message = reply /\ reply.error_status \in {2, 5})
      BY <1>2, <2>2, Zenon DEF snmp_request
    <2>4. WalkEnd(w, message) \in {"Invalid", "AgentError"}
      BY <2>3 DEF WalkEnd
    <2> QED BY <2>4, Zenon DEF complete, TakesNext
  <1>4. CASE reply = served
    <2> DEFINE v == IF p < Len(m) THEN m[p + 1] ELSE last
    <2>1. /\ served.genuine = TRUE /\ served.error_status = 0 /\ served.varbinds = <<v>>
      BY Zenon DEF Reply
    <2> HIDE DEF served, v
    <2>2. Len(served.varbinds) = 1 /\ served.varbinds[1] = v
      BY <2>1
    <2>3. message = served
      BY <1>2, <1>4, <2>1, <2>2 DEF snmp_request
    <2>4. CASE p < Len(m)
      <3>1. v = m[p + 1] /\ p + 1 \in DOMAIN m
        BY <1>1, <2>4 DEF v
      <3>2. /\ v[2].kind \notin {"absent", "endOfMibView"} /\ v[1] \in Seq(Nat) /\ v[1] # <<>>
            /\ v[1][1] \in Nat
        BY <3>1, MibEntries, Zenon
      <3>3. starts_with(v[1], w.root) <=> v[1][1] = t
        <4>1. starts_with(v[1], <<t>>) <=> v[1][1] = t
          BY <3>2, InTable, Zenon
        <4> QED BY <4>1, Zenon
      <3>4. WalkEnd(w, message) =
              IF message = None THEN "Invalid"
              ELSE IF ~starts_with(v[1], w.root) THEN "LeftSubtree"
              ELSE IF ~OidLess(w.current, v[1]) THEN "OidDidNotAdvance" ELSE "advance"
        BY <2>1, <2>2, <2>3, <3>2, Zenon DEF WalkEnd
      <3>5. OidLess(w.current, v[1])
        BY <1>1, <3>1 DEF After
      <3>6. ASSUME v[1][1] # t, NEW j \in DOMAIN m, m[j][1][1] = t PROVE j <= p
        <4>1. p + 1 > s
          BY <1>1
        <4>2. v[1][1] >= t
          BY <3>1, <4>1, Zenon DEF RunFrom
        <4>3. p + 1 <= j => v[1][1] <= m[j][1][1]
          BY <3>1, MibHeads, Zenon
        <4>4. ~(p + 1 <= j)
          BY <1>1, <3>2, <3>6, <4>2, <4>3, SMTT(30)
        <4> QED BY <1>1, <4>4
      <3>7. WalkEnd(w, message) = "advance" => v[1][1] = t
        BY <3>3, <3>4, Zenon
      <3>8. complete(WalkEnd(w, message)) => v[1][1] # t
        BY <3>3, <3>4, <3>5 DEF complete
      <3> QED BY <2>2, <2>3, <3>1, <3>6, <3>7, <3>8, Zenon DEF TakesNext
    <2>5. CASE ~(p < Len(m))
      <3>1. v[2].kind = "endOfMibView"
        BY <2>5, Zenon DEF v
      <3>2. WalkEnd(w, message) # "advance"
        BY <2>1, <2>2, <2>3, <3>1, Zenon DEF WalkEnd
      <3>3. \A j \in DOMAIN m : j <= p
        BY <1>1, <2>5
      <3> QED BY <3>2, <3>3, Zenon DEF TakesNext
    <2> QED BY <2>4, <2>5, Zenon
  <1> QED BY <1>3, <1>4, Zenon

\* The run with the next instance is a run, and the position is at its end.
LEMMA RunAdvances ==
    ASSUME NEW m, IsMib(m), NEW t, NEW rows, IsSeq(rows), NEW s, RunFrom(m, t, rows, s),
           NEW p, p = s + Len(rows), p + 1 \in DOMAIN m, m[p + 1][1][1] = t,
           NEW n, n.rows = Append(rows, m[p + 1]), n.current = m[p + 1][1]
    PROVE  AtRun(n, m, t)
  <1>1. Grown(rows, m[p + 1], n.rows)
    BY RowsGrow, Zenon
  <1>2. /\ Len(n.rows) = Len(rows) + 1 /\ Len(rows) \in Nat
        /\ \A i \in 1..Len(rows) : n.rows[i] = rows[i]
        /\ n.rows[Len(rows) + 1] = m[p + 1]
    BY <1>1, Zenon DEF Grown
  <1>3. Len(m) \in Nat /\ DOMAIN m = 1..Len(m) /\ s \in Nat /\ p \in Nat /\ s + Len(n.rows) = p + 1
    BY <1>2 DEF IsMib, RunFrom
  <1>4. RunFrom(m, t, n.rows, s)
    <2>1. ASSUME NEW i \in 1..Len(n.rows) PROVE n.rows[i] = m[s + i] /\ m[s + i][1][1] = t
      <3>1. CASE i \in 1..Len(rows)
        BY <1>2, <3>1, Zenon DEF RunFrom
      <3>2. CASE i = Len(rows) + 1
        <4>1. s + i = p + 1
          BY <1>2, <1>3, <3>2
        <4> QED BY <1>2, <3>2, <4>1
      <3> QED BY <1>2, <3>1, <3>2
    <2>2. s \in Nat /\ s + Len(n.rows) <= Len(m)
      BY <1>3
    <2> QED BY <2>1, <2>2, Zenon DEF RunFrom
  <1>5. After(m, n.current, s + Len(n.rows))
    BY <1>3, MibOrder, Zenon DEF After
  <1> QED BY <1>3, <1>4, <1>5, Zenon DEF AtRun

\* A run behind which there is nothing of the table is the table.
LEMMA RunIsTable ==
    ASSUME NEW m, IsMib(m), NEW t \in TableIds, NEW rows, IsSeq(rows), NEW s, RunFrom(m, t, rows, s),
           \A j \in DOMAIN m : m[j][1][1] = t => j <= s + Len(rows)
    PROVE  HasInstances(m, <<t>>, Len(rows))
  <1> DEFINE S == {j \in DOMAIN m : starts_with(m[j][1], <<t>>)}
  <1>1. Len(m) \in Nat /\ DOMAIN m = 1..Len(m) /\ s \in Nat /\ Len(rows) \in Nat /\ s + Len(rows) <= Len(m)
    <2>1. Len(rows) \in Nat
      BY DEF IsSeq
    <2> QED BY <2>1, Zenon DEF IsMib, RunFrom
  <1>2. ASSUME NEW j \in DOMAIN m PROVE starts_with(m[j][1], <<t>>) <=> j \in (s + 1)..(s + Len(rows))
    <2>1. starts_with(m[j][1], <<t>>) <=> m[j][1][1] = t
      <3>1. m[j][1] \in Seq(Nat) /\ m[j][1] # <<>>
        BY MibEntries, Zenon
      <3> QED BY <3>1, InTable
    <2>2. ASSUME m[j][1][1] = t PROVE j > s
      <3>1. t >= t
        BY DEF TableIds
      <3> QED BY <2>2, <3>1 DEF RunFrom
    <2>3. ASSUME j \in (s + 1)..(s + Len(rows)) PROVE m[j][1][1] = t
      <3>1. j - s \in 1..Len(rows) /\ s + (j - s) = j
        BY <1>1, <2>3
      <3>2. m[s + (j - s)][1][1] = t
        BY <3>1, Zenon DEF RunFrom
      <3> QED BY <3>1, <3>2
    <2> QED BY <1>1, <2>1, <2>2, <2>3
  <1>3. S = (s + 1)..(s + Len(rows))
    BY <1>1, <1>2
  <1>4. s \in 0..Len(m)
    BY <1>1
  <1> QED BY <1>3, <1>4 DEF HasInstances

------------------------------------------------------------------------------
(* Rows of a run, and the rows of the table.                                *)

\* Where a cell is.
Places(rows, column, key) ==
    {i \in DOMAIN rows : Len(rows[i][1]) > 2 /\ rows[i][1][2] = column /\ KeyOf(rows[i][1]) = key}

\* A cell that is in no place is missing, and one that is in one place is what is there.
LEMMA CellAt ==
    ASSUME NEW rows, NEW column, NEW key
    PROVE  /\ Places(rows, column, key) = {} => Cell(rows, column, key) = [kind |-> "null"]
           /\ \A i \in Int : Places(rows, column, key) = {i} => Cell(rows, column, key) = rows[i][2]
  <1> DEFINE at == Places(rows, column, key)
  <1>1. Cell(rows, column, key) =
          IF at = {} THEN [kind |-> "null"] ELSE rows[CHOOSE i \in at : \A j \in at : j <= i][2]
    BY Zenon DEF Cell, Places
  <1> HIDE DEF at
  <1>2. ASSUME NEW i \in Int, at = {i} PROVE (CHOOSE k \in at : \A j \in at : j <= k) = i
    <2>1. i \in at /\ \A j \in at : j <= i
      BY <1>2
    <2>2. \A k \in at : k = i
      BY <1>2, Zenon
    <2> QED BY <2>1, <2>2, Zenon
  <1>3. \A i : at = {i} => at # {}
    BY Zenon
  <1> QED BY <1>1, <1>2, <1>3, Zenon DEF at

\* OIDs of one table, one column and one key are one OID.
LEMMA OidParts ==
    ASSUME NEW a \in Seq(Nat), NEW b \in Seq(Nat), Len(a) > 2, Len(b) > 2,
           a[1] = b[1], a[2] = b[2], KeyOf(a) = KeyOf(b)
    PROVE  a = b
  <1>1. /\ Len(KeyOf(a)) = Len(a) - 2 /\ Len(KeyOf(b)) = Len(b) - 2
        /\ \A i \in 1..(Len(a) - 2) : KeyOf(a)[i] = a[i + 2]
        /\ \A i \in 1..(Len(b) - 2) : KeyOf(b)[i] = b[i + 2]
    BY DEF KeyOf
  <1>2. Len(a) = Len(b)
    BY <1>1
  <1>3. ASSUME NEW j \in 1..Len(a) PROVE a[j] = b[j]
    <2>1. CASE j > 2
      <3>1. j - 2 \in 1..(Len(a) - 2) /\ j - 2 \in 1..(Len(b) - 2) /\ (j - 2) + 2 = j
        BY <1>2, <2>1
      <3> QED BY <1>1, <3>1, Zenon
    <2>2. CASE j = 1 \/ j = 2
      BY <2>2, Zenon
    <2> QED BY <2>1, <2>2
  <1> QED BY <1>2, <1>3, SMTT(30)

\* A cell of a table is in one place at most, and a run has the places of the table it reaches.
LEMMA RunPlaces ==
    ASSUME NEW m, IsMib(m), NEW t \in TableIds, NEW rows, IsSeq(rows), NEW s, RunFrom(m, t, rows, s),
           NEW c \in Nat, NEW k
    PROVE  /\ \A i \in Places(rows, c, k) : s + i \in Places(Table(m, t), c, k) /\ i \in Nat
           /\ \A i, j \in Places(Table(m, t), c, k) : i = j
           /\ \A j \in Places(Table(m, t), c, k) : j <= s + Len(rows) => j - s \in Places(rows, c, k)
  <1>1. /\ Len(m) \in Nat /\ DOMAIN m = 1..Len(m) /\ s \in Nat /\ Len(rows) \in Nat
        /\ s + Len(rows) <= Len(m) /\ DOMAIN rows = 1..Len(rows)
    <2>1. Len(rows) \in Nat /\ DOMAIN rows = 1..Len(rows)
      BY DEF IsSeq
    <2> QED BY <2>1, Zenon DEF IsMib, RunFrom
  <1>2. \A j : j \in Places(Table(m, t), c, k) <=>
           /\ j \in DOMAIN m /\ m[j][1][1] = t
           /\ Len(m[j][1]) > 2 /\ m[j][1][2] = c /\ KeyOf(m[j][1]) = k
    BY Zenon DEF Table, Places
  <1>3. ASSUME NEW i \in Places(rows, c, k) PROVE s + i \in Places(Table(m, t), c, k) /\ i \in Nat
    <2>1. i \in 1..Len(rows) /\ Len(rows[i][1]) > 2 /\ rows[i][1][2] = c /\ KeyOf(rows[i][1]) = k
      BY <1>1, Zenon DEF Places
    <2>2. rows[i] = m[s + i] /\ m[s + i][1][1] = t
      BY <2>1, Zenon DEF RunFrom
    <2>3. s + i \in DOMAIN m /\ i \in Nat
      BY <1>1, <2>1
    <2> QED BY <1>2, <2>1, <2>2, <2>3, Zenon
  <1>4. ASSUME NEW i \in Places(Table(m, t), c, k), NEW j \in Places(Table(m, t), c, k)
        PROVE  i = j
    <2>1. i \in DOMAIN m /\ j \in DOMAIN m /\ i \in Nat /\ j \in Nat
      BY <1>1, <1>2
    <2>2. m[i][1] \in Seq(Nat) /\ m[j][1] \in Seq(Nat)
      BY <2>1, MibEntries, Zenon
    <2>3. m[i][1] = m[j][1]
      BY <1>2, <2>2, OidParts, Zenon
    <2>4. ~(i > i) /\ ~(j > j)
      BY <2>1
    <2>5. ~(j > i) /\ ~(i > j)
      BY <2>1, <2>3, <2>4, MibOrder, Zenon
    <2> QED BY <2>1, <2>5
  <1>5. ASSUME NEW j \in Places(Table(m, t), c, k), j <= s + Len(rows)
        PROVE  j - s \in Places(rows, c, k)
    <2>1. j \in DOMAIN m /\ j \in Nat /\ m[j][1][1] = t
      BY <1>1, <1>2
    <2>2. j > s
      <3>1. t >= t
        BY DEF TableIds
      <3> QED BY <2>1, <3>1, Zenon DEF RunFrom
    <2>3. j - s \in 1..Len(rows) /\ s + (j - s) = j
      BY <1>1, <1>5, <2>1, <2>2
    <2>4. rows[j - s] = m[j]
      BY <2>3, Zenon DEF RunFrom
    <2> QED BY <1>1, <1>2, <2>3, <2>4, Zenon DEF Places
  <1> QED BY <1>3, <1>4, <1>5, Zenon

\* What a run has of a cell is what the table has; and once it has a later column, all of an
\* earlier one.
LEMMA RunCells ==
    ASSUME NEW m, IsMib(m), NEW t \in TableIds, NEW rows, IsSeq(rows), NEW s, RunFrom(m, t, rows, s),
           NEW c \in Nat, NEW k
    PROVE  /\ Cell(rows, c, k) \in {[kind |-> "null"], Cell(Table(m, t), c, k)}
           /\ Cell(rows, c, k) # [kind |-> "null"] => Places(rows, c, k) # {}
           /\ \A d \in Nat : \A l : d > c /\ Places(rows, d, l) # {} =>
                 Cell(rows, c, k) = Cell(Table(m, t), c, k)
  <1> DEFINE R == Places(rows, c, k)
             T == Places(Table(m, t), c, k)
  <1>1. /\ \A i \in R : s + i \in T /\ i \in Nat
        /\ \A i, j \in T : i = j
        /\ \A j \in T : j <= s + Len(rows) => j - s \in R
    BY RunPlaces, Zenon
  <1>2. s \in Nat /\ Len(rows) \in Nat
    BY DEF RunFrom, IsSeq
  <1>3. \A j \in T : j \in DOMAIN m /\ Table(m, t)[j] = m[j]
    BY Zenon DEF Table, Places
  <1>4. ASSUME NEW i \in R PROVE Cell(rows, c, k) = Cell(Table(m, t), c, k)
    <2>1. i \in Nat /\ s + i \in T /\ T = {s + i}
      BY <1>1, Zenon
    <2>2. R = {i}
      <3>1. ASSUME NEW j \in R PROVE j = i
        <4>1. j \in Nat /\ s + j = s + i
          BY <1>1, <2>1, Zenon
        <4> QED BY <1>2, <2>1, <4>1
      <3> QED BY <3>1, Zenon
    <2>3. i \in Int /\ s + i \in Int
      BY <1>2, <2>1
    <2> HIDE DEF R, T
    <2>4. Cell(rows, c, k) = rows[i][2]
      BY <2>2, <2>3, CellAt, ZenonT(40) DEF R
    <2>5. Cell(Table(m, t), c, k) = Table(m, t)[s + i][2]
      BY <2>1, <2>3, CellAt, ZenonT(40) DEF T
    <2>6. rows[i] = m[s + i]
      <3>1. i \in 1..Len(rows)
        BY DEF R, Places, IsSeq
      <3> QED BY <3>1, Zenon DEF RunFrom
    <2> QED BY <1>3, <2>1, <2>4, <2>5, <2>6, Zenon
  <1>5. ASSUME R = {} PROVE Cell(rows, c, k) = [kind |-> "null"]
    BY <1>5, CellAt, Zenon
  <1>6. ASSUME NEW d \in Nat, NEW l, d > c, NEW i \in Places(rows, d, l), R = {}
        PROVE  Cell(Table(m, t), c, k) = [kind |-> "null"]
    <2>1. ASSUME NEW j \in T PROVE FALSE
      <3>1. /\ i \in 1..Len(rows) /\ Len(rows[i][1]) > 2 /\ rows[i][1][2] = d
            /\ rows[i] = m[s + i] /\ m[s + i][1][1] = t
        <4>1. i \in 1..Len(rows) /\ Len(rows[i][1]) > 2 /\ rows[i][1][2] = d
          BY DEF Places, IsSeq
        <4> QED BY <4>1, Zenon DEF RunFrom
      <3>2. s + i \in DOMAIN m /\ s + i <= s + Len(rows) /\ s + i \in Nat
        BY <1>2, <3>1 DEF RunFrom, IsMib
      <3>3. j \in DOMAIN m /\ j \in Nat /\ m[j][1][1] = t /\ Len(m[j][1]) > 2 /\ m[j][1][2] = c
        BY <2>1 DEF Places, Table, IsMib
      <3>4. ~(j <= s + Len(rows))
        BY <1>1, <1>6, <2>1, Zenon
      <3>5. j > s + i
        BY <1>2, <3>2, <3>3, <3>4
      <3>6. OidLess(m[s + i][1], m[j][1])
        BY <3>2, <3>3, <3>5, MibOrder, Zenon
      <3>7. /\ m[s + i][1] \in Seq(Nat) /\ m[j][1] \in Seq(Nat)
            /\ m[s + i][1] # <<>> /\ m[j][1] # <<>>
        BY <3>2, <3>3, MibEntries, Zenon
      <3>8. m[s + i][1][2] <= m[j][1][2]
        <4>1. Len(m[s + i][1]) > 1 /\ Len(m[j][1]) > 1
          <5>1. Len(m[s + i][1]) > 2 /\ Len(m[j][1]) > 2
            BY <3>1, <3>3, Zenon
          <5>2. Len(m[s + i][1]) \in Nat /\ Len(m[j][1]) \in Nat
            BY <3>7
          <5> QED BY <5>1, <5>2
        <4> QED BY <3>1, <3>3, <3>6, <3>7, <4>1, OidHeads, Zenon
      <3>9. d <= c
        BY <3>1, <3>3, <3>8, Zenon
      <3> QED BY <1>6, <3>9
    <2>2. T = {}
      BY <2>1, Zenon
    <2> QED BY <2>2, CellAt, Zenon
  <1> QED BY <1>4, <1>5, <1>6, Zenon

\* A column that was not returned says nothing.
LEMMA NullSays ==
    /\ as_ipv4([kind |-> "null"]) = None
    /\ as_mac([kind |-> "null"]) = None
    /\ \A valid : Column([kind |-> "null"], valid) = Missing
  BY Zenon DEF as_ipv4, as_mac, Column

\* The index of a row of the run is one of the table's.
LEMMA RunKeys ==
    ASSUME NEW m, IsMib(m), NEW t \in TableIds, NEW rows, IsSeq(rows), NEW s, RunFrom(m, t, rows, s)
    PROVE  Keys(rows) \subseteq Keys(Table(m, t))
  <1> SUFFICES ASSUME NEW k \in Keys(rows) PROVE k \in Keys(Table(m, t))
    BY Zenon
  <1>1. PICK i \in DOMAIN rows : Len(rows[i][1]) > 2 /\ k = KeyOf(rows[i][1])
    BY Zenon DEF Keys
  <1>2. i \in 1..Len(rows) /\ Len(rows) \in Nat
    BY DEF IsSeq
  <1>3. rows[i] = m[s + i] /\ m[s + i][1][1] = t /\ s + i \in DOMAIN m
    BY <1>2 DEF RunFrom, IsMib
  <1>4. s + i \in DOMAIN Table(m, t) /\ Table(m, t)[s + i] = rows[i]
    BY <1>3, Zenon DEF Table
  <1> QED BY <1>1, <1>4, Zenon DEF Keys

\* Once a run has a column of a row, it has the columns before it.
LEMMA LastColumn ==
    ASSUME NEW m, IsMib(m), NEW t \in TableIds, NEW rows, IsSeq(rows), NEW s, RunFrom(m, t, rows, s),
           NEW d \in Nat, NEW k, Cell(rows, d, k) # [kind |-> "null"]
    PROVE  /\ Cell(rows, d, k) = Cell(Table(m, t), d, k)
           /\ \A c \in Nat : d > c => Cell(rows, c, k) = Cell(Table(m, t), c, k)
  <1>1. Cell(rows, d, k) = Cell(Table(m, t), d, k) /\ Places(rows, d, k) # {}
    <2>1. /\ Cell(rows, d, k) \in {[kind |-> "null"], Cell(Table(m, t), d, k)}
          /\ Cell(rows, d, k) # [kind |-> "null"] => Places(rows, d, k) # {}
      BY RunCells
    <2> QED BY <2>1, Zenon
  <1>2. ASSUME NEW c \in Nat, d > c PROVE Cell(rows, c, k) = Cell(Table(m, t), c, k)
    <2>1. \A e \in Nat : \A l : e > c /\ Places(rows, e, l) # {} =>
             Cell(rows, c, k) = Cell(Table(m, t), c, k)
      BY RunCells
    <2> QED BY <1>1, <1>2, <2>1, Zenon
  <1> QED BY <1>1, <1>2, Zenon

\* The neighbours read from a run are neighbours of the whole table.
LEMMA ArpSays ==
    ASSUME NEW m, IsMib(m), NEW rows, IsSeq(rows), NEW s, RunFrom(m, 22, rows, s)
    PROVE  arp_cache(rows) \subseteq arp_cache(Table(m, 22))
  <1> SUFFICES ASSUME NEW e \in arp_cache(rows) PROVE e \in arp_cache(Table(m, 22))
    BY Zenon
  <1>1. PICK k \in Keys(rows) : e = [ip |-> as_ipv4(Cell(rows, 3, k)), mac |-> as_mac(Cell(rows, 2, k)),
                                     if_index |-> k[1]]
    BY Zenon DEF arp_cache
  <1>2. /\ e.ip # None /\ e.mac \notin {None, ZeroMac} /\ ~is_loopback(e.ip) /\ ~is_broadcast(e.ip)
    BY Zenon DEF arp_cache
  <1>3. e.ip = as_ipv4(Cell(rows, 3, k)) /\ e.mac = as_mac(Cell(rows, 2, k))
    BY <1>1, Zenon
  <1>4. 22 \in TableIds /\ 2 \in Nat /\ 3 \in Nat
    BY Zenon DEF TableIds
  <1>5. /\ Cell(rows, 3, k) \in {[kind |-> "null"], Cell(Table(m, 22), 3, k)}
        /\ Cell(rows, 2, k) \in {[kind |-> "null"], Cell(Table(m, 22), 2, k)}
    BY <1>4, RunCells, Zenon
  <1>6. Cell(rows, 3, k) = Cell(Table(m, 22), 3, k) /\ Cell(rows, 2, k) = Cell(Table(m, 22), 2, k)
    BY <1>2, <1>3, <1>5, NullSays, Zenon
  <1>7. k \in Keys(Table(m, 22))
    BY <1>4, RunKeys, Zenon
  <1> QED BY <1>1, <1>2, <1>6, <1>7, Zenon DEF arp_cache

\* The addresses read from a run are addresses of the whole table.
LEMMA AddressesSay ==
    ASSUME NEW m, IsMib(m), NEW rows, IsSeq(rows), NEW s, RunFrom(m, 20, rows, s)
    PROVE  local_ips(rows) \subseteq local_ips(Table(m, 20))
  <1> SUFFICES ASSUME NEW e \in local_ips(rows) PROVE e \in local_ips(Table(m, 20))
    BY Zenon
  <1>1. PICK k \in Keys(rows) : e = [ip |-> as_ipv4(Cell(rows, 1, k)), mask |-> as_ipv4(Cell(rows, 3, k))]
    BY Zenon DEF local_ips
  <1>2. e.ip # None /\ e.mask # None /\ ~is_loopback(e.ip)
    BY Zenon DEF local_ips
  <1>3. e.ip = as_ipv4(Cell(rows, 1, k)) /\ e.mask = as_ipv4(Cell(rows, 3, k))
    BY <1>1, Zenon
  <1>4. 20 \in TableIds /\ 1 \in Nat /\ 3 \in Nat
    BY Zenon DEF TableIds
  <1>5. /\ Cell(rows, 1, k) \in {[kind |-> "null"], Cell(Table(m, 20), 1, k)}
        /\ Cell(rows, 3, k) \in {[kind |-> "null"], Cell(Table(m, 20), 3, k)}
    BY <1>4, RunCells, Zenon
  <1>6. Cell(rows, 1, k) = Cell(Table(m, 20), 1, k) /\ Cell(rows, 3, k) = Cell(Table(m, 20), 3, k)
    BY <1>2, <1>3, <1>5, NullSays, Zenon
  <1>7. k \in Keys(Table(m, 20))
    BY <1>4, RunKeys, Zenon
  <1> QED BY <1>1, <1>2, <1>6, <1>7, Zenon DEF local_ips

\* A route whose mask was read is one of the whole table: the mask is the last of its columns.
LEMMA RoutesSay ==
    ASSUME NEW m, IsMib(m), NEW rows, IsSeq(rows), NEW s, RunFrom(m, 21, rows, s)
    PROVE  routes(rows) \subseteq routes(Table(m, 21))
  <1> SUFFICES ASSUME NEW e \in routes(rows) PROVE e \in routes(Table(m, 21))
    BY Zenon
  <1>1. PICK k \in Keys(rows) : e = [dest |-> as_ipv4(Cell(rows, 1, k)), mask |-> as_ipv4(Cell(rows, 11, k)),
                                     next_hop |-> as_ipv4(Cell(rows, 7, k)),
                                     route_type |-> as_integer(Cell(rows, 8, k))]
    BY Zenon DEF routes
  <1>2. e.dest # None /\ e.mask # None /\ e.next_hop # None /\ ~is_loopback(e.dest)
    BY Zenon DEF routes
  <1>3. e.mask = as_ipv4(Cell(rows, 11, k))
    BY <1>1, Zenon
  <1>4. 21 \in TableIds /\ 1 \in Nat /\ 7 \in Nat /\ 8 \in Nat /\ 11 \in Nat /\ 11 > 1 /\ 11 > 7 /\ 11 > 8
    BY DEF TableIds
  <1>5. Cell(rows, 11, k) # [kind |-> "null"]
    BY <1>2, <1>3, NullSays, Zenon
  <1>6. /\ Cell(rows, 11, k) = Cell(Table(m, 21), 11, k)
        /\ \A c \in Nat : 11 > c => Cell(rows, c, k) = Cell(Table(m, 21), c, k)
    BY <1>4, <1>5, LastColumn
  <1>7. /\ Cell(rows, 1, k) = Cell(Table(m, 21), 1, k) /\ Cell(rows, 7, k) = Cell(Table(m, 21), 7, k)
        /\ Cell(rows, 8, k) = Cell(Table(m, 21), 8, k)
    BY <1>4, <1>6, Zenon
  <1>8. k \in Keys(Table(m, 21))
    BY <1>4, RunKeys, Zenon
  <1> QED BY <1>1, <1>2, <1>6, <1>7, <1>8, Zenon DEF routes

\* A row in force is one of the whole table: its status is the last of its columns.
LEMMA InetSays ==
    ASSUME NEW m, IsMib(m), NEW rows, IsSeq(rows), NEW s, RunFrom(m, 24, rows, s),
           NEW e \in inet_routes(rows), active(e)
    PROVE  e \in inet_routes(Table(m, 24))
  <1>1. PICK k \in Keys(rows) :
           /\ parse_index(k) # None
           /\ e = [index |-> k, if_index |-> as_integer(Cell(rows, 7, k)),
                   route_type |-> Column(Cell(rows, 8, k), 1..5), status |-> Column(Cell(rows, 17, k), 1..6)]
    BY Zenon DEF inet_routes
  <1>2. Column(Cell(rows, 17, k), 1..6) = 1
    BY <1>1, Zenon DEF active
  <1>3. 24 \in TableIds /\ 7 \in Nat /\ 8 \in Nat /\ 17 \in Nat /\ 17 > 7 /\ 17 > 8 /\ Missing # 1
    BY DEF TableIds, Missing
  <1>4. Cell(rows, 17, k) # [kind |-> "null"]
    BY <1>2, <1>3, NullSays, Zenon
  <1>5. /\ Cell(rows, 17, k) = Cell(Table(m, 24), 17, k)
        /\ \A c \in Nat : 17 > c => Cell(rows, c, k) = Cell(Table(m, 24), c, k)
    BY <1>3, <1>4, LastColumn
  <1>6. Cell(rows, 7, k) = Cell(Table(m, 24), 7, k) /\ Cell(rows, 8, k) = Cell(Table(m, 24), 8, k)
    BY <1>3, <1>5, Zenon
  <1>7. k \in Keys(Table(m, 24))
    BY <1>3, RunKeys, Zenon
  <1> QED BY <1>1, <1>5, <1>6, <1>7, Zenon DEF inet_routes

-----------------------------------------------------------------------------
\* What an honest agent, one that refuses or one that is not heard gives for a scalar is no
\* value or the one it serves.
LEMMA ScalarSays ==
    ASSUME NEW m, NEW oid, NEW at, at = Instances(m, oid),
           NEW message \in Brings(m, "Get", oid)
    PROVE  \/ FirstValue(message).kind \in {"null", "absent"}
           \/ at # {} /\ FirstValue(message) = m[Min(at)][2]
  <1> DEFINE v == IF at # {} THEN m[Min(at)] ELSE <<oid, [kind |-> "absent"]>>
             served == Reply(0, <<v>>)
  <1>1. Served(m, "Get", oid) = served
    BY Zenon DEF Served, Instances
  <1>2. PICK reply \in {served} \cup Unserved(oid) : message = snmp_request("Get", oid, reply)
    BY <1>1, Zenon DEF Brings
  <1>3. message = None \/ message = reply
    BY <1>2, Zenon DEF snmp_request
  <1>4. CASE message = None
    BY <1>4, Zenon DEF FirstValue
  <1>5. CASE message # None /\ message = served
    <2>1. served.varbinds = <<v>> /\ <<v>> # <<>> /\ <<v>>[1] = v
      BY Zenon DEF Reply
    <2>2. FirstValue(message) = v[2]
      BY <1>5, <2>1, Zenon DEF FirstValue
    <2>3. at = {} => v[2].kind = "absent"
      BY Zenon
    <2>4. at # {} => v[2] = m[Min(at)][2]
      BY Zenon
    <2> QED BY <2>2, <2>3, <2>4, Zenon
  <1>6. CASE message # None /\ message = reply /\ reply \in Unserved(oid)
    <2>1. \/ reply.varbinds = <<>>
          \/ reply.varbinds = << <<oid, [kind |-> "null"]>> >>
      BY <1>6 DEF Unserved, Reply
    <2>2. FirstValue(message) = [kind |-> "null"]
      BY <1>6, <2>1 DEF FirstValue
    <2> QED BY <2>2
  <1> QED BY <1>2, <1>3, <1>4, <1>5, <1>6, Zenon

\* The whole answer, by name.
LEMMA WholeSays ==
    ASSUME NEW m
    PROVE  LET name == Instances(m, ScalarOid["sysName"])
               flag == Instances(m, ScalarOid["ipForwarding"])
           IN  /\ name # {} => Whole(m).sys_name = as_str(m[Min(name)][2])
               /\ flag # {} => Whole(m).forwarding = (m[Min(flag)][2].v = 1)
               /\ Whole(m).arp_cache = arp_cache(Table(m, 22))
               /\ Whole(m).routes = routes(Table(m, 21))
               /\ Whole(m).local_ips = local_ips(Table(m, 20))
               /\ Whole(m).inet_routes = inet_routes(Table(m, 24))
  BY Zenon DEF Whole

-----------------------------------------------------------------------------
\* The facts a device advertises (snmp_harvest_evidence).
Advertised(found) ==
    When(forwards(found), {DeviceRoleSignal(device, Signal("SnmpForwarding"))})
    \cup When(found.sys_name # None, {DeviceHostname(device, found.sys_name)})
    \cup (UNION {local_ip_evidence(addr) : addr \in found.local_ips})
    \cup (UNION {route_evidence(entry) : entry \in found.routes})
    \cup (UNION {inet_route_evidence(route) : route \in found.inet_routes})
    \cup {DeviceAddress(mac(entry.mac), entry.ip) : entry \in found.arp_cache}

\* A fact advertised comes from one of six places.
LEMMA AdvertisedFrom ==
    ASSUME NEW found, NEW f
    PROVE  f \in Advertised(found) <=>
             \/ forwards(found) /\ f = DeviceRoleSignal(device, Signal("SnmpForwarding"))
             \/ found.sys_name # None /\ f = DeviceHostname(device, found.sys_name)
             \/ \E addr \in found.local_ips : f \in local_ip_evidence(addr)
             \/ \E entry \in found.routes : f \in route_evidence(entry)
             \/ \E route \in found.inet_routes : f \in inet_route_evidence(route)
             \/ \E entry \in found.arp_cache : f = DeviceAddress(mac(entry.mac), entry.ip)
  <1> DEFINE A == When(forwards(found), {DeviceRoleSignal(device, Signal("SnmpForwarding"))})
             B == When(found.sys_name # None, {DeviceHostname(device, found.sys_name)})
             C == UNION {local_ip_evidence(addr) : addr \in found.local_ips}
             D == UNION {route_evidence(entry) : entry \in found.routes}
             E == UNION {inet_route_evidence(route) : route \in found.inet_routes}
             F == {DeviceAddress(mac(entry.mac), entry.ip) : entry \in found.arp_cache}
  <1>1. Advertised(found) = A \cup B \cup C \cup D \cup E \cup F
    BY Zenon DEF Advertised
  <1>2. f \in A <=> forwards(found) /\ f = DeviceRoleSignal(device, Signal("SnmpForwarding"))
    BY Zenon DEF When
  <1>3. f \in B <=> found.sys_name # None /\ f = DeviceHostname(device, found.sys_name)
    BY Zenon DEF When
  <1>4. f \in C <=> \E addr \in found.local_ips : f \in local_ip_evidence(addr)
    BY Zenon
  <1>5. f \in D <=> \E entry \in found.routes : f \in route_evidence(entry)
    BY Zenon
  <1>6. f \in E <=> \E route \in found.inet_routes : f \in inet_route_evidence(route)
    BY Zenon
  <1>7. f \in F <=> \E entry \in found.arp_cache : f = DeviceAddress(mac(entry.mac), entry.ip)
    BY Zenon
  <1> HIDE DEF A, B, C, D, E, F
  <1>8. f \in Advertised(found) <=> f \in A \/ f \in B \/ f \in C \/ f \in D \/ f \in E \/ f \in F
    BY <1>1, Zenon
  <1> QED BY <1>2, <1>3, <1>4, <1>5, <1>6, <1>7, <1>8, Zenon

\* A row that is not in force only describes the device.
LEMMA OutOfForce ==
    ASSUME NEW route, NEW f \in inet_route_evidence(route), f.kind # "DeviceDescription"
    PROVE  active(route)
  <1> SUFFICES ASSUME ~active(route) PROVE FALSE
    BY Zenon
  <1>1. f = DeviceDescription(device, route)
    BY Zenon DEF inet_route_evidence
  <1>2. f.kind = "DeviceDescription"
    BY <1>1, Zenon DEF DeviceDescription, Fact
  <1> QED BY <1>2, Zenon

\* A reading that agrees as far as it goes makes no claim the other does not.
LEMMA AgreesSaysLess ==
    ASSUME NEW found, NEW whole, Agrees(found, whole)
    PROVE  Claims(snmp_harvest_evidence(found)) \subseteq snmp_harvest_evidence(whole)
  <1>1. forwards(found) => forwards(whole)
    <2>1. CASE found.forwarding = TRUE
      BY <2>1, Zenon DEF Agrees, forwards
    <2>2. ASSUME NEW entry \in found.routes,
                 promotable_route(entry) # None /\ implies_forwarding(promotable_route(entry))
          PROVE  forwards(whole)
      <3>1. entry \in whole.routes
        BY Zenon DEF Agrees
      <3> QED BY <2>2, <3>1, Zenon DEF forwards
    <2>3. ASSUME NEW route \in found.inet_routes, inet_route_implies_forwarding(route)
          PROVE  forwards(whole)
      <3>1. active(route)
        BY <2>3, Zenon DEF inet_route_implies_forwarding
      <3>2. route \in whole.inet_routes
        BY <3>1, Zenon DEF Agrees
      <3> QED BY <2>3, <3>2, Zenon DEF forwards
    <2> QED BY <2>1, <2>2, <2>3, Zenon DEF forwards
  <1>2. ASSUME NEW f \in Advertised(found), f.kind # "DeviceDescription" PROVE f \in Advertised(whole)
    <2>1. CASE forwards(found) /\ f = DeviceRoleSignal(device, Signal("SnmpForwarding"))
      BY <1>1, <2>1, AdvertisedFrom, Zenon
    <2>2. CASE found.sys_name # None /\ f = DeviceHostname(device, found.sys_name)
      <3>1. found.sys_name = whole.sys_name
        BY <2>2, Zenon DEF Agrees
      <3> QED BY <2>2, <3>1, AdvertisedFrom, Zenon
    <2>3. ASSUME NEW addr \in found.local_ips, f \in local_ip_evidence(addr) PROVE f \in Advertised(whole)
      <3>1. addr \in whole.local_ips
        BY Zenon DEF Agrees
      <3> QED BY <2>3, <3>1, AdvertisedFrom, Zenon
    <2>4. ASSUME NEW entry \in found.routes, f \in route_evidence(entry) PROVE f \in Advertised(whole)
      <3>1. entry \in whole.routes
        BY Zenon DEF Agrees
      <3> QED BY <2>4, <3>1, AdvertisedFrom, Zenon
    <2>5. ASSUME NEW route \in found.inet_routes, f \in inet_route_evidence(route)
          PROVE  f \in Advertised(whole)
      <3>1. active(route)
        BY <1>2, <2>5, OutOfForce, Zenon
      <3>2. route \in whole.inet_routes
        BY <3>1, Zenon DEF Agrees
      <3> QED BY <2>5, <3>2, AdvertisedFrom, Zenon
    <2>6. ASSUME NEW entry \in found.arp_cache, f = DeviceAddress(mac(entry.mac), entry.ip)
          PROVE  f \in Advertised(whole)
      <3>1. entry \in whole.arp_cache
        BY Zenon DEF Agrees
      <3> QED BY <2>6, <3>1, AdvertisedFrom, Zenon
    <2> QED BY <1>2, <2>1, <2>2, <2>3, <2>4, <2>5, <2>6, AdvertisedFrom, Zenon
  <1>3. \A i : snmp_harvest_evidence(i) =
                 Says("Snmp", "Observed", {DeviceAddress(device, target)})
                 \cup Says("Snmp", "Advertised", Advertised(i))
    BY Zenon DEF snmp_harvest_evidence, Advertised
  <1> SUFFICES ASSUME NEW e \in Claims(snmp_harvest_evidence(found))
               PROVE  e \in snmp_harvest_evidence(whole)
    BY Zenon
  <1>4. e \in snmp_harvest_evidence(found) /\ e.fact.kind # "DeviceDescription"
    BY Zenon DEF Claims
  <1>5. CASE e \in Says("Snmp", "Observed", {DeviceAddress(device, target)})
    BY <1>3, <1>5, Zenon
  <1>6. CASE e \in Says("Snmp", "Advertised", Advertised(found))
    <2>1. PICK f \in Advertised(found) : e = [fact |-> f, source |-> "Snmp", confidence |-> "Advertised"]
      BY <1>6, Zenon DEF Says
    <2>2. e.fact = f
      BY <2>1, Zenon
    <2>3. f \in Advertised(whole)
      BY <1>2, <1>4, <2>2, Zenon
    <2> QED BY <1>3, <2>1, <2>3, Zenon DEF Says
  <1> QED BY <1>3, <1>4, <1>5, <1>6, Zenon

-----------------------------------------------------------------------------
\* The four tables, in the order they are walked.
LEMMA TableOrder ==
    /\ Len(Tables) = 4 /\ Tables[1] = 22
    /\ \A d \in 1..4 : Tables[d] \in TableIds
  BY DEF Tables, TableIds

\* The rows of a table, in the field they belong to.
Recorded(f, t, rows, status) ==
    CASE t = 22 -> [f EXCEPT !.table_status = status, !.arp_cache = arp_cache(rows)]
      [] t = 21 -> [f EXCEPT !.table_status = status, !.routes = routes(rows)]
      [] t = 20 -> [f EXCEPT !.table_status = status, !.local_ips = local_ips(rows)]
      [] t = 24 -> [f EXCEPT !.table_status = status, !.inet_routes = inet_routes(rows)]

\* A run read into its field agrees with the whole answer as the rest did.
LEMMA AgreesOn ==
    ASSUME NEW f, NEW m, Agrees(f, Whole(m)), IsMib(m), DOMAIN f = InfoFields,
           NEW rows, IsSeq(rows), NEW t \in TableIds, NEW s, RunFrom(m, t, rows, s), NEW status,
           NEW g, g = Recorded(f, t, rows, status)
    PROVE  Agrees(g, Whole(m))
  <1>1. CASE t = 22
    <2>1. g = [f EXCEPT !.table_status = status, !.arp_cache = arp_cache(rows)]
      BY <1>1 DEF Recorded
    <2>2. /\ g.arp_cache = arp_cache(rows) /\ g.sys_name = f.sys_name /\ g.forwarding = f.forwarding
          /\ g.routes = f.routes /\ g.local_ips = f.local_ips /\ g.inet_routes = f.inet_routes
      BY <2>1, Zenon DEF InfoFields
    <2>3. arp_cache(rows) \subseteq Whole(m).arp_cache
      BY <1>1, ArpSays, WholeSays, ZenonT(40)
    <2> QED BY <2>2, <2>3, Zenon DEF Agrees
  <1>2. CASE t = 21
    <2>1. g = [f EXCEPT !.table_status = status, !.routes = routes(rows)]
      BY <1>2 DEF Recorded
    <2>2. /\ g.routes = routes(rows) /\ g.sys_name = f.sys_name /\ g.forwarding = f.forwarding
          /\ g.arp_cache = f.arp_cache /\ g.local_ips = f.local_ips /\ g.inet_routes = f.inet_routes
      BY <2>1, Zenon DEF InfoFields
    <2>3. routes(rows) \subseteq Whole(m).routes
      BY <1>2, RoutesSay, WholeSays, ZenonT(40)
    <2> QED BY <2>2, <2>3, Zenon DEF Agrees
  <1>3. CASE t = 20
    <2>1. g = [f EXCEPT !.table_status = status, !.local_ips = local_ips(rows)]
      BY <1>3 DEF Recorded
    <2>2. /\ g.local_ips = local_ips(rows) /\ g.sys_name = f.sys_name /\ g.forwarding = f.forwarding
          /\ g.arp_cache = f.arp_cache /\ g.routes = f.routes /\ g.inet_routes = f.inet_routes
      BY <2>1, Zenon DEF InfoFields
    <2>3. local_ips(rows) \subseteq Whole(m).local_ips
      BY <1>3, AddressesSay, WholeSays, ZenonT(40)
    <2> QED BY <2>2, <2>3, Zenon DEF Agrees
  <1>4. CASE t = 24
    <2>1. g = [f EXCEPT !.table_status = status, !.inet_routes = inet_routes(rows)]
      BY <1>4 DEF Recorded
    <2>2. /\ g.inet_routes = inet_routes(rows) /\ g.sys_name = f.sys_name /\ g.forwarding = f.forwarding
          /\ g.arp_cache = f.arp_cache /\ g.routes = f.routes /\ g.local_ips = f.local_ips
      BY <2>1, Zenon DEF InfoFields
    <2>3. \A route \in inet_routes(rows) : active(route) => route \in Whole(m).inet_routes
      BY <1>4, InetSays, WholeSays, Zenon
    <2> QED BY <2>2, <2>3, Zenon DEF Agrees
  <1> QED BY <1>1, <1>2, <1>3, <1>4 DEF TableIds

\* The end of a table records how it ended and goes on to the next table, or to the end.
LEMMA FinishRecords ==
    ASSUME HarvestInv, stage = "walk", NEW end, FinishTable(end, walk.rows)
    PROVE  LET d == Len(info.table_status)
               t == Tables[d + 1]
               status == Append(info.table_status,
                                [table |-> t, rows |-> Len(walk.rows), complete |-> complete(end)])
           IN  /\ t \in TableIds /\ walk.root = <<t>> /\ d \in 0..3
               /\ DOMAIN info' = InfoFields
               /\ info'.table_status = status
               /\ info' = Recorded(info, t, walk.rows, status)
               /\ \/ d = 3 /\ stage' = "done"
                  \/ /\ d + 1 \in 0..3 /\ stage' = "walk"
                     /\ walk' = NewWalk(<<Tables[d + 2]>>) /\ Tables[d + 2] \in TableIds
  <1> DEFINE d == Len(info.table_status)
             t == Tables[d + 1]
             status == Append(info.table_status,
                              [table |-> t, rows |-> Len(walk.rows), complete |-> complete(end)])
  <1>1. d \in 0..3 /\ walk.root = <<t>> /\ DOMAIN info = InfoFields
    BY Zenon DEF HarvestInv
  <1> HIDE DEF d, t
  <1>2. t \in TableIds /\ walk.root[1] = t
    <2>1. d + 1 \in 1..4
      BY <1>1
    <2>2. t \in TableIds
      BY <2>1, TableOrder, Zenon DEF t
    <2>3. \A x : <<x>>[1] = x
      BY Zenon
    <2> QED BY <1>1, <2>2, <2>3, Zenon
  <1>3. /\ info' = Recorded(info, t, walk.rows, status)
        /\ stage' = IF d + 1 = Len(Tables) THEN "done" ELSE "walk"
        /\ walk' = IF d + 1 = Len(Tables) THEN NewWalk(<<>>) ELSE NewWalk(<<Tables[d + 1 + 1]>>)
    BY <1>2, Zenon DEF FinishTable, Recorded, d
  <1>4. DOMAIN info' = InfoFields /\ info'.table_status = status
    <2> HIDE DEF status
    <2>1. PICK b \in InfoFields \ {"table_status"} : \E a :
             info' = [info EXCEPT !.table_status = status, ![b] = a]
      <3>1. /\ "arp_cache" \in InfoFields \ {"table_status"} /\ "routes" \in InfoFields \ {"table_status"}
            /\ "local_ips" \in InfoFields \ {"table_status"} /\ "inet_routes" \in InfoFields \ {"table_status"}
        BY Zenon DEF InfoFields
      <3>2. \/ info' = [info EXCEPT !.table_status = status, !.arp_cache = arp_cache(walk.rows)]
            \/ info' = [info EXCEPT !.table_status = status, !.routes = routes(walk.rows)]
            \/ info' = [info EXCEPT !.table_status = status, !.local_ips = local_ips(walk.rows)]
            \/ info' = [info EXCEPT !.table_status = status, !.inet_routes = inet_routes(walk.rows)]
        BY <1>2, <1>3, SMTT(30) DEF TableIds, Recorded
      <3> QED BY <3>1, <3>2, Zenon
    <2>2. b \in InfoFields /\ b # "table_status"
      BY Zenon
    <2>3. PICK a : info' = [info EXCEPT !.table_status = status, ![b] = a]
      BY <2>1, Zenon
    <2>4. "table_status" \in InfoFields
      BY Zenon DEF InfoFields
    <2> QED BY <1>1, <2>2, <2>3, <2>4, Zenon
  <1>5. \/ d = 3 /\ stage' = "done"
        \/ /\ d + 1 \in 0..3 /\ stage' = "walk"
           /\ walk' = NewWalk(<<Tables[d + 2]>>) /\ Tables[d + 2] \in TableIds
    <2>1. CASE d = 3
      <3>1. d + 1 = Len(Tables)
        BY <2>1, TableOrder
      <3> QED BY <1>3, <2>1, <3>1, Zenon
    <2>2. CASE d # 3
      <3>1. d + 1 # Len(Tables) /\ d + 1 \in 0..3 /\ d + 1 + 1 = d + 2 /\ d + 2 \in 1..4
        BY <1>1, <2>2, TableOrder
      <3> QED BY <1>3, <3>1, TableOrder, Zenon
    <2> QED BY <2>1, <2>2, Zenon
  <1> QED BY <1>1, <1>2, <1>3, <1>4, <1>5, Zenon DEF d, t, status

\* The end of a table keeps the invariant, when a table called complete has all its rows.
LEMMA FinishKeeps ==
    ASSUME HarvestInv, WalkInv, stage = "walk", NEW end, FinishTable(end, walk.rows),
           mib' = mib, lies' \in Nat,
           lies' = 0 =>
              /\ lies = 0
              /\ complete(end) =>
                    HasInstances(mib, walk.root, Len(walk.rows))
    PROVE  HarvestInv'
  <1> DEFINE d == Len(info.table_status)
             t == Tables[d + 1]
             row == [table |-> t, rows |-> Len(walk.rows), complete |-> complete(end)]
             status == Append(info.table_status, row)
  <1>1. /\ t \in TableIds /\ walk.root = <<t>> /\ d \in 0..3
        /\ DOMAIN info' = InfoFields /\ info'.table_status = status
        /\ info' = Recorded(info, t, walk.rows, status)
        /\ \/ d = 3 /\ stage' = "done"
           \/ /\ d + 1 \in 0..3 /\ stage' = "walk"
              /\ walk' = NewWalk(<<Tables[d + 2]>>) /\ Tables[d + 2] \in TableIds
    BY FinishRecords, Zenon
  <1>2. row.table = t /\ row.rows = Len(walk.rows) /\ row.complete = complete(end)
    BY Zenon
  <1>3. IsSeq(info.table_status) /\ DOMAIN info = InfoFields /\ mib \in Mibs /\ IsSeq(walk.rows)
    BY Zenon DEF HarvestInv, WalkInv, WalkShape
  <1>4. IsMib(mib)
    BY <1>3, MibAssumption, Zenon
  <1> HIDE DEF d, t, row, status
  <1>5. Grown(info.table_status, row, status)
    BY <1>3, RowsGrow, Zenon DEF status
  <1>6. IsSeq(info'.table_status) /\ Len(info'.table_status) = d + 1
    BY <1>1, <1>5, Zenon DEF Grown, d
  <1>7. \A x : NewWalk(x).root = x /\ <<x>>[1] = x
    BY Zenon DEF NewWalk
  <1>8. stage' \notin DOMAIN ScalarOid
    BY <1>1, Zenon DEF ScalarOid
  <1>9. stage' = "walk" => /\ Len(info'.table_status) \in 0..3
                           /\ walk'.root = <<Tables[Len(info'.table_status) + 1]>>
    <2>1. d + 1 + 1 = d + 2
      BY <1>1
    <2> QED BY <1>1, <1>6, <1>7, <2>1, Zenon
  <1>10. ASSUME lies' = 0 PROVE TruthInv'
    <2>1. TruthInv /\ lies = 0
      BY <1>10, Zenon DEF HarvestInv
    <2>2. stage' = "walk" => AtRun(walk', mib, walk'.root[1])
      <3>1. ASSUME stage' = "walk" PROVE AtRun(walk', mib, walk'.root[1])
        <4>1. walk' = NewWalk(<<Tables[d + 2]>>) /\ Tables[d + 2] \in TableIds
          BY <1>1, <3>1, Zenon
        <4>2. walk'.root[1] = Tables[d + 2]
          BY <1>7, <4>1, Zenon
        <4> QED BY <1>4, <4>1, <4>2, RunBegins, Zenon
      <3> QED BY <3>1, Zenon
    <2>3. Agrees(info', Whole(mib))
      <3>1. PICK s \in Nat : RunFrom(mib, t, walk.rows, s)
        BY <1>1, <1>7, <2>1, Zenon DEF TruthInv, AtRun
      <3>2. Agrees(info, Whole(mib))
        BY <2>1, Zenon DEF TruthInv
      <3> QED BY <1>1, <1>3, <1>4, <3>1, <3>2, AgreesOn, Zenon
    <2>4. ASSUME NEW i \in DOMAIN info'.table_status PROVE StatusHolds(info'.table_status[i], mib)
      <3>1. /\ DOMAIN status = 1..(d + 1) /\ d \in Nat /\ status[d + 1] = row
            /\ \A k \in 1..d : status[k] = info.table_status[k] /\ k \in DOMAIN info.table_status
        BY <1>5, Zenon DEF Grown, d
      <3>2. i \in 1..d \/ i = d + 1
        BY <1>1, <3>1
      <3>3. CASE i \in 1..d
        BY <1>1, <2>1, <3>1, <3>3, Zenon DEF TruthInv
      <3>4. CASE i = d + 1
        <4>1. StatusHolds(row, mib)
          BY <1>1, <1>2, <1>10, Zenon DEF StatusHolds
        <4> QED BY <1>1, <3>1, <3>4, <4>1, Zenon
      <3> QED BY <3>2, <3>3, <3>4
    <2> QED BY <2>2, <2>3, <2>4, Zenon DEF TruthInv
  <1> QED BY <1>1, <1>3, <1>6, <1>8, <1>9, <1>10, Zenon DEF HarvestInv

\* A walk step keeps it: with no lie told the walk takes the next instance of the table, and is
\* complete only where the table ends (snmp_walk_target).
LEMMA StepKeeps ==
    ASSUME HarvestInv, WalkInv, NEW lie \in BOOLEAN, WalkStep(lie)
    PROVE  HarvestInv'
  <1>1. PICK message \in Messages("GetNext", walk.current, lie) :
           IF WalkEnd(walk, message) = "advance"
           THEN /\ \E elapsed \in 0..RequestTimeout(walk) : walk' = Advanced(walk, message, elapsed)
                /\ UNCHANGED <<stage, info>>
           ELSE FinishTable(WalkEnd(walk, message), walk.rows)
    BY Zenon DEF WalkStep
  <1>2. stage = "walk" /\ mib' = mib /\ lies' = IF lie THEN lies + 1 ELSE lies
    BY Zenon DEF WalkStep, Counted
  <1>3. lies \in Nat /\ mib \in Mibs /\ IsSeq(walk.rows)
    BY Zenon DEF HarvestInv, WalkInv, WalkShape
  <1>4. lies' \in Nat /\ (lies' = 0 => lies = 0 /\ ~lie)
    BY <1>2, <1>3
  <1>5. IsMib(mib)
    BY <1>3, MibAssumption, Zenon
  <1> DEFINE t == Tables[Len(info.table_status) + 1]
  <1>6. walk.root = <<t>> /\ t \in TableIds /\ walk.root[1] = t
    <2>1. Len(info.table_status) \in 0..3 /\ walk.root = <<t>>
      BY <1>2, Zenon DEF HarvestInv
    <2> DEFINE d == Len(info.table_status)
    <2> HIDE DEF d
    <2>2. d \in 0..3 => d + 1 \in 1..4
      OBVIOUS
    <2>3. t \in TableIds
      BY <2>1, <2>2, TableOrder, Zenon DEF d
    <2>4. \A x : <<x>>[1] = x
      BY Zenon
    <2> QED BY <2>1, <2>3, <2>4, Zenon
  <1> HIDE DEF t
  <1>7. ASSUME lies' = 0
        PROVE  /\ WalkEnd(walk, message) = "advance" =>
                    \A elapsed : walk' = Advanced(walk, message, elapsed) => AtRun(walk', mib, t)
               /\ complete(WalkEnd(walk, message)) =>
                    HasInstances(mib, walk.root, Len(walk.rows))
    <2>1. AtRun(walk, mib, t)
      BY <1>2, <1>4, <1>6, <1>7, Zenon DEF HarvestInv, TruthInv
    <2>2. PICK s \in Nat : RunFrom(mib, t, walk.rows, s) /\ After(mib, walk.current, s + Len(walk.rows))
      BY <2>1, Zenon DEF AtRun
    <2> DEFINE p == s + Len(walk.rows)
    <2>3. message \in Brings(mib, "GetNext", walk.current)
      BY <1>1, <1>4, <1>7, Zenon DEF Messages, Replies, Brings
    <2>4. TakesNext(walk, message, mib, t, p)
      BY <1>3, <1>5, <1>6, <2>2, <2>3, WalkTakesNext, Zenon
    <2>5. ASSUME WalkEnd(walk, message) = "advance", NEW elapsed, walk' = Advanced(walk, message, elapsed)
          PROVE  AtRun(walk', mib, t)
      <3>1. walk'.rows = Append(walk.rows, mib[p + 1]) /\ walk'.current = mib[p + 1][1]
        <4>1. DOMAIN walk = {"root", "current", "rows", "steps", "spent"}
          BY Zenon DEF WalkInv, WalkShape
        <4>2. /\ walk'.rows = Append(walk.rows, message.varbinds[1])
              /\ walk'.current = message.varbinds[1][1]
          BY <2>5, <4>1, Zenon DEF Advanced
        <4> QED BY <2>4, <2>5, <4>2, Zenon DEF TakesNext
      <3> QED BY <1>3, <1>5, <2>2, <2>4, <2>5, <3>1, RunAdvances, Zenon DEF TakesNext
    <2>6. ASSUME complete(WalkEnd(walk, message))
          PROVE  HasInstances(mib, walk.root, Len(walk.rows))
      <3>1. \A j \in DOMAIN mib : mib[j][1][1] = t => j <= s + Len(walk.rows)
        BY <2>4, <2>6, Zenon DEF TakesNext
      <3>2. HasInstances(mib, <<t>>, Len(walk.rows))
        BY <1>3, <1>5, <1>6, <2>2, <3>1, RunIsTable, Zenon
      <3> QED BY <1>6, <3>2, Zenon
    <2> QED BY <2>5, <2>6, Zenon
  <1>8. CASE WalkEnd(walk, message) # "advance"
    <2>1. FinishTable(WalkEnd(walk, message), walk.rows)
      BY <1>1, <1>8, Zenon
    <2> QED BY <1>2, <1>4, <1>7, <2>1, FinishKeeps, Zenon
  <1>9. CASE WalkEnd(walk, message) = "advance"
    <2>1. PICK elapsed : walk' = Advanced(walk, message, elapsed)
      BY <1>1, <1>9, Zenon
    <2>2. stage' = stage /\ info' = info
      BY <1>1, <1>9, Zenon
    <2>3. walk'.root = walk.root
      <3>1. DOMAIN walk = {"root", "current", "rows", "steps", "spent"}
        BY Zenon DEF WalkInv, WalkShape
      <3> QED BY <2>1, <3>1, Zenon DEF Advanced
    <2>4. ASSUME lies' = 0 PROVE TruthInv'
      <3>1. AtRun(walk', mib, t)
        BY <1>7, <1>9, <2>1, <2>4, Zenon
      <3> QED BY <1>2, <1>4, <1>6, <2>2, <2>3, <2>4, <3>1, Zenon DEF HarvestInv, TruthInv
    <2> QED BY <1>2, <1>3, <1>4, <2>2, <2>3, <2>4, Zenon DEF HarvestInv
  <1> QED BY <1>8, <1>9, Zenon

\* A scalar read agrees with the whole answer, and the last one starts the first table.
LEMMA ScalarKeeps ==
    ASSUME HarvestInv, NEW lie \in BOOLEAN, GetScalar(lie)
    PROVE  HarvestInv'
  <1>1. stage \in {"sysDescr", "sysName", "ipForwarding"}
    BY Zenon DEF GetScalar, ScalarOid
  <1>2. mib' = mib /\ lies' = (IF lie THEN lies + 1 ELSE lies)
    BY Zenon DEF GetScalar, Counted
  <1>3. lies \in Nat /\ mib \in Mibs /\ DOMAIN info = InfoFields /\ IsSeq(info.table_status)
    BY Zenon DEF HarvestInv
  <1>4. lies' \in Nat /\ (lies' = 0 => lies = 0 /\ ~lie)
    BY <1>2, <1>3
  <1>5. Len(info.table_status) = 0
    BY Zenon DEF HarvestInv, GetScalar
  <1>6. lies' = 0 => TruthInv
    BY <1>4, Zenon DEF HarvestInv
  <1>7. {"sys_name", "forwarding", "table_status", "arp_cache", "routes", "local_ips", "inet_routes"}
          = InfoFields
    BY Zenon DEF InfoFields
  <1>8. PICK message \in Messages("Get", ScalarOid[stage], lie) :
            CASE stage = "sysDescr" ->
                  /\ stage' = IF message = None THEN "none"
                              ELSE IF message.varbinds = <<>> THEN "none" ELSE "sysName"
                  /\ UNCHANGED <<info, walk>>
             [] stage = "sysName" ->
                  /\ stage' = "ipForwarding" /\ UNCHANGED walk
                  /\ info' = [info EXCEPT !.sys_name = as_str(FirstValue(message))]
             [] stage = "ipForwarding" ->
                  /\ stage' = "walk"
                  /\ info' = [info EXCEPT !.forwarding =
                                IF FirstValue(message).kind = "int" /\ FirstValue(message).v \in {1, 2}
                                THEN FirstValue(message).v = 1 ELSE None]
                  /\ walk' = NewWalk(<<Tables[1]>>)
    BY Zenon DEF GetScalar
  <1> DEFINE oid == ScalarOid[stage]
             at == Instances(mib, oid)
             value == FirstValue(message)
  <1>9. ASSUME lies' = 0
        PROVE  \/ value.kind \in {"null", "absent"}
               \/ at # {} /\ value = mib[Min(at)][2]
    <2>1. message \in Brings(mib, "Get", oid)
      BY <1>4, <1>8, <1>9, Zenon DEF Messages, Replies, Brings
    <2>2. at = Instances(mib, oid) /\ value = FirstValue(message)
      BY Zenon
    <2> HIDE DEF oid, at, value
    <2>3. \/ FirstValue(message).kind \in {"null", "absent"}
          \/ at # {} /\ FirstValue(message) = mib[Min(at)][2]
      BY <2>1, <2>2, ScalarSays, Zenon
    <2> QED BY <2>2, <2>3, Zenon
  <1>10. CASE stage = "sysDescr"
    <2>1. info' = info /\ stage' \in {"none", "sysName"}
      BY <1>8, <1>10, Zenon
    <2>2. "none" # "walk" /\ "sysName" # "walk"
      BY Zenon
    <2>3. lies' = 0 => TruthInv'
      BY <1>2, <1>6, <2>1, <2>2, Zenon DEF TruthInv
    <2> QED BY <1>2, <1>3, <1>4, <1>5, <2>1, <2>2, <2>3, Zenon DEF HarvestInv
  <1>11. CASE stage = "sysName"
    <2>1. stage' = "ipForwarding" /\ info' = [info EXCEPT !.sys_name = as_str(value)]
      BY <1>8, <1>11, Zenon
    <2> HIDE DEF value, at, oid
    <2>2. /\ DOMAIN info' = InfoFields /\ info'.sys_name = as_str(value)
          /\ info'.forwarding = info.forwarding /\ info'.table_status = info.table_status
          /\ info'.arp_cache = info.arp_cache /\ info'.routes = info.routes
          /\ info'.local_ips = info.local_ips /\ info'.inet_routes = info.inet_routes
      BY <1>3, <1>7, <2>1, Zenon
    <2>3. ASSUME lies' = 0 PROVE as_str(value) \in {None, Whole(mib).sys_name}
      <3>1. CASE value.kind \in {"null", "absent"}
        BY <3>1, Zenon DEF as_str
      <3>2. CASE at # {} /\ value = mib[Min(at)][2]
        BY <1>11, <3>2, WholeSays, Zenon DEF at, oid
      <3> QED BY <1>9, <2>3, <3>1, <3>2, Zenon
    <2>4. lies' = 0 => TruthInv'
      <3>1. "ipForwarding" # "walk"
        BY Zenon
      <3> QED BY <1>2, <1>6, <2>1, <2>2, <2>3, <3>1, Zenon DEF TruthInv, Agrees
    <2>5. "ipForwarding" # "walk"
      BY Zenon
    <2> QED BY <1>2, <1>3, <1>4, <1>5, <2>1, <2>2, <2>4, <2>5, Zenon DEF HarvestInv
  <1>12. CASE stage = "ipForwarding"
    <2> DEFINE flag == IF value.kind = "int" /\ value.v \in {1, 2} THEN value.v = 1 ELSE None
    <2>1. /\ stage' = "walk" /\ info' = [info EXCEPT !.forwarding = flag]
          /\ walk' = NewWalk(<<Tables[1]>>)
      BY <1>8, <1>12, Zenon
    <2> HIDE DEF value, at, oid, flag
    <2>2. /\ DOMAIN info' = InfoFields /\ info'.forwarding = flag
          /\ info'.sys_name = info.sys_name /\ info'.table_status = info.table_status
          /\ info'.arp_cache = info.arp_cache /\ info'.routes = info.routes
          /\ info'.local_ips = info.local_ips /\ info'.inet_routes = info.inet_routes
      BY <1>3, <1>7, <2>1, Zenon
    <2>3. ASSUME lies' = 0, flag = TRUE PROVE Whole(mib).forwarding = TRUE
      <3>1. value.kind = "int" /\ value.v = 1
        BY <2>3, HarvestAssumption, Zenon DEF flag
      <3>2. at # {} /\ value = mib[Min(at)][2]
        BY <1>9, <2>3, <3>1
      <3>3. Whole(mib).forwarding = (mib[Min(at)][2].v = 1)
        BY <1>12, <3>2, WholeSays, Zenon DEF at, oid
      <3> QED BY <3>1, <3>2, <3>3, Zenon
    <2>4. /\ walk'.root = <<Tables[1]>> /\ walk'.root[1] = Tables[1]
          /\ Tables[1] \in TableIds
      BY <2>1, TableOrder DEF NewWalk
    <2>5. ASSUME lies' = 0 PROVE TruthInv'
      <3>1. IsMib(mib)
        BY <1>3, MibAssumption, Zenon
      <3>2. AtRun(walk', mib, walk'.root[1])
        BY <2>1, <2>4, <3>1, RunBegins, Zenon
      <3> QED BY <1>2, <1>6, <2>2, <2>3, <2>5, <3>2, Zenon DEF TruthInv, Agrees
    <2>6. Len(info'.table_status) \in 0..3 /\ Tables[Len(info'.table_status) + 1] = Tables[1]
      BY <1>5, <2>2
    <2>7. "walk" \notin DOMAIN ScalarOid
      BY Zenon DEF ScalarOid
    <2> QED BY <1>2, <1>3, <1>4, <2>1, <2>2, <2>4, <2>5, <2>6, <2>7, Zenon DEF HarvestInv
  <1> QED BY <1>1, <1>10, <1>11, <1>12

\* A walk that is cut off keeps it: what it had is recorded as incomplete.
LEMMA BoundedKeeps ==
    ASSUME HarvestInv, WalkInv, Bounded
    PROVE  HarvestInv'
  <1>1. /\ stage = "walk" /\ FinishTable("Bounded", walk.rows)
        /\ mib' = mib /\ lies' = lies
    BY Zenon DEF Bounded
  <1>2. ~complete("Bounded")
    BY Zenon DEF complete
  <1>3. lies' \in Nat
    BY <1>1, Zenon DEF HarvestInv
  <1> QED BY <1>1, <1>2, <1>3, FinishKeeps, Zenon

\* Nothing was read at first.
LEMMA HarvestBegins == Init => HarvestInv
  <1> SUFFICES ASSUME Init PROVE HarvestInv
    BY Zenon
  <1>1. /\ mib \in Mibs /\ stage = "sysDescr" /\ lies = 0 /\ info = EmptyInfo
    BY Zenon DEF Init
  <1>2. /\ DOMAIN EmptyInfo = InfoFields /\ EmptyInfo.table_status = <<>>
        /\ EmptyInfo.sys_name = None /\ EmptyInfo.forwarding = None /\ EmptyInfo.arp_cache = {}
        /\ EmptyInfo.routes = {} /\ EmptyInfo.local_ips = {} /\ EmptyInfo.inet_routes = {}
    BY Zenon DEF EmptyInfo, InfoFields
  <1>3. IsSeq(<<>>) /\ Len(<<>>) = 0 /\ DOMAIN <<>> = {}
    BY DEF IsSeq
  <1>4. None # TRUE /\ stage # "walk" /\ lies \in Nat
    BY <1>1, HarvestAssumption, Zenon
  <1>5. Agrees(info, Whole(mib))
    BY <1>1, <1>2, <1>4, Zenon DEF Agrees
  <1>6. TruthInv
    BY <1>1, <1>2, <1>3, <1>4, <1>5, Zenon DEF TruthInv
  <1> QED BY <1>1, <1>2, <1>3, <1>4, <1>6, Zenon DEF HarvestInv

\* Every step of the harvest keeps it (harvest_snmp_target).
LEMMA HarvestKeeps == WalkInv /\ HarvestInv /\ [Next]_vars => HarvestInv'
  <1> SUFFICES ASSUME WalkInv, HarvestInv, [Next]_vars PROVE HarvestInv'
    BY Zenon
  <1>1. ASSUME NEW lie \in BOOLEAN, GetScalar(lie) PROVE HarvestInv'
    BY <1>1, ScalarKeeps, Zenon
  <1>2. ASSUME NEW lie \in BOOLEAN, WalkStep(lie) PROVE HarvestInv'
    BY <1>2, StepKeeps, Zenon
  <1>3. CASE Bounded
    BY <1>3, BoundedKeeps, Zenon
  <1>4. CASE Done \/ UNCHANGED vars
    BY <1>4, Zenon DEF Done, vars, HarvestInv, TruthInv
  <1> QED BY <1>1, <1>2, <1>3, <1>4, Zenon DEF Next

\* Of an agent that tells no lie, a table recorded as complete is the whole table, for every MIB,
\* bound and budget and however many answers are lost, late or errors (walk_table).
THEOREM CompleteTables == Spec => []CompleteIsWhole
  <1>1. Init => WalkInv
    BY WalkBegins, Zenon DEF Init, WalkInv
  <1>2. HarvestInv => CompleteIsWhole
    BY Zenon DEF HarvestInv, TruthInv, StatusHolds, CompleteIsWhole
  <1> QED BY <1>1, <1>2, WalkInvKept, HarvestBegins, HarvestKeeps, PTL DEF Spec

\* A harvest cut off anywhere claims nothing the device's whole answer would not, for every MIB
\* and every place to be cut off (snmp_harvest_evidence, inet_route_evidence).
THEOREM HalfRowsSayNothing == Spec => []PartialSaysLess
  <1>1. Init => WalkInv
    BY WalkBegins, Zenon DEF Init, WalkInv
  <1>2. ASSUME HarvestInv, lies = 0 PROVE Claims(ProviderEvidence) \subseteq WholeEvidence[mib]
    <2>1. WholeEvidence[mib] = snmp_harvest_evidence(Whole(mib))
      BY <1>2, Zenon DEF HarvestInv, WholeEvidence
    <2>2. Agrees(info, Whole(mib))
      BY <1>2, Zenon DEF HarvestInv, TruthInv
    <2>3. Claims(snmp_harvest_evidence(info)) \subseteq snmp_harvest_evidence(Whole(mib))
      BY <2>2, AgreesSaysLess, Zenon
    <2>4. Claims({}) = {}
      BY Zenon DEF Claims
    <2>5. ProviderEvidence = snmp_harvest_evidence(info) \/ ProviderEvidence = {}
      BY Zenon DEF ProviderEvidence
    <2> QED BY <2>1, <2>3, <2>4, <2>5, Zenon
  <1>3. HarvestInv => PartialSaysLess
    BY <1>2, Zenon DEF PartialSaysLess
  <1> QED BY <1>1, <1>3, WalkInvKept, HarvestBegins, HarvestKeeps, PTL DEF Spec

=============================================================================
