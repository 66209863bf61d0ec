----------------------------- MODULE RelayProofs -----------------------------
(* What the operations of the relay (RelayQueue) do, for any limits, sizes and *)
(* lifetimes: expiry, eviction, deposit and collect lose the oldest envelopes  *)
(* of a direction and nothing else, a deposit goes to the end, and every one   *)
(* of them keeps the byte count exact and the limits.  The loops and the sums  *)
(* of the model are taken apart by induction over a set of naturals: `Least`   *)
(* and `Inductive` are its forms, and a recursive function exists because its  *)
(* restriction to 0..n does for every n.                                       *)
EXTENDS FederationLink, FiniteSetTheorems, WellFoundedInduction, TLAPS

-----------------------------------------------------------------------------
(* Induction, over sets of naturals. *)

\* A set of naturals has a least one.
LEMMA Least ==
    ASSUME NEW T, T \subseteq Nat, T /= {}
    PROVE  \E x \in T : \A y \in T : x <= y
  <1> DEFINE R == OpToRel(<, Nat)
  <1>1. \E x \in T : \A y \in T : ~ (<<y, x>> \in R)
    <2>1. IsWellFoundedOn(R, Nat)
      BY NatLessThanWellFounded, Zenon
    <2> HIDE DEF R
    <2> QED BY <2>1, WFMin, Zenon
  <1>2. \A x, y \in Nat : y < x => <<y, x>> \in R
    BY Zenon DEF OpToRel
  <1> HIDE DEF R
  <1>3. PICK x \in T : \A y \in T : ~ (<<y, x>> \in R)
    BY <1>1, Zenon
  <1>4. ASSUME NEW y \in T PROVE x <= y
    <2>1. x \in Nat /\ y \in Nat /\ ~(y < x)
      BY <1>2, <1>3, Zenon
    <2> QED BY <2>1
  <1> QED BY <1>4, Zenon

\* A set that has zero and with each natural the next one has them all.
LEMMA Inductive ==
    ASSUME NEW S, 0 \in S, \A n \in Nat : n \in S => n + 1 \in S
    PROVE  \A n \in Nat : n \in S
  <1> DEFINE T == Nat \ S
  <1>1. SUFFICES ASSUME T /= {} PROVE FALSE
    BY Zenon
  <1>2. T \subseteq Nat
    BY Zenon
  <1> HIDE DEF T
  <1>3. PICK x \in T : \A y \in T : x <= y
    BY <1>1, <1>2, Least, Zenon
  <1>4. x \in Nat /\ x \notin S /\ x /= 0
    BY Zenon DEF T
  <1>5. x - 1 \in Nat /\ (x - 1) + 1 = x /\ ~(x <= x - 1)
    BY <1>4
  <1>6. x - 1 \notin T
    BY <1>3, <1>5, Zenon
  <1> QED BY <1>4, <1>5, <1>6, Zenon DEF T

-----------------------------------------------------------------------------
(* retain *)

\* The steps of Retained: the sequence kept of the first i elements, for every i.
LEMMA RetainedSteps ==
    ASSUME NEW T, NEW q \in Seq(T), NEW kept
    PROVE  \E u : /\ u[0] = <<>>
                  /\ \A i \in 1..Len(q) :
                       u[i] = IF i \in kept THEN Append(u[i - 1], q[i]) ELSE u[i - 1]
                  /\ Retained(q, kept) = u[Len(q)]
  <1> DEFINE Upto(u, n) == [i \in 0..n |-> IF i = 0 THEN <<>>
                                           ELSE IF i \in kept THEN Append(u[i - 1], q[i]) ELSE u[i - 1]]
             S == {n \in Nat : \E u : u = Upto(u, n)}
             u == CHOOSE u : u = Upto(u, Len(q))
  <1>1. 0 \in S
    <2> DEFINE w == [i \in 0..0 |-> <<>>]
    <2>1. w = Upto(w, 0)
      OBVIOUS
    <2> QED BY <2>1, Zenon
  <1>2. ASSUME NEW n \in Nat, n \in S PROVE n + 1 \in S
    <2>1. PICK v : v = Upto(v, n)
      BY <1>2, Zenon
    <2> DEFINE w == [i \in 0..(n + 1) |->
                       IF i = n + 1 THEN (IF i \in kept THEN Append(v[n], q[i]) ELSE v[n]) ELSE v[i]]
    <2>2. \A i \in 0..n : w[i] = v[i]
      OBVIOUS
    <2>3. \A i \in 0..(n + 1) :
            w[i] = IF i = 0 THEN <<>> ELSE IF i \in kept THEN Append(w[i - 1], q[i]) ELSE w[i - 1]
      <3> TAKE i \in 0..(n + 1)
      <3>1. CASE i = n + 1
        <4>1. i /= 0 /\ i - 1 = n /\ n \in 0..n
          BY <3>1
        <4>2. w[i] = IF i \in kept THEN Append(v[n], q[i]) ELSE v[n]
          BY <3>1, Zenon
        <4> QED BY <2>2, <4>1, <4>2, Zenon
      <3>2. CASE i /= n + 1
        <4>1. i \in 0..n /\ (i /= 0 => i - 1 \in 0..n)
          BY <3>2
        <4>2. v[i] = IF i = 0 THEN <<>> ELSE IF i \in kept THEN Append(v[i - 1], q[i]) ELSE v[i - 1]
          BY <2>1, <4>1, Zenon
        <4> HIDE DEF w
        <4> QED BY <2>2, <4>1, <4>2, Zenon
      <3> QED BY <3>1, <3>2, Zenon
    <2>4. w = [i \in 0..(n + 1) |-> w[i]]
      BY Zenon
    <2> HIDE DEF w
    <2>5. w = Upto(w, n + 1)
      BY <2>3, <2>4, Zenon
    <2>6. n + 1 \in Nat
      OBVIOUS
    <2> QED BY <2>5, <2>6, Zenon
  <1>3. Len(q) \in Nat
    OBVIOUS
  <1>4. Len(q) \in S
    <2> HIDE DEF S
    <2> QED BY <1>1, <1>2, <1>3, Inductive, Zenon
  <1>5. u = Upto(u, Len(q))
    BY <1>4, Zenon
  <1>6. Retained(q, kept) = u[Len(q)]
    BY Zenon DEF Retained
  <1> HIDE DEF u
  <1>7. u[0] = <<>> /\ \A i \in 1..Len(q) :
          u[i] = IF i \in kept THEN Append(u[i - 1], q[i]) ELSE u[i - 1]
    <2>1. \A i \in 0..Len(q) :
            u[i] = IF i = 0 THEN <<>> ELSE IF i \in kept THEN Append(u[i - 1], q[i]) ELSE u[i - 1]
      BY <1>5, Zenon
    <2>2. 0 \in 0..Len(q) /\ \A i \in 1..Len(q) : i \in 0..Len(q) /\ i /= 0
      BY <1>3
    <2> QED BY <2>1, <2>2, Zenon
  <1> QED BY <1>6, <1>7, Zenon

\* Keeping the later positions keeps the end of the sequence.
LEMMA RetainedEnd ==
    ASSUME NEW T, NEW q \in Seq(T), NEW kept, NEW d \in 0..Len(q),
           \A i \in 1..Len(q) : i \in kept <=> i > d
    PROVE  Retained(q, kept) = SubSeq(q, d + 1, Len(q))
  <1>1. PICK u : /\ u[0] = <<>>
                 /\ \A i \in 1..Len(q) :
                      u[i] = IF i \in kept THEN Append(u[i - 1], q[i]) ELSE u[i - 1]
                 /\ Retained(q, kept) = u[Len(q)]
    BY RetainedSteps, Zenon
  <1> DEFINE S == {n \in Nat : n <= Len(q) => u[n] = SubSeq(q, d + 1, n)}
  <1>2. 0 \in S
    <2>1. SubSeq(q, d + 1, 0) = <<>>
      OBVIOUS
    <2> QED BY <1>1, <2>1, Zenon
  <1>3. ASSUME NEW n \in Nat, n \in S PROVE n + 1 \in S
    <2> SUFFICES ASSUME n + 1 <= Len(q) PROVE u[n + 1] = SubSeq(q, d + 1, n + 1)
      OBVIOUS
    <2>1. n + 1 \in 1..Len(q) /\ (n + 1) - 1 = n /\ u[n] = SubSeq(q, d + 1, n)
      BY <1>3
    <2>2. u[n + 1] = IF n + 1 \in kept THEN Append(u[n], q[n + 1]) ELSE u[n]
      BY <1>1, <2>1, Zenon
    <2>3. CASE n + 1 > d
      <3>1. Append(SubSeq(q, d + 1, n), q[n + 1]) = SubSeq(q, d + 1, n + 1)
        BY <2>1, <2>3
      <3> QED BY <2>1, <2>2, <2>3, <3>1, Zenon
    <2>4. CASE ~(n + 1 > d)
      <3>1. SubSeq(q, d + 1, n) = <<>> /\ SubSeq(q, d + 1, n + 1) = <<>>
        BY <2>1, <2>4
      <3> QED BY <2>1, <2>2, <2>4, <3>1, Zenon
    <2> QED BY <2>3, <2>4, Zenon
  <1>4. Len(q) \in Nat
    OBVIOUS
  <1>5. Len(q) \in S
    <2> HIDE DEF S
    <2> QED BY <1>2, <1>3, <1>4, Inductive, Zenon
  <1> QED BY <1>1, <1>4, <1>5

\* The sequence t is made of the elements of q at the positions f, which are in `kept`, up to n
\* and ascending.
Picks(f, t, q, kept, n) ==
    /\ f \in [1..Len(t) -> 1..n]
    /\ \A j \in 1..Len(t) : f[j] \in kept /\ t[j] = q[f[j]]
    /\ \A j, k \in 1..Len(t) : j < k => f[j] < f[k]

\* What is kept are elements of the sequence at positions in the set, in their order.
LEMMA RetainedPicks ==
    ASSUME NEW T, NEW q \in Seq(T), NEW kept
    PROVE  /\ Retained(q, kept) \in Seq(T)
           /\ \E f : Picks(f, Retained(q, kept), q, kept, Len(q))
  <1>1. PICK u : /\ u[0] = <<>>
                 /\ \A i \in 1..Len(q) :
                      u[i] = IF i \in kept THEN Append(u[i - 1], q[i]) ELSE u[i - 1]
                 /\ Retained(q, kept) = u[Len(q)]
    BY RetainedSteps, Zenon
  <1> DEFINE S == {n \in Nat : n <= Len(q) => u[n] \in Seq(T) /\ \E f : Picks(f, u[n], q, kept, n)}
  <1>2. 0 \in S
    <2>1. Picks([j \in 1..0 |-> 0], <<>>, q, kept, 0)
      BY DEF Picks
    <2>2. <<>> \in Seq(T) /\ 0 \in Nat
      OBVIOUS
    <2> QED BY <1>1, <2>1, <2>2, Zenon
  <1>3. ASSUME NEW n \in Nat, n \in S PROVE n + 1 \in S
    <2> SUFFICES ASSUME n + 1 <= Len(q)
                 PROVE  u[n + 1] \in Seq(T) /\ \E f : Picks(f, u[n + 1], q, kept, n + 1)
      OBVIOUS
    <2>1. n + 1 \in 1..Len(q) /\ (n + 1) - 1 = n /\ n <= Len(q)
      OBVIOUS
    <2> DEFINE t == u[n]
               w == Append(t, q[n + 1])
    <2>2. t \in Seq(T) /\ \E f : Picks(f, t, q, kept, n)
      BY <1>3, <2>1, Zenon
    <2>3. PICK f : Picks(f, t, q, kept, n)
      BY <2>2, Zenon
    <2>4. u[n + 1] = IF n + 1 \in kept THEN w ELSE t
      BY <1>1, <2>1, Zenon
    <2> HIDE DEF t
    <2>5. CASE n + 1 \in kept
      <3> DEFINE g == [j \in 1..(Len(t) + 1) |-> IF j = Len(t) + 1 THEN n + 1 ELSE f[j]]
      <3>1. /\ w \in Seq(T) /\ Len(w) = Len(t) + 1 /\ w[Len(t) + 1] = q[n + 1] /\ Len(t) \in Nat
            /\ \A j \in 1..Len(t) : w[j] = t[j]
        BY <2>1, <2>2
      <3>2. /\ g[Len(t) + 1] = n + 1
            /\ \A j \in 1..Len(t) : g[j] = f[j] /\ f[j] \in 1..n
        BY <2>3, <3>1 DEF Picks
      <3> HIDE DEF w
      <3>3. g \in [1..Len(w) -> 1..(n + 1)]
        <4>1. g = [j \in 1..Len(w) |-> g[j]]
          BY <3>1, Zenon
        <4> HIDE DEF g
        <4>2. \A j \in 1..Len(w) : g[j] \in 1..(n + 1)
          BY <3>1, <3>2
        <4> QED BY <4>1, <4>2, Zenon
      <3> HIDE DEF g
      <3>4. ASSUME NEW j \in 1..Len(w) PROVE g[j] \in kept /\ w[j] = q[g[j]]
        <4>1. j \in 1..Len(t) \/ j = Len(t) + 1
          BY <3>1
        <4>2. CASE j \in 1..Len(t)
          BY <2>3, <3>1, <3>2, <4>2, Zenon DEF Picks
        <4>3. CASE j = Len(t) + 1
          BY <2>5, <3>1, <3>2, <4>3, Zenon
        <4> QED BY <4>1, <4>2, <4>3, Zenon
      <3>5. ASSUME NEW j \in 1..Len(w), NEW k \in 1..Len(w), j < k PROVE g[j] < g[k]
        <4>1. j \in 1..Len(t)
          BY <3>1, <3>5
        <4>2. CASE k = Len(t) + 1
          BY <3>2, <4>1, <4>2
        <4>3. CASE k /= Len(t) + 1
          <5>1. k \in 1..Len(t)
            BY <3>1, <4>3
          <5>2. f[j] < f[k]
            BY <2>3, <3>5, <4>1, <5>1, Zenon DEF Picks
          <5> QED BY <3>2, <4>1, <5>1, <5>2, Zenon
        <4> QED BY <4>2, <4>3, Zenon
      <3>6. Picks(g, w, q, kept, n + 1)
        BY <3>3, <3>4, <3>5, Zenon DEF Picks
      <3> QED BY <2>4, <2>5, <3>1, <3>6, Zenon
    <2>6. CASE n + 1 \notin kept
      <3>1. Picks(f, t, q, kept, n + 1)
        BY <2>3 DEF Picks
      <3> QED BY <2>2, <2>4, <2>6, <3>1, Zenon
    <2> QED BY <2>5, <2>6, Zenon
  <1>4. Len(q) \in Nat /\ Len(q) <= Len(q)
    OBVIOUS
  <1>5. Len(q) \in S
    <2> HIDE DEF S
    <2> QED BY <1>2, <1>3, <1>4, Inductive, Zenon
  <1> QED BY <1>1, <1>4, <1>5, Zenon

-----------------------------------------------------------------------------
(* Sums over finite sets. *)

\* The finite sets by induction: the empty one, and every one whose smaller parts are there.
LEMMA Smaller ==
    ASSUME NEW S, IsFiniteSet(S), NEW G, {} \in G,
           \A s \in SUBSET S : s /= {} /\ (\A x \in s : s \ {x} \in G) => s \in G
    PROVE  \A s \in SUBSET S : s \in G
  <1> DEFINE I == {n \in Nat : \A s \in SUBSET S : Cardinality(s) = n => s \in G}
  <1>1. \A s \in SUBSET S : IsFiniteSet(s) /\ Cardinality(s) \in Nat
    BY FS_Subset, FS_CardinalityType, Zenon
  <1>2. 0 \in I
    <2>1. \A s \in SUBSET S : Cardinality(s) = 0 => s = {}
      BY <1>1, FS_EmptySet, Zenon
    <2>2. 0 \in Nat
      BY Zenon
    <2> QED BY <2>1, <2>2, Zenon
  <1>3. ASSUME NEW n \in Nat, n \in I PROVE n + 1 \in I
    <2>1. ASSUME NEW s \in SUBSET S, Cardinality(s) = n + 1 PROVE s \in G
      <3>1. s /= {}
        <4>1. n + 1 /= 0
          OBVIOUS
        <4> QED BY <2>1, <4>1, FS_EmptySet, Zenon
      <3>2. ASSUME NEW x \in s PROVE s \ {x} \in G
        <4>1. s \ {x} \in SUBSET S /\ Cardinality(s \ {x}) = Cardinality(s) - 1
          BY <1>1, FS_RemoveElement, Zenon
        <4>2. (n + 1) - 1 = n
          OBVIOUS
        <4> QED BY <1>3, <2>1, <4>1, <4>2, Zenon
      <3> QED BY <3>1, <3>2, Zenon
    <2>2. n + 1 \in Nat
      OBVIOUS
    <2> QED BY <2>1, <2>2, Zenon
  <1>4. \A n \in Nat : n \in I
    <2> HIDE DEF I
    <2> QED BY <1>2, <1>3, Inductive, Zenon
  <1> QED BY <1>1, <1>4, Zenon

Pick(s) == CHOOSE x \in s : TRUE

\* Partial sums of w: of nothing, and of one element and the rest.
Partial(it, w, S) ==
    /\ it[{}] = 0
    /\ \A s \in SUBSET S : s /= {} => it[s] = w[Pick(s)] + it[s \ {Pick(s)}]

\* A set that is not empty has its picked element.
LEMMA Picked ==
    ASSUME NEW s, s /= {}
    PROVE  Pick(s) \in s
  BY Zenon DEF Pick

\* The sum over a finite set is the last of its partial sums.
LEMMA PartialSums ==
    ASSUME NEW w, NEW S, IsFiniteSet(S)
    PROVE  \E it : Partial(it, w, S) /\ SumFunctionOnSet(w, S) = it[S]
  <1> DEFINE Level(n) == {s \in SUBSET S : Cardinality(s) <= n}
             Step(it, s) == IF s = {} THEN 0 ELSE w[Pick(s)] + it[s \ {Pick(s)}]
             I == {n \in Nat : \E it : it = [s \in Level(n) |-> Step(it, s)]}
             it == CHOOSE it : it = [s \in SUBSET S |-> Step(it, s)]
  <1>1. \A s \in SUBSET S : IsFiniteSet(s) /\ Cardinality(s) \in Nat
    BY FS_Subset, FS_CardinalityType, Zenon
  <1>2. 0 \in I
    <2> DEFINE v == [s \in Level(0) |-> 0]
    <2>1. \A s \in Level(0) : s = {}
      <3>1. \A s \in Level(0) : IsFiniteSet(s) /\ Cardinality(s) = 0
        BY <1>1
      <3> QED BY <3>1, FS_EmptySet, Zenon
    <2> HIDE DEF Level
    <2>2. v = [s \in Level(0) |-> Step(v, s)]
      BY <2>1, Zenon
    <2>3. 0 \in Nat
      BY Zenon
    <2> QED BY <2>2, <2>3, Zenon
  <1>3. ASSUME NEW n \in Nat, n \in I PROVE n + 1 \in I
    <2>1. PICK v : v = [s \in Level(n) |-> Step(v, s)]
      BY <1>3, Zenon
    <2> DEFINE u == [s \in Level(n + 1) |-> Step(v, s)]
    <2>2. Level(n) \subseteq Level(n + 1)
      BY <1>1
    <2>3. ASSUME NEW s \in Level(n + 1), s /= {} PROVE s \ {Pick(s)} \in Level(n)
      <3>1. Pick(s) \in s
        BY <2>3, Picked, Zenon
      <3>2. IsFiniteSet(s) /\ Cardinality(s) \in Nat /\ Cardinality(s) <= n + 1
        BY <1>1, Zenon
      <3>3. Cardinality(s \ {Pick(s)}) = Cardinality(s) - 1
        BY <3>1, <3>2, FS_RemoveElement, Zenon
      <3>4. Cardinality(s \ {Pick(s)}) <= n
        BY <3>2, <3>3
      <3> QED BY <3>4, Zenon
    <2> HIDE DEF Level
    <2>4. \A s \in Level(n) : u[s] = v[s]
      BY <2>1, <2>2, Zenon
    <2>5. \A s \in Level(n + 1) : Step(v, s) = Step(u, s)
      BY <2>3, <2>4, Zenon
    <2>6. u = [s \in Level(n + 1) |-> Step(u, s)]
      <3> HIDE DEF Step
      <3> QED BY <2>5, Zenon
    <2>7. n + 1 \in Nat
      OBVIOUS
    <2> QED BY <2>6, <2>7, Zenon
  <1>4. Cardinality(S) \in Nat /\ Level(Cardinality(S)) = SUBSET S
    <2>1. Cardinality(S) \in Nat
      BY <1>1, Zenon
    <2>2. \A s \in SUBSET S : Cardinality(s) <= Cardinality(S)
      BY FS_Subset, Zenon
    <2> QED BY <2>1, <2>2, Zenon
  <1>5. Cardinality(S) \in I
    <2> HIDE DEF I
    <2> QED BY <1>2, <1>3, <1>4, Inductive, Zenon
  <1>6. it = [s \in SUBSET S |-> Step(it, s)]
    <2> HIDE DEF Level, Step
    <2> QED BY <1>4, <1>5, Zenon
  <1>7. SumFunctionOnSet(w, S) = it[S]
    BY Zenon DEF SumFunctionOnSet, FoldFunctionOnSet, MapThenFoldSet, Pick
  <1> HIDE DEF it
  <1>8. \A s \in SUBSET S : it[s] = Step(it, s)
    <2> HIDE DEF Step
    <2> QED BY <1>6, Zenon
  <1>9. Partial(it, w, S)
    BY <1>8, Zenon DEF Partial
  <1> QED BY <1>7, <1>9, Zenon

\* Partial sums do not depend on the set they are parts of.
LEMMA PartialAgree ==
    ASSUME NEW w, NEW S, IsFiniteSet(S), NEW T \in SUBSET S,
           NEW a, Partial(a, w, S), NEW b, Partial(b, w, T)
    PROVE  a[T] = b[T]
  <1> DEFINE G == {s \in SUBSET T : a[s] = b[s]}
  <1>1. {} \in G
    BY Zenon DEF Partial
  <1>2. ASSUME NEW s \in SUBSET T, s /= {}, \A x \in s : s \ {x} \in G PROVE s \in G
    <2>1. s \ {Pick(s)} \in G
      BY <1>2, Picked, Zenon
    <2>2. a[s] = w[Pick(s)] + a[s \ {Pick(s)}] /\ b[s] = w[Pick(s)] + b[s \ {Pick(s)}]
      BY <1>2, Zenon DEF Partial
    <2> QED BY <2>1, <2>2, Zenon
  <1>3. IsFiniteSet(T)
    BY FS_Subset, Zenon
  <1>4. T \in G
    <2> HIDE DEF G
    <2> QED BY <1>1, <1>2, <1>3, Smaller, Zenon
  <1> QED BY <1>4, Zenon

\* A sum is its picked term and the sum of the rest.
LEMMA SumPicked ==
    ASSUME NEW w, NEW S, IsFiniteSet(S)
    PROVE  /\ SumFunctionOnSet(w, {}) = 0
           /\ S /= {} => SumFunctionOnSet(w, S) = w[Pick(S)] + SumFunctionOnSet(w, S \ {Pick(S)})
  <1>1. SumFunctionOnSet(w, {}) = 0
    <2>1. IsFiniteSet({})
      BY FS_EmptySet, Zenon
    <2> QED BY <2>1, PartialSums, Zenon DEF Partial
  <1>2. ASSUME S /= {}
        PROVE  SumFunctionOnSet(w, S) = w[Pick(S)] + SumFunctionOnSet(w, S \ {Pick(S)})
    <2> DEFINE T == S \ {Pick(S)}
    <2>1. T \in SUBSET S /\ S \in SUBSET S
      BY Zenon
    <2>2. IsFiniteSet(T)
      BY <2>1, FS_Subset, Zenon
    <2>3. PICK a : Partial(a, w, S) /\ SumFunctionOnSet(w, S) = a[S]
      BY PartialSums, Zenon
    <2>4. a[S] = w[Pick(S)] + a[T]
      BY <1>2, <2>1, <2>3, Zenon DEF Partial
    <2> HIDE DEF T
    <2>5. PICK b : Partial(b, w, T) /\ SumFunctionOnSet(w, T) = b[T]
      BY <2>2, PartialSums, Zenon
    <2>6. a[T] = b[T]
      BY <2>1, <2>3, <2>5, PartialAgree
    <2> QED BY <2>3, <2>4, <2>5, <2>6, Zenon DEF T
  <1> QED BY <1>1, <1>2, Zenon

\* A sum of naturals is one.
LEMMA SumNat ==
    ASSUME NEW S, IsFiniteSet(S), NEW w, \A x \in S : w[x] \in Nat
    PROVE  \A s \in SUBSET S : SumFunctionOnSet(w, s) \in Nat
  <1> DEFINE G == {s \in SUBSET S : SumFunctionOnSet(w, s) \in Nat}
  <1>1. {} \in G
    <2>1. SumFunctionOnSet(w, {}) = 0 /\ 0 \in Nat
      BY SumPicked, Zenon
    <2> QED BY <2>1, Zenon
  <1>2. ASSUME NEW s \in SUBSET S, s /= {}, \A x \in s : s \ {x} \in G PROVE s \in G
    <2>1. Pick(s) \in s /\ w[Pick(s)] \in Nat /\ IsFiniteSet(s)
      BY <1>2, Picked, FS_Subset, Zenon
    <2>2. SumFunctionOnSet(w, s) = w[Pick(s)] + SumFunctionOnSet(w, s \ {Pick(s)})
      BY <1>2, <2>1, SumPicked, Zenon
    <2>3. SumFunctionOnSet(w, s \ {Pick(s)}) \in Nat
      BY <1>2, <2>1, Zenon
    <2>4. SumFunctionOnSet(w, s) \in Nat
      BY <2>1, <2>2, <2>3
    <2> QED BY <2>4, Zenon
  <1> HIDE DEF G
  <1>3. \A s \in SUBSET S : s \in G
    BY <1>1, <1>2, Smaller, Zenon
  <1> QED BY <1>3, Zenon DEF G

Splits(w, S) ==
    \A s \in SUBSET S : \A x \in s :
        SumFunctionOnSet(w, s) = w[x] + SumFunctionOnSet(w, s \ {x})

\* A sum is any of its terms and the sum of the rest.
LEMMA SumAny ==
    ASSUME NEW S, IsFiniteSet(S), NEW w, \A x \in S : w[x] \in Nat
    PROVE  Splits(w, S)
  <1> DEFINE sum(s) == SumFunctionOnSet(w, s)
             G == {s \in SUBSET S : \A x \in s : sum(s) = w[x] + sum(s \ {x})}
  <1>1. {} \in G
    BY Zenon
  <1>2. ASSUME NEW s \in SUBSET S, s /= {}, \A x \in s : s \ {x} \in G PROVE s \in G
    <2> DEFINE y == Pick(s)
    <2>1. y \in s /\ w[y] \in Nat /\ IsFiniteSet(s)
      BY <1>2, Picked, FS_Subset, Zenon
    <2>2. sum(s) = w[y] + sum(s \ {y})
      BY <1>2, <2>1, SumPicked, Zenon
    <2> HIDE DEF y, sum
    <2>3. ASSUME NEW x \in s PROVE sum(s) = w[x] + sum(s \ {x})
      <3>1. CASE x = y
        BY <2>2, <3>1, Zenon
      <3>2. CASE x /= y
        <4> DEFINE rest == (s \ {x}) \ {y}
        <4>1. (s \ {y}) \ {x} = rest /\ x \in s \ {y} /\ y \in s \ {x} /\ rest \in SUBSET S
          BY <2>1, <3>2, Zenon
        <4>2. s \ {y} \in G /\ s \ {x} \in G
          BY <1>2, <2>1, Zenon
        <4>3. sum(s \ {y}) = w[x] + sum((s \ {y}) \ {x}) /\ sum(s \ {x}) = w[y] + sum(rest)
          BY <4>1, <4>2, Zenon
        <4> HIDE DEF rest
        <4>4. sum(rest) \in Nat /\ w[x] \in Nat
          BY <4>1, SumNat, Zenon DEF sum
        <4>5. sum(s \ {y}) = w[x] + sum(rest)
          BY <4>1, <4>3, Zenon
        <4> QED BY <2>1, <2>2, <4>3, <4>4, <4>5
      <3> QED BY <3>1, <3>2, Zenon
    <2> QED BY <2>3, Zenon
  <1> HIDE DEF G, sum
  <1>3. \A s \in SUBSET S : s \in G
    BY <1>1, <1>2, Smaller, Zenon
  <1> QED BY <1>3, Zenon DEF G, sum, Splits

\* Smaller terms have a smaller sum.
LEMMA SumLess ==
    ASSUME NEW S, IsFiniteSet(S), NEW v, NEW w,
           \A x \in S : v[x] \in Nat /\ w[x] \in Nat /\ v[x] <= w[x]
    PROVE  SumFunctionOnSet(v, S) <= SumFunctionOnSet(w, S)
  <1>a. /\ \A x \in S : v[x] \in Nat /\ w[x] \in Nat
        /\ Splits(v, S) /\ Splits(w, S)
    BY SumAny, Zenon
  <1> DEFINE G == {s \in SUBSET S : SumFunctionOnSet(v, s) <= SumFunctionOnSet(w, s)}
  <1>1. {} \in G
    <2>1. SumFunctionOnSet(v, {}) = 0 /\ SumFunctionOnSet(w, {}) = 0
      BY SumPicked, Zenon
    <2> QED BY <2>1
  <1>2. ASSUME NEW s \in SUBSET S, s /= {}, \A x \in s : s \ {x} \in G PROVE s \in G
    <2> DEFINE x == Pick(s)
               r == s \ {x}
    <2>1. x \in s /\ r \in SUBSET S
      BY <1>2, Picked, Zenon
    <2>2. /\ SumFunctionOnSet(v, s) = v[x] + SumFunctionOnSet(v, r)
          /\ SumFunctionOnSet(w, s) = w[x] + SumFunctionOnSet(w, r)
      BY <1>a, <2>1, Zenon DEF Splits
    <2>3. SumFunctionOnSet(v, r) \in Nat /\ SumFunctionOnSet(w, r) \in Nat
      BY <1>a, <2>1, SumNat, Zenon
    <2>4. SumFunctionOnSet(v, r) <= SumFunctionOnSet(w, r)
      BY <1>2, <2>1, Zenon
    <2>5. v[x] \in Nat /\ w[x] \in Nat /\ v[x] <= w[x]
      BY <2>1, Zenon
    <2> HIDE DEF x, r
    <2>6. SumFunctionOnSet(v, s) <= SumFunctionOnSet(w, s)
      BY <2>2, <2>3, <2>4, <2>5
    <2> QED BY <2>6, Zenon
  <1> HIDE DEF G
  <1>3. \A s \in SUBSET S : s \in G
    BY <1>1, <1>2, Smaller, Zenon
  <1>4. S \in SUBSET S
    BY Zenon
  <1> QED BY <1>3, <1>4, Zenon DEF G

\* The same terms have the same sum.
LEMMA SumSame ==
    ASSUME NEW S, IsFiniteSet(S), NEW v, NEW w, \A x \in S : w[x] \in Nat /\ v[x] = w[x]
    PROVE  SumFunctionOnSet(v, S) = SumFunctionOnSet(w, S)
  <1>1. \A x \in S : v[x] \in Nat /\ w[x] \in Nat /\ v[x] <= w[x] /\ w[x] <= v[x]
    OBVIOUS
  <1>2. /\ SumFunctionOnSet(v, S) <= SumFunctionOnSet(w, S)
        /\ SumFunctionOnSet(w, S) <= SumFunctionOnSet(v, S)
    BY <1>1, SumLess, Zenon
  <1>3. SumFunctionOnSet(v, S) \in Nat /\ SumFunctionOnSet(w, S) \in Nat
    <2>1. S \in SUBSET S
      BY Zenon
    <2> QED BY <1>1, <2>1, SumNat, Zenon
  <1> QED BY <1>2, <1>3

\* Terms that are zero do not count.
LEMMA SumZeros ==
    ASSUME NEW S, IsFiniteSet(S), NEW w, \A x \in S : w[x] \in Nat,
           NEW T \in SUBSET S, \A x \in S \ T : w[x] = 0
    PROVE  SumFunctionOnSet(w, S) = SumFunctionOnSet(w, T)
  <1>a. Splits(w, S)
    BY SumAny, Zenon
  <1> DEFINE sum(s) == SumFunctionOnSet(w, s)
             G == {s \in SUBSET S : sum(s) = sum(s \cap T)}
  <1>1. {} \in G
    <2>1. {} \cap T = {} /\ {} \in SUBSET S
      BY Zenon
    <2> QED BY <2>1, Zenon
  <1>2. ASSUME NEW s \in SUBSET S, s /= {}, \A x \in s : s \ {x} \in G PROVE s \in G
    <2> DEFINE x == Pick(s)
    <2>1. x \in s /\ w[x] \in Nat /\ s \ {x} \in SUBSET S /\ s \cap T \in SUBSET S
      BY <1>2, Picked, Zenon
    <2>2. sum(s) = w[x] + sum(s \ {x})
      BY <1>a, <2>1, Zenon DEF Splits
    <2>3. sum(s \ {x}) = sum((s \ {x}) \cap T)
      BY <1>2, <2>1, Zenon
    <2>4. sum((s \ {x}) \cap T) \in Nat
      <3>1. (s \ {x}) \cap T \in SUBSET S
        BY Zenon
      <3> QED BY <3>1, SumNat, Zenon
    <2>5. CASE x \in T
      <3>1. x \in s \cap T /\ (s \cap T) \ {x} = (s \ {x}) \cap T
        BY <2>1, <2>5, Zenon
      <3>2. sum(s \cap T) = w[x] + sum((s \cap T) \ {x})
        BY <1>a, <2>1, <3>1, Zenon DEF Splits
      <3> HIDE DEF x, sum
      <3>3. sum(s) = sum(s \cap T)
        BY <2>2, <2>3, <3>1, <3>2, Zenon
      <3> QED BY <3>3, Zenon
    <2>6. CASE x \notin T
      <3>1. (s \ {x}) \cap T = s \cap T /\ w[x] = 0
        BY <2>1, <2>6, Zenon
      <3> HIDE DEF x, sum
      <3>2. sum(s) = w[x] + sum(s \cap T) /\ sum(s \cap T) \in Nat
        BY <2>2, <2>3, <2>4, <3>1, Zenon
      <3>3. sum(s) = sum(s \cap T)
        BY <3>1, <3>2
      <3> QED BY <3>3, Zenon
    <2> QED BY <2>5, <2>6, Zenon
  <1>3. \A s \in SUBSET S : s \in G
    <2> HIDE DEF G, sum
    <2> QED BY <1>1, <1>2, Smaller, Zenon
  <1>4. S \cap T = T /\ S \in SUBSET S
    BY Zenon
  <1> QED BY <1>3, <1>4, Zenon

\* One term changes the sum by as much as it changes.
LEMMA SumChange ==
    ASSUME NEW S, IsFiniteSet(S), NEW v, NEW w, \A x \in S : v[x] \in Nat /\ w[x] \in Nat,
           NEW m \in S, \A x \in S : x /= m => v[x] = w[x]
    PROVE  /\ SumFunctionOnSet(v, S) + w[m] = SumFunctionOnSet(w, S) + v[m]
           /\ SumFunctionOnSet(v, S) \in Nat /\ SumFunctionOnSet(w, S) \in Nat
           /\ w[m] <= SumFunctionOnSet(w, S)
  <1>a. /\ \A x \in S : v[x] \in Nat
        /\ \A x \in S : w[x] \in Nat
    BY Zenon
  <1>b. Splits(v, S) /\ Splits(w, S)
    BY <1>a, SumAny, Zenon
  <1> DEFINE T == S \ {m}
  <1>1. T \in SUBSET S /\ S \in SUBSET S /\ IsFiniteSet(T)
    BY FS_Subset, Zenon
  <1>2. SumFunctionOnSet(v, T) = SumFunctionOnSet(w, T)
    <2>1. \A x \in T : w[x] \in Nat /\ v[x] = w[x]
      BY Zenon
    <2> HIDE DEF T
    <2> QED BY <1>1, <2>1, SumSame, Zenon
  <1>3. /\ SumFunctionOnSet(v, S) = v[m] + SumFunctionOnSet(v, T)
        /\ SumFunctionOnSet(w, S) = w[m] + SumFunctionOnSet(w, T)
    BY <1>1, <1>b, Zenon DEF Splits
  <1>4. /\ SumFunctionOnSet(v, S) \in Nat /\ SumFunctionOnSet(w, S) \in Nat
        /\ SumFunctionOnSet(w, T) \in Nat
    BY <1>1, <1>a, SumNat, Zenon
  <1>5. v[m] \in Nat /\ w[m] \in Nat
    BY Zenon
  <1> HIDE DEF T
  <1> QED BY <1>2, <1>3, <1>4, <1>5

-----------------------------------------------------------------------------
(* The relay loses its oldest envelopes and nothing else. *)

Held == [envelope : Frames, deposited : Nat]

\* A mailbox that exists: not empty, in the order of deposit, none of it from the future.
Box(q, t) ==
    /\ q \in Seq(Held) /\ q /= <<>>
    /\ \A i, j \in 1..Len(q) : i <= j => q[i].deposited <= q[j].deposited
    /\ \A i \in 1..Len(q) : q[i].deposited <= t

Shape(r, t) == \A m \in DOMAIN r.mailboxes : m \in Pairs /\ Box(r.mailboxes[m], t)

\* What is left of a queue that lost some of its oldest.
Rest(s, q) == \E n \in 0..Len(q) : s = SubSeq(q, n + 1, Len(q))

Loses(r, s) == \A m : Rest(waiting(s, m), waiting(r, m))

\* The elements of a rest are those of the queue, later by as many as were lost.
LEMMA RestElements ==
    ASSUME NEW T, NEW q \in Seq(T), NEW s, Rest(s, q)
    PROVE  /\ s \in Seq(T)
           /\ \E n \in 0..Len(q) : Len(s) = Len(q) - n /\ \A i \in 1..Len(s) : s[i] = q[n + i]
  <1>1. PICK n \in 0..Len(q) : s = SubSeq(q, n + 1, Len(q))
    BY Zenon DEF Rest
  <1>2. Len(q) \in Nat
    OBVIOUS
  <1>3. s \in Seq(T) /\ Len(s) = Len(q) - n /\ \A i \in 1..Len(s) : s[i] = q[n + i]
    BY <1>1, <1>2
  <1> QED BY <1>3, Zenon

\* All of a queue is a rest of it, and nothing is.
LEMMA RestEnds ==
    ASSUME NEW T, NEW q \in Seq(T)
    PROVE  Rest(q, q) /\ Rest(<<>>, q) /\ (q /= <<>> => Rest(Tail(q), q))
  <1>1. 0 \in 0..Len(q) /\ q = SubSeq(q, 0 + 1, Len(q))
    OBVIOUS
  <1>2. Len(q) \in 0..Len(q) /\ <<>> = SubSeq(q, Len(q) + 1, Len(q))
    OBVIOUS
  <1>3. q /= <<>> => 1 \in 0..Len(q) /\ Tail(q) = SubSeq(q, 1 + 1, Len(q))
    OBVIOUS
  <1> QED BY <1>1, <1>2, <1>3, Zenon DEF Rest

\* The rest of a rest is a rest.
LEMMA RestOfRest ==
    ASSUME NEW T, NEW q \in Seq(T), NEW s, Rest(s, q), NEW t, Rest(t, s)
    PROVE  Rest(t, q)
  <1>1. PICK n \in 0..Len(q) : s = SubSeq(q, n + 1, Len(q))
    BY Zenon DEF Rest
  <1>2. PICK k \in 0..Len(s) : t = SubSeq(s, k + 1, Len(s))
    BY Zenon DEF Rest
  <1>3. Len(s) = Len(q) - n /\ n + k \in 0..Len(q)
    BY <1>1, <1>2
  <1>4. t = SubSeq(q, (n + k) + 1, Len(q))
    BY <1>1, <1>2, <1>3
  <1> QED BY <1>3, <1>4, Zenon DEF Rest

\* What is left of a mailbox is one, unless nothing is left.
LEMMA RestOfBox ==
    ASSUME NEW q, NEW t, Box(q, t), NEW s, Rest(s, q), s /= <<>>
    PROVE  Box(s, t)
  <1>1. q \in Seq(Held)
    BY Zenon DEF Box
  <1>2. PICK n \in 0..Len(q) : Len(s) = Len(q) - n /\ \A i \in 1..Len(s) : s[i] = q[n + i]
    BY <1>1, RestElements
  <1>3. s \in Seq(Held)
    BY <1>1, RestElements, Zenon
  <1>4. \A i \in 1..Len(s) : n + i \in 1..Len(q)
    BY <1>1, <1>2, <1>3
  <1>5. \A i, j \in 1..Len(s) : i <= j => n + i <= n + j
    OBVIOUS
  <1> QED BY <1>2, <1>3, <1>4, <1>5, Zenon DEF Box

\* What waits in a mailbox.
LEMMA Waits ==
    ASSUME NEW r, NEW t, Shape(r, t), NEW m
    PROVE  /\ waiting(r, m) \in Seq(Held)
           /\ waiting(r, m) /= <<>> => m \in Pairs /\ Box(waiting(r, m), t)
  BY DEF Shape, Box, waiting

\* A relay that only lost, and keeps no empty mailbox, is in shape.
LEMMA LosesShape ==
    ASSUME NEW r, NEW t, Shape(r, t), NEW s, Loses(r, s),
           \A m \in DOMAIN s.mailboxes : s.mailboxes[m] /= <<>>
    PROVE  Shape(s, t)
  <1> SUFFICES ASSUME NEW m \in DOMAIN s.mailboxes PROVE m \in Pairs /\ Box(s.mailboxes[m], t)
    BY Zenon DEF Shape
  <1>1. waiting(s, m) = s.mailboxes[m] /\ s.mailboxes[m] /= <<>>
    BY Zenon DEF waiting
  <1>2. Rest(s.mailboxes[m], waiting(r, m)) /\ waiting(r, m) \in Seq(Held)
    BY <1>1, Waits, Zenon DEF Loses
  <1>3. waiting(r, m) /= <<>>
    <2>1. ASSUME waiting(r, m) = <<>> PROVE FALSE
      <3>1. PICK n \in 0..Len(waiting(r, m)) :
              s.mailboxes[m] = SubSeq(waiting(r, m), n + 1, Len(waiting(r, m)))
        BY <1>2, Zenon DEF Rest
      <3>2. SubSeq(<<>>, n + 1, 0) = <<>> /\ Len(<<>>) = 0
        BY <2>1, <3>1
      <3> QED BY <1>1, <2>1, <3>1, <3>2, Zenon
    <2> QED BY <2>1, Zenon
  <1>4. m \in Pairs /\ Box(waiting(r, m), t)
    BY <1>3, Waits, Zenon
  <1> QED BY <1>1, <1>2, <1>4, RestOfBox, Zenon

\* Losing twice is losing.
LEMMA LosesTwice ==
    ASSUME NEW r, NEW t, Shape(r, t), NEW s, Loses(r, s), NEW u, Loses(s, u)
    PROVE  Loses(r, u)
  BY Waits, RestOfRest, Zenon DEF Loses

\* A relay as it is has lost nothing.
LEMMA LosesNothing ==
    ASSUME NEW r, NEW t, Shape(r, t)
    PROVE  Loses(r, r)
  BY Waits, RestEnds, Zenon DEF Loses

\* Emptied mailboxes go, and nothing waits there.
LEMMA NonEmptyWaits ==
    ASSUME NEW boxes, NEW b
    PROVE  LET s == [mailboxes |-> NonEmpty(boxes), total_bytes |-> b]
           IN  /\ \A m \in DOMAIN s.mailboxes : s.mailboxes[m] /= <<>>
               /\ \A m : waiting(s, m) = IF m \in DOMAIN boxes THEN boxes[m] ELSE <<>>
  <1> DEFINE left == NonEmpty(boxes)
  <1>1. /\ DOMAIN left = {m \in DOMAIN boxes : boxes[m] /= <<>>}
        /\ \A m \in DOMAIN left : left[m] = boxes[m]
    BY Zenon DEF NonEmpty, Restrict
  <1> HIDE DEF left
  <1>2. [mailboxes |-> left, total_bytes |-> b].mailboxes = left
    BY Zenon
  <1> QED BY <1>1, <1>2, Zenon DEF waiting, left

\* Of a queue in the order of deposit the young ones are the end.
LEMMA YoungRest ==
    ASSUME NEW t \in Nat, NEW q, Box(q, t)
    PROVE  Rest(Retained(q, {i \in DOMAIN q : t - q[i].deposited < ENVELOPE_TTL}), q)
  <1> DEFINE young == {i \in DOMAIN q : t - q[i].deposited < ENVELOPE_TTL}
  <1>1. q \in Seq(Held) /\ Len(q) \in Nat /\ DOMAIN q = 1..Len(q)
    BY DEF Box
  <1>2. \E d \in 0..Len(q) : \A i \in 1..Len(q) : i \in young <=> i > d
    <2>1. CASE young = {}
      <3>1. Len(q) \in 0..Len(q) /\ \A i \in 1..Len(q) : ~(i > Len(q))
        BY <1>1
      <3> HIDE DEF young
      <3> QED BY <2>1, <3>1, Zenon
    <2>2. CASE young /= {}
      <3>1. young \subseteq Nat
        BY <1>1
      <3>2. PICK x \in young : \A y \in young : x <= y
        <4> HIDE DEF young
        <4> QED BY <2>2, <3>1, Least, Zenon
      <3>3. x \in 1..Len(q) /\ t - q[x].deposited < ENVELOPE_TTL /\ x - 1 \in 0..Len(q)
        BY <1>1, <3>2
      <3>4. ASSUME NEW i \in 1..Len(q) PROVE i \in young <=> i > x - 1
        <4>1. i \in young => i > x - 1
          BY <3>2, <3>3
        <4>2. ASSUME i > x - 1 PROVE i \in young
          <5>1. /\ q[x].deposited <= q[i].deposited /\ q[i].deposited <= t
            BY <3>3, <4>2 DEF Box
          <5>2. q[x].deposited \in Nat /\ q[i].deposited \in Nat /\ ENVELOPE_TTL \in Nat
            <6>1. q[x] \in Held /\ q[i] \in Held
              BY <1>1, <3>3
            <6>2. q[x].deposited \in Nat /\ q[i].deposited \in Nat
              BY <6>1, Zenon DEF Held
            <6> QED BY <6>2, RelayAssumption, Zenon
          <5>3. t - q[i].deposited < ENVELOPE_TTL
            <6> DEFINE a == q[x].deposited
                       b == q[i].deposited
            <6>1. /\ a \in Nat /\ b \in Nat /\ ENVELOPE_TTL \in Nat
                  /\ a <= b /\ t - a < ENVELOPE_TTL
              BY <3>3, <5>1, <5>2, Zenon
            <6> HIDE DEF a, b
            <6>2. t - b < ENVELOPE_TTL
              BY <6>1
            <6> QED BY <6>2, Zenon DEF b
          <5> QED BY <1>1, <5>3, Zenon
        <4> QED BY <4>1, <4>2, Zenon
      <3> HIDE DEF young
      <3> QED BY <3>3, <3>4, Zenon
    <2> QED BY <2>1, <2>2, Zenon
  <1> HIDE DEF young
  <1>3. PICK d \in 0..Len(q) : \A i \in 1..Len(q) : i \in young <=> i > d
    BY <1>2, Zenon
  <1>4. Retained(q, young) = SubSeq(q, d + 1, Len(q))
    BY <1>1, <1>3, RetainedEnd, Zenon
  <1> QED BY <1>4, Zenon DEF Rest, young

\* Expiry loses the oldest envelopes.
LEMMA ExpireLoses ==
    ASSUME NEW t \in Nat, NEW r, Shape(r, t)
    PROVE  Loses(r, expire(r, t)) /\ Shape(expire(r, t), t)
  <1> DEFINE young(q) == Retained(q, {i \in DOMAIN q : t - q[i].deposited < ENVELOPE_TTL})
             boxes == [m \in DOMAIN r.mailboxes |-> young(r.mailboxes[m])]
             s == expire(r, t)
  <1>1. /\ \A m \in DOMAIN s.mailboxes : s.mailboxes[m] /= <<>>
        /\ \A m : waiting(s, m) = IF m \in DOMAIN boxes THEN boxes[m] ELSE <<>>
    <2>1. s = [mailboxes |-> NonEmpty(boxes), total_bytes |-> HeldBytes(NonEmpty(boxes))]
      BY Zenon DEF expire
    <2> HIDE DEF boxes, s
    <2> QED BY <2>1, NonEmptyWaits, Zenon
  <1>2. ASSUME NEW m PROVE Rest(waiting(s, m), waiting(r, m))
    <2>1. CASE m \in DOMAIN r.mailboxes
      <3>1. waiting(s, m) = young(r.mailboxes[m]) /\ waiting(r, m) = r.mailboxes[m]
        <4> HIDE DEF s, young
        <4> QED BY <1>1, <2>1, Zenon DEF waiting
      <3>2. Box(r.mailboxes[m], t)
        BY <2>1, Zenon DEF Shape
      <3> HIDE DEF s, boxes
      <3> QED BY <3>1, <3>2, YoungRest, Zenon
    <2>2. CASE m \notin DOMAIN r.mailboxes
      <3>1. waiting(s, m) = <<>>
        <4> HIDE DEF s, young
        <4> QED BY <1>1, <2>2, Zenon
      <3> HIDE DEF s, boxes
      <3> QED BY <3>1, Waits, RestEnds, Zenon
    <2> QED BY <2>1, <2>2, Zenon
  <1> HIDE DEF s, boxes
  <1>3. Loses(r, s)
    BY <1>2, Zenon DEF Loses
  <1>4. Shape(s, t)
    BY <1>1, <1>3, LosesShape, Zenon
  <1> QED BY <1>3, <1>4, Zenon DEF s

\* Discarding the first envelope of a mailbox loses the oldest of it.
LEMMA DropLoses ==
    ASSUME NEW t, NEW r, Shape(r, t), NEW m \in DOMAIN r.mailboxes
    PROVE  /\ Loses(r, DropFirst(r, m)) /\ Shape(DropFirst(r, m), t)
           /\ waiting(DropFirst(r, m), m) = Tail(r.mailboxes[m])
           /\ \A n : n /= m => waiting(DropFirst(r, m), n) = waiting(r, n)
  <1> DEFINE boxes == [r.mailboxes EXCEPT ![m] = Tail(@)]
             s == DropFirst(r, m)
  <1>1. /\ \A n \in DOMAIN s.mailboxes : s.mailboxes[n] /= <<>>
        /\ \A n : waiting(s, n) = IF n \in DOMAIN boxes THEN boxes[n] ELSE <<>>
    <2>1. PICK b : s = [mailboxes |-> NonEmpty(boxes), total_bytes |-> b]
      BY Zenon DEF DropFirst
    <2> HIDE DEF boxes, s
    <2> QED BY <2>1, NonEmptyWaits, ZenonT(80)
  <1>2. /\ DOMAIN boxes = DOMAIN r.mailboxes /\ boxes[m] = Tail(r.mailboxes[m])
        /\ \A n \in DOMAIN r.mailboxes : n /= m => boxes[n] = r.mailboxes[n]
    BY Zenon
  <1> HIDE DEF s, boxes
  <1>w. /\ waiting(s, m) = Tail(r.mailboxes[m])
        /\ \A n : n /= m => waiting(s, n) = waiting(r, n)
    BY <1>1, <1>2, Zenon DEF waiting
  <1>3. ASSUME NEW n PROVE Rest(waiting(s, n), waiting(r, n))
    <2>1. CASE n = m
      <3>1. waiting(s, m) = Tail(waiting(r, m))
        BY <1>w, Zenon DEF waiting
      <3>2. waiting(r, m) \in Seq(Held) /\ waiting(r, m) /= <<>>
        BY Zenon DEF Shape, Box, waiting
      <3> QED BY <2>1, <3>1, <3>2, RestEnds, Zenon
    <2>2. CASE n /= m
      <3>1. waiting(s, n) = waiting(r, n)
        BY <1>w, <2>2, Zenon
      <3> QED BY <3>1, Waits, RestEnds, Zenon
    <2> QED BY <2>1, <2>2, Zenon
  <1>4. Loses(r, s)
    BY <1>3, Zenon DEF Loses
  <1>5. Shape(s, t)
    BY <1>1, <1>4, LosesShape, Zenon
  <1> QED BY <1>4, <1>5, <1>w, Zenon DEF s

-----------------------------------------------------------------------------
(* The bytes of a queue. *)

\* One more at the end of a sequence.
LEMMA Appended ==
    ASSUME NEW T, NEW w \in Seq(T), NEW h \in T
    PROVE  /\ Append(w, h) \in Seq(T) /\ Append(w, h) /= <<>> /\ Len(Append(w, h)) = Len(w) + 1
           /\ Append(w, h)[Len(w) + 1] = h
           /\ \A i \in 1..Len(w) : Append(w, h)[i] = w[i]
  <1>1. Append(w, h) \in Seq(T) /\ Len(Append(w, h)) = Len(w) + 1
    OBVIOUS
  <1>2. Append(w, h) /= <<>>
    <2>1. Len(w) + 1 /= 0 /\ Len(<<>>) = 0
      OBVIOUS
    <2> QED BY <1>1, <2>1, Zenon
  <1>3. Append(w, h)[Len(w) + 1] = h /\ \A i \in 1..Len(w) : Append(w, h)[i] = w[i]
    OBVIOUS
  <1> QED BY <1>1, <1>2, <1>3, Zenon

\* Sequences with the same elements are the same.
LEMMA SameSeq ==
    ASSUME NEW T, NEW a \in Seq(T), NEW b \in Seq(T), Len(a) = Len(b),
           \A i \in 1..Len(a) : a[i] = b[i]
    PROVE  a = b
  OBVIOUS

Weights(q) == [i \in DOMAIN q |-> q[i].envelope.size]

\* The bytes of a queue are the sum over its positions.
LEMMA BytesOf ==
    ASSUME NEW q \in Seq(Held)
    PROVE  /\ QueueBytes(q) = SumFunctionOnSet(Weights(q), 1..Len(q))
           /\ IsFiniteSet(1..Len(q))
           /\ \A i \in 1..Len(q) : Weights(q)[i] \in Nat /\ Weights(q)[i] = q[i].envelope.size
           /\ QueueBytes(q) \in Nat
  <1>1. DOMAIN Weights(q) = 1..Len(q) /\ \A i \in 1..Len(q) : Weights(q)[i] = q[i].envelope.size
    BY DEF Weights
  <1>2. QueueBytes(q) = SumFunctionOnSet(Weights(q), 1..Len(q))
    BY <1>1, Zenon DEF QueueBytes, SumFunction, Weights
  <1>3. IsFiniteSet(1..Len(q))
    <2>1. 1 \in Int /\ Len(q) \in Int
      OBVIOUS
    <2> QED BY <2>1, FS_Interval, Zenon
  <1>4. ASSUME NEW i \in 1..Len(q) PROVE Weights(q)[i] \in Nat
    <2>1. q[i] \in Held
      OBVIOUS
    <2>2. q[i].envelope \in Frames
      BY <2>1, Zenon DEF Held
    <2>3. q[i].envelope.size \in Nat
      BY <2>2, Zenon DEF Frames
    <2> QED BY <1>1, <2>3, Zenon
  <1>5. 1..Len(q) \in SUBSET (1..Len(q))
    BY Zenon
  <1>6. QueueBytes(q) \in Nat
    BY <1>2, <1>3, <1>4, <1>5, SumNat, Zenon
  <1> QED BY <1>1, <1>2, <1>3, <1>4, <1>6, Zenon

\* An empty queue has none.
LEMMA NoBytes == QueueBytes(<<>>) = 0
  <1>1. <<>> \in Seq(Held) /\ 1..Len(<<>>) = {}
    OBVIOUS
  <1>2. IsFiniteSet({})
    BY FS_EmptySet, Zenon
  <1> QED BY <1>1, <1>2, BytesOf, SumPicked, Zenon

\* One more at the end has its bytes more.
LEMMA BytesAppend ==
    ASSUME NEW q \in Seq(Held), NEW h \in Held
    PROVE  QueueBytes(Append(q, h)) = QueueBytes(q) + h.envelope.size /\ h.envelope.size \in Nat
  <1> DEFINE a == Append(q, h)
             n == Len(q)
  <1>1. a \in Seq(Held) /\ Len(a) = n + 1 /\ a[n + 1] = h /\ \A i \in 1..n : a[i] = q[i]
    BY Appended
  <1>2. n \in Nat /\ n + 1 \in 1..(n + 1) /\ (1..(n + 1)) \ {n + 1} = 1..n
        /\ \A i \in 1..n : i \in 1..(n + 1)
    OBVIOUS
  <1> HIDE DEF a, n
  <1>3. /\ QueueBytes(a) = SumFunctionOnSet(Weights(a), 1..(n + 1)) /\ IsFiniteSet(1..(n + 1))
        /\ \A i \in 1..(n + 1) : Weights(a)[i] \in Nat /\ Weights(a)[i] = a[i].envelope.size
    BY <1>1, BytesOf, Zenon
  <1>4. /\ QueueBytes(q) = SumFunctionOnSet(Weights(q), 1..n) /\ IsFiniteSet(1..n)
        /\ \A i \in 1..n : Weights(q)[i] \in Nat /\ Weights(q)[i] = q[i].envelope.size
        /\ QueueBytes(q) \in Nat
    BY BytesOf, Zenon DEF n
  <1>5. 1..(n + 1) \in SUBSET (1..(n + 1))
    BY Zenon
  <1>s. Splits(Weights(a), 1..(n + 1))
    BY <1>3, SumAny, Zenon
  <1>6. SumFunctionOnSet(Weights(a), 1..(n + 1))
          = Weights(a)[n + 1] + SumFunctionOnSet(Weights(a), 1..n)
    BY <1>2, <1>5, <1>s, Zenon DEF Splits
  <1>7. \A i \in 1..n : Weights(q)[i] \in Nat /\ Weights(a)[i] = Weights(q)[i]
    BY <1>1, <1>2, <1>3, <1>4, Zenon
  <1>8. SumFunctionOnSet(Weights(a), 1..n) = SumFunctionOnSet(Weights(q), 1..n)
    BY <1>4, <1>7, SumSame, Zenon
  <1>9. Weights(a)[n + 1] = h.envelope.size /\ h.envelope.size \in Nat
    BY <1>1, <1>2, <1>3, Zenon
  <1>10. QueueBytes(a) = h.envelope.size + QueueBytes(q)
    BY <1>3, <1>4, <1>6, <1>8, <1>9, Zenon
  <1>11. QueueBytes(a) = QueueBytes(q) + h.envelope.size
    BY <1>4, <1>9, <1>10
  <1> QED BY <1>9, <1>11, Zenon DEF a

\* The first of a queue has its bytes more than the rest.
LEMMA BytesTail ==
    ASSUME NEW q \in Seq(Held), q /= <<>>
    PROVE  QueueBytes(q) = q[1].envelope.size + QueueBytes(Tail(q)) /\ Tail(q) \in Seq(Held)
  <1> DEFINE I == {n \in Nat : \A s \in Seq(Held) : Len(s) = n + 1 =>
                     QueueBytes(s) = s[1].envelope.size + QueueBytes(Tail(s))}
  <1>1. 0 \in I
    <2>1. ASSUME NEW s \in Seq(Held), Len(s) = 0 + 1
          PROVE  QueueBytes(s) = s[1].envelope.size + QueueBytes(Tail(s))
      <3>1. s[1] \in Held /\ s = Append(<<>>, s[1]) /\ Tail(s) = <<>> /\ <<>> \in Seq(Held)
        <4>a. Len(s) = 1
          BY <2>1
        <4>b. <<>> \in Seq(Held) /\ 1 \in 1..1
          OBVIOUS
        <4>1. s[1] \in Held /\ <<>> \in Seq(Held) /\ Len(s) = 1
          <5>1. \A i \in 1..Len(s) : s[i] \in Held
            OBVIOUS
          <5> QED BY <4>a, <4>b, <5>1, Zenon
        <4>2. Len(Append(<<>>, s[1])) = 1 /\ Append(<<>>, s[1]) \in Seq(Held)
              /\ Append(<<>>, s[1])[1] = s[1]
          BY <4>1
        <4>3. s = Append(<<>>, s[1])
          BY <4>1, <4>2, SameSeq
        <4>4. Tail(s) = <<>>
          <5>1. Len(<<>>) = 0 /\ 0 /= 1 /\ \A i \in 1..0 : FALSE
            OBVIOUS
          <5>2. s /= <<>>
            BY <4>1, <5>1, Zenon
          <5>3. Tail(s) \in Seq(Held) /\ Len(Tail(s)) = 0
            BY <4>1, <5>2
          <5> QED BY <4>1, <5>1, <5>3, SameSeq, Zenon
        <4> QED BY <4>1, <4>3, <4>4, Zenon
      <3>2. QueueBytes(s) = QueueBytes(<<>>) + s[1].envelope.size /\ s[1].envelope.size \in Nat
        BY <3>1, BytesAppend, Zenon
      <3>3. QueueBytes(s) = 0 + s[1].envelope.size /\ QueueBytes(Tail(s)) = 0
        BY <3>1, <3>2, NoBytes, Zenon
      <3> QED BY <3>2, <3>3
    <2>2. 0 \in Nat
      BY Zenon
    <2> QED BY <2>1, <2>2, Zenon
  <1>2. ASSUME NEW n \in Nat, n \in I PROVE n + 1 \in I
    <2>1. ASSUME NEW s \in Seq(Held), Len(s) = (n + 1) + 1
          PROVE  QueueBytes(s) = s[1].envelope.size + QueueBytes(Tail(s))
      <3> DEFINE f == SubSeq(s, 1, n + 1)
                 h == s[(n + 1) + 1]
      <3>1. f \in Seq(Held) /\ Len(f) = n + 1 /\ f[1] = s[1] /\ h \in Held /\ f /= <<>>
        BY <2>1
      <3>2. s = Append(f, h)
        BY <2>1
      <3>3. Tail(s) = Append(Tail(f), h) /\ Tail(f) \in Seq(Held)
        <4>1. Tail(s) \in Seq(Held) /\ Tail(f) \in Seq(Held)
          BY <2>1, <3>1
        <4>2. /\ Len(Tail(s)) = n + 1 /\ \A i \in 1..(n + 1) : Tail(s)[i] = s[i + 1]
              /\ Len(Tail(f)) = n /\ \A i \in 1..n : Tail(f)[i] = f[i + 1]
          BY <2>1, <3>1
        <4>3. \A i \in 1..n : f[i + 1] = s[i + 1]
          BY <2>1
        <4> DEFINE a == Append(Tail(f), h)
        <4> HIDE DEF f, h
        <4>4. a \in Seq(Held) /\ Len(a) = n + 1 /\ a[n + 1] = h
              /\ \A i \in 1..n : a[i] = Tail(f)[i]
          BY <3>1, <4>1, <4>2
        <4>5. \A i \in 1..(n + 1) : i \in 1..n \/ i = n + 1
          OBVIOUS
        <4>6. \A i \in 1..(n + 1) : Tail(s)[i] = a[i]
          BY <4>2, <4>3, <4>4, <4>5, ZenonT(40) DEF h
        <4> HIDE DEF a
        <4>7. Tail(s) = a
          BY <4>1, <4>2, <4>4, <4>6, SameSeq, Zenon
        <4> QED BY <4>1, <4>7, Zenon DEF a
      <3> HIDE DEF f, h
      <3>4. QueueBytes(f) = s[1].envelope.size + QueueBytes(Tail(f))
        BY <1>2, <3>1, Zenon
      <3>5. /\ QueueBytes(s) = QueueBytes(f) + h.envelope.size /\ h.envelope.size \in Nat
            /\ QueueBytes(Tail(s)) = QueueBytes(Tail(f)) + h.envelope.size
        BY <3>1, <3>2, <3>3, BytesAppend, Zenon
      <3>6. s[1].envelope.size \in Nat /\ QueueBytes(Tail(f)) \in Nat
        <4>1. s[1] \in Held
          BY <2>1
        <4>2. s[1].envelope \in Frames
          BY <4>1, Zenon DEF Held
        <4>3. s[1].envelope.size \in Nat
          BY <4>2, Zenon DEF Frames
        <4> QED BY <3>3, <4>3, BytesOf, Zenon
      <3> QED BY <3>4, <3>5, <3>6, SMTT(30)
    <2>2. n + 1 \in Nat
      OBVIOUS
    <2> QED BY <2>1, <2>2, Zenon
  <1>3. Len(q) - 1 \in Nat /\ Len(q) = (Len(q) - 1) + 1 /\ Tail(q) \in Seq(Held)
    OBVIOUS
  <1>4. Len(q) - 1 \in I
    <2> HIDE DEF I
    <2> QED BY <1>1, <1>2, <1>3, Inductive, Zenon
  <1> QED BY <1>3, <1>4, Zenon

\* What is left of a queue has no more bytes than it had.
LEMMA BytesRest ==
    ASSUME NEW q \in Seq(Held), NEW s, Rest(s, q)
    PROVE  QueueBytes(s) <= QueueBytes(q) /\ s \in Seq(Held)
  <1> DEFINE left(n) == SubSeq(q, n + 1, Len(q))
             I == {n \in Nat : n <= Len(q) => QueueBytes(left(n)) <= QueueBytes(q)}
  <1>1. 0 \in I
    <2>1. left(0) = q
      OBVIOUS
    <2>2. QueueBytes(q) <= QueueBytes(q)
      BY BytesOf
    <2>3. 0 \in Nat
      BY Zenon
    <2> QED BY <2>1, <2>2, <2>3, Zenon
  <1>2. ASSUME NEW n \in Nat, n \in I PROVE n + 1 \in I
    <2>1. ASSUME n + 1 <= Len(q) PROVE QueueBytes(left(n + 1)) <= QueueBytes(q)
      <3>1. /\ left(n) \in Seq(Held) /\ left(n) /= <<>> /\ left(n + 1) = Tail(left(n))
            /\ n <= Len(q)
        <4>1. n <= Len(q) /\ Len(q) \in Nat
          BY <2>1
        <4>2. left(n) \in Seq(Held) /\ Len(left(n)) = Len(q) - n
              /\ \A i \in 1..(Len(q) - n) : left(n)[i] = q[n + i]
          BY <2>1
        <4>3. left(n + 1) \in Seq(Held) /\ Len(left(n + 1)) = Len(q) - n - 1
              /\ \A i \in 1..(Len(q) - n - 1) : left(n + 1)[i] = q[n + 1 + i]
          BY <2>1
        <4> HIDE DEF left
        <4>4. left(n) /= <<>>
          BY <2>1, <4>1, <4>2
        <4>5. /\ Tail(left(n)) \in Seq(Held) /\ Len(Tail(left(n))) = Len(q) - n - 1
              /\ \A i \in 1..(Len(q) - n - 1) : Tail(left(n))[i] = q[n + 1 + i]
          BY <2>1, <4>1, <4>2, <4>4
        <4>6. left(n + 1) = Tail(left(n))
          BY <4>3, <4>5, SameSeq, Zenon
        <4> QED BY <4>1, <4>2, <4>4, <4>6, Zenon
      <3>2. left(n)[1] \in Held
        BY <3>1
      <3> HIDE DEF left
      <3>3. QueueBytes(left(n)) = left(n)[1].envelope.size + QueueBytes(left(n + 1))
            /\ left(n + 1) \in Seq(Held)
        BY <3>1, BytesTail, Zenon
      <3>4. left(n)[1].envelope.size \in Nat
        <4>1. left(n)[1].envelope \in Frames
          BY <3>2, Zenon DEF Held
        <4> QED BY <4>1, Zenon DEF Frames
      <3>5. QueueBytes(left(n + 1)) \in Nat /\ QueueBytes(left(n)) \in Nat /\ QueueBytes(q) \in Nat
        BY <3>1, <3>3, BytesOf, Zenon
      <3>6. QueueBytes(left(n)) <= QueueBytes(q)
        BY <1>2, <3>1, Zenon
      <3> QED BY <3>3, <3>4, <3>5, <3>6, SMTT(30)
    <2>2. n + 1 \in Nat
      OBVIOUS
    <2> QED BY <2>1, <2>2, Zenon
  <1>3. PICK n \in 0..Len(q) : s = left(n)
    BY Zenon DEF Rest
  <1>4. n \in Nat /\ n <= Len(q)
    OBVIOUS
  <1>5. n \in I
    <2> HIDE DEF I
    <2> QED BY <1>1, <1>2, <1>4, Inductive, Zenon
  <1>6. s \in Seq(Held)
    BY RestElements, Zenon
  <1> QED BY <1>3, <1>4, <1>5, <1>6, Zenon

-----------------------------------------------------------------------------
(* The limits of the relay. *)

\* The bytes of each direction, and of all of them.
Load(r) == [m \in Pairs |-> QueueBytes(waiting(r, m))]

Kept(r) == SumFunctionOnSet(Load(r), Pairs)

\* The limits, with the bytes counted over the directions there can be.
Limits(r) ==
    /\ r.total_bytes = Kept(r)
    /\ Kept(r) <= MAX_TOTAL_BYTES
    /\ Cardinality(DOMAIN r.mailboxes) <= MAX_MAILBOXES
    /\ \A m : Len(waiting(r, m)) <= MAX_QUEUED_ENVELOPES

\* There are finitely many directions.
LEMMA PairsFinite == IsFiniteSet(Pairs)
  <1>1. PICK p, q \in Peers : Peers = {p, q}
    BY LinkAssumption, Zenon
  <1>2. IsFiniteSet({p})
    BY FS_Singleton, Zenon
  <1>3. IsFiniteSet({p} \cup {q})
    BY <1>2, FS_AddElement, Zenon
  <1>4. Peers = {p} \cup {q}
    BY <1>1, Zenon
  <1>5. IsFiniteSet(Peers \X Peers)
    BY <1>3, <1>4, FS_Product, Zenon
  <1>6. Pairs = Peers \X Peers
    BY DEF Pairs, mailbox
  <1> QED BY <1>5, <1>6, Zenon

\* What a relay in shape holds in each direction.
LEMMA Loads ==
    ASSUME NEW r, NEW t, Shape(r, t)
    PROVE  /\ \A m \in Pairs : Load(r)[m] = QueueBytes(waiting(r, m)) /\ Load(r)[m] \in Nat
           /\ Kept(r) \in Nat
  <1>1. \A m \in Pairs : Load(r)[m] = QueueBytes(waiting(r, m)) /\ Load(r)[m] \in Nat
    BY Waits, BytesOf, Zenon DEF Load
  <1>2. Pairs \in SUBSET Pairs
    BY Zenon
  <1> QED BY <1>1, <1>2, PairsFinite, SumNat, Zenon DEF Kept

\* The bytes of the mailboxes there are, are those of the directions.
LEMMA HeldOver ==
    ASSUME NEW r, NEW t, Shape(r, t)
    PROVE  HeldBytes(r.mailboxes) = Kept(r) /\ DOMAIN r.mailboxes \in SUBSET Pairs
  <1> DEFINE D == DOMAIN r.mailboxes
             F == [m \in D |-> QueueBytes(r.mailboxes[m])]
  <1>1. D \in SUBSET Pairs
    BY Zenon DEF Shape
  <1>2. IsFiniteSet(D)
    BY <1>1, PairsFinite, FS_Subset, Zenon
  <1>3. HeldBytes(r.mailboxes) = SumFunctionOnSet(F, D)
    <2>1. DOMAIN F = D
      BY Zenon
    <2> QED BY <2>1, Zenon DEF HeldBytes, SumFunction
  <1>4. \A m \in D : Load(r)[m] \in Nat /\ F[m] = Load(r)[m]
    BY <1>1, Loads, Zenon DEF waiting
  <1>5. \A m \in Pairs \ D : Load(r)[m] = 0
    BY Loads, NoBytes, Zenon DEF waiting
  <1> HIDE DEF D, F
  <1>6. SumFunctionOnSet(F, D) = SumFunctionOnSet(Load(r), D)
    BY <1>2, <1>4, SumSame, Zenon
  <1>7. \A m \in Pairs : Load(r)[m] \in Nat
    BY Loads, Zenon
  <1>8. SumFunctionOnSet(Load(r), Pairs) = SumFunctionOnSet(Load(r), D)
    BY <1>1, <1>5, <1>7, PairsFinite, SumZeros, Zenon
  <1> QED BY <1>1, <1>3, <1>6, <1>8, Zenon DEF Kept, D

\* A change in one direction changes the bytes by as much.
LEMMA KeptChange ==
    ASSUME NEW r, NEW t, Shape(r, t), NEW s, Shape(s, t), NEW m \in Pairs,
           \A n : n /= m => waiting(s, n) = waiting(r, n)
    PROVE  /\ Kept(s) + QueueBytes(waiting(r, m)) = Kept(r) + QueueBytes(waiting(s, m))
           /\ Kept(r) \in Nat /\ Kept(s) \in Nat
           /\ QueueBytes(waiting(r, m)) \in Nat /\ QueueBytes(waiting(s, m)) \in Nat
           /\ QueueBytes(waiting(r, m)) <= Kept(r)
  <1>1. /\ \A n \in Pairs : Load(r)[n] = QueueBytes(waiting(r, n)) /\ Load(r)[n] \in Nat
        /\ \A n \in Pairs : Load(s)[n] = QueueBytes(waiting(s, n)) /\ Load(s)[n] \in Nat
    BY Loads, Zenon
  <1>2. /\ \A n \in Pairs : n /= m => Load(s)[n] = Load(r)[n]
        /\ \A n \in Pairs : Load(s)[n] \in Nat /\ Load(r)[n] \in Nat
    BY <1>1, Zenon
  <1>3. /\ Kept(s) + Load(r)[m] = Kept(r) + Load(s)[m]
        /\ Kept(r) \in Nat /\ Kept(s) \in Nat
        /\ Load(r)[m] <= Kept(r)
    <2> DEFINE v == Load(s)
               w == Load(r)
    <2>1. \A n \in Pairs : v[n] \in Nat /\ w[n] \in Nat
      BY <1>2, Zenon
    <2>2. \A n \in Pairs : n /= m => v[n] = w[n]
      BY <1>2, Zenon
    <2> HIDE DEF v, w
    <2>3. /\ SumFunctionOnSet(v, Pairs) + w[m] = SumFunctionOnSet(w, Pairs) + v[m]
          /\ SumFunctionOnSet(v, Pairs) \in Nat /\ SumFunctionOnSet(w, Pairs) \in Nat
          /\ w[m] <= SumFunctionOnSet(w, Pairs)
      BY <2>1, <2>2, PairsFinite, SumChange, ZenonT(80)
    <2> QED BY <2>3, Zenon DEF Kept, v, w
  <1> QED BY <1>1, <1>3, Zenon

\* Mailboxes that are left were there.
LEMMA LosesBoxes ==
    ASSUME NEW r, NEW t, Shape(r, t), NEW s, Shape(s, t), Loses(r, s)
    PROVE  DOMAIN s.mailboxes \in SUBSET DOMAIN r.mailboxes
  <1>1. ASSUME NEW m \in DOMAIN s.mailboxes, m \notin DOMAIN r.mailboxes PROVE FALSE
    <2>1. waiting(r, m) = <<>> /\ waiting(s, m) = s.mailboxes[m] /\ s.mailboxes[m] /= <<>>
      BY <1>1, Zenon DEF waiting, Shape, Box
    <2>2. Rest(waiting(s, m), <<>>)
      BY <2>1, Zenon DEF Loses
    <2>3. PICK n \in 0..Len(<<>>) : waiting(s, m) = SubSeq(<<>>, n + 1, Len(<<>>))
      BY <2>2, Zenon DEF Rest
    <2>4. SubSeq(<<>>, n + 1, Len(<<>>)) = <<>>
      BY <2>3
    <2> QED BY <2>1, <2>3, <2>4, Zenon
  <1> QED BY <1>1, Zenon

\* Who only loses, and counts what is left, stays within the limits.
LEMMA LosesLimits ==
    ASSUME NEW r, NEW t, Shape(r, t), Limits(r), NEW s, Shape(s, t), Loses(r, s),
           s.total_bytes = Kept(s)
    PROVE  Limits(s) /\ s.total_bytes <= r.total_bytes
  <1>1. ASSUME NEW m
        PROVE  /\ QueueBytes(waiting(s, m)) <= QueueBytes(waiting(r, m))
               /\ Len(waiting(s, m)) <= MAX_QUEUED_ENVELOPES
    <2>1. waiting(r, m) \in Seq(Held) /\ Rest(waiting(s, m), waiting(r, m))
      BY Waits, Zenon DEF Loses
    <2>2. QueueBytes(waiting(s, m)) <= QueueBytes(waiting(r, m))
      BY <2>1, BytesRest, Zenon
    <2>3. PICK n \in 0..Len(waiting(r, m)) : Len(waiting(s, m)) = Len(waiting(r, m)) - n
      BY <2>1, RestElements
    <2>4. Len(waiting(r, m)) <= MAX_QUEUED_ENVELOPES /\ Len(waiting(r, m)) \in Nat
          /\ MAX_QUEUED_ENVELOPES \in Nat
      BY <2>1, RelayAssumption DEF Limits
    <2>5. Len(waiting(s, m)) <= MAX_QUEUED_ENVELOPES
      BY <2>3, <2>4
    <2> QED BY <2>2, <2>5, Zenon
  <1>2. Kept(s) <= Kept(r) /\ Kept(s) \in Nat /\ Kept(r) \in Nat
    <2>1. \A m \in Pairs : /\ Load(s)[m] = QueueBytes(waiting(s, m)) /\ Load(s)[m] \in Nat
                           /\ Load(r)[m] = QueueBytes(waiting(r, m)) /\ Load(r)[m] \in Nat
      BY Loads, Zenon
    <2>2. \A m \in Pairs : Load(s)[m] \in Nat /\ Load(r)[m] \in Nat /\ Load(s)[m] <= Load(r)[m]
      BY <1>1, <2>1, Zenon
    <2>3. Kept(s) <= Kept(r)
      BY <2>2, PairsFinite, SumLess, Zenon DEF Kept
    <2> QED BY <2>3, Loads, Zenon
  <1>3. Cardinality(DOMAIN s.mailboxes) <= MAX_MAILBOXES
    <2>1. IsFiniteSet(DOMAIN r.mailboxes)
      BY HeldOver, PairsFinite, FS_Subset, Zenon
    <2>2. DOMAIN s.mailboxes \in SUBSET DOMAIN r.mailboxes
      BY LosesBoxes, Zenon
    <2>3. /\ Cardinality(DOMAIN s.mailboxes) <= Cardinality(DOMAIN r.mailboxes)
          /\ Cardinality(DOMAIN s.mailboxes) \in Nat /\ Cardinality(DOMAIN r.mailboxes) \in Nat
      BY <2>1, <2>2, FS_Subset, FS_CardinalityType, Zenon
    <2>4. Cardinality(DOMAIN r.mailboxes) <= MAX_MAILBOXES /\ MAX_MAILBOXES \in Nat
      BY RelayAssumption, Zenon DEF Limits
    <2> QED BY <2>3, <2>4
  <1>4. Kept(s) <= MAX_TOTAL_BYTES /\ s.total_bytes <= r.total_bytes
    <2>1. Kept(r) <= MAX_TOTAL_BYTES /\ r.total_bytes = Kept(r) /\ MAX_TOTAL_BYTES \in Nat
      BY RelayAssumption, Zenon DEF Limits
    <2> QED BY <1>2, <2>1
  <1> QED BY <1>1, <1>3, <1>4, Zenon DEF Limits

\* Expiry counts what it leaves.
LEMMA ExpireLimits ==
    ASSUME NEW t \in Nat, NEW r, Shape(r, t), Limits(r)
    PROVE  Limits(expire(r, t))
  <1>1. expire(r, t).total_bytes = HeldBytes(expire(r, t).mailboxes)
    BY Zenon DEF expire
  <1>2. Loses(r, expire(r, t)) /\ Shape(expire(r, t), t)
    BY ExpireLoses, Zenon
  <1>3. expire(r, t).total_bytes = Kept(expire(r, t))
    BY <1>1, <1>2, HeldOver, Zenon
  <1> QED BY <1>2, <1>3, LosesLimits, Zenon

\* Discarding an envelope takes off what it weighed.
LEMMA DropLimits ==
    ASSUME NEW t, NEW r, Shape(r, t), Limits(r), NEW m \in DOMAIN r.mailboxes
    PROVE  /\ Limits(DropFirst(r, m)) /\ DropFirst(r, m).total_bytes <= r.total_bytes
           /\ Len(waiting(DropFirst(r, m), m)) = Len(waiting(r, m)) - 1
  <1> DEFINE s == DropFirst(r, m)
             q == r.mailboxes[m]
  <1>1. Loses(r, s) /\ Shape(s, t) /\ waiting(s, m) = Tail(q) /\ waiting(r, m) = q
        /\ \A n : n /= m => waiting(s, n) = waiting(r, n)
    <2>1. waiting(r, m) = q
      BY Zenon DEF waiting
    <2> HIDE DEF s
    <2> QED BY <2>1, DropLoses, Zenon DEF s
  <1>2. s.total_bytes = saturating_sub(r.total_bytes, q[1].envelope.size)
    BY DEF DropFirst
  <1>3. m \in Pairs /\ q \in Seq(Held) /\ q /= <<>>
    BY Zenon DEF Shape, Box
  <1> HIDE DEF s, q
  <1>4. QueueBytes(q) = q[1].envelope.size + QueueBytes(Tail(q))
    BY <1>3, BytesTail, Zenon
  <1>5. /\ Kept(s) + QueueBytes(q) = Kept(r) + QueueBytes(Tail(q))
        /\ Kept(r) \in Nat /\ Kept(s) \in Nat /\ QueueBytes(Tail(q)) \in Nat
    <2>1. /\ Kept(s) + QueueBytes(waiting(r, m)) = Kept(r) + QueueBytes(waiting(s, m))
          /\ Kept(r) \in Nat /\ Kept(s) \in Nat /\ QueueBytes(waiting(s, m)) \in Nat
      BY <1>1, <1>3, KeptChange, Zenon
    <2> QED BY <1>1, <2>1, Zenon
  <1>6. q[1].envelope.size \in Nat
    <2>1. q[1] \in Held
      BY <1>3
    <2>2. q[1].envelope \in Frames
      BY <2>1, Zenon DEF Held
    <2> QED BY <2>2, Zenon DEF Frames
  <1>7. r.total_bytes = Kept(r)
    BY Zenon DEF Limits
  <1>8. s.total_bytes = Kept(s)
    BY <1>2, <1>4, <1>5, <1>6, <1>7 DEF saturating_sub
  <1>9. Len(Tail(q)) = Len(q) - 1
    BY <1>3
  <1>10. Limits(s) /\ s.total_bytes <= r.total_bytes
    BY <1>1, <1>8, LosesLimits, Zenon
  <1> QED BY <1>1, <1>9, <1>10, Zenon DEF s

-----------------------------------------------------------------------------
(* Eviction *)

\* A round of eviction loses the oldest.
LEMMA EvictOneLoses ==
    ASSUME NEW t, NEW r, Shape(r, t), NEW size, NEW s \in EvictOne(r, size)
    PROVE  Loses(r, s) /\ Shape(s, t) /\ (Limits(r) => Limits(s))
  <1>1. s = r \/ \E m \in DOMAIN r.mailboxes : s = DropFirst(r, m)
    BY Zenon DEF EvictOne, Oldest
  <1> QED BY <1>1, LosesNothing, DropLoses, DropLimits, Zenon

\* How many rounds of eviction there are.
Rounds == MAX_MAILBOXES * MAX_QUEUED_ENVELOPES

\* The rounds of eviction one by one.
LEMMA EvictedSteps ==
    ASSUME NEW r, NEW size
    PROVE  /\ Rounds \in Nat
           /\ \E a : /\ a[0] = {r}
                     /\ \A n \in 1..Rounds : a[n] = UNION {EvictOne(s, size) : s \in a[n - 1]}
                     /\ Evicted(r, size) = a[Rounds]
  <1> DEFINE Step(set) == UNION {EvictOne(s, size) : s \in set}
             After(a, n) == [i \in 0..n |-> IF i = 0 THEN {r} ELSE Step(a[i - 1])]
             S == {n \in Nat : \E a : a = After(a, n)}
             a == CHOOSE a : a = After(a, Rounds)
  <1>1. 0 \in S
    <2> DEFINE w == [i \in 0..0 |-> {r}]
    <2> HIDE DEF Step
    <2>1. w = After(w, 0)
      OBVIOUS
    <2> QED BY <2>1, Zenon
  <1>2. ASSUME NEW n \in Nat, n \in S PROVE n + 1 \in S
    <2> HIDE DEF Step
    <2>1. PICK v : v = After(v, n)
      BY <1>2, Zenon
    <2> DEFINE w == [i \in 0..(n + 1) |-> IF i = n + 1 THEN Step(v[n]) ELSE v[i]]
    <2>2. \A i \in 0..n : w[i] = v[i]
      OBVIOUS
    <2>3. \A i \in 0..(n + 1) : w[i] = IF i = 0 THEN {r} ELSE Step(w[i - 1])
      <3> TAKE i \in 0..(n + 1)
      <3>1. CASE i = n + 1
        <4>1. i /= 0 /\ i - 1 = n /\ n \in 0..n
          BY <3>1
        <4>2. w[i] = Step(v[n])
          BY <3>1, Zenon
        <4> QED BY <2>2, <4>1, <4>2, Zenon
      <3>2. CASE i /= n + 1
        <4>1. i \in 0..n /\ (i /= 0 => i - 1 \in 0..n)
          BY <3>2
        <4>2. v[i] = IF i = 0 THEN {r} ELSE Step(v[i - 1])
          BY <2>1, <4>1, Zenon
        <4> HIDE DEF w
        <4> QED BY <2>2, <4>1, <4>2, Zenon
      <3> QED BY <3>1, <3>2, Zenon
    <2>4. w = [i \in 0..(n + 1) |-> w[i]]
      BY Zenon
    <2> HIDE DEF w
    <2>5. w = After(w, n + 1)
      BY <2>3, <2>4, Zenon
    <2>6. n + 1 \in Nat
      OBVIOUS
    <2> QED BY <2>5, <2>6, Zenon
  <1>3. Rounds \in Nat
    BY RelayAssumption DEF Rounds
  <1>4. Rounds \in S
    <2> HIDE DEF S
    <2> QED BY <1>1, <1>2, <1>3, Inductive, Zenon
  <1>5. a = After(a, Rounds)
    <2> HIDE DEF Step
    <2> QED BY <1>4, Zenon
  <1>6. Evicted(r, size) = a[Rounds]
    BY Zenon DEF Evicted, Rounds
  <1> HIDE DEF a
  <1>7. a[0] = {r} /\ \A n \in 1..Rounds : a[n] = Step(a[n - 1])
    <2> HIDE DEF Step
    <2>1. \A i \in 0..Rounds : a[i] = IF i = 0 THEN {r} ELSE Step(a[i - 1])
      BY <1>5, Zenon
    <2>2. 0 \in 0..Rounds /\ \A i \in 1..Rounds : i \in 0..Rounds /\ i /= 0
      BY <1>3
    <2> QED BY <2>1, <2>2, Zenon
  <1> QED BY <1>3, <1>6, <1>7, Zenon

\* Eviction loses the oldest envelopes, however many rounds it takes.
LEMMA EvictedLoses ==
    ASSUME NEW t, NEW r, Shape(r, t), NEW size, NEW s \in Evicted(r, size)
    PROVE  Loses(r, s) /\ Shape(s, t) /\ (Limits(r) => Limits(s))
  <1>1. PICK a : /\ a[0] = {r}
                 /\ \A n \in 1..Rounds : a[n] = UNION {EvictOne(u, size) : u \in a[n - 1]}
                 /\ Evicted(r, size) = a[Rounds]
    BY EvictedSteps
  <1> DEFINE Good(u) == Loses(r, u) /\ Shape(u, t) /\ (Limits(r) => Limits(u))
             S == {n \in Nat : n <= Rounds => \A u \in a[n] : Good(u)}
  <1>2. 0 \in S
    <2>1. \A u \in a[0] : u = r
      BY <1>1, Zenon
    <2>2. 0 \in Nat
      BY Zenon
    <2> QED BY <2>1, <2>2, LosesNothing, Zenon
  <1>3. ASSUME NEW n \in Nat, n \in S PROVE n + 1 \in S
    <2> SUFFICES ASSUME n + 1 <= Rounds, NEW u \in a[n + 1] PROVE Good(u)
      OBVIOUS
    <2>1. n + 1 \in 1..Rounds /\ (n + 1) - 1 = n /\ n <= Rounds
      BY EvictedSteps
    <2>2. PICK v \in a[n] : u \in EvictOne(v, size)
      <3>1. a[n + 1] = UNION {EvictOne(v, size) : v \in a[n]}
        BY <1>1, <2>1, Zenon
      <3> QED BY <3>1, Zenon
    <2>3. Good(v)
      BY <1>3, <2>1, <2>2, Zenon
    <2>4. Loses(v, u) /\ Shape(u, t) /\ (Limits(v) => Limits(u))
      BY <2>2, <2>3, EvictOneLoses, Zenon
    <2> QED BY <2>3, <2>4, LosesTwice, Zenon
  <1>4. Rounds \in Nat
    BY EvictedSteps, Zenon
  <1>5. Rounds \in S
    <2> HIDE DEF S
    <2> QED BY <1>2, <1>3, <1>4, Inductive, Zenon
  <1>6. Rounds <= Rounds
    BY <1>4
  <1> QED BY <1>1, <1>5, <1>6, Zenon

-----------------------------------------------------------------------------
(* deposit and collect *)

\* The envelope h went to the end of what is left of one mailbox; the others only lost.
Pushed(r, s, m, h) ==
    /\ \E k : Rest(k, waiting(r, m)) /\ waiting(s, m) = Append(k, h)
    /\ \A n : n /= m => Rest(waiting(s, n), waiting(r, n))

\* A deposit that is not refused.
LEMMA PushDeposits ==
    ASSUME NEW t \in Nat, NEW r, Shape(r, t), NEW m \in Pairs, NEW e \in Frames
    PROVE  Pushed(r, Push(r, m, e, t), m, [envelope |-> e, deposited |-> t])
           /\ Shape(Push(r, m, e, t), t)
  <1> DEFINE room == IF Len(waiting(r, m)) >= MAX_QUEUED_ENVELOPES THEN DropFirst(r, m) ELSE r
             h == [envelope |-> e, deposited |-> t]
             queue == Append(waiting(room, m), h)
             boxes == [n \in DOMAIN room.mailboxes \cup {m} |->
                         IF n = m THEN queue ELSE room.mailboxes[n]]
             s == Push(r, m, e, t)
  <1>1. Loses(r, room) /\ Shape(room, t)
    <2>1. CASE Len(waiting(r, m)) >= MAX_QUEUED_ENVELOPES
      <3>1. waiting(r, m) /= <<>>
        BY <2>1, RelayAssumption
      <3>2. m \in DOMAIN r.mailboxes
        BY <3>1, Zenon DEF waiting
      <3> QED BY <2>1, <3>2, DropLoses, Zenon
    <2>2. CASE ~(Len(waiting(r, m)) >= MAX_QUEUED_ENVELOPES)
      BY <2>2, LosesNothing, Zenon
    <2> QED BY <2>1, <2>2, Zenon
  <1>2. s.mailboxes = boxes
    BY Zenon DEF Push
  <1> HIDE DEF room, s
  <1>3. /\ waiting(s, m) = queue
        /\ \A n : n /= m => waiting(s, n) = waiting(room, n)
    BY <1>2, Zenon DEF waiting
  <1>4. Pushed(r, s, m, h)
    <2> HIDE DEF h, boxes
    <2> QED BY <1>1, <1>3, Zenon DEF Pushed, Loses
  <1>5. Box(queue, t)
    <2>1. /\ waiting(room, m) \in Seq(Held)
          /\ waiting(room, m) /= <<>> => Box(waiting(room, m), t)
      BY <1>1, Waits, Zenon
    <2>2. h \in Held /\ h.deposited = t
      BY Zenon DEF Held
    <2> DEFINE w == waiting(room, m)
    <2>3. w \in Seq(Held) /\ (w /= <<>> => Box(w, t))
      BY <2>1, Zenon
    <2> HIDE DEF h, w
    <2>4. Append(w, h) \in Seq(Held) /\ Append(w, h) /= <<>> /\ Len(Append(w, h)) = Len(w) + 1
          /\ Append(w, h)[Len(w) + 1] = h
          /\ \A i \in 1..Len(w) : Append(w, h)[i] = w[i]
      BY <2>2, <2>3, Appended
    <2>5. \A i \in 1..Len(w) : w[i].deposited <= t /\ w[i].deposited \in Nat
      <3>1. ASSUME NEW i \in 1..Len(w) PROVE w[i].deposited <= t /\ w[i].deposited \in Nat
        <4>1. w /= <<>> /\ w[i] \in Held
          BY <2>3
        <4> QED BY <2>3, <4>1, Zenon DEF Box, Held
      <3> QED BY <3>1, Zenon
    <2>6. \A i, j \in 1..Len(w) : i <= j => w[i].deposited <= w[j].deposited
      <3>1. CASE w = <<>>
        BY <3>1
      <3>2. CASE w /= <<>>
        BY <2>3, <3>2, Zenon DEF Box
      <3> QED BY <3>1, <3>2, Zenon
    <2>7. \A i \in 1..(Len(w) + 1) : i \in 1..Len(w) \/ i = Len(w) + 1
      BY <2>3
    <2>8. \A i \in 1..(Len(w) + 1) : Append(w, h)[i].deposited <= t
      BY <2>2, <2>4, <2>5, <2>7
    <2>9. ASSUME NEW i \in 1..(Len(w) + 1), NEW j \in 1..(Len(w) + 1), i <= j
          PROVE  Append(w, h)[i].deposited <= Append(w, h)[j].deposited
      <3>1. CASE j = Len(w) + 1
        BY <2>2, <2>4, <2>8, <3>1
      <3>2. CASE j \in 1..Len(w)
        <4>1. i \in 1..Len(w)
          BY <2>3, <2>9, <3>2
        <4> QED BY <2>4, <2>6, <2>9, <3>2, <4>1
      <3> QED BY <2>7, <3>1, <3>2
    <2>10. Box(Append(w, h), t)
      BY <2>4, <2>8, <2>9 DEF Box
    <2> QED BY <2>10, Zenon DEF w
  <1>6. Shape(s, t)
    <2> HIDE DEF h, queue
    <2>1. DOMAIN boxes = DOMAIN room.mailboxes \cup {m} /\ boxes[m] = queue
          /\ \A n \in DOMAIN room.mailboxes : n /= m => boxes[n] = room.mailboxes[n]
      BY Zenon
    <2> HIDE DEF boxes
    <2> QED BY <1>1, <1>2, <1>5, <2>1, Zenon DEF Shape
  <1> QED BY <1>4, <1>6, Zenon DEF s, h

\* Losing before a deposit is losing for it.
LEMMA LosesThenPushed ==
    ASSUME NEW r, NEW t, Shape(r, t), NEW u, Loses(r, u), NEW s, NEW m, NEW h, Pushed(u, s, m, h)
    PROVE  Pushed(r, s, m, h)
  <1>1. PICK k : Rest(k, waiting(u, m)) /\ waiting(s, m) = Append(k, h)
    BY Zenon DEF Pushed
  <1>2. Rest(k, waiting(r, m))
    BY <1>1, Waits, RestOfRest, Zenon DEF Loses
  <1>3. ASSUME NEW n, n /= m PROVE Rest(waiting(s, n), waiting(r, n))
    <2>1. Rest(waiting(s, n), waiting(u, n))
      BY <1>3, Zenon DEF Pushed
    <2> QED BY <2>1, Waits, RestOfRest, Zenon DEF Loses
  <1> QED BY <1>1, <1>2, <1>3, Zenon DEF Pushed

\* Whatever becomes of a deposit, the relay loses oldest envelopes and takes this one or not.
LEMMA DepositOutcome ==
    ASSUME NEW t \in Nat, NEW r, Shape(r, t), NEW m \in Pairs, NEW e \in Frames,
           NEW s \in deposit(r, m, e, t)
    PROVE  /\ Shape(s, t)
           /\ Loses(r, s) \/ Pushed(r, s, m, [envelope |-> e, deposited |-> t])
  <1> DEFINE fresh == expire(r, t)
             h == [envelope |-> e, deposited |-> t]
  <1>1. Loses(r, fresh) /\ Shape(fresh, t)
    BY ExpireLoses, Zenon
  <1>2. \/ s = r \/ s = fresh
        \/ \E u \in Evicted(fresh, e.size) : s = u \/ s = Push(u, m, e, t)
    BY Zenon DEF deposit
  <1> HIDE DEF fresh
  <1>3. CASE s = r
    BY <1>3, LosesNothing, Zenon
  <1>4. CASE s = fresh
    BY <1>1, <1>4, Zenon
  <1>5. CASE \E u \in Evicted(fresh, e.size) : s = u \/ s = Push(u, m, e, t)
    <2>1. PICK u \in Evicted(fresh, e.size) : s = u \/ s = Push(u, m, e, t)
      BY <1>5, Zenon
    <2>2. Loses(fresh, u) /\ Shape(u, t)
      BY <1>1, <2>1, EvictedLoses, Zenon
    <2>3. Loses(r, u)
      BY <1>1, <2>2, LosesTwice, Zenon
    <2>4. CASE s = u
      BY <2>2, <2>3, <2>4, Zenon
    <2>5. CASE s = Push(u, m, e, t)
      <3>1. Pushed(u, s, m, h) /\ Shape(s, t)
        BY <2>2, <2>5, PushDeposits, Zenon
      <3> HIDE DEF h
      <3>2. Pushed(r, s, m, h)
        BY <2>3, <3>1, LosesThenPushed, Zenon
      <3> QED BY <3>1, <3>2, Zenon DEF h
    <2> QED BY <2>1, <2>4, <2>5
  <1> QED BY <1>2, <1>3, <1>4, <1>5

\* The envelopes of a queue.
Envelopes(q) == [i \in DOMAIN q |-> q[i].envelope]

\* One mailbox leaves the relay, as far as it is left; the others only lose.
LEMMA CollectOutcome ==
    ASSUME NEW t \in Nat, NEW r, Shape(r, t), NEW m
    PROVE  LET c == collect(r, m, t)
           IN  /\ Shape(c.relay, t)
               /\ \E k : Rest(k, waiting(r, m)) /\ c.held = Envelopes(k)
               /\ waiting(c.relay, m) = <<>>
               /\ \A n : n /= m => Rest(waiting(c.relay, n), waiting(r, n))
  <1> DEFINE fresh == expire(r, t)
             c == collect(r, m, t)
  <1>1. Loses(r, fresh) /\ Shape(fresh, t)
    BY ExpireLoses, Zenon
  <1>2. /\ c.relay.mailboxes = Restrict(fresh.mailboxes, DOMAIN fresh.mailboxes \ {m})
        /\ c.held = Envelopes(waiting(fresh, m))
    BY Zenon DEF collect, Envelopes
  <1> HIDE DEF fresh, c
  <1>3. /\ DOMAIN c.relay.mailboxes = DOMAIN fresh.mailboxes \ {m}
        /\ \A n \in DOMAIN c.relay.mailboxes : c.relay.mailboxes[n] = fresh.mailboxes[n]
    BY <1>2, Zenon DEF Restrict
  <1>4. waiting(c.relay, m) = <<>> /\ \A n : n /= m => waiting(c.relay, n) = waiting(fresh, n)
    BY <1>3, Zenon DEF waiting
  <1>5. Shape(c.relay, t)
    BY <1>1, <1>3, Zenon DEF Shape
  <1>6. \E k : Rest(k, waiting(r, m)) /\ c.held = Envelopes(k)
    BY <1>1, <1>2, Zenon DEF Loses
  <1>7. \A n : n /= m => Rest(waiting(c.relay, n), waiting(r, n))
    BY <1>1, <1>4, Zenon DEF Loses
  <1> QED BY <1>4, <1>5, <1>6, <1>7, Zenon DEF c

\* An envelope that has room is within the limits.
LEMMA PushLimits ==
    ASSUME NEW t \in Nat, NEW r, Shape(r, t), Limits(r), NEW m \in Pairs, NEW e \in Frames,
           r.total_bytes + e.size <= MAX_TOTAL_BYTES,
           Cardinality(DOMAIN r.mailboxes \cup {m}) <= MAX_MAILBOXES
    PROVE  Limits(Push(r, m, e, t))
  <1> DEFINE room == IF Len(waiting(r, m)) >= MAX_QUEUED_ENVELOPES THEN DropFirst(r, m) ELSE r
             h == [envelope |-> e, deposited |-> t]
             s == Push(r, m, e, t)
  <1>1. h \in Held /\ h.envelope = e
    BY Zenon DEF Held
  <1>2. MAX_QUEUED_ENVELOPES \in Nat \ {0} /\ MAX_TOTAL_BYTES \in Nat /\ MAX_MAILBOXES \in Nat
    BY RelayAssumption, Zenon
  <1>3. /\ Shape(room, t) /\ Limits(room) /\ room.total_bytes <= r.total_bytes
        /\ DOMAIN room.mailboxes \in SUBSET DOMAIN r.mailboxes
        /\ Len(waiting(room, m)) + 1 <= MAX_QUEUED_ENVELOPES
    <2>1. /\ waiting(r, m) \in Seq(Held) /\ Len(waiting(r, m)) <= MAX_QUEUED_ENVELOPES
          /\ r.total_bytes \in Nat
      BY Waits, Loads, Zenon DEF Limits
    <2>2. Len(waiting(r, m)) \in Nat
      BY <2>1
    <2>3. CASE Len(waiting(r, m)) >= MAX_QUEUED_ENVELOPES
      <3>1. waiting(r, m) /= <<>>
        BY <1>2, <2>3
      <3>2. m \in DOMAIN r.mailboxes
        BY <3>1, Zenon DEF waiting
      <3>3. Loses(r, room) /\ Shape(room, t) /\ Limits(room) /\ room.total_bytes <= r.total_bytes
            /\ Len(waiting(room, m)) = Len(waiting(r, m)) - 1
        BY <2>3, <3>2, DropLoses, DropLimits, Zenon
      <3> HIDE DEF room
      <3>4. DOMAIN room.mailboxes \in SUBSET DOMAIN r.mailboxes
        BY <3>3, LosesBoxes, Zenon
      <3>5. Len(waiting(room, m)) + 1 <= MAX_QUEUED_ENVELOPES
        BY <1>2, <2>1, <2>2, <3>3
      <3> QED BY <3>3, <3>4, <3>5, Zenon
    <2>4. CASE ~(Len(waiting(r, m)) >= MAX_QUEUED_ENVELOPES)
      <3>1. room = r
        BY <2>4, Zenon
      <3>2. Len(waiting(r, m)) + 1 <= MAX_QUEUED_ENVELOPES /\ r.total_bytes <= r.total_bytes
        BY <1>2, <2>1, <2>2, <2>4
      <3>3. DOMAIN r.mailboxes \in SUBSET DOMAIN r.mailboxes
        BY Zenon
      <3> HIDE DEF room
      <3> QED BY <3>1, <3>2, <3>3, Zenon
    <2> QED BY <2>3, <2>4, Zenon
  <1>4. /\ DOMAIN s.mailboxes = DOMAIN room.mailboxes \cup {m}
        /\ waiting(s, m) = Append(waiting(room, m), h)
        /\ \A n : n /= m => waiting(s, n) = waiting(room, n)
        /\ s.total_bytes = room.total_bytes + e.size
    <2> DEFINE boxes == [n \in DOMAIN room.mailboxes \cup {m} |->
                           IF n = m THEN Append(waiting(room, m), h) ELSE room.mailboxes[n]]
    <2>1. s.mailboxes = boxes /\ s.total_bytes = room.total_bytes + e.size
      BY Zenon DEF Push
    <2> HIDE DEF room, s, h
    <2> QED BY <2>1, Zenon DEF waiting
  <1>5. Shape(s, t)
    BY PushDeposits, Zenon
  <1> HIDE DEF s, h, room
  <1>6. waiting(room, m) \in Seq(Held)
    BY <1>3, Waits, Zenon
  <1>7. /\ QueueBytes(waiting(s, m)) = QueueBytes(waiting(room, m)) + e.size /\ e.size \in Nat
    BY <1>1, <1>4, <1>6, BytesAppend, Zenon
  <1>8. /\ Kept(s) + QueueBytes(waiting(room, m)) = Kept(room) + QueueBytes(waiting(s, m))
        /\ Kept(room) \in Nat /\ Kept(s) \in Nat /\ QueueBytes(waiting(room, m)) \in Nat
    BY <1>3, <1>4, <1>5, KeptChange, Zenon
  <1>9. room.total_bytes = Kept(room) /\ r.total_bytes \in Nat
    BY <1>3, Loads, Zenon DEF Limits
  <1>10. s.total_bytes = Kept(s) /\ Kept(s) <= MAX_TOTAL_BYTES
    <2>1. Kept(s) = Kept(room) + e.size
      BY <1>7, <1>8
    <2>2. room.total_bytes <= r.total_bytes /\ s.total_bytes = room.total_bytes + e.size
          /\ r.total_bytes + e.size <= MAX_TOTAL_BYTES
      BY <1>3, <1>4, Zenon
    <2> QED BY <1>2, <1>7, <1>8, <1>9, <2>1, <2>2
  <1>11. Cardinality(DOMAIN s.mailboxes) <= MAX_MAILBOXES
    <2>1. IsFiniteSet(DOMAIN r.mailboxes \cup {m})
      BY HeldOver, PairsFinite, FS_Subset, FS_AddElement, Zenon
    <2>2. DOMAIN s.mailboxes \in SUBSET (DOMAIN r.mailboxes \cup {m})
      BY <1>3, <1>4, Zenon
    <2>3. /\ Cardinality(DOMAIN s.mailboxes) <= Cardinality(DOMAIN r.mailboxes \cup {m})
          /\ Cardinality(DOMAIN s.mailboxes) \in Nat
          /\ Cardinality(DOMAIN r.mailboxes \cup {m}) \in Nat
      BY <2>1, <2>2, FS_Subset, FS_CardinalityType, Zenon
    <2> QED BY <1>2, <2>3
  <1>12. ASSUME NEW n PROVE Len(waiting(s, n)) <= MAX_QUEUED_ENVELOPES
    <2>1. CASE n = m
      <3>1. Len(waiting(s, m)) = Len(waiting(room, m)) + 1
        BY <1>1, <1>4, <1>6, Appended
      <3> QED BY <1>3, <2>1, <3>1, Zenon
    <2>2. CASE n /= m
      BY <1>3, <1>4, <2>2, Zenon DEF Limits
    <2> QED BY <2>1, <2>2, Zenon
  <1> QED BY <1>10, <1>11, <1>12, Zenon DEF Limits, s

\* A deposit keeps the limits, whatever becomes of it.
LEMMA DepositLimits ==
    ASSUME NEW t \in Nat, NEW r, Shape(r, t), Limits(r), NEW m \in Pairs, NEW e \in Frames,
           NEW s \in deposit(r, m, e, t)
    PROVE  Limits(s)
  <1> DEFINE fresh == expire(r, t)
             full == m \notin DOMAIN fresh.mailboxes
                       /\ Cardinality(DOMAIN fresh.mailboxes) >= MAX_MAILBOXES
  <1>1. Shape(fresh, t) /\ Limits(fresh)
    BY ExpireLoses, ExpireLimits, Zenon
  <1>2. \/ s = r \/ s = fresh
        \/ ~full /\ \E u \in Evicted(fresh, e.size) :
                       s = IF u.total_bytes + e.size > MAX_TOTAL_BYTES THEN u ELSE Push(u, m, e, t)
    BY Zenon DEF deposit
  <1> HIDE DEF fresh
  <1>3. ASSUME ~full, NEW u \in Evicted(fresh, e.size),
               s = IF u.total_bytes + e.size > MAX_TOTAL_BYTES THEN u ELSE Push(u, m, e, t)
        PROVE  Limits(s)
    <2>1. Loses(fresh, u) /\ Shape(u, t) /\ Limits(u)
      BY <1>1, <1>3, EvictedLoses, Zenon
    <2>2. CASE u.total_bytes + e.size > MAX_TOTAL_BYTES
      BY <1>3, <2>1, <2>2, Zenon
    <2>3. CASE ~(u.total_bytes + e.size > MAX_TOTAL_BYTES)
      <3>1. u.total_bytes + e.size <= MAX_TOTAL_BYTES
        <4>1. u.total_bytes \in Nat /\ MAX_TOTAL_BYTES \in Nat
          BY <2>1, Loads, RelayAssumption, Zenon DEF Limits
        <4>2. e.size \in Nat
          BY Zenon DEF Frames
        <4> QED BY <2>3, <4>1, <4>2
      <3>2. DOMAIN u.mailboxes \in SUBSET DOMAIN fresh.mailboxes
        BY <1>1, <2>1, LosesBoxes, Zenon
      <3>3. Cardinality(DOMAIN u.mailboxes \cup {m}) <= MAX_MAILBOXES
        <4> DEFINE D == DOMAIN fresh.mailboxes
        <4>1. /\ IsFiniteSet(D) /\ Cardinality(D) \in Nat /\ Cardinality(D) <= MAX_MAILBOXES
              /\ MAX_MAILBOXES \in Nat
          BY <1>1, HeldOver, PairsFinite, FS_Subset, FS_CardinalityType, RelayAssumption, Zenon
             DEF Limits
        <4>2. IsFiniteSet(D \cup {m})
              /\ Cardinality(D \cup {m}) = IF m \in D THEN Cardinality(D) ELSE Cardinality(D) + 1
          BY <4>1, FS_AddElement, Zenon
        <4>3. DOMAIN u.mailboxes \cup {m} \in SUBSET (D \cup {m})
          BY <3>2, Zenon
        <4>4. /\ Cardinality(DOMAIN u.mailboxes \cup {m}) <= Cardinality(D \cup {m})
              /\ Cardinality(DOMAIN u.mailboxes \cup {m}) \in Nat
          BY <4>2, <4>3, FS_Subset, FS_CardinalityType, Zenon
        <4>5. m \in D \/ ~(Cardinality(D) >= MAX_MAILBOXES)
          BY <1>3, Zenon
        <4> HIDE DEF D
        <4> QED BY <4>1, <4>2, <4>4, <4>5
      <3> QED BY <1>3, <2>1, <2>3, <3>1, <3>3, PushLimits, Zenon
    <2> QED BY <2>2, <2>3, Zenon
  <1> QED BY <1>1, <1>2, <1>3, Zenon

\* A collected mailbox takes its bytes with it.
LEMMA CollectLimits ==
    ASSUME NEW t \in Nat, NEW r, Shape(r, t), Limits(r), NEW m \in Pairs
    PROVE  Limits(collect(r, m, t).relay)
  <1> DEFINE fresh == expire(r, t)
             s == collect(r, m, t).relay
  <1>1. Shape(fresh, t) /\ Limits(fresh)
    BY ExpireLoses, ExpireLimits, Zenon
  <1>2. /\ s.mailboxes = Restrict(fresh.mailboxes, DOMAIN fresh.mailboxes \ {m})
        /\ s.total_bytes = saturating_sub(fresh.total_bytes, QueueBytes(waiting(fresh, m)))
    BY Zenon DEF collect
  <1>3. Shape(s, t)
    BY CollectOutcome, Zenon
  <1> HIDE DEF fresh, s
  <1>4. waiting(s, m) = <<>> /\ \A n : n /= m => waiting(s, n) = waiting(fresh, n)
    BY <1>2, Zenon DEF waiting, Restrict
  <1>5. /\ Kept(s) + QueueBytes(waiting(fresh, m)) = Kept(fresh) + QueueBytes(waiting(s, m))
        /\ Kept(fresh) \in Nat /\ Kept(s) \in Nat /\ QueueBytes(waiting(fresh, m)) \in Nat
    BY <1>1, <1>3, <1>4, KeptChange, Zenon
  <1>6. QueueBytes(waiting(s, m)) = 0
    BY <1>4, NoBytes, Zenon
  <1>7. fresh.total_bytes = Kept(fresh)
    BY <1>1, Zenon DEF Limits
  <1>8. s.total_bytes = Kept(s)
    BY <1>2, <1>5, <1>6, <1>7 DEF saturating_sub
  <1>9. Loses(fresh, s)
    <2>1. ASSUME NEW n PROVE Rest(waiting(s, n), waiting(fresh, n))
      <3>1. waiting(fresh, n) \in Seq(Held)
        BY <1>1, Waits, Zenon
      <3>2. waiting(s, n) = <<>> \/ waiting(s, n) = waiting(fresh, n)
        BY <1>4, Zenon
      <3> QED BY <3>1, <3>2, RestEnds, Zenon
    <2> QED BY <2>1, Zenon DEF Loses
  <1> QED BY <1>1, <1>3, <1>8, <1>9, LosesLimits, Zenon DEF s

\* They are frames, as many as there are in the queue.
LEMMA EnvelopesOf ==
    ASSUME NEW q \in Seq(Held)
    PROVE  /\ Envelopes(q) \in Seq(Frames) /\ Len(Envelopes(q)) = Len(q)
           /\ \A i \in 1..Len(q) : Envelopes(q)[i] = q[i].envelope
  <1>1. ASSUME NEW i \in 1..Len(q) PROVE q[i].envelope \in Frames
    <2>1. q[i] \in Held
      OBVIOUS
    <2> QED BY <2>1, Zenon DEF Held
  <1> QED BY <1>1 DEF Envelopes

\* A box that lost its oldest, as its users see it.
LEMMA EnvelopesRest ==
    ASSUME NEW q \in Seq(Held), NEW s, Rest(s, q)
    PROVE  Envelopes(s) \in Promise!Remainders(Envelopes(q))
  <1>1. PICK n \in 0..Len(q) : s = SubSeq(q, n + 1, Len(q))
    BY Zenon DEF Rest
  <1>2. Envelopes(q) \in Seq(Frames) /\ Len(Envelopes(q)) = Len(q)
    BY EnvelopesOf, Zenon
  <1>3. Envelopes(s) = SubSeq(Envelopes(q), n + 1, Len(Envelopes(q)))
    <2>1. s \in Seq(Held) /\ Len(s) = Len(q) - n /\ \A i \in 1..Len(s) : s[i] = q[n + i] /\ n + i \in 1..Len(q)
      BY <1>1
    <2> DEFINE e == Envelopes(q)
    <2>2. SubSeq(e, n + 1, Len(e)) = [i \in 1..(Len(q) - n) |-> e[n + i]]
      <3>1. e \in Seq(Frames) /\ Len(e) = Len(q)
        BY <1>2, Zenon
      <3> HIDE DEF e
      <3> QED BY <3>1
    <2>3. \A i \in 1..Len(s) : e[n + i] = s[i].envelope
      BY <2>1 DEF Envelopes
    <2>4. Envelopes(s) = [i \in 1..(Len(q) - n) |-> s[i].envelope]
      BY <2>1 DEF Envelopes
    <2> HIDE DEF e
    <2>5. SubSeq(e, n + 1, Len(e)) = Envelopes(s)
      BY <2>1, <2>2, <2>3, <2>4, Zenon
    <2> QED BY <2>5, Zenon DEF e
  <1>4. n \in 0..Len(Envelopes(q))
    BY <1>2, Zenon
  <1> QED BY <1>3, <1>4, Zenon DEF Promise!Remainders, Promise!After

\* A box with one more at its end, as its users see it.
LEMMA EnvelopesAppend ==
    ASSUME NEW k \in Seq(Held), NEW h \in Held
    PROVE  LET b == Envelopes(Append(k, h))
           IN  /\ Len(b) = Len(Envelopes(k)) + 1
               /\ SubSeq(b, 1, Len(Envelopes(k))) = Envelopes(k)
               /\ b[Len(b)] = h.envelope
               /\ b \in Seq(Frames)
  <1> DEFINE b == Envelopes(Append(k, h))
             e == Envelopes(k)
             a == Append(k, h)
  <1>1. /\ Append(k, h) \in Seq(Held) /\ Len(Append(k, h)) = Len(k) + 1
        /\ Append(k, h)[Len(k) + 1] = h
        /\ \A i \in 1..Len(k) : Append(k, h)[i] = k[i]
    BY Appended
  <1>2. b \in Seq(Frames) /\ Len(b) = Len(k) + 1 /\ \A i \in 1..(Len(k) + 1) : b[i] = a[i].envelope
    BY <1>1, EnvelopesOf, Zenon
  <1>3. e \in Seq(Frames) /\ Len(e) = Len(k) /\ \A i \in 1..Len(k) : e[i] = k[i].envelope
    BY EnvelopesOf, Zenon
  <1>4. a[Len(k) + 1] = h /\ \A i \in 1..Len(k) : a[i] = k[i]
    BY <1>1, Zenon
  <1> HIDE DEF a, b, e
  <1>5. Len(k) \in Nat /\ Len(k) + 1 \in 1..(Len(k) + 1) /\ \A i \in 1..Len(k) : i \in 1..(Len(k) + 1)
    OBVIOUS
  <1>6. b[Len(b)] = h.envelope
    BY <1>2, <1>4, <1>5, Zenon
  <1>7. \A i \in 1..Len(k) : b[i] = e[i]
    BY <1>2, <1>3, <1>4, <1>5, Zenon
  <1>8. SubSeq(b, 1, Len(e)) = e
    BY <1>2, <1>3, <1>5, <1>7
  <1> QED BY <1>2, <1>3, <1>6, <1>8, Zenon DEF b, e
==============================================================================
