-------------------------- MODULE DiscoveryProofs ----------------------------
(***************************************************************************)
(* Proofs about a run of the engine, the trace to the outside and the      *)
(* clock of an SNMP engine.                                                *)
(*                                                                         *)
(* The run (Orchestrator): what it means that it says it converged, what   *)
(* it never loses and never asks twice, for every set of networks and      *)
(* devices, every budget and every yield.  What convergence means depends  *)
(* on earlier passes, so each queue needs an invariant of its own.         *)
(*                                                                         *)
(* That the hops of a trace are its routers (PathTrace) needs that every   *)
(* error in the air quotes a probe that was sent.                          *)
(*                                                                         *)
(* The estimate of an engine's time (UsmEngine) needs that the counters    *)
(* were true of the engine when they were recorded, and so does every      *)
(* message that can still arrive; the salts need that all of them count on *)
(* from one seed.                                                          *)
(***************************************************************************)
EXTENDS Orchestrator, PathTrace, UsmEngine, TLAPS

------------------------------------------------------------------------------
(* The run.                                                                 *)

\* Where `run` has left the loop.
Left == point \in {"ending", "done"}

\* Sources: what they accepted is in the buffer or in the graph, a finished source holds
\* nothing, and the loop is only left with the sources finished.
SourceInv ==
    /\ owed \subseteq buffer
    /\ continuous_finished => buffer = {}
    /\ Left => continuous_finished

\* Queues: after the fold every network is processed or pending, and convergence is said only
\* on the way out, with both queues empty.
ScopeInv ==
    /\ point = "decide" => local \ processed \subseteq scopes
    /\ converged => Left
    /\ converged => local \ processed \subseteq peerNamed
    /\ converged => nodes \subseteq interrogated

\* Coverage: who was asked and has no record is still being asked, or was lost under one of
\* the names it has.
CoverageInv ==
    /\ point # "enriching" => inquiry = {}
    /\ \A d \in interrogated \ (coverage \cup inquiry) :
          d \in lost \/ \E a \in owned : Holder[a] = d /\ a \in lost

\* Ledger: whom a task was started for is in the ledger, or was folded into an owner that is.
LedgerInv ==
    /\ point # "done" => interrogated \subseteq nodes
    /\ point # "done" => \A x \in queried \ interrogated :
          x \in owned /\ x \notin nodes /\ Holder[x] \in interrogated
    /\ point = "decide" => \A a \in owned \cap nodes : Holder[a] \notin nodes

Inv == RunTypeOK /\ SourceInv /\ ScopeInv /\ CoverageInv /\ LedgerInv

-----------------------------------------------------------------------------
\* An identity is an address or hardware, and only an address has an owner.
LEMMA Identities ==
    /\ \A a \in Addresses : Holder[a] \in Macs
    /\ \A d : ~(d \in Addresses /\ d \in Macs)
  BY OrchestratorAssumption, Zenon

\* What facts are about.
LEMMA FactsOf ==
    ASSUME NEW facts \in SUBSET AllFacts
    PROVE  /\ Of("network", facts) \subseteq Networks
           /\ Of("peer_network", facts) \subseteq Networks
           /\ Of("address", facts) \subseteq Addresses
           /\ Of("binding", facts) \subseteq Addresses
           /\ Of("hardware", facts) \subseteq Macs
           /\ Of("role", facts) \subseteq Devices
  BY Zenon DEF Of, AllFacts, ProviderFacts, PeerFacts

\* Absorbing facts keeps the types, takes no network, device or owner away, pays what is owed
\* of them, and never files a device under an address that has an owner.
LEMMA Absorbs ==
    ASSUME RunTypeOK, NEW facts \in SUBSET AllFacts, Absorb(facts)
    PROVE  /\ local' \in SUBSET Networks /\ peerNamed' \in SUBSET Networks
           /\ nodes' \in SUBSET Devices /\ owned' \in SUBSET Addresses
           /\ pivots' \in SUBSET Devices /\ owed' \in SUBSET AllFacts
           /\ local \subseteq local' /\ peerNamed \subseteq peerNamed'
           /\ nodes \subseteq nodes' /\ owned \subseteq owned'
           /\ owed' = owed \ facts
           /\ \A a \in owned : a \in nodes' => a \in nodes
  <1>1. PICK early \in SUBSET (Of("binding", facts) \ owned) :
          LET held == owned \cup early
          IN  /\ local' = local \cup Of("network", facts)
              /\ peerNamed' = peerNamed \cup Of("peer_network", facts)
              /\ nodes' = nodes \cup {Canonical(a, held) : a \in Of("address", facts)}
                                \cup Of("hardware", facts)
                                \cup {Holder[a] : a \in Of("binding", facts)}
              /\ owned' = owned \cup Of("binding", facts)
              /\ pivots' = pivots \cup {Canonical(d, held) : d \in Of("role", facts)}
              /\ owed' = owed \ facts
    BY Zenon DEF Absorb
  <1> DEFINE held == owned \cup early
  <1>2. /\ held \subseteq Addresses /\ owned \subseteq held
        /\ \A d \in held : Canonical(d, held) = Holder[d] /\ Holder[d] \in Macs
        /\ \A d : d \notin held => Canonical(d, held) = d
    BY FactsOf, Identities, Zenon DEF Canonical, RunTypeOK
  <1>3. \A d \in Devices : Canonical(d, held) \in Devices /\ Canonical(d, held) \notin owned
    BY <1>2, Identities, ZenonT(40) DEF Devices
  <1> HIDE DEF held
  <1>4. /\ nodes' \in SUBSET Devices /\ pivots' \in SUBSET Devices
    <2>1. {Canonical(a, held) : a \in Of("address", facts)} \subseteq Devices
      BY <1>3, FactsOf, Zenon DEF Devices
    <2>2. {Holder[a] : a \in Of("binding", facts)} \subseteq Devices
      BY FactsOf, Identities, Zenon DEF Devices
    <2>3. {Canonical(d, held) : d \in Of("role", facts)} \subseteq Devices
      BY <1>3, FactsOf, Zenon
    <2>4. Of("hardware", facts) \subseteq Devices
      BY FactsOf, Zenon DEF Devices
    <2> QED BY <1>1, <2>1, <2>2, <2>3, <2>4, Zenon DEF RunTypeOK, held
  <1>5. \A a \in owned : a \in nodes' => a \in nodes
    <2> SUFFICES ASSUME NEW a \in owned, a \in nodes' PROVE a \in nodes
      BY Zenon
    <2>1. a \in Addresses
      BY Zenon DEF RunTypeOK
    <2>2. a \notin {Canonical(x, held) : x \in Of("address", facts)}
      BY <1>3, FactsOf, Zenon DEF Devices
    <2>3. a \notin Of("hardware", facts) /\ a \notin {Holder[x] : x \in Of("binding", facts)}
      BY <2>1, FactsOf, Identities, Zenon
    <2> QED BY <1>1, <2>2, <2>3, Zenon DEF held
  <1> QED BY <1>1, <1>4, <1>5, FactsOf, Zenon DEF RunTypeOK

\* What folding does to a set of identities.
LEMMA Renames ==
    ASSUME NEW identities, NEW bound \in SUBSET Addresses, NEW renamed
    PROVE  LET aliases == Folded(identities, bound)
           IN  /\ aliases \subseteq identities \cap bound
               /\ \A a \in aliases : Holder[a] \in identities /\ Holder[a] \in Macs
               /\ \A a \in aliases : Holder[a] \notin bound
               /\ \A a \in bound \cap identities : Holder[a] \in identities => a \in aliases
               /\ \A d : d \in Rename(renamed, aliases) <=>
                           \/ d \in renamed /\ d \notin aliases
                           \/ \E a \in renamed \cap aliases : d = Holder[a]
  <1> DEFINE aliases == Folded(identities, bound)
  <1>1. /\ aliases \subseteq identities \cap bound
        /\ \A a \in aliases : Holder[a] \in identities /\ Holder[a] \in Macs
        /\ \A a \in aliases : Holder[a] \notin bound
        /\ \A a \in bound \cap identities : Holder[a] \in identities => a \in aliases
    BY Identities, Zenon DEF Folded
  <1>2. ASSUME NEW d
        PROVE  d \in Rename(renamed, aliases) <=>
                 \/ d \in renamed /\ d \notin aliases
                 \/ \E a \in renamed \cap aliases : d = Holder[a]
    BY Zenon DEF Rename
  <1> QED BY <1>1, <1>2, Zenon

\* The facts a pass yields, and what is buffered, can be absorbed.
LEMMA Absorbable ==
    /\ \A facts \in Yields : facts \in SUBSET AllFacts
    /\ RunTypeOK => buffer \in SUBSET AllFacts /\ FinalEvidence \in SUBSET AllFacts
  BY Zenon DEF Yields, AllFacts, RunTypeOK, FinalEvidence

\* The invariant holds before the seed.
LEMMA Initially == RunInit => Inv
  <1> SUFFICES ASSUME RunInit PROVE Inv
    BY Zenon
  <1>1. RunTypeOK
    <2>1. continuous_finished \in BOOLEAN /\ converged \in BOOLEAN
      BY Zenon DEF RunInit
    <2>2. scopes \in SUBSET Networks /\ iteration \in 0..MaxIterations
      BY OrchestratorAssumption DEF RunInit
    <2> QED BY <2>1, <2>2, Zenon DEF RunInit, RunTypeOK
  <1>2. SourceInv /\ ScopeInv /\ CoverageInv /\ LedgerInv
    BY Zenon DEF RunInit, SourceInv, ScopeInv, CoverageInv, LedgerInv, Left
  <1> QED BY <1>1, <1>2, Zenon DEF Inv

\* Evidence arriving at a source waits in its buffer.
LEMMA ArriveKeeps ==
    ASSUME Inv, NEW f \in AllFacts, Arrive(f)
    PROVE  Inv'
  <1> USE DEF Arrive, runVars
  <1>1. RunTypeOK'
    BY Zenon DEF Inv, RunTypeOK
  <1>2. SourceInv'
    BY Zenon DEF Inv, SourceInv, Left
  <1>3. ScopeInv' /\ CoverageInv' /\ LedgerInv'
    BY Zenon DEF Inv, ScopeInv, CoverageInv, LedgerInv, Left
  <1> QED BY <1>1, <1>2, <1>3, Zenon DEF Inv

\* The seed providers' facts enter an empty graph.
LEMMA SeedKeeps ==
    ASSUME Inv, SeedGraph
    PROVE  Inv'
  <1>1. PICK facts \in SUBSET AllFacts : Absorb(facts)
    BY Absorbable, Zenon DEF SeedGraph
  <1>2. RunTypeOK'
    BY <1>1, Absorbs, Zenon DEF Inv, RunTypeOK, SeedGraph
  <1>3. SourceInv'
    BY <1>1, Absorbs, Zenon DEF Inv, SourceInv, Left, SeedGraph
  <1>4. ScopeInv'
    BY <1>1, Zenon DEF Inv, ScopeInv, Left, SeedGraph
  <1>5. CoverageInv'
    BY <1>1, Absorbs, Zenon DEF Inv, CoverageInv, SeedGraph
  <1>6. LedgerInv'
    BY <1>1, Absorbs, Zenon DEF Inv, LedgerInv, SeedGraph
  <1> QED BY <1>2, <1>3, <1>4, <1>5, <1>6, Zenon DEF Inv

\* Polling empties the buffers into the graph.
LEMMA PollKeeps ==
    ASSUME Inv, Poll
    PROVE  Inv'
  <1>1. Absorb(buffer) /\ buffer \in SUBSET AllFacts
    BY Absorbable, Zenon DEF Poll, Inv
  <1>2. RunTypeOK'
    BY <1>1, Absorbs, OrchestratorAssumption DEF Inv, RunTypeOK, Poll, BeginPass
  <1>3. SourceInv'
    BY <1>1, Absorbs, Zenon DEF Inv, SourceInv, Left, Poll
  <1>4. ScopeInv'
    BY <1>1, Zenon DEF Inv, ScopeInv, Left, Poll
  <1>5. CoverageInv'
    BY <1>1, Absorbs, Zenon DEF Inv, CoverageInv, Poll
  <1>6. LedgerInv'
    BY <1>1, Absorbs, Zenon DEF Inv, LedgerInv, Poll
  <1> QED BY <1>2, <1>3, <1>4, <1>5, <1>6, Zenon DEF Inv

\* Folding queues what is not processed and leaves no address beside its owner; ledger and
\* coverage follow the identities.
LEMMA FoldKeeps ==
    ASSUME Inv, Fold
    PROVE  Inv'
  <1> DEFINE aliases == Folded(nodes, owned)
  <1>1. /\ nodes' = Rename(nodes, aliases) /\ pivots' = Rename(pivots, aliases)
        /\ interrogated' = Rename(interrogated, aliases) /\ coverage' = Rename(coverage, aliases)
        /\ scopes' = (scopes \cup local) \ processed /\ point = "fold" /\ point' = "decide"
        /\ UNCHANGED <<local, peerNamed, owned, owed, buffer, iteration, processed, queried,
                       inquiry, lost, oversized_scopes, continuous_finished, converged>>
    BY Zenon DEF Fold, AliasedLedger, AliasedCoverage, PendingScopes
  <1>2. /\ aliases \subseteq nodes \cap owned
        /\ \A a \in aliases : Holder[a] \in nodes /\ Holder[a] \in Macs /\ Holder[a] \notin owned
        /\ \A a \in owned \cap nodes : Holder[a] \in nodes => a \in aliases
    <2>1. owned \in SUBSET Addresses
      BY Zenon DEF Inv, RunTypeOK
    <2> QED BY <2>1, Renames, Zenon
  <1>3. ASSUME NEW set, NEW d
        PROVE  d \in Rename(set, aliases) <=> \/ d \in set /\ d \notin aliases
                                              \/ \E a \in set \cap aliases : d = Holder[a]
    BY Renames DEF Inv, RunTypeOK
  <1> HIDE DEF aliases
  <1>4. \A set : set \subseteq Devices => Rename(set, aliases) \subseteq Devices
    BY <1>2, <1>3 DEF Devices
  <1>5. RunTypeOK'
    <2>1. nodes' \in SUBSET Devices /\ pivots' \in SUBSET Devices
      BY <1>1, <1>4, Zenon DEF Inv, RunTypeOK
    <2>2. interrogated' \in SUBSET Devices /\ coverage' \in SUBSET Devices
      BY <1>1, <1>4, Zenon DEF Inv, RunTypeOK
    <2>3. scopes' \in SUBSET Networks
      BY <1>1, Zenon DEF Inv, RunTypeOK
    <2> QED BY <1>1, <2>1, <2>2, <2>3, Zenon DEF Inv, RunTypeOK
  <1>6. SourceInv' /\ ScopeInv'
    BY <1>1, Zenon DEF Inv, SourceInv, ScopeInv, Left
  <1>7. CoverageInv'
    <2>1. inquiry' = {}
      BY <1>1, Zenon DEF Inv, CoverageInv
    <2> SUFFICES ASSUME NEW d \in interrogated' \ coverage'
                 PROVE  d \in lost \/ \E a \in owned : Holder[a] = d /\ a \in lost
      BY <1>1, <2>1, Zenon DEF CoverageInv
    <2>2. CASE d \in interrogated /\ d \notin aliases
      BY <1>1, <1>3, <2>1, <2>2, Zenon DEF Inv, CoverageInv
    <2>3. CASE \E a \in interrogated \cap aliases : d = Holder[a]
      <3>1. PICK a \in interrogated \cap aliases : d = Holder[a]
        BY <2>3, Zenon
      <3>2. a \notin coverage /\ a \in owned /\ a \in Addresses
        BY <1>1, <1>2, <1>3, <3>1, Zenon DEF Inv, RunTypeOK
      <3>3. \A b \in owned : Holder[b] # a
        BY <3>2, Identities, Zenon DEF Inv, RunTypeOK
      <3>4. a \in lost
        BY <1>1, <2>1, <3>1, <3>2, <3>3, Zenon DEF Inv, CoverageInv
      <3> QED BY <3>1, <3>2, <3>4, Zenon
    <2> QED BY <1>1, <1>3, <2>2, <2>3
  <1>8. LedgerInv'
    <2>1. interrogated' \subseteq nodes'
      BY <1>1, <1>3 DEF Inv, LedgerInv
    <2>2. ASSUME NEW x \in queried \ interrogated'
          PROVE  x \in owned /\ x \notin nodes' /\ Holder[x] \in interrogated'
      <3>1. CASE x \in interrogated
        <4>1. x \in aliases
          BY <1>1, <1>3, <2>2, <3>1, Zenon
        <4>2. x \notin nodes'
          BY <1>1, <1>2, <1>3, <4>1
        <4> QED BY <1>1, <1>2, <1>3, <3>1, <4>1, <4>2, Zenon
      <3>2. CASE x \notin interrogated
        <4>1. x \in owned /\ x \notin nodes /\ Holder[x] \in interrogated
          BY <1>1, <2>2, <3>2, Zenon DEF Inv, LedgerInv
        <4>2. x \notin nodes'
          BY <1>1, <1>2, <1>3, <4>1
        <4>3. Holder[x] \notin aliases
          BY <1>2, <4>1, Identities, Zenon DEF Inv, RunTypeOK
        <4> QED BY <1>1, <1>3, <4>1, <4>2, <4>3, Zenon
      <3> QED BY <3>1, <3>2, Zenon
    <2>3. ASSUME NEW a \in owned \cap nodes' PROVE Holder[a] \notin nodes'
      <3>1. a \in nodes /\ a \notin aliases
        BY <1>1, <1>2, <1>3, <2>3
      <3>2. Holder[a] \notin nodes
        BY <1>2, <2>3, <3>1, Zenon
      <3> QED BY <1>1, <1>2, <1>3, <3>2, Zenon
    <2> QED BY <1>1, <2>1, <2>2, <2>3, Zenon DEF LedgerInv
  <1> QED BY <1>5, <1>6, <1>7, <1>8, Zenon DEF Inv

\* Every device not in the ledger is entered and asked.
LEMMA LaunchKeeps ==
    ASSUME Inv, Launch
    PROVE  Inv'
  <1> USE DEF Launch, graphVars, Outstanding
  <1>1. RunTypeOK'
    BY Zenon DEF Inv, RunTypeOK
  <1>2. SourceInv' /\ ScopeInv'
    BY Zenon DEF Inv, SourceInv, ScopeInv, Left
  <1>3. CoverageInv'
    BY Zenon DEF Inv, CoverageInv
  <1>4. LedgerInv'
    BY Zenon DEF Inv, LedgerInv
  <1> QED BY <1>1, <1>2, <1>3, <1>4, Zenon DEF Inv

\* The sources end and their last evidence is absorbed: the run converges only if that added
\* nothing it would have to look at.
LEMMA FinalDrainKeeps ==
    ASSUME Inv, FinalDrain
    PROVE  Inv'
  <1>1. Absorb(buffer) /\ buffer \in SUBSET AllFacts
    BY Absorbable, Zenon DEF FinalDrain, FinalEvidence, Inv
  <1>2. /\ point = "decide" /\ scopes = {} /\ nodes \subseteq interrogated
        /\ buffer' = {} /\ continuous_finished' = TRUE
        /\ UNCHANGED <<iteration, scopes, processed, interrogated, queried, inquiry, coverage,
                       lost, oversized_scopes>>
    BY Zenon DEF FinalDrain, NothingToDo, Outstanding
  <1>3. \/ point' = "top" /\ converged' = FALSE
        \/ point' = "ending" /\ converged' = TRUE /\ ~GainedNetwork /\ ~GainedDevice
    BY Zenon DEF FinalDrain
  <1>4. RunTypeOK'
    BY <1>1, <1>2, <1>3, Absorbs, Zenon DEF Inv, RunTypeOK
  <1>5. SourceInv'
    BY <1>1, <1>2, Absorbs, Zenon DEF Inv, SourceInv
  <1>6. ScopeInv'
    <2>1. CASE point' = "top" /\ converged' = FALSE
      BY <2>1, Zenon DEF ScopeInv
    <2>2. CASE point' = "ending" /\ converged' = TRUE /\ ~GainedNetwork /\ ~GainedDevice
      <3>1. local' \ processed' \subseteq peerNamed'
        BY <1>1, <1>2, <2>2, Absorbs, Zenon DEF Inv, ScopeInv, GainedNetwork
      <3>2. nodes' \subseteq interrogated'
        BY <1>2, <2>2, Zenon DEF GainedDevice, Outstanding
      <3> QED BY <2>2, <3>1, <3>2, Zenon DEF ScopeInv, Left
    <2> QED BY <1>3, <2>1, <2>2, Zenon
  <1>7. CoverageInv'
    BY <1>1, <1>2, <1>3, Absorbs, Zenon DEF Inv, CoverageInv
  <1>8. LedgerInv'
    BY <1>1, <1>2, <1>3, Absorbs, Zenon DEF Inv, LedgerInv
  <1> QED BY <1>4, <1>5, <1>6, <1>7, <1>8, Zenon DEF Inv

\* With the sources finished and nothing to do, the run has converged.
LEMMA SettleKeeps ==
    ASSUME Inv, Settle
    PROVE  Inv'
  <1> USE DEF Settle, graphVars, NothingToDo, Outstanding
  <1>1. RunTypeOK'
    BY Zenon DEF Inv, RunTypeOK
  <1>2. SourceInv' /\ ScopeInv'
    BY Zenon DEF Inv, SourceInv, ScopeInv, Left
  <1>3. CoverageInv' /\ LedgerInv'
    BY Zenon DEF Inv, CoverageInv, LedgerInv
  <1> QED BY <1>1, <1>2, <1>3, Zenon DEF Inv

\* Every task that ended left a record or was lost.
LEMMA EnrichedKeeps ==
    ASSUME Inv, Enriched
    PROVE  Inv'
  <1>1. PICK panicked \in SUBSET inquiry, facts \in SUBSET AllFacts :
          /\ Absorb(facts)
          /\ coverage' = coverage \cup (inquiry \ panicked)
          /\ lost' = lost \cup panicked
    BY Absorbable, Zenon DEF Enriched
  <1>2. /\ inquiry' = {} /\ point = "enriching" /\ point' = "scopes"
        /\ UNCHANGED <<buffer, iteration, scopes, processed, interrogated, queried,
                       oversized_scopes, continuous_finished, converged>>
    BY Zenon DEF Enriched
  <1>3. RunTypeOK'
    BY <1>1, <1>2, Absorbs, Zenon DEF Inv, RunTypeOK
  <1>4. SourceInv' /\ ScopeInv'
    BY <1>1, <1>2, Absorbs, Zenon DEF Inv, SourceInv, ScopeInv, Left
  <1>5. CoverageInv'
    BY <1>1, <1>2, Absorbs, Zenon DEF Inv, CoverageInv
  <1>6. LedgerInv'
    BY <1>1, <1>2, Absorbs, Zenon DEF Inv, LedgerInv
  <1> QED BY <1>3, <1>4, <1>5, <1>6, Zenon DEF Inv

\* One network goes through the providers.
LEMMA ProcessScopeKeeps ==
    ASSUME Inv, NEW n \in Networks, ProcessScope(n)
    PROVE  Inv'
  <1>1. PICK facts \in SUBSET AllFacts : Absorb(facts)
    BY Absorbable, Zenon DEF ProcessScope
  <1>2. RunTypeOK'
    BY <1>1, Absorbs, Zenon DEF Inv, RunTypeOK, ProcessScope
  <1>3. SourceInv' /\ ScopeInv'
    BY <1>1, Absorbs, Zenon DEF Inv, SourceInv, ScopeInv, Left, ProcessScope
  <1>4. CoverageInv'
    BY <1>1, Absorbs, Zenon DEF Inv, CoverageInv, ProcessScope
  <1>5. LedgerInv'
    BY <1>1, Absorbs, Zenon DEF Inv, LedgerInv, ProcessScope
  <1> QED BY <1>2, <1>3, <1>4, <1>5, Zenon DEF Inv

\* The pass ends; what it did not get to is found again by the next fold.
LEMMA EndPassKeeps ==
    ASSUME Inv, EndPass
    PROVE  Inv'
  <1> USE DEF EndPass, graphVars
  <1>1. RunTypeOK'
    BY Zenon DEF Inv, RunTypeOK
  <1>2. SourceInv' /\ ScopeInv'
    BY Zenon DEF Inv, SourceInv, ScopeInv, Left
  <1>3. CoverageInv' /\ LedgerInv'
    BY Zenon DEF Inv, CoverageInv, LedgerInv
  <1> QED BY <1>1, <1>2, <1>3, Zenon DEF Inv

\* At the ceiling the sources are finished and nothing is said of convergence.
LEMMA CeilingKeeps ==
    ASSUME Inv, Ceiling
    PROVE  Inv'
  <1> DEFINE facts == IF continuous_finished THEN {} ELSE buffer
  <1>1. facts \in SUBSET AllFacts /\ Absorb(facts)
    BY Zenon DEF Ceiling, FinalEvidence, Inv, RunTypeOK
  <1>2. /\ point = "top" /\ point' = "ending" /\ continuous_finished' = TRUE
        /\ UNCHANGED <<iteration, scopes, processed, interrogated, queried, inquiry, coverage,
                       lost, oversized_scopes, converged>>
    BY Zenon DEF Ceiling
  <1>3. buffer' = {} /\ buffer \subseteq facts
    BY Zenon DEF Ceiling, Inv, SourceInv
  <1> HIDE DEF facts
  <1>4. RunTypeOK'
    BY <1>1, <1>2, <1>3, Absorbs, Zenon DEF Inv, RunTypeOK
  <1>5. SourceInv'
    BY <1>1, <1>2, <1>3, Absorbs, Zenon DEF Inv, SourceInv
  <1>6. ScopeInv'
    BY <1>2, Zenon DEF Inv, ScopeInv, Left
  <1>7. CoverageInv'
    BY <1>1, <1>2, Absorbs, Zenon DEF Inv, CoverageInv
  <1>8. LedgerInv'
    BY <1>1, <1>2, Absorbs, Zenon DEF Inv, LedgerInv
  <1> QED BY <1>4, <1>5, <1>6, <1>7, <1>8, Zenon DEF Inv

\* The last fold files a device under an owner that was asked as well.
LEMMA FinalizeKeeps ==
    ASSUME Inv, Finalize
    PROVE  Inv'
  <1> DEFINE aliases == Folded(nodes, owned)
  <1>1. /\ nodes' = Rename(nodes, aliases) /\ pivots' = Rename(pivots, aliases)
        /\ point = "ending" /\ point' = "done"
        /\ UNCHANGED <<local, peerNamed, owned, owed, buffer, iteration, scopes, processed,
                       interrogated, queried, inquiry, coverage, lost, oversized_scopes,
                       continuous_finished, converged>>
    BY Zenon DEF Finalize
  <1>2. \A a \in aliases : Holder[a] \in nodes /\ Holder[a] \in Macs
    BY Renames DEF Inv, RunTypeOK
  <1>3. ASSUME NEW set, NEW d
        PROVE  d \in Rename(set, aliases) <=> \/ d \in set /\ d \notin aliases
                                              \/ \E a \in set \cap aliases : d = Holder[a]
    BY Renames DEF Inv, RunTypeOK
  <1> HIDE DEF aliases
  <1>4. RunTypeOK'
    <2>1. \A set : set \subseteq Devices => Rename(set, aliases) \subseteq Devices
      BY <1>2, <1>3 DEF Devices
    <2>2. nodes' \in SUBSET Devices /\ pivots' \in SUBSET Devices
      BY <1>1, <2>1, Zenon DEF Inv, RunTypeOK
    <2> QED BY <1>1, <2>2, Zenon DEF Inv, RunTypeOK
  <1>5. nodes' \subseteq nodes
    <2> SUFFICES ASSUME NEW d \in Rename(nodes, aliases) PROVE d \in nodes
      BY <1>1, Zenon
    <2>1. d \in nodes \/ \E a \in nodes \cap aliases : d = Holder[a]
      BY <1>3, Zenon
    <2> QED BY <1>2, <2>1, Zenon
  <1>6. SourceInv' /\ ScopeInv'
    BY <1>1, <1>5, Zenon DEF Inv, SourceInv, ScopeInv, Left
  <1>7. CoverageInv' /\ LedgerInv'
    BY <1>1, Zenon DEF Inv, CoverageInv, LedgerInv
  <1> QED BY <1>4, <1>6, <1>7, Zenon DEF Inv

-----------------------------------------------------------------------------
LEMMA Steps == Inv /\ [RunNext]_engineVars => Inv'
  <1> SUFFICES ASSUME Inv, [RunNext]_engineVars PROVE Inv'
    BY Zenon
  <1>1. CASE UNCHANGED engineVars
    BY <1>1, Zenon DEF engineVars, graphVars, runVars, Inv, RunTypeOK, SourceInv, ScopeInv, CoverageInv,
                LedgerInv, Left
  <1>2. CASE Engine
    BY <1>2, SeedKeeps, PollKeeps, FoldKeeps, LaunchKeeps, FinalDrainKeeps, SettleKeeps,
       EnrichedKeeps, ProcessScopeKeeps, EndPassKeeps, CeilingKeeps, FinalizeKeeps, Zenon DEF Engine
  <1>3. CASE \E f \in AllFacts : Arrive(f)
    BY <1>3, ArriveKeeps, Zenon
  <1> QED BY <1>1, <1>2, <1>3, Zenon DEF RunNext, Returned

LEMMA Invariance == RunSpec => []Inv
  BY Initially, Steps, PTL DEF RunSpec

\* A run that reports convergence has examined every network it observed itself, but for those
\* a peer had named, and asked every device it can reach, late arrivals included (`run`: the
\* two queues, and the drain that follows them).
THEOREM ConvergenceIsEarned == RunSpec => []ConvergedMeansDone
  <1>1. Inv => ConvergedMeansDone
    BY Zenon DEF Inv, ScopeInv, ConvergedMeansDone, ConvergedMeansExamined, ConvergedMeansAsked
  <1> QED BY Invariance, <1>1, PTL

\* By either way out of the loop, everything a source accepted is in the graph, and every
\* interrogation that ended is in coverage through all merges (`finish`, `apply_aliases`).
THEOREM ReportIsComplete == RunSpec => []ReportComplete
  <1>1. Inv => NothingLeftBehind
    BY Zenon DEF Inv, SourceInv, NothingLeftBehind, Left
  <1>2. Inv => CoverageComplete
    BY Zenon DEF Inv, CoverageInv, CoverageComplete
  <1>3. Inv => ReportComplete
    BY <1>1, <1>2, Zenon DEF Inv, ReportComplete
  <1> QED BY Invariance, <1>3, PTL

\* No device is asked again under another identity once the two are held to be one, however
\* often identities are merged in between (`apply_aliases` on the ledger of interrogated
\* devices).
THEOREM AskedOnce == RunSpec => NeverAskedAgain
  <1> DEFINE Again == inquiry' # {} /\ inquiry = {} =>
                        \A d \in inquiry' :
                           /\ d \notin queried
                           /\ \A a \in owned : Holder[a] = d => a \notin queried
  <1>1. Inv /\ [RunNext]_engineVars => [Again]_engineVars
    <2> SUFFICES ASSUME Inv, RunNext, inquiry' # {}, inquiry = {}, NEW d \in inquiry'
                 PROVE  /\ d \notin queried
                        /\ \A a \in owned : Holder[a] = d => a \notin queried
      BY Zenon
    <2>1. Launch
      BY Zenon DEF RunNext, Engine, Returned, SeedGraph, Poll, Fold, FinalDrain, Settle, Enriched, ProcessScope,
             EndPass, Ceiling, Finalize, Arrive, engineVars, runVars
    <2>2. point = "decide" /\ d \in nodes /\ d \notin interrogated
      BY <2>1, Zenon DEF Launch, Outstanding
    <2>3. d \notin queried
      BY <2>2, Zenon DEF Inv, LedgerInv
    <2>4. ASSUME NEW a \in owned, Holder[a] = d, a \in queried PROVE FALSE
      <3>1. a \in interrogated
        BY <2>2, <2>4, Zenon DEF Inv, LedgerInv
      <3>2. a \in owned \cap nodes
        BY <2>2, <2>4, <3>1, Zenon DEF Inv, LedgerInv
      <3> QED BY <2>2, <2>4, <3>2, Zenon DEF Inv, LedgerInv
    <2> QED BY <2>3, <2>4, Zenon
  <1> QED BY Invariance, <1>1, PTL DEF RunSpec, NeverAskedAgain

-----------------------------------------------------------------------------
(* The trace to the outside.  That its hops are the routers at their         *)
(* distance needs that every error still in the air quotes a probe that was   *)
(* sent, and that no hop is as far as the one being asked.                    *)

TraceFields == {"distance", "hops", "stage"}

\* A hop: a router of the path, at a distance, behind the one before it.
Routers == {path[d] : d \in Nat}
Hop == [distance : Nat, address : Routers, previous : Routers \cup {None}]

\* Every error in the air is the answer of a router to the probe of its distance, and until the
\* trace ends the next hop is further than all that were taken.
TraceInv ==
    /\ DOMAIN trace = TraceFields /\ trace.distance \in Nat /\ trace.hops \in Seq(Hop)
    /\ \A m \in air : \E d : m \in Exceeded(d)
    /\ trace.stage # "end" => \A i \in DOMAIN trace.hops : trace.hops[i].distance < trace.distance
    /\ HopsAreOurs

\* The next hop is asked at a greater distance, or the trace is over; no hop is touched.
LEMMA NextHopIsFurther ==
    ASSUME TraceInv, trace.stage # "end"
    PROVE  /\ DOMAIN NextHop = TraceFields /\ NextHop.distance \in Nat /\ NextHop.hops = trace.hops
           /\ NextHop.stage # "end" => NextHop.distance > trace.distance
  <1>1. DOMAIN trace = TraceFields /\ trace.distance \in Nat
    BY Zenon DEF TraceInv
  <1>2. CASE trace.distance = MAX_HOPS
    <2>1. NextHop = [trace EXCEPT !.stage = "end"]
      BY <1>2, Zenon DEF NextHop
    <2>2. /\ DOMAIN NextHop = TraceFields /\ NextHop.hops = trace.hops
          /\ NextHop.distance = trace.distance /\ NextHop.stage = "end"
      BY <1>1, <2>1, Zenon DEF TraceFields
    <2> QED BY <1>1, <2>2, Zenon
  <1>3. CASE trace.distance # MAX_HOPS
    <2>1. NextHop = [trace EXCEPT !.distance = trace.distance + 1, !.stage = "send"]
      BY <1>3, Zenon DEF NextHop
    <2>2. /\ DOMAIN NextHop = TraceFields /\ NextHop.hops = trace.hops
          /\ NextHop.distance = trace.distance + 1
      BY <1>1, <2>1, Zenon DEF TraceFields
    <2> QED BY <1>1, <2>2
  <1> QED BY <1>2, <1>3, Zenon

\* A trace whose hops did not change is still one of ours.
LEMMA HopsKept ==
    ASSUME TraceInv, UNCHANGED path, trace'.hops = trace.hops, DOMAIN trace' = TraceFields,
           trace'.distance \in Nat, trace'.stage # "end" => trace.stage # "end" /\ trace'.distance >= trace.distance,
           \A m \in air' : m \in air \/ \E d : m \in Exceeded(d)
    PROVE  TraceInv'
  <1>1. HopsAreOurs'
    BY DEF TraceInv, HopsAreOurs
  <1>2. \A d : Exceeded(d)' = Exceeded(d)
    BY Zenon DEF Exceeded
  <1>3. Hop' = Hop
    BY Zenon DEF Hop, Routers
  <1>4. \A m \in air' : \E d : m \in Exceeded(d)'
    BY <1>2, Zenon DEF TraceInv
  <1>5. trace'.stage # "end" => \A i \in DOMAIN trace'.hops : trace'.hops[i].distance < trace'.distance
    <2>1. trace.hops \in Seq(Hop) /\ trace.distance \in Nat
      BY Zenon DEF TraceInv
    <2>2. \A i \in DOMAIN trace.hops : trace.hops[i] \in Hop
      BY <2>1
    <2>3. \A i \in DOMAIN trace.hops : trace.hops[i].distance \in Nat
      BY <2>2, Zenon DEF Hop
    <2> QED BY <2>1, <2>3 DEF TraceInv
  <1>6. trace'.hops \in Seq(Hop')
    BY <1>3, Zenon DEF TraceInv
  <1> QED BY <1>1, <1>3, <1>4, <1>5, <1>6, Zenon DEF TraceInv

\* A message that is taken for the answer to the probe of a distance was sent by the router there.
LEMMA AnswerIsOurs ==
    ASSUME TraceInv, NEW m \in air \cup Foreign, NEW distance, matches_probe(m, distance)
    PROVE  m.from = path[distance]
  <1>1. m \notin Foreign
    <2>1. <<8, 8, 8, 8>> # <<192, 0, 2, 1>>
      OBVIOUS
    <2> QED BY <2>1 DEF Foreign, matches_probe, PATH_PROBE_DESTINATION
  <1>2. PICK d : m \in Exceeded(d)
    BY <1>1, Zenon DEF TraceInv
  <1> QED BY <1>2 DEF Exceeded, matches_probe

\* A message that arrives: the answer to this probe becomes the next hop, or ends a loop.
LEMMA ReceiveKeeps ==
    ASSUME TraceInv, NEW m \in air \cup Foreign, Receive(m)
    PROVE  TraceInv'
  <1>1. trace.stage = "wait" /\ air' = air \ {m} /\ UNCHANGED path
    BY Zenon DEF Receive
  <1>2. DOMAIN trace = TraceFields /\ trace.distance \in Nat /\ trace.hops \in Seq(Hop)
    BY Zenon DEF TraceInv
  <1>3. \A x \in air' : x \in air \/ \E d : x \in Exceeded(d)
    BY <1>1, Zenon
  <1>4. CASE ~matches_probe(m, trace.distance)
    <2>1. trace' = trace
      BY <1>4, Zenon DEF Receive
    <2> QED BY <1>1, <1>2, <1>3, <2>1, HopsKept
  <1>5. CASE matches_probe(m, trace.distance) /\ \E h \in Range(trace.hops) : h.address = m.from
    <2>1. trace' = [trace EXCEPT !.stage = "end"]
      BY <1>5, Zenon DEF Receive
    <2>2. DOMAIN trace' = TraceFields /\ trace'.hops = trace.hops /\ trace'.stage = "end"
          /\ trace'.distance = trace.distance
      BY <1>2, <2>1, Zenon DEF TraceFields
    <2> QED BY <1>1, <1>2, <1>3, <2>2, HopsKept, Zenon
  <1>6. CASE matches_probe(m, trace.distance) /\ ~\E h \in Range(trace.hops) : h.address = m.from
    <2> DEFINE hop == [distance |-> trace.distance, address |-> m.from,
                       previous |-> IF trace.hops = <<>> THEN None ELSE trace.hops[Len(trace.hops)].address]
               hops == Append(trace.hops, hop)
               n == Len(trace.hops)
    <2>1. /\ DOMAIN NextHop = TraceFields /\ NextHop.distance \in Nat /\ NextHop.hops = trace.hops
          /\ NextHop.stage # "end" => NextHop.distance > trace.distance
      BY <1>1, NextHopIsFurther, Zenon
    <2>2. trace' = [NextHop EXCEPT !.hops = hops]
      <3>1. trace' = [NextHop EXCEPT !.hops = Append(NextHop.hops, [distance |-> trace.distance, address |-> m.from,
                        previous |-> IF NextHop.hops = <<>> THEN None ELSE NextHop.hops[Len(NextHop.hops)].address])]
        BY <1>6, Zenon DEF Receive
      <3> QED BY <2>1, <3>1, Zenon
    <2>3. hop.distance = trace.distance /\ hop.address = path[trace.distance]
          /\ hop.previous = (IF n = 0 THEN None ELSE trace.hops[n].address)
          /\ hop.address = m.from
      <3>1. trace.hops = <<>> <=> n = 0
        BY <1>2
      <3>2. m.from = path[trace.distance]
        BY <1>6, AnswerIsOurs, Zenon
      <3> QED BY <3>1, <3>2, Zenon
    <2>t. hop \in Hop
      <3>1. hop.address \in Routers
        BY <1>2, <2>3, Zenon DEF Routers
      <3>2. n # 0 => trace.hops[n] \in Hop
        BY <1>2
      <3>3. hop.previous \in Routers \cup {None}
        BY <2>3, <3>2, Zenon DEF Hop
      <3> QED BY <1>2, <3>1, <3>3, Zenon DEF Hop
    <2> HIDE DEF hop
    <2>4. /\ hops \in Seq(Hop) /\ DOMAIN hops = 1..(n + 1) /\ hops[n + 1] = hop
          /\ \A i \in 1..n : hops[i] = trace.hops[i]
          /\ DOMAIN trace.hops = 1..n /\ n \in Nat
      BY <1>2, <2>t
    <2> HIDE DEF hops, n
    <2>5. DOMAIN trace' = TraceFields /\ trace'.hops = hops /\ trace'.distance = NextHop.distance
          /\ trace'.stage = NextHop.stage
      BY <2>1, <2>2, Zenon DEF TraceFields
    <2>6. \A i \in 1..n : trace.hops[i].distance \in Nat /\ trace.hops[i].distance < trace.distance
                          /\ trace.hops[i].address # m.from
      <3>1. \A i \in 1..n : trace.hops[i] \in Hop
        BY <1>2, <2>4
      <3>2. \A i \in 1..n : trace.hops[i].distance < trace.distance
        BY <1>1, <2>4, Zenon DEF TraceInv
      <3>3. \A i \in 1..n : trace.hops[i].address # m.from
        BY <1>6, <2>4, Zenon DEF Range
      <3> QED BY <3>1, <3>2, <3>3, Zenon DEF Hop
    <2>7. HopsAreOurs'
      <3> SUFFICES ASSUME NEW i \in 1..(n + 1)
                   PROVE  /\ hops[i].address = path[hops[i].distance]
                          /\ hops[i].previous = (IF i = 1 THEN None ELSE hops[i - 1].address)
                          /\ \A j \in 1..(i - 1) : hops[j].distance < hops[i].distance
                                                   /\ hops[j].address # hops[i].address
        BY <1>1, <2>4, <2>5 DEF HopsAreOurs
      <3>1. CASE i = n + 1
        <4>1. hops[i] = hop /\ i - 1 = n
          BY <2>4, <3>1
        <4>2. \A j \in 1..(i - 1) : j \in 1..n /\ hops[j] = trace.hops[j]
          BY <2>4, <4>1, Zenon
        <4>3. \A j \in 1..(i - 1) : hops[j].distance < hops[i].distance /\ hops[j].address # hops[i].address
          BY <2>3, <2>6, <4>1, <4>2, Zenon
        <4>4. hops[i].previous = (IF i = 1 THEN None ELSE hops[i - 1].address)
          <5>1. CASE n = 0
            BY <2>3, <4>1, <5>1, <3>1
          <5>2. CASE n # 0
            <6>1. hops[i - 1] = trace.hops[n] /\ i # 1
              BY <2>4, <3>1, <4>1, <5>2
            <6> QED BY <2>3, <4>1, <5>2, <6>1, Zenon
          <5> QED BY <5>1, <5>2, Zenon
        <4> QED BY <2>3, <4>1, <4>3, <4>4, ZenonT(40)
      <3>2. CASE i \in 1..n
        <4>1. /\ trace.hops[i].address = path[trace.hops[i].distance]
              /\ trace.hops[i].previous = (IF i = 1 THEN None ELSE trace.hops[i - 1].address)
              /\ \A j \in 1..(i - 1) : trace.hops[j].distance < trace.hops[i].distance
                                       /\ trace.hops[j].address # trace.hops[i].address
          BY <2>4, <3>2, Zenon DEF TraceInv, HopsAreOurs
        <4>2. \A j \in 1..(i - 1) : hops[j] = trace.hops[j]
          BY <2>4, <3>2
        <4>3. hops[i] = trace.hops[i] /\ (i # 1 => hops[i - 1] = trace.hops[i - 1])
          BY <2>4, <3>2
        <4> QED BY <4>1, <4>2, <4>3, Zenon
      <3> QED BY <2>4, <3>1, <3>2
    <2>8. \A i \in DOMAIN trace'.hops : /\ trace'.hops[i].distance \in Nat
                                        /\ trace'.hops[i].distance <= trace.distance
      BY <1>2, <2>3, <2>4, <2>5, <2>6
    <2>9. \A x \in air' : \E d : x \in Exceeded(d)'
      <3>1. \A d : Exceeded(d)' = Exceeded(d)
        BY <1>1, Zenon DEF Exceeded
      <3> QED BY <1>1, <3>1, Zenon DEF TraceInv
    <2>10. trace'.stage # "end" => \A i \in DOMAIN trace'.hops : trace'.hops[i].distance < trace'.distance
      BY <1>2, <2>1, <2>5, <2>8
    <2>11. hops \in Seq(Hop')
      <3>1. Hop' = Hop
        BY <1>1, Zenon DEF Hop, Routers
      <3> QED BY <2>4, <3>1, Zenon
    <2> QED BY <2>1, <2>5, <2>7, <2>9, <2>10, <2>11, Zenon DEF TraceInv
  <1> QED BY <1>4, <1>5, <1>6, Zenon

\* Every hop of the trace is the router at its distance, in order of distance, named once and with
\* the hop before it as predecessor, for every path, bound and order of arrival (discover_path).
THEOREM HopsAreRouters == TraceSpec => []HopsAreOurs
  <1>1. TraceInit => TraceInv
    <2> SUFFICES ASSUME TraceInit PROVE TraceInv
      BY Zenon
    <2>1. DOMAIN trace = TraceFields /\ trace.distance = 1 /\ trace.hops = <<>> /\ air = {}
      BY Zenon DEF TraceInit, TraceFields
    <2> QED BY <2>1 DEF TraceInv, HopsAreOurs
  <1>2. TraceInv /\ [TraceNext]_traceVars => TraceInv'
    <2> SUFFICES ASSUME TraceInv, [TraceNext]_traceVars PROVE TraceInv'
      BY Zenon
    <2>0. DOMAIN trace = TraceFields /\ trace.distance \in Nat
      BY Zenon DEF TraceInv
    <2>1. CASE UNCHANGED <<path, trace, air>>
      BY <2>0, <2>1, HopsKept
    <2>2. CASE SendProbe
      <3>1. trace.stage = "send" /\ UNCHANGED path
        BY <2>2, Zenon DEF SendProbe
      <3>2. CASE trace' = NextHop /\ UNCHANGED air
        <4>1. /\ DOMAIN NextHop = TraceFields /\ NextHop.distance \in Nat /\ NextHop.hops = trace.hops
              /\ NextHop.stage # "end" => NextHop.distance > trace.distance
          BY <3>1, NextHopIsFurther, Zenon
        <4>2. trace'.stage # "end" => trace.stage # "end" /\ trace'.distance >= trace.distance
          BY <2>0, <3>1, <3>2, <4>1
        <4> QED BY <3>1, <3>2, <4>1, <4>2, HopsKept, Zenon
      <3>3. CASE /\ trace' = [trace EXCEPT !.stage = "wait"]
                 /\ air' = air \cup (IF trace.distance \in DOMAIN path THEN Exceeded(trace.distance) ELSE {})
        <4>1. DOMAIN trace' = TraceFields /\ trace'.hops = trace.hops /\ trace'.stage = "wait"
              /\ trace'.distance = trace.distance
          BY <2>0, <3>3, Zenon DEF TraceFields
        <4>2. \A x \in air' : x \in air \/ \E d : x \in Exceeded(d)
          BY <3>3, Zenon
        <4> QED BY <2>0, <3>1, <4>1, <4>2, HopsKept
      <3> QED BY <2>2, <3>2, <3>3, Zenon DEF SendProbe
    <2>3. ASSUME NEW m \in air \cup Foreign, Receive(m) PROVE TraceInv'
      BY <2>3, ReceiveKeeps, Zenon
    <2>4. CASE HopTimeout
      <3>1. trace.stage = "wait" /\ UNCHANGED path /\ trace' = NextHop /\ UNCHANGED air
        BY <2>4, Zenon DEF HopTimeout
      <3>2. /\ DOMAIN NextHop = TraceFields /\ NextHop.distance \in Nat /\ NextHop.hops = trace.hops
            /\ NextHop.stage # "end" => NextHop.distance > trace.distance
        BY <3>1, NextHopIsFurther, Zenon
      <3>3. trace'.stage # "end" => trace.stage # "end" /\ trace'.distance >= trace.distance
        BY <2>0, <3>1, <3>2
      <3> QED BY <3>1, <3>2, <3>3, HopsKept, Zenon
    <2> QED BY <2>1, <2>2, <2>3, <2>4, Zenon DEF TraceNext, traceVars
  <1>3. TraceInv => HopsAreOurs
    BY Zenon DEF TraceInv
  <1> QED BY <1>1, <1>2, <1>3, PTL DEF TraceSpec

------------------------------------------------------------------------------
(* The engine.                                                              *)

\* What the agent's messages say was so in their boot, and still is possible.
MessageInv ==
    \A m \in messages :
        /\ m.boots \in Int /\ m.time \in Nat /\ m.report \in BOOLEAN
        /\ m.boots <= agent.boots /\ m.time <= clock
        /\ m.boots = agent.boots => m.time + agent.since <= clock

\* The counters held were true when they were recorded.
CounterInv ==
    /\ clock \in 0..MaxClock
    /\ agent \in [boots : Int, since : Nat] /\ agent.since <= clock
    /\ engine \in EngineStates \cup {NoEngine}
    /\ engine # NoEngine =>
         /\ engine.boots <= agent.boots
         /\ engine.recorded_at <= clock
         /\ engine.highest_time = engine.synchronised_time
         /\ engine.synchronised_time <= clock
         /\ engine.boots = agent.boots =>
              engine.synchronised_time + agent.since <= engine.recorded_at

\* The counter n steps after s.
Wrap(n) == IF n > U64_MAX THEN n - (U64_MAX + 1) ELSE n

\* The count of an engine's state and of the salts issued from it, from seed s.
CountsFrom(s, e, issued) ==
    /\ e.counter = Wrap(s + e.issued)
    /\ \A a \in issued : /\ a = [counter |-> a.counter, issued |-> a.issued]
                         /\ a.issued \in 1..e.issued
                         /\ a.counter = Wrap(s + a.issued)

\* Salts count on from the seed of this engine's state.
SaltInv ==
    /\ engine = NoEngine => salts = {}
    /\ engine # NoEngine => \E s \in 0..U64_MAX : CountsFrom(s, engine, salts)

UsmInv == MessageInv /\ CounterInv /\ SaltInv

-----------------------------------------------------------------------------
\* Counting on by one, where the code's wrapping addition is taken modulo the range.
LEMMA WrapStep ==
    ASSUME NEW c \in 0..U64_MAX
    PROVE  /\ (c + 1) % (U64_MAX + 1) = IF c = U64_MAX THEN 0 ELSE c + 1
           /\ (c + 1) % (U64_MAX + 1) \in 0..U64_MAX
  <1>1. CASE c = U64_MAX
    <2>1. U64_MAX + 1 \in Nat /\ U64_MAX + 1 > 0
      BY UsmAssumption
    <2>2. \A n \in Nat : n > 0 => n % n = 0
      BY Z3
    <2> QED BY <1>1, <2>1, <2>2, UsmAssumption
  <1>2. CASE c # U64_MAX
    <2>1. \A k, n \in Nat : k < n => k % n = k
      BY Z3
    <2>2. c + 1 \in Nat /\ U64_MAX + 1 \in Nat /\ c + 1 < U64_MAX + 1
      BY <1>2, UsmAssumption
    <2> QED BY <1>2, <2>1, <2>2, UsmAssumption
  <1> QED BY <1>1, <1>2, Zenon

\* Two places of one count, at most U64_MAX apart, never meet.
LEMMA WrapInjective ==
    ASSUME NEW s \in 0..U64_MAX, NEW i \in 1..U64_MAX, NEW j \in 1..U64_MAX,
           Wrap(s + i) = Wrap(s + j)
    PROVE  i = j
  BY UsmAssumption, SMTT(30) DEF Wrap

\* A salt that is there to take: the count goes on by one.
LEMMA TakeSalt ==
    ASSUME NEW e \in EngineStates, take_salt(e) # NoEngine
    PROVE  /\ take_salt(e) \in EngineStates
           /\ take_salt(e) = [e EXCEPT !.issued = e.issued + 1,
                                       !.counter = (e.counter + 1) % (U64_MAX + 1)]
           /\ e.issued < U64_MAX
  <1>1. e.counter \in 0..U64_MAX /\ e.issued \in 0..U64_MAX /\ e.issued # U64_MAX
    BY Zenon DEF take_salt, EngineStates
  <1>2. (e.counter + 1) % (U64_MAX + 1) \in 0..U64_MAX
    BY <1>1, WrapStep, Zenon
  <1>3. take_salt(e) = [e EXCEPT !.issued = e.issued + 1,
                                 !.counter = (e.counter + 1) % (U64_MAX + 1)]
    BY <1>1, Zenon DEF take_salt
  <1>4. ASSUME NEW c \in 0..U64_MAX, NEW i \in 0..U64_MAX
        PROVE  [e EXCEPT !.issued = i, !.counter = c] \in EngineStates
    BY Zenon DEF EngineStates
  <1>5. e.issued + 1 \in 0..U64_MAX /\ e.issued < U64_MAX
    BY <1>1, UsmAssumption
  <1> HIDE DEF take_salt
  <1> QED BY <1>2, <1>3, <1>4, <1>5, Zenon

\* Taking a salt keeps the count from one seed, with the salt taken in it.
LEMMA SaltsCountOn ==
    ASSUME NEW e \in EngineStates, take_salt(e) # NoEngine, NEW issuedBefore,
           NEW s \in 0..U64_MAX, CountsFrom(s, e, issuedBefore)
    PROVE  CountsFrom(s, take_salt(e), issuedBefore \cup {Issued(take_salt(e))})
  <1> DEFINE t == take_salt(e)
  <1>1. /\ t.issued = e.issued + 1 /\ t.counter = (e.counter + 1) % (U64_MAX + 1)
        /\ e.issued \in Nat /\ e.issued < U64_MAX /\ e.counter \in 0..U64_MAX
    <2>1. e.issued \in Nat /\ e.counter \in 0..U64_MAX
      BY UsmAssumption DEF EngineStates
    <2>2. \A c : /\ [e EXCEPT !.issued = e.issued + 1, !.counter = c].issued = e.issued + 1
                 /\ [e EXCEPT !.issued = e.issued + 1, !.counter = c].counter = c
      BY Zenon DEF EngineStates
    <2>3. /\ t = [e EXCEPT !.issued = e.issued + 1, !.counter = (e.counter + 1) % (U64_MAX + 1)]
          /\ e.issued < U64_MAX
      BY TakeSalt, Zenon
    <2> HIDE DEF t
    <2> QED BY <2>1, <2>2, <2>3, Zenon
  <1>2. t.counter = IF e.counter = U64_MAX THEN 0 ELSE e.counter + 1
    BY <1>1, WrapStep, Zenon
  <1>3. t.counter = Wrap(s + t.issued)
    BY <1>1, <1>2, UsmAssumption DEF Wrap, CountsFrom
  <1>4. Issued(t) = [counter |-> t.counter, issued |-> t.issued]
    BY Zenon DEF Issued
  <1>5. ASSUME NEW a \in issuedBefore PROVE a.issued \in 1..t.issued
    BY <1>1, <1>5 DEF CountsFrom
  <1>6. t.issued \in 1..t.issued
    BY <1>1
  <1> HIDE DEF t
  <1>7. ASSUME NEW a \in issuedBefore \cup {Issued(t)}
        PROVE  /\ a = [counter |-> a.counter, issued |-> a.issued]
               /\ a.issued \in 1..t.issued
               /\ a.counter = Wrap(s + a.issued)
    <2>1. CASE a \in issuedBefore
      BY <1>5, <2>1, Zenon DEF CountsFrom
    <2>2. CASE a = Issued(t)
      <3>1. a.counter = t.counter /\ a.issued = t.issued
        BY <1>4, <2>2
      <3> QED BY <1>3, <1>4, <1>6, <2>2, <3>1, Zenon
    <2> QED BY <1>7, <2>1, <2>2, Zenon
  <1>8. CountsFrom(s, t, issuedBefore \cup {Issued(t)})
    BY <1>3, <1>7, Zenon DEF CountsFrom
  <1> QED BY <1>8, Zenon DEF t

\* What absorbing counters the engine had leaves in force.
LEMMA AbsorbKeeps ==
    ASSUME CounterInv, engine # NoEngine, NEW boots \in Int, NEW time \in Nat,
           boots <= agent.boots, time <= clock,
           boots = agent.boots => time + agent.since <= clock
    PROVE  LET e == absorb_authenticated(engine, boots, time)
           IN  /\ e \in EngineStates
               /\ e.counter = engine.counter /\ e.issued = engine.issued
               /\ e.boots <= agent.boots /\ e.recorded_at <= clock
               /\ e.highest_time = e.synchronised_time /\ e.synchronised_time <= clock
               /\ e.boots = agent.boots => e.synchronised_time + agent.since <= e.recorded_at
  <1>1. engine \in EngineStates /\ clock \in Nat
    BY UsmAssumption DEF CounterInv
  <1>2. CASE boots < engine.boots
    BY <1>1, <1>2, Zenon DEF CounterInv, EngineStates, absorb_authenticated
  <1>3. CASE ~(boots < engine.boots) /\ (boots > engine.boots \/ time > engine.highest_time)
    <2>1. absorb_authenticated(engine, boots, time) =
            [engine EXCEPT !.boots = boots, !.synchronised_time = time, !.recorded_at = clock,
                           !.highest_time = time, !.confirmed = TRUE]
      BY <1>3, Zenon DEF absorb_authenticated
    <2> DEFINE e == absorb_authenticated(engine, boots, time)
    <2>2. e \in EngineStates
      BY <1>1, <2>1, Zenon DEF EngineStates
    <2>3. /\ e.boots = boots /\ e.synchronised_time = time /\ e.recorded_at = clock
          /\ e.highest_time = time /\ e.counter = engine.counter /\ e.issued = engine.issued
      BY <1>1, <2>1, Zenon DEF EngineStates
    <2> HIDE DEF e
    <2>4. /\ e.boots <= agent.boots /\ e.recorded_at <= clock
          /\ e.highest_time = e.synchronised_time /\ e.synchronised_time <= clock
          /\ e.boots = agent.boots => e.synchronised_time + agent.since <= e.recorded_at
      BY <1>1, <2>3
    <2> QED BY <2>2, <2>3, <2>4, Zenon DEF e
  <1>4. CASE ~(boots < engine.boots) /\ ~(boots > engine.boots \/ time > engine.highest_time)
    <2>1. absorb_authenticated(engine, boots, time) = [engine EXCEPT !.confirmed = TRUE]
      BY <1>4, Zenon DEF absorb_authenticated
    <2> QED BY <1>1, <2>1, Zenon DEF CounterInv, EngineStates
  <1> QED BY <1>2, <1>3, <1>4, Zenon

-----------------------------------------------------------------------------
\* The invariant holds before discovery.
LEMMA UsmInitially == UsmInit => UsmInv
  BY UsmAssumption DEF UsmInit, UsmInv, MessageInv, CounterInv, SaltInv

\* Discovery records a time the engine has reached, and starts the count.
LEMMA DiscoverKeeps ==
    ASSUME UsmInv, NEW time \in 0..MaxClock, NEW seed \in {0, U64_MAX},
           Discover(agent.boots, time, seed)
    PROVE  UsmInv'
  <1> USE DEF UsmInv
  <1>1. engine' = [boots |-> agent.boots, synchronised_time |-> time, recorded_at |-> clock,
                   highest_time |-> time, confirmed |-> FALSE, counter |-> seed, issued |-> 0]
    BY Zenon DEF Discover, from_discovery
  <1>2. /\ clock \in Nat /\ agent.boots \in Int /\ agent.since \in Nat
        /\ time \in Nat /\ time + agent.since <= clock /\ seed \in 0..U64_MAX
    BY UsmAssumption DEF Discover, AgentTime, CounterInv
  <1>3. engine' \in EngineStates
    <2>1. 0 \in 0..U64_MAX
      BY UsmAssumption
    <2> QED BY <1>1, <1>2, <2>1, Zenon DEF EngineStates
  <1>4. engine' # NoEngine
    BY <1>3, UsmAssumption, Zenon
  <1>5. MessageInv'
    BY Zenon DEF Discover, MessageInv
  <1>6. CounterInv'
    BY <1>1, <1>2, <1>3, <1>4 DEF Discover, CounterInv
  <1>7. SaltInv'
    <2>1. salts' = {} /\ engine'.counter = Wrap(seed + engine'.issued)
      BY <1>1, <1>2, UsmAssumption DEF Discover, SaltInv, Wrap
    <2> QED BY <1>2, <1>4, <2>1, Zenon DEF SaltInv, CountsFrom
  <1> QED BY <1>5, <1>6, <1>7, Zenon

\* A request spends a salt and moves no clock.
LEMMA AskKeeps ==
    ASSUME UsmInv, Ask
    PROVE  UsmInv'
  <1> USE DEF UsmInv
  <1>1. engine \in EngineStates /\ engine # NoEngine
    BY Zenon DEF Ask, CounterInv
  <1>2. /\ engine' = take_salt(engine) /\ take_salt(engine) # NoEngine
        /\ salts' = salts \cup {Issued(take_salt(engine))}
        /\ UNCHANGED <<clock, agent, messages>>
    BY Zenon DEF Ask
  <1>3. /\ engine' \in EngineStates
        /\ engine'.boots = engine.boots /\ engine'.recorded_at = engine.recorded_at
        /\ engine'.highest_time = engine.highest_time
        /\ engine'.synchronised_time = engine.synchronised_time
    BY <1>1, <1>2, TakeSalt, Zenon DEF EngineStates
  <1>4. MessageInv' /\ CounterInv'
    BY <1>1, <1>2, <1>3, Zenon DEF MessageInv, CounterInv
  <1>5. SaltInv'
    <2>1. PICK s \in 0..U64_MAX : CountsFrom(s, engine, salts)
      BY <1>1, Zenon DEF SaltInv
    <2>2. CountsFrom(s, take_salt(engine), salts \cup {Issued(take_salt(engine))})
      BY <1>1, <1>2, <2>1, SaltsCountOn, Zenon
    <2>3. CountsFrom(s, engine', salts')
      BY <1>2, <2>2, Zenon
    <2> QED BY <1>2, <2>3, Zenon DEF SaltInv
  <1> QED BY <1>4, <1>5, Zenon

\* The agent states its own boots and time.
LEMMA AnswerKeeps ==
    ASSUME UsmInv, Answer
    PROVE  UsmInv'
  <1> USE DEF UsmInv
  <1>1. PICK r \in BOOLEAN :
          messages' = messages \cup {[boots |-> agent.boots, time |-> AgentTime, request |-> asked,
                              report |-> r]}
    BY Zenon DEF Answer
  <1>2. UNCHANGED <<clock, agent, engine, salts>>
    BY Zenon DEF Answer
  <1>3. /\ agent.boots \in Int /\ AgentTime \in Nat /\ AgentTime <= clock
        /\ AgentTime + agent.since <= clock
    BY UsmAssumption DEF CounterInv, AgentTime
  <1>4. MessageInv'
    BY <1>1, <1>2, <1>3 DEF MessageInv
  <1> QED BY <1>2, <1>4, Zenon DEF CounterInv, SaltInv

\* A delivered message moves the counters to what was true when it was messages, or nowhere.
LEMMA DeliverKeeps ==
    ASSUME UsmInv, NEW m \in messages, Deliver(m)
    PROVE  UsmInv'
  <1> USE DEF UsmInv
  <1> DEFINE moved == absorb_authenticated(engine, m.boots, m.time)
  <1>1. engine # NoEngine /\ UNCHANGED <<clock, agent, messages>>
    BY Zenon DEF Deliver
  <1>2. /\ moved \in EngineStates /\ moved # NoEngine
        /\ moved.counter = engine.counter /\ moved.issued = engine.issued
        /\ moved.boots <= agent.boots /\ moved.recorded_at <= clock
        /\ moved.highest_time = moved.synchronised_time /\ moved.synchronised_time <= clock
        /\ moved.boots = agent.boots =>
             moved.synchronised_time + agent.since <= moved.recorded_at
    <2>1. /\ m.boots \in Int /\ m.time \in Nat /\ m.boots <= agent.boots /\ m.time <= clock
          /\ m.boots = agent.boots => m.time + agent.since <= clock
      BY Zenon DEF MessageInv
    <2> QED BY <1>1, <2>1, AbsorbKeeps, UsmAssumption, Zenon
  <1>3. PICK s \in 0..U64_MAX : CountsFrom(s, moved, salts)
    <2>1. PICK s \in 0..U64_MAX : CountsFrom(s, engine, salts)
      BY <1>1, Zenon DEF SaltInv
    <2> HIDE DEF moved
    <2> QED BY <1>2, <2>1, Zenon DEF CountsFrom
  <1>4. MessageInv'
    BY <1>1, Zenon DEF MessageInv
  <1>5. CASE engine' = moved /\ salts' = salts
    BY <1>1, <1>2, <1>3, <1>4, <1>5 DEF CounterInv, SaltInv
  <1>6. CASE /\ engine' = take_salt(moved) /\ take_salt(moved) # NoEngine
             /\ salts' = salts \cup {Issued(take_salt(moved))}
    <2>1. /\ engine' \in EngineStates
          /\ engine'.boots = moved.boots /\ engine'.recorded_at = moved.recorded_at
          /\ engine'.highest_time = moved.highest_time
          /\ engine'.synchronised_time = moved.synchronised_time
      BY <1>2, <1>6, TakeSalt, ZenonT(40) DEF EngineStates
    <2>2. CounterInv'
      BY <1>1, <1>2, <2>1, Zenon DEF CounterInv
    <2>3. SaltInv'
      <3>1. CountsFrom(s, take_salt(moved), salts \cup {Issued(take_salt(moved))})
        BY <1>2, <1>3, <1>6, SaltsCountOn, Zenon
      <3>2. CountsFrom(s, engine', salts')
        BY <1>6, <3>1, Zenon
      <3> QED BY <1>6, <3>2, Zenon DEF SaltInv
    <2> QED BY <1>4, <2>2, <2>3, Zenon
  <1> QED BY <1>5, <1>6, Zenon DEF Deliver

\* Time passes and the engine restarts: both only put it further ahead of the estimate.
LEMMA WorldKeeps ==
    ASSUME UsmInv, Tick \/ Restart
    PROVE  UsmInv'
  <1> USE DEF UsmInv
  <1>1. CASE Tick
    BY <1>1, UsmAssumption DEF Tick, MessageInv, CounterInv, SaltInv, EngineStates
  <1>2. CASE Restart
    <2>1. MessageInv'
      BY <1>2, UsmAssumption DEF Restart, MessageInv, CounterInv
    <2>2. CounterInv'
      BY <1>2, UsmAssumption DEF Restart, CounterInv, EngineStates
    <2>3. SaltInv'
      BY <1>2, Zenon DEF Restart, SaltInv
    <2> QED BY <2>1, <2>2, <2>3, Zenon
  <1> QED BY <1>1, <1>2, Zenon

\* Every step of the engine, the agent and the network keeps the invariant.
LEMMA UsmStep == UsmInv /\ [UsmNext]_usmVars => UsmInv'
  <1> SUFFICES ASSUME UsmInv, [UsmNext]_usmVars PROVE UsmInv'
    BY Zenon
  <1>1. CASE UNCHANGED usmVars
    BY <1>1, Zenon DEF usmVars, UsmInv, MessageInv, CounterInv, SaltInv
  <1>2. CASE UsmNext
    BY <1>2, DiscoverKeeps, AskKeeps, AnswerKeeps, DeliverKeeps, WorldKeeps DEF UsmNext
  <1> QED BY <1>1, <1>2, Zenon

\* What the invariant says of the estimate ...
LEMMA InvEstimate == UsmInv => EstimateNeverAhead
  BY UsmAssumption DEF UsmInv, CounterInv, EngineStates, EstimateNeverAhead, estimated_time, AgentTime

\* ... and of the salts.
LEMMA InvSalts == UsmInv => SaltsNeverRepeat
  <1> SUFFICES ASSUME UsmInv, NEW a \in salts, NEW b \in salts, a.counter = b.counter
               PROVE  a = b
    BY Zenon DEF SaltsNeverRepeat
  <1>1. engine # NoEngine /\ engine \in EngineStates
    BY Zenon DEF UsmInv, SaltInv, CounterInv
  <1>2. PICK s \in 0..U64_MAX :
          \A x \in salts : /\ x = [counter |-> x.counter, issued |-> x.issued]
                           /\ x.issued \in 1..engine.issued
                           /\ x.counter = Wrap(s + x.issued)
    BY <1>1, Zenon DEF UsmInv, SaltInv, CountsFrom
  <1>3. a.issued \in 1..U64_MAX /\ b.issued \in 1..U64_MAX
    BY <1>1, <1>2, UsmAssumption DEF EngineStates
  <1>4. a.issued = b.issued
    BY <1>2, <1>3, WrapInjective
  <1> QED BY <1>2, <1>4, Zenon

\* Whatever the network delays, repeats or reorders and however often the engine restarts, the
\* time claimed to it is one it has reached and no privacy salt is issued twice
\* (absorb_authenticated, SaltSource::take_salt).
THEOREM EngineTimeTrusted == UsmSpec => []EngineTimeAndSalts
  <1>1. UsmInv => EngineTimeAndSalts
    BY InvEstimate, InvSalts, Zenon DEF EngineTimeAndSalts
  <1> QED BY UsmInitially, UsmStep, <1>1, PTL DEF UsmSpec

=============================================================================
