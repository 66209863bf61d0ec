---------------------------- MODULE Orchestrator -----------------------------
(***************************************************************************)
(* DiscoveryEngine::run of src/engine/orchestrator.rs with the device      *)
(* queue of src/engine/enrich.rs: seed once, then iterate to a fixed point *)
(* over the networks and the devices the graph holds, while continuous     *)
(* sources (packet capture, federation) observe on their own schedule.     *)
(*                                                                         *)
(* The graph is abstracted to what the loop reads of it: which networks    *)
(* are known and which this machine observed itself, which device          *)
(* identities exist, which addresses have a hardware owner, and which      *)
(* devices are pivots.  Devices that only a peer saw, or that have no      *)
(* address to probe, never enter the queue and are left out.  Between two  *)
(* awaits the run is one step; what interleaves with it is the arrival of  *)
(* evidence at the continuous sources.                                     *)
(***************************************************************************)
EXTENDS Integers, FiniteSets

CONSTANTS Networks,        \* prefixes
          Addresses,       \* devices known by an address only
          Macs,            \* hardware identities
          Holder,          \* which hardware really holds each address
          Oversized,       \* prefixes above max_enumerable_hosts
          HasPeers,        \* whether federation is one of the sources
          HasSources,      \* whether there is any continuous source
          MaxScopes,       \* Budget::max_scopes
          MaxIterations,   \* Budget::max_iterations
          MaxYield,        \* bound: facts that one provider pass returns
          MaxBuffered      \* bound: facts waiting at the sources

ASSUME OrchestratorAssumption ==
    /\ Addresses \cap Macs = {}
    /\ Holder \in [Addresses -> Macs]
    /\ Oversized \subseteq Networks
    /\ HasPeers \in BOOLEAN /\ HasSources \in BOOLEAN
    /\ MaxScopes \in Nat /\ MaxIterations \in Nat /\ MaxYield \in Nat
    /\ MaxBuffered \in Nat

VARIABLES local,         \* networks with a local observation
          peerNamed,     \* networks some peer reported
          nodes,         \* device identities with an address to probe
          owned,         \* addresses whose owner is their hardware identity
          pivots,        \* identities with routing or bridging evidence
          buffer,        \* what the continuous sources hold
          owed,          \* history: accepted by them, not yet in the graph
          point,         \* where `run` is
          iteration,     \* passes of the loop started
          scopes,        \* `pending`: networks of this pass
          processed,
          interrogated,
          queried,       \* history: identities a task was started for
          inquiry,       \* identities whose tasks are running
          coverage,      \* identities with a coverage record
          lost,          \* identities whose task panicked
          oversized_scopes,
          continuous_finished,
          converged

graphVars == <<local, peerNamed, nodes, owned, pivots, owed>>
runVars == <<point, iteration, scopes, processed, interrogated, queried, inquiry,
             coverage, lost, oversized_scopes, continuous_finished, converged>>
engineVars == <<graphVars, buffer, runVars>>

Devices == Addresses \cup Macs

\* Evidence, as far as the loop can tell it apart.
ProviderFacts == [kind : {"network"}, of : Networks]
                 \cup [kind : {"address", "binding"}, of : Addresses]
                 \cup [kind : {"hardware"}, of : Macs]
                 \cup [kind : {"role"}, of : Devices]
PeerFacts == IF HasPeers THEN [kind : {"peer_network"}, of : Networks] ELSE {}
AllFacts == ProviderFacts \cup PeerFacts

RunTypeOK ==
    /\ local \in SUBSET Networks
    /\ peerNamed \in SUBSET Networks
    /\ nodes \in SUBSET Devices
    /\ owned \in SUBSET Addresses
    /\ pivots \in SUBSET Devices
    /\ buffer \in SUBSET AllFacts
    /\ owed \in SUBSET AllFacts
    /\ point \in {"seed", "top", "fold", "decide", "enriching", "scopes", "ending", "done"}
    /\ iteration \in 0..MaxIterations
    /\ scopes \in SUBSET Networks
    /\ processed \in SUBSET Networks
    /\ interrogated \in SUBSET Devices
    /\ queried \in SUBSET Devices
    /\ inquiry \in SUBSET Devices
    /\ coverage \in SUBSET Devices
    /\ lost \in SUBSET Devices
    /\ oversized_scopes \in SUBSET Networks
    /\ continuous_finished \in BOOLEAN
    /\ converged \in BOOLEAN

RunInit ==
    /\ local = {} /\ peerNamed = {} /\ nodes = {} /\ owned = {} /\ pivots = {}
    /\ buffer = {} /\ owed = {}
    /\ point = "seed" /\ iteration = 0
    /\ scopes \in {{}} \cup {{n} : n \in Networks}     \* initial_scope
    /\ processed = {} /\ interrogated = {} /\ queried = {} /\ inquiry = {}
    /\ coverage = {} /\ lost = {} /\ oversized_scopes = {}
    /\ continuous_finished = ~HasSources
    /\ converged = FALSE

------------------------------------------------------------------------------
(* The graph.                                                               *)

Of(kind, facts) == {f.of : f \in {g \in facts : g.kind = kind}}

\* The identity a device is filed under once `bound` addresses have owners.
Canonical(d, bound) == IF d \in bound THEN Holder[d] ELSE d

\* `absorb`, for a batch: bindings are in force for the facts of the batch
\* too, or not, depending on the order in which it is absorbed.
Absorb(facts) ==
    \E early \in SUBSET (Of("binding", facts) \ owned) :
        LET known == owned \cup early
        IN  /\ local' = local \cup Of("network", facts)
            /\ peerNamed' = peerNamed \cup Of("peer_network", facts)
            /\ nodes' = nodes \cup {Canonical(a, known) : a \in Of("address", facts)}
                              \cup Of("hardware", facts)
                              \cup {Holder[a] : a \in Of("binding", facts)}
            /\ owned' = owned \cup Of("binding", facts)
            /\ pivots' = pivots \cup {Canonical(d, known) : d \in Of("role", facts)}
            /\ owed' = owed \ facts


\* The addresses `merge_address_identities` folds into their hardware owner;
\* with the owner, these are the aliases it returns.
Folded(identities, bound) == {a \in identities \cap bound : Holder[a] \in identities}

\* One identity for another, in a set of them.
Rename(identities, aliases) ==
    {IF d \in aliases THEN Holder[d] ELSE d : d \in identities}

\* `pivot_addresses`; a hardware identity stands for an address of its own.
PivotAddresses(routers, identities, bound) ==
    LET devices == routers \cap identities
    IN  devices \cup {a \in bound : Holder[a] \in devices}

\* `interrogation_queue`.
Outstanding(identities, done) == identities \ done

------------------------------------------------------------------------------
(* Continuous sources accept evidence until they are finished.              *)
Arrive(f) ==
    /\ HasSources
    /\ ~continuous_finished
    /\ point # "done"
    /\ f \notin buffer
    /\ Cardinality(buffer) < MaxBuffered
    /\ buffer' = buffer \cup {f}
    /\ owed' = owed \cup {f}
    /\ UNCHANGED <<local, peerNamed, nodes, owned, pivots, runVars>>

\* What one provider pass produces.
Yields == {facts \in SUBSET ProviderFacts : Cardinality(facts) <= MaxYield}

\* Phase 1: the seed providers.
SeedGraph ==
    /\ point = "seed"
    /\ \E facts \in Yields : Absorb(facts)
    /\ point' = "top"
    /\ UNCHANGED <<buffer, iteration, scopes, processed, interrogated, queried,
                   inquiry, coverage, lost, oversized_scopes,
                   continuous_finished, converged>>

------------------------------------------------------------------------------
\* Fault: the pass is not counted.
BeginPass_uncounted == iteration < MaxIterations /\ iteration' = iteration

\* `for _ in 0..self.budget.max_iterations`.
BeginPass == iteration < MaxIterations /\ iteration' = iteration + 1

(* Phase 2: one pass of the loop.  Poll the sources ...                     *)
Poll ==
    /\ point = "top"
    /\ BeginPass
    /\ Absorb(buffer)
    /\ buffer' = {}
    /\ point' = "fold"
    /\ UNCHANGED <<scopes, processed, interrogated, queried, inquiry,
                   coverage, lost, oversized_scopes, continuous_finished, converged>>

\* Fault: a spent budget counts as nothing pending.
PendingScopes_spent ==
    IF Cardinality(processed) >= MaxScopes THEN {} ELSE (scopes \cup local) \ processed

\* What was pending and every local network, but those processed.
PendingScopes == (scopes \cup local) \ processed

\* Fault: the ledger of interrogated devices is not told.
AliasedLedger_untold(done, aliases) == done

\* `apply_aliases`: the ledger of interrogated devices ...
AliasedLedger(done, aliases) == Rename(done, aliases)

\* Fault: the record of a device that was folded away is dropped.
AliasedCoverage_dropped(records, aliases) == records \ aliases

\* ... and the coverage records.
AliasedCoverage(records, aliases) == Rename(records, aliases)

\* ... queue every local network not seen yet, fold identities and carry the
\* aliases over to the interrogation ledger and the coverage records ...
Fold ==
    LET aliases == Folded(nodes, owned)
    IN  /\ point = "fold"
        /\ scopes' = PendingScopes
        /\ nodes' = Rename(nodes, aliases)
        /\ pivots' = Rename(pivots, aliases)
        /\ interrogated' = AliasedLedger(interrogated, aliases)
        /\ coverage' = AliasedCoverage(coverage, aliases)
        /\ point' = "decide"
        /\ UNCHANGED <<local, peerNamed, owned, owed, buffer, iteration,
                       processed, queried, inquiry, lost, oversized_scopes,
                       continuous_finished, converged>>

NothingToDo == scopes = {} /\ Outstanding(nodes, interrogated) = {}

\* ... and decide.  With work to do, a task is started for every device not
\* yet interrogated; each counts as interrogated from here on.
Launch ==
    /\ point = "decide"
    /\ ~NothingToDo
    /\ inquiry' = Outstanding(nodes, interrogated)
    /\ interrogated' = interrogated \cup inquiry'
    /\ queried' = queried \cup inquiry'
    /\ point' = "enriching"
    /\ UNCHANGED <<graphVars, buffer, iteration, scopes, processed, coverage,
                   lost, oversized_scopes, continuous_finished, converged>>

\* What the final drain added to the topology: a network of any domain, ...
GainedNetwork == ~(local' \cup peerNamed' \subseteq local \cup peerNamed)

\* ... an address of a pivot, ...
GainedPivot == ~(PivotAddresses(pivots', nodes', owned')
                   \subseteq PivotAddresses(pivots, nodes, owned))

\* Fault: nobody looks for new devices.
GainedDevice_unseen == FALSE

\* ... a device that was not interrogated.
GainedDevice == Outstanding(nodes', interrogated) # {}

\* What `finish` hands over: everything still buffered.
FinalEvidence == buffer

\* Candidate convergence: finish the sources, absorb what they still held,
\* and resume if that extended the topology.
FinalDrain ==
    /\ point = "decide"
    /\ NothingToDo
    /\ ~continuous_finished
    /\ continuous_finished' = TRUE
    /\ Absorb(FinalEvidence)
    /\ buffer' = {}
    /\ LET gained == GainedNetwork \/ GainedPivot \/ GainedDevice
       IN  /\ converged' = ~gained
           /\ point' = IF gained THEN "top" ELSE "ending"
    /\ UNCHANGED <<iteration, scopes, processed, interrogated, queried,
                   inquiry, coverage, lost, oversized_scopes>>

\* The same with the sources already finished (or with none): converged.
Settle ==
    /\ point = "decide"
    /\ NothingToDo
    /\ continuous_finished
    /\ converged' = TRUE
    /\ point' = "ending"
    /\ UNCHANGED <<graphVars, buffer, iteration, scopes, processed, interrogated,
                   queried, inquiry, coverage, lost, oversized_scopes, continuous_finished>>

\* `enrich_devices`: all tasks have ended.  A task that panicked yields
\* neither evidence nor a coverage record.
Enriched ==
    /\ point = "enriching"
    /\ \E panicked \in SUBSET inquiry :
          /\ \E facts \in Yields :
                /\ inquiry = panicked => facts = {}
                /\ Absorb(facts)
          /\ coverage' = coverage \cup (inquiry \ panicked)
          /\ lost' = lost \cup panicked
    /\ inquiry' = {}
    /\ point' = "scopes"
    /\ UNCHANGED <<buffer, iteration, scopes, processed, interrogated, queried,
                   oversized_scopes, continuous_finished, converged>>

\* One scope through the provider pipeline, within the scope budget.
ProcessScope(n) ==
    /\ point = "scopes"
    /\ n \in scopes
    /\ Cardinality(processed) < MaxScopes
    /\ scopes' = scopes \ {n}
    /\ processed' = processed \cup {n}
    /\ oversized_scopes' = oversized_scopes \cup ({n} \cap Oversized)
    /\ \E facts \in Yields : Absorb(facts)
    /\ UNCHANGED <<buffer, point, iteration, interrogated, queried, inquiry, coverage,
                   lost, continuous_finished, converged>>

\* The pass ends with its scopes, or leaves the rest when the budget is spent.
EndPass ==
    /\ point = "scopes"
    /\ scopes = {} \/ Cardinality(processed) >= MaxScopes
    /\ scopes' = {}
    /\ point' = "top"
    /\ UNCHANGED <<graphVars, buffer, iteration, processed, interrogated, queried,
                   inquiry, coverage, lost, oversized_scopes, continuous_finished,
                   converged>>

\* The iteration ceiling: the sources are finished all the same.
Ceiling ==
    /\ point = "top"
    /\ iteration = MaxIterations
    /\ Absorb(IF continuous_finished THEN {} ELSE FinalEvidence)
    /\ buffer' = IF continuous_finished THEN buffer ELSE {}
    /\ continuous_finished' = TRUE
    /\ point' = "ending"
    /\ UNCHANGED <<iteration, scopes, processed, interrogated, queried, inquiry,
                   coverage, lost, oversized_scopes, converged>>

\* `finalize_roles` folds identities once more; nobody reads its aliases.
Finalize ==
    LET aliases == Folded(nodes, owned)
    IN  /\ point = "ending"
        /\ nodes' = Rename(nodes, aliases)
        /\ pivots' = Rename(pivots, aliases)
        /\ point' = "done"
        /\ UNCHANGED <<local, peerNamed, owned, owed, buffer, iteration, scopes,
                       processed, interrogated, queried, inquiry, coverage, lost,
                       oversized_scopes, continuous_finished, converged>>

Returned == point = "done" /\ UNCHANGED engineVars

Engine ==
    \/ SeedGraph \/ Poll \/ Fold \/ Launch \/ FinalDrain \/ Settle \/ Enriched
    \/ \E n \in Networks : ProcessScope(n)
    \/ EndPass \/ Ceiling \/ Finalize

RunNext ==
    \/ Engine
    \/ \E f \in AllFacts : Arrive(f)
    \/ Returned

RunSpec == RunInit /\ [][RunNext]_engineVars

\* Every await of `run` ends: providers time out, tasks are joined.
RunFairSpec == RunSpec /\ WF_engineVars(Engine)

------------------------------------------------------------------------------
(* A run that reports convergence examined every network this machine       *)
(* observed, late arrivals of the final drain and an exhausted scope budget *)
(* included.  Excepted are prefixes that a peer had named as well: the      *)
(* final drain does not notice those becoming local.                        *)
ConvergedMeansExamined ==
    converged => local \ processed \subseteq peerNamed

(* A run that reports convergence asked every device it can reach, whenever *)
(* the device appeared.                                                     *)
ConvergedMeansAsked ==
    converged => \A d \in nodes : d \in interrogated

(* No device is interrogated again under a second identity once the two     *)
(* identities are known to be one: the aliases of a merge reach the ledger  *)
(* of interrogated devices.                                                 *)
NeverAskedAgain ==
    [][inquiry' # {} /\ inquiry = {} =>
         \A d \in inquiry' :
            /\ d \notin queried
            /\ \A a \in owned : Holder[a] = d => a \notin queried]_engineVars

(* Everything a continuous source accepted is in the graph when the run     *)
(* returns: nothing stays in a buffer, by either way out of the loop.       *)
NothingLeftBehind == point = "done" => owed = {}

(* "What was attempted against every device": each interrogated identity    *)
(* keeps a coverage record through every merge, except where the task       *)
(* panicked (and no other identity of the device was asked with success).   *)
CoverageComplete ==
    point # "enriching" =>
        \A d \in interrogated \ coverage :
            d \in lost \/ \E a \in owned : Holder[a] = d /\ a \in lost

(* Convergence is never claimed over work that is left: neither a network   *)
(* nor a device this machine found is outstanding (the two queues `run`     *)
(* compares before it breaks, and the drain after them).                    *)
ConvergedMeansDone == ConvergedMeansExamined /\ ConvergedMeansAsked

(* The report is whole: nothing accepted stays outside the graph, and every *)
(* interrogation that ended is in coverage; the state keeps its types       *)
(* throughout (`finish` of the sources on both ways out, merge_aliases on   *)
(* the coverage ledger).                                                    *)
ReportComplete == RunTypeOK /\ NothingLeftBehind /\ CoverageComplete

(* The run ends, whatever the sources and the providers keep producing.     *)
RunEnds == <>(point = "done")
==============================================================================
