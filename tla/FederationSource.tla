-------------------------- MODULE FederationSource ---------------------------
(***************************************************************************)
(* The queue between the tasks that talk to peers and the engine that owns *)
(* the graph (src/federation/source.rs), as a ContinuousSource.  The queue *)
(* and its stopped flag share one lock; the record counter and the         *)
(* per-peer outcomes are updated after it is released, so `deliver` is     *)
(* three steps that other tasks and the engine can come between.           *)
(*                                                                         *)
(* The evidence of a bundle is one element of the queue and counts as one  *)
(* record.                                                                 *)
(***************************************************************************)
EXTENDS Integers, Sequences

CONSTANTS Peers,
          Evidence   \* what a bundle's records are abstracted to

VARIABLES pending,           \* Queue::pending
          stopped,           \* Queue::stopped
          accepted_records,  \* the atomic counter
          outcomes,          \* per peer: bundles counted and refusals noted
          absorbed           \* what the engine has taken, in order

sourceVars == <<pending, stopped, accepted_records, outcomes, absorbed>>

Refusals == {"NotPaired", "Stale", "Undecodable", "Busy"}

SourceTypeOK ==
    /\ pending \in Seq(Evidence)
    /\ stopped \in BOOLEAN
    /\ accepted_records \in Nat
    /\ outcomes \in [Peers -> [bundles : Nat, rejected : SUBSET Refusals]]
    /\ absorbed \in Seq(Evidence)

SourceInit ==
    /\ pending = <<>>
    /\ stopped = FALSE
    /\ accepted_records = 0
    /\ outcomes = [p \in Peers |-> [bundles |-> 0, rejected |-> {}]]
    /\ absorbed = <<>>

\* `deliver`, under the lock: queued unless the run has concluded.
deliver_enqueue(e) ==
    /\ ~stopped
    /\ pending' = Append(pending, e)
    /\ UNCHANGED <<stopped, accepted_records, outcomes, absorbed>>

\* `deliver`, under the lock: declined, nothing changes.
deliver_declined ==
    /\ stopped
    /\ UNCHANGED sourceVars

\* `deliver`, after the lock: the counter ...
deliver_count ==
    /\ accepted_records' = accepted_records + 1
    /\ UNCHANGED <<pending, stopped, outcomes, absorbed>>

\* ... and then the outcome of the peer, under its own lock.
deliver_outcome(p) ==
    /\ outcomes' = [outcomes EXCEPT ![p].bundles = @ + 1]
    /\ UNCHANGED <<pending, stopped, accepted_records, absorbed>>

\* `reject`: an unverifiable bundle has no peer and is not recorded.
reject(p, reason) ==
    /\ outcomes' = IF reason \in Refusals
                     THEN [outcomes EXCEPT ![p].rejected = @ \cup {reason}]
                     ELSE outcomes
    /\ UNCHANGED <<pending, stopped, accepted_records, absorbed>>

\* The engine polls.
drain ==
    /\ absorbed' = absorbed \o pending
    /\ pending' = <<>>
    /\ UNCHANGED <<stopped, accepted_records, outcomes>>

\* The engine concludes: take what is left and stop, in one step.
finish ==
    /\ stopped' = TRUE
    /\ absorbed' = absorbed \o pending
    /\ pending' = <<>>
    /\ UNCHANGED <<accepted_records, outcomes>>

\* A new process, a new source and a new graph.
renew ==
    /\ pending' = <<>>
    /\ stopped' = FALSE
    /\ accepted_records' = 0
    /\ outcomes' = [p \in Peers |-> [bundles |-> 0, rejected |-> {}]]
    /\ absorbed' = <<>>
==============================================================================
