--------------------------- MODULE MCOrchestrator ----------------------------
(* Orchestrator with one hardware identity that holds every address.        *)
EXTENDS Orchestrator

CONSTANT m1

HolderOne == [a \in Addresses |-> m1]
==============================================================================
