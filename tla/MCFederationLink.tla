-------------------------- MODULE MCFederationLink --------------------------
(* FederationLink for TLC: the two peers are interchangeable.                 *)
EXTENDS FederationLink, TLC

MCSymmetry == Permutations(Peers)
=============================================================================
