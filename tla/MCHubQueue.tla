---------------------------- MODULE MCHubQueue ----------------------------
(* Instances of HubQueue for TLC. *)
EXTENDS HubQueue, TLC

\* Collectors run the same code; only runs without liveness use the symmetry.
CollectorSymmetry == Permutations(Collectors)
=============================================================================
