---------------------------- MODULE MCLeaseProbe ----------------------------
(* Instances of RunnerLeaseProbe for TLC. *)
EXTENDS RunnerLeaseProbe, TLC

Symmetry == Permutations(Holders)
=============================================================================
