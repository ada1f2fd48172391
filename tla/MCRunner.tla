------------------------------ MODULE MCRunner ------------------------------
(* Instances of MonitoringRunner for TLC. *)
EXTENDS MonitoringRunner, TLC

Interchangeable == Permutations(Wakes)
=============================================================================
