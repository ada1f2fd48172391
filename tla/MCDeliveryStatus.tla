-------------------------- MODULE MCDeliveryStatus --------------------------
(* Small instances of DeliveryStatusReader for TLC. *)
EXTENDS DeliveryStatusReader, TLC

MCPolicy(max, idem) == [max |-> max, idem |-> idem, base |-> 0, cap |-> 1]
MCBothPolicies == {MCPolicy(2, TRUE), MCPolicy(2, FALSE)}
MCSymmetry == Permutations(Workers)
=============================================================================
