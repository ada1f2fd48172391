----------------------------- MODULE MCDelivery -----------------------------
(* Small instances of MonitoringDelivery for TLC. *)
EXTENDS MonitoringDelivery, TLC

MCPolicy(max, idem) == [max |-> max, idem |-> idem, base |-> 1, cap |-> 2]

(* A destination with and one without declared receiver idempotency; the     *)
(* cap of two seconds bites from the third slot on (base 1 doubles to 4).    *)
MCBothPolicies == {MCPolicy(3, TRUE), MCPolicy(3, FALSE)}
=============================================================================
