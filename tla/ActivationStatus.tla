--------------------------- MODULE ActivationStatus ---------------------------
(***************************************************************************)
(* The read-only status of the activation store                            *)
(* (src/turtle_value_engine/evolution/activation_status.py): what          *)
(* inspect_activation_status tells the owner to do, from the configuration *)
(* and the artifacts alone.  It takes no lock; the model reads everything  *)
(* at once, and its property speaks of times when no invocation holds the  *)
(* lock.                                                                   *)
(***************************************************************************)
EXTENDS ActivationExecution

(* _scan_store: damage, read against the order in which the executor writes. *)
Problems ==
  \/ \E a \in torn : a.kind # "staged"
  \/ \E a \in files :
       /\ a.kind = "record" /\ a.of.op = "apply"
       /\ Intent(a.of) \notin files
  \/ \E r \in Journal :
       /\ Finished(r) \/ config = Activated(r)
       /\ Image(r.prior) \notin files
  \/ \E a \in files :
       /\ a.kind \in {"intent", "record"} /\ a.of.op = "rollback"
       /\ Record(Apply(a.of.of)) \notin files

History == {r \in Journal : Finished(r)}
TakenBack(r) == Record(Rollback(r)) \in files
BeingTakenBack(r) == Intent(Rollback(r)) \in files /\ ~TakenBack(r)

Active == {r \in History : config = Activated(r)}
Provable == {r \in Active : ~TakenBack(r)}
Prior == {r \in History : config = r.prior}

(* _classify *)
Status ==
  IF Problems THEN "CORRUPT_OR_UNVERIFIABLE"
  ELSE IF Cardinality(Unfinished) > 1 THEN "AMBIGUOUS_HISTORY"
  ELSE IF Unrecorded(config) # {} THEN "RECEIPT_FINALIZATION_PENDING"
  ELSE IF Resumable(config) # {} THEN "APPLY_RESUMABLE"
  ELSE IF Unfinished # {} THEN "CONFIG_DIVERGED"
  ELSE IF Cardinality(Provable) > 1 THEN "AMBIGUOUS_HISTORY"
  ELSE IF Provable # {} THEN "ACTIVATED_VERIFIED"
  ELSE IF Active # {} THEN "CONFIG_DIVERGED"
  ELSE IF \E r \in Prior : BeingTakenBack(r) THEN "ROLLBACK_FINALIZATION_PENDING"
  ELSE IF \E r \in Prior : TakenBack(r) THEN "ROLLED_BACK_VERIFIED"
  ELSE IF History # {} THEN "CONFIG_DIVERGED"
  ELSE "NO_HISTORY"

-----------------------------------------------------------------------------
(* Whatever the commands did and wherever they died, as long as the owner    *)
(* does not edit the configuration and no file was left incomplete: the      *)
(* status reports no damage, a divergence only when an activation that was   *)
(* taken back has been applied again (the case the comment in _classify      *)
(* names), and an ambiguity only when one of the activations to the bytes in *)
(* place has begun to be rolled back and another was applied in its place;   *)
(* and it knows of no history only while the configuration is the first one. *)
StatusIsTrue ==
  lock = None /\ edits = 0 /\ {a \in torn : a.kind # "staged"} = {} =>
    /\ Status # "CORRUPT_OR_UNVERIFIABLE"
    /\ Status = "CONFIG_DIVERGED" => \E r \in Active : TakenBack(r)
    /\ Status = "AMBIGUOUS_HISTORY" => \E r \in Active : Intent(Rollback(r)) \in files
    /\ Status = "NO_HISTORY" => config = Original

=============================================================================
