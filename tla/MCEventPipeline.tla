-------------------------- MODULE MCEventPipeline --------------------------
(* Instances of EventPipeline for TLC.                                     *)
EXTENDS EventPipeline

CONSTANTS l1, l2

(* Two words are flagged (score 30), three are not (score 45).             *)
AroundThreshold == {2, 3}
=============================================================================
