--------------------------- MODULE MCOfflineRules ---------------------------
(* Instances of OfflineRules for TLC. *)
EXTENDS OfflineRules, OfflineInputs
=============================================================================
