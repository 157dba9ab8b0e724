---------------------------- MODULE MCMasterSync ----------------------------
(* Instances of MasterSync for TLC. *)
EXTENDS MasterSync

CONSTANTS s1, s2

TwoSyncs == {s1, s2}
OneSync == {s1}
=============================================================================
