---------------------------- MODULE MCA2UIBroadcast ----------------------------
(* Instances of A2UIBroadcast for TLC: the configurations give its constants. *)
EXTENDS A2UIBroadcast

=============================================================================
