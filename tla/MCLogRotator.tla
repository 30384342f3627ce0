----------------------------- MODULE MCLogRotator -----------------------------
(* Instances of LogRotator for TLC: the configurations give its constants. *)
EXTENDS LogRotator

=============================================================================
