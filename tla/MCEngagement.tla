----------------------------- MODULE MCEngagement -----------------------------
(* Instances of Engagement for TLC: the configurations give its constants. *)
EXTENDS Engagement

=============================================================================
