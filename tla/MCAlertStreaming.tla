-------------------------- MODULE MCAlertStreaming --------------------------
(***************************************************************************)
(* Instances of AlertStreaming for TLC: four or five events are enough for *)
(* two ingesters to duplicate, resolve and re-raise the alert of an asset. *)
(***************************************************************************)
EXTENDS AlertStreaming, TLC

CONSTANTS p1, p2, a1, a2

Symmetry == Permutations({p1, p2}) \cup Permutations({a1, a2})
=============================================================================
