--------------------------- MODULE MCRequestGuards ---------------------------
(***************************************************************************)
(* Instances of RequestGuards for TLC.                                     *)
(***************************************************************************)
EXTENDS RequestGuards, TLC

CONSTANTS t1, t2
=============================================================================
