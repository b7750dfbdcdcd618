---------------------------- MODULE MCRiskPolicy ----------------------------
(***************************************************************************)
(* Instances of RiskPolicy for TLC.  Scale = 3 with defaults 1 and 3 is the *)
(* smallest scale on which two ordered requests can combine into a         *)
(* disordered row.                                                         *)
(***************************************************************************)
EXTENDS RiskPolicy, TLC

CONSTANTS a1, a2, r1

DefaultLimits == [low |-> 1, medium |-> 3]

Symmetry == Permutations({a1, a2})
=============================================================================
