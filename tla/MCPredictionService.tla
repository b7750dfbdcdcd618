------------------------ MODULE MCPredictionService -------------------------
(***************************************************************************)
(* Instances of PredictionService for TLC: two requests and two promotions *)
(* suffice for a slow request to overtake a promotion it has not seen.     *)
(***************************************************************************)
EXTENDS PredictionService, TLC

CONSTANTS r1, r2
=============================================================================
