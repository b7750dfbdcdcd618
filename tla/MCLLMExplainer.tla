--------------------------- MODULE MCLLMExplainer ---------------------------
(***************************************************************************)
(* Instances of LLMExplainer for TLC: two attempts and a threshold of three *)
(* so that the circuit opens in the middle of a request's retries.         *)
(***************************************************************************)
EXTENDS LLMExplainer, TLC

CONSTANTS t1, t2

Symmetry == Permutations({t1, t2})
=============================================================================
