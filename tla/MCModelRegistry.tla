--------------------------- MODULE MCModelRegistry ---------------------------
(***************************************************************************)
(* Instances of ModelRegistry for TLC.                                     *)
(***************************************************************************)
EXTENDS ModelRegistry, TLC

\* Clients, trainings and reports are interchangeable: no definition names
\* one of them.  Used in runs without liveness properties.
Symmetry == Permutations(Clients) \cup Permutations(Trainings)
=============================================================================
