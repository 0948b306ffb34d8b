----------------------------- MODULE MCPostCache -----------------------------
(* No symmetry: the run checks a liveness property.                         *)
EXTENDS PostCache
=============================================================================
