----------------------------- MODULE MCIngestion -----------------------------
(***************************************************************************)
(* Instances of Ingestion for TLC: sessions and workers are model values   *)
(* that can be exchanged for one another.                                  *)
(***************************************************************************)
EXTENDS Ingestion, TLC

WorkerSymmetry == Permutations(Workers)
Symmetry == Permutations(Sessions) \cup WorkerSymmetry

=============================================================================
