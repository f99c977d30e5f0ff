------------------------------ MODULE MCLedger ------------------------------
(***************************************************************************)
(* Instances of Ledger for TLC; the sessions and the appliers are model    *)
(* values that can be exchanged for one another.                           *)
(***************************************************************************)
EXTENDS Reports, TLC

Symmetry == Permutations(Sessions) \cup Permutations(Appliers)

=============================================================================
