----------------------------- MODULE MCFactStore -----------------------------
(* FactStore for TLC: interchangeable writers and facts. *)
EXTENDS FactStore, TLC

Symmetry == Permutations(Writer) \cup Permutations(Content)
=============================================================================
