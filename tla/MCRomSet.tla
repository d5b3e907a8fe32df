------------------------------ MODULE MCRomSet ------------------------------
(* RomSet with commands that are alike. *)
EXTENDS RomSet, TLC

Symmetry == Permutations(Preparers)
=============================================================================
