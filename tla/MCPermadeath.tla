---------------------------- MODULE MCPermadeath ----------------------------
(* Permadeath for TLC.  The Pokemon are interchangeable. *)
EXTENDS Permadeath, TLC

Symmetry == Permutations(Pokemon)
=============================================================================
