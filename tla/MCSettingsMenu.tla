--------------------------- MODULE MCSettingsMenu ---------------------------
(***************************************************************************)
(* SettingsMenu for TLC: a seed of 4 bits takes ceil(4 / log2(10)) = 2     *)
(* digits, as one of 64 bits takes 20, so typed seeds wrap here as well.   *)
(***************************************************************************)
EXTENDS SettingsMenu

MCFreshSeeds == {5}
=============================================================================
