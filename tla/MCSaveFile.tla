----------------------------- MODULE MCSaveFile -----------------------------
(***************************************************************************)
(* SaveFile for TLC: u64 values are 0 .. 3, so that the fresh seed 2 and   *)
(* the zone 3 are negative as s64; typing 2 after the seed 2 wraps, and    *)
(* typing 2 after 0 does not.  One master flag and its option.             *)
(***************************************************************************)
EXTENDS SaveFile

MCHalf == 2
MCFreshSeeds == {2}
MCDigits == {2}
MCToggled == {"wild_rng.enabled", "wild_rng.live"}
MCZones == {3}
=============================================================================
