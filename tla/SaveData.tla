------------------------------ MODULE SaveData ------------------------------
(***************************************************************************)
(* struct SaveFile of source/program/savefile.hpp: the configuration of a  *)
(* challenge run, the operations the settings script performs on it, and   *)
(* its conversion to and from the TOML table that is stored on the SD card.*)
(***************************************************************************)
EXTENDS Integers, Sequences

CONSTANTS
  Half,         \* a u64 is 0 .. 2*Half - 1 and an s64 -Half .. Half - 1;
                \* Half is 2^63 in the program, small in a TLC instance
  FreshSeeds    \* the seeds the random generator may draw

VARIABLE save_file  \* the global SaveFile object

U64 == 0 .. 2 * Half - 1
S64 == -Half .. Half - 1

ASSUME HalfIsPositive == Half \in Nat \ {0}
ASSUME SeedsAreU64 == FreshSeeds \subseteq U64

\* static_cast<s64> and static_cast<u64>: TOML has signed integers only.
ToS64(x) == IF x < Half THEN x ELSE x - 2 * Half
ToU64(y) == IF y < 0 THEN y + 2 * Half ELSE y

-----------------------------------------------------------------------------
\* The toggles, in the order of the cases of ToggleSetting.
ToggleOrder ==
  << "evo_rng.enabled", "evo_rng.match_types", "evo_rng.each_level",
     "learnset_rng.enabled", "item_rng.enabled", "gift_tms_rng.enabled",
     "personal_rng.enabled", "trainer_rng.enabled", "trainer_rng.level_boost",
     "wild_rng.enabled", "wild_rng.live", "wild_rng.level_boost",
     "scripted_rng.enabled", "gift_rng.enabled", "model_rng.enabled",
     "model_rng.hide_starters", "permadeath.enabled",
     "route_restriction.enabled", "level_cap_boost.enabled",
     "filter_shop_items.enabled" >>

Flag == { ToggleOrder[i] : i \in 1 .. 20 }

\* <<master, option>>: the option is and-ed with its master when either is toggled.
Masks == { <<"evo_rng.enabled", "evo_rng.match_types">>,
           <<"evo_rng.enabled", "evo_rng.each_level">>,
           <<"wild_rng.enabled", "wild_rng.live">>,
           <<"model_rng.enabled", "model_rng.hide_starters">> }

\* ToggleSetting as a bug would leave it: the master alone is flipped.
ToggleWithoutMask(flags, f) == [flags EXCEPT ![f] = ~ @]

Toggle(flags, f) ==
  LET flipped == [flags EXCEPT ![f] = ~ @]
  IN  [g \in Flag |->
         flipped[g] /\ \A m \in Masks : m[2] = g /\ f \in {m[1], g} => flipped[m[1]]]

-----------------------------------------------------------------------------
Config == [ rng_seed : U64, rng_seed_set : BOOLEAN, settings_menu_state : 0 .. 2,
            flags : [Flag -> BOOLEAN], blacklisted_zones : SUBSET U64 ]

DefaultFlags ==
  [f \in Flag |-> f \notin {"evo_rng.each_level", "wild_rng.live",
                            "model_rng.hide_starters"}]

\* The static object: rng_seed and rng_seed_set have no initialiser of their own
\* and are zero because the object has static storage.
DefaultConfig ==
  [ rng_seed |-> 0, rng_seed_set |-> FALSE, settings_menu_state |-> 0,
    flags |-> DefaultFlags, blacklisted_zones |-> {} ]

\* A run without a save file draws its seed at random.
FreshConfig(seed) ==
  [DefaultConfig EXCEPT !.rng_seed = seed, !.rng_seed_set = TRUE]

\* The seed as decimal digits are typed: u64 arithmetic wraps.
AppendDigit(c, d) ==
  [c EXCEPT !.rng_seed = (@ * 10 + d) % (2 * Half), !.rng_seed_set = TRUE]

ClearSeed(c) == [c EXCEPT !.rng_seed = 0, !.rng_seed_set = FALSE]

ToggleIn(c, f) == [c EXCEPT !.flags = Toggle(@, f)]

ConsumeZone(c, z) == [c EXCEPT !.blacklisted_zones = @ \cup {z}]

\* SettingsMenuTrigger counts its first two calls.
AdvanceMenu(c) == [c EXCEPT !.settings_menu_state = @ + 1]

-----------------------------------------------------------------------------
(***************************************************************************)
(* The TOML table: one entry a field. from_table reads every entry of the  *)
(* table and inserts the stored zones into the set the object already has. *)
(***************************************************************************)
Table == [ rng_seed : S64, rng_seed_set : BOOLEAN, settings_menu_state : 0 .. 2,
           flags : [Flag -> BOOLEAN], blacklisted_zones : SUBSET S64 ]

\* to_table as a bug would leave it: a field is forgotten.
ToTableWithoutZones(c) ==
  [ rng_seed |-> ToS64(c.rng_seed), rng_seed_set |-> c.rng_seed_set,
    settings_menu_state |-> c.settings_menu_state, flags |-> c.flags,
    blacklisted_zones |-> {} ]

ToTable(c) ==
  [ rng_seed |-> ToS64(c.rng_seed), rng_seed_set |-> c.rng_seed_set,
    settings_menu_state |-> c.settings_menu_state, flags |-> c.flags,
    blacklisted_zones |-> { ToS64(z) : z \in c.blacklisted_zones } ]

\* from_table as a bug would leave it: the zones are not cast back.
FromTableSignedZones(c, t) ==
  [ rng_seed |-> ToU64(t.rng_seed), rng_seed_set |-> t.rng_seed_set,
    settings_menu_state |-> t.settings_menu_state, flags |-> t.flags,
    blacklisted_zones |-> c.blacklisted_zones \cup t.blacklisted_zones ]

FromTable(c, t) ==
  [ rng_seed |-> ToU64(t.rng_seed), rng_seed_set |-> t.rng_seed_set,
    settings_menu_state |-> t.settings_menu_state, flags |-> t.flags,
    blacklisted_zones |-> c.blacklisted_zones \cup
                          { ToU64(z) : z \in t.blacklisted_zones } ]

-----------------------------------------------------------------------------
\* An option is on only while its master is on.
Masked(flags) == \A m \in Masks : flags[m[2]] => flags[m[1]]
=============================================================================
