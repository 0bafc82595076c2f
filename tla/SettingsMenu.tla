---------------------------- MODULE SettingsMenu ----------------------------
(***************************************************************************)
(* The in-game settings dialog: the script pawn_scripts/settings.p, which  *)
(* pages through lists of options, the natives it calls to change          *)
(* save_file, the hook that opens it once, and the texts it shows          *)
(* (source/program/patches/settings_menu.hpp).  The script and the C++     *)
(* share three tables: which message a list position carries, which toggle *)
(* its response calls, and which flag the message displays.                *)
(***************************************************************************)
EXTENDS SaveData, FiniteSets

CONSTANTS
  SeedDigits,   \* how many digits a typed seed has: 20 in the program
  MaxFlips      \* bound: how many flags may differ from the defaults

ASSUME SettingsMenuConstants ==
  /\ SeedDigits \in Nat \ {0}
  /\ MaxFlips \in Nat

VARIABLES
  dialog,     \* the script: "closed", at a list of options, or typing a "seed"
  page,       \* its list of options
  seed_page,  \* its list of digits
  i,          \* how many digits of the seed have been typed
  window,     \* the text of the last "show_seed" window
  \* history, not in the program:
  typed       \* the digits typed, read as a decimal number; -1 if none were

menuVars == <<save_file, dialog, page, seed_page, i, window, typed>>

MenuInit ==
  /\ \E s \in FreshSeeds : save_file = FreshConfig(s)
  /\ dialog = "closed"
  /\ page = 0
  /\ seed_page = 0
  /\ i = 0
  /\ window = "none"
  /\ typed = -1

-----------------------------------------------------------------------------
(***************************************************************************)
(* The tables.  Items(p) is what AddListItem puts on page p.               *)
(***************************************************************************)
Items(p) ==
  CASE p = 0 -> << "option_confirm_settings", "option_show_seed", "option_new_seed",
                   "option_evo_rng", "option_evo_match_types",
                   "option_evo_each_level", "option_next" >>
    [] p = 1 -> << "option_back", "option_learnset_rng", "option_item_rng",
                   "option_gift_tms_rng", "option_personal_rng",
                   "option_trainer_rng", "option_next" >>
    [] p = 2 -> << "option_back", "option_trainer_level_boost", "option_wild_rng",
                   "option_wild_live_rng", "option_wild_level_boost",
                   "option_scripted_rng", "option_next" >>
    [] p = 3 -> << "option_back", "option_gift_rng", "option_model_rng",
                   "option_model_hide_starters", "option_permadeath",
                   "option_route_restriction", "option_next" >>
    [] p = 4 -> << "option_back", "option_level_cap_boost",
                   "option_filter_shop_items" >>

DigitItems(p) ==
  IF p = 0 THEN << "0", "1", "2", "3", "4", "5", "option_next" >>
           ELSE << "option_back", "6", "7", "8", "9" >>

\* ToggleIndex with the fourth page's offset off by one.
ToggleIndexSlipped(p, r) ==
  CASE p = 0 -> r - 3
    [] p = 1 -> r + 2
    [] p = 2 -> r + 7
    [] p = 3 -> r + 11
    [] p = 4 -> r + 17

\* The argument of ToggleSetting for response r on page p.
ToggleIndex(p, r) ==
  CASE p = 0 -> r - 3
    [] p = 1 -> r + 2
    [] p = 2 -> r + 7
    [] p = 3 -> r + 12
    [] p = 4 -> r + 17

\* The digit AddNewSeedDigit is called with, with a slip of the second page's offset.
DigitAddedOffByOne(p, r) == IF p = 0 THEN r ELSE r + 6

DigitAdded(p, r) == IF p = 0 THEN r ELSE r + 5

\* custom_messages: the flag whose state a message displays as (on) or (off).
ShownFlag(m) ==
  CASE m = "option_evo_rng" -> "evo_rng.enabled"
    [] m = "option_evo_match_types" -> "evo_rng.match_types"
    [] m = "option_evo_each_level" -> "evo_rng.each_level"
    [] m = "option_learnset_rng" -> "learnset_rng.enabled"
    [] m = "option_item_rng" -> "item_rng.enabled"
    [] m = "option_personal_rng" -> "personal_rng.enabled"
    [] m = "option_trainer_rng" -> "trainer_rng.enabled"
    [] m = "option_trainer_level_boost" -> "trainer_rng.level_boost"
    [] m = "option_wild_rng" -> "wild_rng.enabled"
    [] m = "option_wild_live_rng" -> "wild_rng.live"
    [] m = "option_wild_level_boost" -> "wild_rng.level_boost"
    [] m = "option_scripted_rng" -> "scripted_rng.enabled"
    [] m = "option_gift_rng" -> "gift_rng.enabled"
    [] m = "option_model_rng" -> "model_rng.enabled"
    [] m = "option_model_hide_starters" -> "model_rng.hide_starters"
    [] m = "option_permadeath" -> "permadeath.enabled"
    [] m = "option_route_restriction" -> "route_restriction.enabled"
    [] m = "option_level_cap_boost" -> "level_cap_boost.enabled"
    [] m = "option_filter_shop_items" -> "filter_shop_items.enabled"
    [] m = "option_gift_tms_rng" -> "gift_tms_rng.enabled"
    [] OTHER -> "none"

\* What a digit's message says.
ShownDigit == [d \in 0 .. 9 |-> << "0", "1", "2", "3", "4", "5", "6", "7", "8", "9" >>[d + 1]]

-----------------------------------------------------------------------------
(***************************************************************************)
(* MsgStringReplace for "show_seed".  The label is copied into a buffer on *)
(* the stack without a terminator.  With a seed, length() then looks for   *)
(* the terminator in what the stack held, and the digits go wherever it    *)
(* found one; without a seed nothing ends the text at all.  Either way the *)
(* text is the intended one only if the stack held a zero in the right     *)
(* place.                                                                  *)
(***************************************************************************)
ShowSeed(c) ==
  window' \in { "garbage", IF c.rng_seed_set THEN "label and seed" ELSE "label" }

\* SettingsMenuTrigger as a bug would leave it: the second call opens the dialog too.
SettingsMenuTriggerAgain ==
  /\ dialog = "closed"
  /\ save_file.settings_menu_state < 2
  /\ dialog' = "list"
  /\ page' = 0
  /\ save_file' = AdvanceMenu(save_file)
  /\ UNCHANGED <<seed_page, i, window, typed>>

\* SettingsMenuTrigger: the first call opens the dialog, the second reloads the
\* scene, later ones go through to the game.  The game calls it from its own
\* scripts, of which none runs while the dialog is open.
SettingsMenuTrigger ==
  /\ dialog = "closed"
  /\ save_file.settings_menu_state < 2
  /\ IF save_file.settings_menu_state = 0 THEN dialog' = "list" ELSE UNCHANGED dialog
  /\ page' = 0
  /\ save_file' = AdvanceMenu(save_file)
  /\ UNCHANGED <<seed_page, i, window, typed>>

-----------------------------------------------------------------------------
\* Responses on the lists of options; r counts from 0.
AtList(p) == dialog = "list" /\ page = p

\* Page 0, response 0: a break inside the switch leaves the script's loop.
Confirm ==
  /\ AtList(0)
  /\ dialog' = "closed"
  /\ UNCHANGED <<save_file, page, seed_page, i, window, typed>>

ShowSeedOption ==
  /\ AtList(0)
  /\ ShowSeed(save_file)
  /\ UNCHANGED <<save_file, dialog, page, seed_page, i, typed>>

NewSeedOption ==
  /\ AtList(0)
  /\ save_file' = ClearSeed(save_file)
  /\ dialog' = "seed"
  /\ seed_page' = 0
  /\ i' = 0
  /\ typed' = 0
  /\ ShowSeed(ClearSeed(save_file))
  /\ UNCHANGED page

TurnPage(r) ==
  /\ dialog = "list"
  /\ \/ r = 6 /\ page < 4 /\ page' = page + 1
     \/ r = 0 /\ page > 0 /\ page' = page - 1
  /\ UNCHANGED <<save_file, dialog, seed_page, i, window, typed>>

IsToggle(p, r) == r \in (IF p = 0 THEN 3 .. 5 ELSE IF p = 4 THEN 1 .. 2 ELSE 1 .. 5)

Flipped(flags) == { f \in Flag : flags[f] # DefaultFlags[f] }

ToggleOption(r) ==
  /\ dialog = "list"
  /\ IsToggle(page, r)
  /\ save_file' = ToggleIn(save_file, ToggleOrder[ToggleIndex(page, r) + 1])
  /\ Cardinality(Flipped(save_file'.flags)) <= MaxFlips
  /\ UNCHANGED <<dialog, page, seed_page, i, window, typed>>

-----------------------------------------------------------------------------
\* Responses on the lists of digits: turn the page, or add a digit.  Before each
\* the seed so far is shown again.
TurnSeedPage(r) ==
  /\ dialog = "seed"
  /\ \/ seed_page = 0 /\ r = 6 /\ seed_page' = 1
     \/ seed_page = 1 /\ r = 0 /\ seed_page' = 0
  /\ ShowSeed(save_file)
  /\ UNCHANGED <<save_file, dialog, page, i, typed>>

AddNewSeedDigit(r) ==
  /\ dialog = "seed"
  /\ r \in (IF seed_page = 0 THEN 0 .. 5 ELSE 1 .. 4)
  /\ LET next == AppendDigit(save_file, DigitAdded(seed_page, r))
     IN  /\ save_file' = next
         /\ IF i + 1 = SeedDigits
            THEN dialog' = "list" /\ UNCHANGED window
            ELSE ShowSeed(next) /\ UNCHANGED dialog
  /\ i' = i + 1
  /\ typed' = typed * 10
              + CHOOSE d \in 0 .. 9 : ShownDigit[d] = DigitItems(seed_page)[r + 1]
  /\ UNCHANGED <<page, seed_page>>

MenuNext ==
  \/ SettingsMenuTrigger
  \/ Confirm \/ ShowSeedOption \/ NewSeedOption
  \/ \E r \in 0 .. 6 :
       TurnPage(r) \/ ToggleOption(r) \/ TurnSeedPage(r) \/ AddNewSeedDigit(r)

MenuSpec == MenuInit /\ [][MenuNext]_menuVars

-----------------------------------------------------------------------------
MenuTypeOK ==
  /\ save_file \in Config
  /\ dialog \in {"closed", "list", "seed"}
  /\ page \in 0 .. 4
  /\ seed_page \in 0 .. 1
  /\ i \in 0 .. SeedDigits
  /\ window \in {"none", "label", "label and seed", "garbage"}
  /\ typed \in Int

\* Choosing an option toggles the flag whose state that option displays: the list
\* of the page, the responses of the script, the cases of ToggleSetting and the
\* messages of the C++ side agree on every page.
PickTogglesWhatItShows ==
  [][ \A r \in 0 .. 6 : ToggleOption(r) =>
        save_file'.flags = Toggle(save_file.flags, ShownFlag(Items(page)[r + 1])) ]_menuVars

\* A seed that has been typed is the number its digits show, modulo the width of
\* rng_seed, at every moment of the typing and on both lists of digits; the script
\* leaves the typing only with all its digits and with rng_seed_set.
SeedIsWhatWasTyped ==
  /\ MenuTypeOK
  /\ typed >= 0 => save_file.rng_seed = typed % (2 * Half)
  /\ dialog = "seed" => i < SeedDigits /\ (save_file.rng_seed_set <=> i > 0)
  /\ dialog # "seed" => save_file.rng_seed_set /\ (typed >= 0 => i = SeedDigits)

\* Once the dialog is closed the seed and the flags of the run stay what they are,
\* however often the game calls the hooked function: the tables of the run are
\* generated from them again and again.
FrozenOnceClosed ==
  [][ dialog = "closed" /\ save_file.settings_menu_state > 0
        => /\ dialog' = "closed"
           /\ save_file'.flags = save_file.flags
           /\ save_file'.rng_seed = save_file.rng_seed ]_menuVars
=============================================================================
