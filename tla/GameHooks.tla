----------------------------- MODULE GameHooks -----------------------------
(***************************************************************************)
(* The hooks that sit between the game's scripts and its player: natives   *)
(* that scripts may call (program/amx_handler.hpp), texts that are put in  *)
(* for messages the game does not have (patches/settings_menu.hpp), the    *)
(* controller (program/hid_handler.hpp) and what holding B skips           *)
(* (patches/speed_qol.hpp), the level cap (patches/level_cap.hpp).  Hooks  *)
(* run on the game's main thread, one behind the other.                    *)
(***************************************************************************)
EXTENDS Integers, SequencesExt, Levels

CONSTANTS
  custom_messages,   \* the hashes with a text of the module's
  Shows,             \* those of them whose text ends in the state of a flag -> flag
  GameMessages,      \* hashes the game has a text for
  Strings,           \* what else the game copies: names, numbers
  GameNatives,       \* what scripts of the game call
  Imports,           \* script -> the natives it calls
  Sequences,         \* file of a cut scene -> its frames; NoFile is one without a file
  LevelCaps          \* the levels the game allows

\* The natives of the module that scripts know of: pawn_scripts/settings.p.
Natives == {"AddNewSeedDigit", "ResetSeed", "ToggleSetting"}

ShowSeed == "show_seed"
NoFile == "no file"
NoHash == "no hash"

ASSUME GameHooksConstants ==
  /\ GameMessages \cap (custom_messages \cup {ShowSeed, NoHash}) = {}
  /\ {ShowSeed, NoHash} \cap custom_messages = {} /\ DOMAIN Shows \subseteq custom_messages
  /\ LevelCaps \subseteq 1 .. 100
  /\ \A name \in DOMAIN Imports : Imports[name] \subseteq GameNatives \cup Natives

VARIABLES
  flags,          \* of save_file, those that texts show and the level cap's
  custom_symbols, \* of amx_handler.hpp
  registered,     \* script that runs -> the natives it was given
  script,         \* what the running script does
  last_hash,      \* of settings_menu.hpp
  lookup,         \* a message the game is fetching, and register X8 as it does
  rows,           \* history: message -> text, as the open window shows them
  copied,         \* history: another string, and the text it was copied as
  buttons, fresh, \* the controller as last polled, and what had just been pressed then
  should_skip,    \* of speed_qol.hpp
  sequence,       \* the cut scene: its file and the frames that are left of it
  camera,         \* the speed the camera moves with
  level_cap,      \* the level the game goes by, and the one it comes from
  crashed         \* whether the game read from address 0

messageVars == <<last_hash, lookup, rows, copied>>
padVars == <<buttons, fresh, should_skip>>
playVars == <<sequence, camera, level_cap>>
vars == <<flags, custom_symbols, registered, script, messageVars, padVars, playVars, crashed>>

-----------------------------------------------------------------------------
(* amx_handler.hpp *)
Terminator == "nullptr"

\* A symbol behind the terminator.
AddedLast(symbols, name) == Append(symbols, name)

add_new_symbol(symbols, name) == InsertAt(symbols, Len(symbols), name)

\* exl_main, up to what the hooks find when the game starts.
install_settings_menu_patch ==
  LET digit == add_new_symbol(<<Terminator>>, "AddNewSeedDigit")
      reset == add_new_symbol(digit, "ResetSeed")
  IN  add_new_symbol(reset, "ToggleSetting")

Init ==
  /\ flags \in [UNION { {Shows[m]} : m \in DOMAIN Shows } \cup {"level_cap_boost"} -> BOOLEAN]
  /\ custom_symbols = install_settings_menu_patch
  /\ registered = <<>> /\ script = [at |-> "none"]
  /\ last_hash = NoHash /\ lookup = [step |-> "none"] /\ rows = <<>> /\ copied = <<>>
  /\ buttons = {} /\ fresh = {} /\ should_skip = FALSE
  /\ sequence = [file |-> NoFile, frames |-> 0] /\ camera = "given" /\ level_cap = <<>>
  /\ crashed = FALSE

\* The natives of an array, which ends at the first symbol without a name.
Listed(symbols) ==
  { symbols[i] : i \in { k \in DOMAIN symbols : \A j \in 1 .. k : symbols[j] # Terminator } }

\* A script is started, by the game or by call_pawn_script.
RegisterAMXFunctions(name) ==
  /\ script.at = "none"
  /\ script' = [at |-> "run", name |-> name]
  /\ registered' = [n \in {name} |-> GameNatives \cup Listed(custom_symbols)]
  /\ UNCHANGED <<flags, custom_symbols, messageVars, padVars, playVars, crashed>>

ScriptEnds ==
  /\ script.at = "run" /\ rows = <<>>
  /\ script' = [at |-> "none"] /\ registered' = <<>>
  /\ UNCHANGED <<flags, custom_symbols, messageVars, padVars, playVars, crashed>>

\* The only native of the module that texts depend on.
ToggleSetting(flag) ==
  /\ script.at = "run" /\ rows = <<>> /\ "ToggleSetting" \in registered[script.name]
  /\ flags' = [flags EXCEPT ![flag] = ~ @]
  /\ UNCHANGED <<custom_symbols, registered, script, messageVars, padVars, playVars, crashed>>

-----------------------------------------------------------------------------
(***************************************************************************)
(* Messages.  A lookup stores the hash, asks whether there is such a       *)
(* message, reads from what it found and copies the text: one call of the  *)
(* game's, and no other string is copied meanwhile.                        *)
(***************************************************************************)
\* The text a message may have.  The one of the seed is built in a buffer of the stack that
\* has no terminator yet: its digits go wherever it ends, and without a seed nothing ends it.
Texts(hash) ==
  IF hash = ShowSeed THEN {"seed", "garbage"}
  ELSE IF hash \in DOMAIN Shows THEN {<<hash, IF flags[Shows[hash]] THEN "on" ELSE "off">>}
  ELSE {hash}

\* ShowMessageWindow or AddListItem.  The rest of the game's function does not run for
\* custom_messages.
MsgHashStore(hash) ==
  /\ script.at = "run" /\ lookup.step = "none" /\ Cardinality(DOMAIN rows) < 2
  /\ last_hash' = hash
  /\ lookup' = [step |-> "stored", of |-> hash, orig |-> hash \notin custom_messages,
                x8 |-> IF hash \in GameMessages THEN "message" ELSE "null"]
  /\ UNCHANGED <<flags, custom_symbols, registered, script, rows, copied, padVars, playVars, crashed>>

\* The answer to whether there is such a message.
Valid == TRUE

ValidateMessages ==
  /\ lookup.step = "stored"
  /\ lookup' = IF Valid THEN [lookup EXCEPT !.step = "valid"] ELSE [step |-> "none"]
  /\ UNCHANGED <<flags, custom_symbols, registered, script, last_hash, rows, copied, padVars,
                 playVars, crashed>>

\* ldr x22, [x8, #0x60] behind the hook.
PatchInvalidMessageNullptr ==
  /\ lookup.step = "valid"
  /\ LET x8 == IF lookup.x8 = "null" THEN "addressable_nullptr" ELSE lookup.x8
     IN lookup' = [lookup EXCEPT !.step = "read", !.x8 = x8] /\ crashed' = (x8 = "null")
  /\ UNCHANGED <<flags, custom_symbols, registered, script, last_hash, rows, copied, padVars, playVars>>

Replacements(src) ==
  IF last_hash \in custom_messages \cup {ShowSeed} THEN Texts(last_hash) ELSE {src}

\* The hash is left for the next string.
MsgStringReplaceStale(src) == last_hash' = last_hash

\* last_hash counts for one string, whatever it is.
MsgStringReplace(src) == last_hash' = NoHash

CopyMessage ==
  /\ lookup.step = "read"
  /\ LET src == IF lookup.x8 = "message" THEN lookup.of ELSE "empty"
     IN /\ \E text \in Replacements(src) :
             rows' = [m \in DOMAIN rows \cup {lookup.of} |-> IF m = lookup.of THEN text ELSE rows[m]]
        /\ MsgStringReplace(src)
  /\ lookup' = [step |-> "none"]
  /\ UNCHANGED <<flags, custom_symbols, registered, script, copied, padVars, playVars, crashed>>

CopyString(src) ==
  /\ lookup.step = "none"
  /\ \E text \in Replacements(src) : copied' = <<src, text>>
  /\ MsgStringReplace(src)
  /\ UNCHANGED <<flags, custom_symbols, registered, script, lookup, rows, padVars, playVars, crashed>>

-----------------------------------------------------------------------------
(* hid_handler.hpp and speed_qol.hpp *)
is_pressed(data, mask) == mask \subseteq data

\* B keeps skipping once it was held.
detect_b_ever_held(data) == should_skip' = (should_skip \/ is_pressed(data, {"B"}))

detect_b_held(data) == should_skip' = is_pressed(data, {"B"})

HookNpad(data) ==
  /\ buttons' = data /\ fresh' = data \ buttons
  /\ detect_b_held(data)
  /\ UNCHANGED <<flags, custom_symbols, registered, script, messageVars, playVars, crashed>>

\* The script waits, for the end of its message or for a key.
Wait(for) ==
  /\ script.at = "run" /\ lookup.step = "none" /\ rows # <<>>
  /\ script' = [script EXCEPT !.at = for]
  /\ UNCHANGED <<flags, custom_symbols, registered, messageVars, padVars, playVars, crashed>>

\* The game's own answer: the wait ends as the player presses a key.
Pressed == fresh # {}

InstantMessageEnd == IF ~ should_skip THEN Pressed ELSE TRUE
SkipABKeyWait == IF ~ should_skip THEN Pressed ELSE TRUE

WaitEnds ==
  /\ \/ script.at = "message" /\ InstantMessageEnd
     \/ script.at = "key" /\ SkipABKeyWait
  /\ script' = [script EXCEPT !.at = "run"]
  /\ rows' = <<>>
  /\ UNCHANGED <<flags, custom_symbols, registered, last_hash, lookup, copied, padVars, playVars,
                 crashed>>

\* A sequence is read: the title and evolutions are played, and one without a file.
SkipBSeq(file) ==
  /\ script.at = "run" /\ rows = <<>> /\ lookup.step = "none"
  /\ script' = [script EXCEPT !.at = "sequence"]
  /\ sequence' = [file |-> file,
                  frames |-> IF file \in {NoFile, "title", "evolution"} THEN Sequences[file] ELSE 0]
  /\ UNCHANGED <<flags, custom_symbols, registered, messageVars, padVars, camera, level_cap, crashed>>

PlaySequence ==
  /\ script.at = "sequence"
  /\ IF sequence.frames = 0 THEN script' = [script EXCEPT !.at = "run"] /\ UNCHANGED sequence
                            ELSE sequence' = [sequence EXCEPT !.frames = @ - 1] /\ UNCHANGED script
  /\ UNCHANGED <<flags, custom_symbols, registered, messageVars, padVars, camera, level_cap, crashed>>

EvCameraSpeed ==
  /\ script.at = "run"
  /\ camera' = IF should_skip THEN "1.0" ELSE "given"
  /\ UNCHANGED <<flags, custom_symbols, registered, script, messageVars, padVars, sequence, level_cap,
                 crashed>>

-----------------------------------------------------------------------------
(* level_cap.hpp *)
TweakLevelCap(level) ==
  /\ level_cap' = <<level, IF flags["level_cap_boost"] THEN level_boost(level) ELSE level>>
  /\ UNCHANGED <<flags, custom_symbols, registered, script, messageVars, padVars, sequence, camera,
                 crashed>>

-----------------------------------------------------------------------------
Next ==
  \/ \E name \in DOMAIN Imports : RegisterAMXFunctions(name)
  \/ ScriptEnds \/ \E flag \in DOMAIN flags : ToggleSetting(flag)
  \/ \E hash \in custom_messages \cup GameMessages \cup {ShowSeed} : MsgHashStore(hash)
  \/ ValidateMessages \/ PatchInvalidMessageNullptr \/ CopyMessage
  \/ \E src \in Strings : CopyString(src)
  \/ \E data \in SUBSET {"A", "B"} : HookNpad(data)
  \/ \E for \in {"message", "key"} : Wait(for)
  \/ WaitEnds \/ (\E file \in DOMAIN Sequences : SkipBSeq(file)) \/ PlaySequence \/ EvCameraSpeed
  \/ \E level \in LevelCaps : TweakLevelCap(level)

\* A script that waits asks again every frame.
Spec == Init /\ [][Next]_vars /\ WF_vars(WaitEnds)

-----------------------------------------------------------------------------
(***************************************************************************)
(* Every message that is on the screen has a text of its own, flags as     *)
(* they are now, and every other text is what the game had: a hash that    *)
(* was stored is used for its own string and for no other.  Of the seed's  *)
(* message no more is said: what its buffer holds is not known.  Nothing   *)
(* was read from the message the game could not find, and the rest of      *)
(* MsgHashStore ran with no hash the game does not know but the seed's,    *)
(* which custom_messages has not got.                                      *)
(***************************************************************************)
TextsAreTheirOwn ==
  /\ \A m \in DOMAIN rows : rows[m] \in Texts(m)
  /\ copied # <<>> => copied[2] = copied[1]
  /\ ~ crashed
  /\ lookup.step # "none" /\ lookup.orig => lookup.of \in GameMessages \cup {ShowSeed}

(***************************************************************************)
(* A script that runs was given every native it calls: the game's own and  *)
(* those the patches added, of which none is behind the array's end.       *)
(***************************************************************************)
NativesFound == script.at # "none" => Imports[script.name] \subseteq registered[script.name]

(***************************************************************************)
(* A wait ends only if the player had pressed a key or held B when the     *)
(* controller was last asked; and as long as B is held none goes on.       *)
(***************************************************************************)
Waiting == script.at \in {"message", "key"}

SkipsWhileHeld ==
  /\ [][Waiting /\ script'.at = "run" => fresh # {} \/ "B" \in buttons]_vars
  /\ <>[]("B" \in buttons) => []<>(~ Waiting)
=============================================================================
