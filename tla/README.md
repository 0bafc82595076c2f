# A TLA+ verification of swsh-challenge-pack

swsh-challenge-pack is a code mod for Pokémon Sword and Shield.  It is loaded
next to the game (exlaunch), overwrites instructions of the game with branches
to its own functions (hooks), and through them randomizes data, restricts
encounters, deletes fainted Pokémon and keeps its own configuration in a file.
The modules here model that code, the `.cfg` files check it with TLC on small
instances, and the `*_proofs` modules prove its main properties for every value
of the constants with TLAPS.

All paths are relative to the repository root; `program/` stands for
`source/program/` and `lib/` for `source/lib/`.

## The system

| part | state | operations | talks to |
|---|---|---|---|
| save file (`program/savefile.hpp`, `file_handler.hpp`, `main.cpp`) | the global `save_file`, the TOML file on the SD card, a file handle | `MainInitHook` (load or draw a seed), `to_table`/`from_table`, `SaveSaveFile`, `FileHandler::*` | read by every hook; written by the settings menu and the route restriction; nn::fs |
| settings menu (`program/patches/settings_menu.hpp`, `pawn_scripts/settings.p`) | the script's page, seed page and digit counter, `settings_menu_state`, `last_hash` | natives `AddNewSeedDigit`, `ResetSeed`, `ToggleSetting`; hooks `SettingsMenuTrigger`, `MsgHashStore`, `MsgStringReplace`, `ValidateMessages` | `save_file`; the game's script engine and message windows |
| permadeath (`program/patches/permadeath.hpp`) | the battle party and its count, each member's `hp` and `real_party_index` | hooks `PermaDeath`, `FixIterationCount`, `RestorePartyOrderPatch` | the battle |
| route restriction (`program/patches/route_restriction.hpp`, `placement_zone_data.hpp`) | `encounter_zone_hash`, the blacklist in `save_file` | hooks `StoreEncounterSpawner`, `StoreFishingPoint`, `OnBattleResult`, `FilterObject` (twice) | field objects, battles, the save file |
| random generator (`program/rng_manager.hpp`, `lib/util/murmur3.hpp`, `random.*`) | an mt19937_64 an identifier | `NewRandomGenerator`, `RandMax` and what is built on it | `save_file.rng_seed` |
| randomizers (`program/patches/{wild_pokemon,evolution,trainer_poke,learnset,personal_total,gifts,gift_tms,field_items,shop_items,pokemon_models,event_encounters}.hpp`) | the game's tables, static template buffers, `is_encount_object` | one hook each | the random generator, the flags of `save_file` |
| speed options, level cap, HID and AMX callbacks (`program/patches/speed_qol.hpp`, `level_cap.hpp`, `program/hid_handler.hpp`, `amx_handler.hpp`) | `should_skip`, `old_buttons`, the lists of callbacks and natives | hooks on polling, waiting, registering | the game |
| hook engine (`lib/hook/**`) | pools of trampolines and inline entries and their indices | `Hook`, `HookInline`, `__fix_instructions` | writable mappings, encoders; every hook of the program |
| writable mappings (`lib/util/sys/rw_pages.*`, `jit.hpp`, `lib/nx/kernel/virtmem.c`, `cur_proc_handle.cpp`, `lib/nx/arm/cache.s`) | regions, reservations, claims, the process handle, the instruction cache | `RwPages`, `virtmemFindAslr`, `virtmemAddReservation`, `Flush`, `proc_handle::Get` | kernel calls |
| patchers (`lib/patch/**`) | a start and a cursor | `Write`, `Seek`, random access, flushing | the mapping of the program's code |
| encoders (`lib/armv8/**`) | — | one constructor an instruction | hooks and patches |
| module layout and lookup tables (`lib/util/sys/mem_layout.*`, `modules.hpp`, `lib/reloc/**`) | the modules by index, the table for this version | `FindModules`, `Initialize`, `ApplyRels`, `FindByHash` | the kernel, the module loader |
| module loader (`source/rtld/**`) | the list of modules, their dynamic sections, their slots | `Initialize`, `Relocate`, `ResolveSymbols`, `__rtld_lazy_bind_symbol` | every call between modules |
| start-up and diagnostics (`lib/init`, `lib/diag`) | how far start-up is, which threads abort | `exl_init`, `AbortImpl`, `AbortWithCtx` | all of them |
| logging, system headers (`lib/log`, `source/nn/**`, `lib/nx/kernel/svc.h`) | — | — | — |

What is hard in it, and what makes each part correct:

* **Crash and failure of single file-system calls.**  `WriteFile` replaces the
  file by delete, create, open and write; results are mostly ignored.  Correct
  means: whatever fails, a boot finds the last completed save or nothing, never
  a mixture.
* **State handed from one hook to a later one.**  The zone of an encounter
  (`encounter_zone_hash`), the hash of a message (`last_hash`), the party size
  from before the battle, `is_encount_object`.  Correct means: what is used is
  what belongs to the present encounter, message, battle, object.
* **Tables in two languages** that have to agree: the pages of `settings.p`, the
  cases of `ToggleSetting`, the messages.
* **Restructuring an array the game iterates over** (the party).
* **Widths**: seeds of 64 bits typed as 20 digits and stored as signed integers.
* **Retry loops** whose end depends on data (evolutions, moves, species).
* **Patches that must agree without sharing anything** but the seed: a model in the
  field and the gift it stands for, two consoles with one seed.
* **Patching live code** through a second mapping, from pools of fixed size, past
  two caches; what runs then crosses words written by four functions.
* **Threads**: the process handle is received by a thread whose stack is a local
  array of the one that waits; two threads bind one slot; a check fails while
  another is taking the console down.
* **Order nobody states**: modules are known by the order of their ranges, names
  by the order of a list, an override by a table that is searched by halves.

`PROJECT.json` lists the hazards at their lines.

## The modules

| module | models |
|---|---|
| `SaveData` | struct `SaveFile` as a record, every operation on it, `ToggleSetting` and its masks, `to_table`, `from_table` |
| `ConfigStore` | abstract: a live, a pending and a stored configuration |
| `SaveFile` | the file's life: boots, changes, saves of one nn::fs call a step, failing calls, power cuts |
| `SettingsMenu` | `settings.p`, the natives, `SettingsMenuTrigger`, the tables of messages, the text of the seed window |
| `Permadeath` | the three hooks and the battles around them |
| `RouteRestriction` | the four hooks, the field, battles, saves and restarts |
| `Evolution` | the hook that draws the evolutions of a species, both of its loops |
| `Relocation` | `__fix_instructions`: instructions moved to a trampoline |
| `Rng` | what the patches draw from a generator |
| `Levels` | `level_boost` |
| `Items` | the tables of TMs and of items a Pokémon may hold |
| `Encounters` | the hooks that decide which Pokémon the player meets, and the models that show them; uses `Rng`, `Levels` |
| `GameData` | learnsets, base stats, shops, items in the field, gift TMs and the script callback behind them; uses `Rng` |
| `GameHooks` | natives, message texts, the controller, the waits and cut scenes that B skips, the level cap; uses `Levels` |
| `Encoders` | instructions built field by field |
| `ProcHandle` | the handshake for the process handle |
| `Mappings` | free space, claims, the pages they show, the caches; extends `ProcHandle` |
| `LiveCode` | hooks and patches written through mappings and executed word by word; extends `Encoders`, `Mappings` |
| `Interposition` | abstract: which callbacks run in a call, in which order |
| `MemLayout` | the walk over the address space |
| `Loader` | dynamic sections, relocation, binding, tables of names |
| `Abort` | what a failed check does, to the end of the process |
| `StartUp` | from the linker to `exl_main`; extends `MemLayout`, `Loader`, `Abort` |
| `MC*` | instances for TLC |
| `SaveFile_proofs` (with `SettingsMenu`), `Nuzlocke_proofs` (`Permadeath` and `RouteRestriction`), `Rng_proofs`, `Encounters_proofs`, `GameData_proofs` (with `Evolution`), `GameHooks_proofs` (with `Relocation`), `LiveCode_proofs`, `StartUp_proofs` | theorems |

A definition keeps the name of the function it stands for.  Definitions whose
comment says "as a bug would leave it", or which sit above their namesake
without that guard or step, are mutants: they are used nowhere, and each is a
form of the definition below it under which a property fails.

### SaveFile and SaveData

`save_file` is a record: the seed, whether it is set, `settings_menu_state`, the
twenty flags as one function, and the blacklist.  `Half` stands for 2^63: a u64
is `0 .. 2*Half-1` and the casts are those of `to_table` and `from_table`.  The
order of `ToggleOrder` is the order of the cases of `ToggleSetting`; `Masks` are
the four `&=` pairs.

`disk` is what a boot would find: no file, a file that does not load (`Torn`:
created with its final size and not yet written), or a table.  `writer` is the
next nn::fs call of `FileHandler::WriteFile`; each call is an action of its own
and either works or, at most `MaxFaults` times, fails.  Between two calls
`Change` may do anything the other hooks do to `save_file`, and `PowerOff` may
happen.  `MainInitHook` ignores the result of `ReadFile` and treats every error
of `GetEntryType` as a missing file: hence `NothingRead`, under which `BootAbort`
fails, and the second disjunct of `FileMissing`.  A file whose handle leaked (a failed `nn::fs::WriteFile`) can be
neither deleted nor created: `DeleteFile` and `CreateFile`.

The variables `pending`, `saved` and `intact` are history: the object when the
save in flight and the last completed save began, and whether a later save was
hurt.

`ConfigStore` is what the part promises: what is stored changes only while a
save is in flight, and then only to the configuration that was live when that
save began, to nothing, or to something that cannot be loaded.  `SaveFile`
implements it with `stored` = what loading the file would give.

### SettingsMenu

The four tables that have to agree are four operators: `Items` (what
`AddListItem` puts on a page), `ToggleIndex` (the argument of `ToggleSetting` in
each response), `ToggleOrder` (the cases) and `ShownFlag` (the messages).  The
property `PickTogglesWhatItShows` compares the two ends of that chain.  Pawn's
`break` inside a `switch` leaves the enclosing loop; `Confirm` and
`AddNewSeedDigit` rely on it, as the script does.

### Permadeath

`members` has six slots and `count` is a byte, as in `base_party_t`.  A removal
shifts the members behind it and clears `members[count]`.  In a party of six
that slot is the count itself; the value left in it depends on whether the
compiled code reloads it, and all three outcomes are explored
(`CountsAfterRemoval`).  Faints, switches, joins, healing and the game's own
restoring of the order are external and as free as the hooks allow.  The source
says that the hooked function of `PermaDeath` runs "very often in battle": when
the order is restored, it has run since the last faint behind the lead.

### RouteRestriction

`ZoneOf` is `restriction_zone_map`, 0 for an object it does not hold (no zone of
the table has hash 0).  `LoadObject` and `ReconstructField` are the two places
where `FilterObject` is installed.  `OtherBattle` covers battles that neither
storing hook sees.  `wins` counts, as history, the encounters of each zone that
were won or caught; saves and restarts carry it along with the blacklist.

### Evolution

`methods` is the set of evolution slots the game loaded and the hook rewrites,
nine in the game.  A species stands for species and form, `Type1`, `Type2` and
`Growth` for the fields of its personal info, and `info` for the one record of
it that the game keeps and every `FetchInfo` overwrites.  `StartSlot` is the part
of the loop ahead of the draws (the trades), `Draw` one pass of the inner loop;
with `each_level` there is the first slot only.  The seeded generator is the
choice of the species in `Draw`.  Two facts about the game's data are assumed
(`EvolutionConstants`): an empty slot has no method, and no species evolves
into itself.  Without the second one the `each_level` loop would not end.

### Relocation

A word is an operation and an immediate field.  Addresses count words; every
field keeps its own span, 2 to its width, as a constant small enough to put references at both
sides of its edge.  `FixNext` reads the next instruction of the window and hands
it to the `__fix_` function that takes it, in the order of the code, and
`JumpBehind` writes the final jump.  The padding, the two mappings (`rx` and
`place.rw`), the table of places (`dat`) and the words that wait for a later
place (`fmap`) are those of the code.

The abstract meaning stands beside it: `Original` says what an instruction does
where it was and `Relocated` what its words do in the trampoline, following
branches over literals and loads of addresses; `OriginalKept` compares the two.
Five things go wrong in the code, each a named operator excluded
by `Deviates` and each needed, for without any one of them the property fails:

* `Backward`: of everything but B and BL the sign of the offset is lost.  That of a
  conditional branch is read as a number without one; the others are computed as
  `(int32_t & ~3u)`, which is unsigned, and stay so when they are added to an address of
  64 bits, so that a literal, a label or a page behind the instruction is looked for
  4 GiB too high.  What is copied from there is no literal of the program's, if
  anything is mapped there at all;
* `LiteralBehind`: for a literal ahead in the function and behind the trampoline, the
  sign of the new offset runs into the size bits of LDR;
* `LabelOffWord`: the two low bits of an ADR's offset end up in its register;
* `PageInside`: an ADRP of a page that begins inside the window is copied as is;
* `RefersToAdrp`: ADRP is recorded at its writable address, not at the executable
  one, and a reference to it goes astray.

A prefetch may be dropped, as the code says it does.

`Unsigned` is the conversion to 32 bits, of offsets counted in words: `UintSpan` stands
for 2^30 of them, as small as the spans allow.  `RelocationPlaces` is what is assumed
of the machine: every field tells more than twice as many words apart as a trampoline
has (the shortest, of TBZ, reaches 2^13 words to each side) and no more than 32 bits
do, while ADRP reaches 32 bits of bytes to either side; and the pool of trampolines, in
the module's own memory, is apart from the functions that are hooked, the words and
pages they refer to among them.  Of the compiler it is assumed (`InstructionsAt`) that a reference is within the reach of its
field and that no literal runs into the first instruction of a function (`IsLiteral`).

### Rng

A generator is its sequence of numbers, taken round and round, and the place it
has reached; whoever draws gets the value and the generator behind it.  So the
order and the number of draws are the code's, and two operators that begin with
the same draws agree on them.  A draw is a function of the places a generator may
have reached.  `Until` is a `do ... while` loop, a recursive function that tries once
more for every place there is: where none of those is accepted, none ever is, for
the generator has come round.  `Draws` makes draws one behind the other.
`NewRandomGenerator(name)` is `Generator(hashing[name])`: any hash of
any seed is a function from names to sequences, and `save_file.rng_seed` one
choice of it.  Of mt19937_64 and murmur3 one thing is assumed: that the loops of the
code end (`LoopsEnd` and, in `GameData`, `StatsLoopEnds`).  They say of a generator
that, wherever it has got to, a zero, a Pokémon of the game, a usable move and as
many different usable moves as a set has are still to come, and stats that fit a
byte.  `mt19937_64` has a period of 2^19937 - 1 and takes every 64-bit value in it,
and any 311 of them in a row; a seed for which one of these loops does not end hangs
the game at that point, which no property of these modules speaks of.

### Encounters

Each hook is an action: it takes what the game has just loaded (a constant) and
leaves what the game goes on with in `out`, the record changed last.  `Tables`
are the rows of levels and slots the game fetches, `RandomizeSlots` the two hooks
behind its fetching, and `LiveRandomizeSlotSpawns` the game picking a slot of the
symbol table it fetched.  Members, items and abilities that no property tells
apart are drawn, so that what comes behind them is right, and not kept.

`level_boost` is the function in single precision, cut down to an integer: the
exact sum for every level up to 100 except 60, where it is 106 and not 107.

`constructing` is the game's side of the flag protocol: `LogEncountObject` is a
point in the constructor of an EncountObject, ahead of the PokemonModel it
inherits from, whose constructor holds `RandomizePokemonModels`.  `preloaded` and
`built` are the species and form an object was loaded and built with.
`template_data` is the static buffer in which a gift is built; `Given` follows the
pointer that `RandomizeGiftPokemon` returned.

### GameData

`RandomLearnsetHook` has an array of `Cap` entries (65) of which the first one
that is empty ends it.  `Share` is one stat: `RandDouble` divides integers, so a
weight is 1 or, but for one number of all, 0, and 0/0 goes through `std::max` as 1.
`FilterShopItems` builds its copy in a static buffer and points the game's table
to it.  `replace_tm` goes down `TM_IDENTIFIERS`, each row looking at what the rows
before it have left; a call carries the number of its arguments and the stack
they lie on.  `told` is history: the TM that every place of a gift named.

`OneTMPerGift` excludes the places that are in the table for two gifts
(`SharedPlace`): there the TM drawn for the one may be replaced again for the
other, and the property fails.

### GameHooks

`registered` is what a script was given when it was loaded: the game's natives
and `custom_symbols` up to the first empty one, which `add_new_symbol` keeps last.
A message goes through three hooks of the game's main thread: `MsgHashStore`
keeps its hash, `ValidateMessages` and `PatchInvalidMessageNullptr` let one
through that the game has no text for, and `MsgStringReplace` puts the text in
when the text is copied.  The three are one call of the game's; before and after it
the game copies other strings through the same function, and a hash that was left
would be theirs.  `rows` and `copied` are what came of it.  `Texts` gives the texts a
message may have: one, with its flag as it is, but for that of the seed.  Its text is
put together in a buffer of the stack with no terminator in it, where the digits land
behind the next zero there is, so it is the seed or anything (`SettingsMenu` has the
same window in detail), and `TextsAreTheirOwn` says of it only that it goes to its own
message.  `lookup.orig` is whether `MsgHashStore` went on to the game's function: not
for `custom_messages`, which the code's comment calls problematic, but for the seed's
hash, which is not among them: `TextsAreTheirOwn` excludes it by name.  `buttons` and
`fresh` are the controller as it was last polled, `should_skip` what
`detect_b_held` made of it, and the waits, cut scenes and camera moves ask for it
between two polls.

### Encoders and LiveCode

A word is the set of its bits; `SetBits` clears and sets a field, and the operators
set their fields in the order of the constructors, overlaps included.  `Decode` in
`LiveCode` reads the operands back as the architecture has them, not as the
encoders do: `PatchesDecode` compares the two.

`LiveCode` begins with `exl_init` and `exl_main`: the handle, the mapping of the
main module, the two pools.  Each of `HookNext`'s steps is one of the code's:
an entry, a trampoline, its words, the words over the function, the flushes, the
entry's own words.  A thread of the target then calls functions: `Execute`
interprets one word, `InlineHookImpl` and `InlineHookReturn` are the assembly
stubs, `CallbackNext` the compiled callbacks.  A word whose cache line was not
dropped after it was written is in `stale`.  Which registers a callback may
change is the calling convention; `want` is what the function would have found.
How a moved instruction that depends on its place is rewritten is `Relocation`'s
subject and abstracted here.

`Interposition` is what it promises: a call runs, at each instruction, the
callbacks installed there, newest first, and then the instruction, once.  The
refinement maps `installed`, the function that runs and the log of the call.

### Mappings and ProcHandle

`virtmemFindAslr` is a choice of any free place it could return, and failure if
there is none or its attempts were unlucky.  The kernel's answers (`Kernel`) are
those of a current one; the branches for old kernels are there.  `window` is
which page shows which; a claim is a start, an address to write at, a size and a
reservation.  Caches are taken to be physically tagged, as those of the console
are: `RwPages::Flush` invalidates by the writable address.

`ProcHandle` has the two threads of `GetViaIpcTrick`, a kernel call a step, with
the session's two ends, the message and the stack that goes when the first
thread returns.

### MemLayout, Loader, Abort, StartUp

An address space is a sequence of ranges, each of a kind; `FindModules` is the
walk's state machine, a range a step, with its resets and, behind the loop, the move
of the last module to the place of the SDK.

A file is its dynamic section, relocations, symbols and words.  `Initialized`
reads the tags, `Relocated` and `Resolved` fill the slots in the order of the
code, with and without lazy binding; `CallThrough`, `LazyBind`, `StoreSlot` and
`Jumped` are one call through an unbound slot, on each of two threads, with the
store of `dl_trampoline.s` as a step of its own.  `ApplyTable` overrides slots of
the own module from the table of the own version: sorted when compiled, searched
by `LowerBound`.  What all this promises is said once more without its steps
(`Promised`, `Bound`), and `NamesBound` compares.

`Abort` is a failed check on any thread.  All that is reached of `assert.cpp` hands
`AbortWithCtx` the value 0 (the overload of `AbortImpl` with a result is called by
nobody), and it stores to 0x69696969_00000000, where no process can map anything: the
kernel ends it.  The reboot into a payload (`reboot_to_payload.cpp`, `smc.c`) is not
modelled, for no build has it: `EXL_SUPPORTS_REBOOTPAYLOAD` is in a comment in
`setting.hpp`, and the file names a member, a constant and an include that do not exist.
`StartUp` strings them together; `FailedCheck` is any `R_ABORT_UNLESS` or
`EXL_ASSERT` on the way.  `s_InitializeSucceeded` is not kept, for nobody reads it.

## The runs

| run | instance | shows |
|---|---|---|
| `save_file` | u64 of two bits, seed 2 and zone 3 (both negative as s64), one flag pair, one failing call | `OptionsMasked`; `DiskIsLastSave`; `RestartRestores`; `HealthySaveCompletes`; refinement of `ConfigStore` |
| `settings_menu` | all five pages, both lists of digits, two digits in a seed of four bits, two flags away from their defaults | `PickTogglesWhatItShows`, `SeedIsWhatWasTyped`, `FrozenOnceClosed` |
| `permadeath` | four Pokémon, parties of up to four, any number of battles | `PartyWhole`, `OrderKept`, `NoFaintedLeft`, `OnlyTheFaintedGo` |
| `permadeath_full_party` | six Pokémon | **violated**: removal from a full party |
| `route_restriction` | two zones, two spawners in one of them, one unmapped object, both values of `enabled` | `OneEncounterPerZone`, `FieldIsFiltered`, `WonZonesAreConsumed` |
| `evolution` | six species, three slots, all three trades, every setting | `EvolutionsReplaced`, `TradesReplaced`, `SlotsEnd` |
| `relocation` | windows of one, four and five instructions, six placements | `OriginalKept`, `TrampolineWhole` |
| `encounters` | 35 settings, two seeds, tables of two rows and two slots, a team of four in a buffer of five, two gifts and one event with their models | `TablesFollowTheSeed`, `SpawnsBoostedOnce`, `OutcomeWhole`, `ModelsRight` |
| `game_data` | learnsets up to an array of six entries, three species (one of them Shedinja), three shops, three gifts of which two share a place | `RecordsUsable`, `OneTMPerGift` |
| `game_hooks` | the dialog's script and one of the game's, messages of every kind, cut scenes of every kind, a level cap of 60 | `TextsAreTheirOwn`, `NativesFound`, `SkipsWhileHeld` |
| `live_code` | pages of 48 words, a function near the module's code and one out of a branch's reach, two hooks of any of five callbacks at any of three places, then a patch of any of 279 instructions or two of branches; a pool with room for one trampoline | `HandshakeDone`, `CodeIsFresh`, `WritesInPlace`, `ContextKept`, `PatchesDecode`, `CallsReturn`; refinement of `Interposition` |
| `boot` | six to fourteen modules with all that may lie between them, four files that ask for every kind of name, two versions, no table or two, two threads that call and abort | `ProgramFound`, `NamesBound`, `StartsOrStops` |

Bounds and why they are enough:

* `Half`: two bits suffice for a positive, a negative and the extreme s64, and for
  a typed digit that wraps; the proofs are for every `Half`.
* `MaxFaults = 1`: one failing call reaches every early return; the handle it may
  leave open stays open for the rest of the session, so the saves after it are
  explored too.
* `MaxFlips = 2`: a toggle touches a master and at most two options; pages and
  responses are all explored from every such setting.
* `SeedDigits = 2` with four bits wraps as twenty digits with 64 bits do.
* `MaxParty = 4`: a lead, a removal in the middle, one behind it and one more; a
  party of five gives the same results.  Six is a run of its own.
* `MaxWins = 2`: one more than the property allows.
* `LastSlot = 2`: a first slot, an empty one and one behind it; the proofs are for
  any number.
* `BranchSpan` to `PageSpan` from 256 to 8: the placements put the trampoline within
  reach of every field, of the longest only, and of none; `Offsets` are a place
  before the window, its first instruction, a later one, the one at its end and
  one behind it.
* `MaxMixed = 2`: the rewriting of one instruction depends on the others through
  the number of words ahead of it and through a reference to one of them, which
  two show; five alike give the longest trampolines.
* `SpeciesMax = 3`, four forms of which one is not in the game, `MoveMax = 4` with
  one move that cannot be used, sets of two moves: every loop draws in vain at
  least once.  The sequences of numbers let every loop end, as the code's do with
  probability 1.
* two rows of two slots: the first and a later slot of the first and a later row;
  levels at and around 60, where the boost leaves the range of a level.
* `Cap = 6`: learnsets with room for all, some and none of the moves that are
  added, and a full one.
* `NumberMax = 27`: stands for the largest 64-bit number, which must be drawn for a
  weight to be 1; 27 is also where the old TM of one gift is in the table, so that it
  is drawn for another at a place they share.  `GameData` is checked with the tables
  of items of the game (`Items`), in which no TM may be held.

* `PageWords = 48`, `LineWords = 8`: a trampoline and an entry fit a page and do not
  begin at lines; the pool has room for one trampoline, and the second is the one
  the code admits behind it.
* `MaxHooks = 2`: two hooks on one instruction, beside each other and on two
  functions; `MaxPatches = 2`: one behind another and one over another.  The
  patched instructions have their operands at both ends of each field.
* `Threads`, `Aborters`: two, one that is late; of `NamesBound` the proof is for any
  number.

Properties that were one each are joined where one action disturbs them together:
`PartyWhole`, `TrampolineWhole`, `OutcomeWhole`, `ModelsRight`, `RecordsUsable`,
`WritesInPlace`, `NamesBound` and `ProgramFound` are conjunctions of named parts.

Four systems may stop (`CHECK_DEADLOCK FALSE`): the settings dialog, closed and
with the scene reloaded; the relocation, which ends; live code, where a mapping
that finds no space aborts; and start-up, after an abort.

Fairness: `SaveFile` assumes weak fairness of the writer's next call, and
nothing else.  `SaveSaveFile` is an inline hook in the game's own save, so while
the power is on the thread that saves goes on.  `Evolution` assumes that its loop
goes on (weak fairness of `StartSlot`) and that a generator with a period as long
as this one draws every species again and again (strong fairness of each `Draw`:
a candidate drawn in vain for one slot must still come up for the next).  
`LiveCode` assumes that the processor goes on (weak fairness of `CpuNext`), and
not that anybody hooks or calls.  `StartUp` assumes that the thread that starts the
process goes on, and so does whoever aborts; no call of the program is assumed.
In `GameHooks` a script that waits asks again every frame (weak fairness of
`WaitEnds`).  The other specifications assume none and state no liveness.

## What is proved

For every value of the constants, from the named assumptions on them:

* `SaveFile_proofs`: `RoundTrip`, `from_table` reads back exactly what `to_table`
  wrote (the casts are inverse to each other on their ranges, and the blacklist
  is the image of an image); `ToggleMasks`, a toggle keeps every option under its
  master (no option is the master of another, so un-masking one cannot break a
  second pair); types; `OptionsMasked`; `DiskIsLastSave`; `RestartRestores`;
  and `Spec => ImplementsConfigStore`.  `DiskIsLastSave` is not inductive: it does
  not know what is about to be written.  The inductive invariant adds
  `WriterHasText` (the text in flight is the table of `pending`) and
  `IntactIsNotWriting` (until the write succeeds, the last save does not count as
  intact); for the masks, `MaskedText` follows the flags through the text.
  On `SettingsMenu`: `SeedIsWhatWasTyped`, `PickTogglesWhatItShows` and
  `FrozenOnceClosed`, for any width of the seed and any number of digits.  The seed is
  followed through `WrapsAlike` (a digit appended to a remainder leaves the remainder of
  the longer number) and `TypingANumber` (digits are added only behind
  `NewSeedOption`); the tables of pages, responses, cases and texts are compared item
  by item.
* `Nuzlocke_proofs` on `RouteRestriction`: types, `OneEncounterPerZone`,
  `FieldIsFiltered`, `WonZonesAreConsumed`.  None of the three is inductive alone.  The link is
  `BattleZoneIsOpen`: during a battle with an object of the field,
  `encounter_zone_hash` is that object's zone and nothing has been won in it yet.
  It holds when the battle begins because the field is filtered and the
  blacklist holds every zone an encounter was won in, and it is what the result
  needs; `StoredOncePerZone` carries the bound over a restart.
* `Rng_proofs`: what each draw gives.  `UntilFinds` is the fact below all of them: a loop
  that has an accepted draw ahead of it ends with an accepted one, the draw of a place of
  its generator; it is an induction over the tries (`StepsExist`, `StepsStay`) with the
  invariant that what is not yet accepted is the draw of the next place.  `DrawsInTurn`
  says where a generator is at the k-th of several draws.  On these rest `RandMaxDraws`
  (below its maximum: a zero is ahead), `RandSpeciesAndFormDraws` (in the game),
  `RandValidMoveIdDraws` (usable), `RandHeldItemDraws`, `RandTMDraws` and
  `RandMovesDraws`: as many usable moves as a set has, no two alike, because the k-th
  loop has more different moves ahead of it than the k - 1 it must not draw
  (`NotAllDrawn`).
* `GameData_proofs`: `RecordsUsable` and `OneTMPerGift`, for any tables of the game, any
  array, any script calls and any generators that let the loops end.  Each hook leaves its record
  in one step, so `RecordsUsable` is proved hook by hook: `LearnsetIsWhole` counts the
  moves at level 1 that were there and those that are added (`AddedMakesFour`);
  `StatsArePositive` and `UntilFinds` put each stat between 1 and 255;
  `WhitelistedIs`, by induction over a shop's items, says that filtering keeps just the
  balls; `OnlyTMs`, by induction over the table's rows, that a call changes only
  arguments it has, and only to TMs.  `OneTMPerGift` needs `ToldInv`, that what a script
  was told of is its gift's own TM: `GiftNamed` follows one argument down the table,
  where it is the old TM or the gift's, and from the gift's row on the gift's.
  The table has to look for one item under one identifier, as that of `gift_tms.hpp`
  does (`GameDataConstants`), and a call may pass no more arguments than its stack has.
  On `Evolution`: types, `EvolutionsReplaced`, `TradesReplaced`, for any number
  of slots and species.  Both speak of the moment the hook returns; the inductive
  invariant is the loop's: `SlotLoop` (slots behind `i` are done, those ahead are as
  loaded, and the one being drawn has lost its trade already), `FirstSlotLoop` for
  `each_level`, and `Done` for what the loops leave.

* `Encounters_proofs`: `ModelsWereLoaded` and `ModelsMatch`, together
  `ModelsRight`, and `SpawnsBoostedOnce`.  The
  first needs `FlagInv` (with models randomized, the flag is up exactly while an
  encounter is under construction) and `ModelInv` (what an object was loaded with
  and built with is `Shown`, which depends on nothing that changes); the second
  adds `OutInv`, that what was given or fought is the first Pokémon of its seed's
  generator.  The draws stay unexpanded: it is enough that both sides make the
  same ones.  `SpawnsBoostedOnce` follows from what a fetched table holds and from
  a boosted level fitting the byte it is stored in (`BoostFits`).
  `TablesFollowTheSeed`, for any number of rows and slots, says that two loops, one in
  the other, draw what one loop would: `RunGoes` unfolds a loop of draws, `RowDraws`
  counts how far the generator is when a row begins, and `SlotsAreFirst` compares.  The
  inductions over the number of draws rest on `Induct`, which is proved from the
  library's theorem that finite sets are well-founded under strict inclusion.
  `OutcomeWhole` adds to the types what a team has become: `MemberWhole` for one member
  and `TeamDrawn` for the loop over all of them, each going on where the generator was
  left.
* `GameHooks_proofs`: `NativesFound`, for any scripts and any natives the game has, from
  what `add_new_symbol` does to the array when the module's natives are added one behind
  the other; and `TextsAreTheirOwn`, for any messages, strings and scripts.  It needs `Looking`: which hash may be waiting in `last_hash`, at each point of a
  lookup, and that it is cleared or replaced before a string that is not its own.
  Whatever the seed's buffer holds, it is copied for that message alone.
  And, of `Relocation`, `TrampolineWhole`, for any spans of the fields, any page size,
  any function and trampoline and any instructions (`RelocationConstants`).  Its
  inductive invariant `MovedInv` counts: each instruction takes at most nine words (three
  no-ops, a load of a vector, a branch, four words of literal), the jump at the end five,
  which makes just fifty for five instructions.  The rest says which words may still
  change: those in `fmap` are relative references (`WordsWait`), so that completing them
  never moves or turns into something else a word that loads (`FixMapKeeps`), and a chunk
  of words aligned where it was made is aligned where it is put (`PutBehind`).  There is
  one lemma for each `__fix_` function.
  `OriginalKept`, on the same grounds and for any program apart from its trampolines
  (`RelocationPlaces`), is proved in two halves.  The first is about what is written.
  `OriginalKept` says nothing before the last word is there, so its invariant
  `KeptInv` describes the trampoline on the way: the words of the instructions follow
  each other (`BlocksFollow`); each block is no-ops up to the word it is entered at and
  from there one of nine forms (`Formed`), which say how far from where it is; a word
  that refers to a moved instruction has its place or is still waiting for it
  (`Linked`), and no other word waits (`OnlyReferrersWait`).  Again one lemma for each
  `__fix_` function (`BranchKept` to `AdrpKept`): it writes one of the forms, and the
  words it completes were `Linked` to it.  The second half is about what the words do
  once they are all there: `PlaceOf` and `Inside` say which places of the trampoline
  stand for an instruction, `Outside` and `Apart` that the places of the program stand
  for themselves, `Recorded` that the table of places tells the truth; each form then
  does what its instruction did (`JumpRight`, `CallRight`, `SkipRight`, ...).  The five
  exceptions that `Deviates` names are needed just there: `ReadRight` needs that the
  offset is not negative (`ReadForward`, `ReadPages`: then the 32 unsigned bits are the
  offset), `NearPlace` that the label is on a word and that the
  instruction referred to is no ADRP, `LoadRight` that the literal is ahead.
* `LiveCode_proofs`: `HandshakeDone`, by going through the places the two threads of the
  handshake can be at together; and `CodeIsFresh` and `WritesInPlace`, for any layout of
  the process, any functions, hooks, patches and pools that lie in mapped code
  (`LiveCodeConstants`).  The inductive invariant `CodeInv` has what the mappings are
  (`MapInv`: every page of a claim shows the page of the process it was made for, claims
  do not overlap each other and keep out of the heap and the alias region, and the list of
  reservations is theirs), what each claim of start-up is for (`StartClaims`), where an
  installation under way may write (`Job`) and what a patcher has written since it last
  dropped it from the caches (`PatcherInv`).
* `StartUp_proofs`: `ProgramFound`, for any address space (`AddressSpace`) with a linker,
  a program and an SDK and any number of modules between them.  `LayoutInv` says what the
  walk has found when it has come to a range (`FoundUpTo`), what its state says of the
  last two ranges (`HalfModule`) and that what `InitPatcherImpl` maps is the second
  module.  The proof needs, and `AddressSpace` states, that no text comes directly behind
  another text or behind a text with its rodata: `FindModules` would take the second one
  for the missing half of the first, reset itself, and pass over a module.
  `NamesBound`, for any number of modules and threads, any order of linking and any
  files that `FileAssumption` allows.  The inductive invariant `NamesInv` says of each
  module, for each pass it has been through, what its words hold (`WordsRelocated`,
  `WordsNamed`), of its object what the tags say, of its linkage table that the stub is
  every slot's and that `got[1]` is its own module (`StubsReady`); that no name is
  asked for before every module is relocated; and of each call under way that what is
  stored is `Bound`.  The lemmas compare the searches with what is promised:
  `LookedUp`, that the list read from its back ends with the module that comes last
  in it; `TargetsDenoted`, that a symbol found in its bucket is the definition;
  `RanksOfTable` and `SortedWell`, that sorting keeps the entries; `FoundByHash`, that
  the lower bound is the entry; `EntryFound`, that it is the entry of the name.
  `FileAssumption` has what the code relies on and does not check: one relocation for a
  word, relative ones first and counted, no slot in the two words the linker takes for
  itself, one definition of a name in a module; a linker that asks for no names itself;
  in this module addends beside the relocations (`reloc` adds nothing to a word of
  DT_REL, where the linker adds what is there) and no two names with one hash, of which
  one is in a table.
* `Nuzlocke_proofs` on `Permadeath`: `PartyWhole`, `NoFaintedLeft`, `OrderKept`, `OnlyTheFaintedGo`,
  for any Pokémon and any party below six (`NeverFull`: in a party of six the first is
  false, as `permadeath_full_party` shows).  `RanksInOrder` is the fact behind
  `RestorePartyOrderPatch`: counting, for each number of a finite set, those below
  it takes the set to 0 .. n-1 in its order; it is an injection between finite sets
  of one size, so no induction is needed.  The invariant adds `OrderRemembered`: in a
  battle the remembered indices are those of the start, no two alike, and the game
  remembers no fewer members than are left.

Only model-checked: liveness (`HealthySaveCompletes`, `SlotsEnd`, `CallsReturn`,
`StartsOrStops`, `SkipsWhileHeld`) and the refinement of `Interposition`; of live code
`ContextKept` and `PatchesDecode` (their meaning goes bit by bit, and the encoders fold
over the fields of a word).

## What the code does otherwise

`permadeath_full_party` is a run that must find its property violated.  The other
disagreements between the code and its documents or itself are listed in
`PROJECT.json` under `findings`, with the lines.  Those that a property would meet
are excluded from it by name (`Deviates` in `Relocation`, `SharedPlace` in `GameData`)
or stated as the code has them (trades for a certain Pokémon, the float context of
an inline hook, the loss of a file when the power goes inside `WriteFile`, the text
of the seed window in an uninitialised buffer).

## What is not modelled

The stream of mt19937_64, hashes and string formatting; the contents of most of the
game's tables, symbols, offsets and structures; the null check `PatchNullPtrDeref`;
logging; pointer paths and stack walks, which nobody uses; `OrrImmediate`, which is
commented out of the encoders ("TODO: make this work well..."), and the reboot into a
payload, which no build contains; moving an `RwPages`, which
nobody does; the effects of module initialisers; hand-edited save files (a file
with a missing key makes `from_table` dereference a null pointer); several users of
the console.  Headers of the system library are declarations only.
`PROJECT.json` gives the reason for each part.

Most of what the map leaves out of the sources are tables (`symbols.hpp`, zones and
gift scripts), declarations of kernel calls (`svc.h`) and
generated constants: data the models take as constants.

## What could follow

A composition of `Relocation` with `LiveCode`, in which moved instructions are
rewritten and not abstracted.
