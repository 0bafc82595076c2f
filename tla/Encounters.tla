----------------------------- MODULE Encounters -----------------------------
(***************************************************************************)
(* The hooks that decide which Pokemon the player meets, under             *)
(* source/program/patches: wild_pokemon.hpp, trainer_poke.hpp, gifts.hpp,  *)
(* event_encounters.hpp, and pokemon_models.hpp, which has to show in the  *)
(* field what two of the others will hand out.  They share nothing but the *)
(* settings and the seed: each makes a generator of its own from the seed  *)
(* and a name, so that two consoles with one seed agree whatever was done  *)
(* before.  The game's side is its data before the hook, a constant.       *)
(***************************************************************************)
EXTENDS Rng, FiniteSets, Levels

CONSTANTS
  Settings,             \* the settings to start from
  Hashings,             \* what rng_seed makes of a name: functions from Names to numbers
  Numbers,              \* the sequences a generator that is seeded by the clock may have
  Areas, Spawners, Weathers, Trainers, Gifts, Events, Objects, Encounter,
  Tables,               \* [kind][area]: the rows of levels and of slots the game fetches
  RowSlots,             \* 10
  GimmickLevel,
  Teams,                \* from a trainer's file to its size and the buffer's members
  GiftMon, EventMon,    \* what the game itself would hand out
  Look,                 \* from an object to the species and form it shows in the game
  hash_seed_map,        \* from objects to the gift or event they stand for
  starters,
  None

\* Names that seed a generator; the last two are both plain 64-bit integers in the code.
Names == { <<kind, a>> : kind \in {"symbol", "hidden"}, a \in Areas }
         \cup { <<"gimmick", s, w>> : s \in Spawners, w \in Weathers }
         \cup { <<"trainer", t>> : t \in Trainers }
         \cup { <<"integer", h>> : h \in Gifts \cup Events }
         \cup { <<"integer", Look[o]>> : o \in DOMAIN Look }

\* A row of a table: no Pokemon of the game is beyond level 100.
Rows == [minimum_level : 0 .. 100, maximum_level : 0 .. 100, mons : [1 .. RowSlots -> InGame]]

\* A member of a team that is not one has no Pokemon, and its moves are kept.
Members == [level : 0 .. 255, mon : InGame \cup {None}, moves : {None}]

Options == { s \in [wild : BOOLEAN, live : BOOLEAN, wild_boost : BOOLEAN, trainer : BOOLEAN,
                    trainer_boost : BOOLEAN, scripted : BOOLEAN, gift : BOOLEAN,
                    model : BOOLEAN, hide_starters : BOOLEAN] :
               (s.live => s.wild) /\ (s.hide_starters => s.model) }

ASSUME EncounterConstants ==
  /\ Settings \subseteq Options /\ RowSlots \in Nat
  /\ \A h \in Hashings : DOMAIN h = Names /\ \A name \in Names : LoopsEnd(h[name])
  /\ \A n \in Numbers : LoopsEnd(n)
  /\ \A a \in Areas : Tables["symbol"][a] \in Seq(Rows) /\ Tables["hidden"][a] \in Seq(Rows)
  /\ \A t \in Trainers : /\ Teams[t].members \in Seq(Members)
                         /\ Teams[t].size \in 0 .. Len(Teams[t].members)
  /\ None \notin InGame /\ Encounter \notin Objects
  /\ \A h \in Gifts : GiftMon[h] \in InGame
  /\ \A o \in DOMAIN Look : Look[o] \in InGame
  /\ DOMAIN Look = Objects \cup {Encounter}
  /\ DOMAIN hash_seed_map \subseteq Objects /\ starters \subseteq DOMAIN hash_seed_map
  /\ \A o \in DOMAIN hash_seed_map : hash_seed_map[o] \in Gifts \cup Events

VARIABLES
  save_file,          \* the settings, fixed once their menu is closed
  hashing,            \* rng_seed
  out,                \* the record of the game that a hook changed last
  template_data,      \* the gift that RandomizeGiftPokemon has built
  is_encount_object,
  constructing,       \* whether an EncountObject is under construction
  preloaded, built    \* by object: the model loaded ahead, and the one shown

vars == <<save_file, hashing, out, template_data, is_encount_object, constructing,
          preloaded, built>>
models == <<is_encount_object, constructing, preloaded, built>>
settings == <<save_file, hashing>>

NewRandomGenerator(name) == Generator(hashing[name])

Init ==
  /\ save_file \in Settings /\ hashing \in Hashings
  /\ out = [kind |-> "nothing"] /\ template_data = None
  /\ is_encount_object = FALSE /\ constructing = FALSE
  /\ preloaded = [o \in Objects |-> None]
  /\ built = [o \in Objects \cup {Encounter} |-> None]

-----------------------------------------------------------------------------
(* util.hpp and wild_pokemon.hpp *)

BoostByte(level, on) == IF on THEN level_boost(level) % 256 ELSE level

\* number Pokemon, one behind the other.
DrawMons(g, number) ==
  Draws(g, [k \in 1 .. number |-> [h \in Places(g) |-> RandSpeciesAndForm(h)]])

\* A generator for every row.
DrawSlotsAnew(g, rows) == [r \in DOMAIN rows |-> DrawMons(g, Len(rows[r].mons)).val]

\* The rows' slots, one behind the other from one generator.
DrawSlots(g, rows) ==
  Draws(g, [r \in DOMAIN rows |->
              [h \in Places(g) |-> DrawMons(h, Len(rows[r].mons))]]).val

Randomized(rows, mons) == [r \in DOMAIN rows |-> [rows[r] EXCEPT !.mons = mons[r]]]
Boosted(rows, on) ==
  [r \in DOMAIN rows |-> [rows[r] EXCEPT !.minimum_level = BoostByte(@, on),
                                         !.maximum_level = BoostByte(@, on)]]

HiddenSlots(a, rows) ==
  IF ~ save_file.wild THEN rows
  ELSE Boosted(Randomized(rows, DrawSlots(NewRandomGenerator(<<"hidden", a>>), rows)),
               save_file.wild_boost)

\* Boosts the table as well where every spawn is boosted.
SymbolSlotsAlways(a, rows) ==
  Boosted(IF save_file.live \/ ~ save_file.wild THEN rows
          ELSE Randomized(rows, DrawSlots(NewRandomGenerator(<<"symbol", a>>), rows)),
          save_file.wild_boost)

SymbolSlots(a, rows) ==
  IF save_file.live THEN rows
  ELSE Boosted(IF ~ save_file.wild THEN rows
               ELSE Randomized(rows, DrawSlots(NewRandomGenerator(<<"symbol", a>>), rows)),
               save_file.wild_boost)

RandomizeSlots(kind, a) ==
  /\ out' = [kind |-> kind, area |-> a,
             rows |-> LET rows == Tables[kind][a] IN
                      IF kind = "hidden" THEN HiddenSlots(a, rows) ELSE SymbolSlots(a, rows)]
  /\ UNCHANGED <<template_data, models, settings>>

\* The game picks a slot of the table it has just fetched; a live spawn overwrites it.
LiveRandomizeSlotSpawns(r, k, g) ==
  /\ out.kind = "symbol" /\ r \in DOMAIN out.rows /\ k \in DOMAIN out.rows[r].mons
  /\ LET row == out.rows[r]
         on  == save_file.live /\ save_file.wild_boost
     IN  out' = [kind |-> "spawn", area |-> out.area, row |-> r,
                 mon |-> IF save_file.live THEN RandSpeciesAndForm(g).val ELSE row.mons[k],
                 minimum_level |-> IF on THEN level_boost(row.minimum_level)
                                   ELSE row.minimum_level,
                 maximum_level |-> IF on THEN level_boost(row.maximum_level)
                                   ELSE row.maximum_level]
  /\ UNCHANGED <<template_data, models, settings>>

Drawn(g) ==    \* a gimmick's draws in their order
  LET mon == RandSpeciesAndForm(g)  ability == RandMax(mon.gen, 3)
      item == RandHeldItem(ability.gen)
  IN  [mon |-> mon.val, ability |-> ability.val, item |-> item.val,
       moves |-> RandMoves(item.gen).val]

RandomizeGimmickSpec(s, w, clock) ==
  /\ LET g == IF save_file.live THEN clock ELSE NewRandomGenerator(<<"gimmick", s, w>>)
     IN  out' = [kind |-> "gimmick",
                 level |-> BoostByte(GimmickLevel, save_file.wild /\ save_file.wild_boost),
                 spec |-> IF save_file.wild THEN Drawn(g) ELSE None]
  /\ UNCHANGED <<template_data, models, settings>>

-----------------------------------------------------------------------------
(* trainer_poke.hpp *)

Playable(member) == member.level \in 1 .. 100 /\ member.mon # None

Raised(member) ==
  [member EXCEPT !.level = IF save_file.trainer_boost THEN level_boost(@) ELSE @]

RandomMember(g, member) ==
  LET mon == RandSpeciesAndForm(g)
      gender == RandMax(mon.gen, 2)       ability == RandMax(gender.gen, 3)
      item == RandHeldItem(ability.gen)   moves == RandMoves(item.gen)
      shiny == RandChance(moves.gen, 4096)
  IN  [val |-> [member EXCEPT !.mon = mon.val, !.moves = moves.val], gen |-> shiny.gen]

\* Whether a level is in range, asked after it was raised.
MemberRaisedFirst(g, member) ==
  IF ~ Playable(Raised(member)) THEN [val |-> Raised(member), gen |-> g]
  ELSE IF save_file.trainer THEN RandomMember(g, Raised(member))
  ELSE [val |-> Raised(member), gen |-> g]

\* A member that is not one costs the generator nothing.
Member(g, member) ==
  IF ~ Playable(member) THEN [val |-> member, gen |-> g]
  ELSE IF save_file.trainer THEN RandomMember(g, Raised(member))
  ELSE [val |-> Raised(member), gen |-> g]

team_size(t) == Teams[t].size

\* The game copies more than the file holds; the hook stops at its end.
RandomPokeData(t) ==
  /\ LET members == Teams[t].members
         g == NewRandomGenerator(<<"trainer", t>>)
         done == Draws(g, [k \in 1 .. team_size(t) |->
                             [h \in Places(g) |-> Member(h, members[k])]]).val
     IN  out' = [kind |-> "team", trainer |-> t,
                 members |-> [k \in DOMAIN members |->
                                IF k <= team_size(t) THEN done[k] ELSE members[k]]]
  /\ UNCHANGED <<template_data, models, settings>>

-----------------------------------------------------------------------------
(* gifts.hpp and event_encounters.hpp *)

GiftSpecies(g) == RandSpeciesAndForm(g).val

RandomizeGiftPokemon(h) ==
  /\ template_data' = IF save_file.gift
                      THEN GiftSpecies(NewRandomGenerator(<<"integer", h>>))
                      ELSE template_data
  /\ out' = [kind |-> "gift", hash |-> h,
             at |-> IF save_file.gift THEN "template_data" ELSE "archive"]
  /\ UNCHANGED <<models, settings>>

RandomizeEventEncounters(h) ==
  /\ LET mon == RandSpeciesAndForm(NewRandomGenerator(<<"integer", h>>))
     IN  out' = [kind |-> "event", hash |-> h,
                 mon |-> IF save_file.scripted THEN mon.val ELSE EventMon[h],
                 moves |-> IF save_file.scripted THEN RandMoves(mon.gen).val ELSE None]
  /\ UNCHANGED <<template_data, models, settings>>

\* What the pointer that was returned leads to.
Given == IF out.at = "archive" THEN GiftMon[out.hash] ELSE template_data

-----------------------------------------------------------------------------
(* pokemon_models.hpp *)

replace_species_form(o) ==
  LET seed == IF o \in DOMAIN hash_seed_map THEN hash_seed_map[o] ELSE Look[o]
  IN  IF save_file.hide_starters /\ o \in starters THEN <<0, 0>>
      ELSE RandSpeciesAndForm(NewRandomGenerator(<<"integer", seed>>)).val

RandomizePokemonModelsOnLoad(o) ==
  /\ preloaded' = [preloaded EXCEPT ![o] = IF save_file.model THEN replace_species_form(o)
                                           ELSE Look[o]]
  /\ UNCHANGED <<out, template_data, is_encount_object, constructing, built, settings>>

\* The constructor of an EncountObject, before it comes to the one it inherits from.
LogEncountObject ==
  /\ ~ constructing
  /\ constructing' = TRUE /\ is_encount_object' = TRUE
  /\ UNCHANGED <<out, template_data, preloaded, built, settings>>

\* The flag, where it is never taken down.
FlagKept == is_encount_object
FlagLeft == is_encount_object /\ ~ save_file.model

\* The game builds what it has loaded, and encounters at any time.
RandomizePokemonModels(o) ==
  /\ IF o = Encounter THEN constructing ELSE ~ constructing /\ preloaded[o] # None
  /\ constructing' = FALSE
  /\ is_encount_object' = FlagLeft
  /\ built' = [built EXCEPT ![o] = IF save_file.model /\ ~ is_encount_object
                                   THEN replace_species_form(o) ELSE Look[o]]
  /\ UNCHANGED <<out, template_data, preloaded, settings>>

Next ==
  \/ \E kind \in {"symbol", "hidden"}, a \in Areas : RandomizeSlots(kind, a)
  \/ \E n \in Numbers : \E r, k \in 1 .. 11 : LiveRandomizeSlotSpawns(r, k, Generator(n))
  \/ \E s \in Spawners, w \in Weathers, n \in Numbers :
       RandomizeGimmickSpec(s, w, Generator(n))
  \/ \E t \in Trainers : RandomPokeData(t)
  \/ \E h \in Gifts : RandomizeGiftPokemon(h)
  \/ \E h \in Events : RandomizeEventEncounters(h)
  \/ \E o \in Objects : RandomizePokemonModelsOnLoad(o)
  \/ LogEncountObject
  \/ \E o \in Objects \cup {Encounter} : RandomizePokemonModels(o)

Spec == Init /\ [][Next]_vars

-----------------------------------------------------------------------------
Mons == InGame \cup {<<0, 0>>}

TypeOK ==
  /\ save_file \in Settings /\ hashing \in Hashings
  /\ template_data \in InGame \cup {None}
  /\ is_encount_object \in BOOLEAN /\ constructing \in BOOLEAN
  /\ preloaded \in [Objects -> Mons \cup {None}]
  /\ built \in [Objects \cup {Encounter} -> Mons \cup {None}]
  /\ out.kind \in {"nothing", "symbol", "hidden", "spawn", "gimmick", "team", "gift", "event"}
  /\ out.kind = "spawn" => out.mon \in InGame
  /\ out.kind = "gift" => Given \in InGame

\* The number-th Pokemon of a generator that draws nothing else.
Nth(g, number) == DrawMons(g, number).val[number]

\* README: the RNG seed is for synchronizing runs.  The Pokemon of a randomized table are
\* the first ones of its area's generator, slot by slot through all rows, whatever the
\* levels and the other settings and whatever was asked before.
TablesFollowTheSeed ==
  out.kind \in {"symbol", "hidden"} /\ save_file.wild /\ (out.kind = "symbol" => ~ save_file.live) =>
    \A r \in DOMAIN out.rows : \A k \in DOMAIN out.rows[r].mons :
      out.rows[r].mons[k] = Nth(NewRandomGenerator(<<out.kind, out.area>>),
                                (r - 1) * RowSlots + k)

\* README: level boost for wild encounters, by 0.02x^2+0.5x+5.  One that spawns in the open
\* is raised by it once, in its table or as it spawns, and only with the option.
SpawnsBoostedOnce ==
  out.kind = "spawn" =>
    LET row == Tables["symbol"][out.area][out.row]
        once(level) == IF save_file.wild_boost THEN level_boost(level) ELSE level
    IN  /\ out.minimum_level = once(row.minimum_level)
        /\ out.maximum_level = once(row.maximum_level)

\* README: randomized trainer teams, and a level boost of their own.  With either option
\* every member of the team gets what the option promises, with moves that differ, and
\* what lies behind the team in the game's buffer is left as it was.
TeamsWhole ==
  out.kind = "team" =>
    LET before == Teams[out.trainer] IN
    \A k \in DOMAIN out.members :
      LET old == before.members[k]  new == out.members[k] IN
      IF k > before.size \/ ~ Playable(old) THEN new = old
      ELSE /\ new.level = IF save_file.trainer_boost THEN level_boost(old.level) ELSE old.level
           /\ IF save_file.trainer
              THEN new.mon \in InGame /\ Cardinality({ new.moves[i] : i \in 1 .. MoveSlots }) = MoveSlots
              ELSE new.mon = old.mon /\ new.moves = old.moves

\* README: starters and scripted encounters will match the species they are randomized to
\* be.  A model in the field shows the Pokemon the player gets or fights there.
ModelsMatch ==
  \A o \in DOMAIN hash_seed_map :
    save_file.model /\ built[o] # None /\ ~ (save_file.hide_starters /\ o \in starters) =>
      /\ out.kind = "gift" /\ out.hash = hash_seed_map[o] /\ save_file.gift => built[o] = Given
      /\ out.kind = "event" /\ out.hash = hash_seed_map[o] /\ save_file.scripted =>
           built[o] = out.mon

\* pokemon_models.hpp: models that are not loaded ahead hang the game.  Every object shows
\* the model that was loaded for it, and an encounter keeps the one it was made with.
ModelsWereLoaded ==
  /\ \A o \in Objects : built[o] # None => built[o] = preloaded[o]
  /\ built[Encounter] # None => built[Encounter] = Look[Encounter]

\* What stands in the field is what was loaded for it and what the player will get.
ModelsRight == ModelsMatch /\ ModelsWereLoaded

\* What a hook hands back is of its kind, and a trainer's team is whole.
OutcomeWhole == TypeOK /\ TeamsWhole
=============================================================================
