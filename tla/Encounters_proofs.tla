------------------------- MODULE Encounters_proofs -------------------------
(***************************************************************************)
(* What a model in the field shows, for any objects, gifts and events, any *)
(* settings, and whatever a generator draws: nothing below looks into it.  *)
(***************************************************************************)
EXTENDS Encounters, Rng_proofs, TLAPS

\* What both hooks make of an object that is no encounter.
Shown(o) == IF save_file.model THEN replace_species_form(o) ELSE Look[o]

FromSeed(h) == RandSpeciesAndForm(NewRandomGenerator(<<"integer", h>>)).val

FlagInv == save_file.model => is_encount_object = constructing

ModelInv ==
  /\ preloaded = [o \in Objects |-> preloaded[o]]
  /\ built = [o \in Objects \cup {Encounter} |-> built[o]]
  /\ \A o \in Objects : preloaded[o] \in {None, Shown(o)}
  /\ \A o \in Objects : built[o] # None => built[o] = Shown(o) /\ preloaded[o] = Shown(o)
  /\ built[Encounter] # None => built[Encounter] = Look[Encounter]

OutInv ==
  /\ out.kind = "gift" /\ save_file.gift =>
       out.at = "template_data" /\ template_data = FromSeed(out.hash)
  /\ out.kind = "event" /\ save_file.scripted => out.mon = FromSeed(out.hash)

IInv == FlagInv /\ ModelInv /\ OutInv

\* The seed and the settings do not change, so neither does what they lead to.
LEMMA SameSeed ==
  ASSUME UNCHANGED settings
  PROVE  /\ \A h : FromSeed(h)' = FromSeed(h)
         /\ \A o : Shown(o)' = Shown(o)
BY DEF settings, FromSeed, Shown, replace_species_form, NewRandomGenerator

LEMMA InitInv == Init => IInv
<1> SUFFICES ASSUME Init PROVE IInv
  OBVIOUS
<1>1. FlagInv
  BY DEF Init, FlagInv
<1>2. ModelInv
  <2>1. preloaded = [o \in Objects |-> None] /\ built = [o \in Objects \cup {Encounter} |-> None]
    BY DEF Init
  <2> QED BY <2>1 DEF ModelInv
<1>3. OutInv
  <2>1. out.kind = "nothing"
    BY DEF Init
  <2> QED BY <2>1 DEF OutInv
<1> QED BY <1>1, <1>2, <1>3 DEF IInv

\* The hooks that write what the game holds leave the models alone.
LEMMA OutStep ==
  ASSUME IInv, UNCHANGED <<models, settings>>, OutInv'
  PROVE  IInv'
BY SameSeed DEF IInv, FlagInv, ModelInv, models, settings

\* The others leave what the game holds alone.
LEMMA ModelStep ==
  ASSUME IInv, UNCHANGED <<out, template_data, settings>>, FlagInv', ModelInv'
  PROVE  IInv'
BY SameSeed DEF IInv, OutInv, settings

LEMMA StepInv == IInv /\ [Next]_vars => IInv'
<1> SUFFICES ASSUME IInv, [Next]_vars PROVE IInv'
  OBVIOUS
<1>1. ASSUME NEW kind \in {"symbol", "hidden"}, NEW a \in Areas, RandomizeSlots(kind, a)
      PROVE  IInv'
  <2>1. out'.kind = kind
    BY <1>1 DEF RandomizeSlots
  <2>2. OutInv'
    BY <2>1, <1>1 DEF OutInv
  <2> QED BY <1>1, <2>2, OutStep DEF RandomizeSlots
<1>2. ASSUME NEW r, NEW k, NEW g, LiveRandomizeSlotSpawns(r, k, g) PROVE IInv'
  <2>1. out'.kind = "spawn"
    BY <1>2 DEF LiveRandomizeSlotSpawns
  <2>2. OutInv'
    BY <2>1 DEF OutInv
  <2> QED BY <1>2, <2>2, OutStep DEF LiveRandomizeSlotSpawns
<1>3. ASSUME NEW s, NEW w, NEW g, RandomizeGimmickSpec(s, w, g) PROVE IInv'
  <2>1. out'.kind = "gimmick"
    BY <1>3 DEF RandomizeGimmickSpec
  <2>2. OutInv'
    BY <2>1 DEF OutInv
  <2> QED BY <1>3, <2>2, OutStep DEF RandomizeGimmickSpec
<1>4. ASSUME NEW t, RandomPokeData(t) PROVE IInv'
  <2>1. out'.kind = "team"
    BY <1>4 DEF RandomPokeData
  <2>2. OutInv'
    BY <2>1 DEF OutInv
  <2> QED BY <1>4, <2>2, OutStep DEF RandomPokeData
<1>5. ASSUME NEW h, RandomizeGiftPokemon(h) PROVE IInv'
  <2>1. out'.kind = "gift" /\ out'.hash = h
        /\ out'.at = IF save_file.gift THEN "template_data" ELSE "archive"
    BY <1>5 DEF RandomizeGiftPokemon
  <2>2. save_file.gift => template_data' = FromSeed(h)
    BY <1>5 DEF RandomizeGiftPokemon, GiftSpecies, FromSeed
  <2>3. UNCHANGED settings
    BY <1>5 DEF RandomizeGiftPokemon
  <2>4. OutInv'
    BY <2>1, <2>2, <2>3, SameSeed DEF OutInv, settings
  <2> QED BY <1>5, <2>4, OutStep DEF RandomizeGiftPokemon
<1>6. ASSUME NEW h, RandomizeEventEncounters(h) PROVE IInv'
  <2>1. out'.kind = "event" /\ out'.hash = h
        /\ (save_file.scripted => out'.mon = FromSeed(h))
    BY <1>6 DEF RandomizeEventEncounters, FromSeed
  <2>2. UNCHANGED settings
    BY <1>6 DEF RandomizeEventEncounters
  <2>3. OutInv'
    BY <2>1, <2>2, SameSeed DEF OutInv, settings
  <2> QED BY <1>6, <2>3, OutStep DEF RandomizeEventEncounters
<1>7. ASSUME NEW o \in Objects, RandomizePokemonModelsOnLoad(o) PROVE IInv'
  <2> USE DEF RandomizePokemonModelsOnLoad
  <2>1. preloaded' = [preloaded EXCEPT ![o] = Shown(o)]
    BY <1>7 DEF Shown
  <2>2. FlagInv' /\ UNCHANGED settings
    BY <1>7 DEF IInv, FlagInv, settings
  <2>3. ModelInv'
    BY <1>7, <2>1, <2>2, SameSeed DEF IInv, ModelInv
  <2> QED BY <1>7, <2>2, <2>3, ModelStep
<1>8. ASSUME LogEncountObject PROVE IInv'
  <2> USE DEF LogEncountObject
  <2>1. FlagInv' /\ UNCHANGED settings
    BY <1>8 DEF FlagInv
  <2>2. ModelInv'
    BY <1>8, <2>1, SameSeed DEF IInv, ModelInv
  <2> QED BY <1>8, <2>1, <2>2, ModelStep
<1>9. ASSUME NEW o \in Objects \cup {Encounter}, RandomizePokemonModels(o) PROVE IInv'
  <2> USE DEF RandomizePokemonModels
  <2>1. FlagInv' /\ UNCHANGED settings
    BY <1>9 DEF FlagInv, FlagLeft, settings
  <2>2. built' = [built EXCEPT ![o] = IF o = Encounter THEN Look[o] ELSE Shown(o)]
    <3>1. CASE o = Encounter
      <4>1. constructing
        BY <1>9, <3>1
      <4>2. save_file.model => is_encount_object
        BY <4>1, Zenon DEF IInv, FlagInv
      <4> QED BY <1>9, <3>1, <4>2
    <3>2. CASE o # Encounter
      <4>1. ~ constructing
        BY <1>9, <3>2
      <4>2. save_file.model => ~ is_encount_object
        BY <4>1, Zenon DEF IInv, FlagInv
      <4> QED BY <1>9, <3>2, <4>2 DEF Shown
    <3> QED BY <3>1, <3>2
  <2>3. o \in Objects => preloaded[o] = Shown(o)
    BY <1>9, EncounterConstants DEF IInv, ModelInv
  <2>4. ModelInv'
    BY <1>9, <2>1, <2>2, <2>3, SameSeed, EncounterConstants DEF IInv, ModelInv
  <2> QED BY <1>9, <2>1, <2>4, ModelStep
<1>10. CASE UNCHANGED vars
  <2>1. UNCHANGED settings
    BY <1>10 DEF vars, settings
  <2>2. OutInv'
    BY <1>10, <2>1, SameSeed DEF IInv, OutInv, vars, settings
  <2> QED BY <1>10, <2>1, <2>2, OutStep DEF vars, models
<1>11. Next => IInv'
  BY <1>1, <1>2, <1>3, <1>4, <1>5, <1>6, <1>7, <1>8, <1>9, Zenon DEF Next
<1> QED BY <1>10, <1>11

\* Every object shows the model that was loaded for it, and an encounter its own: the
\* flag is up exactly while an encounter is under construction.
THEOREM ModelsAreLoaded == Spec => []ModelsWereLoaded
<1>1. IInv => ModelsWereLoaded
  BY DEF IInv, ModelInv, ModelsWereLoaded
<1> QED BY InitInv, StepInv, <1>1, PTL DEF Spec

\* A model that stands for a gift or an event shows the species that the player gets.
THEOREM ModelsAgree == Spec => []ModelsMatch
<1>1. IInv => ModelsMatch
  <2> SUFFICES ASSUME IInv, NEW o \in DOMAIN hash_seed_map, save_file.model,
                      built[o] # None, ~ (save_file.hide_starters /\ o \in starters)
               PROVE  /\ out.kind = "gift" /\ out.hash = hash_seed_map[o] /\ save_file.gift
                           => built[o] = Given
                      /\ out.kind = "event" /\ out.hash = hash_seed_map[o]
                           /\ save_file.scripted => built[o] = out.mon
    BY DEF ModelsMatch
  <2>1. built[o] = Shown(o)
    BY EncounterConstants DEF IInv, ModelInv
  <2>2. Shown(o) = FromSeed(hash_seed_map[o])
    BY DEF Shown, replace_species_form, FromSeed
  <2> QED BY <2>1, <2>2 DEF IInv, OutInv, Given
<1> QED BY InitInv, StepInv, <1>1, PTL DEF Spec

\* Both: what stands in the field is what was loaded for it and what the player gets.
THEOREM ModelsAreRight == Spec => []ModelsRight
<1>1. ModelsMatch /\ ModelsWereLoaded => ModelsRight
  BY DEF ModelsRight
<1> QED BY <1>1, ModelsAreLoaded, ModelsAgree, PTL

-----------------------------------------------------------------------------
(* Levels *)

\* A boosted level still fits the byte of a table.
LEMMA Hundredth ==
  ASSUME NEW n \in Int, 0 <= n, n <= 25500
  PROVE  n \div 100 \in 0 .. 255
<1>1. n \div 100 \in Int /\ 0 <= n \div 100 /\ n \div 100 <= 255
  OBVIOUS
<1> QED BY <1>1

LEMMA BoostFits == \A level \in 0 .. 100 : level_boost(level) \in 0 .. 255
<1> SUFFICES ASSUME NEW level \in Int, 0 <= level, level <= 100
             PROVE  level_boost(level) \in 0 .. 255
  OBVIOUS
<1> DEFINE sum == 2 * level * level + 50 * level + 500
<1>1. level * level \in Int /\ 0 <= level * level /\ level * level <= 10000
  <2>1. level * level <= 100 * level
    OBVIOUS
  <2> QED BY <2>1
<1>2. 2 * level * level = 2 * (level * level)
  OBVIOUS
<1>3. sum \in Int /\ 0 <= sum /\ sum <= 25500
  <2>1. PICK square \in Int : square = level * level
    BY <1>1
  <2> QED BY <1>1, <1>2, <2>1
<1> HIDE DEF sum
<1>4. sum \div 100 \in 0 .. 255
  BY <1>3, Hundredth
<1>5. CASE level = 60
  BY <1>5 DEF level_boost
<1>6. CASE level # 60
  BY <1>4, <1>6 DEF level_boost, sum
<1> QED BY <1>5, <1>6

Once(level) == IF save_file.wild_boost THEN level_boost(level) ELSE level

LEMMA ByteIsOnce ==
  ASSUME NEW level \in 0 .. 100
  PROVE  BoostByte(level, save_file.wild_boost) = Once(level)
<1>1. level_boost(level) \in 0 .. 255
  BY BoostFits
<1>2. level_boost(level) % 256 = level_boost(level)
  BY <1>1
<1> QED BY <1>2 DEF BoostByte, Once

\* What the table and what the spawn add to a row's levels is one boost together.
LevelInv ==
  /\ out.kind = "symbol" =>
       LET rows == Tables["symbol"][out.area]
           at(level) == IF save_file.live THEN level ELSE Once(level)
       IN  /\ out.area \in Areas
           /\ DOMAIN out.rows = DOMAIN rows
           /\ \A r \in DOMAIN rows : /\ out.rows[r].minimum_level = at(rows[r].minimum_level)
                                     /\ out.rows[r].maximum_level = at(rows[r].maximum_level)
  /\ SpawnsBoostedOnce

LEMMA SymbolLevels ==
  ASSUME NEW a \in Areas
  PROVE  LET rows == Tables["symbol"][a]
             at(level) == IF save_file.live THEN level ELSE Once(level)
             out_rows == SymbolSlots(a, rows)
         IN  /\ DOMAIN out_rows = DOMAIN rows
             /\ \A r \in DOMAIN rows : /\ out_rows[r].minimum_level = at(rows[r].minimum_level)
                                       /\ out_rows[r].maximum_level = at(rows[r].maximum_level)
<1> DEFINE rows == Tables["symbol"][a]
<1>1. rows \in Seq(Rows) /\ \A r \in DOMAIN rows : rows[r] \in Rows
  BY EncounterConstants
<1> HIDE DEF rows
<1>2. ASSUME NEW mons PROVE
        /\ DOMAIN Randomized(rows, mons) = DOMAIN rows
        /\ \A r \in DOMAIN rows :
             /\ Randomized(rows, mons)[r].minimum_level = rows[r].minimum_level
             /\ Randomized(rows, mons)[r].maximum_level = rows[r].maximum_level
             /\ DOMAIN Randomized(rows, mons)[r] = {"minimum_level", "maximum_level", "mons"}
  BY <1>1 DEF Randomized, Rows
<1>3. ASSUME NEW rs, DOMAIN rs = DOMAIN rows,
             \A r \in DOMAIN rows :
               /\ rs[r].minimum_level = rows[r].minimum_level
               /\ rs[r].maximum_level = rows[r].maximum_level
               /\ DOMAIN rs[r] = {"minimum_level", "maximum_level", "mons"}
      PROVE  LET on == save_file.wild_boost IN
             /\ DOMAIN Boosted(rs, on) = DOMAIN rows
             /\ \A r \in DOMAIN rows :
                  /\ Boosted(rs, on)[r].minimum_level = Once(rows[r].minimum_level)
                  /\ Boosted(rs, on)[r].maximum_level = Once(rows[r].maximum_level)
  <2>1. \A r \in DOMAIN rows :
          /\ BoostByte(rows[r].minimum_level, save_file.wild_boost) = Once(rows[r].minimum_level)
          /\ BoostByte(rows[r].maximum_level, save_file.wild_boost) = Once(rows[r].maximum_level)
    BY <1>1, ByteIsOnce DEF Rows
  <2> QED BY <1>3, <2>1 DEF Boosted
<1>4. \A r \in DOMAIN rows : DOMAIN rows[r] = {"minimum_level", "maximum_level", "mons"}
  BY <1>1 DEF Rows
<1>5. CASE save_file.live
  BY <1>5 DEF SymbolSlots, rows
<1>6. CASE ~ save_file.live /\ ~ save_file.wild
  BY <1>6, <1>3, <1>4 DEF SymbolSlots, rows
<1>7. CASE ~ save_file.live /\ save_file.wild
  <2> DEFINE mons == DrawSlots(NewRandomGenerator(<<"symbol", a>>), rows)
  <2> HIDE DEF mons
  <2>1. SymbolSlots(a, rows) = Boosted(Randomized(rows, mons), save_file.wild_boost)
    BY <1>7 DEF SymbolSlots, mons
  <2> QED BY <1>7, <2>1, <1>2, <1>3 DEF rows
<1> QED BY <1>5, <1>6, <1>7

\* A spawn in the open is boosted once and no more, whatever the settings.
THEOREM BoostedOnce == Spec => []SpawnsBoostedOnce
<1>1. Init => LevelInv
  <2> SUFFICES ASSUME Init PROVE LevelInv
    OBVIOUS
  <2>1. out.kind = "nothing"
    BY DEF Init
  <2> QED BY <2>1 DEF LevelInv, SpawnsBoostedOnce
<1>2. LevelInv /\ [Next]_vars => LevelInv'
  <2> SUFFICES ASSUME LevelInv, [Next]_vars PROVE LevelInv'
    OBVIOUS
  <2>1. ASSUME NEW kind \in {"symbol", "hidden"}, NEW a \in Areas, RandomizeSlots(kind, a)
        PROVE  LevelInv'
    <3>1. out'.kind = kind /\ out'.area = a /\ UNCHANGED settings
      BY <2>1 DEF RandomizeSlots
    <3>2. kind = "symbol" => out'.rows = SymbolSlots(a, Tables["symbol"][a])
      BY <2>1 DEF RandomizeSlots
    <3> QED BY <3>1, <3>2, SymbolLevels DEF LevelInv, SpawnsBoostedOnce, settings, Once
  <2>2. ASSUME NEW r, NEW k, NEW g, LiveRandomizeSlotSpawns(r, k, g) PROVE LevelInv'
    <3>1. /\ out.kind = "symbol" /\ r \in DOMAIN out.rows
          /\ out'.kind = "spawn" /\ out'.area = out.area /\ out'.row = r
          /\ UNCHANGED settings
      BY <2>2 DEF LiveRandomizeSlotSpawns
    <3>2. LET on == save_file.live /\ save_file.wild_boost
              row == out.rows[r]
          IN  /\ out'.minimum_level = IF on THEN level_boost(row.minimum_level)
                                      ELSE row.minimum_level
              /\ out'.maximum_level = IF on THEN level_boost(row.maximum_level)
                                      ELSE row.maximum_level
      BY <2>2 DEF LiveRandomizeSlotSpawns
    <3>3. LET row == Tables["symbol"][out.area][r]
          IN  /\ out'.minimum_level = Once(row.minimum_level)
              /\ out'.maximum_level = Once(row.maximum_level)
      BY <3>1, <3>2 DEF LevelInv, Once
    <3> QED BY <3>1, <3>3 DEF LevelInv, SpawnsBoostedOnce, settings, Once
  <2>3. ASSUME out'.kind \notin {"symbol", "spawn"} PROVE LevelInv'
    BY <2>3 DEF LevelInv, SpawnsBoostedOnce
  <2>4. ASSUME UNCHANGED <<out, settings>> PROVE LevelInv'
    BY <2>4 DEF LevelInv, SpawnsBoostedOnce, settings, Once
  <2>5. ASSUME NEW s, NEW w, NEW g, RandomizeGimmickSpec(s, w, g) PROVE LevelInv'
    BY <2>3, <2>5 DEF RandomizeGimmickSpec
  <2>6. ASSUME NEW t, RandomPokeData(t) PROVE LevelInv'
    <3>1. out'.kind = "team"
      BY <2>6 DEF RandomPokeData
    <3> QED BY <2>3, <3>1
  <2>7. ASSUME NEW h, RandomizeGiftPokemon(h) \/ RandomizeEventEncounters(h) PROVE LevelInv'
    BY <2>3, <2>7 DEF RandomizeGiftPokemon, RandomizeEventEncounters
  <2>8. ASSUME NEW o, \/ RandomizePokemonModelsOnLoad(o) \/ LogEncountObject
                      \/ RandomizePokemonModels(o)
        PROVE  LevelInv'
    BY <2>4, <2>8 DEF RandomizePokemonModelsOnLoad, LogEncountObject, RandomizePokemonModels
  <2>9. CASE UNCHANGED vars
    BY <2>4, <2>9 DEF vars, settings
  <2>10. Next => LevelInv'
    BY <2>1, <2>2, <2>5, <2>6, <2>7, <2>8, Zenon DEF Next
  <2> QED BY <2>9, <2>10
<1>3. LevelInv => SpawnsBoostedOnce
  BY DEF LevelInv
<1> QED BY <1>1, <1>2, <1>3, PTL DEF Spec

-----------------------------------------------------------------------------
(* The seed *)

FixedInv == save_file \in Settings /\ hashing \in Hashings

LEMMA Fixed == Spec => []FixedInv
<1>1. Init => FixedInv
  BY DEF Init, FixedInv
<1>2. [Next]_vars => UNCHANGED settings
  BY DEF Next, vars, RandomizeSlots, LiveRandomizeSlotSpawns, RandomizeGimmickSpec,
         RandomPokeData, RandomizeGiftPokemon, RandomizeEventEncounters,
         RandomizePokemonModelsOnLoad, LogEncountObject, RandomizePokemonModels, settings
<1>3. FixedInv /\ UNCHANGED settings => FixedInv'
  BY DEF FixedInv, settings
<1> QED BY <1>1, <1>2, <1>3, PTL DEF Spec

\* Every generator that is made from the seed is one with which the loops end.
LEMMA SeedWorks ==
  ASSUME hashing \in Hashings, NEW name \in Names
  PROVE  Works(NewRandomGenerator(name))
<1>1. LoopsEnd(hashing[name])
  BY EncounterConstants
<1> QED BY <1>1, GeneratorWorks DEF NewRandomGenerator

-----------------------------------------------------------------------------
(* Tables *)

\* The places that are gone through as n Pokemon are drawn from g.
MonsThrough(q, g, n) ==
  /\ q[0] = g /\ \A k \in 0 .. n : q[k] \in Places(g)
  /\ \A k \in 1 .. n : q[k] = RandSpeciesAndForm(q[k - 1]).gen

LEMMA MonDraws ==
  ASSUME NEW g, Works(g), NEW n \in Nat
  PROVE  \E q : /\ MonsThrough(q, g, n)
                /\ DrawMons(g, n) = [val |-> [k \in 1 .. n |-> RandSpeciesAndForm(q[k - 1]).val],
                                     gen |-> q[n]]
<1> DEFINE species == [h \in Places(g) |-> RandSpeciesAndForm(h)]
           draw == [k \in 1 .. n |-> species]
<1>1. Len(draw) = n
  <2> HIDE DEF species
  <2> QED OBVIOUS
<1>2. DrawMons(g, n) = Draws(g, draw)
  BY DEF DrawMons
<1>3. ASSUME NEW k \in 1 .. n, NEW h \in Places(g)
      PROVE  draw[k][h] = RandSpeciesAndForm(h) /\ draw[k][h].gen \in Places(g)
  <2>1. RandSpeciesAndForm(h) \in [val : InGame, gen : Places(g)]
    <3>1. Works(h) /\ Places(h) = Places(g)
      BY StillWorks
    <3> QED BY <3>1, RandSpeciesAndFormDraws
  <2> QED BY <2>1
<1> HIDE DEF draw
<1> PICK q : InTurn(q, g, draw, n)
  BY <1>1, DrawsInTurn
<1>q. /\ GoesThrough(q, g, draw, n)
      /\ Draws(g, draw) = [val |-> [k \in 1 .. n |-> draw[k][q[k - 1]].val], gen |-> q[n]]
  BY DEF InTurn
<1> USE <1>q
<1>4. \A k \in 0 .. n : q[k] \in Places(g)
  <2>1. AllDraw(n, Places(g), draw)
    BY <1>3 DEF AllDraw
  <2>2. g \in Places(g)
    BY DEF Works
  <2> QED BY <2>1, <2>2, DrawsStay
<1>5. \A k \in 1 .. n : draw[k][q[k - 1]] = RandSpeciesAndForm(q[k - 1])
  BY <1>3, <1>4
<1>6. MonsThrough(q, g, n)
  BY <1>4, <1>5 DEF MonsThrough, GoesThrough
<1>7. [k \in 1 .. n |-> draw[k][q[k - 1]].val] = [k \in 1 .. n |-> RandSpeciesAndForm(q[k - 1]).val]
  BY <1>5
<1> QED BY <1>2, <1>6, <1>7

\* There is one way through a generator.
LEMMA OneWay ==
  ASSUME NEW g, NEW n \in Nat, NEW m \in Nat, NEW q, NEW p, NEW a \in Nat, m + a <= n,
         MonsThrough(q, g, n), MonsThrough(p, q[a], m)
  PROVE  \A k \in 0 .. m : p[k] = q[a + k]
<1> DEFINE S == { k \in Nat : k <= m => p[k] = q[a + k] }
<1>1. 0 \in S
  BY DEF MonsThrough
<1>2. ASSUME NEW k \in Nat, k \in S PROVE k + 1 \in S
  <2> SUFFICES ASSUME k + 1 <= m PROVE p[k + 1] = q[a + (k + 1)]
    OBVIOUS
  <2>1. k + 1 \in 1 .. m /\ k + 1 - 1 = k
    OBVIOUS
  <2>2. a + (k + 1) \in 1 .. n /\ a + (k + 1) - 1 = a + k
    OBVIOUS
  <2>3. p[k + 1] = RandSpeciesAndForm(p[k]).gen /\ q[a + (k + 1)] = RandSpeciesAndForm(q[a + k]).gen
    BY <2>1, <2>2 DEF MonsThrough
  <2> QED BY <1>2, <2>3
<1>3. Nat \subseteq S
  <2> HIDE DEF S
  <2> QED BY <1>1, <1>2, Induct
<1> QED BY <1>3

\* Behind r rows, and what the next row takes from there.
LEMMA RowPlaces ==
  ASSUME NEW n \in Nat, NEW r \in 1 .. n
  PROVE  /\ (r - 1) * RowSlots \in Nat /\ n * RowSlots \in Nat
         /\ (r - 1) * RowSlots + RowSlots = r * RowSlots
         /\ r * RowSlots <= n * RowSlots
<1>1. RowSlots \in Nat
  BY EncounterConstants
<1>2. \A a, b \in Nat : a * b \in Nat
  OBVIOUS
<1>3. \A a, b, d \in Nat : (a + b) * d = a * d + b * d
  OBVIOUS
<1>4. r - 1 \in Nat /\ n - r \in Nat /\ r \in Nat /\ r - 1 + 1 = r /\ r + (n - r) = n
  OBVIOUS
<1>5. r * RowSlots = (r - 1) * RowSlots + RowSlots
  <2>1. 1 * RowSlots = RowSlots
    BY <1>1
  <2> QED BY <1>1, <1>3, <1>4, <2>1
<1>6. n * RowSlots = r * RowSlots + (n - r) * RowSlots
  BY <1>1, <1>3, <1>4
<1>7. /\ (r - 1) * RowSlots \in Nat /\ n * RowSlots \in Nat /\ r * RowSlots \in Nat
      /\ (n - r) * RowSlots \in Nat
  BY <1>1, <1>2, <1>4
<1> QED BY <1>5, <1>6, <1>7

\* A table's rows take one behind the other what one generator draws.
LEMMA RowDraws ==
  ASSUME NEW g, Works(g), NEW rows \in Seq(Rows),
         NEW q, MonsThrough(q, g, Len(rows) * RowSlots)
  PROVE  DrawSlots(g, rows)
           = [r \in 1 .. Len(rows) |->
                [k \in 1 .. RowSlots |-> RandSpeciesAndForm(q[(r - 1) * RowSlots + k - 1]).val]]
<1> DEFINE n == Len(rows)
           draw == [r \in 1 .. n |-> [h \in Places(g) |-> DrawMons(h, RowSlots)]]
<1>0. n \in Nat /\ RowSlots \in Nat /\ DOMAIN rows = 1 .. n
      /\ \A r \in 1 .. n : rows[r] \in Rows /\ Len(rows[r].mons) = RowSlots
  <2>1. n \in Nat /\ RowSlots \in Nat /\ DOMAIN rows = 1 .. n /\ \A r \in 1 .. n : rows[r] \in Rows
    BY EncounterConstants
  <2>2. ASSUME NEW r \in 1 .. n PROVE Len(rows[r].mons) = RowSlots
    <3>1. rows[r].mons \in [1 .. RowSlots -> InGame]
      BY <2>1 DEF Rows
    <3> QED BY <2>1, <3>1
  <2> QED BY <2>1, <2>2
<1>1. DrawSlots(g, rows) = Draws(g, draw).val
  <2>1. [r \in DOMAIN rows |-> [h \in Places(g) |-> DrawMons(h, Len(rows[r].mons))]] = draw
    BY <1>0
  <2> HIDE DEF draw
  <2> QED BY <2>1 DEF DrawSlots
<1>2. Len(draw) = n
  <2> DEFINE row == [h \in Places(g) |-> DrawMons(h, RowSlots)]
  <2>1. draw = [r \in 1 .. n |-> row]
    OBVIOUS
  <2> HIDE DEF draw, n, row
  <2> QED BY <1>0, <2>1
<1>3. \A r \in 1 .. n : \A h \in Places(g) : draw[r][h] = DrawMons(h, RowSlots)
  BY <1>0
<1> HIDE DEF n, draw
<1> PICK p : InTurn(p, g, draw, n)
  <2>1. n \in Nat
    BY <1>0
  <2> QED BY <2>1, <1>2, DrawsInTurn
<1>q. /\ GoesThrough(p, g, draw, n)
      /\ Draws(g, draw) = [val |-> [r \in 1 .. n |-> draw[r][p[r - 1]].val], gen |-> p[n]]
  BY DEF InTurn
<1> USE <1>q
<1>4. MonsThrough(q, g, n * RowSlots)
  BY DEF n
<1>5. ASSUME NEW r \in 1 .. n, p[r - 1] = q[(r - 1) * RowSlots]
      PROVE  /\ draw[r][p[r - 1]].gen = q[r * RowSlots]
             /\ draw[r][p[r - 1]].val
                  = [k \in 1 .. RowSlots |-> RandSpeciesAndForm(q[(r - 1) * RowSlots + k - 1]).val]
  <2>1. PICK a \in Nat : a = (r - 1) * RowSlots
    BY <1>0, RowPlaces
  <2>2. PICK t \in Nat : t = n * RowSlots
    BY <1>0, RowPlaces
  <2>3. a + RowSlots = r * RowSlots /\ RowSlots + a <= t
    <3>1. a + RowSlots = r * RowSlots /\ r * RowSlots <= t
      BY <1>0, <2>1, <2>2, RowPlaces
    <3> QED BY <1>0, <3>1
  <2>4. q[a] \in Places(g)
    <3>1. a \in 0 .. t
      BY <1>0, <2>3
    <3> QED BY <1>4, <2>2, <3>1 DEF MonsThrough
  <2>5. Works(q[a]) /\ draw[r][p[r - 1]] = DrawMons(q[a], RowSlots)
    BY <1>3, <1>5, <2>1, <2>4, StillWorks
  <2>6. PICK w : /\ MonsThrough(w, q[a], RowSlots)
                 /\ DrawMons(q[a], RowSlots)
                      = [val |-> [k \in 1 .. RowSlots |-> RandSpeciesAndForm(w[k - 1]).val],
                         gen |-> w[RowSlots]]
    BY <1>0, <2>5, MonDraws
  <2>7. \A k \in 0 .. RowSlots : w[k] = q[a + k]
    BY <1>0, <1>4, <2>2, <2>3, <2>6, OneWay
  <2>8. w[RowSlots] = q[r * RowSlots]
    BY <1>0, <2>3, <2>7
  <2>9. \A k \in 1 .. RowSlots : w[k - 1] = q[a + k - 1]
    <3>1. \A k \in 1 .. RowSlots : k - 1 \in 0 .. RowSlots /\ a + (k - 1) = a + k - 1
      BY <1>0
    <3> QED BY <2>7, <3>1
  <2>10. [k \in 1 .. RowSlots |-> RandSpeciesAndForm(w[k - 1]).val]
           = [k \in 1 .. RowSlots |-> RandSpeciesAndForm(q[a + k - 1]).val]
    BY <2>9
  <2> QED BY <2>1, <2>5, <2>6, <2>8, <2>10
<1>6. \A r \in 0 .. n : p[r] = q[r * RowSlots]
  <2> DEFINE S == { r \in Nat : r <= n => p[r] = q[r * RowSlots] }
  <2>1. 0 \in S
    <3>1. 0 * RowSlots = 0
      BY <1>0
    <3> QED BY <1>4, <3>1 DEF GoesThrough, MonsThrough
  <2>2. ASSUME NEW m \in Nat, m \in S PROVE m + 1 \in S
    <3> SUFFICES ASSUME m + 1 <= n PROVE p[m + 1] = q[(m + 1) * RowSlots]
      OBVIOUS
    <3>1. PICK r \in 1 .. n : r = m + 1
      BY <1>0
    <3>2. r - 1 = m /\ m <= n
      BY <1>0, <3>1
    <3>3. p[r - 1] = q[(r - 1) * RowSlots]
      BY <2>2, <3>2
    <3>4. p[r] = q[r * RowSlots]
      BY <1>5, <3>3 DEF GoesThrough
    <3> QED BY <3>1, <3>4
  <2>3. Nat \subseteq S
    <3> HIDE DEF S
    <3> QED BY <2>1, <2>2, Induct
  <2> QED BY <2>3
<1>7. ASSUME NEW r \in 1 .. n
      PROVE  draw[r][p[r - 1]].val
               = [k \in 1 .. RowSlots |-> RandSpeciesAndForm(q[(r - 1) * RowSlots + k - 1]).val]
  <2>1. r - 1 \in 0 .. n
    BY <1>0
  <2> QED BY <1>5, <1>6, <2>1
<1>8. Draws(g, draw).val = [r \in 1 .. n |-> draw[r][p[r - 1]].val]
  OBVIOUS
<1>9. Draws(g, draw).val
        = [r \in 1 .. n |->
             [k \in 1 .. RowSlots |-> RandSpeciesAndForm(q[(r - 1) * RowSlots + k - 1]).val]]
  BY <1>7, <1>8
<1> QED BY <1>1, <1>9 DEF n

LEMMA NthDrawn ==
  ASSUME NEW g, Works(g), NEW n \in Nat, NEW m \in 1 .. n, NEW q, MonsThrough(q, g, n)
  PROVE  Nth(g, m) = RandSpeciesAndForm(q[m - 1]).val
<1>1. m \in Nat /\ m - 1 \in 0 .. m /\ 0 + (m - 1) = m - 1 /\ m + 0 <= n /\ m \in 1 .. m
  OBVIOUS
<1>2. Nth(g, m) = DrawMons(g, m).val[m]
  BY DEF Nth
<1>3. PICK p : /\ MonsThrough(p, g, m)
               /\ DrawMons(g, m) = [val |-> [k \in 1 .. m |-> RandSpeciesAndForm(p[k - 1]).val], gen |-> p[m]]
  BY <1>1, MonDraws
<1>4. DrawMons(g, m).val[m] = RandSpeciesAndForm(p[m - 1]).val
  BY <1>1, <1>3
<1>5. q[0] = g
  BY DEF MonsThrough
<1>6. p[m - 1] = q[m - 1]
  <2>1. PICK a \in Nat : a = 0
    OBVIOUS
  <2>2. MonsThrough(p, q[a], m) /\ m + a <= n
    BY <1>1, <1>3, <1>5, <2>1
  <2>3. \A k \in 0 .. m : p[k] = q[a + k]
    BY <1>1, <2>2, OneWay
  <2> QED BY <1>1, <2>1, <2>3
<1> QED BY <1>1, <1>2, <1>4, <1>6

LEMMA SlotsAreFirst ==
  ASSUME NEW g, Works(g), NEW rows \in Seq(Rows)
  PROVE  /\ DOMAIN DrawSlots(g, rows) = DOMAIN rows
         /\ \A r \in DOMAIN rows :
              /\ DOMAIN DrawSlots(g, rows)[r] = 1 .. RowSlots
              /\ \A k \in 1 .. RowSlots : DrawSlots(g, rows)[r][k] = Nth(g, (r - 1) * RowSlots + k)
<1>1. Len(rows) \in Nat /\ DOMAIN rows = 1 .. Len(rows) /\ RowSlots \in Nat
  BY EncounterConstants
<1> PICK n \in Nat : n = Len(rows)
  BY <1>1
<1>2. n * RowSlots \in Nat
  BY <1>1
<1>3. PICK q : MonsThrough(q, g, n * RowSlots)
  BY <1>2, MonDraws
<1>4. DrawSlots(g, rows)
        = [r \in 1 .. n |-> [k \in 1 .. RowSlots |-> RandSpeciesAndForm(q[(r - 1) * RowSlots + k - 1]).val]]
  BY <1>3, RowDraws
<1>5. ASSUME NEW r \in 1 .. n, NEW k \in 1 .. RowSlots
      PROVE  DrawSlots(g, rows)[r][k] = Nth(g, (r - 1) * RowSlots + k)
  <2>1. DrawSlots(g, rows)[r][k] = RandSpeciesAndForm(q[(r - 1) * RowSlots + k - 1]).val
    BY <1>4
  <2>2. (r - 1) * RowSlots \in Nat /\ (r - 1) * RowSlots + RowSlots <= n * RowSlots
    BY RowPlaces
  <2>3. (r - 1) * RowSlots + k \in 1 .. n * RowSlots
    <3>1. PICK a \in Nat : a = (r - 1) * RowSlots
      BY <2>2
    <3>2. PICK t \in Nat : t = n * RowSlots
      BY <1>2
    <3>3. a + RowSlots <= t
      BY <2>2, <3>1, <3>2
    <3>4. a + k \in 1 .. t
      BY <1>1, <3>3
    <3> QED BY <3>1, <3>2, <3>4
  <2>4. PICK m \in 1 .. n * RowSlots : m = (r - 1) * RowSlots + k
    BY <2>3
  <2>5. Nth(g, m) = RandSpeciesAndForm(q[m - 1]).val
    BY <1>2, <1>3, NthDrawn
  <2>6. (r - 1) * RowSlots + k - 1 = m - 1
    <3>1. PICK b \in Nat : b = (r - 1) * RowSlots
      BY <2>2
    <3>2. m = b + k /\ k \in Int /\ m \in Int
      BY <2>4, <3>1
    <3>3. b + k - 1 = m - 1
      BY <3>2
    <3> QED BY <3>1, <3>3
  <2> QED BY <2>1, <2>4, <2>5, <2>6
<1> HIDE DEF DrawSlots
<1>6. DOMAIN DrawSlots(g, rows) = 1 .. n /\ \A r \in 1 .. n : DOMAIN DrawSlots(g, rows)[r] = 1 .. RowSlots
  BY <1>4
<1> QED BY <1>1, <1>5, <1>6

\* A fetched table, when its slots are drawn.
LEMMA TableDrawn ==
  ASSUME NEW kind \in {"symbol", "hidden"}, NEW a \in Areas, save_file.wild,
         kind = "symbol" => ~ save_file.live
  PROVE  LET rows == Tables[kind][a]
             out_rows == IF kind = "hidden" THEN HiddenSlots(a, rows) ELSE SymbolSlots(a, rows)
         IN  /\ DOMAIN out_rows = DOMAIN rows
             /\ \A r \in DOMAIN rows :
                  out_rows[r].mons = DrawSlots(NewRandomGenerator(<<kind, a>>), rows)[r]
<1> DEFINE rows == Tables[kind][a]
<1>0. rows \in Seq(Rows)
  BY EncounterConstants
<1> DEFINE mons == DrawSlots(NewRandomGenerator(<<kind, a>>), rows)
           on == save_file.wild_boost
           out_rows == IF kind = "hidden" THEN HiddenSlots(a, rows) ELSE SymbolSlots(a, rows)
<1>1. out_rows = Boosted(Randomized(rows, mons), on)
  <2> HIDE DEF on
  <2> QED BY DEF HiddenSlots, SymbolSlots, on
<1> HIDE DEF mons, out_rows, on, rows
<1>2. /\ DOMAIN Randomized(rows, mons) = DOMAIN rows
      /\ \A r \in DOMAIN rows :
           /\ Randomized(rows, mons)[r].mons = mons[r]
           /\ DOMAIN Randomized(rows, mons)[r] = {"minimum_level", "maximum_level", "mons"}
  <2>1. \A r \in DOMAIN rows : rows[r] \in Rows
    BY <1>0
  <2> QED BY <2>1 DEF Randomized, Rows
<1> DEFINE rs == Randomized(rows, mons)
<1>3. /\ DOMAIN Boosted(rs, on) = DOMAIN rs
      /\ \A r \in DOMAIN rs : Boosted(rs, on)[r].mons = rs[r].mons
  <2>1. \A r \in DOMAIN rs : DOMAIN rs[r] = {"minimum_level", "maximum_level", "mons"}
    BY <1>2
  <2> HIDE DEF rs
  <2> QED BY <2>1 DEF Boosted
<1>4. /\ DOMAIN out_rows = DOMAIN rows
      /\ \A r \in DOMAIN rows : out_rows[r].mons = mons[r]
  <2> HIDE DEF rs
  <2>1. rs = Randomized(rows, mons)
    BY DEF rs
  <2> QED BY <1>1, <1>2, <1>3, <2>1
<1> QED BY <1>4 DEF rows, mons, out_rows

(***************************************************************************)
(* README: the seed is for synchronizing runs.  Whatever was asked before  *)
(* and whatever the levels are, a table's slots are the first Pokemon of   *)
(* the generator that the seed and the area give, row by row: for any      *)
(* number of rows and slots, and whatever a generator draws.               *)
(***************************************************************************)
THEOREM TablesAreTheSeeds == Spec => []TablesFollowTheSeed
<1>1. Init => TablesFollowTheSeed
  BY DEF Init, TablesFollowTheSeed
<1>2. FixedInv /\ TablesFollowTheSeed /\ [Next]_vars => TablesFollowTheSeed'
  <2> SUFFICES ASSUME FixedInv, TablesFollowTheSeed, [Next]_vars PROVE TablesFollowTheSeed'
    OBVIOUS
  <2>1. ASSUME NEW kind \in {"symbol", "hidden"}, NEW a \in Areas, RandomizeSlots(kind, a)
        PROVE  TablesFollowTheSeed'
    <3> DEFINE rows == Tables[kind][a]
               out_rows == IF kind = "hidden" THEN HiddenSlots(a, rows) ELSE SymbolSlots(a, rows)
               g == NewRandomGenerator(<<kind, a>>)
    <3>1. /\ out' = [kind |-> kind, area |-> a, rows |-> out_rows]
          /\ UNCHANGED settings
      BY <2>1 DEF RandomizeSlots
    <3>2. out'.kind = kind /\ out'.area = a /\ out'.rows = out_rows
      <4> HIDE DEF out_rows
      <4> QED BY <3>1
    <3>3. save_file' = save_file /\ NewRandomGenerator(<<kind, a>>)' = g
      BY <3>1 DEF settings, NewRandomGenerator
    <3>4. rows \in Seq(Rows) /\ Works(g)
      <4>1. <<kind, a>> \in Names /\ hashing \in Hashings
        BY DEF Names, FixedInv
      <4>2. Works(g)
        BY <4>1, SeedWorks
      <4>3. rows \in Seq(Rows)
        BY EncounterConstants
      <4> QED BY <4>2, <4>3
    <3>5. ASSUME save_file.wild, kind = "symbol" => ~ save_file.live,
                 NEW r \in DOMAIN out_rows, NEW k \in DOMAIN out_rows[r].mons
          PROVE  out_rows[r].mons[k] = Nth(g, (r - 1) * RowSlots + k)
      <4>1. r \in DOMAIN rows /\ out_rows[r].mons = DrawSlots(g, rows)[r]
        BY <3>5, TableDrawn
      <4> HIDE DEF rows, g, out_rows
      <4>2. DOMAIN DrawSlots(g, rows)[r] = 1 .. RowSlots
        BY <3>4, <4>1, SlotsAreFirst
      <4> QED BY <3>4, <3>5, <4>1, <4>2, SlotsAreFirst
    <3> HIDE DEF out_rows, g, rows
    <3> QED BY <3>2, <3>3, <3>5 DEF TablesFollowTheSeed
  <2>2. ASSUME out'.kind \notin {"symbol", "hidden"} PROVE TablesFollowTheSeed'
    BY <2>2 DEF TablesFollowTheSeed
  <2>3. ASSUME UNCHANGED <<out, settings>> PROVE TablesFollowTheSeed'
    BY <2>3 DEF TablesFollowTheSeed, settings, NewRandomGenerator
  <2>4. ASSUME NEW r, NEW k, NEW g, LiveRandomizeSlotSpawns(r, k, g) PROVE TablesFollowTheSeed'
    <3>1. out'.kind = "spawn"
      BY <2>4 DEF LiveRandomizeSlotSpawns
    <3> QED BY <2>2, <3>1
  <2>5. ASSUME NEW s, NEW w, NEW g, RandomizeGimmickSpec(s, w, g) PROVE TablesFollowTheSeed'
    BY <2>2, <2>5 DEF RandomizeGimmickSpec
  <2>6. ASSUME NEW t, RandomPokeData(t) PROVE TablesFollowTheSeed'
    <3>1. out'.kind = "team"
      BY <2>6 DEF RandomPokeData
    <3> QED BY <2>2, <3>1
  <2>7. ASSUME NEW h, RandomizeGiftPokemon(h) \/ RandomizeEventEncounters(h) PROVE TablesFollowTheSeed'
    BY <2>2, <2>7 DEF RandomizeGiftPokemon, RandomizeEventEncounters
  <2>8. ASSUME NEW o, \/ RandomizePokemonModelsOnLoad(o) \/ LogEncountObject
                      \/ RandomizePokemonModels(o)
        PROVE  TablesFollowTheSeed'
    BY <2>3, <2>8 DEF RandomizePokemonModelsOnLoad, LogEncountObject, RandomizePokemonModels
  <2>9. CASE UNCHANGED vars
    BY <2>3, <2>9 DEF vars, settings
  <2>10. Next => TablesFollowTheSeed'
    BY <2>1, <2>4, <2>5, <2>6, <2>7, <2>8, Zenon DEF Next
  <2> QED BY <2>9, <2>10
<1> QED BY Fixed, <1>1, <1>2, PTL DEF Spec

-----------------------------------------------------------------------------
(* What a hook hands back *)

ModelTypes ==
  /\ is_encount_object \in BOOLEAN /\ constructing \in BOOLEAN
  /\ preloaded \in [Objects -> Mons \cup {None}]
  /\ built \in [Objects \cup {Encounter} -> Mons \cup {None}]

LEMMA ReplacedIsMon ==
  ASSUME FixedInv, NEW o \in Objects \cup {Encounter}
  PROVE  replace_species_form(o) \in Mons /\ Look[o] \in Mons
<1> DEFINE seed == IF o \in DOMAIN hash_seed_map THEN hash_seed_map[o] ELSE Look[o]
<1>1. o \in DOMAIN Look /\ Look[o] \in InGame
  BY EncounterConstants
<1>2. <<"integer", seed>> \in Names
  BY <1>1, EncounterConstants DEF Names
<1>3. RandSpeciesAndForm(NewRandomGenerator(<<"integer", seed>>)).val \in InGame
  <2>1. Works(NewRandomGenerator(<<"integer", seed>>))
    BY <1>2, SeedWorks DEF FixedInv
  <2> HIDE DEF seed
  <2>2. RandSpeciesAndForm(NewRandomGenerator(<<"integer", seed>>))
          \in [val : InGame, gen : Places(NewRandomGenerator(<<"integer", seed>>))]
    BY <2>1, RandSpeciesAndFormDraws
  <2> QED BY <2>2
<1>4. replace_species_form(o)
        = IF save_file.hide_starters /\ o \in starters THEN <<0, 0>>
          ELSE RandSpeciesAndForm(NewRandomGenerator(<<"integer", seed>>)).val
  BY DEF replace_species_form
<1> HIDE DEF seed
<1> QED BY <1>1, <1>3, <1>4 DEF Mons

LEMMA ModelsTyped == Spec => []ModelTypes
<1>1. Init => ModelTypes
  BY DEF Init, ModelTypes
<1>2. FixedInv /\ ModelTypes /\ [Next]_vars => ModelTypes'
  <2> SUFFICES ASSUME FixedInv, ModelTypes, [Next]_vars PROVE ModelTypes'
    OBVIOUS
  <2>1. ASSUME UNCHANGED models PROVE ModelTypes'
    BY <2>1 DEF ModelTypes, models
  <2>2. ASSUME NEW o \in Objects, RandomizePokemonModelsOnLoad(o) PROVE ModelTypes'
    <3> DEFINE shown == IF save_file.model THEN replace_species_form(o) ELSE Look[o]
    <3>1. shown \in Mons
      BY ReplacedIsMon
    <3>2. preloaded' = [preloaded EXCEPT ![o] = shown]
      BY <2>2 DEF RandomizePokemonModelsOnLoad
    <3> HIDE DEF shown
    <3>3. preloaded' \in [Objects -> Mons \cup {None}]
      BY <3>1, <3>2 DEF ModelTypes
    <3> QED BY <2>2, <3>3 DEF ModelTypes, RandomizePokemonModelsOnLoad
  <2>3. ASSUME LogEncountObject PROVE ModelTypes'
    BY <2>3 DEF ModelTypes, LogEncountObject
  <2>4. ASSUME NEW o \in Objects \cup {Encounter}, RandomizePokemonModels(o) PROVE ModelTypes'
    <3> DEFINE shown == IF save_file.model /\ ~ is_encount_object
                        THEN replace_species_form(o) ELSE Look[o]
    <3>1. shown \in Mons
      BY ReplacedIsMon
    <3>2. built' = [built EXCEPT ![o] = shown]
      BY <2>4 DEF RandomizePokemonModels
    <3> HIDE DEF shown
    <3>3. built' \in [Objects \cup {Encounter} -> Mons \cup {None}]
      BY <3>1, <3>2 DEF ModelTypes
    <3>4. is_encount_object' \in BOOLEAN
      BY <2>4, Zenon DEF RandomizePokemonModels, FlagLeft
    <3>5. constructing' = FALSE /\ preloaded' = preloaded
      BY <2>4 DEF RandomizePokemonModels
    <3> QED BY <3>3, <3>4, <3>5 DEF ModelTypes
  <2>5. ASSUME NEW kind \in {"symbol", "hidden"}, NEW a \in Areas, RandomizeSlots(kind, a)
        PROVE  ModelTypes'
    BY <2>1, <2>5 DEF RandomizeSlots
  <2>6. ASSUME NEW r, NEW k, NEW g, LiveRandomizeSlotSpawns(r, k, g) PROVE ModelTypes'
    BY <2>1, <2>6 DEF LiveRandomizeSlotSpawns
  <2>7. ASSUME NEW s, NEW w, NEW g, RandomizeGimmickSpec(s, w, g) PROVE ModelTypes'
    BY <2>1, <2>7 DEF RandomizeGimmickSpec
  <2>8. ASSUME NEW t, RandomPokeData(t) PROVE ModelTypes'
    BY <2>1, <2>8 DEF RandomPokeData
  <2>9. ASSUME NEW h, RandomizeGiftPokemon(h) \/ RandomizeEventEncounters(h) PROVE ModelTypes'
    BY <2>1, <2>9 DEF RandomizeGiftPokemon, RandomizeEventEncounters
  <2>10. CASE UNCHANGED vars
    BY <2>1, <2>10 DEF vars, models
  <2>11. Next => ModelTypes'
    BY <2>2, <2>3, <2>4, <2>5, <2>6, <2>7, <2>8, <2>9, Zenon DEF Next
  <2> QED BY <2>10, <2>11
<1> QED BY Fixed, <1>1, <1>2, PTL DEF Spec

\* What becomes of a member of a team.
MemberWhole(old, new) ==
  IF ~ Playable(old) THEN new = old
  ELSE /\ new.level = IF save_file.trainer_boost THEN level_boost(old.level) ELSE old.level
       /\ IF save_file.trainer
          THEN new.mon \in InGame
               /\ Cardinality({ new.moves[i] : i \in 1 .. MoveSlots }) = MoveSlots
          ELSE new.mon = old.mon /\ new.moves = old.moves

LEMMA RandomMemberDraws ==
  ASSUME NEW g, Works(g), NEW level, NEW mon, NEW moves
  PROVE  LET d == RandomMember(g, [level |-> level, mon |-> mon, moves |-> moves])
         IN  /\ d.gen \in Places(g) /\ d.val.level = level /\ d.val.mon \in InGame
             /\ Cardinality({ d.val.moves[i] : i \in 1 .. MoveSlots }) = MoveSlots
<1> DEFINE member == [level |-> level, mon |-> mon, moves |-> moves]
           drawn == RandSpeciesAndForm(g)
           gender == RandMax(drawn.gen, 2)
           ability == RandMax(gender.gen, 3)
           item == RandHeldItem(ability.gen)
           set == RandMoves(item.gen)
           shiny == RandChance(set.gen, 4096)
<1>1. RandomMember(g, member) = [val |-> [member EXCEPT !.mon = drawn.val, !.moves = set.val],
                                 gen |-> shiny.gen]
  BY DEF RandomMember
<1> HIDE DEF shiny
<1>2. shiny = RandChance(set.gen, 4096) /\ set = RandMoves(item.gen)
  BY DEF shiny
<1> HIDE DEF set
<1>3. item = RandHeldItem(ability.gen)
  OBVIOUS
<1> HIDE DEF item
<1>4. ability = RandMax(gender.gen, 3)
  OBVIOUS
<1> HIDE DEF ability
<1>5. gender = RandMax(drawn.gen, 2)
  OBVIOUS
<1> HIDE DEF gender
<1>6. drawn \in [val : InGame, gen : Places(g)]
  BY RandSpeciesAndFormDraws
<1> HIDE DEF drawn
<1>7. gender.gen \in Places(g)
  <2>1. Ready(drawn.gen) /\ Places(drawn.gen) = Places(g)
    BY <1>6, StillWorks
  <2>2. RandMax(drawn.gen, 2) \in [val : Nat, gen : Places(drawn.gen)]
    BY <2>1, RandMaxDraws
  <2> QED BY <1>5, <2>1, <2>2
<1>8. ability.gen \in Places(g)
  <2>1. Ready(gender.gen) /\ Places(gender.gen) = Places(g)
    BY <1>7, StillWorks
  <2>2. RandMax(gender.gen, 3) \in [val : Nat, gen : Places(gender.gen)]
    BY <2>1, RandMaxDraws
  <2> QED BY <1>4, <2>1, <2>2
<1>9. item.gen \in Places(g)
  <2>1. Ready(ability.gen) /\ Places(ability.gen) = Places(g)
    BY <1>8, StillWorks
  <2>2. RandHeldItem(ability.gen).gen \in Places(ability.gen)
    BY <2>1, RandHeldItemDraws
  <2> QED BY <1>3, <2>1, <2>2
<1>10. set.val \in SomeMoves(MoveSlots) /\ set.gen \in Places(g)
  <2>1. Works(item.gen) /\ Places(item.gen) = Places(g)
    BY <1>9, StillWorks
  <2> QED BY <1>2, <2>1, RandMovesDraws
<1>11. shiny.gen \in Places(g)
  <2>1. Ready(set.gen) /\ Places(set.gen) = Places(g)
    BY <1>10, StillWorks
  <2>2. RandChance(set.gen, 4096) \in [val : BOOLEAN, gen : Places(set.gen)]
    BY <2>1, RandChanceDraws
  <2> QED BY <1>2, <2>1, <2>2
<1>12. Cardinality({ set.val[i] : i \in 1 .. MoveSlots }) = MoveSlots
  BY <1>10, MovesDiffer
<1> DEFINE x == drawn.val
           y == set.val
           z == shiny.gen
           changed == [member EXCEPT !.mon = x, !.moves = y]
<1>13. RandomMember(g, member) = [val |-> changed, gen |-> z]
  BY <1>1
<1>14. x \in InGame /\ z \in Places(g) /\ Cardinality({ y[i] : i \in 1 .. MoveSlots }) = MoveSlots
  BY <1>6, <1>11, <1>12
<1> HIDE DEF x, y, z
<1>15. changed.level = level /\ changed.mon = x /\ changed.moves = y
  OBVIOUS
<1> HIDE DEF changed, member
<1>16. RandomMember(g, member).gen = z /\ RandomMember(g, member).val = changed
  BY <1>13
<1> QED BY <1>14, <1>15, <1>16 DEF member

LEMMA MemberDraws ==
  ASSUME NEW g, Works(g), NEW member \in Members
  PROVE  Member(g, member).gen \in Places(g) /\ MemberWhole(member, Member(g, member).val)
<1> DEFINE level == IF save_file.trainer_boost THEN level_boost(member.level) ELSE member.level
           raised == [level |-> level, mon |-> member.mon, moves |-> member.moves]
<1>1. Raised(member) = raised
  BY DEF Raised, Members
<1>2. g \in Places(g)
  BY DEF Works
<1>3. CASE ~ Playable(member)
  BY <1>2, <1>3 DEF Member, MemberWhole
<1>4. CASE Playable(member) /\ ~ save_file.trainer
  <2>1. Member(g, member) = [val |-> raised, gen |-> g]
    BY <1>1, <1>4 DEF Member
  <2> QED BY <1>2, <1>4, <2>1 DEF MemberWhole
<1>5. CASE Playable(member) /\ save_file.trainer
  <2>1. Member(g, member) = RandomMember(g, raised)
    BY <1>1, <1>5 DEF Member
  <2> DEFINE new == RandomMember(g, raised)
  <2>2. /\ new.gen \in Places(g) /\ new.val.level = level /\ new.val.mon \in InGame
        /\ Cardinality({ new.val.moves[i] : i \in 1 .. MoveSlots }) = MoveSlots
    <3> HIDE DEF level
    <3> QED BY RandomMemberDraws
  <2> HIDE DEF new
  <2>3. MemberWhole(member, new.val)
    BY <1>5, <2>2 DEF MemberWhole
  <2> QED BY <2>1, <2>2, <2>3 DEF new
<1> QED BY <1>3, <1>4, <1>5

LEMMA TeamDrawn ==
  ASSUME FixedInv, NEW t \in Trainers, RandomPokeData(t)
  PROVE  /\ DOMAIN out'.members = DOMAIN Teams[t].members
         /\ \A k \in DOMAIN out'.members :
              IF k > Teams[t].size THEN out'.members[k] = Teams[t].members[k]
              ELSE MemberWhole(Teams[t].members[k], out'.members[k])
<1> DEFINE members == Teams[t].members
           n == Teams[t].size
           g == NewRandomGenerator(<<"trainer", t>>)
           draw == [k \in 1 .. n |-> [h \in Places(g) |-> Member(h, members[k])]]
           done == Draws(g, draw).val
<1>1. members \in Seq(Members) /\ n \in 0 .. Len(members)
  BY EncounterConstants
<1>2. Works(g)
  BY SeedWorks DEF FixedInv, Names
<1>3. out'.members = [k \in DOMAIN members |-> IF k <= n THEN done[k] ELSE members[k]]
  BY DEF RandomPokeData, team_size
<1> HIDE DEF g
<1>4. \A k \in 1 .. n : \A h \in Places(g) : draw[k][h] = Member(h, members[k])
  OBVIOUS
<1>5. n \in Nat /\ Len(draw) = n
  <2>1. n \in Nat
    BY <1>1
  <2> HIDE DEF members, n
  <2>2. draw = [k \in 1 .. n |-> draw[k]]
    OBVIOUS
  <2> HIDE DEF draw
  <2> QED BY <2>1, <2>2
<1>6. \A k \in 1 .. n : k \in DOMAIN members /\ members[k] \in Members
  <2>1. Len(members) \in Nat /\ DOMAIN members = 1 .. Len(members)
    BY <1>1
  <2> QED BY <1>1, <2>1
<1>7. \A k \in DOMAIN members : k <= n => k \in 1 .. n
  BY <1>1
<1> HIDE DEF draw, members, n
<1> PICK q : InTurn(q, g, draw, n)
  BY <1>5, DrawsInTurn
<1>q. /\ GoesThrough(q, g, draw, n)
      /\ Draws(g, draw) = [val |-> [k \in 1 .. n |-> draw[k][q[k - 1]].val], gen |-> q[n]]
  BY DEF InTurn
<1> USE <1>q
<1>8. ASSUME NEW k \in 1 .. n, NEW h \in Places(g)
      PROVE  draw[k][h].gen \in Places(g) /\ MemberWhole(members[k], draw[k][h].val)
  <2>1. Works(h) /\ Places(h) = Places(g)
    BY <1>2, StillWorks
  <2> QED BY <1>4, <1>6, <2>1, MemberDraws
<1>9. \A k \in 0 .. n : q[k] \in Places(g)
  <2>1. AllDraw(n, Places(g), draw)
    BY <1>8 DEF AllDraw
  <2>2. g \in Places(g)
    BY <1>2 DEF Works
  <2> QED BY <1>5, <2>1, <2>2, DrawsStay
<1>10. \A k \in 1 .. n : done[k] = draw[k][q[k - 1]].val
  OBVIOUS
<1> HIDE DEF done
<1>11. ASSUME NEW k \in 1 .. n PROVE MemberWhole(members[k], done[k])
  <2>1. q[k - 1] \in Places(g)
    BY <1>5, <1>9
  <2> QED BY <1>8, <1>10, <2>1
<1>12. ASSUME NEW k \in DOMAIN members
       PROVE  IF k > n THEN out'.members[k] = members[k]
              ELSE MemberWhole(members[k], out'.members[k])
  <2>0. k \in Int /\ n \in Int
    <3>1. DOMAIN members = 1 .. Len(members)
      BY <1>1
    <3> QED BY <1>5, <3>1
  <2>1. CASE k > n
    BY <1>3, <2>0, <2>1
  <2>2. CASE ~ (k > n)
    <3>1. k \in 1 .. n /\ k <= n
      BY <1>7, <2>0, <2>2
    <3>2. out'.members[k] = done[k]
      BY <1>3, <3>1
    <3> QED BY <1>11, <2>2, <3>1, <3>2
  <2> QED BY <2>1, <2>2
<1>13. DOMAIN out'.members = DOMAIN members
  BY <1>3
<1> QED BY <1>12, <1>13 DEF members, n

\* The slots of a fetched table are Pokemon of the game: a spawn may take any of them.
RowsInGame ==
  out.kind = "symbol" =>
    \A r \in DOMAIN out.rows : \A k \in DOMAIN out.rows[r].mons : out.rows[r].mons[k] \in InGame

OutWhole ==
  /\ template_data \in InGame \cup {None}
  /\ out.kind \in {"nothing", "symbol", "hidden", "spawn", "gimmick", "team", "gift", "event"}
  /\ out.kind = "spawn" => out.mon \in InGame
  /\ out.kind = "gift" => Given \in InGame
  /\ RowsInGame
  /\ TeamsWhole

LEMMA SymbolMons ==
  ASSUME FixedInv, NEW a \in Areas,
         NEW r \in DOMAIN SymbolSlots(a, Tables["symbol"][a]),
         NEW k \in DOMAIN SymbolSlots(a, Tables["symbol"][a])[r].mons
  PROVE  SymbolSlots(a, Tables["symbol"][a])[r].mons[k] \in InGame
<1> DEFINE rows == Tables["symbol"][a]
           slots == SymbolSlots(a, rows)
           g == NewRandomGenerator(<<"symbol", a>>)
<1>1. rows \in Seq(Rows)
  BY EncounterConstants
<1>2. \A i \in DOMAIN rows :
        rows[i] \in Rows /\ DOMAIN rows[i] = {"minimum_level", "maximum_level", "mons"}
  <2> HIDE DEF rows
  <2>1. \A i \in DOMAIN rows : rows[i] \in Rows
    BY <1>1
  <2> QED BY <2>1 DEF Rows
<1>3. CASE save_file.live
  <2>1. slots = rows
    BY <1>3 DEF SymbolSlots
  <2>2. r \in DOMAIN rows /\ k \in DOMAIN rows[r].mons
    BY <2>1
  <2> HIDE DEF rows
  <2>3. rows[r].mons[k] \in InGame
    BY <1>2, <2>2 DEF Rows
  <2> QED BY <2>1, <2>3 DEF rows
<1>4. CASE ~ save_file.live /\ ~ save_file.wild
  <2>1. slots = Boosted(rows, save_file.wild_boost)
    BY <1>4 DEF SymbolSlots
  <2> HIDE DEF rows
  <2>2. /\ DOMAIN Boosted(rows, save_file.wild_boost) = DOMAIN rows
        /\ \A i \in DOMAIN rows : Boosted(rows, save_file.wild_boost)[i].mons = rows[i].mons
    BY <1>2 DEF Boosted
  <2>3. r \in DOMAIN rows /\ slots[r].mons = rows[r].mons /\ k \in DOMAIN rows[r].mons
    BY <2>1, <2>2 DEF rows
  <2>4. rows[r].mons[k] \in InGame
    BY <1>2, <2>3 DEF Rows
  <2> QED BY <2>3, <2>4 DEF rows
<1>5. CASE ~ save_file.live /\ save_file.wild
  <2>1. DOMAIN slots = DOMAIN rows /\ slots[r].mons = DrawSlots(g, rows)[r]
    BY <1>5, TableDrawn
  <2>2. Works(g)
    BY SeedWorks DEF FixedInv, Names
  <2>3. r \in DOMAIN rows /\ k \in DOMAIN DrawSlots(g, rows)[r]
    BY <2>1
  <2>4. slots[r].mons[k] = DrawSlots(g, rows)[r][k]
    BY <2>1
  <2> HIDE DEF rows, g, slots
  <2> PICK j : DrawSlots(g, rows)[r][k] = Nth(g, j) /\ j \in Nat \ {0}
    <3>1. k \in 1 .. RowSlots /\ DrawSlots(g, rows)[r][k] = Nth(g, (r - 1) * RowSlots + k)
      <4>1. /\ DOMAIN DrawSlots(g, rows)[r] = 1 .. RowSlots
            /\ \A i \in 1 .. RowSlots :
                 DrawSlots(g, rows)[r][i] = Nth(g, (r - 1) * RowSlots + i)
        BY <1>1, <2>2, <2>3, SlotsAreFirst
      <4> QED BY <2>3, <4>1
    <3>2. (r - 1) * RowSlots \in Nat
      <4>1. Len(rows) \in Nat /\ r \in 1 .. Len(rows)
        BY <1>1, <2>3
      <4> QED BY <4>1, RowPlaces
    <3>3. (r - 1) * RowSlots + k \in Nat \ {0}
      <4>1. PICK b \in Nat : b = (r - 1) * RowSlots
        BY <3>2
      <4>2. b + k \in Nat \ {0}
        BY <3>1, EncounterConstants
      <4> QED BY <4>1, <4>2
    <3> QED BY <3>1, <3>3
  <2>5. Nth(g, j) \in InGame
    <3>1. PICK q : MonsThrough(q, g, j)
      BY <2>2, MonDraws
    <3>2. j \in 1 .. j /\ j - 1 \in 0 .. j
      OBVIOUS
    <3>3. Nth(g, j) = RandSpeciesAndForm(q[j - 1]).val
      BY <2>2, <3>1, <3>2, NthDrawn
    <3>4. Works(q[j - 1])
      BY <2>2, <3>1, <3>2, StillWorks DEF MonsThrough
    <3>5. RandSpeciesAndForm(q[j - 1]) \in [val : InGame, gen : Places(q[j - 1])]
      BY <3>4, RandSpeciesAndFormDraws
    <3> QED BY <3>3, <3>5
  <2> QED BY <2>4, <2>5 DEF slots, rows
<1> QED BY <1>3, <1>4, <1>5

LEMMA OutsWhole == Spec => []OutWhole
<1>1. Init => OutWhole
  BY DEF Init, OutWhole, RowsInGame, TeamsWhole
<1>2. FixedInv /\ OutWhole /\ [Next]_vars => OutWhole'
  <2> SUFFICES ASSUME FixedInv, OutWhole, [Next]_vars PROVE OutWhole'
    OBVIOUS
  <2>1. ASSUME UNCHANGED <<out, template_data, settings>> PROVE OutWhole'
    <3>1. Given' = Given /\ out' = out /\ template_data' = template_data /\ save_file' = save_file
      BY <2>1 DEF Given, settings
    <3>2. RowsInGame' = RowsInGame
      BY <3>1, Zenon DEF RowsInGame
    <3>3. TeamsWhole'
      <4> DEFINE W(o, f) ==
            o.kind = "team" =>
              \A k \in DOMAIN o.members :
                LET old == Teams[o.trainer].members[k]  new == o.members[k] IN
                IF k > Teams[o.trainer].size \/ ~ Playable(old) THEN new = old
                ELSE /\ new.level = IF f.trainer_boost THEN level_boost(old.level) ELSE old.level
                     /\ IF f.trainer
                        THEN /\ new.mon \in InGame
                             /\ Cardinality({ new.moves[i] : i \in 1 .. MoveSlots }) = MoveSlots
                        ELSE new.mon = old.mon /\ new.moves = old.moves
      <4>1. W(out, save_file)
        BY Zenon DEF OutWhole, TeamsWhole
      <4>2. W(out', save_file')
        <5> HIDE DEF W
        <5> QED BY <3>1, <4>1, Zenon
      <4> QED BY <4>2, Zenon DEF TeamsWhole
    <3> QED BY <3>1, <3>2, <3>3 DEF OutWhole
  <2>2. ASSUME out'.kind \in {"hidden", "gimmick", "event"}, UNCHANGED template_data
        PROVE  OutWhole'
    BY <2>2 DEF OutWhole, RowsInGame, TeamsWhole
  <2>3. ASSUME NEW kind \in {"symbol", "hidden"}, NEW a \in Areas, RandomizeSlots(kind, a)
        PROVE  OutWhole'
    <3>1. out'.kind = kind /\ UNCHANGED template_data
      BY <2>3 DEF RandomizeSlots
    <3>2. CASE kind = "hidden"
      BY <2>2, <3>1, <3>2
    <3>3. CASE kind = "symbol"
      <4>1. out'.rows = SymbolSlots(a, Tables["symbol"][a])
        BY <2>3, <3>3 DEF RandomizeSlots
      <4>2. RowsInGame'
        BY <4>1, SymbolMons DEF RowsInGame
      <4> QED BY <3>1, <3>3, <4>2 DEF OutWhole, TeamsWhole
    <3> QED BY <3>2, <3>3
  <2>4. ASSUME NEW n \in Numbers, NEW r, NEW k, LiveRandomizeSlotSpawns(r, k, Generator(n))
        PROVE  OutWhole'
    <3>1. out'.kind = "spawn" /\ UNCHANGED template_data
      BY <2>4 DEF LiveRandomizeSlotSpawns
    <3>2. out'.mon = IF save_file.live THEN RandSpeciesAndForm(Generator(n)).val
                     ELSE out.rows[r].mons[k]
      BY <2>4 DEF LiveRandomizeSlotSpawns
    <3>3. out.rows[r].mons[k] \in InGame
      BY <2>4 DEF LiveRandomizeSlotSpawns, OutWhole, RowsInGame
    <3>4. RandSpeciesAndForm(Generator(n)) \in [val : InGame, gen : Places(Generator(n))]
      BY EncounterConstants, GeneratorWorks, RandSpeciesAndFormDraws
    <3>5. out'.mon \in InGame
      BY <3>2, <3>3, <3>4
    <3> QED BY <3>1, <3>5 DEF OutWhole, RowsInGame, TeamsWhole
  <2>5. ASSUME NEW s, NEW w, NEW g, RandomizeGimmickSpec(s, w, g) PROVE OutWhole'
    BY <2>2, <2>5 DEF RandomizeGimmickSpec
  <2>6. ASSUME NEW t \in Trainers, RandomPokeData(t) PROVE OutWhole'
    <3>1. out'.kind = "team" /\ out'.trainer = t /\ UNCHANGED template_data /\ save_file' = save_file
      BY <2>6 DEF RandomPokeData, settings
    <3>2. TeamsWhole'
      <4>1. \A level : level_boost(level)' = level_boost(level)
        OBVIOUS
      <4>2. ASSUME NEW k \in DOMAIN out'.members
            PROVE  IF k > Teams[t].size \/ ~ Playable(Teams[t].members[k])
                   THEN out'.members[k] = Teams[t].members[k]
                   ELSE MemberWhole(Teams[t].members[k], out'.members[k])
        <5>1. IF k > Teams[t].size THEN out'.members[k] = Teams[t].members[k]
              ELSE MemberWhole(Teams[t].members[k], out'.members[k])
          BY <2>6, <4>2, TeamDrawn
        <5> QED BY <5>1 DEF MemberWhole
      <4> QED BY <3>1, <4>2 DEF TeamsWhole, MemberWhole
    <3> QED BY <3>1, <3>2 DEF OutWhole, RowsInGame
  <2>7. ASSUME NEW h \in Gifts, RandomizeGiftPokemon(h) PROVE OutWhole'
    <3> DEFINE drawn == GiftSpecies(NewRandomGenerator(<<"integer", h>>))
    <3>1. drawn \in InGame
      <4>1. Works(NewRandomGenerator(<<"integer", h>>))
        BY SeedWorks DEF FixedInv, Names
      <4>2. RandSpeciesAndForm(NewRandomGenerator(<<"integer", h>>))
              \in [val : InGame, gen : Places(NewRandomGenerator(<<"integer", h>>))]
        BY <4>1, RandSpeciesAndFormDraws
      <4> QED BY <4>2 DEF GiftSpecies
    <3>2. /\ out'.kind = "gift" /\ out'.hash = h
          /\ out'.at = IF save_file.gift THEN "template_data" ELSE "archive"
          /\ template_data' = IF save_file.gift THEN drawn ELSE template_data
      BY <2>7 DEF RandomizeGiftPokemon
    <3> HIDE DEF drawn
    <3>3. Given' \in InGame
      BY <3>1, <3>2, EncounterConstants DEF Given
    <3>4. template_data' \in InGame \cup {None}
      BY <3>1, <3>2 DEF OutWhole
    <3> QED BY <3>2, <3>3, <3>4 DEF OutWhole, RowsInGame, TeamsWhole
  <2>8. ASSUME NEW h, RandomizeEventEncounters(h) PROVE OutWhole'
    BY <2>2, <2>8 DEF RandomizeEventEncounters
  <2>9. ASSUME NEW o, \/ RandomizePokemonModelsOnLoad(o) \/ LogEncountObject
                      \/ RandomizePokemonModels(o)
        PROVE  OutWhole'
    BY <2>1, <2>9 DEF RandomizePokemonModelsOnLoad, LogEncountObject, RandomizePokemonModels
  <2>10. CASE UNCHANGED vars
    BY <2>1, <2>10 DEF vars, settings
  <2>11. Next => OutWhole'
    BY <2>3, <2>4, <2>5, <2>6, <2>7, <2>8, <2>9, Zenon DEF Next
  <2> QED BY <2>10, <2>11
<1> QED BY Fixed, <1>1, <1>2, PTL DEF Spec

(***************************************************************************)
(* Whatever a generator draws, what a hook hands back is of its kind: a    *)
(* Pokemon of the game, and a team of which every member has what the      *)
(* options promise, with moves that differ, and what lies behind it as it  *)
(* was.                                                                    *)
(***************************************************************************)
THEOREM OutcomesAreWhole == Spec => []OutcomeWhole
<1>1. FixedInv /\ ModelTypes /\ OutWhole => OutcomeWhole
  BY DEF FixedInv, ModelTypes, OutWhole, OutcomeWhole, TypeOK
<1> QED BY Fixed, ModelsTyped, OutsWhole, <1>1, PTL
=============================================================================
