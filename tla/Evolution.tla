----------------------------- MODULE Evolution -----------------------------
(***************************************************************************)
(* source/program/patches/evolution.hpp: the hook behind the game's        *)
(* function that loads the evolutions of a species draws new ones.  It     *)
(* draws until a candidate passes its tests, slot by slot, and looks the   *)
(* candidates up in the one personal-info record the game keeps.  Species  *)
(* stand for species and form; the draws are the choice of Draw.           *)
(***************************************************************************)
EXTENDS Integers, FiniteSets

CONSTANTS
  Species,
  Type1, Type2, Growth,    \* functions: the personal info of a species
  LastSlot,                \* of an evolution set: 8 in the game
  Vanilla,                 \* from species to the sets the game may load for it
  NoSpecies                \* species 0

Slots == 0 .. LastSlot

Trades == {"Trade", "TradeHeldItem", "TradeShelmetKarrablast"}
Levels == {"LevelUp", "LevelUpHeldItemDay", "LevelUpWithTeammate"}

Methods == [method : Trades \cup Levels \cup {"None"}, species : Species \cup {NoSpecies},
            level : {0, 1, 20, 30}]

ASSUME EvolutionConstants ==
  /\ NoSpecies \notin Species
  /\ LastSlot \in Nat
  /\ DOMAIN Growth = Species /\ DOMAIN Type1 = Species /\ DOMAIN Type2 = Species
  /\ \A s \in Species : Vanilla[s] \subseteq [Slots -> Methods]
  \* In the game an empty slot has no method, and no species evolves into itself.
  /\ \A s \in Species : \A set \in Vanilla[s] : \A k \in Slots :
       set[k].species = NoSpecies => set[k].method = "None"
  /\ \A s \in Species : \A set \in Vanilla[s] : \A k \in Slots : set[k].species # s

VARIABLES
  evo_rng,     \* the settings: enabled, match_types, each_level
  at,          \* "start", then "game", "slot", or "draw": in one of the two loops
  species,     \* whose evolutions are loaded
  methods,     \* *out->methods
  i,           \* the slot
  info,        \* the game's current personal info
  \* history, not in the program:
  loaded       \* the set before the hook changed it

evolutionVars == <<evo_rng, at, species, methods, i, info, loaded>>

EvoSettings == { s \in [enabled : BOOLEAN, match_types : BOOLEAN, each_level : BOOLEAN] :
                s.match_types \/ s.each_level => s.enabled }

EvolutionInit ==
  /\ evo_rng \in EvoSettings
  /\ at = "start"
  /\ species \in Species
  /\ methods \in Vanilla[species] /\ loaded = methods
  /\ i = 0
  /\ info = species

-----------------------------------------------------------------------------
\* FetchPersonalInfo of the base species is where its types and growth are read.
EachLevel(set) == [set EXCEPT ![0].method = "LevelUp", ![0].level = 1]

LoadEvolutions(s, set) ==
  /\ at \in {"start", "game"}
  /\ species' = s /\ loaded' = set
  /\ IF ~ evo_rng.enabled
     THEN methods' = set /\ at' = "game" /\ UNCHANGED <<i, info>>
     ELSE /\ info' = s
          /\ i' = 0
          /\ at' = IF evo_rng.each_level THEN "draw" ELSE "slot"
          /\ methods' = IF evo_rng.each_level THEN EachLevel(set) ELSE set
  /\ UNCHANGED evo_rng

\* The next slot, or back to the game behind the last one.
NextSlot == IF i = LastSlot THEN at' = "game" /\ i' = 0 ELSE at' = "slot" /\ i' = i + 1

\* Trades with an item, forgotten.
PlainTradesOnly(m) ==
  IF m.method = "Trade" THEN [m EXCEPT !.method = "LevelUp", !.level = 30] ELSE m

\* A trade for Karrablast or Shelmet only gets its argument, which no property reads.
WithoutTrade(m) ==
  CASE m.method = "Trade"         -> [m EXCEPT !.method = "LevelUp", !.level = 30]
    [] m.method = "TradeHeldItem" -> [m EXCEPT !.method = "LevelUpHeldItemDay"]
    [] OTHER -> m

StartSlot ==
  /\ at = "slot"
  /\ IF methods[i].species = NoSpecies THEN NextSlot /\ UNCHANGED methods
     ELSE /\ methods' = [methods EXCEPT ![i] = WithoutTrade(@)]
          /\ at' = "draw"
          /\ UNCHANGED i
  /\ UNCHANGED <<evo_rng, species, info, loaded>>

SharesType(a, b) == {Type1[a], Type2[a]} \cap {Type1[b], Type2[b]} # {}

\* The two tests ahead of the lookup.  With each_level the second one looks at the slot
\* once more, not at the candidate.
Changed(c) ==
  /\ c # methods[i].species
  /\ IF evo_rng.each_level THEN species # methods[i].species ELSE c # species

\* Both types have to agree; and the growth rate, not compared.
BothTypes(c) ==
  /\ Growth[c] = Growth[species]
  /\ evo_rng.match_types => Type1[c] = Type1[species] /\ Type2[c] = Type2[species]
AnyGrowth(c) == ~ evo_rng.match_types \/ SharesType(species, c)

Accepted(c) ==
  /\ Growth[c] = Growth[species]
  /\ ~ evo_rng.match_types \/ SharesType(species, c)

Draw(c) ==
  /\ at = "draw"
  /\ info' = c           \* RandSpeciesAndForm looks up what it draws
  /\ IF Changed(c) /\ Accepted(c)
     THEN IF evo_rng.each_level
          THEN /\ methods' = [k \in Slots |->
                    IF k = 0 THEN [methods[0] EXCEPT !.species = c]
                    ELSE [methods[k] EXCEPT !.method = "None"]]
               /\ at' = "game" /\ i' = 0
          ELSE methods' = [methods EXCEPT ![i].species = c] /\ NextSlot
     ELSE UNCHANGED <<at, methods, i>>
  /\ UNCHANGED <<evo_rng, species, loaded>>

EvolutionNext ==
  \/ \E s \in Species : \E set \in Vanilla[s] : LoadEvolutions(s, set)
  \/ StartSlot
  \/ \E c \in Species : Draw(c)

(***************************************************************************)
(* A loop in the hook runs on until it ends, and a generator as long as    *)
(* this one draws every species again and again.                           *)
(***************************************************************************)
Fairness == WF_evolutionVars(StartSlot) /\ \A c \in Species : SF_evolutionVars(Draw(c))

EvolutionSpec == EvolutionInit /\ [][EvolutionNext]_evolutionVars /\ Fairness

-----------------------------------------------------------------------------
EvolutionTypeOK ==
  /\ evo_rng \in EvoSettings
  /\ at \in {"start", "game", "slot", "draw"}
  /\ species \in Species /\ info \in Species
  /\ methods \in [Slots -> Methods]
  /\ i \in Slots

Drawn(k) == methods[k].species # loaded[k].species

\* README: evolutions are randomized, optionally with at least one type of the previous
\* stage.  Every evolution that was there is replaced by another species of the same
\* growth, none is added, and with the option it shares a type.
EvolutionsReplaced ==
  at = "game" /\ evo_rng.enabled =>
    \A k \in Slots :
      IF evo_rng.each_level /\ k > 0 THEN methods[k].method = "None"
      ELSE IF loaded[k].species = NoSpecies /\ ~ evo_rng.each_level THEN methods[k] = loaded[k]
      ELSE /\ Drawn(k)
           /\ Growth[methods[k].species] = Growth[species]
           /\ evo_rng.match_types => SharesType(species, methods[k].species)

\* README: trade evolutions instead evolve at level 30, with an item by leveling.
\* No species that evolves by one of these trades still needs one.
TradesReplaced ==
  at = "game" /\ evo_rng.enabled =>
    \A k \in Slots : methods[k].method \notin {"Trade", "TradeHeldItem"}

\* The hook returns to the game: a slot is left if some species could replace its
\* evolution, whatever the growth rates and types that have to agree.
Fits(c) ==
  /\ c \notin {species, loaded[i].species}
  /\ Growth[c] = Growth[species]
  /\ evo_rng.match_types => SharesType(species, c)

SlotsEnd ==
  \A k \in Slots :
    (at = "draw" /\ i = k /\ \E c \in Species : Fits(c)) ~> (at # "draw" \/ i # k)
=============================================================================
