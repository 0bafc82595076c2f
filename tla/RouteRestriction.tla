-------------------------- MODULE RouteRestriction --------------------------
(***************************************************************************)
(* source/program/patches/route_restriction.hpp: one encounter a zone.     *)
(* Two hooks remember the zone of an encounter when it begins, a third     *)
(* consumes that zone when the battle is won or the Pokemon is caught, and *)
(* a fourth deletes spawners and fishing points of consumed zones whenever *)
(* the game constructs field objects.  The consumed zones are part of      *)
(* save_file, so they live and die with the save (module SaveFile).        *)
(* The field, the battles and the moments at which the game constructs     *)
(* objects are external.  The specification is named apart from that of    *)
(* Permadeath, the other rule of a Nuzlocke run, which stands beside it in *)
(* Nuzlocke_proofs.                                                        *)
(***************************************************************************)
EXTENDS Integers

CONSTANTS
  Objects,   \* spawners and fishing points
  Hashes,    \* zone hashes, 0 among them
  ZoneOf,    \* restriction_zone_map, 0 for an object it does not hold
  MaxWins,   \* bound: how often a zone's encounter can be won or caught
  Event,     \* a wild battle no object of the field begins
  Trainer    \* a battle that is not a wild one

ASSUME RouteRestrictionConstants ==
  /\ 0 \in Hashes
  /\ ZoneOf \in [Objects -> Hashes]
  /\ MaxWins \in Nat
  /\ Event \notin Objects /\ Trainer \notin Objects /\ Event # Trainer

Zones == Hashes \ {0}
Results == {"Loss", "Win", "Unk2", "Flee", "Unk4", "Capture", "Unk6"}

VARIABLES
  enabled,              \* save_file.route_restriction.enabled
  blacklisted_zones,    \* save_file.route_restriction.blacklisted_zones
  encounter_zone_hash,  \* zone of the last encounter a hook has seen
  field,                \* the objects that exist on the field
  stage,                \* "field", "battle", or "exit": the battle is over and
                        \* the field not yet reconstructed
  battle,               \* what the current battle began from
  stored,               \* the save: its consumed zones and won encounters
  \* history, not in the program:
  wins                  \* encounters won or caught in each zone in this run

routeVars == <<enabled, blacklisted_zones, encounter_zone_hash, field, stage, battle,
              stored, wins>>

NoWins == [z \in Zones |-> 0]

RouteInit ==
  /\ enabled \in BOOLEAN
  /\ blacklisted_zones = {}
  /\ encounter_zone_hash = 0
  /\ field = {}
  /\ stage = "field"
  /\ battle = Trainer
  /\ stored = [zones |-> {}, wins |-> NoWins]
  /\ wins = NoWins

-----------------------------------------------------------------------------
(***************************************************************************)
(* FilterObject, on every object the game constructs.                      *)
(***************************************************************************)
Filtered(s) == enabled /\ ZoneOf[s] # 0 /\ ZoneOf[s] \in blacklisted_zones

\* An object comes into load distance, and goes out of it.
LoadObject(s) ==
  /\ stage = "field"
  /\ field' = IF Filtered(s) THEN field \ {s} ELSE field \cup {s}
  /\ UNCHANGED <<enabled, blacklisted_zones, encounter_zone_hash, stage, battle,
                 stored, wins>>

UnloadObject(s) ==
  /\ stage = "field"
  /\ field' = field \ {s}
  /\ UNCHANGED <<enabled, blacklisted_zones, encounter_zone_hash, stage, battle,
                 stored, wins>>

\* The hook at the reconstruction forgotten.
ReconstructUnfiltered ==
  /\ stage = "exit"
  /\ stage' = "field"
  /\ UNCHANGED <<enabled, blacklisted_zones, encounter_zone_hash, field, battle,
                 stored, wins>>

\* The field is reconstructed when a battle is left.
ReconstructField ==
  /\ stage = "exit"
  /\ stage' = "field"
  /\ field' = { s \in field : ~ Filtered(s) }
  /\ UNCHANGED <<enabled, blacklisted_zones, encounter_zone_hash, battle, stored, wins>>

-----------------------------------------------------------------------------
\* The hash stored only the first time; and the spawner's stored instead of the zone's.
StoreKeepsOld(s) ==
  encounter_zone_hash' = IF enabled /\ ZoneOf[s] # 0 /\ encounter_zone_hash = 0
                         THEN ZoneOf[s] ELSE encounter_zone_hash

\* An encounter with an object of the field, through StoreEncounterSpawner or
\* StoreFishingPoint: the map is searched, and a miss stores 0.
StoreZone(s) ==
  encounter_zone_hash' = IF enabled THEN ZoneOf[s] ELSE encounter_zone_hash

Encounter(s) ==
  /\ stage = "field"
  /\ s \in field
  /\ ZoneOf[s] # 0 => wins[ZoneOf[s]] < MaxWins
  /\ stage' = "battle"
  /\ battle' = s
  /\ StoreZone(s)
  /\ UNCHANGED <<enabled, blacklisted_zones, field, stored, wins>>

\* A battle neither hook sees: a scripted encounter, or a trainer.
OtherBattle ==
  /\ stage = "field"
  /\ stage' = "battle"
  /\ battle' \in {Event, Trainer}
  /\ UNCHANGED <<enabled, blacklisted_zones, encounter_zone_hash, field, stored, wins>>

\* Only a capture consumes.
ConsumesCaptured(result) == battle # Trainer /\ result = "Capture"

\* OnBattleResult.  Whatever the last hooked encounter was is consumed, 0 included.
Consumes(result) == battle # Trainer /\ result \in {"Win", "Capture"}

OnBattleResult(result) ==
  /\ stage = "battle"
  /\ stage' = "exit"
  /\ blacklisted_zones' =
       IF enabled /\ Consumes(result)
       THEN blacklisted_zones \cup {encounter_zone_hash} ELSE blacklisted_zones
  /\ wins' = [z \in Zones |->
       IF /\ battle \in Objects /\ ZoneOf[battle] = z
          /\ result \in {"Win", "Capture"}
       THEN wins[z] + 1 ELSE wins[z]]
  /\ UNCHANGED <<enabled, encounter_zone_hash, field, battle, stored>>

-----------------------------------------------------------------------------
\* The game's save, and a restart from it.  encounter_zone_hash is not saved.
Save ==
  /\ stage # "battle"
  /\ stored' = [zones |-> blacklisted_zones, wins |-> wins]
  /\ UNCHANGED <<enabled, blacklisted_zones, encounter_zone_hash, field, stage,
                 battle, wins>>

Restart ==
  /\ blacklisted_zones' = stored.zones
  /\ wins' = stored.wins
  /\ encounter_zone_hash' = 0
  /\ field' = {}
  /\ stage' = "field"
  /\ battle' = Trainer
  /\ UNCHANGED <<enabled, stored>>

RouteNext ==
  \/ \E s \in Objects : LoadObject(s) \/ UnloadObject(s) \/ Encounter(s)
  \/ OtherBattle
  \/ \E result \in Results : OnBattleResult(result)
  \/ ReconstructField \/ Save \/ Restart

RouteSpec == RouteInit /\ [][RouteNext]_routeVars

-----------------------------------------------------------------------------
RouteTypeOK ==
  /\ enabled \in BOOLEAN
  /\ blacklisted_zones \subseteq Hashes
  /\ encounter_zone_hash \in Hashes
  /\ field \subseteq Objects
  /\ stage \in {"field", "battle", "exit"}
  /\ battle \in Objects \cup {Event, Trainer}
  /\ stored \in [zones : SUBSET Hashes, wins : [Zones -> Nat]]
  /\ wins \in [Zones -> Nat]

\* The README: no Pokemon will spawn after one is caught or defeated on a route.  So
\* a run with the restriction wins or catches at most one encounter in each zone,
\* across saves and restarts, whatever objects were on the field when the zone was
\* consumed and whatever other battles came in between.
OneEncounterPerZone == enabled => \A z \in Zones : wins[z] <= 1

\* On the field nothing is left that spawns in a consumed zone: every way an object
\* can appear or stay passes the filter.
FieldIsFiltered ==
  enabled /\ stage = "field" =>
    \A s \in field : ZoneOf[s] # 0 => ZoneOf[s] \notin blacklisted_zones

\* A zone is free again only if the encounter that consumed it is undone as well: the
\* blacklist of the run and that of the save never lag behind the encounters won.
WonZonesAreConsumed ==
  enabled => \A z \in Zones :
    /\ wins[z] > 0 => z \in blacklisted_zones
    /\ stored.wins[z] > 0 => z \in stored.zones
=============================================================================
