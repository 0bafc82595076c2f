CONSTANTS
  grass1 = grass1
  grass2 = grass2
  pond = pond
  stray = stray
  Event = Event
  Trainer = Trainer
  Objects <- MCObjects
  Hashes <- MCHashes
  ZoneOf <- MCZoneOf
  MaxWins = 2
SPECIFICATION RouteSpec
INVARIANTS OneEncounterPerZone FieldIsFiltered WonZonesAreConsumed
