CONSTANTS
  SpeciesMax = 3
  FormCount <- Forms
  InGame <- Known
  MoveMax = 4
  Usable = {1, 3, 4}
  MoveSlots = 2
  HeldItems <- Items
  TMs <- Machines
  Settings <- MCSettings
  Hashings <- MCHashings
  Numbers <- MCNumbers
  Areas = {"area"}
  Spawners = {"spawner"}
  Weathers = {"rain"}
  Trainers = {"trainer"}
  Gifts <- MCGifts
  Events <- MCEvents
  Objects = {"sobble", "fog", "slowpoke"}
  Encounter = "encounter"
  Tables <- MCTables
  RowSlots = 2
  GimmickLevel = 40
  Teams <- MCTeams
  GiftMon <- MCGiftMon
  EventMon <- MCEventMon
  Look <- MCLook
  hash_seed_map <- MCMap
  starters = {"sobble"}
  None = None
SPECIFICATION Spec
INVARIANTS TablesFollowTheSeed SpawnsBoostedOnce OutcomeWhole ModelsRight
