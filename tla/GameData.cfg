CONSTANTS
  SpeciesMax = 1
  FormCount <- Forms
  InGame <- Known
  MoveMax = 4
  Usable = {1, 3, 4}
  MoveSlots = 2
  HeldItems <- VALID_HELD_ITEMS
  TMs <- VALID_TMS
  Settings <- MCSettings
  Hashings <- MCHashings
  Learnsets <- MCLearnsets
  Cap = 6
  BaseStats <- MCBaseStats
  Shedinja = 292
  NumberMax = 27
  Shops <- MCShops
  Balls <- MCBalls
  Sparkles = {"sparkle"}
  TM_IDENTIFIERS <- MCIdentifiers
  Calls <- MCCalls
  None = None
SPECIFICATION Spec
INVARIANTS RecordsUsable OneTMPerGift
