CONSTANTS
  custom_messages = {"ask_settings", "option_wild_rng"}
  Shows <- MCShows
  GameMessages = {"game_message"}
  Strings = {"name"}
  GameNatives = {"ABKeyWait_"}
  Imports <- MCImports
  Sequences <- MCSequences
  LevelCaps = {60}
SPECIFICATION Spec
INVARIANTS TextsAreTheirOwn NativesFound
PROPERTIES SkipsWhileHeld
