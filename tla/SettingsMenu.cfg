CONSTANTS
  Half = 8
  FreshSeeds <- MCFreshSeeds
  SeedDigits = 2
  MaxFlips = 2
SPECIFICATION MenuSpec
INVARIANTS SeedIsWhatWasTyped
PROPERTIES PickTogglesWhatItShows FrozenOnceClosed
CHECK_DEADLOCK FALSE
