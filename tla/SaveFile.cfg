CONSTANTS
  Half <- MCHalf
  FreshSeeds <- MCFreshSeeds
  Digits <- MCDigits
  Toggled <- MCToggled
  Zones <- MCZones
  MaxFaults = 1
  NoFile = NoFile
  Torn = Torn
SPECIFICATION Spec
INVARIANTS OptionsMasked DiskIsLastSave
PROPERTIES RestartRestores HealthySaveCompletes ImplementsConfigStore
