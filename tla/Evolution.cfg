CONSTANTS
  karrablast = karrablast
  haunter = haunter
  onix = onix
  eevee = eevee
  gengar = gengar
  golem = golem
  NoSpecies = NoSpecies
  Species = {karrablast, haunter, onix, eevee, gengar, golem}
  LastSlot = 2
  Type1 <- Types1
  Type2 <- Types2
  Growth <- Growths
  Vanilla <- Sets
SPECIFICATION EvolutionSpec
INVARIANTS EvolutionsReplaced TradesReplaced
PROPERTIES SlotsEnd
