CONSTANTS
  Rtld = 0
  Main = 1
  Sdk = 12
  End = 13
  Inferable = {"32", "36", "weird"}
  File <- MCFile
  List <- MCList
  Manual <- MCManual
  Hash <- MCHash
  Resolver = 999
  Threads = {t1, t2}
  Aborters = {t1, t2}
  Layouts <- MCLayouts
  Place <- MCPlace
  This = "this"
  TableSets <- MCTableSets
  Versions = {"1", "3"}
  Order <- MCOrder
  Lazy = {"main", "this"}
SPECIFICATION Spec
INVARIANTS ProgramFound NamesBound
PROPERTIES StartsOrStops
CHECK_DEADLOCK FALSE
