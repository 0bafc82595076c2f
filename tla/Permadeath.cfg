CONSTANTS
  Pokemon = {p1, p2, p3, p4}
  MaxParty = 4
  NULL = NULL
SPECIFICATION Spec
SYMMETRY Symmetry
INVARIANTS PartyWhole NoFaintedLeft OrderKept
PROPERTIES OnlyTheFaintedGo
