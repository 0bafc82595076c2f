CONSTANTS
  Pokemon = {p1, p2, p3, p4, p5, p6}
  MaxParty = 6
  NULL = NULL
SPECIFICATION Spec
SYMMETRY Symmetry
INVARIANTS PartyIsTeam
