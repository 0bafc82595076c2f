CONSTANTS
  BranchSpan = 256
  CondSpan = 128
  TestSpan = 128
  LitSpan = 256
  AdrSpan = 256
  PageSpan = 256
  PageSize = 8
  UintSpan = 1024
  Placements <- Places
  Offsets <- Referred
  MaxMixed = 2
SPECIFICATION MovingSpec
INVARIANTS OriginalKept TrampolineWhole
CHECK_DEADLOCK FALSE
