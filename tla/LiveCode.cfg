CONSTANTS
  PageWords = 48
  LineWords = 8
  Layout <- MCLayout
  Kernel <- MCKernel
  Hard32 <- MCHard
  Hard36 <- MCHard
  Functions <- MCFunctions
  Kinds <- MCKinds
  HookPool <- MCHookPool
  InlinePool <- MCInlinePool
  MainStart = 0
  MainSize = 140
  CallbackBase = 1000
  ImplBase = 1100
  Caller = 2000
  Code <- MCCode
  Spots <- MCSpots
  PatchSpots = {20, 21, 120}
  Instructions <- MCInstructions
  MaxHooks = 2
  MaxPatches = 2
SPECIFICATION Spec
INVARIANTS HandshakeDone CodeIsFresh WritesInPlace ContextKept PatchesDecode
PROPERTIES ImplementsInterposition CallsReturn
CHECK_DEADLOCK FALSE
