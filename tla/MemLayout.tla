----------------------------- MODULE MemLayout -----------------------------
(***************************************************************************)
(* source/lib/util/sys/mem_layout.cpp: the modules of the process, found   *)
(* by walking the address space.  The kernel describes it as ranges, one   *)
(* after the other, each free, code, data of a module or something else;   *)
(* a module is three of them, its text, its read-only and its own data.    *)
(***************************************************************************)
EXTENDS Integers, Sequences, FiniteSets

CONSTANTS
  Rtld, Main, Sdk, End,   \* ModuleIndex: the first two, the last, and how many
  Inferable               \* what svcUnmapMemory's error says: "32", "36" or "weird"

ASSUME MemLayoutAssumption ==
  /\ Rtld = 0 /\ Main = 1 /\ Sdk \in Nat /\ Main < Sdk /\ End = Sdk + 1
  /\ Inferable \subseteq {"32", "36", "weird"}

VARIABLES
  layout,           \* the ranges: [kind, start, size]
  self,             \* &__module_start
  at,               \* the range that was queried last, 0 before
  offset, prevOffset,
  state, curModInfo, nextModIdx,
  s_ModuleInfos,    \* ModuleIndex -> info; s_ModuleBitset is its domain
  s_SelfModuleIdx,
  s_Aslr,           \* start and size
  aborted

layoutVars == <<layout, self, at, offset, prevOffset, state, curModInfo, nextModIdx,
                s_ModuleInfos, s_SelfModuleIdx, s_Aslr, aborted>>

MemRange(start, size) == [start |-> start, size |-> size]
RangeEnd(r) == r.start + r.size
InRange(r, value) == r.start <= value /\ value < RangeEnd(r)

Nothing == MemRange(0, 0)
NoInfo == [total |-> Nothing, text |-> Nothing, rodata |-> Nothing, data |-> Nothing]

\* Where modules start, and the index of each: their order, the last one being the sdk.
Starts(l) ==
  { i \in 1 .. Len(l) - 2 : l[i].kind = "text" /\ l[i + 1].kind = "rodata" /\ l[i + 2].kind = "data" }

Before(starts, i) == { j \in starts : j < i }

IndexIn(starts, i) ==
  LET n == Cardinality(Before(starts, i)) IN IF n + 1 = Cardinality(starts) THEN Sdk ELSE n

(***************************************************************************)
(* What the kernel describes: ranges in order and without gaps, of which   *)
(* the first is free; no text follows another or half a module, or its     *)
(* module would be passed over; the linker, the program and the sdk.       *)
(***************************************************************************)
AddressSpace(l) ==
  /\ l \in Seq([kind : {"free", "other", "text", "rodata", "data"}, start : Nat, size : Nat \ {0}])
  /\ l # <<>> /\ l[1].kind = "free" /\ l[1].start = 0
  /\ \A i \in 2 .. Len(l) : /\ l[i].start = RangeEnd(l[i - 1])
                            /\ l[i].kind = "text" => l[i - 1].kind \notin {"text", "rodata"}
  /\ \A i, j \in 1 .. Len(l) : i < j => RangeEnd(l[i]) <= l[j].start
  /\ Cardinality(Starts(l)) >= 3

LayoutInit(l, s) ==
  /\ layout = l /\ self = s
  /\ at = 0 /\ offset = 0 /\ prevOffset = 0
  /\ state = "LookingForCodeStatic" /\ curModInfo = NoInfo /\ nextModIdx = Rtld
  /\ s_ModuleInfos = <<>> /\ s_SelfModuleIdx = End /\ s_Aslr = Nothing /\ aborted = FALSE

LayoutAbort ==
  /\ aborted' = TRUE
  /\ UNCHANGED <<layout, self, at, offset, prevOffset, state, curModInfo, nextModIdx,
                 s_ModuleInfos, s_SelfModuleIdx, s_Aslr>>

\* The address space has wrapped.
Wrapped == at # 0 /\ offset < prevOffset

\* The same range again: its size is not added.
QueriedAgain == IF at = 0 THEN 1 ELSE at

\* The range that svcQueryMemory describes next.
Queried == IF at = Len(layout) THEN 1 ELSE at + 1
RangeAt(i) == MemRange(layout[i].start, layout[i].size)

\* The next state and module if the range is what was expected, or reset.
ExpectedOrReset(kind, found) ==
  IF layout[Queried].kind = kind THEN found ELSE <<"LookingForCodeStatic", NoInfo>>

WithText(here)   == [NoInfo EXCEPT !.total.start = here.start, !.text = here]
WithRodata(here) == [curModInfo EXCEPT !.rodata = here]
WithData(here)   == [curModInfo EXCEPT !.data = here,
                                       !.total.size = RangeEnd(here) - curModInfo.total.start]

\* The state machine.
Matched ==
  LET here == RangeAt(Queried)
  IN CASE state = "LookingForCodeStatic" ->
            ExpectedOrReset("text", <<"ExpectingRodata", WithText(here)>>)
       [] state = "ExpectingRodata" ->
            ExpectedOrReset("rodata", <<"ExpectingData", WithRodata(here)>>)
       [] state = "ExpectingData" -> ExpectedOrReset("data", <<"found", WithData(here)>>)

\* One round of FindModules.
QueryMemory ==
  /\ ~ aborted /\ ~ Wrapped /\ s_SelfModuleIdx = End
  /\ IF nextModIdx >= End THEN LayoutAbort
     ELSE LET next == Matched
              found == next[1] = "found"
          IN /\ at' = Queried /\ prevOffset' = offset /\ offset' = layout[Queried].start
             /\ state' = IF found THEN "LookingForCodeStatic" ELSE next[1]
             /\ curModInfo' = IF found THEN NoInfo ELSE next[2]
             /\ nextModIdx' = nextModIdx + (IF found THEN 1 ELSE 0)
             /\ s_ModuleInfos' = IF found
                                 THEN [j \in 0 .. nextModIdx |->
                                         IF j = nextModIdx THEN next[2] ELSE s_ModuleInfos[j]]
                                 ELSE s_ModuleInfos
             /\ UNCHANGED <<layout, self, s_SelfModuleIdx, s_Aslr, aborted>>

HasModule(infos, index) == index \in DOMAIN infos

\* The sdk stays where it was found.
NotMoved(infos) == infos

\* Behind the loop: the last module is the sdk, and one is this one.
MovedToSdk(infos) ==
  [j \in (DOMAIN infos \ {nextModIdx - 1}) \cup {Sdk} |->
     IF j = Sdk THEN infos[nextModIdx - 1] ELSE infos[j]]

IndexOfSelf(infos) ==
  LET own == { j \in DOMAIN infos : infos[j].total.start = self }
  IN IF own = {} THEN End ELSE CHOOSE j \in own : \A k \in own : j <= k

FinishModules ==
  /\ ~ aborted /\ Wrapped /\ s_SelfModuleIdx = End
  /\ IF ~ HasModule(s_ModuleInfos, Rtld) \/ ~ HasModule(s_ModuleInfos, Main)
        \/ IndexOfSelf(MovedToSdk(s_ModuleInfos)) = End
     THEN LayoutAbort
     ELSE LET infos == MovedToSdk(s_ModuleInfos) IN
          /\ s_ModuleInfos' = infos
          /\ s_SelfModuleIdx' = IndexOfSelf(infos)
          /\ UNCHANGED <<layout, self, at, offset, prevOffset, state, curModInfo, nextModIdx,
                         s_Aslr, aborted>>

\* In 2 MB.  InferAslrAndStack: the end of the region is given as its size.
InferAslr(kernel) ==
  CASE kernel = "32" -> MemRange(1, 2048)
    [] kernel = "36" -> MemRange(64, 32768)

\* svcGetInfo knows the region, or does not know it.
FindRegions ==
  /\ ~ aborted /\ s_SelfModuleIdx # End /\ s_Aslr = Nothing
  /\ \/ s_Aslr' = MemRange(64, 2^18 - 64) /\ UNCHANGED aborted
     \/ \E kernel \in Inferable :
          IF kernel = "weird" THEN aborted' = TRUE /\ UNCHANGED s_Aslr
          ELSE s_Aslr' = InferAslr(kernel) /\ UNCHANGED aborted
  /\ UNCHANGED <<layout, self, at, offset, prevOffset, state, curModInfo, nextModIdx,
                 s_ModuleInfos, s_SelfModuleIdx>>

LayoutKnown == ~ aborted /\ s_SelfModuleIdx # End /\ s_Aslr # Nothing

InitMemLayout == QueryMemory \/ FinishModules \/ FindRegions

-----------------------------------------------------------------------------
(* What the other parts ask. *)
GetModuleInfo(index) == s_ModuleInfos[index]
GetSelfStart == GetModuleInfo(s_SelfModuleIdx).total.start

TryGetModule(pointer) == { j \in DOMAIN s_ModuleInfos : InRange(s_ModuleInfos[j].total, pointer) }

-----------------------------------------------------------------------------
(***************************************************************************)
(* Once the modules are known, they are all those of the address space and *)
(* in its order: the runtime linker first, then the program, the sdk last, *)
(* and this module is where its own start is.  Half modules, and whatever  *)
(* lies between them, are not taken for one, and every pointer into a      *)
(* module is found to be in that one.                                      *)
(***************************************************************************)
ModulesFound ==
  s_SelfModuleIdx # End =>
    LET starts == Starts(layout)
    IN /\ DOMAIN s_ModuleInfos = { IndexIn(starts, i) : i \in starts }
       /\ \A i \in starts :
            LET k == IndexIn(starts, i)
                info == s_ModuleInfos[k]
            IN /\ info.total.start = layout[i].start
               /\ RangeEnd(info.total) = RangeEnd(layout[i + 2])
               /\ info.rodata.start = RangeEnd(info.text)
               /\ info.data.start = RangeEnd(info.rodata)
               /\ TryGetModule(info.data.start) = {k}
               /\ TryGetModule(RangeEnd(info.total) - 1) = {k}
       /\ GetSelfStart = self
=============================================================================
