--------------------------- MODULE StartUp_proofs ---------------------------
(***************************************************************************)
(* That every module is found, in any address space; and that names mean   *)
(* what they should, for any files a linker has written.                   *)
(***************************************************************************)
EXTENDS StartUp, FiniteSetTheorems, SequenceTheorems, TLAPS

-----------------------------------------------------------------------------
(***************************************************************************)
(* FindModules.  A module of the address space that starts with its i-th   *)
(* range, and the modules that end within the first a ranges.              *)
(***************************************************************************)
InfoAt(l, i) ==
  [total  |-> MemRange(l[i].start, RangeEnd(l[i + 2]) - l[i].start),
   text   |-> MemRange(l[i].start, l[i].size),
   rodata |-> MemRange(l[i + 1].start, l[i + 1].size),
   data   |-> MemRange(l[i + 2].start, l[i + 2].size)]

Done(l, a) == { i \in Starts(l) : i + 2 <= a }

Rank(l, i) == Cardinality(Before(Starts(l), i))

RangeKinds == {"free", "other", "text", "rodata", "data"}
Ranges == [kind : RangeKinds, start : Nat, size : Nat \ {0}]

\* What an address space is made of.
LEMMA RangesApart ==
  ASSUME NEW l, AddressSpace(l)
  PROVE  /\ Len(l) \in Nat /\ \A i \in 1 .. Len(l) : l[i] \in Ranges
         /\ \A i, j \in 1 .. Len(l) : i < j => l[i].start + l[i].size <= l[j].start
         /\ \A i \in 2 .. Len(l) : l[i].start = l[i - 1].start + l[i - 1].size
         /\ \A i \in 2 .. Len(l) : l[i].kind = "text" => l[i - 1].kind \notin {"text", "rodata"}
<1>1. l \in Seq(Ranges)
  BY DEF AddressSpace, Ranges, RangeKinds
<1>2. Len(l) \in Nat /\ \A i \in 1 .. Len(l) : l[i] \in Ranges
  BY <1>1
<1>3. \A i, j \in 1 .. Len(l) : i < j => l[i].start + l[i].size <= l[j].start
  BY DEF AddressSpace, RangeEnd
<1>4. \A i \in 2 .. Len(l) : l[i].start = l[i - 1].start + l[i - 1].size
  BY DEF AddressSpace, RangeEnd
<1>5. \A i \in 2 .. Len(l) : l[i].kind = "text" => l[i - 1].kind \notin {"text", "rodata"}
  BY DEF AddressSpace
<1> QED
  BY <1>2, <1>3, <1>4, <1>5

LEMMA StartsFinite ==
  ASSUME NEW l, AddressSpace(l)
  PROVE  /\ Starts(l) \subseteq 1 .. Len(l) - 2 /\ IsFiniteSet(Starts(l))
         /\ \A i : Before(Starts(l), i) \subseteq Starts(l) /\ IsFiniteSet(Before(Starts(l), i))
         /\ \A i : Rank(l, i) \in Nat
         /\ \A a : Done(l, a) \subseteq Starts(l) /\ IsFiniteSet(Done(l, a))
<1>1. Starts(l) \subseteq 1 .. Len(l) - 2
  BY DEF Starts
<1>2. IsFiniteSet(1 .. Len(l) - 2)
  BY FS_Interval, RangesApart
<1>3. IsFiniteSet(Starts(l))
  BY <1>1, <1>2, FS_Subset
<1>4. \A i : Before(Starts(l), i) \subseteq Starts(l)
  BY DEF Before
<1>5. \A a : Done(l, a) \subseteq Starts(l)
  BY DEF Done
<1>6. \A i : IsFiniteSet(Before(Starts(l), i))
  BY <1>3, <1>4, FS_Subset
<1>7. \A i : Rank(l, i) \in Nat
  BY <1>6, FS_CardinalityType DEF Rank
<1> QED
  BY <1>1, <1>3, <1>4, <1>5, <1>6, <1>7, FS_Subset

\* Behind one range more there is one module more, or none.
LEMMA OneMore ==
  ASSUME NEW l, AddressSpace(l), NEW a \in 0 .. Len(l) - 1
  PROVE  /\ a - 1 \in Starts(l) => /\ Done(l, a + 1) = Done(l, a) \cup {a - 1}
                                   /\ a - 1 \notin Done(l, a)
                                   /\ Rank(l, a - 1) = Cardinality(Done(l, a))
                                   /\ Cardinality(Done(l, a + 1)) = Cardinality(Done(l, a)) + 1
         /\ a - 1 \notin Starts(l) => Done(l, a + 1) = Done(l, a)
<1>0. a \in Int /\ Starts(l) \subseteq Int
  BY RangesApart, StartsFinite
<1>1. CASE a - 1 \in Starts(l)
  <2>1. Done(l, a + 1) = Done(l, a) \cup {a - 1}
    BY <1>0, <1>1 DEF Done
  <2>2. a - 1 \notin Done(l, a)
    BY <1>0 DEF Done
  <2>3. Before(Starts(l), a - 1) = Done(l, a)
    BY <1>0 DEF Before, Done
  <2>4. IsFiniteSet(Done(l, a))
    BY StartsFinite
  <2>5. Cardinality(Done(l, a) \cup {a - 1}) = Cardinality(Done(l, a)) + 1
    BY <2>2, <2>4, FS_AddElement
  <2> QED
    BY <1>1, <2>1, <2>2, <2>3, <2>5 DEF Rank
<1>2. CASE a - 1 \notin Starts(l)
  <2>1. Done(l, a + 1) = Done(l, a)
    BY <1>0, <1>2 DEF Done
  <2> QED
    BY <1>2, <2>1
<1> QED
  BY <1>1, <1>2

\* Modules do not share a range, and are told apart by where they start.
LEMMA ModulesApart ==
  ASSUME NEW l, AddressSpace(l), NEW i \in Starts(l), NEW j \in Starts(l), i < j
  PROVE  /\ i + 2 < j
         /\ l[i].start < RangeEnd(l[i + 2]) /\ RangeEnd(l[i + 2]) <= l[j].start
<1>1. /\ i \in 1 .. Len(l) - 2 /\ j \in 1 .. Len(l) - 2 /\ Len(l) \in Nat
      /\ l[i + 1].kind = "rodata" /\ l[i + 2].kind = "data" /\ l[j].kind = "text"
  BY RangesApart, StartsFinite DEF Starts
<1>2. j # i + 1 /\ j # i + 2
  BY <1>1
<1>3. i + 2 < j
  BY <1>1, <1>2
<1>4. i + 2 \in 1 .. Len(l) /\ i \in 1 .. Len(l) /\ j \in 1 .. Len(l) /\ i < i + 2
  BY <1>1
<1>5. /\ l[i + 2].start + l[i + 2].size <= l[j].start
      /\ l[i].start + l[i].size <= l[i + 2].start
      /\ l[i] \in Ranges /\ l[i + 2] \in Ranges
  BY <1>3, <1>4, RangesApart
<1>6. l[i].start < l[i + 2].start + l[i + 2].size
  BY <1>5 DEF Ranges
<1> QED
  BY <1>3, <1>5, <1>6 DEF RangeEnd

\* What FindModules has stored when the first a ranges are behind it.
FoundUpTo(a) ==
  /\ nextModIdx = Cardinality(Done(layout, a)) /\ nextModIdx <= End
  /\ DOMAIN s_ModuleInfos = 0 .. nextModIdx - 1
  /\ \A i \in Done(layout, a) : /\ Rank(layout, i) \in 0 .. nextModIdx - 1
                                /\ s_ModuleInfos[Rank(layout, i)] = InfoAt(layout, i)
  /\ \A k \in 0 .. nextModIdx - 1 : \E i \in Done(layout, a) : Rank(layout, i) = k

TextAt(a) == a \in 1 .. Len(layout) /\ layout[a].kind = "text"
RodataAt(a) == a \in 2 .. Len(layout) /\ layout[a].kind = "rodata" /\ layout[a - 1].kind = "text"

\* The state is what the last two ranges, and no others, say.
HalfModule(a) ==
  \/ state = "LookingForCodeStatic" /\ ~ TextAt(a) /\ ~ RodataAt(a)
  \/ state = "ExpectingRodata" /\ TextAt(a) /\ curModInfo = WithText(RangeAt(a))
  \/ state = "ExpectingData" /\ RodataAt(a) /\ curModInfo = [WithText(RangeAt(a - 1)) EXCEPT !.rodata = RangeAt(a)]

\* On the way through the address space, and back at its start.
Scanning ==
  /\ offset = (IF at = 0 THEN 0 ELSE layout[at].start) /\ prevOffset <= offset
  /\ FoundUpTo(at) /\ HalfModule(at)
  /\ prevOffset \in Nat /\ at \in 0 .. Len(layout)

Scanned == at = 1 /\ offset < prevOffset /\ FoundUpTo(Len(layout))

\* The program is known to whoever asks.
MainKnown ==
  \E i \in Starts(layout) : Rank(layout, i) = 1 /\ s_ModuleInfos[Main] = InfoAt(layout, i)

LayoutInv ==
  /\ AddressSpace(layout)
  /\ s_SelfModuleIdx = End => Scanning \/ Scanned
  /\ s_SelfModuleIdx # End => MainKnown
  /\ ModulesFound

LEMMA InitLayout == Init => LayoutInv
<1> SUFFICES ASSUME Init PROVE LayoutInv
  OBVIOUS
<1>1. /\ AddressSpace(layout) /\ at = 0 /\ offset = 0 /\ prevOffset = 0
      /\ state = "LookingForCodeStatic" /\ nextModIdx = 0 /\ s_ModuleInfos = <<>>
      /\ s_SelfModuleIdx = End
  BY StartUpAssumption, MemLayoutAssumption DEF Init, LayoutInit
<1>2. Done(layout, 0) = {}
  BY <1>1, StartsFinite DEF Done
<1>3. FoundUpTo(0)
  BY <1>1, <1>2, FS_EmptySet, MemLayoutAssumption DEF FoundUpTo
<1>4. HalfModule(0)
  BY <1>1 DEF HalfModule, TextAt, RodataAt
<1>5. 0 \in 0 .. Len(layout)
  BY <1>1, RangesApart
<1> QED
  BY <1>1, <1>3, <1>4, <1>5 DEF LayoutInv, Scanning, ModulesFound

-----------------------------------------------------------------------------
(* One round of the loop that does not leave it. *)
Goes == /\ at' = Queried /\ prevOffset' = offset /\ offset' = layout[Queried].start
        /\ UNCHANGED <<layout, self, s_SelfModuleIdx, s_Aslr, aborted>>

NothingFound == UNCHANGED <<nextModIdx, s_ModuleInfos>>

ModuleFound(info) ==
  /\ nextModIdx' = nextModIdx + 1
  /\ s_ModuleInfos' = [j \in 0 .. nextModIdx |-> IF j = nextModIdx THEN info ELSE s_ModuleInfos[j]]
  /\ state' = "LookingForCodeStatic"

LEMMA QueryGoes ==
  ASSUME QueryMemory, nextModIdx \in Nat, nextModIdx < End
  PROVE  /\ Goes
         /\ Matched[1] # "found" => /\ state' = Matched[1] /\ curModInfo' = Matched[2]
                                   /\ NothingFound
         /\ Matched[1] = "found" => ModuleFound(Matched[2])
<1>1. ~ (nextModIdx >= End)
  BY MemLayoutAssumption
<1> QED
  BY <1>1 DEF QueryMemory, Goes, NothingFound, ModuleFound

LEMMA MatchedLooking ==
  ASSUME state = "LookingForCodeStatic"
  PROVE  IF layout[Queried].kind = "text"
         THEN Matched[1] = "ExpectingRodata" /\ Matched[2] = WithText(RangeAt(Queried))
         ELSE Matched[1] = "LookingForCodeStatic"
<1>1. Matched = ExpectedOrReset("text", <<"ExpectingRodata", WithText(RangeAt(Queried))>>)
  BY DEF Matched
<1> QED
  BY <1>1 DEF ExpectedOrReset

LEMMA MatchedRodata ==
  ASSUME state = "ExpectingRodata"
  PROVE  IF layout[Queried].kind = "rodata"
         THEN Matched[1] = "ExpectingData" /\ Matched[2] = WithRodata(RangeAt(Queried))
         ELSE Matched[1] = "LookingForCodeStatic"
<1>1. Matched = ExpectedOrReset("rodata", <<"ExpectingData", WithRodata(RangeAt(Queried))>>)
  BY DEF Matched
<1> QED
  BY <1>1 DEF ExpectedOrReset

LEMMA MatchedData ==
  ASSUME state = "ExpectingData"
  PROVE  IF layout[Queried].kind = "data"
         THEN Matched[1] = "found" /\ Matched[2] = WithData(RangeAt(Queried))
         ELSE Matched[1] = "LookingForCodeStatic"
<1>1. Matched = ExpectedOrReset("data", <<"found", WithData(RangeAt(Queried))>>)
  BY DEF Matched
<1> QED
  BY <1>1 DEF ExpectedOrReset

LEMMA FoundSame ==
  ASSUME NEW a, NEW b, FoundUpTo(a), Done(layout, b) = Done(layout, a), layout' = layout, NothingFound
  PROVE  FoundUpTo(b)'
<1>1. /\ Done(layout, b)' = Done(layout, a)
      /\ \A i : Rank(layout, i)' = Rank(layout, i) /\ InfoAt(layout, i)' = InfoAt(layout, i)
  BY DEF Done, Rank, Before, Starts, InfoAt, MemRange, RangeEnd
<1>2. nextModIdx' = nextModIdx /\ s_ModuleInfos' = s_ModuleInfos
  BY DEF NothingFound
<1> QED
  BY <1>1, <1>2 DEF FoundUpTo

LEMMA FoundMore ==
  ASSUME AddressSpace(layout), NEW a \in 0 .. Len(layout) - 1, FoundUpTo(a), nextModIdx < End,
         a - 1 \in Starts(layout), layout' = layout, ModuleFound(InfoAt(layout, a - 1))
  PROVE  FoundUpTo(a + 1)'
<1> DEFINE n == nextModIdx
<1>1. /\ Done(layout, a + 1) = Done(layout, a) \cup {a - 1}
      /\ a - 1 \notin Done(layout, a)
      /\ Rank(layout, a - 1) = Cardinality(Done(layout, a))
      /\ Cardinality(Done(layout, a + 1)) = Cardinality(Done(layout, a)) + 1
  BY OneMore
<1>2. n \in Nat /\ n = Cardinality(Done(layout, a)) /\ n < End /\ End \in Nat
  BY StartsFinite, FS_CardinalityType, MemLayoutAssumption DEF FoundUpTo
<1>3. n' = n + 1 /\ n' = Cardinality(Done(layout, a + 1)) /\ n' <= End
  BY <1>1, <1>2 DEF ModuleFound
<1>4. /\ DOMAIN s_ModuleInfos' = 0 .. n' - 1
      /\ s_ModuleInfos'[n] = InfoAt(layout, a - 1)
      /\ \A k \in 0 .. n - 1 : s_ModuleInfos'[k] = s_ModuleInfos[k]
  <2>1. 0 .. n' - 1 = 0 .. n
    BY <1>2, <1>3
  <2> QED
    BY <1>2, <2>1 DEF ModuleFound
<1>5. ASSUME NEW i \in Done(layout, a + 1)
      PROVE  /\ Rank(layout, i) \in 0 .. n' - 1
             /\ s_ModuleInfos'[Rank(layout, i)] = InfoAt(layout, i)
  <2>1. CASE i = a - 1
    BY <1>1, <1>2, <1>3, <1>4, <2>1
  <2>2. CASE i # a - 1
    <3>1. i \in Done(layout, a)
      BY <1>1, <2>2
    <3>2. Rank(layout, i) \in 0 .. n - 1 /\ s_ModuleInfos[Rank(layout, i)] = InfoAt(layout, i)
      BY <3>1 DEF FoundUpTo
    <3> QED
      BY <1>2, <1>3, <1>4, <3>2
  <2> QED
    BY <2>1, <2>2
<1>6. ASSUME NEW k \in 0 .. n' - 1 PROVE \E i \in Done(layout, a + 1) : Rank(layout, i) = k
  <2>1. CASE k = n
    BY <1>1, <1>2, <2>1
  <2>2. CASE k # n
    <3>1. k \in 0 .. n - 1
      BY <1>2, <1>3, <2>2
    <3>2. \E i \in Done(layout, a) : Rank(layout, i) = k
      BY <3>1 DEF FoundUpTo
    <3> QED
      BY <1>1, <3>2
  <2> QED
    BY <2>1, <2>2
<1>7. /\ Done(layout, a + 1)' = Done(layout, a + 1)
      /\ \A i : Rank(layout, i)' = Rank(layout, i) /\ InfoAt(layout, i)' = InfoAt(layout, i)
  BY DEF Done, Rank, Before, Starts, InfoAt, MemRange, RangeEnd
<1>8. (a + 1)' = a + 1
  OBVIOUS
<1> HIDE DEF n
<1> QED
  BY <1>3, <1>4, <1>5, <1>6, <1>7 DEF FoundUpTo, n

LEMMA TextOnly ==
  ASSUME NEW here
  PROVE  WithText(here)
           = [total |-> MemRange(here.start, 0), text |-> here, rodata |-> Nothing, data |-> Nothing]
<1>1. WithText(here) = [[NoInfo EXCEPT !.total = [@ EXCEPT !.start = here.start]] EXCEPT !.text = here]
  BY DEF WithText
<1>2. [Nothing EXCEPT !.start = here.start] = MemRange(here.start, 0)
  BY DEF Nothing, MemRange
<1>3. [NoInfo EXCEPT !.total = [@ EXCEPT !.start = here.start]]
        = [total |-> MemRange(here.start, 0), text |-> Nothing, rodata |-> Nothing, data |-> Nothing]
  BY <1>2 DEF NoInfo
<1> QED
  BY <1>1, <1>3

\* A range behind the last one that was queried.
LEMMA QueryOn ==
  ASSUME AddressSpace(layout), Scanning, at < Len(layout), QueryMemory, nextModIdx < End
  PROVE  Scanning'
<1> DEFINE l == layout
<1>0. at \in Nat /\ Len(l) \in Nat
  BY RangesApart DEF Scanning
<1> PICK a \in Nat : a = at
  BY <1>0
<1> PICK i \in Nat : i = a + 1
  OBVIOUS
<1>1. /\ a \in 0 .. Len(l) - 1 /\ i \in 1 .. Len(l) /\ Queried = i /\ i - 1 = a
  BY <1>0 DEF Queried
<1>2. nextModIdx \in Nat
  BY StartsFinite, FS_CardinalityType DEF Scanning, FoundUpTo
<1>3. Goes
  BY <1>2, QueryGoes
<1>4. layout' = layout /\ at' = i /\ offset' = l[i].start /\ prevOffset' = offset
  BY <1>1, <1>3 DEF Goes
<1>5. prevOffset' \in Nat /\ prevOffset' <= offset'
  <2>1. l[i].start \in Nat
    BY <1>1, RangesApart DEF Ranges
  <2>2. CASE a = 0
    BY <1>1, <1>4, <2>1, <2>2 DEF Scanning
  <2>3. CASE a # 0
    <3>1. a \in 1 .. Len(l) /\ a < i
      BY <1>0, <1>1, <2>3
    <3>2. l[a].start + l[a].size <= l[i].start /\ l[a] \in Ranges
      BY <1>1, <3>1, RangesApart
    <3> QED
      BY <1>1, <1>4, <2>1, <2>3, <3>2 DEF Scanning, Ranges
  <2> QED
    BY <2>2, <2>3
<1>6. FoundUpTo(a) /\ HalfModule(a)
  BY DEF Scanning
<1>7. /\ TextAt(i)' = TextAt(i) /\ RodataAt(i)' = RodataAt(i)
      /\ \A k : RangeAt(k)' = RangeAt(k)
  BY <1>4 DEF TextAt, RodataAt, RangeAt
<1>8. l[i].kind = "text" => ~ TextAt(a) /\ ~ RodataAt(a)
  BY <1>0, <1>1, RangesApart DEF TextAt, RodataAt
<1>9. a - 1 \in Starts(l) <=> RodataAt(a) /\ l[i].kind = "data"
  <2>1. a - 1 + 1 = a /\ a - 1 + 2 = i
    BY <1>1
  <2>2. a - 1 \in Starts(l) <=> /\ a - 1 \in 1 .. Len(l) - 2
                               /\ l[a - 1].kind = "text" /\ l[a].kind = "rodata" /\ l[i].kind = "data"
    BY <2>1 DEF Starts
  <2>3. a - 1 \in 1 .. Len(l) - 2 <=> a \in 2 .. Len(l)
    BY <1>0, <1>1
  <2> QED
    BY <2>2, <2>3 DEF RodataAt
<1>10. ASSUME a - 1 \notin Starts(l), NothingFound PROVE FoundUpTo(i)'
  <2>1. Done(l, i) = Done(l, a)
    BY <1>1, <1>10, OneMore
  <2> QED
    BY <1>4, <1>6, <1>10, <2>1, FoundSame
<1>11. TextAt(i) <=> l[i].kind = "text"
  BY <1>1 DEF TextAt
<1>12. RodataAt(i) <=> TextAt(a) /\ l[i].kind = "rodata"
  BY <1>0, <1>1 DEF TextAt, RodataAt
<1>13. FoundUpTo(i)' /\ HalfModule(i)'
  <2>1. CASE state = "LookingForCodeStatic" /\ ~ TextAt(a) /\ ~ RodataAt(a)
    <3>1. IF l[i].kind = "text" THEN Matched[1] = "ExpectingRodata" /\ Matched[2] = WithText(RangeAt(i))
                                ELSE Matched[1] = "LookingForCodeStatic"
      BY <1>1, <2>1, MatchedLooking
    <3>2. NothingFound /\ state' = Matched[1] /\ curModInfo' = Matched[2]
      BY <1>2, <3>1, QueryGoes
    <3>3. FoundUpTo(i)'
      BY <1>9, <1>10, <2>1, <3>2
    <3>4. WithText(RangeAt(i))' = WithText(RangeAt(i))
      BY <1>4 DEF WithText, RangeAt, NoInfo, Nothing
    <3>5. HalfModule(i)'
      BY <1>7, <1>11, <1>12, <2>1, <3>1, <3>2, <3>4 DEF HalfModule
    <3> QED
      BY <3>3, <3>5
  <2>2. CASE state = "ExpectingRodata" /\ TextAt(a) /\ curModInfo = WithText(RangeAt(a))
    <3>1. IF l[i].kind = "rodata" THEN Matched[1] = "ExpectingData" /\ Matched[2] = WithRodata(RangeAt(i))
                                  ELSE Matched[1] = "LookingForCodeStatic"
      BY <1>1, <2>2, MatchedRodata
    <3>2. NothingFound /\ state' = Matched[1] /\ curModInfo' = Matched[2]
      BY <1>2, <3>1, QueryGoes
    <3>3. ~ RodataAt(a)
      BY <2>2 DEF TextAt, RodataAt
    <3>4. FoundUpTo(i)'
      BY <1>9, <1>10, <3>2, <3>3
    <3>5. WithText(RangeAt(i - 1))' = WithText(RangeAt(a)) /\ RangeAt(i)' = RangeAt(i)
      BY <1>1, <1>4 DEF WithText, RangeAt, NoInfo, Nothing
    <3>6. l[i].kind = "rodata" =>
            curModInfo' = [WithText(RangeAt(i - 1))' EXCEPT !.rodata = RangeAt(i)']
      BY <2>2, <3>1, <3>2, <3>5 DEF WithRodata
    <3>7. HalfModule(i)'
      BY <1>7, <1>8, <1>11, <1>12, <2>2, <3>1, <3>2, <3>6 DEF HalfModule
    <3> QED
      BY <3>4, <3>7
  <2>3. CASE /\ state = "ExpectingData" /\ RodataAt(a)
             /\ curModInfo = [WithText(RangeAt(a - 1)) EXCEPT !.rodata = RangeAt(a)]
    <3>0. ~ TextAt(a)
      BY <2>3 DEF TextAt, RodataAt
    <3>1. IF l[i].kind = "data" THEN Matched[1] = "found" /\ Matched[2] = WithData(RangeAt(i))
                                ELSE Matched[1] = "LookingForCodeStatic"
      BY <1>1, <2>3, MatchedData
    <3>2. CASE l[i].kind = "data"
      <4>1. ModuleFound(WithData(RangeAt(i)))
        BY <1>2, <3>1, <3>2, QueryGoes
      <4>2. WithData(RangeAt(i)) = InfoAt(l, a - 1)
        <5>1. a - 1 + 1 = a /\ a - 1 + 2 = i
          BY <1>1
        <5> DEFINE half == [total |-> MemRange(l[a - 1].start, 0), text |-> RangeAt(a - 1),
                            rodata |-> RangeAt(a), data |-> Nothing]
        <5>2. WithText(RangeAt(a - 1))
                = [total |-> MemRange(l[a - 1].start, 0), text |-> RangeAt(a - 1),
                   rodata |-> Nothing, data |-> Nothing]
          BY TextOnly DEF RangeAt, MemRange
        <5>3. curModInfo = half
          BY <2>3, <5>2
        <5>4. WithData(RangeAt(i)) = [half EXCEPT !.data = RangeAt(i),
                                        !.total.size = RangeEnd(RangeAt(i)) - half.total.start]
          BY <5>3 DEF WithData
        <5>5. half.total.start = l[a - 1].start /\ RangeEnd(RangeAt(i)) = RangeEnd(l[i])
          BY DEF MemRange, RangeEnd, RangeAt
        <5>6. WithData(RangeAt(i))
                = [total |-> MemRange(l[a - 1].start, RangeEnd(l[i]) - l[a - 1].start),
                   text |-> RangeAt(a - 1), rodata |-> RangeAt(a), data |-> RangeAt(i)]
          <6> DEFINE whole == MemRange(l[a - 1].start, RangeEnd(l[i]) - l[a - 1].start)
          <6>1. [half.total EXCEPT !.size = RangeEnd(l[i]) - l[a - 1].start] = whole
            BY DEF MemRange
          <6>2. WithData(RangeAt(i)) = [[half EXCEPT !.data = RangeAt(i)] EXCEPT !.total = whole]
            BY <5>4, <5>5, <6>1
          <6> HIDE DEF whole
          <6> QED
            BY <6>2 DEF whole
        <5> QED
          BY <5>1, <5>6 DEF InfoAt, RangeAt
      <4>3. a - 1 \in Starts(l)
        BY <1>9, <2>3, <3>2
      <4>4. FoundUpTo(a + 1)'
        BY <1>1, <1>4, <1>6, <4>1, <4>2, <4>3, FoundMore
      <4>5. HalfModule(i)'
        BY <1>7, <1>8, <1>11, <1>12, <2>3, <3>0, <4>1 DEF HalfModule, ModuleFound
      <4> QED
        BY <4>4, <4>5
    <3>3. CASE l[i].kind # "data"
      <4>1. NothingFound /\ state' = Matched[1]
        BY <1>2, <3>1, <3>3, QueryGoes
      <4>2. FoundUpTo(i)'
        BY <1>9, <1>10, <3>3, <4>1
      <4>3. HalfModule(i)'
        BY <1>7, <1>8, <1>11, <1>12, <2>3, <3>0, <3>1, <3>3, <4>1 DEF HalfModule
      <4> QED
        BY <4>2, <4>3
    <3> QED
      BY <3>2, <3>3
  <2> QED
    BY <1>6, <2>1, <2>2, <2>3 DEF HalfModule
<1>14. FoundUpTo(at)' /\ HalfModule(at)'
  <2>1. FoundUpTo(at)' <=> FoundUpTo(i)'
    BY <1>4 DEF FoundUpTo
  <2>2. HalfModule(at)' <=> HalfModule(i)'
    BY <1>4 DEF HalfModule
  <2> QED
    BY <1>13, <2>1, <2>2
<1> QED
  BY <1>0, <1>1, <1>4, <1>5, <1>14 DEF Scanning

\* Behind the last range the first one is queried again, and it is free.
LEMMA QueryWraps ==
  ASSUME AddressSpace(layout), Scanning, at = Len(layout), QueryMemory, nextModIdx < End
  PROVE  Scanned'
<1> DEFINE l == layout
<1>1. Queried = 1 /\ l[1].kind = "free" /\ l[1].start = 0
  BY DEF Queried, AddressSpace
<1>2. nextModIdx \in Nat
  BY StartsFinite, FS_CardinalityType DEF Scanning, FoundUpTo
<1>3. Goes
  BY <1>2, QueryGoes
<1>4. Matched[1] # "found"
  BY <1>1, MatchedLooking, MatchedRodata, MatchedData DEF Scanning, HalfModule
<1>5. NothingFound
  BY <1>2, <1>4, QueryGoes
<1>6. at' = 1 /\ offset' = 0 /\ prevOffset' = offset /\ layout' = layout
  BY <1>1, <1>3 DEF Goes
<1>7. Len(l) \in Nat /\ Len(l) >= 3
  <2>0. Cardinality(Starts(l)) >= 3 /\ Cardinality({}) = 0
    BY FS_EmptySet DEF AddressSpace
  <2>1. Starts(l) # {}
    BY <2>0
  <2> QED
    BY <2>1, RangesApart, StartsFinite
<1>8. offset' < prevOffset'
  <2>1. 1 \in 1 .. Len(l) /\ Len(l) \in 1 .. Len(l) /\ 1 < Len(l)
    BY <1>7
  <2>2. l[1].start + l[1].size <= l[Len(l)].start /\ l[1] \in Ranges /\ l[Len(l)] \in Ranges
    BY <2>1, RangesApart
  <2> QED
    BY <1>1, <1>6, <1>7, <2>2 DEF Ranges, Scanning
<1> PICK n \in Nat : n = Len(l)
  BY <1>7
<1>9. FoundUpTo(n)'
  BY <1>5, <1>6, FoundSame DEF Scanning
<1>10. FoundUpTo(Len(layout))' <=> FoundUpTo(n)'
  BY <1>6 DEF FoundUpTo
<1> QED
  BY <1>6, <1>8, <1>9, <1>10 DEF Scanned

-----------------------------------------------------------------------------
\* The sdk is the last module there is, and every index is that of one module.
LEMMA MovedWell ==
  ASSUME AddressSpace(layout), FoundUpTo(Len(layout))
  PROVE  LET S == Starts(layout)
             infos == MovedToSdk(s_ModuleInfos)
         IN /\ \A i \in S : /\ IndexIn(S, i) \in DOMAIN infos
                            /\ infos[IndexIn(S, i)] = InfoAt(layout, i)
            /\ \A k \in DOMAIN infos : \E i \in S : IndexIn(S, i) = k
            /\ \E i \in S : Rank(layout, i) = 1 /\ infos[Main] = InfoAt(layout, i)
<1> DEFINE l == layout
           S == Starts(l)
           n == nextModIdx
           infos == MovedToSdk(s_ModuleInfos)
<1>1. Done(l, Len(l)) = S
  BY RangesApart, StartsFinite DEF Done
<1>2. /\ n \in Nat /\ n = Cardinality(S) /\ n >= 3 /\ n <= Sdk + 1 /\ Sdk \in Nat /\ Main = 1
      /\ DOMAIN s_ModuleInfos = 0 .. n - 1
  BY <1>1, StartsFinite, FS_CardinalityType, MemLayoutAssumption DEF FoundUpTo, AddressSpace
<1>3. /\ \A i \in S : Rank(l, i) \in 0 .. n - 1 /\ s_ModuleInfos[Rank(l, i)] = InfoAt(l, i)
      /\ \A k \in 0 .. n - 1 : \E i \in S : Rank(l, i) = k
  BY <1>1 DEF FoundUpTo
<1>4. \A i : IndexIn(S, i) = IF Rank(l, i) + 1 = n THEN Sdk ELSE Rank(l, i)
  BY <1>2 DEF IndexIn, Rank
<1>5. /\ DOMAIN infos = (0 .. n - 2) \cup {Sdk}
      /\ infos[Sdk] = s_ModuleInfos[n - 1]
      /\ \A k \in 0 .. n - 2 : infos[k] = s_ModuleInfos[k] /\ k # Sdk
  <2>1. infos = [j \in (0 .. n - 1 \ {n - 1}) \cup {Sdk} |->
                   IF j = Sdk THEN s_ModuleInfos[n - 1] ELSE s_ModuleInfos[j]]
    BY <1>2 DEF MovedToSdk
  <2>2. (0 .. n - 1) \ {n - 1} = 0 .. n - 2
    BY <1>2
  <2>3. \A k \in 0 .. n - 2 : k # Sdk
    BY <1>2
  <2> QED
    BY <2>1, <2>2, <2>3
<1> HIDE DEF infos, n, S
<1>6. ASSUME NEW i \in S
      PROVE  IndexIn(S, i) \in DOMAIN infos /\ infos[IndexIn(S, i)] = InfoAt(l, i)
  <2>1. CASE Rank(l, i) + 1 = n
    <3>1. IndexIn(S, i) = Sdk /\ Rank(l, i) = n - 1
      BY <1>2, <1>3, <1>4, <2>1
    <3> QED
      BY <1>3, <1>5, <3>1
  <2>2. CASE Rank(l, i) + 1 # n
    <3>1. IndexIn(S, i) = Rank(l, i) /\ Rank(l, i) \in 0 .. n - 2
      BY <1>2, <1>3, <1>4, <2>2
    <3> QED
      BY <1>3, <1>5, <3>1
  <2> QED
    BY <2>1, <2>2
<1>7. ASSUME NEW k \in DOMAIN infos PROVE \E i \in S : IndexIn(S, i) = k
  <2>1. CASE k = Sdk
    <3>1. n - 1 \in 0 .. n - 1 /\ n - 1 + 1 = n
      BY <1>2
    <3>2. PICK i \in S : Rank(l, i) = n - 1
      BY <1>3, <3>1
    <3> QED
      BY <1>4, <2>1, <3>1, <3>2
  <2>2. CASE k # Sdk
    <3>1. k \in 0 .. n - 2
      BY <1>5, <2>2
    <3>2. k \in 0 .. n - 1 /\ k + 1 # n
      BY <1>2, <3>1
    <3>3. PICK i \in S : Rank(l, i) = k
      BY <1>3, <3>2
    <3> QED
      BY <1>4, <3>2, <3>3
  <2> QED
    BY <2>1, <2>2
<1>8. \E i \in S : Rank(l, i) = 1 /\ infos[Main] = InfoAt(l, i)
  <2>1. 1 \in 0 .. n - 1 /\ 1 + 1 # n
    BY <1>2
  <2>2. PICK i \in S : Rank(l, i) = 1
    BY <1>3, <2>1
  <2>3. IndexIn(S, i) = Main
    BY <1>2, <1>4, <2>1, <2>2
  <2> QED
    BY <1>6, <2>2, <2>3
<1> QED
  BY <1>6, <1>7, <1>8 DEF infos, S

\* What a module covers, and that no other does.
LEMMA InfoCovers ==
  ASSUME NEW l, AddressSpace(l), NEW i \in Starts(l)
  PROVE  LET info == InfoAt(l, i)
         IN /\ info.total.start = l[i].start /\ RangeEnd(info.total) = RangeEnd(l[i + 2])
            /\ info.rodata.start = RangeEnd(info.text) /\ info.data.start = RangeEnd(info.rodata)
            /\ info.data.start \in Nat /\ RangeEnd(info.total) \in Nat /\ info.total.start \in Nat
            /\ info.total.start < info.data.start /\ info.data.start < RangeEnd(info.total)
            /\ RangeEnd(info.rodata) = l[i + 2].start
<1>1. /\ i \in 1 .. Len(l) - 2 /\ Len(l) \in Nat
  BY RangesApart, StartsFinite
<1>2. /\ i \in 1 .. Len(l) /\ i + 1 \in 2 .. Len(l) /\ i + 2 \in 2 .. Len(l)
      /\ i + 1 - 1 = i /\ i + 2 - 1 = i + 1
  BY <1>1
<1>3. l[i] \in Ranges /\ l[i + 1] \in Ranges /\ l[i + 2] \in Ranges
  BY <1>2, RangesApart
<1>4. l[i + 1].start = l[i].start + l[i].size /\ l[i + 2].start = l[i + 1].start + l[i + 1].size
  BY <1>2, RangesApart
<1>5. /\ l[i].start \in Nat /\ l[i].size \in Nat \ {0} /\ l[i + 1].size \in Nat \ {0}
      /\ l[i + 2].start \in Nat /\ l[i + 2].size \in Nat \ {0} /\ l[i + 1].start \in Nat
  BY <1>3 DEF Ranges
<1> DEFINE info == InfoAt(l, i)
           e == l[i + 2].start + l[i + 2].size
<1>6. /\ info.total = MemRange(l[i].start, e - l[i].start)
      /\ info.text = MemRange(l[i].start, l[i].size)
      /\ info.rodata = MemRange(l[i + 1].start, l[i + 1].size)
      /\ info.data = MemRange(l[i + 2].start, l[i + 2].size)
  BY DEF InfoAt, RangeEnd
<1>7. \A start, size : MemRange(start, size).start = start /\ MemRange(start, size).size = size
  BY DEF MemRange
<1> HIDE DEF info
<1>8. e \in Nat /\ l[i].start + (e - l[i].start) = e /\ l[i].start < l[i + 2].start /\ l[i + 2].start < e
  <2> PICK s \in Nat : s = l[i].start
    BY <1>5
  <2> PICK d \in Nat : d = l[i + 2].start
    BY <1>5
  <2> PICK a \in Nat \ {0} : a = l[i].size
    BY <1>5
  <2> PICK b \in Nat \ {0} : b = l[i + 1].size
    BY <1>5
  <2> PICK c \in Nat \ {0} : c = l[i + 2].size
    BY <1>5
  <2>1. d = s + a + b /\ e = d + c
    BY <1>4
  <2>2. e \in Nat /\ s + (e - s) = e /\ s < d /\ d < e
    BY <2>1
  <2> QED
    BY <2>2
<1>9. RangeEnd(info.total) = e /\ RangeEnd(l[i + 2]) = e
  BY <1>6, <1>7, <1>8 DEF RangeEnd
<1>10. /\ info.rodata.start = RangeEnd(info.text) /\ info.data.start = RangeEnd(info.rodata)
       /\ RangeEnd(info.rodata) = l[i + 2].start
  BY <1>4, <1>6, <1>7 DEF RangeEnd
<1>11. info.total.start = l[i].start /\ info.data.start = l[i + 2].start
  BY <1>6, <1>7
<1> QED
  BY <1>5, <1>8, <1>9, <1>10, <1>11 DEF info

LEMMA StartTypes ==
  ASSUME NEW l, AddressSpace(l), NEW i \in Starts(l)
  PROVE  i \in Int /\ l[i].start \in Nat /\ RangeEnd(l[i + 2]) \in Nat
<1>1. i \in Int
  BY RangesApart, StartsFinite
<1> DEFINE info == InfoAt(l, i)
<1>2. info.total.start \in Nat /\ RangeEnd(info.total) \in Nat
      /\ info.total.start = l[i].start /\ RangeEnd(info.total) = RangeEnd(l[i + 2])
  BY InfoCovers
<1> HIDE DEF info
<1> QED
  BY <1>1, <1>2

LEMMA FinishKeeps ==
  ASSUME LayoutInv, s_SelfModuleIdx = End, FinishModules
  PROVE  LayoutInv'
<1> DEFINE l == layout
           S == Starts(l)
           infos == MovedToSdk(s_ModuleInfos)
<1>1. AddressSpace(l) /\ FoundUpTo(Len(l))
  <2>1. ~ Scanning
    <3>1. Wrapped
      BY DEF FinishModules
    <3>2. CASE at = 0
      BY <3>1, <3>2 DEF Wrapped
    <3>3. CASE at # 0
      <4>1. Scanning => at \in 1 .. Len(layout) /\ offset \in Nat
        BY <3>3, RangesApart DEF Scanning, LayoutInv, Ranges
      <4> QED
        BY <3>1, <4>1 DEF Wrapped, Scanning
    <3> QED
      BY <3>2, <3>3
  <2> QED
    BY <2>1 DEF LayoutInv, Scanned
<1>2. CASE LayoutAbort
  BY <1>2 DEF LayoutAbort, LayoutInv, Scanning, Scanned, FoundUpTo, HalfModule, TextAt, RodataAt,
              RangeAt, WithText, MainKnown, ModulesFound, Done, Rank, InfoAt, TryGetModule, GetSelfStart,
              GetModuleInfo
<1>3. CASE ~ LayoutAbort
  <2>1. /\ s_ModuleInfos' = infos /\ s_SelfModuleIdx' = IndexOfSelf(infos)
        /\ IndexOfSelf(infos) # End /\ layout' = l /\ self' = self
    BY <1>3 DEF FinishModules
  <2>2. /\ \A i \in S : IndexIn(S, i) \in DOMAIN infos /\ infos[IndexIn(S, i)] = InfoAt(l, i)
        /\ \A k \in DOMAIN infos : \E i \in S : IndexIn(S, i) = k
        /\ \E i \in S : Rank(l, i) = 1 /\ infos[Main] = InfoAt(l, i)
    BY <1>1, MovedWell
  <2> HIDE DEF infos
  <2>3. ASSUME NEW i \in S, NEW x \in Nat, l[i].start <= x, x < RangeEnd(l[i + 2])
        PROVE  { j \in DOMAIN infos : InRange(infos[j].total, x) } = {IndexIn(S, i)}
    <3>1. ASSUME NEW j \in DOMAIN infos
          PROVE  InRange(infos[j].total, x) <=> j = IndexIn(S, i)
      <4>1. PICK k \in S : IndexIn(S, k) = j
        BY <2>2
      <4>2. InRange(infos[j].total, x) <=> l[k].start <= x /\ x < RangeEnd(l[k + 2])
        <5>1. infos[j] = InfoAt(l, k)
          BY <2>2, <4>1
        <5> QED
          BY <1>1, <5>1, InfoCovers DEF InRange
      <4>3. /\ l[k].start \in Nat /\ RangeEnd(l[k + 2]) \in Nat /\ k \in Int
            /\ l[i].start \in Nat /\ RangeEnd(l[i + 2]) \in Nat /\ i \in Int
        BY <1>1, StartTypes
      <4>4. CASE k = i
        BY <2>3, <4>1, <4>2, <4>4
      <4>5. CASE k < i
        <5>1. RangeEnd(l[k + 2]) <= l[i].start
          BY <1>1, <4>5, ModulesApart
        <5>2. ~ InRange(infos[j].total, x)
          BY <2>3, <4>2, <4>3, <5>1
        <5>3. ~ InRange(InfoAt(l, k).total, x) /\ InRange(InfoAt(l, i).total, x)
          BY <1>1, <2>2, <2>3, <4>1, <5>2, InfoCovers DEF InRange
        <5> QED
          BY <2>2, <4>1, <5>2, <5>3
      <4>6. CASE i < k
        <5>1. RangeEnd(l[i + 2]) <= l[k].start
          BY <1>1, <4>6, ModulesApart
        <5>2. ~ InRange(infos[j].total, x)
          BY <2>3, <4>2, <4>3, <5>1
        <5>3. ~ InRange(InfoAt(l, k).total, x) /\ InRange(InfoAt(l, i).total, x)
          BY <1>1, <2>2, <2>3, <4>1, <5>2, InfoCovers DEF InRange
        <5> QED
          BY <2>2, <4>1, <5>2, <5>3
      <4> QED
        BY <4>3, <4>4, <4>5, <4>6
    <3> QED
      BY <2>2, <3>1
  <2>4. ASSUME NEW j \in DOMAIN infos, NEW k \in DOMAIN infos,
               infos[j].total.start = infos[k].total.start
        PROVE  j = k
    <3>1. PICK i1 \in S : IndexIn(S, i1) = j
      BY <2>2
    <3>2. PICK i2 \in S : IndexIn(S, i2) = k
      BY <2>2
    <3>3. /\ infos[j].total.start = l[i1].start /\ infos[k].total.start = l[i2].start
          /\ l[i1].start \in Nat /\ l[i2].start \in Nat /\ i1 \in Int /\ i2 \in Int
          /\ RangeEnd(l[i1 + 2]) \in Nat /\ RangeEnd(l[i2 + 2]) \in Nat
      <4>1. infos[j] = InfoAt(l, i1) /\ infos[k] = InfoAt(l, i2)
        BY <2>2, <3>1, <3>2
      <4>2. infos[j].total.start = l[i1].start /\ infos[k].total.start = l[i2].start
        BY <1>1, <4>1, InfoCovers
      <4> QED
        BY <1>1, <4>2, StartTypes
    <3>4. CASE i1 < i2
      <4>1. l[i1].start < RangeEnd(l[i1 + 2]) /\ RangeEnd(l[i1 + 2]) <= l[i2].start
        BY <1>1, <3>4, ModulesApart
      <4>2. l[i1].start = l[i2].start
        BY <2>4, <3>3
      <4>3. RangeEnd(l[i1 + 2]) \in Nat /\ l[i1].start \in Nat /\ l[i2].start \in Nat
        BY <3>3
      <4> QED
        BY <4>1, <4>2, <4>3
    <3>5. CASE i2 < i1
      <4>1. l[i2].start < RangeEnd(l[i2 + 2]) /\ RangeEnd(l[i2 + 2]) <= l[i1].start
        BY <1>1, <3>5, ModulesApart
      <4>2. l[i1].start = l[i2].start
        BY <2>4, <3>3
      <4>3. RangeEnd(l[i2 + 2]) \in Nat /\ l[i1].start \in Nat /\ l[i2].start \in Nat
        BY <3>3
      <4> QED
        BY <4>1, <4>2, <4>3
    <3> QED
      BY <3>1, <3>2, <3>3, <3>4, <3>5
  <2>5. IndexOfSelf(infos) \in DOMAIN infos /\ infos[IndexOfSelf(infos)].total.start = self
    <3> DEFINE own == { j \in DOMAIN infos : infos[j].total.start = self }
    <3>1. own # {} /\ IndexOfSelf(infos) = CHOOSE j \in own : \A k \in own : j <= k
      BY <2>1 DEF IndexOfSelf
    <3>2. PICK j \in own : TRUE
      BY <3>1
    <3>3. j \in Int
      <4>1. PICK i \in S : IndexIn(S, i) = j
        BY <2>2
      <4>2. Rank(l, i) \in Nat /\ Sdk \in Nat
        BY <1>1, StartsFinite, MemLayoutAssumption
      <4> QED
        BY <4>1, <4>2 DEF IndexIn, Rank
    <3>4. \A k \in own : k = j
      BY <2>4
    <3>5. \E i \in own : \A k \in own : i <= k
      BY <3>3, <3>4
    <3>6. IndexOfSelf(infos) \in own
      BY <3>1, <3>5
    <3> QED
      BY <3>6
  <2> DEFINE found == IndexOfSelf(infos)
  <2> HIDE DEF found
  <2>6. DOMAIN infos = { IndexIn(S, i) : i \in S }
    BY <2>2
  <2>7. ASSUME NEW i \in S
        PROVE  LET k == IndexIn(S, i)
                   info == infos[k]
               IN /\ info.total.start = l[i].start
                  /\ RangeEnd(info.total) = RangeEnd(l[i + 2])
                  /\ info.rodata.start = RangeEnd(info.text)
                  /\ info.data.start = RangeEnd(info.rodata)
                  /\ { j \in DOMAIN infos : InRange(infos[j].total, info.data.start) } = {k}
                  /\ { j \in DOMAIN infos : InRange(infos[j].total, RangeEnd(info.total) - 1) } = {k}
    <3> DEFINE info == infos[IndexIn(S, i)]
    <3>1. /\ info.total.start = l[i].start /\ RangeEnd(info.total) = RangeEnd(l[i + 2])
          /\ info.rodata.start = RangeEnd(info.text) /\ info.data.start = RangeEnd(info.rodata)
          /\ info.data.start \in Nat /\ RangeEnd(info.total) \in Nat /\ info.total.start \in Nat
          /\ info.total.start < info.data.start /\ info.data.start < RangeEnd(info.total)
      BY <1>1, <2>2, InfoCovers
    <3> HIDE DEF info
    <3>2. /\ l[i].start <= info.data.start /\ info.data.start < RangeEnd(l[i + 2])
          /\ l[i].start <= RangeEnd(info.total) - 1 /\ RangeEnd(info.total) - 1 < RangeEnd(l[i + 2])
          /\ RangeEnd(info.total) - 1 \in Nat
      BY <3>1
    <3>3. { j \in DOMAIN infos : InRange(infos[j].total, info.data.start) } = {IndexIn(S, i)}
      BY <2>3, <3>1, <3>2
    <3>4. { j \in DOMAIN infos : InRange(infos[j].total, RangeEnd(info.total) - 1) } = {IndexIn(S, i)}
      BY <2>3, <3>1, <3>2
    <3> QED
      BY <3>1, <3>3, <3>4 DEF info
  <2>8. ModulesFound'
    BY <2>1, <2>5, <2>6, <2>7 DEF ModulesFound, TryGetModule, GetSelfStart, GetModuleInfo
  <2>9. MainKnown'
    BY <2>1, <2>2 DEF MainKnown, Rank, InfoAt
  <2> QED
    BY <1>1, <2>1, <2>8, <2>9 DEF LayoutInv
<1> QED
  BY <1>2, <1>3

LEMMA LayoutSame ==
  ASSUME LayoutInv,
         UNCHANGED <<layout, self, at, offset, prevOffset, state, curModInfo, nextModIdx,
                     s_ModuleInfos, s_SelfModuleIdx>>
  PROVE  LayoutInv'
BY DEF LayoutInv, Scanning, Scanned, FoundUpTo, HalfModule, TextAt, RodataAt, RangeAt, WithText,
       MainKnown, ModulesFound, Done, Rank, InfoAt, TryGetModule, GetSelfStart, GetModuleInfo

LEMMA QueryKeeps ==
  ASSUME LayoutInv, QueryMemory
  PROVE  LayoutInv'
<1>1. s_SelfModuleIdx = End /\ ~ Wrapped /\ AddressSpace(layout)
  BY DEF QueryMemory, LayoutInv
<1>2. Scanning
  BY <1>1 DEF LayoutInv, Scanned, Wrapped
<1>3. CASE nextModIdx >= End
  BY <1>3, LayoutSame DEF QueryMemory, LayoutAbort
<1>4. CASE ~ (nextModIdx >= End)
  <2>1. nextModIdx \in Nat /\ End \in Nat
    BY <1>1, <1>2, StartsFinite, FS_CardinalityType, MemLayoutAssumption DEF Scanning, FoundUpTo
  <2>2. nextModIdx < End
    BY <1>4, <2>1
  <2>3. layout' = layout /\ s_SelfModuleIdx' = End
    BY <1>1, <2>1, <2>2, QueryGoes DEF Goes
  <2>4. Scanning' \/ Scanned'
    <3>1. CASE at < Len(layout)
      BY <1>1, <1>2, <2>2, <3>1, QueryOn
    <3>2. CASE at = Len(layout)
      BY <1>1, <1>2, <2>2, <3>2, QueryWraps
    <3>3. at \in 0 .. Len(layout) /\ Len(layout) \in Nat
      BY <1>1, <1>2, RangesApart DEF Scanning
    <3> QED
      BY <3>1, <3>2, <3>3
  <2> QED
    BY <1>1, <2>3, <2>4 DEF LayoutInv, ModulesFound
<1> QED
  BY <1>3, <1>4

\* What InitPatcherImpl maps, from then on.
ProgramPatched ==
  pc \notin {"link", "layout"} =>
    \E i \in Starts(layout) :
      Rank(layout, i) = 1 /\ patched = MemRange(layout[i].start, layout[i + 2].start - layout[i].start)

ProgramInv == LayoutInv /\ ProgramPatched

LEMMA PatchesProgram ==
  ASSUME LayoutInv, InitPatcherImpl
  PROVE  ProgramPatched'
<1>1. AddressSpace(layout) /\ s_SelfModuleIdx # End
  BY DEF LayoutInv, InitPatcherImpl, LayoutKnown
<1>2. PICK i \in Starts(layout) : Rank(layout, i) = 1 /\ s_ModuleInfos[Main] = InfoAt(layout, i)
  BY <1>1 DEF LayoutInv, MainKnown
<1>3. patched' = CodeOf(InfoAt(layout, i)) /\ layout' = layout
  BY <1>2 DEF InitPatcherImpl, GetModuleInfo, layoutVars
<1>4. CodeOf(InfoAt(layout, i)) = MemRange(layout[i].start, layout[i + 2].start - layout[i].start)
  BY <1>1, InfoCovers DEF CodeOf
<1> QED
  BY <1>2, <1>3, <1>4 DEF ProgramPatched, Rank

LEMMA NextProgram == ProgramInv /\ [Next]_vars => ProgramInv'
<1> SUFFICES ASSUME ProgramInv, [Next]_vars PROVE ProgramInv'
  OBVIOUS
<1>1. CASE FindLayout
  <2>1. LayoutInv'
    <3>1. CASE QueryMemory
      BY <3>1, QueryKeeps DEF ProgramInv
    <3>2. CASE FinishModules
      BY <3>2, FinishKeeps DEF ProgramInv, FinishModules
    <3>3. CASE FindRegions
      BY <3>3, LayoutSame DEF ProgramInv, FindRegions
    <3> QED
      BY <1>1, <3>1, <3>2, <3>3 DEF FindLayout, InitMemLayout
  <2>2. pc' = "layout"
    BY <1>1 DEF FindLayout
  <2> QED
    BY <2>1, <2>2 DEF ProgramInv, ProgramPatched
<1>2. CASE InitPatcherImpl
  <2>1. LayoutInv'
    BY <1>2, LayoutSame DEF InitPatcherImpl, layoutVars, ProgramInv
  <2> QED
    BY <1>2, <2>1, PatchesProgram DEF ProgramInv
<1>3. CASE UNCHANGED layoutVars /\ UNCHANGED patched /\ (pc \in {"link", "layout"} => pc' \in {"link", "layout"})
  <2>1. LayoutInv'
    BY <1>3, LayoutSame DEF layoutVars, ProgramInv
  <2> QED
    BY <1>3, <2>1 DEF ProgramInv, ProgramPatched, layoutVars, Rank
<1>4. CASE Link
  BY <1>3, <1>4 DEF Link
<1>5. CASE InitVersion \/ ApplyTables
  BY <1>3, <1>5 DEF InitVersion, ApplyTables
<1>6. CASE FailedCheck \/ Aborting \/ Calling \/ UNCHANGED vars
  BY <1>3, <1>6 DEF FailedCheck, Aborting, Calling, vars
<1> QED
  BY <1>1, <1>2, <1>4, <1>5, <1>6 DEF Next

(***************************************************************************)
(* FindModules: in any address space every module is found for what it is, *)
(* half modules between them notwithstanding, the linker and the program   *)
(* first and the sdk last, and what the patchers map is the program.       *)
(***************************************************************************)
THEOREM ProgramIsFound == Spec => []ProgramFound
<1>1. Init => ProgramInv
  BY InitLayout DEF ProgramInv, ProgramPatched, Init
<1>2. ProgramInv => ProgramFound
  BY DEF ProgramInv, LayoutInv, ProgramPatched, ProgramFound, PatchersMapProgram, Rank
<1> QED
  BY <1>1, <1>2, NextProgram, PTL DEF Spec
-----------------------------------------------------------------------------
(***************************************************************************)
(* The operators of the loader.                                            *)
(***************************************************************************)
LEMMA TheOne ==
  ASSUME NEW x
  PROVE  The({x}) = x
BY DEF The

LEMMA LenOf ==
  ASSUME NEW n \in Nat, NEW f, f = [i \in 1 .. n |-> f[i]]
  PROVE  Len(f) = n /\ DOMAIN f = 1 .. n
<1> DEFINE S == { f[i] : i \in 1 .. n }
<1>1. f \in [1 .. n -> S]
  OBVIOUS
<1>2. f \in Seq(S)
  BY <1>1, SeqDef
<1>3. DOMAIN f = 1 .. n /\ DOMAIN f = 1 .. Len(f) /\ Len(f) \in Nat
  BY <1>1, <1>2
<1> HIDE DEF S
<1>4. \A a, b \in Nat : 1 .. a = 1 .. b => a <= b
  <2> SUFFICES ASSUME NEW a \in Nat, NEW b \in Nat, 1 .. a = 1 .. b, b < a PROVE FALSE
    OBVIOUS
  <2>1. a \in 1 .. a /\ a \notin 1 .. b
    OBVIOUS
  <2> QED
    BY <2>1
<1> QED
  BY <1>3, <1>4

\* There is a first of some numbers: the finite sets are well-founded by inclusion.
LEMMA LeastNat ==
  ASSUME NEW T, T \subseteq Nat, T # {}
  PROVE  \E n \in T : \A m \in T : n <= m
<1> DEFINE R == StrictSubsetOrdering(Nat)
           UpTo(n) == { m \in T : m <= n }
           C == { UpTo(n) : n \in T }
<1>1. IsWellFoundedOn(R, FiniteSubsetsOf(Nat))
  BY FS_StrictSubsetOrderingWellFounded
<1>2. C \subseteq FiniteSubsetsOf(Nat) /\ C # {}
  <2>1. ASSUME NEW n \in T PROVE UpTo(n) \in FiniteSubsetsOf(Nat)
    <3>1. UpTo(n) \in SUBSET Nat /\ n \in Nat
      OBVIOUS
    <3>2. IsFiniteSet(UpTo(n))
      BY <3>1, FS_BoundedSetOfNaturals
    <3> QED
      BY <3>1, <3>2 DEF FiniteSubsetsOf
  <2> QED
    BY <2>1
<1>3. PICK c \in C : \A d \in C : ~ (<<d, c>> \in R)
  <2> HIDE DEF C, R
  <2> QED
    BY <1>1, <1>2, WFMin
<1>4. PICK n \in T : c = UpTo(n)
  OBVIOUS
<1>5. n \in Int /\ \A m \in T : m \in Int
  OBVIOUS
<1>6. ASSUME NEW m \in T, m < n PROVE FALSE
  <2>1. n \in UpTo(n) /\ n \notin UpTo(m) /\ \A k \in UpTo(m) : k \in UpTo(n)
    BY <1>5, <1>6
  <2>2. UpTo(m) \in SUBSET Nat /\ UpTo(n) \in SUBSET Nat /\ UpTo(m) \in C
    OBVIOUS
  <2>3. <<UpTo(m), UpTo(n)>> \in R
    BY <2>1, <2>2 DEF StrictSubsetOrdering
  <2> QED
    BY <1>3, <1>4, <2>2, <2>3
<1> QED
  BY <1>5, <1>6

LEMMA FirstOne ==
  ASSUME NEW T, T \subseteq Nat, T # {}
  PROVE  \E k \in T : First(T) = {k} /\ \A j \in T : k <= j
<1>1. PICK k \in T : \A j \in T : k <= j
  BY LeastNat
<1>2. \A j \in T : j \in Int
  OBVIOUS
<1>3. \A j \in T : (\A i \in T : j <= i) <=> j = k
  BY <1>1, <1>2
<1>4. First(T) = {k}
  BY <1>3 DEF First
<1> QED
  BY <1>1, <1>4

\* Before the i-th entry by its hash, and by its place among equal ones.
NotBehind(table, j, i) ==
  \/ table[j].hash < table[i].hash
  \/ (table[j].hash = table[i].hash /\ j <= i)

HashedTable(table) == DOMAIN table = 1 .. Len(table) /\ Len(table) \in Nat /\ \A i \in DOMAIN table : table[i].hash \in Nat

(***************************************************************************)
(* The ranks are the places of a table, each taken once.                   *)
(***************************************************************************)
LEMMA RanksOfTable ==
  ASSUME NEW table, HashedTable(table)
  PROVE  /\ \A i, j \in DOMAIN table : HashRank(table, j) <= HashRank(table, i) => NotBehind(table, j, i)
         /\ \A k \in DOMAIN table : \E i \in DOMAIN table : HashRank(table, i) = k
         /\ \A i \in DOMAIN table : HashRank(table, i) \in DOMAIN table
         /\ \A i, j \in DOMAIN table : HashRank(table, i) = HashRank(table, j) => i = j
<1> DEFINE D == DOMAIN table
           n == Len(table)
           UpTo(i) == { j \in D : NotBehind(table, j, i) }
           rank == [i \in D |-> HashRank(table, i)]
<1>1. D = 1 .. n /\ n \in Nat /\ \A i \in D : table[i].hash \in Int /\ i \in Int
  BY DEF HashedTable
<1>2. IsFiniteSet(D) /\ Cardinality(D) = n
  <2> HIDE DEF D, n
  <2>1. IsFiniteSet(1 .. n) /\ Cardinality(1 .. n) = IF 1 > n THEN 0 ELSE n - 1 + 1
    BY <1>1, FS_Interval
  <2> QED
    BY <1>1, <2>1
<1>3. \A i \in D : HashRank(table, i) = Cardinality(UpTo(i))
  BY DEF HashRank, NotBehind
<1>4. ASSUME NEW i \in D
      PROVE  IsFiniteSet(UpTo(i)) /\ HashRank(table, i) \in 1 .. n
  <2>1. UpTo(i) \in SUBSET D /\ i \in UpTo(i)
    BY <1>1 DEF NotBehind
  <2> HIDE DEF UpTo, D
  <2>2. IsFiniteSet(UpTo(i)) /\ Cardinality(UpTo(i)) <= n
    BY <1>2, <2>1, FS_Subset
  <2>3. Cardinality(UpTo(i)) \in Nat /\ Cardinality(UpTo(i)) # 0
    BY <2>1, <2>2, FS_CardinalityType, FS_EmptySet
  <2> QED
    BY <1>1, <1>3, <2>2, <2>3
<1>5. ASSUME NEW i \in D, NEW j \in D, NotBehind(table, j, i), i # j
      PROVE  HashRank(table, j) < HashRank(table, i)
  <2>1. UpTo(j) \in SUBSET UpTo(i) /\ i \in UpTo(i) /\ i \notin UpTo(j)
    BY <1>1, <1>5 DEF NotBehind
  <2> HIDE DEF UpTo, D
  <2>2. Cardinality(UpTo(j)) <= Cardinality(UpTo(i)) /\ Cardinality(UpTo(j)) # Cardinality(UpTo(i))
    BY <1>4, <2>1, FS_Subset
  <2> QED
    BY <1>3, <1>4, <2>2
<1>6. \A i \in D : HashRank(table, i) \in Nat
  <2> HIDE DEF D, UpTo, n
  <2>1. \A k \in 1 .. n : k \in Nat
    BY <1>1
  <2> QED
    BY <1>4, <2>1
<1>7. \A i, j \in D : NotBehind(table, j, i) \/ NotBehind(table, i, j)
  BY <1>1 DEF NotBehind
<1>8. \A i, j \in D : HashRank(table, j) <= HashRank(table, i) => NotBehind(table, j, i)
  <2> SUFFICES ASSUME NEW i \in D, NEW j \in D, HashRank(table, j) <= HashRank(table, i),
                      ~ NotBehind(table, j, i)
               PROVE  FALSE
    OBVIOUS
  <2>1. i # j
    BY <1>7
  <2>2. HashRank(table, i) < HashRank(table, j)
    BY <1>5, <1>7, <2>1
  <2>3. HashRank(table, i) \in Nat /\ HashRank(table, j) \in Nat
    BY <1>6
  <2> QED
    BY <2>2, <2>3
<1>9. \A i, j \in D : HashRank(table, i) = HashRank(table, j) => i = j
  <2> SUFFICES ASSUME NEW i \in D, NEW j \in D, HashRank(table, i) = HashRank(table, j), i # j
               PROVE  FALSE
    OBVIOUS
  <2>1. HashRank(table, i) \in Nat /\ HashRank(table, j) \in Nat
    BY <1>6
  <2> QED
    BY <1>5, <1>7, <2>1
<1>10. rank \in Injection(D, D)
  <2>1. rank \in [D -> D]
    BY <1>1, <1>4
  <2> QED
    BY <1>9, <2>1 DEF Injection, IsInjective
<1>11. rank \in Surjection(D, D)
  <2> HIDE DEF D, rank
  <2> QED
    BY <1>2, <1>10, FS_Injection
<1>12. \A k \in D : \E i \in D : rank[i] = k
  <2> HIDE DEF D, rank
  <2> QED
    BY <1>11 DEF Surjection
<1> QED
  BY <1>1, <1>4, <1>8, <1>9, <1>12

\* In the order of their hashes, and what was there.
LEMMA SortedWell ==
  ASSUME NEW entries, HashedTable(Converted(entries))
  PROVE  LET table == SortedTable(entries)  given == Converted(entries) IN
         /\ DOMAIN table = DOMAIN entries /\ Len(table) = Len(given)
         /\ \A k \in DOMAIN table : \E i \in DOMAIN entries : table[k] = given[i]
         /\ \A i \in DOMAIN entries : \E k \in DOMAIN table : table[k] = given[i]
         /\ \A j, k \in DOMAIN table : j <= k => table[j].hash <= table[k].hash
<1> DEFINE given == Converted(entries)
           table == SortedTable(entries)
           of(k) == CHOOSE i \in DOMAIN given : HashRank(given, i) = k
<1>1. DOMAIN given = DOMAIN entries
  BY DEF Converted
<1>2. table = [k \in DOMAIN given |-> given[of(k)]]
  BY DEF SortedTable
<1>3. DOMAIN given = 1 .. Len(given) /\ Len(given) \in Nat /\ \A i \in DOMAIN given : given[i].hash \in Nat
  BY DEF HashedTable
<1> HIDE DEF given, table
<1>4. Len(table) = Len(given) /\ DOMAIN table = DOMAIN given
  <2> HIDE DEF of
  <2>1. DOMAIN table = 1 .. Len(given)
    BY <1>2, <1>3
  <2>2. table = [k \in 1 .. Len(given) |-> given[of(k)]]
    BY <1>2, <1>3
  <2> QED
    BY <1>3, <2>1, <2>2, LenOf
<1>5. \A k \in DOMAIN given : of(k) \in DOMAIN given /\ HashRank(given, of(k)) = k
  BY RanksOfTable DEF given
<1>6. \A i \in DOMAIN given : HashRank(given, i) \in DOMAIN given /\ of(HashRank(given, i)) = i
  BY RanksOfTable, <1>5 DEF given
<1>7. ASSUME NEW j \in DOMAIN given, NEW k \in DOMAIN given, j <= k
      PROVE  table[j].hash <= table[k].hash
  <2>1. PICK x, y \in DOMAIN given : x = of(j) /\ y = of(k)
    BY <1>5
  <2>2. NotBehind(given, x, y)
    BY <1>5, <1>7, <2>1, RanksOfTable DEF given
  <2>3. table[j] = given[x] /\ table[k] = given[y]
    BY <1>2, <2>1
  <2>4. given[x].hash \in Nat /\ given[y].hash \in Nat
    BY <1>3
  <2>5. given[x].hash <= given[y].hash
    BY <2>2, <2>4 DEF NotBehind
  <2> QED
    BY <2>3, <2>5
<1>8. \A k \in DOMAIN given : table[k] = given[of(k)]
  BY <1>2
<1> HIDE DEF of
<1> QED
  BY <1>1, <1>4, <1>5, <1>6, <1>7, <1>8 DEF given, table

\* What is found for a hash is the entry that has it.
LEMMA FoundByHash ==
  ASSUME NEW table, NEW hash \in Nat, DOMAIN table = 1 .. Len(table), Len(table) \in Nat,
         \A i \in DOMAIN table : table[i].hash \in Nat,
         \A j, k \in DOMAIN table : j <= k => table[j].hash <= table[k].hash
  PROVE  /\ FindByHash(table, hash) \subseteq { table[i] : i \in { j \in DOMAIN table : table[j].hash = hash } }
         /\ (\E i \in DOMAIN table : table[i].hash = hash) => \E i \in DOMAIN table : FindByHash(table, hash) = {table[i]}
<1> DEFINE n == Len(table)
           NotLess == { i \in 1 .. n + 1 : i > n \/ ~ table[i].hash < hash }
           i0 == LowerBound(table, hash)
<1>1. FindByHash(table, hash) \subseteq { table[i] : i \in { j \in DOMAIN table : table[j].hash = hash } }
  BY DEF FindByHash
<1>2. \E i \in 1 .. n + 1 : (i > n \/ ~ table[i].hash < hash) /\ (i = 1 \/ table[i - 1].hash < hash)
  <2>1. NotLess \subseteq Nat /\ n + 1 \in NotLess
    OBVIOUS
  <2>2. PICK i \in NotLess : \A j \in NotLess : i <= j
    BY <2>1, LeastNat
  <2>3. i \in 1 .. n + 1 /\ (i > n \/ ~ table[i].hash < hash)
    OBVIOUS
  <2>4. CASE i # 1
    <3>1. i - 1 \in 1 .. n /\ i - 1 \notin NotLess
      BY <2>2, <2>3, <2>4
    <3> QED
      BY <2>3, <3>1
  <2> QED
    BY <2>3, <2>4
<1>3. /\ i0 \in 1 .. n + 1 /\ (i0 > n \/ ~ table[i0].hash < hash)
      /\ (i0 = 1 \/ table[i0 - 1].hash < hash)
  BY <1>2 DEF LowerBound
<1> HIDE DEF i0, n
<1>4. ASSUME NEW j \in DOMAIN table, table[j].hash = hash
      PROVE  i0 \in DOMAIN table /\ table[i0].hash = hash
  <2>1. j \in Int /\ i0 \in Int /\ n \in Int /\ j \in 1 .. n /\ DOMAIN table = 1 .. n
    BY <1>3 DEF n
  <2>2. CASE j < i0
    <3>1. i0 - 1 \in 1 .. n /\ j <= i0 - 1 /\ i0 # 1
      BY <1>3, <2>1, <2>2
    <3>2. table[j].hash <= table[i0 - 1].hash /\ table[i0 - 1].hash < hash /\ table[i0 - 1].hash \in Nat
      BY <1>3, <2>1, <3>1
    <3> QED
      BY <1>4, <3>2
  <2>3. CASE i0 <= j
    <3>1. i0 \in 1 .. n
      BY <1>3, <2>1, <2>3
    <3>2. table[i0].hash <= hash /\ ~ table[i0].hash < hash /\ table[i0].hash \in Nat
      BY <1>3, <1>4, <2>1, <2>3, <3>1
    <3> QED
      BY <2>1, <3>1, <3>2
  <2> QED
    BY <2>1, <2>2, <2>3
<1>5. ASSUME NEW j \in DOMAIN table, table[j].hash = hash
      PROVE  FindByHash(table, hash) = {table[i0]}
  BY <1>4, <1>5 DEF FindByHash, i0
<1> QED
  BY <1>1, <1>4, <1>5
-----------------------------------------------------------------------------
(***************************************************************************)
(* What FileAssumption says of one file.                                   *)
(***************************************************************************)
Symbol == [name : DOMAIN Hash, value : Nat, defined : BOOLEAN, bind : STRING, hidden : BOOLEAN]
SymbolOf(m, r) == File[m].symbols[r.sym]

LEMMA SymbolTypes ==
  ASSUME NEW m \in DOMAIN File, NEW i \in DOMAIN File[m].symbols
  PROVE  /\ File[m].symbols[i] \in Symbol
         /\ File[m].symbols[i].defined => i # 0
         /\ \A j \in DOMAIN File[m].symbols :
              File[m].symbols[i].defined /\ File[m].symbols[j].defined
                /\ File[m].symbols[i].name = File[m].symbols[j].name => i = j
<1>1. LinkedFile(m)
  BY FileAssumption
<1>2. File[m].symbols \in [DOMAIN File[m].symbols -> Symbol]
  BY <1>1 DEF LinkedFile, Symbol
<1>3. /\ File[m].symbols[i].defined => i # 0
      /\ \A j \in DOMAIN File[m].symbols :
              File[m].symbols[i].defined /\ File[m].symbols[j].defined
                /\ File[m].symbols[i].name = File[m].symbols[j].name => i = j
  BY <1>1 DEF LinkedFile
<1> QED
  BY <1>2, <1>3

Relocation(m, r) ==
  /\ r.sym \in DOMAIN File[m].symbols /\ r.offset \in DOMAIN File[m].words
  /\ r.addend \in Int /\ File[m].words[r.offset] \in Int

LEMMA RelocationTypes ==
  ASSUME NEW m \in DOMAIN File
  PROVE  /\ DOMAIN File[m].rel = 1 .. Len(File[m].rel) /\ Len(File[m].rel) \in Nat
         /\ DOMAIN File[m].rela = 1 .. Len(File[m].rela) /\ Len(File[m].rela) \in Nat
         /\ DOMAIN File[m].plt = 1 .. Len(File[m].plt) /\ Len(File[m].plt) \in Nat
         /\ \A i \in DOMAIN File[m].rel : Relocation(m, File[m].rel[i])
         /\ \A i \in DOMAIN File[m].rela : Relocation(m, File[m].rela[i])
         /\ \A i \in DOMAIN File[m].plt : Relocation(m, File[m].plt[i])
<1> DEFINE R == [type : STRING, sym : DOMAIN File[m].symbols, offset : DOMAIN File[m].words, addend : Int]
<1>1. LinkedFile(m)
  BY FileAssumption
<1>2. /\ File[m].rel \in Seq(R) /\ File[m].rela \in Seq(R) /\ File[m].plt \in Seq(R)
      /\ \A a \in DOMAIN File[m].words : File[m].words[a] \in Int
  BY <1>1 DEF LinkedFile, Relocations
<1>3. ASSUME NEW r \in R PROVE Relocation(m, r)
  BY <1>2 DEF Relocation
<1>4. ASSUME NEW s \in Seq(R)
      PROVE  DOMAIN s = 1 .. Len(s) /\ Len(s) \in Nat /\ \A i \in DOMAIN s : Relocation(m, s[i])
  <2> HIDE DEF R
  <2>1. DOMAIN s = 1 .. Len(s) /\ Len(s) \in Nat /\ \A i \in DOMAIN s : s[i] \in R
    OBVIOUS
  <2> QED
    BY <1>3, <2>1
<1> QED
  BY <1>2, <1>4

\* The relocations of a word: its own, and none of another table.
LEMMA AtOwn ==
  ASSUME NEW r, OnePerWord(r), NEW i \in DOMAIN r, NEW from, NEW to, from .. to \subseteq DOMAIN r
  PROVE  At(r, from, to, r[i].offset) = {i} \cap (from .. to)
BY DEF At, OnePerWord

LEMMA AtOther ==
  ASSUME NEW r, NEW s, OtherWords(r, s) \/ OtherWords(s, r), NEW i \in DOMAIN r, NEW from, NEW to,
         from .. to \subseteq DOMAIN s
  PROVE  At(s, from, to, r[i].offset) = {}
BY DEF At, OtherWords

\* How many relocations the fields of an object tell of.
LEMMA CountTypes ==
  ASSUME NEW m \in DOMAIN File
  PROVE  /\ Tag(m, "RELSZ", 0) = Len(File[m].rel) /\ Tag(m, "RELASZ", 0) = Len(File[m].rela)
         /\ Tag(m, "PLTRELSZ", 0) = Len(File[m].plt)
         /\ Tag(m, "RELCOUNT", 0) \in 0 .. Len(File[m].rel)
         /\ Tag(m, "RELACOUNT", 0) \in 0 .. Len(File[m].rela)
BY FileAssumption DEF LinkedFile

LEMMA WordsApart ==
  ASSUME NEW m \in DOMAIN File
  PROVE  /\ OnePerWord(File[m].rel) /\ OnePerWord(File[m].rela) /\ OnePerWord(File[m].plt)
         /\ OtherWords(File[m].rel, File[m].rela) /\ OtherWords(File[m].rel, File[m].plt)
         /\ OtherWords(File[m].rela, File[m].plt)
BY FileAssumption DEF LinkedFile

-----------------------------------------------------------------------------
(***************************************************************************)
(* Where modules are: none at 0, where the first range is free.            *)
(***************************************************************************)
WellPlaced == layout \in Layouts /\ loaded = Bases(layout) /\ self = loaded[Place[This]]

LEMMA BaseTypes ==
  ASSUME WellPlaced, NEW m \in DOMAIN File
  PROVE  Base(m) \in Nat \ {0}
<1>1. AddressSpace(layout) /\ Place[m] \in DOMAIN Bases(layout)
  BY StartUpAssumption, FileAssumption DEF WellPlaced
<1> DEFINE l == layout
           S == Starts(l)
<1>2. \E i \in S : IndexIn(S, i) = Place[m]
  BY <1>1 DEF Bases
<1> DEFINE i0 == CHOOSE i \in S : IndexIn(S, i) = Place[m]
<1>3. i0 \in S
  BY <1>2
<1>4. Base(m) = l[i0].start
  BY <1>1 DEF Base, Bases, WellPlaced
<1> HIDE DEF i0
<1>5. i0 \in 1 .. Len(l) - 2 /\ l[i0].kind = "text" /\ l[1].kind = "free" /\ Len(l) \in Nat
  BY <1>1, <1>3 DEF Starts, AddressSpace
<1>6. i0 \in 2 .. Len(l) /\ i0 - 1 \in 1 .. Len(l)
  <2>1. i0 # 1
    BY <1>5
  <2> QED
    BY <1>5, <2>1
<1>7. l[i0].start = RangeEnd(l[i0 - 1])
  BY <1>1, <1>6 DEF AddressSpace
<1>8. l[i0 - 1].start \in Nat /\ l[i0 - 1].size \in Nat \ {0}
  <2>1. l[i0 - 1] \in Ranges
    BY <1>1, <1>6, RangesApart
  <2> QED
    BY <2>1 DEF Ranges
<1>9. Base(m) = l[i0 - 1].start + l[i0 - 1].size
  BY <1>4, <1>7 DEF RangeEnd
<1> HIDE DEF l
<1> QED
  BY <1>8, <1>9

-----------------------------------------------------------------------------
(***************************************************************************)
(* TryResolveSymbol finds what is denoted, once every module has its base. *)
(***************************************************************************)
LinkerBase(m) == IF Place[m] = Rtld THEN 0 ELSE Base(m)
AllBased == \A n \in DOMAIN File : object[n].base = LinkerBase(n)

LEMMA OneDefinition ==
  ASSUME NEW n \in DOMAIN File, NEW s, Definitions(n, s) # {}
  PROVE  \E i \in DOMAIN File[n].symbols : Definitions(n, s) = {i}
<1>1. PICK i \in Definitions(n, s) : TRUE
  OBVIOUS
<1>2. \A j \in Definitions(n, s) : j = i
  BY <1>1, SymbolTypes DEF Definitions
<1> QED
  BY <1>1, <1>2 DEF Definitions

LEMMA FoundInModule ==
  ASSUME NEW n \in DOMAIN File, NEW s
  PROVE  GetSymbolByName(n, s.name) =
           { i \in DOMAIN File[n].symbols : File[n].symbols[i].defined /\ File[n].symbols[i].name = s.name }
BY SymbolTypes DEF GetSymbolByName

LEMMA HiddenFound ==
  ASSUME NEW n \in DOMAIN File, NEW s, s.hidden
  PROVE  GetSymbolByName(n, s.name) = Definitions(n, s)
BY FoundInModule DEF Definitions

LEMMA ExportedFound ==
  ASSUME WellPlaced, AllBased, NEW n \in DOMAIN File, Place[n] # Rtld, NEW s, ~ s.hidden
  PROVE  Exported(n, s.name) = { Base(n) + File[n].symbols[i].value : i \in Definitions(n, s) }
<1>1. object[n].base = Base(n) /\ object[n].base # 0
  BY BaseTypes DEF AllBased, LinkerBase
<1>2. { j \in GetSymbolByName(n, s.name) : object[n].base # 0 /\ File[n].symbols[j].bind # "local" }
        = Definitions(n, s)
  BY <1>1, FoundInModule DEF Definitions
<1> QED
  BY <1>1, <1>2 DEF Exported, SymbolAddress

\* The one address a definition in a module has.
LEMMA AddressFound ==
  ASSUME WellPlaced, NEW n \in DOMAIN File, NEW s, Definitions(n, s) # {}
  PROVE  LET address == Base(n) + File[n].symbols[The(Definitions(n, s))].value IN
         /\ { Base(n) + File[n].symbols[i].value : i \in Definitions(n, s) } = {address}
         /\ address \in Nat \ {0}
<1>1. PICK i \in DOMAIN File[n].symbols : Definitions(n, s) = {i}
  BY OneDefinition
<1>2. The(Definitions(n, s)) = i
  BY <1>1, TheOne
<1>3. File[n].symbols[i].value \in Nat /\ Base(n) \in Nat \ {0}
  BY SymbolTypes, BaseTypes DEF Symbol
<1> QED
  BY <1>1, <1>2, <1>3

\* lookup_global_auto asks the list from its end.
LEMMA LookedUp ==
  ASSUME WellPlaced, AllBased, NEW m, NEW s, ~ s.hidden
  PROVE  \/ Definers(m, s) = {} /\ lookup_global_auto(s.name) = {}
         \/ \E n \in DOMAIN File :
              /\ Definers(m, s) = {n} /\ Definitions(n, s) # {} /\ Place[n] # Rtld
              /\ lookup_global_auto(s.name) = Exported(n, s.name)
<1> DEFINE len == Len(List)
           J == { k \in DOMAIN List : Definitions(List[k], s) # {} }
           K == { k \in DOMAIN Iterated : Exported(Iterated[k], s.name) # {} }
<1>1. /\ len \in Nat /\ DOMAIN List = 1 .. len
      /\ \A k \in 1 .. len : List[k] \in DOMAIN File /\ Place[List[k]] # Rtld
  BY FileAssumption
<1>2. DOMAIN Iterated = 1 .. len /\ \A k \in 1 .. len : Iterated[k] = List[len - k + 1]
  BY <1>1 DEF Iterated, Reverse
<1>3. \A k \in 1 .. len : (len - k) + 1 \in 1 .. len
  BY <1>1
<1>4. ASSUME NEW k \in 1 .. len
      PROVE  Exported(List[k], s.name) # {} <=> Definitions(List[k], s) # {}
  <2>1. PICK n \in DOMAIN File : n = List[k] /\ Place[n] # Rtld
    BY <1>1
  <2>2. Exported(n, s.name) = { Base(n) + File[n].symbols[i].value : i \in Definitions(n, s) }
    BY <2>1, ExportedFound
  <2> QED
    BY <2>1, <2>2
<1>5. Definers(m, s) = { List[k] : k \in { k \in J : \A j \in J : j <= k } }
  BY DEF Definers
<1>6. lookup_global_auto(s.name) = UNION { Exported(Iterated[k], s.name) : k \in First(K) }
  BY DEF lookup_global_auto
<1>7. \A k \in 1 .. len : k \in K <=> (len - k) + 1 \in J
  BY <1>1, <1>2, <1>3, <1>4
<1>8. \A k \in J : k \in 1 .. len
  BY <1>1
<1>9. \A k \in K : k \in 1 .. len
  BY <1>2
<1> HIDE DEF len, J, K
<1>10. CASE K = {}
  <2>1. J = {}
    <3> SUFFICES ASSUME NEW j \in J PROVE FALSE
      OBVIOUS
    <3>1. j \in 1 .. len /\ (len - j) + 1 \in 1 .. len /\ (len - ((len - j) + 1)) + 1 = j
      BY <1>1, <1>8
    <3> QED
      BY <1>7, <1>10, <3>1
  <2>2. First(K) = {}
    BY <1>10 DEF First
  <2> QED
    BY <1>5, <1>6, <2>1, <2>2
<1>11. CASE K # {}
  <2>1. K \subseteq Nat
    BY <1>1, <1>9
  <2>2. PICK k \in K : First(K) = {k} /\ \A j \in K : k <= j
    BY <1>11, <2>1, FirstOne
  <2>3. k \in 1 .. len /\ (len - k) + 1 \in J /\ (len - k) + 1 \in 1 .. len
    BY <1>3, <1>7, <1>9, <2>2
  <2>4. ASSUME NEW j \in J PROVE j <= (len - k) + 1
    <3>1. j \in 1 .. len /\ (len - j) + 1 \in 1 .. len /\ (len - ((len - j) + 1)) + 1 = j
      BY <1>1, <1>8
    <3>2. k <= (len - j) + 1
      BY <1>7, <2>2, <3>1
    <3> QED
      BY <1>1, <2>3, <3>1, <3>2
  <2>5. { i \in J : \A j \in J : j <= i } = {(len - k) + 1}
    <3>1. \A i \in J : (\A j \in J : j <= i) => i = (len - k) + 1
      <4> SUFFICES ASSUME NEW i \in J, \A j \in J : j <= i PROVE i = (len - k) + 1
        OBVIOUS
      <4>1. i <= (len - k) + 1 /\ (len - k) + 1 <= i /\ i \in 1 .. len
        BY <1>8, <2>3, <2>4
      <4> QED
        BY <1>1, <2>3, <4>1
    <3> QED
      BY <2>3, <2>4, <3>1
  <2>6. PICK n \in DOMAIN File : n = List[(len - k) + 1] /\ Place[n] # Rtld /\ n = Iterated[k]
    BY <1>1, <1>2, <2>3
  <2>7. Definers(m, s) = {n}
    BY <1>5, <2>5, <2>6
  <2>8. lookup_global_auto(s.name) = UNION { Exported(Iterated[j], s.name) : j \in {k} }
    BY <1>6, <2>2
  <2>9. lookup_global_auto(s.name) = Exported(n, s.name)
    BY <2>6, <2>8
  <2>10. Definitions(n, s) # {}
    BY <2>3, <2>6 DEF J
  <2> QED
    BY <2>6, <2>7, <2>9, <2>10
<1> QED
  BY <1>10, <1>11

(***************************************************************************)
(* What ResolveSymbols and a lazy call look for is what the name denotes.  *)
(***************************************************************************)
LEMMA TargetsDenoted ==
  ASSUME WellPlaced, AllBased, NEW m \in DOMAIN File, Place[m] # Rtld, NEW i \in DOMAIN File[m].symbols
  PROVE  LET s == File[m].symbols[i] IN
         /\ Undefined(m, s) =>
              TryResolveSymbol(m, i) = IF s.hidden /\ s.bind = "weak" THEN {0} ELSE {}
         /\ ~ Undefined(m, s) =>
              TryResolveSymbol(m, i) = {Denoted(m, s)} /\ Denoted(m, s) \in Nat \ {0}
<1> DEFINE s == File[m].symbols[i]
<1>1. s.hidden \in BOOLEAN /\ object[m].base = Base(m)
  BY SymbolTypes DEF Symbol, AllBased, LinkerBase
<1>2. CASE s.hidden
  <2> DEFINE targets == { SymbolAddress(m, j) : j \in GetSymbolByName(m, s.name) }
  <2>1. targets = { Base(m) + File[m].symbols[j].value : j \in Definitions(m, s) }
    BY <1>1, <1>2, HiddenFound DEF SymbolAddress
  <2>2. TryResolveSymbol(m, i) = IF targets = {} THEN IF s.bind = "weak" THEN {0} ELSE {} ELSE targets
    BY <1>2 DEF TryResolveSymbol
  <2>3. Definers(m, s) = { n \in {m} : Definitions(n, s) # {} }
    BY <1>2 DEF Definers
  <2> HIDE DEF s, targets
  <2>4. CASE Definitions(m, s) = {}
    <3>1. targets = {} /\ Definers(m, s) = {}
      BY <2>1, <2>3, <2>4
    <3>2. Undefined(m, s)
      BY <1>2, <3>1 DEF Undefined
    <3> QED
      BY <1>2, <2>2, <3>1, <3>2 DEF s
  <2>5. CASE Definitions(m, s) # {}
    <3>1. Definers(m, s) = {m}
      BY <2>3, <2>5
    <3>2. The(Definers(m, s)) = m
      BY <3>1, TheOne
    <3>3. ~ Undefined(m, s)
      BY <3>1 DEF Undefined
    <3>4. Denoted(m, s) = Base(m) + File[m].symbols[The(Definitions(m, s))].value
      BY <3>1, <3>2, <3>3 DEF Denoted
    <3>5. targets = {Denoted(m, s)} /\ Denoted(m, s) \in Nat \ {0}
      BY <2>1, <2>5, <3>4, AddressFound
    <3> QED
      BY <2>2, <3>3, <3>5 DEF s
  <2> QED
    BY <2>4, <2>5
<1>3. CASE ~ s.hidden
  <2> DEFINE targets == lookup_global_auto(s.name)
             manual == { Manual[n] : n \in {s.name} \cap DOMAIN Manual }
  <2>1. TryResolveSymbol(m, i) = IF targets = {} THEN manual ELSE targets
    BY <1>3 DEF TryResolveSymbol
  <2>2. \A n \in DOMAIN Manual : Manual[n] \in Nat \ {0}
    BY FileAssumption
  <2> HIDE DEF s, targets, manual
  <2>3. CASE Definers(m, s) = {}
    <3>1. targets = {}
      BY <1>3, <2>3, LookedUp DEF targets
    <3>2. CASE s.name \in DOMAIN Manual
      <4>1. ~ Undefined(m, s)
        BY <1>3, <3>2 DEF Undefined
      <4>2. Denoted(m, s) = Manual[s.name]
        BY <2>3, <4>1 DEF Denoted
      <4> QED
        BY <2>1, <2>2, <3>1, <3>2, <4>1, <4>2 DEF s, manual
    <3>3. CASE s.name \notin DOMAIN Manual
      <4>1. Undefined(m, s)
        BY <2>3, <3>3 DEF Undefined
      <4> QED
        BY <1>3, <2>1, <3>1, <3>3, <4>1 DEF s, manual
    <3> QED
      BY <3>2, <3>3
  <2>4. CASE Definers(m, s) # {}
    <3>1. PICK n \in DOMAIN File :
            /\ Definers(m, s) = {n} /\ Definitions(n, s) # {} /\ Place[n] # Rtld
            /\ targets = Exported(n, s.name)
      BY <1>3, <2>4, LookedUp DEF targets
    <3>2. The(Definers(m, s)) = n
      BY <3>1, TheOne
    <3>3. ~ Undefined(m, s)
      BY <3>1 DEF Undefined
    <3>4. Denoted(m, s) = Base(n) + File[n].symbols[The(Definitions(n, s))].value
      BY <3>1, <3>2, <3>3 DEF Denoted
    <3>5. targets = {Denoted(m, s)} /\ Denoted(m, s) \in Nat \ {0}
      BY <1>3, <3>1, <3>4, ExportedFound, AddressFound
    <3> QED
      BY <2>1, <3>3, <3>5 DEF s
  <2> QED
    BY <2>3, <2>4
<1> QED
  BY <1>1, <1>2, <1>3
-----------------------------------------------------------------------------
(***************************************************************************)
(* What a word holds after each of the linker's passes.                    *)
(***************************************************************************)
Plain(m, r) == File[m].words[r.offset]
Added(m, r, rela) == IF rela THEN r.addend ELSE Plain(m, r)

RelocatedWord(m, r, rela) ==
  IF r.type = "RELATIVE" THEN Base(m) + Added(m, r, rela) ELSE Plain(m, r)

\* Nothing is put in for it.
StaysPlain(m, s) == Undefined(m, s) /\ ~ (s.hidden /\ s.bind = "weak")

\* What is promised of it but for the tables.
LinkedWord(m, r, rela) ==
  IF ~ ByName(r.type) THEN RelocatedWord(m, r, rela)
  ELSE IF StaysPlain(m, SymbolOf(m, r)) THEN Plain(m, r)
  ELSE Denoted(m, SymbolOf(m, r)) + Added(m, r, rela)

WordsRelocated(m) ==
  /\ \A i \in DOMAIN File[m].rela :
       slots[m][File[m].rela[i].offset] = RelocatedWord(m, File[m].rela[i], TRUE)
  /\ \A i \in DOMAIN File[m].rel :
       slots[m][File[m].rel[i].offset] = RelocatedWord(m, File[m].rel[i], FALSE)
  /\ \A i \in DOMAIN File[m].plt :
       slots[m][File[m].plt[i].offset] = Plain(m, File[m].plt[i])

WordsNamed(m) ==
  /\ \A i \in DOMAIN File[m].rela :
       slots[m][File[m].rela[i].offset] = Promised(m, File[m].rela[i], TRUE)
  /\ \A i \in DOMAIN File[m].rel :
       slots[m][File[m].rel[i].offset] = Promised(m, File[m].rel[i], FALSE)
  /\ \A i \in DOMAIN File[m].plt :
       slots[m][File[m].plt[i].offset] \in {Bound(m, File[m].plt[i]), Base(m) + Plain(m, File[m].plt[i])}

\* What a call through the linkage table needs.
StubsReady(m) ==
  \A i \in DOMAIN File[m].plt :
    /\ object[m].stub = Base(m) + Plain(m, File[m].plt[i])
    /\ slots[m][Tag(m, "PLTGOT", 0) + 1] = m

ObjectOf(m) == IF Place[m] = Rtld THEN Zeroed ELSE Initialized(Zeroed, m, Base(m))

(***************************************************************************)
(* The invariant of one module.                                            *)
(***************************************************************************)
ModuleInv(m) ==
  /\ linked[m] \in {"no", "initialized", "relocated", "resolved"}
  /\ DOMAIN slots[m] = DOMAIN File[m].words
  /\ linked[m] = "no" => object[m] = Zeroed
  /\ linked[m] = "initialized" => Place[m] # Rtld
  /\ linked[m] \in {"no", "initialized"} => slots[m] = File[m].words
  /\ linked[m] \in {"initialized", "relocated"} => object[m] = ObjectOf(m)
  /\ linked[m] = "relocated" => WordsRelocated(m)
  /\ linked[m] = "resolved" =>
       /\ object[m].base = LinkerBase(m) /\ object[m].got = ObjectOf(m).got
       /\ WordsNamed(m) /\ StubsReady(m)

\* Names are bound when every module is relocated.
LoaderInv ==
  /\ DOMAIN object = DOMAIN File /\ DOMAIN slots = DOMAIN File /\ DOMAIN linked = DOMAIN File
  /\ \A m \in DOMAIN File : ModuleInv(m)
  /\ \A m, n \in DOMAIN File : linked[m] = "resolved" => linked[n] \in {"relocated", "resolved"}

CallShape(c) == c = [step |-> c.step, m |-> c.m, i |-> c.i, to |-> c.to]

\* A call that is being bound.
CallRight(c) ==
  /\ CallShape(c) /\ c.step \in {"bind", "store", "jump"}
  /\ c.m \in DOMAIN File /\ c.i \in DOMAIN File[c.m].plt
  /\ c.step # "bind" => c.to = Bound(c.m, File[c.m].plt[c.i])

CallInv ==
  /\ DOMAIN call = Threads
  /\ \A t \in Threads : call[t] = NoCall \/ (pc = "main" /\ CallRight(call[t]))

StartInv ==
  /\ WellPlaced /\ s_UserTableSet \in TableSets
  /\ pc \in {"link", "layout", "version", "tables", "main"}
  /\ pc # "link" => \A m \in DOMAIN File : linked[m] = "resolved"
  /\ pc \notin {"link", "layout"} => s_SelfModuleIdx # End

NamesInv == StartInv /\ LoaderInv /\ CallInv

-----------------------------------------------------------------------------
\* As long as the modules stay, so does what names denote.
LEMMA SameBases ==
  ASSUME loaded' = loaded, NEW m
  PROVE  /\ Base(m)' = Base(m) /\ LinkerBase(m)' = LinkerBase(m) /\ ObjectOf(m)' = ObjectOf(m)
         /\ \A s : Undefined(m, s)' = Undefined(m, s) /\ Denoted(m, s)' = Denoted(m, s)
         /\ \A r : Bound(m, r)' = Bound(m, r)
         /\ \A r, rela : /\ RelocatedWord(m, r, rela)' = RelocatedWord(m, r, rela)
                         /\ LinkedWord(m, r, rela)' = LinkedWord(m, r, rela)
<1>1. /\ \A n : Base(n)' = Base(n)
      /\ \A s : Definers(m, s)' = Definers(m, s) /\ Undefined(m, s)' = Undefined(m, s)
  BY DEF Base, Definers, Definitions, Undefined
<1>2. LinkerBase(m)' = LinkerBase(m) /\ ObjectOf(m)' = ObjectOf(m)
  BY <1>1 DEF LinkerBase, ObjectOf, Initialized, Zeroed, Tag
<1>3. \A s : Denoted(m, s)' = Denoted(m, s)
  BY <1>1 DEF Denoted, Definitions
<1>4. \A r : Bound(m, r)' = Bound(m, r)
  BY <1>1, <1>3 DEF Bound
<1>5. \A r, rela : RelocatedWord(m, r, rela)' = RelocatedWord(m, r, rela)
  BY <1>1 DEF RelocatedWord, Plain, Added
<1>6. \A r, rela : LinkedWord(m, r, rela)' = LinkedWord(m, r, rela)
  BY <1>1, <1>3, <1>5 DEF LinkedWord, StaysPlain, SymbolOf, Plain, Added
<1> QED
  BY <1>1, <1>2, <1>3, <1>4, <1>5, <1>6

\* The tables count for this module only, and when they are applied.
LEMMA PromisedEarly ==
  ASSUME NEW m, NEW r, NEW rela, pc # "main" \/ m # This
  PROVE  Promised(m, r, rela) = LinkedWord(m, r, rela)
<1> DEFINE entries == { e \in TableOf(s_UserVersion) :
                          e.name = SymbolOf(m, r).name /\ m = This /\ pc = "main" /\ e.index \in DOMAIN loaded }
<1>1. entries = {}
  OBVIOUS
<1>2. CASE r.type = "RELATIVE"
  BY <1>2 DEF Promised, LinkedWord, RelocatedWord, Plain, Added, ByName
<1>3. CASE r.type # "RELATIVE" /\ ~ ByName(r.type)
  BY <1>3 DEF Promised, LinkedWord, RelocatedWord, Plain, Added
<1>4. CASE ByName(r.type) /\ StaysPlain(m, SymbolOf(m, r))
  <2>1. r.type # "RELATIVE"
    BY <1>4 DEF ByName
  <2> QED
    BY <1>1, <1>4, <2>1 DEF Promised, LinkedWord, StaysPlain, SymbolOf, Plain, Added
<1>5. CASE ByName(r.type) /\ ~ StaysPlain(m, SymbolOf(m, r))
  <2>1. r.type # "RELATIVE"
    BY <1>5 DEF ByName
  <2> QED
    BY <1>1, <1>5, <2>1 DEF Promised, LinkedWord, StaysPlain, SymbolOf, Plain, Added
<1> QED
  BY <1>2, <1>3, <1>4, <1>5

\* What keeps a promise as it is.
SamePromise(m) ==
  \/ UNCHANGED <<pc, s_UserTableSet, s_UserVersion>>
  \/ pc # "main" /\ pc' # "main"
  \/ m # This

LEMMA PromiseSame ==
  ASSUME loaded' = loaded, NEW m, SamePromise(m), NEW r, NEW rela
  PROVE  Promised(m, r, rela)' = Promised(m, r, rela)
<1>1. /\ \A s : Undefined(m, s)' = Undefined(m, s) /\ Denoted(m, s)' = Denoted(m, s)
      /\ Base(m)' = Base(m) /\ LinkedWord(m, r, rela)' = LinkedWord(m, r, rela)
  BY SameBases
<1>2. CASE UNCHANGED <<pc, s_UserTableSet, s_UserVersion>>
  <2>1. TableOf(s_UserVersion)' = TableOf(s_UserVersion)
    BY <1>2 DEF TableOf
  <2> QED
    BY <1>1, <1>2, <2>1 DEF Promised
<1>3. CASE (pc # "main" /\ pc' # "main") \/ m # This
  <2> DEFINE entries == { e \in TableOf(s_UserVersion) :
                            e.name = SymbolOf(m, r).name /\ m = This /\ pc = "main" /\ e.index \in DOMAIN loaded }
  <2>1. entries = {} /\ entries' = {}
    BY <1>3
  <2> QED
    BY <1>1, <2>1 DEF Promised, SymbolOf
<1> QED
  BY <1>2, <1>3 DEF SamePromise

\* A module that nothing is done to.
LEMMA ModuleSame ==
  ASSUME NEW m \in DOMAIN File, ModuleInv(m), loaded' = loaded, SamePromise(m),
         object'[m] = object[m], slots'[m] = slots[m], linked'[m] = linked[m]
  PROVE  ModuleInv(m)'
<1>1. /\ Base(m)' = Base(m) /\ LinkerBase(m)' = LinkerBase(m) /\ ObjectOf(m)' = ObjectOf(m)
      /\ \A r : Bound(m, r)' = Bound(m, r)
      /\ \A r, rela : RelocatedWord(m, r, rela)' = RelocatedWord(m, r, rela)
  BY SameBases
<1>2. \A r, rela : Promised(m, r, rela)' = Promised(m, r, rela)
  BY PromiseSame
<1>3. WordsRelocated(m)' <=> WordsRelocated(m)
  BY <1>1 DEF WordsRelocated, RelocatedWord, Added, Plain
<1>4. WordsNamed(m)' <=> WordsNamed(m)
  BY <1>1, <1>2 DEF WordsNamed, Plain
<1>5. StubsReady(m)' <=> StubsReady(m)
  BY <1>1 DEF StubsReady, Plain
<1> QED
  BY <1>1, <1>3, <1>4, <1>5 DEF ModuleInv

-----------------------------------------------------------------------------
(***************************************************************************)
(* The first pass: relative words.                                         *)
(***************************************************************************)
LEMMA RelativeOwn ==
  ASSUME NEW r, OnePerWord(r), NEW i \in DOMAIN r, DOMAIN r = 1 .. Len(r), Len(r) \in Nat,
         NEW n \in 0 .. Len(r), r[i].type = "RELATIVE" => i <= n
  PROVE  { j \in At(r, 1, n, r[i].offset) : r[j].type = "RELATIVE" }
           = IF r[i].type = "RELATIVE" THEN {i} ELSE {}
<1>1. 1 .. n \subseteq DOMAIN r /\ i \in Nat \ {0} /\ n \in Nat
  OBVIOUS
<1>2. At(r, 1, n, r[i].offset) = {i} \cap (1 .. n)
  BY <1>1 DEF At, OnePerWord
<1>3. r[i].type = "RELATIVE" => i \in 1 .. n
  BY <1>1
<1> QED
  BY <1>2, <1>3

LEMMA RelativeOther ==
  ASSUME NEW r, NEW s, OtherWords(r, s) \/ OtherWords(s, r), NEW i \in DOMAIN r,
         DOMAIN s = 1 .. Len(s), Len(s) \in Nat, NEW n \in 0 .. Len(s)
  PROVE  { j \in At(s, 1, n, r[i].offset) : s[j].type = "RELATIVE" } = {}
<1>1. 1 .. n \subseteq DOMAIN s
  OBVIOUS
<1> QED
  BY <1>1, AtOther

\* For the linker itself.
LEMMA SelfRelocated ==
  ASSUME WellPlaced, NEW m \in DOMAIN File, Place[m] = Rtld, ModuleInv(m), DOMAIN slots = DOMAIN File,
         DOMAIN linked = DOMAIN File, RelocateSelf(m, Base(m)), loaded' = loaded
  PROVE  ModuleInv(m)'
<1> DEFINE Count(count, size) == IF Tag(m, count, 0) = 0 THEN Tag(m, size, 0) ELSE Tag(m, count, 0)
           Relative(relocations, n, offset0) ==
             { i \in At(relocations, 1, n, offset0) : relocations[i].type = "RELATIVE" }
           rel(offset0)  == Relative(File[m].rel, Count("RELCOUNT", "RELSZ"), offset0)
           rela(offset0) == Relative(File[m].rela, Count("RELACOUNT", "RELASZ"), offset0)
           Word(offset0) ==
             CASE rela(offset0) # {} -> LET i == CHOOSE i \in rela(offset0) : TRUE IN Base(m) + File[m].rela[i].addend
               [] rela(offset0) = {} /\ rel(offset0) # {} -> slots[m][offset0] + Base(m)
               [] OTHER -> slots[m][offset0]
<1>1. /\ linked[m] = "no" /\ object' = object /\ linked' = [linked EXCEPT ![m] = "relocated"]
      /\ slots' = [slots EXCEPT ![m] = [offset0 \in DOMAIN slots[m] |-> Word(offset0)]]
  BY DEF RelocateSelf
<1>2. object[m] = Zeroed /\ slots[m] = File[m].words /\ ObjectOf(m) = Zeroed
  BY <1>1 DEF ModuleInv, ObjectOf
<1>3. slots'[m] = [offset0 \in DOMAIN File[m].words |-> Word(offset0)] /\ linked'[m] = "relocated"
  BY <1>1, <1>2
<1>4. /\ Count("RELCOUNT", "RELSZ") \in 0 .. Len(File[m].rel)
      /\ Count("RELACOUNT", "RELASZ") \in 0 .. Len(File[m].rela)
  BY CountTypes, RelocationTypes
<1>5. /\ \A i \in DOMAIN File[m].rel : File[m].rel[i].type = "RELATIVE" => i <= Count("RELCOUNT", "RELSZ")
      /\ \A i \in DOMAIN File[m].rela : File[m].rela[i].type = "RELATIVE" => i <= Count("RELACOUNT", "RELASZ")
  <2>1. RelativeFirst(m, File[m].rel, "RELCOUNT") /\ RelativeFirst(m, File[m].rela, "RELACOUNT")
    BY FileAssumption DEF LinkedFile
  <2>2. \A i \in DOMAIN File[m].rel : i <= Tag(m, "RELSZ", 0)
    BY CountTypes, RelocationTypes
  <2>3. \A i \in DOMAIN File[m].rela : i <= Tag(m, "RELASZ", 0)
    BY CountTypes, RelocationTypes
  <2> QED
    BY <2>1, <2>2, <2>3 DEF RelativeFirst
<1> HIDE DEF Count, Word
<1>6. ASSUME NEW i \in DOMAIN File[m].rela
      PROVE  slots'[m][File[m].rela[i].offset] = RelocatedWord(m, File[m].rela[i], TRUE)
  <2> DEFINE r == File[m].rela[i]
  <2>1. rela(r.offset) = IF r.type = "RELATIVE" THEN {i} ELSE {}
    BY <1>4, <1>5, RelativeOwn, RelocationTypes, WordsApart
  <2>2. rel(r.offset) = {}
    BY <1>4, RelativeOther, RelocationTypes, WordsApart
  <2>3. r.offset \in DOMAIN File[m].words /\ slots[m][r.offset] = Plain(m, r)
    BY <1>2, RelocationTypes DEF Relocation, Plain
  <2> HIDE DEF rela, rel, r
  <2>4. Word(r.offset) = IF r.type = "RELATIVE" THEN Base(m) + File[m].rela[i].addend ELSE Plain(m, r)
    BY <2>1, <2>2, <2>3 DEF Word
  <2> QED
    BY <1>3, <2>3, <2>4 DEF RelocatedWord, Added, r
<1>7. ASSUME NEW i \in DOMAIN File[m].rel
      PROVE  slots'[m][File[m].rel[i].offset] = RelocatedWord(m, File[m].rel[i], FALSE)
  <2> DEFINE r == File[m].rel[i]
  <2>1. rel(r.offset) = IF r.type = "RELATIVE" THEN {i} ELSE {}
    BY <1>4, <1>5, RelativeOwn, RelocationTypes, WordsApart
  <2>2. rela(r.offset) = {}
    BY <1>4, RelativeOther, RelocationTypes, WordsApart
  <2>3. /\ r.offset \in DOMAIN File[m].words /\ slots[m][r.offset] = Plain(m, r)
        /\ Plain(m, r) \in Int /\ Base(m) \in Int
    BY <1>2, BaseTypes, RelocationTypes DEF Relocation, Plain
  <2> HIDE DEF rela, rel, r
  <2>4. Word(r.offset) = IF r.type = "RELATIVE" THEN Base(m) + Plain(m, r) ELSE Plain(m, r)
    BY <2>1, <2>2, <2>3 DEF Word
  <2> QED
    BY <1>3, <2>3, <2>4 DEF RelocatedWord, Added, r
<1>8. ASSUME NEW i \in DOMAIN File[m].plt
      PROVE  slots'[m][File[m].plt[i].offset] = Plain(m, File[m].plt[i])
  BY FileAssumption
<1>9. WordsRelocated(m)'
  <2>1. Base(m)' = Base(m)
    BY SameBases
  <2> QED
    BY <1>6, <1>7, <1>8, <2>1 DEF WordsRelocated, RelocatedWord, Added, Plain
<1>10. ObjectOf(m)' = ObjectOf(m)
  BY SameBases
<1>11. DOMAIN slots'[m] = DOMAIN File[m].words
  BY <1>3
<1>12. object'[m] = ObjectOf(m)'
  BY <1>1, <1>2, <1>10
<1> QED
  BY <1>3, <1>9, <1>11, <1>12 DEF ModuleInv

\* For any other.
LEMMA OthersRelocated ==
  ASSUME WellPlaced, NEW m \in DOMAIN File, Place[m] # Rtld, ModuleInv(m), DOMAIN slots = DOMAIN File,
         DOMAIN linked = DOMAIN File, Relocate(m), loaded' = loaded
  PROVE  ModuleInv(m)'
<1> DEFINE Relative(relocations, n, offset0) ==
             { i \in At(relocations, 1, n, offset0) : relocations[i].type = "RELATIVE" }
           rel(offset0)  == Relative(File[m].rel, Tag(m, "RELCOUNT", 0), offset0)
           rela(offset0) == Relative(File[m].rela, Tag(m, "RELACOUNT", 0), offset0)
<1>1. /\ linked[m] = "initialized" /\ object' = object /\ linked' = [linked EXCEPT ![m] = "relocated"]
      /\ slots' = [slots EXCEPT ![m] = [offset0 \in DOMAIN slots[m] |-> Relocated(m, offset0)]]
  BY DEF Relocate
<1>2. slots[m] = File[m].words /\ object[m] = ObjectOf(m)
  BY <1>1 DEF ModuleInv
<1>3. slots'[m] = [offset0 \in DOMAIN File[m].words |-> Relocated(m, offset0)] /\ linked'[m] = "relocated"
  BY <1>1, <1>2
<1>4. /\ object[m].rel_count = Tag(m, "RELCOUNT", 0) /\ object[m].rela_count = Tag(m, "RELACOUNT", 0)
      /\ object[m].base = Base(m)
  BY <1>2 DEF ObjectOf, Initialized, Zeroed
<1>5. /\ \A i \in DOMAIN File[m].rel : File[m].rel[i].type = "RELATIVE" => i <= Tag(m, "RELCOUNT", 0)
      /\ \A i \in DOMAIN File[m].rela : File[m].rela[i].type = "RELATIVE" => i <= Tag(m, "RELACOUNT", 0)
  BY FileAssumption DEF LinkedFile, RelativeFirst
<1>6. ASSUME NEW offset0
      PROVE  Relocated(m, offset0) =
               CASE rel(offset0) # {} -> File[m].words[offset0] + Base(m)
                 [] rela(offset0) # {} -> LET i == CHOOSE i \in rela(offset0) : TRUE
                                          IN Base(m) + File[m].rela[i].addend
                 [] OTHER -> File[m].words[offset0]
  BY <1>2, <1>4 DEF Relocated
<1>7. ASSUME NEW i \in DOMAIN File[m].rela
      PROVE  slots'[m][File[m].rela[i].offset] = RelocatedWord(m, File[m].rela[i], TRUE)
  <2> DEFINE r == File[m].rela[i]
  <2>1. rela(r.offset) = IF r.type = "RELATIVE" THEN {i} ELSE {}
    BY <1>5, CountTypes, RelativeOwn, RelocationTypes, WordsApart
  <2>2. rel(r.offset) = {}
    BY CountTypes, RelativeOther, RelocationTypes, WordsApart
  <2>3. r.offset \in DOMAIN File[m].words
    BY RelocationTypes DEF Relocation
  <2> HIDE DEF rela, rel, r
  <2>4. Relocated(m, r.offset) = IF r.type = "RELATIVE" THEN Base(m) + File[m].rela[i].addend ELSE Plain(m, r)
    BY <1>6, <2>1, <2>2 DEF Plain
  <2> QED
    BY <1>3, <2>3, <2>4 DEF RelocatedWord, Added, r
<1>8. ASSUME NEW i \in DOMAIN File[m].rel
      PROVE  slots'[m][File[m].rel[i].offset] = RelocatedWord(m, File[m].rel[i], FALSE)
  <2> DEFINE r == File[m].rel[i]
  <2>1. rel(r.offset) = IF r.type = "RELATIVE" THEN {i} ELSE {}
    BY <1>5, CountTypes, RelativeOwn, RelocationTypes, WordsApart
  <2>2. rela(r.offset) = {}
    BY CountTypes, RelativeOther, RelocationTypes, WordsApart
  <2>3. r.offset \in DOMAIN File[m].words /\ Plain(m, r) \in Int /\ Base(m) \in Int
    BY BaseTypes, RelocationTypes DEF Relocation, Plain
  <2> HIDE DEF rela, rel, r
  <2>4. Relocated(m, r.offset) = IF r.type = "RELATIVE" THEN Plain(m, r) + Base(m) ELSE Plain(m, r)
    BY <1>6, <2>1, <2>2 DEF Plain
  <2>5. Plain(m, r) + Base(m) = Base(m) + Plain(m, r)
    BY <2>3
  <2> QED
    BY <1>3, <2>3, <2>4, <2>5 DEF RelocatedWord, Added, r
<1>9. ASSUME NEW i \in DOMAIN File[m].plt
      PROVE  slots'[m][File[m].plt[i].offset] = Plain(m, File[m].plt[i])
  <2> DEFINE r == File[m].plt[i]
  <2>1. rel(r.offset) = {} /\ rela(r.offset) = {}
    BY CountTypes, RelativeOther, RelocationTypes, WordsApart
  <2>2. r.offset \in DOMAIN File[m].words
    BY RelocationTypes DEF Relocation
  <2> HIDE DEF rela, rel, r
  <2>3. Relocated(m, r.offset) = Plain(m, r)
    BY <1>6, <2>1 DEF Plain
  <2> QED
    BY <1>3, <2>2, <2>3 DEF r
<1>10. WordsRelocated(m)'
  <2>1. Base(m)' = Base(m)
    BY SameBases
  <2> QED
    BY <1>7, <1>8, <1>9, <2>1 DEF WordsRelocated, RelocatedWord, Added, Plain
<1>11. ObjectOf(m)' = ObjectOf(m)
  BY SameBases
<1>12. DOMAIN slots'[m] = DOMAIN File[m].words
  BY <1>3
<1>13. object'[m] = ObjectOf(m)'
  BY <1>1, <1>2, <1>11
<1> QED
  BY <1>3, <1>10, <1>12, <1>13 DEF ModuleInv

LEMMA ModuleInitialized ==
  ASSUME NEW m \in DOMAIN File, Place[m] # Rtld, ModuleInv(m), DOMAIN object = DOMAIN File,
         DOMAIN linked = DOMAIN File, Initialize(m, Base(m)), loaded' = loaded
  PROVE  ModuleInv(m)'
<1>1. /\ object'[m] = Initialized(object[m], m, Base(m)) /\ linked'[m] = "initialized"
      /\ slots' = slots /\ linked[m] = "no"
  BY DEF Initialize
<1>2. object[m] = Zeroed /\ slots[m] = File[m].words
  BY <1>1 DEF ModuleInv
<1>3. object'[m] = ObjectOf(m)'
  BY <1>1, <1>2, SameBases DEF ObjectOf
<1> QED
  BY <1>1, <1>2, <1>3 DEF ModuleInv
-----------------------------------------------------------------------------
(***************************************************************************)
(* The second pass: names.                                                 *)
(***************************************************************************)
LEMMA AbsoluteRight ==
  ASSUME WellPlaced, AllBased, NEW m \in DOMAIN File, Place[m] # Rtld, NEW r, Relocation(m, r),
         r.type # "RELATIVE", NEW rela \in BOOLEAN
  PROVE  ResolveAbsolute(m, r, rela, Plain(m, r)) = LinkedWord(m, r, rela)
<1> DEFINE s == SymbolOf(m, r)
           targets == TryResolveSymbol(m, r.sym)
<1>1. ResolveAbsolute(m, r, rela, Plain(m, r))
        = IF ~ ByName(r.type) \/ targets = {} THEN Plain(m, r) ELSE The(targets) + Added(m, r, rela)
  <2> HIDE DEF targets
  <2> DEFINE word(those) == IF ~ ByName(r.type) \/ those = {} THEN Plain(m, r)
                            ELSE The(those) + Added(m, r, rela)
  <2>1. ResolveAbsolute(m, r, rela, Plain(m, r)) = The({ word(those) : those \in {targets} })
    BY DEF ResolveAbsolute, Added, targets
  <2>2. { word(those) : those \in {targets} } = {word(targets)}
    OBVIOUS
  <2> QED
    BY <2>1, <2>2, TheOne
<1>2. r.sym \in DOMAIN File[m].symbols /\ r.addend \in Int /\ Plain(m, r) \in Int
  BY DEF Relocation, Plain
<1>3. /\ Undefined(m, s) => targets = IF s.hidden /\ s.bind = "weak" THEN {0} ELSE {}
      /\ ~ Undefined(m, s) => targets = {Denoted(m, s)}
  BY <1>2, TargetsDenoted DEF SymbolOf
<1>4. Undefined(m, s) => Denoted(m, s) = 0
  BY DEF Denoted, Undefined
<1> HIDE DEF targets, s
<1>5. CASE ~ ByName(r.type)
  BY <1>1, <1>5 DEF LinkedWord, RelocatedWord
<1>6. CASE ByName(r.type) /\ StaysPlain(m, s)
  BY <1>1, <1>3, <1>6 DEF LinkedWord, StaysPlain, s
<1>7. CASE ByName(r.type) /\ ~ StaysPlain(m, s)
  <2>1. targets = {Denoted(m, s)}
    BY <1>3, <1>4, <1>7 DEF StaysPlain
  <2>2. The(targets) = Denoted(m, s) /\ targets # {}
    BY <2>1, TheOne
  <2> QED
    BY <1>1, <1>7, <2>2 DEF LinkedWord, s
<1> QED
  BY <1>5, <1>6, <1>7

\* What is in the linkage table, of a file.
LEMMA LinkageTable ==
  ASSUME NEW m \in DOMAIN File, NEW i \in DOMAIN File[m].plt
  PROVE  /\ File[m].plt[i].type = "JUMP_SLOT" /\ File[m].plt[i].addend = 0
         /\ Place[m] # Rtld /\ Tag(m, "PLTGOT", 0) # 0 /\ Tag(m, "PLTGOT", 0) + 1 \in DOMAIN File[m].words
         /\ Tag(m, "PLTREL", "REL") = "RELA"
<1>1. File[m].plt # <<>>
  OBVIOUS
<1>2. LinkedFile(m) /\ Place[m] # Rtld
  BY <1>1, FileAssumption
<1> QED
  BY <1>1, <1>2 DEF LinkedFile

LEMMA JumpSlotRight ==
  ASSUME WellPlaced, AllBased, NEW m \in DOMAIN File, NEW i \in DOMAIN File[m].plt, NEW lazy \in BOOLEAN
  PROVE  LET r == File[m].plt[i]
         IN ResolveJumpSlot(m, ObjectOf(m), r, lazy, Plain(m, r)) \in {Bound(m, r), Base(m) + Plain(m, r)}
<1> DEFINE r == File[m].plt[i]
           s == SymbolOf(m, r)
           targets == TryResolveSymbol(m, r.sym)
<1>1. r.type = "JUMP_SLOT" /\ r.addend = 0 /\ Place[m] # Rtld /\ Tag(m, "PLTREL", "REL") = "RELA"
  BY LinkageTable
<1>2. ObjectOf(m).base = Base(m) /\ ObjectOf(m).is_rela = TRUE
  BY <1>1 DEF ObjectOf, Initialized
<1>3. r.sym \in DOMAIN File[m].symbols
  BY RelocationTypes DEF Relocation
<1>4. /\ Undefined(m, s) => targets = IF s.hidden /\ s.bind = "weak" THEN {0} ELSE {}
      /\ ~ Undefined(m, s) => targets = {Denoted(m, s)}
  BY <1>1, <1>3, TargetsDenoted DEF SymbolOf
<1> HIDE DEF targets, r
<1>5. ResolveJumpSlot(m, ObjectOf(m), r, lazy, Plain(m, r))
        = IF lazy \/ targets = {} THEN Base(m) + Plain(m, r) ELSE The(targets) + r.addend
  <2> DEFINE word(those) == IF lazy \/ those = {} THEN Base(m) + Plain(m, r) ELSE The(those) + r.addend
  <2>1. ResolveJumpSlot(m, ObjectOf(m), r, lazy, Plain(m, r)) = The({ word(those) : those \in {targets} })
    BY <1>1, <1>2 DEF ResolveJumpSlot, targets
  <2>2. { word(those) : those \in {targets} } = {word(targets)}
    OBVIOUS
  <2> QED
    BY <2>1, <2>2, TheOne
<1>6. Bound(m, r) = IF Undefined(m, s) THEN 0 ELSE Denoted(m, s) + r.addend
  BY DEF Bound, SymbolOf
<1> HIDE DEF s
<1>7. CASE lazy \/ targets = {}
  BY <1>5, <1>7 DEF r
<1>8. CASE ~ lazy /\ targets # {} /\ Undefined(m, s)
  <2>1. targets = {0}
    BY <1>4, <1>8
  <2>2. The(targets) = 0
    BY <2>1, TheOne
  <2> QED
    BY <1>1, <1>5, <1>6, <1>8, <2>2 DEF r
<1>9. CASE ~ lazy /\ targets # {} /\ ~ Undefined(m, s)
  <2>1. The(targets) = Denoted(m, s)
    BY <1>4, <1>9, TheOne
  <2> QED
    BY <1>5, <1>6, <1>9, <2>1 DEF r
<1> QED
  BY <1>7, <1>8, <1>9

\* Which of the words ResolveSymbols looks at.
LEMMA ResolvedParts ==
  ASSUME NEW m \in DOMAIN File, Place[m] # Rtld, object[m] = ObjectOf(m), NEW lazy
  PROVE  /\ \A i \in DOMAIN File[m].rela :
              LET r == File[m].rela[i]  old == slots[m][r.offset]
              IN Resolved(m, lazy, r.offset)
                   = IF r.type = "RELATIVE" THEN old ELSE ResolveAbsolute(m, r, TRUE, old)
         /\ \A i \in DOMAIN File[m].rel :
              LET r == File[m].rel[i]  old == slots[m][r.offset]
              IN Resolved(m, lazy, r.offset)
                   = IF r.type = "RELATIVE" THEN old ELSE ResolveAbsolute(m, r, FALSE, old)
         /\ \A i \in DOMAIN File[m].plt :
              LET r == File[m].plt[i]  old == slots[m][r.offset]
              IN Resolved(m, lazy, r.offset) = ResolveJumpSlot(m, ObjectOf(m), r, lazy, old)
         /\ Tag(m, "PLTGOT", 0) # 0 => Resolved(m, lazy, Tag(m, "PLTGOT", 0) + 1) = m
<1> DEFINE got == Tag(m, "PLTGOT", 0)
           rel(offset0)  == At(File[m].rel, Tag(m, "RELCOUNT", 0) + 1, Tag(m, "RELSZ", 0), offset0)
           rela(offset0) == At(File[m].rela, Tag(m, "RELACOUNT", 0) + 1, Tag(m, "RELASZ", 0), offset0)
           plt(offset0)  == At(File[m].plt, 1, Tag(m, "PLTRELSZ", 0), offset0)
<1>1. /\ object[m].got = got
      /\ object[m].rel_count = Tag(m, "RELCOUNT", 0) /\ object[m].rela_count = Tag(m, "RELACOUNT", 0)
      /\ object[m].rel_size = Tag(m, "RELSZ", 0) /\ object[m].rela_size = Tag(m, "RELASZ", 0)
      /\ object[m].plt_size = Tag(m, "PLTRELSZ", 0)
  BY DEF ObjectOf, Initialized, Zeroed
<1>2. /\ (Tag(m, "RELCOUNT", 0) + 1) .. Tag(m, "RELSZ", 0) \subseteq DOMAIN File[m].rel
      /\ (Tag(m, "RELACOUNT", 0) + 1) .. Tag(m, "RELASZ", 0) \subseteq DOMAIN File[m].rela
      /\ 1 .. Tag(m, "PLTRELSZ", 0) = DOMAIN File[m].plt
  BY CountTypes, RelocationTypes
<1>3. /\ \A i \in DOMAIN File[m].rel : i \in (Tag(m, "RELCOUNT", 0) + 1) .. Tag(m, "RELSZ", 0)
                                         <=> File[m].rel[i].type # "RELATIVE"
      /\ \A i \in DOMAIN File[m].rela : i \in (Tag(m, "RELACOUNT", 0) + 1) .. Tag(m, "RELASZ", 0)
                                          <=> File[m].rela[i].type # "RELATIVE"
  <2>1. RelativeFirst(m, File[m].rel, "RELCOUNT") /\ RelativeFirst(m, File[m].rela, "RELACOUNT")
    BY FileAssumption DEF LinkedFile
  <2>2. \A i \in DOMAIN File[m].rel : i \in 1 .. Tag(m, "RELSZ", 0) /\ Tag(m, "RELCOUNT", 0) \in Nat
    BY CountTypes, RelocationTypes
  <2>3. \A i \in DOMAIN File[m].rela : i \in 1 .. Tag(m, "RELASZ", 0) /\ Tag(m, "RELACOUNT", 0) \in Nat
    BY CountTypes, RelocationTypes
  <2>4. Tag(m, "RELSZ", 0) \in Nat /\ Tag(m, "RELASZ", 0) \in Nat
    BY CountTypes, RelocationTypes
  <2>5. \A i \in DOMAIN File[m].rel : File[m].rel[i].type = "RELATIVE" <=> i <= Tag(m, "RELCOUNT", 0)
    BY <2>1, <2>2 DEF RelativeFirst
  <2>6. \A i \in DOMAIN File[m].rela : File[m].rela[i].type = "RELATIVE" <=> i <= Tag(m, "RELACOUNT", 0)
    BY <2>1, <2>3 DEF RelativeFirst
  <2> QED
    BY <2>2, <2>3, <2>4, <2>5, <2>6
<1>4. got # 0 => \A r \in {File[m].rel, File[m].rela, File[m].plt} : \A i \in DOMAIN r :
                   r[i].offset \notin {got + 1, got + 2}
  BY FileAssumption DEF LinkedFile
<1>5. ASSUME NEW offset0
      PROVE  Resolved(m, lazy, offset0) =
               LET old == slots[m][offset0] IN
               CASE got # 0 /\ offset0 = got + 1 -> m
                 [] got # 0 /\ offset0 = got + 2 -> Resolver
                 [] rel(offset0) # {}  -> ResolveAbsolute(m, File[m].rel[The(rel(offset0))], FALSE, old)
                 [] rela(offset0) # {} -> ResolveAbsolute(m, File[m].rela[The(rela(offset0))], TRUE, old)
                 [] plt(offset0) # {}  -> ResolveJumpSlot(m, ObjectOf(m), File[m].plt[The(plt(offset0))], lazy, old)
                 [] OTHER -> old
  BY <1>1 DEF Resolved
<1>6. ASSUME NEW i \in DOMAIN File[m].rela
      PROVE  LET r == File[m].rela[i]  old == slots[m][r.offset]
             IN Resolved(m, lazy, r.offset)
                  = IF r.type = "RELATIVE" THEN old ELSE ResolveAbsolute(m, r, TRUE, old)
  <2> DEFINE r == File[m].rela[i]
  <2>1. rel(r.offset) = {} /\ plt(r.offset) = {}
    BY <1>2, AtOther, WordsApart
  <2>2. rela(r.offset) = IF r.type = "RELATIVE" THEN {} ELSE {i}
    <3>1. rela(r.offset) = {i} \cap ((Tag(m, "RELACOUNT", 0) + 1) .. Tag(m, "RELASZ", 0))
      BY <1>2, WordsApart DEF At, OnePerWord
    <3> QED
      BY <1>3, <3>1
  <2>3. got # 0 => r.offset # got + 1 /\ r.offset # got + 2
    BY <1>4
  <2>4. The({i}) = i
    BY TheOne
  <2> HIDE DEF rel, rela, plt, got, r
  <2>5. CASE r.type = "RELATIVE"
    BY <1>5, <2>1, <2>2, <2>3, <2>5 DEF r
  <2>6. CASE r.type # "RELATIVE"
    <3>1. rela(r.offset) # {} /\ File[m].rela[The(rela(r.offset))] = r
      BY <2>2, <2>4, <2>6 DEF r
    <3>2. Resolved(m, lazy, r.offset)
            = ResolveAbsolute(m, File[m].rela[The(rela(r.offset))], TRUE, slots[m][r.offset])
      BY <1>5, <2>1, <2>3, <3>1
    <3> QED
      BY <2>6, <3>1, <3>2 DEF r
  <2> QED
    BY <2>5, <2>6
<1>7. ASSUME NEW i \in DOMAIN File[m].rel
      PROVE  LET r == File[m].rel[i]  old == slots[m][r.offset]
             IN Resolved(m, lazy, r.offset)
                  = IF r.type = "RELATIVE" THEN old ELSE ResolveAbsolute(m, r, FALSE, old)
  <2> DEFINE r == File[m].rel[i]
  <2>1. rela(r.offset) = {} /\ plt(r.offset) = {}
    BY <1>2, AtOther, WordsApart
  <2>2. rel(r.offset) = IF r.type = "RELATIVE" THEN {} ELSE {i}
    <3>1. rel(r.offset) = {i} \cap ((Tag(m, "RELCOUNT", 0) + 1) .. Tag(m, "RELSZ", 0))
      BY <1>2, WordsApart DEF At, OnePerWord
    <3> QED
      BY <1>3, <3>1
  <2>3. got # 0 => r.offset # got + 1 /\ r.offset # got + 2
    BY <1>4
  <2>4. The({i}) = i
    BY TheOne
  <2> HIDE DEF rel, rela, plt, got, r
  <2>5. CASE r.type = "RELATIVE"
    BY <1>5, <2>1, <2>2, <2>3, <2>5 DEF r
  <2>6. CASE r.type # "RELATIVE"
    <3>1. rel(r.offset) # {} /\ File[m].rel[The(rel(r.offset))] = r
      BY <2>2, <2>4, <2>6 DEF r
    <3>2. Resolved(m, lazy, r.offset)
            = ResolveAbsolute(m, File[m].rel[The(rel(r.offset))], FALSE, slots[m][r.offset])
      BY <1>5, <2>1, <2>3, <3>1
    <3> QED
      BY <2>6, <3>1, <3>2 DEF r
  <2> QED
    BY <2>5, <2>6
<1>8. ASSUME NEW i \in DOMAIN File[m].plt
      PROVE  LET r == File[m].plt[i]  old == slots[m][r.offset]
             IN Resolved(m, lazy, r.offset) = ResolveJumpSlot(m, ObjectOf(m), r, lazy, old)
  <2> DEFINE r == File[m].plt[i]
  <2>1. rel(r.offset) = {} /\ rela(r.offset) = {}
    BY <1>2, AtOther, WordsApart
  <2>2. plt(r.offset) = {i}
    BY <1>2, WordsApart DEF At, OnePerWord
  <2>3. got # 0 => r.offset # got + 1 /\ r.offset # got + 2
    BY <1>4
  <2>4. The({i}) = i
    BY TheOne
  <2> HIDE DEF rel, rela, plt, got, r
  <2>5. plt(r.offset) # {} /\ File[m].plt[The(plt(r.offset))] = r
    BY <2>2, <2>4 DEF r
  <2>6. Resolved(m, lazy, r.offset)
          = ResolveJumpSlot(m, ObjectOf(m), File[m].plt[The(plt(r.offset))], lazy, slots[m][r.offset])
    BY <1>5, <2>1, <2>3, <2>5
  <2> QED
    BY <2>5, <2>6 DEF r
<1>9. ASSUME got # 0 PROVE Resolved(m, lazy, got + 1) = m
  <2>1. rel(got + 1) = {} /\ rela(got + 1) = {} /\ plt(got + 1) = {}
    BY <1>2, <1>4, <1>9 DEF At
  <2>2. got \in Nat
    BY FileAssumption DEF LinkedFile
  <2> HIDE DEF rel, rela, plt, got
  <2>3. got + 1 # got + 2
    BY <2>2
  <2> QED
    BY <1>5, <1>9, <2>1, <2>3
<1> QED
  BY <1>6, <1>7, <1>8, <1>9

\* The linker's own pass leaves its words as they are.
LEMMA SelfResolved ==
  ASSUME WellPlaced, NEW m \in DOMAIN File, Place[m] = Rtld, ModuleInv(m), DOMAIN slots = DOMAIN File,
         DOMAIN object = DOMAIN File, DOMAIN linked = DOMAIN File, NEW lazy, ResolveSymbols(m, lazy),
         loaded' = loaded, pc # "main", pc' # "main"
  PROVE  ModuleInv(m)'
<1>1. /\ linked[m] = "relocated" /\ linked'[m] = "resolved"
      /\ slots'[m] = [offset0 \in DOMAIN slots[m] |-> Resolved(m, lazy, offset0)]
      /\ object'[m].base = object[m].base /\ object'[m].got = object[m].got
  <2>1. object[m] = Zeroed
    BY DEF ResolveSymbols, ModuleInv, ObjectOf
  <2> QED
    BY <2>1 DEF ResolveSymbols, Zeroed
<1>2. object[m] = Zeroed /\ ObjectOf(m) = Zeroed /\ DOMAIN slots[m] = DOMAIN File[m].words /\ WordsRelocated(m)
  BY <1>1 DEF ModuleInv, ObjectOf
<1>3. \A offset0 : Resolved(m, lazy, offset0) = slots[m][offset0]
  <2> SUFFICES ASSUME NEW offset0 PROVE Resolved(m, lazy, offset0) = slots[m][offset0]
    OBVIOUS
  <2>1. /\ object[m].got = 0 /\ object[m].rel_count = 0 /\ object[m].rel_size = 0
        /\ object[m].rela_count = 0 /\ object[m].rela_size = 0 /\ object[m].plt_size = 0
    BY <1>2 DEF Zeroed
  <2>2. \A r : At(r, 0 + 1, 0, offset0) = {} /\ At(r, 1, 0, offset0) = {}
    BY DEF At
  <2> QED
    BY <2>1, <2>2 DEF Resolved
<1>4. /\ \A i \in DOMAIN File[m].rela : ~ ByName(File[m].rela[i].type)
      /\ \A i \in DOMAIN File[m].rel : ~ ByName(File[m].rel[i].type)
      /\ File[m].plt = <<>>
  BY FileAssumption
<1>5. ASSUME NEW r, NEW rela, ~ ByName(r.type)
      PROVE  Promised(m, r, rela)' = RelocatedWord(m, r, rela)
  <2>1. Promised(m, r, rela)' = Promised(m, r, rela)
    BY PromiseSame DEF SamePromise
  <2>2. Promised(m, r, rela) = LinkedWord(m, r, rela)
    BY PromisedEarly
  <2> QED
    BY <1>5, <2>1, <2>2 DEF LinkedWord
<1>6. \A offset0 \in DOMAIN File[m].words : slots'[m][offset0] = slots[m][offset0]
  BY <1>1, <1>2, <1>3
<1>7. ASSUME NEW i \in DOMAIN File[m].rela
      PROVE  slots'[m][File[m].rela[i].offset] = Promised(m, File[m].rela[i], TRUE)'
  <2> DEFINE r == File[m].rela[i]
  <2>1. r.offset \in DOMAIN File[m].words /\ ~ ByName(r.type)
    BY <1>4, RelocationTypes DEF Relocation
  <2>2. slots[m][r.offset] = RelocatedWord(m, r, TRUE)
    BY <1>2 DEF WordsRelocated
  <2> HIDE DEF r
  <2>3. slots'[m][r.offset] = Promised(m, r, TRUE)'
    BY <1>5, <1>6, <2>1, <2>2
  <2> QED
    BY <2>3 DEF r
<1>8. ASSUME NEW i \in DOMAIN File[m].rel
      PROVE  slots'[m][File[m].rel[i].offset] = Promised(m, File[m].rel[i], FALSE)'
  <2> DEFINE r == File[m].rel[i]
  <2>1. r.offset \in DOMAIN File[m].words /\ ~ ByName(r.type)
    BY <1>4, RelocationTypes DEF Relocation
  <2>2. slots[m][r.offset] = RelocatedWord(m, r, FALSE)
    BY <1>2 DEF WordsRelocated
  <2> HIDE DEF r
  <2>3. slots'[m][r.offset] = Promised(m, r, FALSE)'
    BY <1>5, <1>6, <2>1, <2>2
  <2> QED
    BY <2>3 DEF r
<1>9. WordsNamed(m)' /\ StubsReady(m)'
  <2>1. DOMAIN File[m].plt = {}
    BY <1>4
  <2>2. WordsNamed(m)'
    BY <1>7, <1>8, <2>1 DEF WordsNamed
  <2>3. StubsReady(m)'
    BY <2>1 DEF StubsReady
  <2> QED
    BY <2>2, <2>3
<1>10. object'[m].base = LinkerBase(m)' /\ object'[m].got = ObjectOf(m)'.got
  <2>1. LinkerBase(m)' = 0 /\ ObjectOf(m)' = Zeroed
    BY <1>2, SameBases DEF LinkerBase
  <2> QED
    BY <1>1, <1>2, <2>1 DEF Zeroed
<1>11. DOMAIN slots'[m] = DOMAIN File[m].words
  BY <1>1, <1>2
<1> QED
  BY <1>1, <1>9, <1>10, <1>11 DEF ModuleInv

\* Any other's names.
LEMMA OthersResolved ==
  ASSUME WellPlaced, AllBased, NEW m \in DOMAIN File, Place[m] # Rtld, ModuleInv(m),
         DOMAIN slots = DOMAIN File, DOMAIN object = DOMAIN File, DOMAIN linked = DOMAIN File,
         NEW lazy \in BOOLEAN, ResolveSymbols(m, lazy), loaded' = loaded, pc # "main", pc' # "main"
  PROVE  ModuleInv(m)'
<1>1. linked[m] = "relocated" /\ object[m] = ObjectOf(m) /\ WordsRelocated(m)
      /\ DOMAIN slots[m] = DOMAIN File[m].words
  BY DEF ResolveSymbols, ModuleInv
<1>2. ObjectOf(m) = Initialized(Zeroed, m, Base(m)) /\ ObjectOf(m).base = Base(m)
      /\ ObjectOf(m).got = Tag(m, "PLTGOT", 0) /\ ObjectOf(m).plt_size = Tag(m, "PLTRELSZ", 0)
  BY DEF ObjectOf, Initialized
<1>3. /\ linked'[m] = "resolved"
      /\ slots'[m] = [offset0 \in DOMAIN File[m].words |-> Resolved(m, lazy, offset0)]
      /\ \A a, b \in StubsOf(m) : a = b
  BY <1>1 DEF ResolveSymbols
<1>4. /\ object'[m].base = Base(m) /\ object'[m].got = Tag(m, "PLTGOT", 0)
      /\ StubsOf(m) # {} => object'[m].stub = The(StubsOf(m))
  <2>1. object'[m] = [Initialized(Zeroed, m, Base(m)) EXCEPT
                        !.stub = The(IF StubsOf(m) = {} THEN {NoStub} ELSE StubsOf(m))]
    BY <1>1, <1>2 DEF ResolveSymbols
  <2> QED
    BY <2>1 DEF Initialized
<1>5. ASSUME NEW r, NEW rela
      PROVE  Promised(m, r, rela)' = LinkedWord(m, r, rela)
  <2>1. Promised(m, r, rela)' = Promised(m, r, rela)
    BY PromiseSame DEF SamePromise
  <2> QED
    BY <2>1, PromisedEarly
<1>6. ASSUME NEW i \in DOMAIN File[m].rela
      PROVE  slots'[m][File[m].rela[i].offset] = Promised(m, File[m].rela[i], TRUE)'
  <2> DEFINE r == File[m].rela[i]
  <2>1. Relocation(m, r) /\ r.offset \in DOMAIN File[m].words
    BY RelocationTypes DEF Relocation
  <2>2. slots[m][r.offset] = RelocatedWord(m, r, TRUE)
    BY <1>1 DEF WordsRelocated
  <2>3. Resolved(m, lazy, r.offset) = IF r.type = "RELATIVE" THEN RelocatedWord(m, r, TRUE)
                                      ELSE ResolveAbsolute(m, r, TRUE, RelocatedWord(m, r, TRUE))
    BY <1>1, <2>2, ResolvedParts
  <2> HIDE DEF r
  <2>4. Resolved(m, lazy, r.offset) = LinkedWord(m, r, TRUE)
    <3>1. CASE r.type = "RELATIVE"
      BY <2>3, <3>1 DEF LinkedWord, ByName
    <3>2. CASE r.type # "RELATIVE"
      <4>1. RelocatedWord(m, r, TRUE) = Plain(m, r)
        BY <3>2 DEF RelocatedWord
      <4> QED
        BY <2>1, <2>3, <3>2, <4>1, AbsoluteRight
    <3> QED
      BY <3>1, <3>2
  <2>5. slots'[m][r.offset] = LinkedWord(m, r, TRUE)
    BY <1>3, <2>1, <2>4
  <2> QED
    BY <1>5, <2>5 DEF r
<1>7. ASSUME NEW i \in DOMAIN File[m].rel
      PROVE  slots'[m][File[m].rel[i].offset] = Promised(m, File[m].rel[i], FALSE)'
  <2> DEFINE r == File[m].rel[i]
  <2>1. Relocation(m, r) /\ r.offset \in DOMAIN File[m].words
    BY RelocationTypes DEF Relocation
  <2>2. slots[m][r.offset] = RelocatedWord(m, r, FALSE)
    BY <1>1 DEF WordsRelocated
  <2>3. Resolved(m, lazy, r.offset) = IF r.type = "RELATIVE" THEN RelocatedWord(m, r, FALSE)
                                      ELSE ResolveAbsolute(m, r, FALSE, RelocatedWord(m, r, FALSE))
    BY <1>1, <2>2, ResolvedParts
  <2> HIDE DEF r
  <2>4. Resolved(m, lazy, r.offset) = LinkedWord(m, r, FALSE)
    <3>1. CASE r.type = "RELATIVE"
      BY <2>3, <3>1 DEF LinkedWord, ByName
    <3>2. CASE r.type # "RELATIVE"
      <4>1. RelocatedWord(m, r, FALSE) = Plain(m, r)
        BY <3>2 DEF RelocatedWord
      <4> QED
        BY <2>1, <2>3, <3>2, <4>1, AbsoluteRight
    <3> QED
      BY <3>1, <3>2
  <2>5. slots'[m][r.offset] = LinkedWord(m, r, FALSE)
    BY <1>3, <2>1, <2>4
  <2> QED
    BY <1>5, <2>5 DEF r
<1>8. ASSUME NEW i \in DOMAIN File[m].plt
      PROVE  /\ slots'[m][File[m].plt[i].offset]
                  \in {Bound(m, File[m].plt[i]), Base(m) + Plain(m, File[m].plt[i])}
             /\ object'[m].stub = Base(m) + Plain(m, File[m].plt[i])
             /\ slots'[m][Tag(m, "PLTGOT", 0) + 1] = m
  <2> DEFINE r == File[m].plt[i]
  <2>1. r.offset \in DOMAIN File[m].words /\ slots[m][r.offset] = Plain(m, r)
    BY <1>1, RelocationTypes DEF Relocation, WordsRelocated
  <2>2. Resolved(m, lazy, r.offset) = ResolveJumpSlot(m, ObjectOf(m), r, lazy, Plain(m, r))
    BY <1>1, <2>1, ResolvedParts
  <2>3. Resolved(m, lazy, r.offset) \in {Bound(m, r), Base(m) + Plain(m, r)}
    BY <2>2, JumpSlotRight
  <2>4. Base(m) + Plain(m, r) \in StubsOf(m)
    <3>1. i \in 1 .. object[m].plt_size /\ r.type = "JUMP_SLOT"
      BY <1>1, <1>2, CountTypes, RelocationTypes, LinkageTable
    <3> QED
      BY <1>1, <1>2, <2>1, <3>1 DEF StubsOf
  <2>5. The(StubsOf(m)) = Base(m) + Plain(m, r)
    <3>1. StubsOf(m) = {Base(m) + Plain(m, r)}
      BY <1>3, <2>4
    <3> QED
      BY <3>1, TheOne
  <2>6. Tag(m, "PLTGOT", 0) # 0 /\ Tag(m, "PLTGOT", 0) + 1 \in DOMAIN File[m].words
    BY LinkageTable
  <2>7. Resolved(m, lazy, Tag(m, "PLTGOT", 0) + 1) = m
    BY <1>1, <2>6, ResolvedParts
  <2> HIDE DEF r
  <2> QED
    BY <1>3, <1>4, <2>1, <2>3, <2>4, <2>5, <2>6, <2>7 DEF r
<1>9. /\ Base(m)' = Base(m) /\ LinkerBase(m)' = Base(m) /\ ObjectOf(m)' = ObjectOf(m)
      /\ \A r : Bound(m, r)' = Bound(m, r)
  BY SameBases DEF LinkerBase
<1>10. WordsNamed(m)'
  BY <1>6, <1>7, <1>8, <1>9 DEF WordsNamed, Plain
<1>11. StubsReady(m)'
  BY <1>8, <1>9 DEF StubsReady, Plain
<1>12. object'[m].base = LinkerBase(m)' /\ object'[m].got = ObjectOf(m)'.got
  BY <1>2, <1>4, <1>9
<1>13. DOMAIN slots'[m] = DOMAIN File[m].words
  BY <1>3
<1> QED
  BY <1>3, <1>10, <1>11, <1>12, <1>13 DEF ModuleInv
-----------------------------------------------------------------------------
(***************************************************************************)
(* One step of the linker.                                                 *)
(***************************************************************************)
\* What is done to one module, of which the others know nothing.
LEMMA OneModule ==
  ASSUME LoaderInv, NEW m \in DOMAIN File, ModuleInv(m)', loaded' = loaded, pc # "main", pc' # "main",
         DOMAIN object' = DOMAIN File, DOMAIN slots' = DOMAIN File, DOMAIN linked' = DOMAIN File,
         \A n \in DOMAIN File \ {m} : object'[n] = object[n] /\ slots'[n] = slots[n] /\ linked'[n] = linked[n]
  PROVE  \A n \in DOMAIN File : ModuleInv(n)'
<1>1. ASSUME NEW n \in DOMAIN File \ {m} PROVE ModuleInv(n)'
  <2>1. ModuleInv(n) /\ SamePromise(n)
    BY DEF LoaderInv, SamePromise
  <2> QED
    BY <2>1, ModuleSame
<1> QED
  BY <1>1

\* Names are asked for when every module is relocated.
LEMMA RelocatedBased ==
  ASSUME LoaderInv, \A n \in DOMAIN File : linked[n] \in {"relocated", "resolved"}
  PROVE  AllBased
<1> SUFFICES ASSUME NEW n \in DOMAIN File PROVE object[n].base = LinkerBase(n)
  BY DEF AllBased
<1>1. ModuleInv(n) /\ linked[n] \in {"relocated", "resolved"}
  BY DEF LoaderInv
<1>2. ObjectOf(n).base = LinkerBase(n)
  BY DEF ObjectOf, LinkerBase, Zeroed, Initialized
<1> QED
  BY <1>1, <1>2 DEF ModuleInv

LEMMA LinkKeeps == NamesInv /\ Link => NamesInv'
<1> SUFFICES ASSUME NamesInv, Link PROVE NamesInv'
  OBVIOUS
<1>1. /\ pc = "link" /\ loaded' = loaded /\ layout' = layout /\ self' = self
      /\ s_UserTableSet' = s_UserTableSet /\ s_SelfModuleIdx' = s_SelfModuleIdx
      /\ pc' = IF \A m \in DOMAIN File : linked'[m] = "resolved" THEN "layout" ELSE pc
  BY DEF Link, layoutVars, userVars
<1>2. /\ WellPlaced /\ LoaderInv
      /\ DOMAIN object = DOMAIN File /\ DOMAIN slots = DOMAIN File /\ DOMAIN linked = DOMAIN File
      /\ \A m \in DOMAIN File : ModuleInv(m)
      /\ \A m, n \in DOMAIN File : linked[m] = "resolved" => linked[n] \in {"relocated", "resolved"}
  BY DEF NamesInv, StartInv, LoaderInv
<1>3. /\ DOMAIN Order = 1 .. Len(Order) /\ Len(Order) \in Nat /\ \A k \in DOMAIN Order : Order[k] \in DOMAIN File
      /\ \A m \in DOMAIN File : \E k \in DOMAIN Order : Order[k] = m
  BY FileAssumption
<1> DEFINE Earlier(n, done) == \A i \in 1 .. n - 1 : linked[Order[i]] = done
           First1(k) == /\ Earlier(k, "relocated")
                        /\ IF Place[Order[k]] = Rtld THEN RelocateSelf(Order[k], Base(Order[k]))
                           ELSE Initialize(Order[k], Base(Order[k])) \/ Relocate(Order[k])
           Second(k) == /\ Earlier(k, "resolved")
                        /\ \A i \in k .. Len(Order) : linked[Order[i]] = "relocated"
                        /\ ResolveSymbols(Order[k], Order[k] \in Lazy)
<1>4. PICK k \in DOMAIN Order : First1(k) \/ Second(k)
  BY DEF Link
<1>5. PICK m \in DOMAIN File : m = Order[k]
  BY <1>3
<1> DEFINE early == linked[m] \in {"no", "initialized"}
<1>6. (First1(k) => early) /\ (Second(k) => linked[m] = "relocated")
  <2>1. First1(k) => early
    BY <1>5 DEF RelocateSelf, Initialize, Relocate
  <2>2. Second(k) => linked[m] = "relocated"
    BY <1>5 DEF ResolveSymbols
  <2> QED
    BY <2>1, <2>2
<1>7. /\ call' = call
      /\ DOMAIN object' = DOMAIN File /\ DOMAIN slots' = DOMAIN File /\ DOMAIN linked' = DOMAIN File
      /\ \A n \in DOMAIN File \ {m} : object'[n] = object[n] /\ slots'[n] = slots[n] /\ linked'[n] = linked[n]
      /\ First1(k) => linked[m] \in {"no", "initialized"} /\ linked'[m] \in {"initialized", "relocated"}
      /\ Second(k) => linked[m] = "relocated" /\ linked'[m] = "resolved"
  <2>1. CASE First1(k)
    <3>1. CASE RelocateSelf(m, Base(m))
      BY <1>2, <1>6, <2>1, <3>1 DEF RelocateSelf
    <3>2. CASE Initialize(m, Base(m))
      BY <1>2, <1>6, <2>1, <3>2 DEF Initialize
    <3>3. CASE Relocate(m)
      BY <1>2, <1>6, <2>1, <3>3 DEF Relocate
    <3> QED
      BY <1>5, <2>1, <3>1, <3>2, <3>3
  <2>2. CASE Second(k)
    <3>1. ResolveSymbols(m, m \in Lazy)
      BY <1>5, <2>2
    <3> HIDE DEF First1, Second
    <3> QED
      BY <1>2, <1>6, <2>2, <3>1 DEF ResolveSymbols
  <2> QED
    BY <1>4, <2>1, <2>2
<1>8. pc' \in {"link", "layout"} /\ pc # "main" /\ pc' # "main"
  BY <1>1
<1>9. Second(k) => \A n \in DOMAIN File : linked[n] \in {"relocated", "resolved"}
  <2> SUFFICES ASSUME Second(k), NEW n \in DOMAIN File PROVE linked[n] \in {"relocated", "resolved"}
    OBVIOUS
  <2>1. PICK i \in DOMAIN Order : Order[i] = n
    BY <1>3
  <2>2. i \in 1 .. k - 1 \/ i \in k .. Len(Order)
    BY <1>3
  <2> QED
    BY <2>1, <2>2
<1>10. ModuleInv(m)'
  <2>1. CASE First1(k)
    <3>1. CASE Place[m] = Rtld
      BY <1>1, <1>2, <1>5, <2>1, <3>1, SelfRelocated
    <3>2. CASE Place[m] # Rtld /\ Initialize(m, Base(m))
      BY <1>1, <1>2, <3>2, ModuleInitialized
    <3>3. CASE Place[m] # Rtld /\ Relocate(m)
      BY <1>1, <1>2, <3>3, OthersRelocated
    <3> QED
      BY <1>5, <2>1, <3>1, <3>2, <3>3
  <2>2. CASE Second(k)
    <3>1. ResolveSymbols(m, m \in Lazy) /\ (m \in Lazy) \in BOOLEAN
      BY <1>5, <2>2
    <3>2. AllBased
      BY <1>2, <1>9, <2>2, RelocatedBased
    <3>3. CASE Place[m] = Rtld
      BY <1>1, <1>2, <1>8, <3>1, <3>3, SelfResolved
    <3>4. CASE Place[m] # Rtld
      BY <1>1, <1>2, <1>8, <3>1, <3>2, <3>4, OthersResolved
    <3> QED
      BY <3>3, <3>4
  <2> QED
    BY <1>4, <2>1, <2>2
<1> HIDE DEF First1, Second
<1>11. \A n \in DOMAIN File : ModuleInv(n)'
  BY <1>1, <1>2, <1>7, <1>8, <1>10, OneModule
<1>12. \A a, b \in DOMAIN File : linked'[a] = "resolved" => linked'[b] \in {"relocated", "resolved"}
  <2>1. CASE First1(k)
    <3>1. \A a \in DOMAIN File : linked[a] # "resolved"
      BY <1>2, <1>7, <2>1
    <3> QED
      BY <1>7, <2>1, <3>1
  <2>2. CASE Second(k)
    BY <1>7, <1>9, <2>2
  <2> QED
    BY <1>4, <2>1, <2>2
<1>13. LoaderInv'
  BY <1>7, <1>11, <1>12 DEF LoaderInv
<1>14. CallInv'
  BY <1>1, <1>7 DEF NamesInv, CallInv
<1>15. StartInv'
  <2>1. WellPlaced'
    BY <1>1, <1>2 DEF WellPlaced
  <2>2. pc' # "link" => \A a \in DOMAIN File : linked'[a] = "resolved"
    BY <1>1
  <2> QED
    BY <1>1, <1>8, <2>1, <2>2 DEF NamesInv, StartInv
<1> QED
  BY <1>13, <1>14, <1>15 DEF NamesInv
-----------------------------------------------------------------------------
(***************************************************************************)
(* Calls.                                                                  *)
(***************************************************************************)
LEMMA LoaderSame ==
  ASSUME LoaderInv, UNCHANGED <<loaded, object, slots, linked>>, \A m \in DOMAIN File : SamePromise(m)
  PROVE  LoaderInv'
<1>1. \A m \in DOMAIN File : ModuleInv(m)'
  BY ModuleSame DEF LoaderInv
<1> QED
  BY <1>1 DEF LoaderInv

LEMMA CallSame ==
  ASSUME loaded' = loaded, NEW c
  PROVE  CallRight(c)' <=> CallRight(c)
<1>1. \A m, r : Bound(m, r)' = Bound(m, r)
  BY SameBases
<1> QED
  BY <1>1 DEF CallRight, CallShape

\* One thread's call goes on.
LEMMA OneCall ==
  ASSUME CallInv, pc = "main", pc' = "main", loaded' = loaded, NEW t \in Threads, NEW c,
         call' = [call EXCEPT ![t] = c], c = NoCall \/ CallRight(c)
  PROVE  CallInv'
<1>1. ASSUME NEW u \in Threads
      PROVE  call'[u] = NoCall \/ CallRight(call[u])'
  <2>1. PICK d : d = call'[u]
    OBVIOUS
  <2>2. d = NoCall \/ CallRight(d)
    BY <2>1 DEF CallInv
  <2>3. d = NoCall \/ CallRight(d)'
    BY <2>2, CallSame
  <2> QED
    BY <2>1, <2>3 DEF CallRight, CallShape
<1> QED
  BY <1>1 DEF CallInv

\* The address a call is bound to is that of the definition.
LEMMA LazyTargetRight ==
  ASSUME WellPlaced, AllBased, NEW m \in DOMAIN File, NEW i \in DOMAIN File[m].plt
  PROVE  LazyTarget(m, i) = Bound(m, File[m].plt[i])
<1> DEFINE r == File[m].plt[i]
           s == SymbolOf(m, r)
           targets == TryResolveSymbol(m, r.sym)
           word(those) == IF those \in {{}, {0}} THEN 0 ELSE The(those) + r.addend
<1>1. r.addend = 0 /\ Place[m] # Rtld /\ r.sym \in DOMAIN File[m].symbols
  BY LinkageTable, RelocationTypes DEF Relocation
<1>2. /\ Undefined(m, s) => targets = IF s.hidden /\ s.bind = "weak" THEN {0} ELSE {}
      /\ ~ Undefined(m, s) => targets = {Denoted(m, s)} /\ Denoted(m, s) \in Nat \ {0}
  BY <1>1, TargetsDenoted DEF SymbolOf
<1>3. LazyTarget(m, i) = The({ word(those) : those \in {targets} })
  BY <1>1 DEF LazyTarget
<1> HIDE DEF targets, s, r
<1>4. { word(those) : those \in {targets} } = {word(targets)}
  OBVIOUS
<1>5. LazyTarget(m, i) = word(targets)
  <2> HIDE DEF word
  <2> QED
    BY <1>3, <1>4, TheOne
<1>6. Bound(m, r) = IF Undefined(m, s) THEN 0 ELSE Denoted(m, s) + r.addend
  BY DEF Bound, SymbolOf, s
<1>7. CASE Undefined(m, s)
  BY <1>2, <1>5, <1>6, <1>7 DEF r
<1>8. CASE ~ Undefined(m, s)
  <2>1. targets \notin {{}, {0}} /\ The(targets) = Denoted(m, s)
    BY <1>2, <1>8, TheOne
  <2> QED
    BY <1>5, <1>6, <1>8, <2>1 DEF r
<1> QED
  BY <1>7, <1>8

\* What a call finds: every module resolved.
LEMMA AllResolved ==
  ASSUME NamesInv, pc = "main"
  PROVE  /\ WellPlaced /\ AllBased /\ LoaderInv /\ CallInv
         /\ \A m \in DOMAIN File :
              /\ linked[m] = "resolved" /\ object[m].got = ObjectOf(m).got
              /\ WordsNamed(m) /\ StubsReady(m)
<1>1. \A m \in DOMAIN File : linked[m] = "resolved" /\ ModuleInv(m)
  BY DEF NamesInv, StartInv, LoaderInv
<1>2. LoaderInv /\ WellPlaced /\ CallInv
  BY DEF NamesInv, StartInv
<1> QED
  BY <1>1, <1>2, RelocatedBased DEF ModuleInv

\* The slot is the one word that is stored to.
LEMMA SlotStored ==
  ASSUME NamesInv, pc = "main", pc' = "main", UNCHANGED <<loaded, object, linked, s_UserTableSet, s_UserVersion>>,
         NEW m \in DOMAIN File, NEW i \in DOMAIN File[m].plt, NEW to, to = Bound(m, File[m].plt[i]),
         slots' = [slots EXCEPT ![m][File[m].plt[i].offset] = to]
  PROVE  LoaderInv'
<1> DEFINE word == File[m].plt[i].offset
           got == Tag(m, "PLTGOT", 0)
<1>1. /\ WellPlaced /\ AllBased /\ LoaderInv
      /\ linked[m] = "resolved" /\ WordsNamed(m) /\ StubsReady(m) /\ ModuleInv(m)
      /\ DOMAIN slots = DOMAIN File
  BY AllResolved DEF LoaderInv
<1>2. DOMAIN slots[m] = DOMAIN File[m].words /\ word \in DOMAIN File[m].words
  BY <1>1, RelocationTypes DEF ModuleInv, Relocation
<1>3. /\ slots'[m][word] = to /\ DOMAIN slots'[m] = DOMAIN slots[m]
      /\ \A a \in DOMAIN File[m].words : a # word => slots'[m][a] = slots[m][a]
      /\ \A n \in DOMAIN File \ {m} : slots'[n] = slots[n]
  BY <1>1, <1>2
<1>4. /\ \A n \in DOMAIN File : SamePromise(n)
      /\ \A n, r, rela : n \in DOMAIN File => Promised(n, r, rela)' = Promised(n, r, rela)
      /\ \A r : Bound(m, r)' = Bound(m, r)
      /\ Base(m)' = Base(m) /\ LinkerBase(m)' = LinkerBase(m) /\ ObjectOf(m)' = ObjectOf(m)
  <2>1. \A n : SamePromise(n)
    BY DEF SamePromise
  <2> QED
    BY <2>1, SameBases, PromiseSame
<1>5. /\ \A j \in DOMAIN File[m].rela : /\ File[m].rela[j].offset # word
                                        /\ File[m].rela[j].offset \in DOMAIN File[m].words
      /\ \A j \in DOMAIN File[m].rel : /\ File[m].rel[j].offset # word
                                       /\ File[m].rel[j].offset \in DOMAIN File[m].words
      /\ \A j \in DOMAIN File[m].plt : /\ File[m].plt[j].offset = word => j = i
                                       /\ File[m].plt[j].offset \in DOMAIN File[m].words
  BY WordsApart, RelocationTypes DEF OnePerWord, OtherWords, Relocation
<1>6. got + 1 # word /\ got + 1 \in DOMAIN File[m].words
  <2>1. got # 0 /\ got + 1 \in DOMAIN File[m].words
    BY LinkageTable
  <2>2. LinkedFile(m)
    BY FileAssumption
  <2>3. \A r \in {File[m].rel, File[m].rela, File[m].plt} : \A j \in DOMAIN r :
          r[j].offset \notin {got + 1, got + 2}
    BY <2>1, <2>2 DEF LinkedFile
  <2> QED
    BY <2>1, <2>3
<1> HIDE DEF word, got
<1>7. WordsNamed(m)'
  <2>1. ASSUME NEW j \in DOMAIN File[m].rela
        PROVE  slots'[m][File[m].rela[j].offset] = Promised(m, File[m].rela[j], TRUE)'
    <3> DEFINE r == File[m].rela[j]
    <3>1. slots'[m][r.offset] = slots[m][r.offset]
      BY <1>3, <1>5
    <3>2. slots[m][r.offset] = Promised(m, r, TRUE)
      BY <1>1 DEF WordsNamed
    <3> HIDE DEF r
    <3>3. Promised(m, r, TRUE)' = Promised(m, r, TRUE)
      BY <1>4, PromiseSame
    <3> QED
      BY <3>1, <3>2, <3>3 DEF r
  <2>2. ASSUME NEW j \in DOMAIN File[m].rel
        PROVE  slots'[m][File[m].rel[j].offset] = Promised(m, File[m].rel[j], FALSE)'
    <3> DEFINE r == File[m].rel[j]
    <3>1. slots'[m][r.offset] = slots[m][r.offset]
      BY <1>3, <1>5
    <3>2. slots[m][r.offset] = Promised(m, r, FALSE)
      BY <1>1 DEF WordsNamed
    <3> HIDE DEF r
    <3>3. Promised(m, r, FALSE)' = Promised(m, r, FALSE)
      BY <1>4, PromiseSame
    <3> QED
      BY <3>1, <3>2, <3>3 DEF r
  <2>3. ASSUME NEW j \in DOMAIN File[m].plt
        PROVE  slots'[m][File[m].plt[j].offset]
                 \in {Bound(m, File[m].plt[j])', (Base(m) + Plain(m, File[m].plt[j]))'}
    <3>1. CASE j = i
      BY <1>3, <1>4, <3>1 DEF word
    <3>2. CASE j # i
      <4>1. slots'[m][File[m].plt[j].offset] = slots[m][File[m].plt[j].offset]
        BY <1>3, <1>5, <3>2
      <4>2. slots[m][File[m].plt[j].offset] \in {Bound(m, File[m].plt[j]), Base(m) + Plain(m, File[m].plt[j])}
        BY <1>1 DEF WordsNamed
      <4> QED
        BY <1>4, <4>1, <4>2 DEF Plain
    <3> QED
      BY <3>1, <3>2
  <2> QED
    BY <2>1, <2>2, <2>3 DEF WordsNamed
<1>8. StubsReady(m)'
  <2>1. slots'[m][got + 1] = slots[m][got + 1]
    BY <1>3, <1>6
  <2> QED
    BY <1>1, <1>4, <2>1 DEF StubsReady, Plain, got
<1>9. ModuleInv(m)'
  BY <1>1, <1>2, <1>3, <1>4, <1>7, <1>8 DEF ModuleInv
<1>10. ASSUME NEW n \in DOMAIN File \ {m} PROVE ModuleInv(n)'
  <2>1. ModuleInv(n)
    BY <1>1 DEF LoaderInv
  <2> QED
    BY <1>3, <1>4, <2>1, ModuleSame
<1> QED
  BY <1>1, <1>9, <1>10 DEF LoaderInv

LEMMA CallsKeep == NamesInv /\ Calling => NamesInv'
<1> SUFFICES ASSUME NamesInv, Calling PROVE NamesInv'
  OBVIOUS
<1>1. /\ pc = "main" /\ pc' = "main" /\ UNCHANGED <<loaded, layout, self, s_UserTableSet, s_UserVersion, s_SelfModuleIdx>>
  BY DEF Calling, layoutVars, userVars
<1>2. /\ WellPlaced /\ AllBased /\ LoaderInv /\ CallInv
      /\ \A m \in DOMAIN File : /\ linked[m] = "resolved" /\ object[m].got = ObjectOf(m).got
                                /\ WordsNamed(m) /\ StubsReady(m)
  BY <1>1, AllResolved
<1>3. linked' = linked => StartInv'
  BY <1>1 DEF NamesInv, StartInv, WellPlaced
<1>4. \A m \in DOMAIN File : SamePromise(m)
  BY <1>1 DEF SamePromise
<1>5. PICK t \in Threads :
        \/ \E m \in DOMAIN File : \E i \in DOMAIN File[m].plt : CallThrough(t, m, i)
        \/ LazyBind(t) \/ StoreSlot(t) \/ Jumped(t)
  BY DEF Calling
<1>6. PICK c : c = call[t]
  OBVIOUS
<1>7. (c = NoCall /\ c.step = "none") \/ (CallRight(c) /\ c.step # "none")
  BY <1>2, <1>6 DEF CallInv, CallRight, NoCall
<1>8. ASSUME NEW m \in DOMAIN File, NEW i \in DOMAIN File[m].plt, CallThrough(t, m, i)
      PROVE  NamesInv'
  <2> DEFINE to == slots[m][File[m].plt[i].offset]
             d == [step |-> IF to = object[m].stub THEN "bind" ELSE "jump", m |-> m, i |-> i, to |-> to]
  <2>1. call' = [call EXCEPT ![t] = d] /\ UNCHANGED <<object, slots, linked>>
    BY <1>8 DEF CallThrough
  <2>2. to # object[m].stub => to = Bound(m, File[m].plt[i])
    <3>1. to \in {Bound(m, File[m].plt[i]), Base(m) + Plain(m, File[m].plt[i])}
      BY <1>2 DEF WordsNamed
    <3>2. object[m].stub = Base(m) + Plain(m, File[m].plt[i])
      BY <1>2 DEF StubsReady
    <3> QED
      BY <3>1, <3>2
  <2>3. CallRight(d)
    BY <2>2 DEF CallRight, CallShape
  <2> HIDE DEF d
  <2>4. CallInv'
    BY <1>1, <1>2, <2>1, <2>3, OneCall
  <2> QED
    BY <1>1, <1>2, <1>3, <1>4, <2>1, <2>4, LoaderSame DEF NamesInv
<1>9. CASE LazyBind(t)
  <2>1. CallRight(c) /\ c.step = "bind"
    BY <1>6, <1>7, <1>9 DEF LazyBind
  <2> DEFINE by == slots[c.m][object[c.m].got + 1]
             d == [c EXCEPT !.step = "store", !.to = LazyTarget(by, c.i)]
  <2>2. c.m \in DOMAIN File /\ c.i \in DOMAIN File[c.m].plt
    BY <2>1 DEF CallRight
  <2>m. PICK m \in DOMAIN File : m = c.m
    BY <2>2
  <2>i. PICK i \in DOMAIN File[m].plt : i = c.i
    BY <2>2, <2>m
  <2>3. m \in DOMAIN File /\ i \in DOMAIN File[m].plt /\ m = c.m /\ i = c.i
    BY <2>m, <2>i
  <2>4. by = m
    <3>1. ObjectOf(m).got = Tag(m, "PLTGOT", 0)
      BY <2>3, LinkageTable DEF ObjectOf, Initialized
    <3> QED
      BY <1>2, <2>3, <3>1 DEF StubsReady
  <2>5. d = [step |-> "store", m |-> m, i |-> i, to |-> Bound(m, File[m].plt[i])]
    <3>1. LazyTarget(by, c.i) = Bound(m, File[m].plt[i])
      BY <1>2, <2>3, <2>4, LazyTargetRight
    <3>2. c = [step |-> c.step, m |-> m, i |-> i, to |-> c.to]
      BY <2>1, <2>3 DEF CallRight, CallShape
    <3>3. PICK x : x = LazyTarget(by, c.i)
      OBVIOUS
    <3>4. d = [c EXCEPT !.step = "store", !.to = x]
      BY <3>3
    <3> HIDE DEF by, d
    <3>5. PICK a, b : c = [step |-> a, m |-> m, i |-> i, to |-> b]
      BY <3>2
    <3>6. d = [[step |-> a, m |-> m, i |-> i, to |-> b] EXCEPT !.step = "store", !.to = x]
      BY <3>4, <3>5
    <3>7. d = [step |-> "store", m |-> m, i |-> i, to |-> x]
      BY <3>6
    <3> QED
      BY <3>1, <3>3, <3>7
  <2>6. call' = [call EXCEPT ![t] = d] /\ UNCHANGED <<object, slots, linked>>
    BY <1>6, <1>9 DEF LazyBind
  <2> HIDE DEF d
  <2>7. CallRight(d)
    BY <2>3, <2>5 DEF CallRight, CallShape
  <2>8. CallInv'
    BY <1>1, <1>2, <2>6, <2>7, OneCall
  <2> QED
    BY <1>1, <1>2, <1>3, <1>4, <2>6, <2>8, LoaderSame DEF NamesInv
<1>10. CASE StoreSlot(t)
  <2>1. CallRight(c) /\ c.step = "store"
    BY <1>6, <1>7, <1>10 DEF StoreSlot
  <2>2. c.m \in DOMAIN File /\ c.i \in DOMAIN File[c.m].plt /\ c.to = Bound(c.m, File[c.m].plt[c.i])
    BY <2>1 DEF CallRight
  <2>3. /\ slots' = [slots EXCEPT ![c.m][File[c.m].plt[c.i].offset] = c.to]
        /\ call' = [call EXCEPT ![t].step = "jump"] /\ UNCHANGED <<object, linked>>
    BY <1>6, <1>10 DEF StoreSlot
  <2>4. LoaderInv'
    BY <1>1, <2>2, <2>3, SlotStored
  <2> DEFINE d == [c EXCEPT !.step = "jump"]
  <2>5. call' = [call EXCEPT ![t] = d]
    BY <1>6, <2>3
  <2>6. d = [step |-> "jump", m |-> c.m, i |-> c.i, to |-> c.to]
    BY <2>1 DEF CallRight, CallShape
  <2> HIDE DEF d
  <2>7. CallRight(d)
    BY <2>2, <2>6 DEF CallRight, CallShape
  <2>8. CallInv'
    BY <1>1, <1>2, <2>5, <2>7, OneCall
  <2> QED
    BY <1>3, <2>3, <2>4, <2>8 DEF NamesInv
<1>11. CASE Jumped(t)
  <2>1. call' = [call EXCEPT ![t] = NoCall] /\ UNCHANGED <<object, slots, linked>>
    BY <1>11 DEF Jumped
  <2>2. CallInv'
    BY <1>1, <1>2, <2>1, OneCall
  <2> QED
    BY <1>1, <1>2, <1>3, <1>4, <2>1, <2>2, LoaderSame DEF NamesInv
<1> QED
  BY <1>5, <1>8, <1>9, <1>10, <1>11
-----------------------------------------------------------------------------
(***************************************************************************)
(* Tables of names.                                                        *)
(***************************************************************************)
Entry == [name : DOMAIN Hash, index : Nat, offset : Int]

LEMMA TableTypes ==
  ASSUME NEW tables \in TableSets
  PROVE  /\ DOMAIN tables \subseteq Nat \ {0}
         /\ \A k \in DOMAIN tables :
              LET entries == tables[k].entries  sorted == SortedTable(entries) IN
              /\ \A i \in DOMAIN entries : entries[i] \in Entry
              /\ HashedTable(Converted(entries))
              /\ \A i, j \in DOMAIN sorted : i < j => sorted[i].hash < sorted[j].hash
<1>1. /\ tables \in Seq([version : STRING, entries : Seq(Entry)])
      /\ \A name \in DOMAIN Hash : Hash[name] \in Nat
  BY FileAssumption DEF Entry
<1>2. DOMAIN tables = 1 .. Len(tables) /\ \A k \in DOMAIN tables : tables[k].entries \in Seq(Entry)
  <2> DEFINE T == [version : STRING, entries : Seq(Entry)]
  <2>1. DOMAIN tables = 1 .. Len(tables) /\ \A k \in DOMAIN tables : tables[k] \in T
    <3>1. tables \in Seq(T)
      BY <1>1
    <3> HIDE DEF T
    <3> QED
      BY <3>1
  <2>2. \A x \in T : x.entries \in Seq(Entry)
    OBVIOUS
  <2> QED
    BY <2>1, <2>2
<1>3. DOMAIN tables \subseteq Nat \ {0}
  <2>1. \A k \in 1 .. Len(tables) : k \in Nat \ {0}
    BY <1>1
  <2> QED
    BY <1>2, <2>1
<1>4. ASSUME NEW k \in DOMAIN tables
      PROVE  LET entries == tables[k].entries  sorted == SortedTable(entries) IN
             /\ \A i \in DOMAIN entries : entries[i] \in Entry
             /\ HashedTable(Converted(entries))
             /\ \A i, j \in DOMAIN sorted : i < j => sorted[i].hash < sorted[j].hash
  <2> DEFINE entries == tables[k].entries
             given == Converted(entries)
             sorted == SortedTable(entries)
             hashes == [i \in DOMAIN sorted |-> sorted[i].hash]
  <2>1. /\ DOMAIN entries = 1 .. Len(entries) /\ Len(entries) \in Nat
        /\ \A i \in DOMAIN entries : entries[i] \in Entry
    <3>1. entries \in Seq(Entry)
      BY <1>2
    <3> HIDE DEF entries
    <3> QED
      BY <3>1
  <2>2. DOMAIN given = 1 .. Len(entries) /\ \A i \in DOMAIN given : given[i].hash = Hash[entries[i].name]
    BY <2>1 DEF Converted, Convert
  <2>3. given = [i \in 1 .. Len(entries) |-> given[i]]
    BY <2>1 DEF Converted
  <2>4. Len(given) = Len(entries)
    <3> HIDE DEF given, entries
    <3> QED
      BY <2>1, <2>3, LenOf
  <2>5. \A i \in DOMAIN given : given[i].hash \in Nat
    <3> HIDE DEF given, entries
    <3>1. \A e \in Entry : e.name \in DOMAIN Hash
      BY DEF Entry
    <3> QED
      BY <1>1, <2>1, <2>2, <3>1
  <2>6. HashedTable(given)
    BY <2>1, <2>2, <2>4, <2>5 DEF HashedTable
  <2>7. /\ DOMAIN sorted = DOMAIN entries /\ Len(sorted) = Len(given)
        /\ \A j \in DOMAIN sorted : \E i \in DOMAIN entries : sorted[j] = given[i]
        /\ \A i, j \in DOMAIN sorted : i <= j => sorted[i].hash <= sorted[j].hash
    BY <2>6, SortedWell
  <2>8. IsUnique(hashes)
    BY StartUpAssumption DEF Compiles
  <2> HIDE DEF sorted, given, entries
  <2>9. Len(hashes) = Len(entries)
    <3>1. hashes = [i \in 1 .. Len(entries) |-> hashes[i]]
      BY <2>1, <2>7
    <3> HIDE DEF hashes
    <3> QED
      BY <2>1, <3>1, LenOf
  <2>10. \A i \in 1 .. Len(entries) - 1 : sorted[i].hash # sorted[i + 1].hash
    <3>1. \A i \in 1 .. Len(entries) - 1 : hashes[i] # hashes[i + 1]
      BY <2>8, <2>9 DEF IsUnique
    <3>2. \A i \in 1 .. Len(entries) - 1 : i \in 1 .. Len(entries) /\ i + 1 \in 1 .. Len(entries)
      BY <2>1
    <3>3. \A i \in 1 .. Len(entries) : hashes[i] = sorted[i].hash
      BY <2>1, <2>7
    <3> HIDE DEF hashes
    <3> QED
      BY <3>1, <3>2, <3>3
  <2>11. \A i \in DOMAIN sorted : sorted[i].hash \in Nat
    BY <2>1, <2>2, <2>5, <2>7
  <2>12. ASSUME NEW i \in DOMAIN sorted, NEW j \in DOMAIN sorted, i < j
         PROVE  sorted[i].hash < sorted[j].hash
    <3>1. i \in 1 .. Len(entries) /\ j \in 1 .. Len(entries)
      BY <2>1, <2>7
    <3>2. i + 1 \in DOMAIN sorted /\ i <= i + 1 /\ i + 1 <= j /\ i \in 1 .. Len(entries) - 1
      <4>1. PICK n \in Nat : n = Len(entries)
        BY <2>1
      <4>2. i \in 1 .. n /\ j \in 1 .. n
        BY <3>1, <4>1
      <4>3. i + 1 \in 1 .. n /\ i <= i + 1 /\ i + 1 <= j /\ i \in 1 .. n - 1
        BY <2>12, <4>2
      <4> QED
        BY <2>1, <2>7, <4>1, <4>3
    <3>3. /\ sorted[i].hash <= sorted[i + 1].hash /\ sorted[i + 1].hash <= sorted[j].hash
          /\ sorted[i].hash # sorted[i + 1].hash
      BY <2>7, <2>10, <3>2
    <3> QED
      BY <2>11, <3>2, <3>3
  <2> QED
    BY <2>1, <2>6, <2>12 DEF entries, given, sorted
<1> QED
  BY <1>3, <1>4

(***************************************************************************)
(* A name of this module is found where the table has it: once, and not in *)
(* place of another one.                                                   *)
(***************************************************************************)
Called(entries, name) == { e \in ToSet(entries) : e.name = name }

NameFound(entries, name) ==
  \/ Called(entries, name) = {} /\ FindByName(SortedTable(entries), name) = {}
  \/ \E e \in Entry :
       Called(entries, name) = {e} /\ FindByName(SortedTable(entries), name) = {Convert(e)}

LEMMA EntryFound ==
  ASSUME NEW tables \in TableSets, NEW k \in DOMAIN tables, NEW s \in DOMAIN File[This].symbols
  PROVE  NameFound(tables[k].entries, File[This].symbols[s].name)
<1> DEFINE entries == tables[k].entries
           name == File[This].symbols[s].name
           those == Called(entries, name)
           table == SortedTable(entries)
           given == Converted(entries)
           hash == Hash[name]
<1>1. /\ \A i \in DOMAIN entries : entries[i] \in Entry
      /\ HashedTable(given)
      /\ \A i, j \in DOMAIN table : i < j => table[i].hash < table[j].hash
  BY TableTypes
<1>2. /\ DOMAIN table = DOMAIN entries /\ Len(table) = Len(given)
      /\ \A j \in DOMAIN table : \E i \in DOMAIN entries : table[j] = given[i]
      /\ \A i \in DOMAIN entries : \E j \in DOMAIN table : table[j] = given[i]
      /\ \A i, j \in DOMAIN table : i <= j => table[i].hash <= table[j].hash
  BY <1>1, SortedWell
<1>3. /\ DOMAIN given = DOMAIN entries /\ DOMAIN given = 1 .. Len(given) /\ Len(given) \in Nat
      /\ \A i \in DOMAIN given : given[i].hash \in Nat
      /\ \A i \in DOMAIN given : given[i] = Convert(entries[i])
  BY <1>1 DEF HashedTable, Converted
<1>4. name \in DOMAIN Hash /\ hash \in Nat
  <2>1. This \in DOMAIN File /\ \A n \in DOMAIN Hash : Hash[n] \in Nat
    BY FileAssumption
  <2>2. File[This].symbols[s] \in Symbol
    BY <2>1, SymbolTypes
  <2> QED
    BY <2>1, <2>2 DEF Symbol
<1>5. \A i \in DOMAIN entries : Hash[entries[i].name] = hash => entries[i].name = name
  BY FileAssumption
<1>6. those = { entries[i] : i \in { j \in DOMAIN entries : entries[j].name = name } }
  BY DEF Called, ToSet
<1> HIDE DEF entries, name, those, table, given, hash
<1>7. \A i \in DOMAIN table : table[i].hash \in Nat
  BY <1>2, <1>3
<1>8. /\ FindByHash(table, hash) \subseteq { table[i] : i \in { j \in DOMAIN table : table[j].hash = hash } }
      /\ (\E i \in DOMAIN table : table[i].hash = hash)
           => \E i \in DOMAIN table : FindByHash(table, hash) = {table[i]}
  <2>1. DOMAIN table = 1 .. Len(table) /\ Len(table) \in Nat
    BY <1>2, <1>3
  <2> QED
    BY <1>2, <1>4, <1>7, <2>1, FoundByHash
<1>9. FindByName(table, name) = FindByHash(table, hash)
  BY DEF FindByName, hash
<1>10. \A i, j \in DOMAIN table : table[i].hash = table[j].hash => i = j
  <2> SUFFICES ASSUME NEW i \in DOMAIN table, NEW j \in DOMAIN table, table[i].hash = table[j].hash, i # j
               PROVE  FALSE
    OBVIOUS
  <2>1. i \in Int /\ j \in Int
    BY <1>2, <1>3
  <2>2. i < j \/ j < i
    BY <2>1
  <2> QED
    BY <1>1, <1>7, <2>2
<1>11. \A e : Convert(e) = [hash |-> Hash[e.name], index |-> e.index, offset |-> e.offset]
  BY DEF Convert
<1>12. CASE those = {}
  <2> SUFFICES ASSUME NEW x \in FindByHash(table, hash) PROVE FALSE
    BY <1>9, <1>12 DEF NameFound, entries, name, those, table
  <2>1. PICK j \in DOMAIN table : x = table[j] /\ table[j].hash = hash
    BY <1>8
  <2>2. PICK i \in DOMAIN entries : table[j] = Convert(entries[i])
    BY <1>2, <1>3
  <2>3. Hash[entries[i].name] = hash
    BY <1>11, <2>1, <2>2
  <2>4. entries[i] \in those
    BY <1>5, <1>6, <2>3
  <2> QED
    BY <1>12, <2>4
<1>13. CASE those # {}
  <2>1. PICK i \in DOMAIN entries : entries[i].name = name
    BY <1>6, <1>13
  <2>2. PICK j \in DOMAIN table : table[j] = Convert(entries[i])
    BY <1>2, <1>3
  <2>3. table[j].hash = hash
    BY <1>11, <2>1, <2>2 DEF hash
  <2>4. PICK l \in DOMAIN table : FindByHash(table, hash) = {table[l]}
    BY <1>8, <2>3
  <2>5. table[l].hash = hash
    BY <1>8, <2>4
  <2>6. FindByName(table, name) = {Convert(entries[i])}
    BY <1>9, <1>10, <2>2, <2>3, <2>4, <2>5
  <2>7. ASSUME NEW a \in DOMAIN entries, entries[a].name = name
        PROVE  entries[a] = entries[i]
    <3>1. PICK b \in DOMAIN table : table[b] = Convert(entries[a])
      BY <1>2, <1>3
    <3>2. table[b].hash = hash
      BY <1>11, <2>7, <3>1 DEF hash
    <3>3. Convert(entries[a]) = Convert(entries[i])
      BY <1>10, <2>2, <2>3, <3>1, <3>2
    <3>4. entries[a].index = entries[i].index /\ entries[a].offset = entries[i].offset
      BY <1>11, <3>3
    <3>5. entries[a] \in Entry /\ entries[i] \in Entry
      BY <1>1
    <3>6. \A x, y \in Entry : x.name = y.name /\ x.index = y.index /\ x.offset = y.offset => x = y
      BY DEF Entry
    <3> QED
      BY <2>1, <2>7, <3>4, <3>5, <3>6
  <2>8. those = {entries[i]}
    BY <1>6, <2>1, <2>7
  <2>9. entries[i] \in Entry
    BY <1>1
  <2> QED
    BY <2>6, <2>8, <2>9 DEF NameFound, entries, name, those, table
<1> QED
  BY <1>12, <1>13

\* The table that is applied is the one that is promised.
LEMMA VersionTable ==
  ASSUME s_UserTableSet \in TableSets
  PROVE  \/ ~ DoesTableExist(s_UserTableSet, s_UserVersion) /\ TableOf(s_UserVersion) = {}
         \/ \E k \in DOMAIN s_UserTableSet :
              /\ s_UserTableSet # <<>> /\ DoesTableExist(s_UserTableSet, s_UserVersion)
              /\ TableOf(s_UserVersion) = ToSet(s_UserTableSet[k].entries)
              /\ Get(s_UserTableSet, s_UserVersion) = SortedTable(s_UserTableSet[k].entries)
<1> DEFINE tables == s_UserTableSet
           those == { k \in DOMAIN tables : tables[k].version = s_UserVersion }
<1>1. DOMAIN tables \subseteq Nat \ {0}
  BY TableTypes
<1>2. TableOf(s_UserVersion) = UNION { ToSet(tables[k].entries) : k \in First(those) }
  BY DEF TableOf
<1>3. FindTableIndex(tables, s_UserVersion) = IF those = {} THEN SIZE_MAX ELSE The(First(those))
  BY DEF FindTableIndex
<1>4. those \subseteq DOMAIN tables
  OBVIOUS
<1> HIDE DEF those
<1>5. CASE those = {}
  <2>1. First(those) = {}
    BY <1>5 DEF First
  <2> QED
    BY <1>2, <1>3, <1>5, <2>1 DEF DoesTableExist
<1>6. CASE those # {}
  <2>1. those \subseteq Nat
    BY <1>1, <1>4
  <2>2. PICK k \in those : First(those) = {k}
    BY <1>6, <2>1, FirstOne
  <2>3. k \in DOMAIN tables /\ k # 0 /\ tables # <<>>
    BY <1>1, <1>4, <2>2
  <2>4. FindTableIndex(tables, s_UserVersion) = k
    BY <1>3, <1>6, <2>2, TheOne
  <2>5. DoesTableExist(tables, s_UserVersion)
    BY <2>3, <2>4 DEF DoesTableExist, SIZE_MAX
  <2>6. TableOf(s_UserVersion) = ToSet(tables[k].entries)
    BY <1>2, <2>2
  <2>7. Get(tables, s_UserVersion) = SortedTable(tables[k].entries)
    BY <2>4 DEF Get
  <2> QED
    BY <2>3, <2>5, <2>6, <2>7
<1> QED
  BY <1>5, <1>6
-----------------------------------------------------------------------------
(***************************************************************************)
(* This module's words when its table is applied.                          *)
(***************************************************************************)
SelfObject == Initialized(Zeroed, This, GetSelfStart)

\* A word no name of this module asks for stays.
LEMMA AppliedElsewhere ==
  ASSUME NEW table, NEW start, NEW offset0,
         \A j \in DOMAIN File[This].rela :
           File[This].rela[j].offset = offset0 => ~ ByName(File[This].rela[j].type)
  PROVE  Applied(This, SelfObject, table, start, offset0) = slots[This][offset0]
<1> DEFINE o == SelfObject
           rela == o.rela_count # 0 \/ o.rela_size # 0
           all == IF rela THEN File[This].rela ELSE File[This].rel
           size == IF rela THEN Larger(o.rela_count, o.rela_size) ELSE Larger(o.rel_count, o.rel_size)
           here == At(all, 1, size, offset0)
           named == { j \in here : ByName(all[j].type) \/ all[j].type = "JUMP_SLOT" }
           entries == UNION { { e \in FindByName(table, File[This].symbols[all[i].sym].name) :
                                  e.index \in DOMAIN start } : i \in named }
           word(those) == IF those = {} THEN slots[This][offset0]
                          ELSE start[The(those).index] + The(those).offset
                               + (IF rela THEN all[The(here)].addend ELSE 0)
<1>1. This \in DOMAIN File
  BY FileAssumption
<1>2. /\ o.rel_count = Tag(This, "RELCOUNT", 0) /\ o.rela_count = Tag(This, "RELACOUNT", 0)
      /\ o.rel_size = Tag(This, "RELSZ", 0) /\ o.rela_size = Tag(This, "RELASZ", 0)
  BY DEF SelfObject, Initialized, Zeroed
<1>3. 1 .. size \subseteq DOMAIN all
  <2>1. /\ o.rel_size = Len(File[This].rel) /\ o.rela_size = Len(File[This].rela)
        /\ o.rel_count \in 0 .. Len(File[This].rel) /\ o.rela_count \in 0 .. Len(File[This].rela)
        /\ DOMAIN File[This].rel = 1 .. Len(File[This].rel)
        /\ DOMAIN File[This].rela = 1 .. Len(File[This].rela)
    BY <1>1, <1>2, CountTypes, RelocationTypes
  <2> QED
    BY <2>1 DEF Larger
<1>4. /\ \A i \in DOMAIN File[This].rela : File[This].rela[i].type # "JUMP_SLOT"
      /\ \A i \in DOMAIN File[This].rel : File[This].rel[i].type # "JUMP_SLOT" /\ ~ ByName(File[This].rel[i].type)
  <2>1. LinkedFile(This) /\ \A i \in DOMAIN File[This].rel : ~ ByName(File[This].rel[i].type)
    BY <1>1, FileAssumption
  <2> QED
    BY <2>1 DEF LinkedFile, RelativeFirst
<1>5. Applied(This, o, table, start, offset0) = The({ word(those) : those \in {entries} })
  BY DEF Applied
<1>6. \A j \in here : all[j].offset = offset0 /\ j \in DOMAIN all
  BY <1>3 DEF At
<1>7. named = {}
  <2> HIDE DEF here
  <2>1. CASE rela
    <3>1. all = File[This].rela
      BY <2>1
    <3> HIDE DEF all
    <3> QED
      BY <1>4, <1>6, <3>1
  <2>2. CASE ~ rela
    <3>1. all = File[This].rel
      BY <2>2
    <3> HIDE DEF all
    <3> QED
      BY <1>4, <1>6, <3>1
  <2> QED
    BY <2>1, <2>2
<1> HIDE DEF named
<1>8. entries = {}
  BY <1>7
<1> HIDE DEF entries, word
<1>9. { word(those) : those \in {entries} } = {word(entries)}
  OBVIOUS
<1>10. word(entries) = slots[This][offset0]
  BY <1>8 DEF word
<1> QED
  BY <1>5, <1>9, <1>10, TheOne

\* The entries of a name whose modules are there.
Usable(table, name, start) == { e \in FindByName(table, name) : e.index \in DOMAIN start }

EntryApplied(table, start, r) ==
  LET those == Usable(table, SymbolOf(This, r).name, start)
  IN Applied(This, SelfObject, table, start, r.offset)
       = IF those = {} THEN slots[This][r.offset]
         ELSE start[The(those).index] + The(those).offset + r.addend

\* A word that asks for a name gets the place of its entry.
LEMMA AppliedEntry ==
  ASSUME NEW table, NEW start, NEW i \in DOMAIN File[This].rela, ByName(File[This].rela[i].type)
  PROVE  EntryApplied(table, start, File[This].rela[i])
<1> DEFINE o == SelfObject
           all == File[This].rela
           r == all[i]
           those == Usable(table, SymbolOf(This, r).name, start)
           size == Larger(o.rela_count, o.rela_size)
           here == At(all, 1, size, r.offset)
           named == { j \in here : ByName(all[j].type) \/ all[j].type = "JUMP_SLOT" }
           Found(j) == { e \in FindByName(table, File[This].symbols[all[j].sym].name) : e.index \in DOMAIN start }
           entries == UNION { Found(j) : j \in named }
           word(found) == IF found = {} THEN slots[This][r.offset]
                          ELSE start[The(found).index] + The(found).offset + all[The(here)].addend
<1>1. This \in DOMAIN File
  BY FileAssumption
<1>2. o.rela_count = Tag(This, "RELACOUNT", 0) /\ o.rela_size = Tag(This, "RELASZ", 0)
  BY DEF SelfObject, Initialized, Zeroed
<1>3. /\ o.rela_size = Len(all) /\ o.rela_count \in 0 .. Len(all) /\ DOMAIN all = 1 .. Len(all)
      /\ Len(all) \in Nat
  BY <1>1, <1>2, CountTypes, RelocationTypes
<1>4. size = Len(all) /\ o.rela_size # 0
  BY <1>3 DEF Larger
<1>5. Applied(This, o, table, start, r.offset) = The({ word(found) : found \in {entries} })
  BY <1>4 DEF Applied
<1>6. here = {i}
  BY <1>1, <1>3, <1>4, WordsApart DEF At, OnePerWord
<1>7. The(here) = i
  BY <1>6, TheOne
<1>8. named = {i}
  BY <1>6
<1> HIDE DEF here, named, Found
<1>9. entries = Found(i) /\ Found(i) = those
  BY <1>8 DEF Found, Usable, SymbolOf
<1> HIDE DEF entries, word, all
<1>10. { word(found) : found \in {entries} } = {word(entries)}
  OBVIOUS
<1>11. Applied(This, o, table, start, r.offset) = word(Found(i))
  BY <1>5, <1>9, <1>10, TheOne
<1>12. word(Found(i)) = IF Found(i) = {} THEN slots[This][r.offset]
                        ELSE start[The(Found(i)).index] + The(Found(i)).offset + r.addend
  BY <1>7 DEF word, all
<1> QED
  BY <1>9, <1>11, <1>12 DEF EntryApplied, all

\* What is promised once the tables are applied.
TabledWord(r, those) ==
  IF ~ ByName(r.type) \/ those = {} THEN LinkedWord(This, r, TRUE)
  ELSE loaded[The(those).index] + The(those).offset + r.addend

LEMMA PromisedTabled ==
  ASSUME UNCHANGED <<loaded, s_UserTableSet, s_UserVersion>>, pc' = "main", NEW r
  PROVE  LET those == { e \in TableOf(s_UserVersion) : e.name = SymbolOf(This, r).name /\ e.index \in DOMAIN loaded }
         IN /\ Promised(This, r, TRUE)' = TabledWord(r, those)
            /\ ~ ByName(r.type) => Promised(This, r, FALSE)' = LinkedWord(This, r, FALSE)
<1> DEFINE those == { e \in TableOf(s_UserVersion) : e.name = SymbolOf(This, r).name /\ e.index \in DOMAIN loaded }
           s == SymbolOf(This, r)
           later == { e \in TableOf(s_UserVersion)' : e.name = s.name /\ This = This /\ pc' = "main"
                                                      /\ e.index \in DOMAIN loaded }
<1>1. /\ \A x : Undefined(This, x)' = Undefined(This, x) /\ Denoted(This, x)' = Denoted(This, x)
      /\ Base(This)' = Base(This)
  BY SameBases
<1>2. TableOf(s_UserVersion)' = TableOf(s_UserVersion)
  BY DEF TableOf
<1>3. later = those
  BY <1>2
<1>4. ASSUME NEW rela \in BOOLEAN
      PROVE  Promised(This, r, rela)' =
               LET With(address) == address + Added(This, r, rela) IN
               CASE r.type = "RELATIVE" -> With(Base(This))
                 [] r.type # "RELATIVE" /\ ~ ByName(r.type) -> Plain(This, r)
                 [] ByName(r.type) /\ later # {} -> With(loaded[The(later).index] + The(later).offset)
                 [] ByName(r.type) /\ later = {} /\ StaysPlain(This, s) -> Plain(This, r)
                 [] OTHER -> With(Denoted(This, s))
  BY <1>1 DEF Promised, Added, Plain, StaysPlain, SymbolOf
<1> HIDE DEF later, those
<1>5. ASSUME NEW rela \in BOOLEAN
      PROVE  Promised(This, r, rela)' =
               IF ~ ByName(r.type) \/ those = {} THEN LinkedWord(This, r, rela)
               ELSE loaded[The(those).index] + The(those).offset + Added(This, r, rela)
  <2>1. CASE r.type = "RELATIVE"
    BY <1>4, <2>1 DEF LinkedWord, RelocatedWord, ByName
  <2>2. CASE r.type # "RELATIVE" /\ ~ ByName(r.type)
    BY <1>4, <2>2 DEF LinkedWord, RelocatedWord
  <2>3. CASE ByName(r.type)
    <3>1. r.type # "RELATIVE"
      BY <2>3 DEF ByName
    <3>2. CASE those # {}
      BY <1>3, <1>4, <2>3, <3>1, <3>2
    <3>3. CASE those = {} /\ StaysPlain(This, s)
      BY <1>3, <1>4, <2>3, <3>1, <3>3 DEF LinkedWord
    <3>4. CASE those = {} /\ ~ StaysPlain(This, s)
      BY <1>3, <1>4, <2>3, <3>1, <3>4 DEF LinkedWord
    <3> QED
      BY <3>2, <3>3, <3>4
  <2> QED
    BY <2>1, <2>2, <2>3
<1>6. Promised(This, r, TRUE)' = TabledWord(r, those)
  BY <1>5 DEF TabledWord, Added
<1>7. ~ ByName(r.type) => Promised(This, r, FALSE)' = LinkedWord(This, r, FALSE)
  BY <1>5
<1> QED
  BY <1>6, <1>7 DEF those
\* The modules that were found are where the linker had them.
LEMMA StartsKnown ==
  ASSUME WellPlaced, ModulesFound, s_SelfModuleIdx # End
  PROVE  [j \in DOMAIN s_ModuleInfos |-> s_ModuleInfos[j].total.start] = loaded
<1> DEFINE S == Starts(layout)
           of(k) == CHOOSE i \in S : IndexIn(S, i) = k
           start == [j \in DOMAIN s_ModuleInfos |-> s_ModuleInfos[j].total.start]
<1>1. loaded = [k \in { IndexIn(S, i) : i \in S } |-> layout[of(k)].start]
  BY DEF WellPlaced, Bases
<1>2. /\ DOMAIN s_ModuleInfos = { IndexIn(S, i) : i \in S }
      /\ \A i \in S : s_ModuleInfos[IndexIn(S, i)].total.start = layout[i].start
  BY DEF ModulesFound
<1>3. ASSUME NEW k \in { IndexIn(S, i) : i \in S }
      PROVE  s_ModuleInfos[k].total.start = layout[of(k)].start
  <2>1. of(k) \in S /\ IndexIn(S, of(k)) = k
    OBVIOUS
  <2> HIDE DEF of, S
  <2> QED
    BY <1>2, <2>1
<1> HIDE DEF of, S
<1> QED
  BY <1>1, <1>2, <1>3

(***************************************************************************)
(* The words of this module, with a table for its version and without one. *)
(***************************************************************************)
LEMMA TabledWords ==
  ASSUME NamesInv, ModulesFound, pc = "tables", pc' = "main",
         UNCHANGED <<loaded, s_UserTableSet, s_UserVersion>>,
         NEW k \in DOMAIN s_UserTableSet,
         TableOf(s_UserVersion) = ToSet(s_UserTableSet[k].entries),
         NEW table, table = SortedTable(s_UserTableSet[k].entries),
         slots'[This] = [offset0 \in DOMAIN slots[This] |-> Applied(This, SelfObject, table, loaded, offset0)],
         object'[This] = object[This], linked'[This] = linked[This]
  PROVE  ModuleInv(This)'
<1> DEFINE m == This
<1>1. /\ m \in DOMAIN File /\ s_UserTableSet \in TableSets /\ ModuleInv(m) /\ linked[m] = "resolved"
  BY FileAssumption DEF NamesInv, StartInv, LoaderInv
<1>2. /\ DOMAIN slots[m] = DOMAIN File[m].words /\ WordsNamed(m) /\ StubsReady(m)
      /\ object[m].base = LinkerBase(m) /\ object[m].got = ObjectOf(m).got
  BY <1>1 DEF ModuleInv
<1>3. /\ \A r : Bound(m, r)' = Bound(m, r)
      /\ Base(m)' = Base(m) /\ LinkerBase(m)' = LinkerBase(m) /\ ObjectOf(m)' = ObjectOf(m)
  BY SameBases
<1>4. ASSUME NEW r, NEW rela \in BOOLEAN PROVE Promised(m, r, rela) = LinkedWord(m, r, rela)
  BY PromisedEarly
<1>5. ASSUME NEW i \in DOMAIN File[m].rela
      PROVE  slots'[m][File[m].rela[i].offset] = Promised(m, File[m].rela[i], TRUE)'
  <2> DEFINE r == File[m].rela[i]
             name == SymbolOf(m, r).name
             promised == { e \in TableOf(s_UserVersion) : e.name = name /\ e.index \in DOMAIN loaded }
             found == Usable(table, name, loaded)
             those == Called(s_UserTableSet[k].entries, name)
  <2>1. r.offset \in DOMAIN File[m].words /\ r.sym \in DOMAIN File[m].symbols
    BY <1>1, RelocationTypes DEF Relocation
  <2>2. slots'[m][r.offset] = Applied(m, SelfObject, table, loaded, r.offset)
    BY <1>2, <2>1
  <2>3. Promised(m, r, TRUE)' = TabledWord(r, promised)
    BY PromisedTabled
  <2>4. slots[m][r.offset] = LinkedWord(m, r, TRUE)
    <3>1. slots[m][r.offset] = Promised(m, r, TRUE)
      BY <1>2 DEF WordsNamed
    <3> HIDE DEF r
    <3> QED
      BY <1>4, <3>1
  <2>5. CASE ~ ByName(r.type)
    <3>1. \A j \in DOMAIN File[m].rela : File[m].rela[j].offset = r.offset => ~ ByName(File[m].rela[j].type)
      BY <1>1, <2>5, WordsApart DEF OnePerWord
    <3>2. Applied(m, SelfObject, table, loaded, r.offset) = slots[m][r.offset]
      BY <3>1, AppliedElsewhere
    <3> HIDE DEF r
    <3> QED
      BY <2>2, <2>3, <2>4, <2>5, <3>2 DEF TabledWord, r
  <2>6. CASE ByName(r.type)
    <3>1. Applied(m, SelfObject, table, loaded, r.offset)
            = IF found = {} THEN slots[m][r.offset]
              ELSE loaded[The(found).index] + The(found).offset + r.addend
      <4>1. EntryApplied(table, loaded, r)
        BY <2>6, AppliedEntry
      <4> QED
        BY <4>1 DEF EntryApplied
    <3>2. \/ those = {} /\ FindByName(table, name) = {}
          \/ \E e \in Entry : those = {e} /\ FindByName(table, name) = {Convert(e)}
      <4>1. NameFound(s_UserTableSet[k].entries, name)
        BY <1>1, <2>1, EntryFound DEF SymbolOf
      <4> QED
        BY <4>1 DEF NameFound
    <3>3. /\ promised = { e \in those : e.index \in DOMAIN loaded }
          /\ found = { e \in FindByName(table, name) : e.index \in DOMAIN loaded }
      BY DEF Called, Usable
    <3> HIDE DEF those, name, promised, found, r
    <3>4. \/ promised = {} /\ found = {}
          \/ \E e : promised = {e} /\ found = {Convert(e)}
      <4>1. CASE those = {} /\ FindByName(table, name) = {}
        BY <3>3, <4>1
      <4>2. CASE \E e \in Entry : those = {e} /\ FindByName(table, name) = {Convert(e)}
        <5>1. PICK e \in Entry : those = {e} /\ FindByName(table, name) = {Convert(e)}
          BY <4>2
        <5>2. Convert(e).index = e.index
          BY DEF Convert
        <5> QED
          BY <3>3, <5>1, <5>2
      <4> QED
        BY <3>2, <4>1, <4>2
    <3>5. CASE promised = {} /\ found = {}
      BY <2>2, <2>3, <2>4, <3>1, <3>5 DEF TabledWord, r
    <3>6. CASE \E e : promised = {e} /\ found = {Convert(e)}
      <4>1. PICK e : promised = {e} /\ found = {Convert(e)}
        BY <3>6
      <4>2. /\ The(promised) = e /\ The(found) = Convert(e) /\ promised # {} /\ found # {}
            /\ Convert(e).index = e.index /\ Convert(e).offset = e.offset
        BY <4>1, TheOne DEF Convert
      <4>3. slots'[m][r.offset] = loaded[e.index] + e.offset + r.addend
        BY <2>2, <3>1, <4>2
      <4>4. TabledWord(r, promised) = loaded[e.index] + e.offset + r.addend
        BY <2>6, <4>2 DEF TabledWord
      <4> QED
        BY <2>3, <4>3, <4>4 DEF r
    <3> QED
      BY <3>4, <3>5, <3>6
  <2> QED
    BY <2>5, <2>6
<1>6. ASSUME NEW offset0 \in DOMAIN File[m].words,
             \A j \in DOMAIN File[m].rela : File[m].rela[j].offset # offset0
      PROVE  slots'[m][offset0] = slots[m][offset0]
  BY <1>2, <1>6, AppliedElsewhere
<1>7. ASSUME NEW i \in DOMAIN File[m].rel
      PROVE  slots'[m][File[m].rel[i].offset] = Promised(m, File[m].rel[i], FALSE)'
  <2> DEFINE r == File[m].rel[i]
  <2>1. r.offset \in DOMAIN File[m].words /\ ~ ByName(r.type)
    BY <1>1, RelocationTypes, FileAssumption DEF Relocation
  <2>2. slots'[m][r.offset] = slots[m][r.offset]
    BY <1>1, <1>6, <2>1, WordsApart DEF OtherWords
  <2>3. slots[m][r.offset] = Promised(m, r, FALSE)
    BY <1>2 DEF WordsNamed
  <2> HIDE DEF r
  <2>4. Promised(m, r, FALSE) = LinkedWord(m, r, FALSE)
    BY <1>4
  <2>5. Promised(m, r, FALSE)' = LinkedWord(m, r, FALSE)
    BY <2>1, PromisedTabled
  <2> QED
    BY <2>2, <2>3, <2>4, <2>5 DEF r
<1>8. ASSUME NEW i \in DOMAIN File[m].plt
      PROVE  /\ slots'[m][File[m].plt[i].offset] = slots[m][File[m].plt[i].offset]
             /\ slots'[m][Tag(m, "PLTGOT", 0) + 1] = slots[m][Tag(m, "PLTGOT", 0) + 1]
  <2>1. File[m].plt[i].offset \in DOMAIN File[m].words
    BY <1>1, RelocationTypes DEF Relocation
  <2>2. Tag(m, "PLTGOT", 0) # 0 /\ Tag(m, "PLTGOT", 0) + 1 \in DOMAIN File[m].words
    BY <1>1, LinkageTable
  <2>3. LinkedFile(m)
    BY <1>1, FileAssumption
  <2>4. \A j \in DOMAIN File[m].rela : File[m].rela[j].offset # Tag(m, "PLTGOT", 0) + 1
    BY <2>2, <2>3 DEF LinkedFile
  <2>5. \A j \in DOMAIN File[m].rela : File[m].rela[j].offset # File[m].plt[i].offset
    BY <1>1, WordsApart DEF OtherWords
  <2> QED
    BY <1>6, <2>1, <2>2, <2>4, <2>5
<1>9. WordsNamed(m)'
  <2>1. ASSUME NEW i \in DOMAIN File[m].plt
        PROVE  slots'[m][File[m].plt[i].offset]
                 \in {Bound(m, File[m].plt[i])', (Base(m) + Plain(m, File[m].plt[i]))'}
    <3>1. slots[m][File[m].plt[i].offset] \in {Bound(m, File[m].plt[i]), Base(m) + Plain(m, File[m].plt[i])}
      BY <1>2 DEF WordsNamed
    <3> QED
      BY <1>3, <1>8, <3>1 DEF Plain
  <2> QED
    BY <1>5, <1>7, <2>1 DEF WordsNamed
<1>10. StubsReady(m)'
  BY <1>2, <1>3, <1>8 DEF StubsReady, Plain
<1>11. DOMAIN slots'[m] = DOMAIN File[m].words
  BY <1>2
<1> QED
  BY <1>1, <1>2, <1>3, <1>9, <1>10, <1>11 DEF ModuleInv

\* Without one nothing is promised that was not before.
LEMMA UntabledWords ==
  ASSUME NamesInv, pc = "tables", pc' = "main", UNCHANGED <<loaded, s_UserTableSet, s_UserVersion>>,
         TableOf(s_UserVersion) = {},
         slots'[This] = slots[This], object'[This] = object[This], linked'[This] = linked[This]
  PROVE  ModuleInv(This)'
<1> DEFINE m == This
<1>1. /\ m \in DOMAIN File /\ ModuleInv(m) /\ linked[m] = "resolved"
  BY FileAssumption DEF NamesInv, StartInv, LoaderInv
<1>2. /\ DOMAIN slots[m] = DOMAIN File[m].words /\ WordsNamed(m) /\ StubsReady(m)
      /\ object[m].base = LinkerBase(m) /\ object[m].got = ObjectOf(m).got
  BY <1>1 DEF ModuleInv
<1>3. /\ \A r : Bound(m, r)' = Bound(m, r)
      /\ Base(m)' = Base(m) /\ LinkerBase(m)' = LinkerBase(m) /\ ObjectOf(m)' = ObjectOf(m)
  BY SameBases
<1>4. ASSUME NEW r, NEW rela \in BOOLEAN PROVE Promised(m, r, rela) = LinkedWord(m, r, rela)
  BY PromisedEarly
<1>5. ASSUME NEW i \in DOMAIN File[m].rela
      PROVE  slots'[m][File[m].rela[i].offset] = Promised(m, File[m].rela[i], TRUE)'
  <2> DEFINE r == File[m].rela[i]
             promised == { e \in TableOf(s_UserVersion) : e.name = SymbolOf(m, r).name /\ e.index \in DOMAIN loaded }
  <2>1. slots[m][r.offset] = Promised(m, r, TRUE)
    BY <1>2 DEF WordsNamed
  <2>2. Promised(m, r, TRUE)' = TabledWord(r, promised)
    BY PromisedTabled
  <2>3. promised = {}
    OBVIOUS
  <2> HIDE DEF r, promised
  <2>4. Promised(m, r, TRUE) = LinkedWord(m, r, TRUE)
    BY <1>4
  <2> QED
    BY <2>1, <2>2, <2>3, <2>4 DEF TabledWord, r
<1>6. ASSUME NEW i \in DOMAIN File[m].rel
      PROVE  slots'[m][File[m].rel[i].offset] = Promised(m, File[m].rel[i], FALSE)'
  <2> DEFINE r == File[m].rel[i]
  <2>1. slots[m][r.offset] = Promised(m, r, FALSE) /\ ~ ByName(r.type)
    BY <1>2, FileAssumption DEF WordsNamed
  <2> HIDE DEF r
  <2>2. Promised(m, r, FALSE) = LinkedWord(m, r, FALSE)
    BY <1>4
  <2>3. Promised(m, r, FALSE)' = LinkedWord(m, r, FALSE)
    BY <2>1, PromisedTabled
  <2> QED
    BY <2>1, <2>2, <2>3 DEF r
<1>7. WordsNamed(m)' /\ StubsReady(m)'
  <2>1. ASSUME NEW i \in DOMAIN File[m].plt
        PROVE  slots'[m][File[m].plt[i].offset]
                 \in {Bound(m, File[m].plt[i])', (Base(m) + Plain(m, File[m].plt[i]))'}
    <3>1. slots[m][File[m].plt[i].offset] \in {Bound(m, File[m].plt[i]), Base(m) + Plain(m, File[m].plt[i])}
      BY <1>2 DEF WordsNamed
    <3> QED
      BY <1>3, <3>1 DEF Plain
  <2>2. WordsNamed(m)'
    BY <1>5, <1>6, <2>1 DEF WordsNamed
  <2>3. StubsReady(m)'
    BY <1>2, <1>3 DEF StubsReady, Plain
  <2> QED
    BY <2>2, <2>3
<1> QED
  BY <1>1, <1>2, <1>3, <1>7 DEF ModuleInv
LEMMA TablesKeep == NamesInv /\ ModulesFound /\ ApplyTables => NamesInv'
<1> SUFFICES ASSUME NamesInv, ModulesFound, ApplyTables PROVE NamesInv'
  OBVIOUS
<1>1. /\ pc = "tables" /\ pc' = "main"
      /\ UNCHANGED <<loaded, layout, self, s_UserTableSet, s_UserVersion, s_SelfModuleIdx>>
  BY DEF ApplyTables, layoutVars, userVars
<1>2. /\ WellPlaced /\ s_UserTableSet \in TableSets /\ s_SelfModuleIdx # End /\ LoaderInv
      /\ \A m \in DOMAIN File : linked[m] = "resolved"
      /\ DOMAIN slots = DOMAIN File /\ This \in DOMAIN File
  BY <1>1, FileAssumption DEF NamesInv, StartInv, LoaderInv
<1> DEFINE start == [j \in DOMAIN s_ModuleInfos |-> s_ModuleInfos[j].total.start]
<1>3. start = loaded
  BY <1>2, StartsKnown
<1>4. /\ object' = object /\ linked' = linked /\ call' = call
      /\ IF s_UserTableSet = <<>> \/ ~ DoesTableExist(s_UserTableSet, s_UserVersion)
         THEN slots' = slots
         ELSE slots' = [slots EXCEPT ![This] = [offset0 \in DOMAIN slots[This] |->
                          Applied(This, SelfObject, Get(s_UserTableSet, s_UserVersion), loaded, offset0)]]
  <2>1. \/ s_UserTableSet = <<>> \/ ~ DoesTableExist(s_UserTableSet, s_UserVersion)
        \/ ApplyTable(This, GetSelfStart, Get(s_UserTableSet, s_UserVersion), start)
    BY DEF ApplyTables
  <2>2. CASE s_UserTableSet = <<>> \/ ~ DoesTableExist(s_UserTableSet, s_UserVersion)
    BY <2>2 DEF ApplyTables, loaderVars
  <2>3. CASE ~ (s_UserTableSet = <<>> \/ ~ DoesTableExist(s_UserTableSet, s_UserVersion))
    <3>1. ApplyTable(This, GetSelfStart, Get(s_UserTableSet, s_UserVersion), loaded)
      BY <1>3, <2>1, <2>3
    <3> QED
      BY <2>3, <3>1 DEF ApplyTable, SelfObject
  <2> QED
    BY <2>2, <2>3
<1>5. ModuleInv(This)' /\ \A n \in DOMAIN File \ {This} : slots'[n] = slots[n]
  <2>1. CASE ~ DoesTableExist(s_UserTableSet, s_UserVersion) /\ TableOf(s_UserVersion) = {}
    <3>1. slots' = slots
      BY <1>4, <2>1
    <3> QED
      BY <1>1, <1>4, <2>1, <3>1, UntabledWords
  <2>2. ASSUME NEW k \in DOMAIN s_UserTableSet,
               s_UserTableSet # <<>> /\ DoesTableExist(s_UserTableSet, s_UserVersion),
               TableOf(s_UserVersion) = ToSet(s_UserTableSet[k].entries),
               Get(s_UserTableSet, s_UserVersion) = SortedTable(s_UserTableSet[k].entries)
        PROVE  ModuleInv(This)' /\ \A n \in DOMAIN File \ {This} : slots'[n] = slots[n]
    <3>1. PICK table : table = SortedTable(s_UserTableSet[k].entries)
      OBVIOUS
    <3>2. slots' = [slots EXCEPT ![This] = [offset0 \in DOMAIN slots[This] |->
                      Applied(This, SelfObject, table, loaded, offset0)]]
      BY <1>4, <2>2, <3>1
    <3>3. /\ slots'[This] = [offset0 \in DOMAIN slots[This] |-> Applied(This, SelfObject, table, loaded, offset0)]
          /\ \A n \in DOMAIN File \ {This} : slots'[n] = slots[n]
      BY <1>2, <3>2
    <3>4. object'[This] = object[This] /\ linked'[This] = linked[This]
      BY <1>4
    <3>5. ModuleInv(This)'
      BY <1>1, <2>2, <3>1, <3>3, <3>4, TabledWords
    <3> QED
      BY <3>3, <3>5
  <2> QED
    BY <1>2, <2>1, <2>2, VersionTable
<1>6. ASSUME NEW n \in DOMAIN File \ {This} PROVE ModuleInv(n)'
  <2>1. ModuleInv(n) /\ SamePromise(n)
    BY <1>2 DEF LoaderInv, SamePromise
  <2> QED
    BY <1>1, <1>4, <1>5, <2>1, ModuleSame
<1>7. DOMAIN slots' = DOMAIN File
  BY <1>2, <1>4
<1>8. LoaderInv'
  BY <1>2, <1>4, <1>5, <1>6, <1>7 DEF LoaderInv
<1>9. StartInv' /\ CallInv'
  <2>1. StartInv'
    BY <1>1, <1>2, <1>4 DEF StartInv, WellPlaced
  <2>2. CallInv'
    BY <1>1, <1>4 DEF NamesInv, CallInv
  <2> QED
    BY <2>1, <2>2
<1> QED
  BY <1>8, <1>9 DEF NamesInv

-----------------------------------------------------------------------------
(***************************************************************************)
(* What does nothing to the words.                                         *)
(***************************************************************************)
LEMMA OthersKeepNames ==
  ASSUME NamesInv, UNCHANGED <<loaderVars, loaded, layout, self, s_UserTableSet>>,
         pc' \in {"link", "layout", "version", "tables", "main"},
         \/ pc' = pc /\ s_UserVersion' = s_UserVersion
         \/ pc \notin {"link", "main"} /\ pc' \notin {"link", "main"},
         pc' \notin {"link", "layout"} => s_SelfModuleIdx' # End
  PROVE  NamesInv'
<1>1. UNCHANGED <<object, slots, linked, call>>
  BY DEF loaderVars
<1>2. LoaderInv'
  <2>1. \A m \in DOMAIN File : SamePromise(m)
    BY DEF SamePromise
  <2> QED
    BY <1>1, <2>1, LoaderSame DEF NamesInv
<1>3. StartInv'
  BY <1>1 DEF NamesInv, StartInv, WellPlaced
<1>4. CallInv'
  <2>1. ASSUME NEW t \in Threads PROVE call'[t] = NoCall \/ (pc' = "main" /\ CallRight(call[t])')
    <3>1. PICK c : c = call[t] /\ c = call'[t]
      BY <1>1
    <3>2. c = NoCall \/ (pc = "main" /\ pc' = "main" /\ CallRight(c)')
      BY <3>1, CallSame DEF NamesInv, CallInv
    <3> QED
      BY <3>1, <3>2 DEF CallRight, CallShape
  <2> QED
    BY <1>1, <2>1 DEF NamesInv, CallInv
<1> QED
  BY <1>2, <1>3, <1>4 DEF NamesInv

LEMMA InitNames == Init => NamesInv
<1> SUFFICES ASSUME Init PROVE NamesInv
  OBVIOUS
<1>1. WellPlaced /\ s_UserTableSet \in TableSets /\ pc = "link"
  BY DEF Init, WellPlaced, LayoutInit
<1>2. /\ object = [m \in DOMAIN File |-> Zeroed] /\ slots = [m \in DOMAIN File |-> File[m].words]
      /\ linked = [m \in DOMAIN File |-> "no"] /\ call = [t \in Threads |-> NoCall]
  BY DEF Init, LoaderInit
<1>3. LoaderInv
  BY <1>2 DEF LoaderInv, ModuleInv
<1>4. CallInv
  BY <1>2 DEF CallInv
<1> QED
  BY <1>1, <1>3, <1>4 DEF NamesInv, StartInv

LEMMA NextNames == NamesInv /\ ProgramInv /\ [Next]_vars => NamesInv'
<1> SUFFICES ASSUME NamesInv, ProgramInv, [Next]_vars PROVE NamesInv'
  OBVIOUS
<1>1. CASE Link
  BY <1>1, LinkKeeps
<1>2. CASE FindLayout
  <2>1. /\ UNCHANGED <<loaderVars, loaded, s_UserTableSet, s_UserVersion, pc>> /\ pc = "layout"
        /\ QueryMemory \/ FinishModules \/ FindRegions
    BY <1>2 DEF FindLayout, userVars, InitMemLayout
  <2>2. layout' = layout /\ self' = self
    BY <2>1 DEF QueryMemory, FinishModules, FindRegions, LayoutAbort
  <2> QED
    BY <2>1, <2>2, OthersKeepNames
<1>3. CASE InitPatcherImpl
  <2>1. /\ UNCHANGED <<loaderVars, loaded, layout, self, s_UserTableSet>>
        /\ pc = "layout" /\ pc' = "version" /\ s_SelfModuleIdx' # End
    BY <1>3 DEF InitPatcherImpl, userVars, layoutVars, LayoutKnown
  <2> QED
    BY <2>1, OthersKeepNames
<1>4. CASE InitVersion
  <2>1. /\ UNCHANGED <<loaderVars, loaded, layout, self, s_UserTableSet, s_SelfModuleIdx>>
        /\ pc = "version" /\ pc' = "tables"
    BY <1>4 DEF InitVersion, layoutVars
  <2>2. s_SelfModuleIdx # End
    BY <2>1 DEF NamesInv, StartInv
  <2> QED
    BY <2>1, <2>2, OthersKeepNames
<1>5. CASE ApplyTables
  BY <1>5, TablesKeep DEF ProgramInv, LayoutInv
<1>6. CASE FailedCheck \/ Aborting \/ UNCHANGED vars
  <2>1. UNCHANGED <<loaderVars, loaded, layout, self, s_UserTableSet, s_UserVersion, pc, s_SelfModuleIdx>>
    BY <1>6 DEF FailedCheck, Aborting, vars, layoutVars, userVars
  <2>2. /\ pc \in {"link", "layout", "version", "tables", "main"}
        /\ pc \notin {"link", "layout"} => s_SelfModuleIdx # End
    BY DEF NamesInv, StartInv
  <2> QED
    BY <2>1, <2>2, OthersKeepNames
<1>7. CASE Calling
  BY <1>7, CallsKeep
<1> QED
  BY <1>1, <1>2, <1>3, <1>4, <1>5, <1>6, <1>7 DEF Next

LEMMA NamesFollow == NamesInv => NamesBound
<1> SUFFICES ASSUME NamesInv PROVE SlotsResolve /\ CallsReachDefinition
  BY DEF NamesBound
<1>1. pc # "link" => \A m \in DOMAIN File : WordsNamed(m)
  BY DEF NamesInv, StartInv, LoaderInv, ModuleInv
<1>2. SlotsResolve
  BY <1>1 DEF SlotsResolve, WordsNamed, Plain
<1>3. CallsReachDefinition
  <2> SUFFICES ASSUME NEW t \in Threads, call[t].step = "jump"
               PROVE  call[t].to = Bound(call[t].m, File[call[t].m].plt[call[t].i])
    BY DEF CallsReachDefinition
  <2>1. call[t] # NoCall
    BY DEF NoCall
  <2>2. CallRight(call[t])
    BY <2>1 DEF NamesInv, CallInv
  <2> QED
    BY <2>2 DEF CallRight
<1> QED
  BY <1>2, <1>3

(***************************************************************************)
(* source/rtld and source/lib/reloc, for any files a linker has written,   *)
(* any number of modules and threads: when all is linked each relocated    *)
(* word holds its module's base once, the definition that is asked first,  *)
(* or what the table of this version gives; a call through the linkage     *)
(* table jumps to its name's definition, whoever binds it at the same      *)
(* time.                                                                   *)
(***************************************************************************)
THEOREM NamesAreBound == Spec => []NamesBound
<1> DEFINE Inv == ProgramInv /\ NamesInv
<1>1. Init => Inv
  BY InitLayout, InitNames DEF ProgramInv, ProgramPatched, Init
<1>2. Inv /\ [Next]_vars => Inv'
  BY NextProgram, NextNames
<1>3. Inv => NamesBound
  BY NamesFollow
<1> HIDE DEF Inv
<1> QED
  BY <1>1, <1>2, <1>3, PTL DEF Spec
=============================================================================
