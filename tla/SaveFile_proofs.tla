--------------------------- MODULE SaveFile_proofs ---------------------------
(***************************************************************************)
(* Proofs about SaveData and SaveFile, for integers of any width and any   *)
(* number of faults: every operation on the configuration yields a         *)
(* configuration, ToggleSetting keeps options under their masters and the  *)
(* TOML table loses nothing; the file is the last completed save or        *)
(* unreadable or gone, a boot brings the last completed save back, and     *)
(* SaveFile implements ConfigStore.  Behind them the settings menu: its    *)
(* seed is the number that was typed, its tables agree, and what it leaves *)
(* is left for good.                                                       *)
(***************************************************************************)
EXTENDS SaveFile, SettingsMenu, TLAPS

-----------------------------------------------------------------------------
(* The configuration. *)
\* Every name that occurs in a mask is the name of a toggle.
LEMMA MasksAreFlags == \A m \in Masks : m[1] \in Flag /\ m[2] \in Flag
<1>1. \A k \in 1 .. 20 : ToggleOrder[k] \in Flag
  BY DEF Flag
<1>2. /\ ToggleOrder[1] = "evo_rng.enabled"
      /\ ToggleOrder[2] = "evo_rng.match_types"
      /\ ToggleOrder[3] = "evo_rng.each_level"
      /\ ToggleOrder[10] = "wild_rng.enabled"
      /\ ToggleOrder[11] = "wild_rng.live"
      /\ ToggleOrder[15] = "model_rng.enabled"
      /\ ToggleOrder[16] = "model_rng.hide_starters"
  BY DEF ToggleOrder
<1>3. 1 \in 1 .. 20 /\ 2 \in 1 .. 20 /\ 3 \in 1 .. 20 /\ 10 \in 1 .. 20
      /\ 11 \in 1 .. 20 /\ 15 \in 1 .. 20 /\ 16 \in 1 .. 20
  OBVIOUS
<1> QED
  BY <1>1, <1>2, <1>3 DEF Masks

\* No option of a mask is the master of another.
LEMMA MastersAreNotOptions == \A m, n \in Masks : m[1] # n[2]
  BY DEF Masks

\* Toggling yields flags again.
LEMMA ToggleType ==
  ASSUME NEW flags \in [Flag -> BOOLEAN], NEW f \in Flag
  PROVE  Toggle(flags, f) \in [Flag -> BOOLEAN]
  BY DEF Toggle

\* ToggleSetting keeps every option that is on under a master that is on.
THEOREM ToggleMasks ==
  ASSUME NEW flags \in [Flag -> BOOLEAN], NEW f \in Flag, Masked(flags)
  PROVE  Masked(Toggle(flags, f))
<1> DEFINE flipped == [flags EXCEPT ![f] = ~ @]
           new == Toggle(flags, f)
<1>1. ASSUME NEW g \in Flag
      PROVE  new[g] <=> flipped[g] /\ \A m \in Masks :
                          m[2] = g /\ f \in {m[1], g} => flipped[m[1]]
  BY DEF Toggle
<1>2. ASSUME NEW m \in Masks, new[m[2]] PROVE new[m[1]]
  <2>1. m[1] \in Flag /\ m[2] \in Flag
    BY MasksAreFlags
  <2>2. new[m[1]] <=> flipped[m[1]]
    BY <2>1, <1>1, MastersAreNotOptions
  <2>3. flipped[m[2]] /\ (f \in {m[1], m[2]} => flipped[m[1]])
    BY <2>1, <1>1, <1>2
  <2>4. CASE f \in {m[1], m[2]}
    BY <2>2, <2>3, <2>4
  <2>5. CASE f \notin {m[1], m[2]}
    <3>1. flipped[m[2]] = flags[m[2]] /\ flipped[m[1]] = flags[m[1]]
      BY <2>1, <2>5
    <3> HIDE DEF flipped, new
    <3> QED
      BY <2>2, <2>3, <3>1 DEF Masked
  <2> QED
    BY <2>4, <2>5
<1> QED
  BY <1>2 DEF Masked

-----------------------------------------------------------------------------
\* The casts of to_table and from_table are inverse to each other.
LEMMA CastsAreInverse ==
  ASSUME NEW x \in U64
  PROVE  ToS64(x) \in S64 /\ ToU64(ToS64(x)) = x
  BY HalfIsPositive DEF U64, S64, ToS64, ToU64

\* A signed integer of the table becomes a u64.
LEMMA CastType ==
  ASSUME NEW y \in S64
  PROVE  ToU64(y) \in U64
  BY HalfIsPositive DEF U64, S64, ToU64

\* The objects that boots and the settings script begin with are configurations.
LEMMA DefaultType == DefaultConfig \in Config
<1>1. DefaultFlags \in [Flag -> BOOLEAN]
  BY DEF DefaultFlags
<1>2. 0 \in U64
  BY HalfIsPositive DEF U64
<1> QED
  BY <1>1, <1>2 DEF DefaultConfig, Config

LEMMA FreshType ==
  ASSUME NEW s \in U64
  PROVE  FreshConfig(s) \in Config /\ FreshConfig(s).flags = DefaultFlags
  BY DefaultType DEF FreshConfig, Config, DefaultConfig

\* Without a save file no option is on under a master that is off.
LEMMA DefaultMasked == Masked(DefaultFlags)
<1>1. \A f \in Flag : DefaultFlags[f] <=>
        f \notin {"evo_rng.each_level", "wild_rng.live", "model_rng.hide_starters"}
  BY DEF DefaultFlags
<1>2. \A m \in Masks : m[1] \notin {"evo_rng.each_level", "wild_rng.live",
                                    "model_rng.hide_starters"}
  BY DEF Masks
<1> QED
  BY <1>1, <1>2, MasksAreFlags DEF Masked

\* A configuration becomes a table.
LEMMA ToTableType ==
  ASSUME NEW c \in Config
  PROVE  ToTable(c) \in Table
<1>1. ToS64(c.rng_seed) \in S64
  BY CastsAreInverse DEF Config
<1>2. { ToS64(z) : z \in c.blacklisted_zones } \subseteq S64
  BY CastsAreInverse DEF Config
<1> QED
  BY <1>1, <1>2 DEF ToTable, Table, Config

\* A table becomes a configuration.
LEMMA FromTableType ==
  ASSUME NEW t \in Table
  PROVE  FromTable(DefaultConfig, t) \in Config
<1>1. ToU64(t.rng_seed) \in U64
  BY CastType DEF Table
<1>2. { ToU64(z) : z \in t.blacklisted_zones } \subseteq U64
  BY CastType DEF Table
<1>3. DefaultConfig.blacklisted_zones \subseteq U64
  BY DEF DefaultConfig
<1> QED
  BY <1>1, <1>2, <1>3 DEF FromTable, Table, Config

\* What to_table writes, from_table reads back: for every configuration, whatever its
\* seed and its zones, and although TOML integers are signed.
THEOREM RoundTrip ==
  ASSUME NEW c \in Config
  PROVE  FromTable(DefaultConfig, ToTable(c)) = c
<1>1. ToU64(ToS64(c.rng_seed)) = c.rng_seed
  BY CastsAreInverse DEF Config
<1>2. { ToU64(y) : y \in { ToS64(z) : z \in c.blacklisted_zones } } = c.blacklisted_zones
  BY CastsAreInverse DEF Config
<1>3. FromTable(DefaultConfig, ToTable(c)) =
        [ rng_seed |-> c.rng_seed, rng_seed_set |-> c.rng_seed_set,
          settings_menu_state |-> c.settings_menu_state, flags |-> c.flags,
          blacklisted_zones |-> {} \cup c.blacklisted_zones ]
  BY <1>1, <1>2 DEF FromTable, ToTable, DefaultConfig
<1> QED
  BY <1>3 DEF Config

-----------------------------------------------------------------------------
\* The seed stays a u64 while it is typed.
LEMMA AppendDigitType ==
  ASSUME NEW c \in Config, NEW d \in 0 .. 9
  PROVE  AppendDigit(c, d) \in Config /\ AppendDigit(c, d).flags = c.flags
<1>1. c.rng_seed \in Nat /\ 2 * Half \in Nat \ {0}
  BY HalfIsPositive DEF Config, U64
<1>2. (c.rng_seed * 10 + d) % (2 * Half) \in U64
  BY <1>1 DEF U64
<1> QED
  BY <1>2 DEF AppendDigit, Config

\* The other operations.
LEMMA ClearSeedType ==
  ASSUME NEW c \in Config
  PROVE  ClearSeed(c) \in Config /\ ClearSeed(c).flags = c.flags
<1>1. 0 \in U64
  BY HalfIsPositive DEF U64
<1> QED
  BY <1>1 DEF ClearSeed, Config

LEMMA ToggleInType ==
  ASSUME NEW c \in Config, NEW f \in Flag
  PROVE  ToggleIn(c, f) \in Config /\ ToggleIn(c, f).flags = Toggle(c.flags, f)
  BY ToggleType DEF ToggleIn, Config

LEMMA ConsumeZoneType ==
  ASSUME NEW c \in Config, NEW z \in U64
  PROVE  ConsumeZone(c, z) \in Config /\ ConsumeZone(c, z).flags = c.flags
  BY DEF ConsumeZone, Config

LEMMA AdvanceMenuType ==
  ASSUME NEW c \in Config, c.settings_menu_state < 2
  PROVE  AdvanceMenu(c) \in Config /\ AdvanceMenu(c).flags = c.flags
  BY DEF AdvanceMenu, Config

-----------------------------------------------------------------------------
(* The file. *)
\* What Change does to save_file, one operation of SaveData at a time.
LEMMA ChangeKeepsConfig ==
  ASSUME Change, save_file \in Config
  PROVE  /\ save_file' \in Config
         /\ Masked(save_file.flags) => Masked(save_file'.flags)
<1>0. save_file.flags \in [Flag -> BOOLEAN]
  BY DEF Config
<1>1. ASSUME NEW f \in Toggled, save_file' = ToggleIn(save_file, f)
      PROVE  /\ save_file' \in Config
             /\ Masked(save_file.flags) => Masked(save_file'.flags)
  <2>1. f \in Flag
    BY SaveFileConstants
  <2> QED
    BY <1>0, <1>1, <2>1, ToggleInType, ToggleMasks
<1>2. ASSUME NEW d \in Digits, save_file' = AppendDigit(save_file, d)
      PROVE  save_file' \in Config /\ save_file'.flags = save_file.flags
  <2>1. d \in 0 .. 9
    BY SaveFileConstants
  <2> QED
    BY <1>2, <2>1, AppendDigitType
<1>3. ASSUME save_file' = ClearSeed(save_file)
      PROVE  save_file' \in Config /\ save_file'.flags = save_file.flags
  BY <1>3, ClearSeedType
<1>4. ASSUME save_file.settings_menu_state < 2, save_file' = AdvanceMenu(save_file)
      PROVE  save_file' \in Config /\ save_file'.flags = save_file.flags
  BY <1>4, AdvanceMenuType
<1>5. ASSUME NEW z \in Zones, save_file' = ConsumeZone(save_file, z)
      PROVE  save_file' \in Config /\ save_file'.flags = save_file.flags
  <2>1. z \in U64
    BY SaveFileConstants
  <2> QED
    BY <1>5, <2>1, ConsumeZoneType
<1> QED
  BY <1>1, <1>2, <1>3, <1>4, <1>5 DEF Change

-----------------------------------------------------------------------------
\* The initial states are well typed.
LEMMA InitType == Init => TypeOK
<1> SUFFICES ASSUME Init PROVE TypeOK
  OBVIOUS
<1>1. handle \in BOOLEAN /\ intact \in BOOLEAN
  BY Zenon DEF Init
<1> QED
  BY <1>1, DefaultType, SaveFileConstants DEF Init, TypeOK, Writers

\* Every step preserves the types.
LEMMA NextType == TypeOK /\ [Next]_vars => TypeOK'
<1> SUFFICES ASSUME TypeOK, [Next]_vars PROVE TypeOK'
  OBVIOUS
<1> USE SaveFileConstants, SeedsAreU64
        DEF TypeOK, Writers, Works, Fails, GiveUp, program, file, history
<1>1. CASE BootLoad
  BY <1>1, FromTableType DEF BootLoad
<1>2. CASE BootFresh
  BY <1>2, FreshType DEF BootFresh, FileMissing
<1>3. CASE BootAbort
  BY <1>3 DEF BootAbort, NothingRead
<1>4. CASE Change
  BY <1>4, ChangeKeepsConfig DEF Change
<1>5. CASE SaveSaveFile
  BY <1>5, ToTableType DEF SaveSaveFile
<1>6. CASE FileExists
  BY <1>6 DEF FileExists
<1>7. CASE DeleteFile
  BY <1>7 DEF DeleteFile
<1>8. CASE CreateFile
  BY <1>8 DEF CreateFile
<1>9. CASE OpenFile
  <2>1. handle' \in BOOLEAN
    BY <1>9, Zenon DEF OpenFile
  <2> QED
    BY <2>1, <1>9 DEF OpenFile
<1>10. CASE WriteFile
  <2>1. intact' \in BOOLEAN
    BY <1>10, Zenon DEF WriteFile
  <2> QED
    BY <2>1, <1>10 DEF WriteFile
<1>11. CASE CloseFile
  BY <1>11 DEF CloseFile
<1>12. CASE PowerOff
  BY <1>12, DefaultType DEF PowerOff
<1>13. CASE DeleteByPlayer
  <2>1. intact' \in BOOLEAN
    BY <1>13, Zenon DEF DeleteByPlayer
  <2> QED
    BY <2>1, <1>13 DEF DeleteByPlayer
<1>14. CASE UNCHANGED vars
  BY <1>14 DEF vars
<1> QED
  BY <1>1, <1>2, <1>3, <1>4, <1>5, <1>6, <1>7, <1>8, <1>9, <1>10, <1>11, <1>12,
     <1>13, <1>14 DEF Next, Writing

\* Every variable keeps its type for ever.
THEOREM TypeCorrect == Spec => []TypeOK
  BY InitType, NextType, PTL DEF Spec

-----------------------------------------------------------------------------
(***************************************************************************)
(* The two facts that make the invariants inductive: what is being written *)
(* is the table of the configuration the save began with, and while it is  *)
(* being written the last completed save does not count as intact.         *)
(***************************************************************************)
WriterHasText ==
  /\ writer = "idle" => pending = NoFile
  /\ writer # "idle" =>
       power = "running" /\ pending \in Config /\ text = ToTable(pending)

IntactIsNotWriting == intact => writer \in {"idle", "CloseFile"}

IInv ==
  /\ TypeOK
  /\ OptionsMasked
  /\ WriterHasText
  /\ IntactIsNotWriting
  /\ DiskIsLastSave

\* The table of a configuration is masked if the configuration is, and back.
LEMMA TablesKeepFlags ==
  /\ \A c : ToTable(c).flags = c.flags
  /\ \A t : FromTable(DefaultConfig, t).flags = t.flags
  BY DEF ToTable, FromTable

\* The invariant holds in every initial state.
LEMMA InitIInv == Init => IInv
<1> SUFFICES ASSUME Init PROVE IInv
  OBVIOUS
<1>1. TypeOK
  BY InitType
<1>2. OptionsMasked
  BY DefaultMasked, SaveFileConstants DEF Init, OptionsMasked, DefaultConfig
<1>3. WriterHasText /\ IntactIsNotWriting /\ DiskIsLastSave
  BY SaveFileConstants DEF Init, WriterHasText, IntactIsNotWriting, DiskIsLastSave
<1> QED
  BY <1>1, <1>2, <1>3 DEF IInv

\* Every step leaves options under their masters; a pending save is a masked one
\* because its flags are those of save_file when it began, so the file is followed
\* through the table being written.
MaskedText == writer # "idle" => Masked(text.flags)

LEMMA NextMasked ==
  IInv /\ MaskedText /\ [Next]_vars => OptionsMasked' /\ MaskedText'
<1> SUFFICES ASSUME IInv, MaskedText, [Next]_vars PROVE OptionsMasked' /\ MaskedText'
  OBVIOUS
<1> USE SaveFileConstants, SeedsAreU64 DEF IInv, OptionsMasked, MaskedText, Works, Fails, GiveUp,
                              program, file, history
<1>1. CASE BootLoad
  BY <1>1, TablesKeepFlags DEF BootLoad
<1>2. CASE BootFresh
  BY <1>2, FreshType, DefaultMasked DEF BootFresh, FileMissing
<1>3. CASE BootAbort
  BY <1>3 DEF BootAbort, NothingRead
<1>4. CASE Change
  BY <1>4, ChangeKeepsConfig DEF Change, TypeOK
<1>5. CASE SaveSaveFile
  BY <1>5, TablesKeepFlags DEF SaveSaveFile
<1>6. CASE FileExists
  BY <1>6 DEF FileExists
<1>7. CASE DeleteFile
  BY <1>7 DEF DeleteFile
<1>8. CASE CreateFile
  BY <1>8 DEF CreateFile
<1>9. CASE OpenFile
  BY <1>9 DEF OpenFile
<1>10. CASE WriteFile
  BY <1>10 DEF WriteFile
<1>11. CASE CloseFile
  BY <1>11 DEF CloseFile
<1>12. CASE PowerOff
  BY <1>12, DefaultMasked DEF PowerOff, DefaultConfig
<1>13. CASE DeleteByPlayer
  BY <1>13 DEF DeleteByPlayer
<1>14. CASE UNCHANGED vars
  BY <1>14 DEF vars
<1> QED
  BY <1>1, <1>2, <1>3, <1>4, <1>5, <1>6, <1>7, <1>8, <1>9, <1>10, <1>11, <1>12,
     <1>13, <1>14 DEF Next, Writing

\* Every step preserves what relates the writer, the file and the last save.
LEMMA NextSaved ==
  IInv /\ [Next]_vars => WriterHasText' /\ IntactIsNotWriting' /\ DiskIsLastSave'
<1> SUFFICES ASSUME IInv, [Next]_vars
             PROVE  WriterHasText' /\ IntactIsNotWriting' /\ DiskIsLastSave'
  OBVIOUS
<1> USE SaveFileConstants, SeedsAreU64 DEF IInv, WriterHasText, IntactIsNotWriting, DiskIsLastSave,
                              Works, Fails, GiveUp, program, file, history
<1>1. CASE BootLoad \/ BootFresh \/ BootAbort
  BY <1>1 DEF BootLoad, BootFresh, BootAbort, FileMissing, NothingRead
<1>4. CASE Change
  BY <1>4 DEF Change
<1>5. CASE SaveSaveFile
  BY <1>5 DEF SaveSaveFile, TypeOK
<1>6. CASE FileExists
  BY <1>6 DEF FileExists
<1>7. CASE DeleteFile
  BY <1>7 DEF DeleteFile
<1>8. CASE CreateFile
  BY <1>8 DEF CreateFile
<1>9. CASE OpenFile
  BY <1>9 DEF OpenFile
<1>10. CASE WriteFile
  BY <1>10, ToTableType DEF WriteFile
<1>11. CASE CloseFile
  BY <1>11 DEF CloseFile
<1>12. CASE PowerOff
  BY <1>12 DEF PowerOff
<1>13. CASE DeleteByPlayer
  BY <1>13 DEF DeleteByPlayer
<1>14. CASE UNCHANGED vars
  BY <1>14 DEF vars
<1> QED
  BY <1>1, <1>4, <1>5, <1>6, <1>7, <1>8, <1>9, <1>10, <1>11, <1>12, <1>13, <1>14
     DEF Next, Writing

\* The inductive invariant holds in every reachable state.
LEMMA Invariance == Spec => [](IInv /\ MaskedText)
<1>1. Init => IInv /\ MaskedText
  BY InitIInv DEF Init, MaskedText
<1>2. IInv /\ MaskedText /\ [Next]_vars => (IInv /\ MaskedText)'
  BY NextType, NextMasked, NextSaved DEF IInv
<1> QED
  BY <1>1, <1>2, PTL DEF Spec

\* ToggleSetting's masks hold in the object and in every file it is saved to.
THEOREM OptionsStayMasked == Spec => []OptionsMasked
<1>1. IInv => OptionsMasked
  BY DEF IInv
<1> QED
  BY <1>1, Invariance, PTL

\* The file is the last completed save, or unreadable, or gone, and it is the last
\* completed save unless a later one failed or was cut off.
THEOREM FileIsLastSave == Spec => []DiskIsLastSave
<1>1. IInv => DiskIsLastSave
  BY DEF IInv
<1> QED
  BY <1>1, Invariance, PTL

-----------------------------------------------------------------------------
\* A boot in which no call fails brings back the object of the last completed save,
\* or, if none is intact, may start a fresh run.
THEOREM BootRestores == Spec => RestartRestores
<1> DEFINE Boot == power = "off" /\ power' = "running" /\ faults' = faults
           Restored == \/ save_file' = saved
                       \/ /\ saved = NoFile \/ ~ intact
                          /\ \E s \in FreshSeeds : save_file' = FreshConfig(s)
<1>1. ASSUME IInv, [Next]_vars, Boot PROVE Restored
  <2>1. BootLoad \/ BootFresh
    BY <1>1 DEF Next, BootAbort, NothingRead, Change, SaveSaveFile, Writing, FileExists,
       DeleteFile, CreateFile, OpenFile, WriteFile, CloseFile, PowerOff,
       DeleteByPlayer, vars, program, IInv, WriterHasText
  <2>2. CASE BootLoad
    <3>1. saved \in Config /\ disk = ToTable(saved)
      BY <1>1, <2>2 DEF BootLoad, IInv, DiskIsLastSave, TypeOK
    <3> QED
      BY <3>1, <2>2, RoundTrip DEF BootLoad
  <2>3. CASE BootFresh
    <3>1. disk = NoFile
      BY <1>1, <2>3 DEF BootFresh, FileMissing, Fails, IInv, TypeOK
    <3>2. saved = NoFile \/ ~ intact
      <4>1. saved \in Config => ToTable(saved) # NoFile
        BY ToTableType, SaveFileConstants
      <4> QED
        BY <3>1, <4>1, <1>1 DEF IInv, DiskIsLastSave, TypeOK
    <3> QED
      BY <3>2, <2>3 DEF BootFresh, FileMissing
  <2> QED
    BY <2>1, <2>2, <2>3
<1>2. IInv /\ [Next]_vars => (Boot => Restored)
  BY <1>1
<1>3. IInv /\ [Next]_vars => [Boot => Restored]_vars
  BY <1>2
<1> QED
  BY <1>3, Invariance, PTL DEF Spec, RestartRestores

-----------------------------------------------------------------------------
(***************************************************************************)
(* SaveFile implements ConfigStore: loading the file is what the abstract  *)
(* store keeps, so one nn::fs call is one step of the replacement or none. *)
(***************************************************************************)
live   == IF power = "running" THEN save_file ELSE NoFile
stored == IF disk \in Table THEN FromTable(DefaultConfig, disk) ELSE disk

\* What is stored is a configuration, nothing, or broken.
LEMMA StoredType ==
  ASSUME TypeOK
  PROVE  stored \in Config \cup {NoFile, Torn}
  BY FromTableType DEF TypeOK, stored

\* The initial states map to the initial state of the store.
LEMMA InitImplements == Init => Store!Init
  BY SaveFileConstants DEF Init, Store!Init

\* Every step of SaveFile is a step of the store or leaves it unchanged.
LEMMA StepImplements == IInv /\ [Next]_vars => [Store!Next]_(Store!storeVars)
<1> SUFFICES ASSUME IInv, [Next]_vars
             PROVE  Store!Next \/ UNCHANGED <<live, pending, stored>>
  BY DEF Store!storeVars, live, stored
<1>0. /\ power \in {"off", "running", "aborted"}
      /\ save_file \in Config
      /\ disk \in Table \cup {NoFile, Torn}
      /\ NoFile \notin Table \cup Config
      /\ Torn \notin Table \cup Config
      /\ NoFile # Torn
      /\ writer = "idle" => pending = NoFile
      /\ writer # "idle" =>
           power = "running" /\ pending \in Config /\ text = ToTable(pending)
  BY SaveFileConstants DEF IInv, TypeOK, WriterHasText
<1> USE DEF Works, Fails, GiveUp, program, file, history, live, stored
<1>1. CASE BootLoad
  <2>1. Store!Start
    BY <1>0, <1>1, FromTableType DEF BootLoad, Store!Start
  <2> QED
    BY <2>1 DEF Store!Next
<1>2. CASE BootFresh
  <2>1. Store!Start
    BY <1>0, <1>2 DEF BootFresh, FileMissing, Store!Start
  <2> QED
    BY <2>1 DEF Store!Next
<1>3. CASE BootAbort
  BY <1>3 DEF BootAbort, NothingRead
<1>4. CASE Change
  <2>1. save_file' \in Config
    BY <1>0, <1>4, ChangeKeepsConfig
  <2>2. Store!Change
    BY <1>0, <1>4, <2>1 DEF Change, Store!Change
  <2> QED
    BY <2>2 DEF Store!Next
<1>5. CASE SaveSaveFile
  <2>1. Store!BeginSave
    BY <1>0, <1>5 DEF SaveSaveFile, Store!BeginSave
  <2> QED
    BY <2>1 DEF Store!Next
<1>6. CASE FileExists
  BY <1>6 DEF FileExists
<1>7. CASE DeleteFile
  <2>1. CASE disk' = NoFile
    <3>1. Store!Replace
      BY <1>0, <1>7, <2>1 DEF DeleteFile, Store!Replace
    <3> QED
      BY <3>1 DEF Store!Next
  <2>2. CASE disk' # NoFile
    BY <1>7, <2>2 DEF DeleteFile
  <2> QED
    BY <2>1, <2>2
<1>8. CASE CreateFile
  <2>1. CASE writer' = "OpenFile"
    <3>1. Store!Replace
      BY <1>0, <1>8, <2>1 DEF CreateFile, Store!Replace
    <3> QED
      BY <3>1 DEF Store!Next
  <2>2. CASE writer' # "OpenFile"
    <3>1. Store!EndSave
      BY <1>0, <1>8, <2>2 DEF CreateFile, Store!EndSave
    <3> QED
      BY <3>1 DEF Store!Next
  <2> QED
    BY <2>1, <2>2
<1>9. CASE OpenFile
  <2>1. CASE writer' = "WriteFile"
    BY <1>9, <2>1 DEF OpenFile
  <2>2. CASE writer' # "WriteFile"
    <3>1. Store!EndSave
      BY <1>0, <1>9, <2>2 DEF OpenFile, Store!EndSave
    <3> QED
      BY <3>1 DEF Store!Next
  <2> QED
    BY <2>1, <2>2
<1>10. CASE WriteFile
  <2>1. CASE writer' = "CloseFile"
    <3>1. stored' = pending
      BY <1>0, <1>10, <2>1, RoundTrip, ToTableType DEF WriteFile
    <3>2. Store!Replace
      BY <1>0, <1>10, <2>1, <3>1 DEF WriteFile, Store!Replace
    <3> QED
      BY <3>2 DEF Store!Next
  <2>2. CASE writer' # "CloseFile"
    <3>1. Store!EndSave
      BY <1>0, <1>10, <2>2 DEF WriteFile, Store!EndSave
    <3> QED
      BY <3>1 DEF Store!Next
  <2> QED
    BY <2>1, <2>2
<1>11. CASE CloseFile
  <2>1. Store!EndSave
    BY <1>0, <1>11 DEF CloseFile, Store!EndSave
  <2> QED
    BY <2>1 DEF Store!Next
<1>12. CASE PowerOff
  <2>1. Store!Stop
    BY <1>0, <1>12 DEF PowerOff, Store!Stop
  <2> QED
    BY <2>1 DEF Store!Next
<1>13. CASE DeleteByPlayer
  <2>1. Store!Forget
    BY <1>0, <1>13 DEF DeleteByPlayer, Store!Forget
  <2> QED
    BY <2>1 DEF Store!Next
<1>14. CASE UNCHANGED vars
  BY <1>14 DEF vars
<1> QED
  BY <1>1, <1>2, <1>3, <1>4, <1>5, <1>6, <1>7, <1>8, <1>9, <1>10, <1>11, <1>12,
     <1>13, <1>14 DEF Next, Writing

\* The file on the SD card is an implementation of the abstract store.
THEOREM FileImplementsStore == Spec => ImplementsConfigStore
  BY InitImplements, StepImplements, Invariance, PTL
     DEF Spec, ImplementsConfigStore, Store!Spec

-----------------------------------------------------------------------------
(***************************************************************************)
(* The settings dialog, for any number of digits: the seed is what was     *)
(* typed, an option toggles the flag it shows, and a closed dialog leaves  *)
(* the run alone.                                                          *)
(***************************************************************************)
(***************************************************************************)
(* A digit may be appended to the seed or to what the seed is the rest of: *)
(* u64 arithmetic wraps, and the number that was typed does not.           *)
(***************************************************************************)
LEMMA WrapsAlike ==
  ASSUME NEW n \in Nat \ {0}, NEW t \in Nat, NEW d \in 0 .. 9
  PROVE  ((t % n) * 10 + d) % n = (t * 10 + d) % n
<1> DEFINE q == t \div n
           r == t % n
           x == r * 10 + d
<1>1. q \in Int /\ r \in 0 .. n - 1 /\ t = n * q + r
  OBVIOUS
<1> HIDE DEF q, r
<1>2. x \in Int
  BY <1>1
<1> HIDE DEF x
<1>3. x \div n \in Int /\ x % n \in 0 .. n - 1 /\ x = n * (x \div n) + (x % n)
  BY <1>2
<1> DEFINE k == 10 * q + (x \div n)
<1>4. t * 10 + d = n * k + (x % n)
  <2>1. t * 10 + d = 10 * (n * q) + x
    BY <1>1 DEF x
  <2>2. PICK a \in Int : a = x \div n
    BY <1>3
  <2>3. PICK b \in Int : b = x % n
    BY <1>3
  <2>4. n * (10 * q + a) = 10 * (n * q) + n * a
    BY <1>1
  <2> QED
    <3>1. x = n * a + b
      BY <1>3, <2>2, <2>3
    <3>2. n * q \in Int /\ n * a \in Int
      BY <1>1
    <3> QED
      BY <2>1, <2>2, <2>3, <2>4, <3>1, <3>2
<1>5. k \in Int
  BY <1>1, <1>3
<1> HIDE DEF k
<1>6. (n * k + (x % n)) % n = x % n
  <2>1. \A c \in Int, b \in 0 .. n - 1 : (n * c + b) % n = b
    OBVIOUS
  <2> QED
    BY <2>1, <1>3, <1>5
<1>7. (t * 10 + d) % n = x % n
  BY <1>4, <1>6
<1> QED
  BY <1>7 DEF x, r

(***************************************************************************)
(* The invariant: digits are added only while a number is being typed, for *)
(* NewSeedOption starts one and the script leaves the typing with the last *)
(* digit.                                                                  *)
(***************************************************************************)
TypingANumber == typed >= -1 /\ (dialog = "seed" => typed >= 0)

MenuInv == SeedIsWhatWasTyped /\ TypingANumber

LEMMA MenuStarts == MenuInit => MenuInv
<1> SUFFICES ASSUME MenuInit PROVE MenuInv
  OBVIOUS
<1>1. PICK s \in FreshSeeds : save_file = FreshConfig(s)
  BY DEF MenuInit
<1>2. s \in U64 /\ 0 \in U64
  BY SettingsMenuConstants, SeedsAreU64, HalfIsPositive DEF U64
<1>3. save_file \in Config /\ save_file.rng_seed_set
  <2>1. DefaultFlags \in [Flag -> BOOLEAN]
    BY DEF DefaultFlags
  <2> QED
    <3> DEFINE seeded == [DefaultConfig EXCEPT !.rng_seed = s]
    <3>1. DefaultConfig \in Config
      BY <1>2, <2>1 DEF DefaultConfig, Config
    <3>2. seeded \in Config
      BY <1>2, <3>1 DEF Config
    <3>3. save_file = [seeded EXCEPT !.rng_seed_set = TRUE]
      BY <1>1 DEF FreshConfig
    <3> HIDE DEF seeded
    <3> QED
      BY <3>2, <3>3 DEF Config
<1> QED
  BY <1>3, SettingsMenuConstants DEF MenuInit, MenuInv, SeedIsWhatWasTyped, TypingANumber, MenuTypeOK

\* What the operations of the dialog leave is a configuration, and what they leave alone.
LEMMA Operations ==
  ASSUME NEW c \in Config
  PROVE  /\ ClearSeed(c) \in Config /\ ClearSeed(c).rng_seed = 0 /\ ~ ClearSeed(c).rng_seed_set
         /\ \A f : ToggleIn(c, f) \in Config /\ ToggleIn(c, f).flags = Toggle(c.flags, f)
                   /\ ToggleIn(c, f).rng_seed = c.rng_seed
                   /\ ToggleIn(c, f).rng_seed_set = c.rng_seed_set
         /\ \A d \in 0 .. 9 : /\ AppendDigit(c, d) \in Config
                              /\ AppendDigit(c, d).rng_seed = (c.rng_seed * 10 + d) % (2 * Half)
                              /\ AppendDigit(c, d).rng_seed_set
         /\ c.settings_menu_state < 2 =>
              AdvanceMenu(c) \in Config /\ AdvanceMenu(c).flags = c.flags
              /\ AdvanceMenu(c).rng_seed = c.rng_seed
              /\ AdvanceMenu(c).rng_seed_set = c.rng_seed_set
<1> USE HalfIsPositive DEF Config, U64
<1>1. ClearSeed(c) \in Config /\ ClearSeed(c).rng_seed = 0 /\ ~ ClearSeed(c).rng_seed_set
  <2> DEFINE unset == [c EXCEPT !.rng_seed = 0]
  <2>1. unset \in Config /\ unset.rng_seed = 0
    OBVIOUS
  <2>2. ClearSeed(c) = [unset EXCEPT !.rng_seed_set = FALSE]
    BY DEF ClearSeed
  <2> HIDE DEF unset
  <2> QED
    BY <2>1, <2>2
<1>2. ASSUME NEW f
      PROVE  ToggleIn(c, f) \in Config /\ ToggleIn(c, f).flags = Toggle(c.flags, f)
             /\ ToggleIn(c, f).rng_seed = c.rng_seed
             /\ ToggleIn(c, f).rng_seed_set = c.rng_seed_set
  <2>1. Toggle(c.flags, f) \in [Flag -> BOOLEAN]
    BY DEF Toggle
  <2> QED
    BY <2>1 DEF ToggleIn
<1>3. ASSUME NEW d \in 0 .. 9
      PROVE  /\ AppendDigit(c, d) \in Config
             /\ AppendDigit(c, d).rng_seed = (c.rng_seed * 10 + d) % (2 * Half)
             /\ AppendDigit(c, d).rng_seed_set
  <2>1. (c.rng_seed * 10 + d) % (2 * Half) \in 0 .. 2 * Half - 1
    <3>1. c.rng_seed * 10 + d \in Int /\ 2 * Half \in Nat \ {0}
      OBVIOUS
    <3>2. \A a \in Int, n \in Nat \ {0} : a % n \in 0 .. n - 1
      OBVIOUS
    <3> QED
      BY <3>1, <3>2
  <2> QED
    BY <2>1 DEF AppendDigit
<1>4. c.settings_menu_state < 2 =>
        AdvanceMenu(c) \in Config /\ AdvanceMenu(c).flags = c.flags
        /\ AdvanceMenu(c).rng_seed = c.rng_seed
        /\ AdvanceMenu(c).rng_seed_set = c.rng_seed_set
  BY DEF AdvanceMenu
<1> QED
  BY <1>1, <1>2, <1>3, <1>4

\* What the window may show.
LEMMA Shows ==
  ASSUME NEW c, ShowSeed(c)
  PROVE  window' \in {"none", "label", "label and seed", "garbage"}
BY DEF ShowSeed

\* The digit that a response adds is the one its item shows, on both lists.
LEMMA DigitIsShown ==
  ASSUME NEW p \in 0 .. 1, NEW r \in (IF p = 0 THEN 0 .. 5 ELSE 1 .. 4)
  PROVE  /\ DigitAdded(p, r) \in 0 .. 9
         /\ (CHOOSE d \in 0 .. 9 : ShownDigit[d] = DigitItems(p)[r + 1]) = DigitAdded(p, r)
<1>1. DigitAdded(p, r) \in 0 .. 9
  BY DEF DigitAdded
<1>2. ShownDigit[DigitAdded(p, r)] = DigitItems(p)[r + 1]
  <2>1. CASE p = 0
    <3>1. r \in {0, 1, 2, 3, 4, 5}
      BY <2>1
    <3> QED
      BY <2>1, <3>1 DEF DigitAdded, ShownDigit, DigitItems
  <2>2. CASE p = 1
    <3>1. r \in {1, 2, 3, 4}
      BY <2>2
    <3> QED
      BY <2>2, <3>1 DEF DigitAdded, ShownDigit, DigitItems
  <2> QED
    BY <2>1, <2>2
<1>3. \A d, e \in 0 .. 9 : ShownDigit[d] = ShownDigit[e] => d = e
  <2> SUFFICES ASSUME NEW d \in 0 .. 9, NEW e \in 0 .. 9, ShownDigit[d] = ShownDigit[e]
               PROVE  d = e
    OBVIOUS
  <2>1. d \in {0, 1, 2, 3, 4, 5, 6, 7, 8, 9} /\ e \in {0, 1, 2, 3, 4, 5, 6, 7, 8, 9}
    OBVIOUS
  <2> QED
    BY <2>1 DEF ShownDigit
<1> QED
  BY <1>1, <1>2, <1>3

\* A step that neither touches the seed nor begins or ends the typing.
LEMMA SeedLeftAlone ==
  ASSUME MenuInv,
         save_file' \in Config, save_file'.rng_seed = save_file.rng_seed,
         save_file'.rng_seed_set = save_file.rng_seed_set,
         UNCHANGED <<i, typed>>,
         dialog' = dialog \/ (dialog' \in {"closed", "list"} /\ dialog # "seed"),
         page' \in 0 .. 4, seed_page' \in 0 .. 1,
         window' = window \/ \E c : ShowSeed(c)
  PROVE  MenuInv'
<1>1. window' \in {"none", "label", "label and seed", "garbage"}
  BY Shows DEF MenuInv, SeedIsWhatWasTyped, MenuTypeOK
<1> DEFINE width == 2 * Half
<1>2. /\ dialog \in {"closed", "list", "seed"} /\ i \in 0 .. SeedDigits /\ typed \in Int
      /\ typed >= 0 => save_file.rng_seed = typed % width
      /\ dialog = "seed" => i < SeedDigits /\ (save_file.rng_seed_set <=> i > 0)
      /\ dialog # "seed" => save_file.rng_seed_set /\ (typed >= 0 => i = SeedDigits)
      /\ TypingANumber
  BY DEF MenuInv, SeedIsWhatWasTyped, MenuTypeOK
<1> HIDE DEF width
<1>3. typed' >= 0 => save_file'.rng_seed = typed' % width
  BY <1>2
<1>4. /\ dialog' \in {"closed", "list", "seed"} /\ i' \in 0 .. SeedDigits /\ typed' \in Int
      /\ dialog' = "seed" <=> dialog = "seed"
  BY <1>2
<1>5. /\ dialog' = "seed" => i' < SeedDigits /\ (save_file'.rng_seed_set <=> i' > 0)
      /\ dialog' # "seed" => save_file'.rng_seed_set /\ (typed' >= 0 => i' = SeedDigits)
  BY <1>2, <1>4
<1>6. MenuTypeOK'
  BY <1>1, <1>4 DEF MenuTypeOK
<1>7. TypingANumber'
  BY <1>2, <1>4 DEF TypingANumber
<1> QED
  BY <1>3, <1>5, <1>6, <1>7 DEF MenuInv, SeedIsWhatWasTyped, width

\* A number begins.
LEMMA NewSeedStep == ASSUME MenuInv, NewSeedOption PROVE MenuInv'
<1>1. /\ save_file' = ClearSeed(save_file) /\ dialog' = "seed" /\ seed_page' = 0 /\ i' = 0
      /\ typed' = 0 /\ page' = page
  BY DEF NewSeedOption
<1>2. window' \in {"none", "label", "label and seed", "garbage"}
  BY Shows DEF NewSeedOption
<1>3. save_file' \in Config /\ save_file'.rng_seed = 0 /\ ~ save_file'.rng_seed_set
  BY <1>1, Operations DEF MenuInv, SeedIsWhatWasTyped, MenuTypeOK
<1>4. 0 % (2 * Half) = 0
  <2>1. 2 * Half \in Nat \ {0}
    BY HalfIsPositive
  <2>2. \A n \in Nat \ {0} : 0 % n = 0
    OBVIOUS
  <2> QED
    BY <2>1, <2>2
<1>5. SeedDigits \in Nat /\ 0 < SeedDigits
  BY SettingsMenuConstants
<1>6. MenuTypeOK'
  <2>1. page \in 0 .. 4
    BY DEF MenuInv, SeedIsWhatWasTyped, MenuTypeOK
  <2>2. page' \in 0 .. 4 /\ seed_page' \in 0 .. 1 /\ i' \in 0 .. SeedDigits /\ typed' \in Int
        /\ dialog' \in {"closed", "list", "seed"}
    BY <1>1, <1>5, <2>1
  <2> QED
    BY <1>2, <1>3, <2>2 DEF MenuTypeOK
<1>7. typed' >= 0 => save_file'.rng_seed = typed' % (2 * Half)
  BY <1>1, <1>3, <1>4
<1>8. TypingANumber'
  BY <1>1 DEF TypingANumber
<1>9. /\ dialog' = "seed" => i' < SeedDigits /\ (save_file'.rng_seed_set <=> i' > 0)
      /\ dialog' # "seed" => save_file'.rng_seed_set /\ (typed' >= 0 => i' = SeedDigits)
  BY <1>1, <1>3, <1>5
<1> QED
  BY <1>6, <1>7, <1>8, <1>9 DEF MenuInv, SeedIsWhatWasTyped

\* It grows by a digit, which may be its last.
LEMMA DigitStep == ASSUME MenuInv, NEW r \in 0 .. 6, AddNewSeedDigit(r) PROVE MenuInv'
<1> DEFINE d == DigitAdded(seed_page, r)
           next == AppendDigit(save_file, d)
<1>1. /\ dialog = "seed" /\ seed_page' = seed_page /\ page' = page
      /\ save_file' = next /\ i' = i + 1
      /\ \/ i + 1 = SeedDigits /\ dialog' = "list" /\ window' = window
         \/ i + 1 # SeedDigits /\ dialog' = dialog /\ ShowSeed(next)
  BY DEF AddNewSeedDigit
<1>0. MenuTypeOK /\ TypingANumber /\ (dialog = "seed" => i < SeedDigits)
  BY DEF MenuInv, SeedIsWhatWasTyped
<1>2. /\ save_file \in Config /\ page \in 0 .. 4 /\ seed_page \in 0 .. 1
      /\ i \in Nat /\ i < SeedDigits /\ SeedDigits \in Nat
      /\ typed \in Nat
  <2>1. SeedDigits \in Nat
    BY SettingsMenuConstants
  <2>2. dialog = "seed"
    BY <1>1
  <2>3. /\ save_file \in Config /\ page \in 0 .. 4 /\ seed_page \in 0 .. 1
        /\ i \in 0 .. SeedDigits /\ typed \in Int
    BY <1>0 DEF MenuTypeOK
  <2> HIDE DEF next
  <2> QED
    BY <1>0, <2>1, <2>2, <2>3 DEF TypingANumber
<1>3. save_file.rng_seed = typed % (2 * Half)
  BY <1>2 DEF MenuInv, SeedIsWhatWasTyped
<1>4. d \in 0 .. 9 /\ typed' = typed * 10 + d
  BY <1>2, DigitIsShown DEF AddNewSeedDigit
<1> HIDE DEF d
<1>5. /\ next \in Config /\ next.rng_seed_set
      /\ next.rng_seed = (save_file.rng_seed * 10 + d) % (2 * Half)
  <2> HIDE DEF next
  <2>1. next = AppendDigit(save_file, d)
    BY DEF next
  <2> QED
    BY <1>2, <1>4, <2>1, Operations
<1> HIDE DEF next
<1>6. 2 * Half \in Nat \ {0}
  BY HalfIsPositive
<1>7. save_file'.rng_seed = typed' % (2 * Half)
  <2>1. ((typed % (2 * Half)) * 10 + d) % (2 * Half) = (typed * 10 + d) % (2 * Half)
    BY <1>2, <1>4, <1>6, WrapsAlike
  <2> QED
    BY <1>1, <1>3, <1>4, <1>5, <2>1
<1>8. window' \in {"none", "label", "label and seed", "garbage"}
  BY <1>1, Shows DEF MenuInv, SeedIsWhatWasTyped, MenuTypeOK
<1>9. typed' \in Nat /\ i' \in 0 .. SeedDigits /\ i' > 0
  BY <1>1, <1>2, <1>4
<1>10. MenuTypeOK'
  <2>1. page' \in 0 .. 4 /\ seed_page' \in 0 .. 1 /\ dialog' \in {"closed", "list", "seed"}
    BY <1>1, <1>2
  <2>2. typed' \in Int
    BY <1>9
  <2>3. save_file' \in Config
    BY <1>1, <1>5
  <2> QED
    BY <1>8, <1>9, <2>1, <2>2, <2>3 DEF MenuTypeOK
<1>11. /\ dialog' = "seed" => i' < SeedDigits /\ (save_file'.rng_seed_set <=> i' > 0)
       /\ dialog' # "seed" => save_file'.rng_seed_set /\ (typed' >= 0 => i' = SeedDigits)
  BY <1>1, <1>2, <1>5, <1>9
<1>12. TypingANumber'
  BY <1>9 DEF TypingANumber
<1> QED
  BY <1>7, <1>10, <1>11, <1>12 DEF MenuInv, SeedIsWhatWasTyped

\* Every step preserves the invariant.
LEMMA MenuGoesOn == MenuInv /\ [MenuNext]_menuVars => MenuInv'
<1> SUFFICES ASSUME MenuInv, [MenuNext]_menuVars PROVE MenuInv'
  OBVIOUS
<1>0. save_file \in Config /\ page \in 0 .. 4 /\ seed_page \in 0 .. 1
  BY DEF MenuInv, SeedIsWhatWasTyped, MenuTypeOK
<1>1. CASE SettingsMenuTrigger
  <2>1. /\ dialog = "closed" /\ dialog' \in {"closed", "list"} /\ page' \in 0 .. 4
        /\ save_file.settings_menu_state < 2 /\ save_file' = AdvanceMenu(save_file)
        /\ UNCHANGED <<seed_page, i, window, typed>>
    BY <1>1 DEF SettingsMenuTrigger
  <2>2. /\ save_file' \in Config /\ save_file'.rng_seed = save_file.rng_seed
        /\ save_file'.rng_seed_set = save_file.rng_seed_set
    BY <1>0, <2>1, Operations
  <2>3. /\ UNCHANGED <<i, typed>> /\ seed_page' \in 0 .. 1 /\ window' = window
        /\ dialog' = dialog \/ (dialog' \in {"closed", "list"} /\ dialog # "seed")
    BY <1>0, <2>1
  <2> QED
    BY <2>1, <2>2, <2>3, SeedLeftAlone
<1>2. CASE Confirm
  BY <1>0, <1>2, SeedLeftAlone DEF Confirm, AtList
<1>3. CASE ShowSeedOption
  BY <1>0, <1>3, SeedLeftAlone DEF ShowSeedOption
<1>4. ASSUME NEW r \in 0 .. 6, TurnPage(r) PROVE MenuInv'
  <2>1. page' \in 0 .. 4
    BY <1>0, <1>4 DEF TurnPage
  <2> QED
    BY <1>0, <1>4, <2>1, SeedLeftAlone DEF TurnPage
<1>5. ASSUME NEW r \in 0 .. 6, ToggleOption(r) PROVE MenuInv'
  BY <1>0, <1>5, Operations, SeedLeftAlone DEF ToggleOption
<1>6. ASSUME NEW r \in 0 .. 6, TurnSeedPage(r) PROVE MenuInv'
  BY <1>0, <1>6, SeedLeftAlone DEF TurnSeedPage
<1>7. CASE UNCHANGED menuVars
  BY <1>0, <1>7, SeedLeftAlone DEF menuVars
<1> QED
  BY <1>1, <1>2, <1>3, <1>4, <1>5, <1>6, <1>7, NewSeedStep, DigitStep DEF MenuNext

LEMMA MenuInvariant == MenuSpec => []MenuInv
  BY MenuStarts, MenuGoesOn, PTL DEF MenuSpec

(***************************************************************************)
(* AddNewSeedDigit and the script's two lists of digits: at every moment   *)
(* of the typing rng_seed is what the digits chosen so far say, modulo its *)
(* width, and it is never left half typed or unset.                        *)
(***************************************************************************)
THEOREM SeedIsTyped == MenuSpec => []SeedIsWhatWasTyped
<1>1. MenuInv => SeedIsWhatWasTyped
  BY DEF MenuInv
<1> QED
  BY <1>1, MenuInvariant, PTL

-----------------------------------------------------------------------------
\* The four tables agree: page, response, case of ToggleSetting and message.
LEMMA TablesAgree ==
  ASSUME NEW p \in 0 .. 4, NEW r \in 0 .. 6, IsToggle(p, r)
  PROVE  ToggleOrder[ToggleIndex(p, r) + 1] = ShownFlag(Items(p)[r + 1])
<1> USE DEF ToggleIndex, ToggleOrder, Items, ShownFlag, IsToggle
<1>1. CASE p = 0
  <2>1. r \in {3, 4, 5}
    BY <1>1
  <2> QED
    BY <1>1, <2>1
<1>2. CASE p = 1
  <2>1. r \in {1, 2, 3, 4, 5}
    BY <1>2
  <2> QED
    BY <1>2, <2>1
<1>3. CASE p = 2
  <2>1. r \in {1, 2, 3, 4, 5}
    BY <1>3
  <2> QED
    BY <1>3, <2>1
<1>4. CASE p = 3
  <2>1. r \in {1, 2, 3, 4, 5}
    BY <1>4
  <2> QED
    BY <1>4, <2>1
<1>5. CASE p = 4
  <2>1. r \in {1, 2}
    BY <1>5
  <2> QED
    BY <1>5, <2>1
<1> HIDE DEF ToggleIndex, ToggleOrder, Items, ShownFlag, IsToggle
<1> QED
  BY <1>1, <1>2, <1>3, <1>4, <1>5

(***************************************************************************)
(* settings.p and settings_menu.hpp: whatever was chosen before, an option *)
(* toggles, with its masks, the flag that its own text displays.           *)
(***************************************************************************)
THEOREM PicksAreShown == MenuSpec => PickTogglesWhatItShows
<1> DEFINE Picks == \A r \in 0 .. 6 : ToggleOption(r) =>
                      save_file'.flags = Toggle(save_file.flags, ShownFlag(Items(page)[r + 1]))
<1>1. ASSUME MenuInv PROVE Picks
  <2> SUFFICES ASSUME NEW r \in 0 .. 6, ToggleOption(r)
               PROVE  save_file'.flags = Toggle(save_file.flags, ShownFlag(Items(page)[r + 1]))
    OBVIOUS
  <2>1. save_file \in Config /\ page \in 0 .. 4
    BY <1>1 DEF MenuInv, SeedIsWhatWasTyped, MenuTypeOK
  <2>2. /\ IsToggle(page, r)
        /\ save_file' = ToggleIn(save_file, ToggleOrder[ToggleIndex(page, r) + 1])
    BY DEF ToggleOption
  <2> QED
    <3>1. ToggleOrder[ToggleIndex(page, r) + 1] = ShownFlag(Items(page)[r + 1])
      BY <2>1, <2>2, TablesAgree
    <3>2. save_file' = ToggleIn(save_file, ShownFlag(Items(page)[r + 1]))
      BY <2>2, <3>1
    <3> QED
      BY <2>1, <3>2, Operations
<1>2. MenuInv => [Picks]_menuVars
  BY <1>1
<1> QED
  BY <1>2, MenuInvariant, PTL DEF PickTogglesWhatItShows

(***************************************************************************)
(* SettingsMenuTrigger: once the dialog was closed nothing opens it again, *)
(* and the seed and the flags the tables of a run are made from stay.      *)
(***************************************************************************)
THEOREM RunIsFrozen == MenuSpec => FrozenOnceClosed
<1> DEFINE Frozen == dialog = "closed" /\ save_file.settings_menu_state > 0
                       => /\ dialog' = "closed"
                          /\ save_file'.flags = save_file.flags
                          /\ save_file'.rng_seed = save_file.rng_seed
<1>1. ASSUME MenuInv, MenuNext PROVE Frozen
  <2> SUFFICES ASSUME dialog = "closed", save_file.settings_menu_state > 0
               PROVE  /\ dialog' = "closed"
                      /\ save_file'.flags = save_file.flags
                      /\ save_file'.rng_seed = save_file.rng_seed
    OBVIOUS
  <2>1. SettingsMenuTrigger
    BY <1>1 DEF MenuNext, Confirm, ShowSeedOption, NewSeedOption, TurnPage, ToggleOption, TurnSeedPage,
                AddNewSeedDigit, AtList
  <2>2. save_file \in Config
    BY <1>1 DEF MenuInv, SeedIsWhatWasTyped, MenuTypeOK
  <2> QED
    <3>1. /\ save_file.settings_menu_state # 0 => dialog' = dialog
          /\ save_file.settings_menu_state < 2 /\ save_file' = AdvanceMenu(save_file)
      BY <2>1 DEF SettingsMenuTrigger
    <3>2. save_file'.flags = save_file.flags /\ save_file'.rng_seed = save_file.rng_seed
      BY <2>2, <3>1, Operations
    <3>3. save_file.settings_menu_state \in 0 .. 2
      BY <2>2 DEF Config
    <3> QED
      BY <3>1, <3>2, <3>3
<1>2. MenuInv /\ [MenuNext]_menuVars => [Frozen]_menuVars
  BY <1>1
<1> QED
  BY <1>2, MenuInvariant, PTL DEF MenuSpec, FrozenOnceClosed
=============================================================================
