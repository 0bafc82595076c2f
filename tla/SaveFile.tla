------------------------------ MODULE SaveFile ------------------------------
(***************************************************************************)
(* The life of the mod's save file: MainInitHook reads it when the game    *)
(* boots (source/program/main.cpp), the run changes the object save_file,  *)
(* SaveSaveFile turns the object into a table whenever the game writes its *)
(* own "main" save (source/program/savefile.hpp), and FileHandler replaces *)
(* the file on the SD card one nn::fs call at a time                       *)
(* (source/program/file_handler.hpp).  Every nn::fs call may fail, the     *)
(* power may go at any point, and the rest of the game goes on changing    *)
(* save_file between two calls.                                            *)
(***************************************************************************)
EXTENDS SaveData

CONSTANTS
  Digits,       \* the digits the player may type
  Toggled,      \* the flags the player may toggle
  Zones,        \* the zones in which an encounter may be consumed
  MaxFaults,    \* bound: how many nn::fs calls fail in a behaviour
  NoFile,       \* there is no file at the path
  Torn          \* a file that does not parse: created and not yet written

ASSUME SaveFileConstants ==
  /\ Digits \subseteq 0 .. 9
  /\ Toggled \subseteq Flag
  /\ Zones \subseteq U64
  /\ MaxFaults \in Nat
  /\ NoFile \notin Table \cup Config /\ Torn \notin Table \cup Config
  /\ NoFile # Torn

VARIABLES
  power,      \* "off", "running", or "aborted": the game stopped itself
  disk,       \* the file: NoFile, Torn, or the table it holds
  writer,     \* the nn::fs call FileHandler::WriteFile makes next, or "idle"
  text,       \* the table being written, NoFile when none is
  handle,     \* TRUE while a handle to the file is open for writing
  faults,     \* how many nn::fs calls have failed (bounded by MaxFaults)
  \* history, not in the program:
  pending,    \* the object as it was when the save in flight began
  saved,      \* the object as it was when the last WriteFile that returned 0
              \* began, NoFile before the first one
  intact      \* no save has failed or been cut off since

program == <<power, save_file>>
file    == <<disk, writer, text, handle>>
history == <<pending, saved, intact>>
vars    == <<program, file, faults, history>>

Init ==
  /\ power = "off"
  /\ save_file = DefaultConfig
  /\ disk = NoFile
  /\ writer = "idle"
  /\ text = NoFile
  /\ handle = FALSE
  /\ faults = 0
  /\ pending = NoFile
  /\ saved = NoFile
  /\ intact = TRUE

\* A step in which the nn::fs call succeeds, and one in which it fails.
Works == UNCHANGED faults
Fails == faults < MaxFaults /\ faults' = faults + 1

-----------------------------------------------------------------------------
\* MountSD and FileExists: the file is not there, or either call fails.
FileMissing ==
  \/ disk = NoFile /\ Works
  \/ disk # NoFile /\ Fails

\* ReadFile leaves its argument empty as one of its calls fails, or what it reads
\* does not parse.
NothingRead ==
  \/ disk = Torn /\ Works
  \/ disk # NoFile /\ Fails

(***************************************************************************)
(* MainInitHook.  The result of MountSD is ignored, and FileExists takes   *)
(* every failure for a missing file.  The result of ReadFile is ignored    *)
(* too: the empty string it leaves parses to an empty table, and           *)
(* from_table dereferences the null pointer of the first missing entry.    *)
(***************************************************************************)
BootLoad ==
  /\ power = "off"
  /\ disk \in Table
  /\ Works
  /\ power' = "running"
  /\ save_file' = FromTable(DefaultConfig, disk)
  /\ UNCHANGED <<file, history>>

BootFresh ==
  /\ power = "off"
  /\ FileMissing
  /\ \E s \in FreshSeeds : save_file' = FreshConfig(s)
  /\ power' = "running"
  /\ UNCHANGED <<file, history>>

BootAbort ==
  /\ power = "off"
  /\ NothingRead
  /\ power' = "aborted"
  /\ UNCHANGED <<save_file, file, history>>

-----------------------------------------------------------------------------
\* Everything that writes to save_file while the game runs: the natives of the
\* settings script, SettingsMenuTrigger, and OnBattleResult.
Change ==
  /\ power = "running"
  /\ \/ \E f \in Toggled : save_file' = ToggleIn(save_file, f)
     \/ \E d \in Digits : save_file' = AppendDigit(save_file, d)
     \/ save_file' = ClearSeed(save_file)
     \/ /\ save_file.settings_menu_state < 2
        /\ save_file' = AdvanceMenu(save_file)
     \/ \E z \in Zones : save_file' = ConsumeZone(save_file, z)
  /\ UNCHANGED <<power, file, faults, history>>

-----------------------------------------------------------------------------
(***************************************************************************)
(* SaveSaveFile, up to the call of WriteFile: the object becomes text.     *)
(***************************************************************************)
SaveSaveFile ==
  /\ power = "running"
  /\ writer = "idle"
  /\ text' = ToTable(save_file)
  /\ pending' = save_file
  /\ writer' = "FileExists"
  /\ intact' = FALSE
  /\ UNCHANGED <<program, disk, handle, faults, saved>>

\* FileExists of a WriteFile that creates without deleting first.
FileExistsIgnored ==
  /\ writer = "FileExists"
  /\ \/ Works \/ Fails
  /\ writer' = "CreateFile"
  /\ UNCHANGED <<program, disk, text, handle, history>>

\* WriteFile: GetEntryType, then DeleteFile only if the file was found.
FileExists ==
  /\ writer = "FileExists"
  /\ \/ Works /\ writer' = IF disk = NoFile THEN "CreateFile" ELSE "DeleteFile"
     \/ Fails /\ writer' = "CreateFile"
  /\ UNCHANGED <<program, disk, text, handle, history>>

\* The result is ignored.  A file that is still open cannot be deleted.
DeleteFile ==
  /\ writer = "DeleteFile"
  /\ \/ ~ handle /\ Works /\ disk' = NoFile
     \/ handle /\ Works /\ UNCHANGED disk
     \/ Fails /\ UNCHANGED disk
  /\ writer' = "CreateFile"
  /\ UNCHANGED <<program, text, handle, history>>

\* WriteFile returns, early (R_TRY) or not, and SaveSaveFile ignores what it returns.
GiveUp == writer' = "idle" /\ text' = NoFile /\ pending' = NoFile

\* Creates the file with its final size; nothing is written yet.
CreateFile ==
  /\ writer = "CreateFile"
  /\ \/ disk = NoFile /\ Works /\ disk' = Torn /\ writer' = "OpenFile" /\ UNCHANGED <<text, pending>>
     \/ disk # NoFile /\ Works /\ GiveUp /\ UNCHANGED disk
     \/ Fails /\ GiveUp /\ UNCHANGED disk
  /\ UNCHANGED <<program, handle, saved, intact>>

OpenFile ==
  /\ writer = "OpenFile"
  /\ \/ Works /\ handle' = TRUE /\ writer' = "WriteFile" /\ UNCHANGED <<text, pending>>
     \/ Fails /\ GiveUp /\ UNCHANGED handle
  /\ UNCHANGED <<program, disk, saved, intact>>

\* WriteFile serialising the object only when the file is open.
WriteFileLate ==
  /\ writer = "WriteFile"
  /\ Works
  /\ disk' = ToTable(save_file)
  /\ writer' = "CloseFile"
  /\ saved' = pending
  /\ intact' = TRUE
  /\ UNCHANGED <<program, text, handle, pending>>

\* Written and flushed.  On failure R_TRY returns without closing the handle.
WriteFile ==
  /\ writer = "WriteFile"
  /\ \/ /\ Works
        /\ disk' = text
        /\ writer' = "CloseFile"
        /\ saved' = pending
        /\ intact' = TRUE
        /\ UNCHANGED <<text, pending>>
     \/ /\ Fails
        /\ GiveUp
        /\ UNCHANGED <<disk, saved, intact>>
  /\ UNCHANGED <<program, handle>>

CloseFile ==
  /\ writer = "CloseFile"
  /\ GiveUp
  /\ handle' = FALSE
  /\ UNCHANGED <<program, disk, faults, saved, intact>>

Writing ==
  FileExists \/ DeleteFile \/ CreateFile \/ OpenFile \/ WriteFile \/ CloseFile

-----------------------------------------------------------------------------
\* The console is switched off, at any point; only the file survives.
PowerOff ==
  /\ power # "off"
  /\ power' = "off"
  /\ save_file' = DefaultConfig
  /\ GiveUp
  /\ handle' = FALSE
  /\ UNCHANGED <<disk, faults, saved, intact>>

\* The README's way to start over: the player deletes the file.
DeleteByPlayer ==
  /\ power = "off"
  /\ disk' = NoFile
  /\ saved' = NoFile
  /\ intact' = TRUE
  /\ UNCHANGED <<program, writer, text, handle, faults, pending>>

Next ==
  \/ BootLoad \/ BootFresh \/ BootAbort
  \/ Change \/ SaveSaveFile \/ Writing
  \/ PowerOff \/ DeleteByPlayer

\* A save that has begun goes on while the power is on: the hook is inline in
\* the game's own save.
Spec == Init /\ [][Next]_vars /\ WF_vars(Writing)

-----------------------------------------------------------------------------
Writers == {"idle", "FileExists", "DeleteFile", "CreateFile", "OpenFile",
            "WriteFile", "CloseFile"}

TypeOK ==
  /\ power \in {"off", "running", "aborted"}
  /\ save_file \in Config
  /\ disk \in Table \cup {NoFile, Torn}
  /\ writer \in Writers
  /\ text \in Table \cup {NoFile}
  /\ handle \in BOOLEAN
  /\ faults \in 0 .. MaxFaults
  /\ pending \in Config \cup {NoFile}
  /\ saved \in Config \cup {NoFile}
  /\ intact \in BOOLEAN

\* No option of the run or of the file is on under a master that is off, whatever
\* is toggled, saved and loaded in whatever order (ToggleSetting masks, from_table
\* does not).
OptionsMasked ==
  /\ Masked(save_file.flags)
  /\ disk \in Table => Masked(disk.flags)

\* FileHandler::WriteFile never leaves a file that no completed save wrote: what
\* is on the card is the last completed save, or unreadable, or gone; and it is the
\* last completed save if no save since then failed or was cut off.
DiskIsLastSave ==
  /\ disk \in Table => saved # NoFile /\ disk = ToTable(saved)
  /\ intact => disk = IF saved = NoFile THEN NoFile ELSE ToTable(saved)

\* A boot without a failing call brings back exactly the object of the last completed
\* save (to_table and from_table lose nothing), unless a later save was hurt.
RestartRestores ==
  [][ power = "off" /\ power' = "running" /\ faults' = faults
        => \/ save_file' = saved
           \/ /\ saved = NoFile \/ ~ intact
              /\ \E s \in FreshSeeds : save_file' = FreshConfig(s) ]_vars

\* A save that begins when the calls have stopped failing and no handle was left open
\* by an earlier failure completes, unless the power goes: the DeleteFile in
\* WriteFile is what lets CreateFile succeed again.
HealthySaveCompletes ==
  (writer = "FileExists" /\ faults = MaxFaults /\ ~ handle)
    ~> (intact \/ power = "off")

\* The save file implements the abstract store.
Store == INSTANCE ConfigStore WITH
  Configs   <- Config,
  FreshOnes <- { FreshConfig(s) : s \in FreshSeeds },
  Nothing   <- NoFile,
  Broken    <- Torn,
  live      <- IF power = "running" THEN save_file ELSE NoFile,
  pending   <- pending,
  stored    <- IF disk \in Table THEN FromTable(DefaultConfig, disk) ELSE disk

ImplementsConfigStore == Store!Spec
=============================================================================
