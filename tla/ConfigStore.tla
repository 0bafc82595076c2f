----------------------------- MODULE ConfigStore -----------------------------
(***************************************************************************)
(* What the save file promises, without a file: a run has a live           *)
(* configuration, at most one save of it in flight and one stored          *)
(* configuration.  The stored configuration changes only while a save is   *)
(* in flight, and then only to the configuration that was live when that   *)
(* save began, or to nothing, or to a broken one (the replacement is not   *)
(* atomic).  A run starts from the stored configuration, from a fresh one, *)
(* or not at all.                                                          *)
(***************************************************************************)
CONSTANTS Configs,    \* every configuration
          FreshOnes,  \* the configurations a run without a save file starts with
          Nothing,    \* no stored configuration, no save in flight, no run
          Broken      \* a stored configuration that cannot be loaded

VARIABLES live,       \* the configuration of the run, or Nothing
          pending,    \* the configuration being saved, or Nothing
          stored      \* the configuration the next run finds, or Nothing or Broken

storeVars == <<live, pending, stored>>

Init ==
  /\ live = Nothing
  /\ pending = Nothing
  /\ stored = Nothing

Start ==
  /\ live = Nothing
  /\ live' \in FreshOnes \cup (IF stored \in Configs THEN {stored} ELSE {})
  /\ UNCHANGED <<pending, stored>>

Change ==
  /\ live \in Configs
  /\ live' \in Configs
  /\ UNCHANGED <<pending, stored>>

BeginSave ==
  /\ live \in Configs
  /\ pending = Nothing
  /\ pending' = live
  /\ UNCHANGED <<live, stored>>

\* One step of the replacement: lose the old configuration, break it, or commit.
Replace ==
  /\ pending \in Configs
  /\ stored' \in {Nothing, Broken, pending}
  /\ UNCHANGED <<live, pending>>

EndSave ==
  /\ pending \in Configs
  /\ pending' = Nothing
  /\ UNCHANGED <<live, stored>>

\* Power off, or the user's own deletion of the file while no run is on.
Stop ==
  /\ live' = Nothing
  /\ pending' = Nothing
  /\ UNCHANGED stored

Forget ==
  /\ live = Nothing
  /\ stored' = Nothing
  /\ UNCHANGED <<live, pending>>

Next == Start \/ Change \/ BeginSave \/ Replace \/ EndSave \/ Stop \/ Forget

Spec == Init /\ [][Next]_storeVars
=============================================================================
