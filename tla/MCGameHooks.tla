---------------------------- MODULE MCGameHooks ----------------------------
(* GameHooks for TLC: the dialog's script and one of the game's, a message of *)
(* every kind, a cut scene of every kind.                                    *)
EXTENDS GameHooks

MCShows == [option_wild_rng |-> "wild_rng.enabled"]
MCImports == [settings_dialog |-> {"AddNewSeedDigit", "ResetSeed", "ToggleSetting", "ABKeyWait_"},
              story |-> {"ABKeyWait_"}]
MCSequences == "no file" :> 1 @@ "title" :> 1 @@ "evolution" :> 1 @@ "demo" :> 2
=============================================================================
