---------------------------- MODULE MCEvolution ----------------------------
(* Evolution for TLC: six species.  karrablast evolves by a trade for        *)
(* shelmet, haunter by a trade, onix by a trade with an item and eevee in    *)
(* two ways; with their types asked for, gengar has no other species to      *)
(* become and golem is of another growth.                                    *)
EXTENDS Evolution

CONSTANTS karrablast, haunter, onix, eevee, gengar, golem

ASSUME Species = {karrablast, haunter, onix, eevee, gengar, golem}

MediumFast == {karrablast, onix, eevee}
Types1 == [s \in Species |-> CASE s \in {haunter, gengar} -> "ghost"
                               [] s \in {onix, golem} -> "rock"
                               [] s = karrablast -> "bug" [] OTHER -> "normal"]
Types2 == [s \in Species |-> CASE s \in {haunter, gengar} -> "poison"
                               [] s = onix -> "bug" [] s = golem -> "normal"
                               [] s = karrablast -> "bug" [] OTHER -> "normal"]
Growths == [s \in Species |-> IF s \in MediumFast THEN "fast" ELSE "slow"]

Method(m, s, l) == [method |-> m, species |-> s, level |-> l]
Empty == Method("None", NoSpecies, 0)
One(m) == [k \in 0 .. 2 |-> IF k = 0 THEN m ELSE Empty]

Sets == [s \in Species |->
  CASE s = karrablast -> { One(Method("TradeShelmetKarrablast", eevee, 0)) }
    [] s = haunter -> { One(Method("Trade", gengar, 0)) }
    [] s = onix    -> { One(Method("TradeHeldItem", golem, 0)) }
    [] s = eevee   -> { [k \in 0 .. 2 |-> IF k = 0 THEN Method("LevelUp", onix, 20)
                                          ELSE IF k = 2 THEN Method("Trade", golem, 0)
                                          ELSE Empty] }
    [] s = gengar  -> { One(Empty) }
    [] OTHER       -> { One(Empty), One(Method("LevelUp", haunter, 20)) }]
=============================================================================
