----------------------------- MODULE MCGameData -----------------------------
(* GameData for TLC: every learnset of up to two moves at level 1 or 7 and   *)
(* some longer ones in an array of six, three species with the stats of the  *)
(* game, the tables of items of the game, and three gift TMs of which two    *)
(* share a place of their scripts; the number that RandDouble takes for 1 is *)
(* 27, which is drawn and is the place of a gift's old TM in their table.    *)
EXTENDS GameData, Items

Forms == <<1>>
Known == {<<1, 0>>}

AllOf(b) == [learnset |-> b, personal |-> b, filter_shop |-> b, item |-> b, gift_tms |-> b]
MCSettings == {AllOf(TRUE), AllOf(FALSE), [AllOf(TRUE) EXCEPT !.filter_shop = FALSE]}

\* Numbers that find a usable move; some of them give weights of 1.
Sequence1 == <<27, 3, 0, 2, 2, 5, 1, 0>>
Sequence2 == <<6, 0, 2, 3, 1, 4, 1, 1, 2>>
Sequence3 == <<27, 0, 0, 1, 2, 3, 0, 0, 0, 1, 2, 5>>
Sequence4 == <<2, 27, 27, 27, 1, 0, 3>>

MCLearnsets ==
  [s \in UNION { [1 .. n -> {1, 7}] : n \in 0 .. 2 }
          \cup {<<1, 1, 7>>, <<1, 7, 7, 7>>, <<1, 7, 7, 7, 7, 7>>} |-> s]
MCBaseStats == [s \in {1, 292, 149} |->
  CASE s = 292 -> <<1, 90, 45, 30, 30, 40>>
    [] s = 149 -> <<91, 134, 95, 100, 100, 80>>
    [] OTHER   -> <<45, 49, 49, 65, 65, 45>>]

MCShops == [s \in {"mart", "herbs", "closed"} |->
  CASE s = "mart" -> <<16, 17, 2, 851>> [] s = "herbs" -> <<34, 35>> [] OTHER -> <<>>]
MCBalls == [h \in {"potion", "tm"} |-> IF h = "tm" THEN 404 ELSE 17]

Row(identifier, cip, old, arg) ==
  [identifier |-> identifier, cip |-> cip, old |-> old, arg |-> arg]
MCIdentifiers ==
  << Row("swift", 5, 367, 0), Row("swift", 6, 367, 2),
     Row("hex", 1, 404, 0), Row("hex", 3, 404, 0),
     Row("icy_wind", 1, 354, 0), Row("icy_wind", 4, 354, 0) >>

Call(cip, count, stack) == [cip |-> cip, count |-> count, stack |-> stack]
MCCalls == { Call(5, 1, <<367, 367>>), Call(6, 3, <<367, 0, 367>>), Call(6, 1, <<5, 0, 367>>),
             Call(1, 1, <<404>>), Call(3, 2, <<404, 404>>), Call(1, 1, <<354>>) }

Number(name) ==
  CASE name[1] = "learnset" -> Len(name[2]) [] name[1] = "personal_total" -> name[2]
    [] name[2] = "hex" -> 0 [] name[2] = "icy_wind" -> 1 [] OTHER -> 2
Pick(n) == CASE n % 4 = 0 -> Sequence1 [] n % 4 = 1 -> Sequence2
             [] n % 4 = 2 -> Sequence3 [] OTHER -> Sequence4
MCHashings == { [name \in Names |-> Pick(Number(name) + seed)] : seed \in 0 .. 1 }
=============================================================================
