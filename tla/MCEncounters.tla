---------------------------- MODULE MCEncounters ----------------------------
(* Encounters for TLC: three species of which one has two forms and one form *)
(* is not in the game, four moves of which three can be used, two to a set.  *)
(* The wild and trainer settings vary with the others off, and the others    *)
(* with those off.                                                           *)
EXTENDS Encounters

Forms == <<1, 2, 1>>
Known == {<<1, 0>>, <<2, 1>>, <<3, 0>>}
Items == <<7, 8, 9>>
Machines == <<328>>

MCSettings ==
  { s \in Options : ~ s.scripted /\ ~ s.gift /\ ~ s.model }
  \cup { s \in Options : ~ s.wild /\ ~ s.wild_boost /\ ~ s.trainer /\ ~ s.trainer_boost }

\* Sequences of numbers long enough for every loop to find what it looks for.
Sequence1 == <<1, 3, 0, 2, 2, 5, 1, 0>>
Sequence2 == <<6, 0, 2, 3, 1, 4, 1, 1, 2>>
Sequence3 == <<2, 2, 1, 0, 7, 3, 0>>
MCNumbers == {Sequence1, Sequence3}

\* The hashes of gifts and events, like species and form, are two halves of an integer.
Gift1 == <<101, 0>>
Gift2 == <<102, 0>>
Event1 == <<103, 0>>
MCGifts == {Gift1, Gift2}
MCEvents == {Event1}

Number(name) ==
  CASE name[1] = "symbol" -> 1 [] name[1] = "hidden" -> 2 [] name[1] = "gimmick" -> 3
    [] name[1] = "trainer" -> 5 [] OTHER -> name[2][1]
Pick(n) == CASE n % 3 = 0 -> Sequence1 [] n % 3 = 1 -> Sequence2 [] OTHER -> Sequence3
MCHashings == { [name \in Names |-> Pick(seed * Number(name) + seed)] : seed \in 1 .. 2 }

Row(low, high) == [minimum_level |-> low, maximum_level |-> high,
                   mons |-> <<<<1, 0>>, <<3, 0>>>>]
MCTables == [kind \in {"symbol", "hidden"} |-> [a \in Areas |-> <<Row(3, 5), Row(60, 62)>>]]

Someone(level, mon) == [level |-> level, mon |-> mon, moves |-> None]
MCTeams == [t \in Trainers |->
  [size |-> 4, members |-> <<Someone(60, <<1, 0>>), Someone(0, None), Someone(65, <<3, 0>>),
                             Someone(100, <<2, 1>>), Someone(12, <<1, 0>>)>>]]

MCGiftMon == [h \in Gifts |-> <<1, 0>>]
MCEventMon == [h \in Events |-> <<3, 0>>]
MCLook == [o \in Objects \cup {Encounter} |->
             IF o = "sobble" THEN <<1, 0>> ELSE IF o = Encounter THEN <<2, 1>> ELSE <<3, 0>>]
MCMap == [o \in {"sobble", "fog"} |-> IF o = "sobble" THEN Gift1 ELSE Event1]
=============================================================================
