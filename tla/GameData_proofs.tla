-------------------------- MODULE GameData_proofs --------------------------
(***************************************************************************)
(* Proofs about GameData and Evolution: for any tables of the game, any    *)
(* settings, any calls of its scripts and whatever a generator draws.      *)
(***************************************************************************)
EXTENDS GameData, Evolution, Rng_proofs, TLAPS

FixedInv == save_file \in Settings /\ hashing \in Hashings

LEMMA Fixed == Spec => []FixedInv
<1>1. Init => FixedInv
  BY DEF Init, FixedInv
<1>2. [Next]_vars => UNCHANGED <<save_file, hashing>>
  BY DEF Next, vars, RandomLearnsetHook, FetchPersonalInfoHook, FilterShopItems,
         RandomizeSparkleItem, RandomizeBallItem, OnAmxCallback
<1>3. FixedInv /\ UNCHANGED <<save_file, hashing>> => FixedInv'
  BY DEF FixedInv
<1> QED BY <1>1, <1>2, <1>3, PTL DEF Spec

LEMMA SeedWorks ==
  ASSUME FixedInv, NEW name \in Names
  PROVE  Works(NewRandomGenerator(name))
<1>1. LoopsEnd(hashing[name])
  BY GameDataConstants DEF FixedInv
<1> QED BY <1>1, GeneratorWorks DEF NewRandomGenerator

\* As many draws as there are of one kind, each of one set.
Repeated(draw, n, once) == draw = [k \in 1 .. n |-> once]

LEMMA DrawsAre ==
  ASSUME NEW g, NEW n \in Nat, NEW V, NEW once, NEW draw, g \in Places(g),
         Repeated(draw, n, once),
         \A h \in Places(g) : once[h] \in [val : V, gen : Places(g)]
  PROVE  /\ Draws(g, draw).val \in [1 .. n -> V]
         /\ Draws(g, draw).gen \in Places(g)
<1>1. Len(draw) = n
  BY DEF Repeated
<1> PICK q : InTurn(q, g, draw, n)
  BY <1>1, DrawsInTurn
<1>q. /\ GoesThrough(q, g, draw, n)
      /\ Draws(g, draw) = [val |-> [k \in 1 .. n |-> draw[k][q[k - 1]].val], gen |-> q[n]]
  BY DEF InTurn
<1> USE <1>q
<1>2. \A k \in 1 .. n : \A h \in Places(g) : draw[k][h] \in [val : V, gen : Places(g)]
  BY DEF Repeated
<1>3. \A k \in 0 .. n : q[k] \in Places(g)
  <2>1. AllDraw(n, Places(g), draw)
    BY <1>2 DEF AllDraw
  <2> QED BY <2>1, DrawsStay
<1>4. ASSUME NEW k \in 1 .. n PROVE draw[k][q[k - 1]].val \in V
  <2>1. q[k - 1] \in Places(g)
    BY <1>3
  <2>2. draw[k][q[k - 1]] \in [val : V, gen : Places(g)]
    BY <1>2, <2>1
  <2> QED BY <2>2
<1>5. q[n] \in Places(g)
  BY <1>3
<1> QED BY <1>4, <1>5

-----------------------------------------------------------------------------
(* Learnsets *)

LEMMA OnesAre ==
  ASSUME NEW levels \in Seq(Nat)
  PROVE  /\ IsFiniteSet({ k \in DOMAIN levels : levels[k] = 1 })
         /\ LevelOnes(levels) \in Nat
<1> DEFINE ones == { k \in DOMAIN levels : levels[k] = 1 }
<1>1. IsFiniteSet(DOMAIN levels)
  <2>1. DOMAIN levels = 1 .. Len(levels) /\ Len(levels) \in Nat
    OBVIOUS
  <2>2. IsFiniteSet(1 .. Len(levels))
    BY <2>1, FS_Interval
  <2> QED BY <2>1, <2>2
<1>2. ones \in SUBSET DOMAIN levels
  OBVIOUS
<1> HIDE DEF ones
<1>3. IsFiniteSet(ones)
  BY <1>1, <1>2, FS_Subset
<1>4. Cardinality(ones) \in Nat
  BY <1>3, FS_CardinalityType
<1> QED BY <1>3, <1>4 DEF ones, LevelOnes

\* A learnset that has room for four more moves has four at level 1 when the others are
\* added, and the array has room for them.
LEMMA AddedMakesFour ==
  ASSUME NEW levels \in Seq(Nat), Len(levels) <= Cap
  PROVE  /\ Added(levels) \in Nat /\ Len(levels) + Added(levels) <= Cap
         /\ levels # <<>> /\ Len(levels) + 4 <= Cap =>
              Added(levels) + LevelOnes(levels) >= 4
<1>1. LevelOnes(levels) \in Nat /\ Len(levels) \in Nat /\ Cap \in Nat
  <2>1. LevelOnes(levels) \in Nat
    BY OnesAre
  <2>2. Cap \in Nat
    BY GameDataConstants
  <2> QED BY <2>1, <2>2
<1> QED BY <1>1 DEF Added

LearnsetWhole(o) ==
  LET levels == Learnsets[o.species]
      entries == { k \in DOMAIN o.items : o.items[k] # End }
  IN  /\ entries = 1 .. o.count
      /\ \A k \in DOMAIN levels : o.items[k].level = levels[k]
      /\ save_file.learnset =>
           /\ \A k \in entries : o.items[k].move \in Usable
           /\ levels # <<>> /\ Len(levels) + 4 <= Cap =>
                Cardinality({ k \in entries : o.items[k].level = 1 }) >= 4

LEMMA LearnsetIsWhole ==
  ASSUME FixedInv, NEW s \in DOMAIN Learnsets, RandomLearnsetHook(s)
  PROVE  out'.kind = "learnset" /\ LearnsetWhole(out')
<1> DEFINE levels == Learnsets[s]
           added == IF save_file.learnset THEN Added(levels) ELSE 0
           count == Len(levels) + added
           g == NewRandomGenerator(<<"learnset", s>>)
           draw == [k \in 1 .. count |-> ValidMoveIds(g)]
           moves == Draws(g, draw).val
           items == [k \in 1 .. Cap |->
                       IF k > count THEN End
                       ELSE [move  |-> IF save_file.learnset THEN moves[k] ELSE 0,
                             level |-> IF k <= Len(levels) THEN levels[k] ELSE 1]]
<1>1. out' = [kind |-> "learnset", species |-> s, count |-> count, items |-> items]
  BY DEF RandomLearnsetHook
<1>2. levels \in Seq(Nat) /\ Len(levels) <= Cap /\ Cap \in Nat
  BY GameDataConstants
<1>3. Works(g)
  BY SeedWorks DEF Names
<1> HIDE DEF g, levels
<1>4. /\ added \in Nat /\ Len(levels) \in Nat /\ count \in Nat /\ count <= Cap
      /\ DOMAIN levels = 1 .. Len(levels)
      /\ save_file.learnset /\ levels # <<>> /\ Len(levels) + 4 <= Cap =>
           added + LevelOnes(levels) >= 4
  <2>1. /\ Added(levels) \in Nat /\ Len(levels) + Added(levels) <= Cap
        /\ levels # <<>> /\ Len(levels) + 4 <= Cap => Added(levels) + LevelOnes(levels) >= 4
    BY <1>2, AddedMakesFour
  <2> QED BY <1>2, <2>1
<1>5. count = Len(levels) + added
  OBVIOUS
<1> HIDE DEF added, count
<1>6. moves \in [1 .. count -> Usable]
  <2>1. \A h \in Places(g) : ValidMoveIds(g)[h] \in [val : Usable, gen : Places(g)]
    BY <1>3, ValidMoveIdsDraw
  <2>2. g \in Places(g)
    BY <1>3 DEF Works
  <2> HIDE DEF draw
  <2>3. draw = [k \in 1 .. count |-> ValidMoveIds(g)]
    BY DEF draw
  <2>4. Repeated(draw, count, ValidMoveIds(g))
    BY <2>3 DEF Repeated
  <2> QED BY <1>4, <2>1, <2>2, <2>4, DrawsAre
<1> HIDE DEF moves
<1>7. \A k \in 1 .. count : /\ k \in 1 .. Cap /\ moves[k] \in Usable /\ moves[k] \in Nat
                            /\ k \in Nat
  <2>1. \A x \in Usable : x \in Nat
    BY RngConstants
  <2>2. \A k \in 1 .. count : k \in 1 .. Cap /\ k \in Nat
    BY <1>2, <1>4
  <2> QED BY <1>6, <2>1, <2>2
<1>8. ASSUME NEW k \in 1 .. count
      PROVE  /\ items[k].move = IF save_file.learnset THEN moves[k] ELSE 0
             /\ items[k].level = IF k <= Len(levels) THEN levels[k] ELSE 1
             /\ items[k] # End
  <2>1. items[k] = [move  |-> IF save_file.learnset THEN moves[k] ELSE 0,
                    level |-> IF k <= Len(levels) THEN levels[k] ELSE 1]
    BY <1>4, <1>7
  <2>2. End.move = -1
    BY DEF End
  <2>3. items[k].move \in Nat
    BY <1>7, <2>1
  <2> HIDE DEF items
  <2> QED BY <2>1, <2>2, <2>3
<1>9. DOMAIN items = 1 .. Cap /\ \A k \in 1 .. Cap : k \notin 1 .. count => items[k] = End
  BY <1>2, <1>4
<1> HIDE DEF items
<1>10. { k \in DOMAIN items : items[k] # End } = 1 .. count
  BY <1>7, <1>8, <1>9
<1>11. \A k \in DOMAIN levels : k \in 1 .. count /\ items[k].level = levels[k]
  BY <1>4, <1>5, <1>8
<1>12. ASSUME save_file.learnset, levels # <<>>, Len(levels) + 4 <= Cap
       PROVE  Cardinality({ k \in 1 .. count : items[k].level = 1 }) >= 4
  <2> DEFINE all == { k \in 1 .. count : items[k].level = 1 }
             ones == { k \in DOMAIN levels : levels[k] = 1 }
             new == Len(levels) + 1 .. count
  <2>1. IsFiniteSet(ones) /\ Cardinality(ones) = LevelOnes(levels) /\ LevelOnes(levels) \in Nat
    BY <1>2, OnesAre DEF LevelOnes
  <2>2. IsFiniteSet(new) /\ Cardinality(new) = added
    <3>1. PICK a \in Int : a = Len(levels) + 1
      BY <1>4
    <3>2. PICK b \in Int : b = count
      BY <1>4
    <3>3. IsFiniteSet(a .. b) /\ Cardinality(a .. b) = IF a > b THEN 0 ELSE b - a + 1
      BY FS_Interval
    <3>4. b - a + 1 = added /\ (a > b => added = 0)
      BY <1>4, <1>5, <3>1, <3>2
    <3>5. IsFiniteSet(a .. b) /\ Cardinality(a .. b) = added
      BY <3>3, <3>4
    <3>6. new = a .. b
      BY <3>1, <3>2
    <3> QED BY <3>5, <3>6
  <2>3. ones \cap new = {}
    BY <1>4
  <2>4. ones \cup new \subseteq all
    <3>1. ones \subseteq all
      BY <1>11
    <3>2. ASSUME NEW k \in new PROVE k \in 1 .. count /\ items[k].level = 1
      <4>1. k \in 1 .. count /\ ~ (k <= Len(levels))
        BY <1>4
      <4> QED BY <1>8, <4>1
    <3> QED BY <3>1, <3>2
  <2>5. IsFiniteSet(all)
    <3>1. IsFiniteSet(1 .. count) /\ all \in SUBSET (1 .. count)
      BY <1>4, FS_Interval
    <3> HIDE DEF all
    <3> QED BY <3>1, FS_Subset
  <2> HIDE DEF all, ones, new
  <2>6. Cardinality(ones \cup new) = LevelOnes(levels) + added
    <3>1. Cardinality(ones \cap new) = 0
      BY <2>3, FS_EmptySet
    <3>2. Cardinality(ones \cup new) = Cardinality(ones) + Cardinality(new) - Cardinality(ones \cap new)
      BY <2>1, <2>2, FS_Union
    <3> QED BY <1>4, <2>1, <2>2, <3>1, <3>2
  <2>7. Cardinality(ones \cup new) <= Cardinality(all)
    BY <2>4, <2>5, FS_Subset
  <2>8. Cardinality(all) \in Nat
    BY <2>5, FS_CardinalityType
  <2>9. LevelOnes(levels) + added >= 4
    BY <1>4, <1>12, <2>1
  <2>10. Cardinality(all) >= 4
    BY <1>4, <2>1, <2>6, <2>7, <2>8, <2>9
  <2> QED BY <2>10 DEF all
<1>13. out'.kind = "learnset" /\ out'.species = s /\ out'.count = count /\ out'.items = items
  BY <1>1
<1>14. save_file.learnset => \A k \in 1 .. count : items[k].move \in Usable
  BY <1>7, <1>8
<1>15. LearnsetWhole(out')
  BY <1>10, <1>11, <1>12, <1>13, <1>14 DEF LearnsetWhole, levels
<1> QED BY <1>13, <1>15

-----------------------------------------------------------------------------
(* Stats *)

LEMMA TotalIs ==
  ASSUME NEW w \in [1 .. 6 -> Nat]
  PROVE  Total(w) = ((((w[1] + w[2]) + w[3]) + w[4]) + w[5]) + w[6]
<1> DEFINE literally(f) == f = [k \in 0 .. Len(w) |-> IF k = 0 THEN 0 ELSE f[k - 1] + w[k]]
           sums == [k \in 0 .. 6 |->
                      CASE k = 0 -> 0
                        [] k = 1 -> w[1]
                        [] k = 2 -> w[1] + w[2]
                        [] k = 3 -> (w[1] + w[2]) + w[3]
                        [] k = 4 -> ((w[1] + w[2]) + w[3]) + w[4]
                        [] k = 5 -> (((w[1] + w[2]) + w[3]) + w[4]) + w[5]
                        [] k = 6 -> ((((w[1] + w[2]) + w[3]) + w[4]) + w[5]) + w[6]]
           first == CHOOSE f : literally(f)
<1>1. Total(w) = first[Len(w)]
  BY DEF Total
<1>2. Len(w) = 6
  OBVIOUS
<1>3. /\ w[1] \in Nat /\ w[2] \in Nat /\ w[3] \in Nat
      /\ w[4] \in Nat /\ w[5] \in Nat /\ w[6] \in Nat
  OBVIOUS
<1>4. \A k \in 0 .. 6 : sums[k] = IF k = 0 THEN 0 ELSE sums[k - 1] + w[k]
  <2> SUFFICES ASSUME NEW k \in 0 .. 6
               PROVE  sums[k] = IF k = 0 THEN 0 ELSE sums[k - 1] + w[k]
    OBVIOUS
  <2>1. k = 0 \/ k = 1 \/ k = 2 \/ k = 3 \/ k = 4 \/ k = 5 \/ k = 6
    OBVIOUS
  <2>2. sums[0] = 0 /\ sums[1] = w[1] /\ sums[2] = w[1] + w[2] /\ sums[3] = (w[1] + w[2]) + w[3]
    OBVIOUS
  <2>3. /\ sums[4] = ((w[1] + w[2]) + w[3]) + w[4]
        /\ sums[5] = (((w[1] + w[2]) + w[3]) + w[4]) + w[5]
        /\ sums[6] = ((((w[1] + w[2]) + w[3]) + w[4]) + w[5]) + w[6]
    OBVIOUS
  <2> HIDE DEF sums
  <2> QED BY <1>3, <2>1, <2>2, <2>3
<1>5. DOMAIN sums = 0 .. 6 /\ sums = [k \in 0 .. 6 |-> sums[k]]
  OBVIOUS
<1>6. sums[6] = ((((w[1] + w[2]) + w[3]) + w[4]) + w[5]) + w[6]
  OBVIOUS
<1> HIDE DEF sums
<1>7. literally(sums)
  BY <1>2, <1>4, <1>5
<1> HIDE DEF literally
<1>8. literally(first)
  BY <1>7
<1> HIDE DEF first
<1>9. \A k \in 0 .. 6 : first[k] = IF k = 0 THEN 0 ELSE first[k - 1] + w[k]
  <2>1. first = [k \in 0 .. 6 |-> IF k = 0 THEN 0 ELSE first[k - 1] + w[k]]
    BY <1>2, <1>8 DEF literally
  <2> QED BY <2>1, Zenon
<1>10. /\ first[0] = 0 /\ first[1] = first[0] + w[1] /\ first[2] = first[1] + w[2]
       /\ first[3] = first[2] + w[3] /\ first[4] = first[3] + w[4]
       /\ first[5] = first[4] + w[5] /\ first[6] = first[5] + w[6]
  BY <1>9
<1> QED BY <1>1, <1>2, <1>3, <1>10

\* A share is at least 1, whatever there is to share.
LEMMA ShareIsPositive ==
  ASSUME NEW weight \in Nat, NEW total \in Nat, NEW bst \in Int
  PROVE  Share(weight, total, bst) \in Int /\ Share(weight, total, bst) >= 1
<1>1. CASE total = 0 \/ weight = 0
  BY <1>1 DEF Share
<1>2. CASE ~ (total = 0 \/ weight = 0)
  <2>1. PICK a \in Int : a = 2 * weight * bst + total
    OBVIOUS
  <2>2. PICK b \in Nat \ {0} : b = 2 * total
    BY <1>2
  <2>3. a \div b \in Int
    OBVIOUS
  <2>4. Share(weight, total, bst) = IF a \div b < 1 THEN 1 ELSE a \div b
    BY <1>2, <2>1, <2>2 DEF Share
  <2> QED BY <2>3, <2>4
<1> QED BY <1>1, <1>2

LEMMA StatsArePositive ==
  ASSUME NEW s \in DOMAIN BaseStats, NEW w \in [1 .. 6 -> Nat]
  PROVE  /\ \A k \in 1 .. 6 : StatsOf(s, w)[k] \in Int /\ StatsOf(s, w)[k] >= 1
         /\ s = Shedinja <=> StatsOf(s, w)[1] = 1
<1> DEFINE total == Total(w) - IF s = Shedinja THEN w[1] ELSE 0
           bst == Total(BaseStats[s]) - IF s = Shedinja THEN 51 ELSE 70
<1>1. total \in Nat
  <2>1. /\ w[1] \in Nat /\ w[2] \in Nat /\ w[3] \in Nat
        /\ w[4] \in Nat /\ w[5] \in Nat /\ w[6] \in Nat
    OBVIOUS
  <2>2. Total(w) = ((((w[1] + w[2]) + w[3]) + w[4]) + w[5]) + w[6]
    BY TotalIs
  <2> QED BY <2>1, <2>2
<1>2. bst \in Int
  <2> PICK b \in [1 .. 6 -> Nat] : b = BaseStats[s]
    BY GameDataConstants
  <2>1. /\ b[1] \in Nat /\ b[2] \in Nat /\ b[3] \in Nat
        /\ b[4] \in Nat /\ b[5] \in Nat /\ b[6] \in Nat
    OBVIOUS
  <2>2. Total(b) = ((((b[1] + b[2]) + b[3]) + b[4]) + b[5]) + b[6]
    BY TotalIs
  <2> QED BY <2>1, <2>2
<1> HIDE DEF total, bst
<1>3. \A k \in 1 .. 6 : Share(w[k], total, bst) \in Int /\ Share(w[k], total, bst) >= 1
  <2>1. \A k \in 1 .. 6 : w[k] \in Nat
    OBVIOUS
  <2> QED BY <1>1, <1>2, <2>1, ShareIsPositive
<1>4. StatsOf(s, w) =
        [k \in 1 .. 6 |-> IF k > 1 THEN Share(w[k], total, bst) + 10
                          ELSE IF s = Shedinja THEN 1 ELSE Share(w[1], total, bst) + 20]
  BY DEF StatsOf, total, bst
<1>5. ASSUME NEW k \in 1 .. 6 PROVE StatsOf(s, w)[k] \in Int /\ StatsOf(s, w)[k] >= 1
  <2>1. StatsOf(s, w)[k] = IF k > 1 THEN Share(w[k], total, bst) + 10
                           ELSE IF s = Shedinja THEN 1 ELSE Share(w[1], total, bst) + 20
    BY <1>4
  <2>2. /\ Share(w[k], total, bst) \in Int /\ Share(w[k], total, bst) >= 1
        /\ Share(w[1], total, bst) \in Int /\ Share(w[1], total, bst) >= 1
    BY <1>3
  <2> QED BY <2>1, <2>2
<1>6. StatsOf(s, w)[1] = IF s = Shedinja THEN 1 ELSE Share(w[1], total, bst) + 20
  BY <1>4
<1>7. Share(w[1], total, bst) + 20 # 1
  BY <1>3
<1>8. s = Shedinja <=> StatsOf(s, w)[1] = 1
  BY <1>6, <1>7
<1> QED BY <1>5, <1>8

LEMMA StatsDraw ==
  ASSUME NEW g, Works(g), NEW s, NEW h \in Places(g)
  PROVE  \E w \in [1 .. 6 -> Nat] : /\ Stats(g, s)[h].val = StatsOf(s, w)
                                    /\ Stats(g, s)[h].gen \in Places(g)
<1> DEFINE once == [p \in Places(h) |-> RandDouble(p)]
           draw == [k \in 1 .. 6 |-> [p \in Places(h) |-> RandDouble(p)]]
           weights == Draws(h, draw)
<1>1. Works(h) /\ Places(h) = Places(g) /\ h \in Places(h)
  BY StillWorks
<1>2. ASSUME NEW p \in Places(h) PROVE once[p] \in [val : Nat, gen : Places(h)]
  <2>1. Running(p) /\ Places(p) = Places(h)
    BY <1>1, StillWorks DEF Ready
  <2>2. operator(p).val \in Nat /\ operator(p).gen \in Places(h)
    BY <2>1, operatorDraws
  <2>3. PICK v \in Nat, q \in Places(h) : operator(p) = [val |-> v, gen |-> q]
    BY <2>2 DEF operator
  <2>4. PICK m \in Nat \ {0} : m = NumberMax
    BY GameDataConstants
  <2>5. v \div m \in Nat
    OBVIOUS
  <2>6. once[p] = [val |-> v \div m, gen |-> q]
    BY <2>3, <2>4 DEF RandDouble
  <2> QED BY <2>5, <2>6
<1>3. Repeated(draw, 6, once)
  BY DEF Repeated
<1> HIDE DEF once
<1>4. /\ Draws(h, draw).val \in [1 .. 6 -> Nat]
      /\ Draws(h, draw).gen \in Places(h)
  <2> HIDE DEF draw
  <2> QED BY <1>1, <1>2, <1>3, DrawsAre
<1>5. Stats(g, s)[h] = DrawStats(h, s)
  BY DEF Stats
<1>6. DrawStats(h, s) = [val |-> StatsOf(s, weights.val), gen |-> weights.gen]
  BY DEF DrawStats
<1> HIDE DEF weights, draw
<1> QED BY <1>1, <1>4, <1>5, <1>6 DEF weights

LEMMA RandStatsDraw ==
  ASSUME FixedInv, NEW s \in DOMAIN BaseStats,
         NEW g, g = NewRandomGenerator(<<"personal_total", s>>)
  PROVE  /\ RandStats(g, s).gen \in Places(g)
         /\ \A k \in 1 .. 6 : RandStats(g, s).val[k] \in 1 .. 255
         /\ s = Shedinja <=> RandStats(g, s).val[1] = 1
<1>1. Works(g) /\ Running(g)
  BY SeedWorks, StillWorks DEF Names, Works, Ready
<1>2. Ahead(g, Stats(g, s)) \cap InAByte # {}
  BY StatsLoopEnds DEF FixedInv, NewRandomGenerator
<1>3. IsDraw(g, Stats(g, s))
  <2>1. DOMAIN Stats(g, s) = Places(g)
    BY DEF Stats
  <2>2. \A h \in Places(g) : Stats(g, s)[h].gen \in Places(g)
    BY <1>1, StatsDraw
  <2> QED BY <2>1, <2>2 DEF IsDraw
<1>4. PICK h \in Places(g) : /\ RandStats(g, s) = Stats(g, s)[h]
                             /\ Stats(g, s)[h].val \in InAByte
  BY <1>1, <1>2, <1>3, UntilFinds DEF RandStats
<1>5. PICK w \in [1 .. 6 -> Nat] : /\ Stats(g, s)[h].val = StatsOf(s, w)
                                   /\ Stats(g, s)[h].gen \in Places(g)
  BY <1>1, StatsDraw
<1>6. /\ \A k \in 1 .. 6 : StatsOf(s, w)[k] \in Int /\ StatsOf(s, w)[k] >= 1
      /\ s = Shedinja <=> StatsOf(s, w)[1] = 1
  BY StatsArePositive
<1>7. StatsOf(s, w) \in [1 .. 6 -> 0 .. 255]
  BY <1>4, <1>5 DEF InAByte
<1>8. \A k \in 1 .. 6 : StatsOf(s, w)[k] \in 1 .. 255
  BY <1>6, <1>7
<1> QED BY <1>4, <1>5, <1>6, <1>8

-----------------------------------------------------------------------------
(* Shops *)

KeptUpTo(items, m, f) ==
  f = [k \in 0 .. m |->
         IF k = 0 THEN <<>>
         ELSE LET last == f[k - 1]
              IN  IF items[k] \in WHITELISTED_SHOP_ITEMS THEN Append(last, items[k]) ELSE last]

LEMMA KeptExists ==
  ASSUME NEW items, NEW n \in Nat
  PROVE  \E f : KeptUpTo(items, n, f)
<1> DEFINE S == { m \in Nat : \E f : KeptUpTo(items, m, f) }
           step(k, last) ==
             IF items[k] \in WHITELISTED_SHOP_ITEMS THEN Append(last, items[k]) ELSE last
<1>1. 0 \in S
  <2> DEFINE f0 == [k \in 0 .. 0 |-> <<>>]
  <2>1. KeptUpTo(items, 0, f0)
    BY DEF KeptUpTo
  <2> QED BY <2>1
<1>2. ASSUME NEW m \in Nat, m \in S PROVE m + 1 \in S
  <2> PICK f : KeptUpTo(items, m, f)
    BY <1>2
  <2>1. f = [k \in 0 .. m |-> IF k = 0 THEN <<>> ELSE step(k, f[k - 1])]
    BY DEF KeptUpTo
  <2> HIDE DEF step
  <2> DEFINE f1 == [k \in 0 .. m + 1 |-> IF k = m + 1 THEN step(k, f[m]) ELSE f[k]]
  <2>2. \A k \in 0 .. m : f1[k] = f[k] /\ f[k] = IF k = 0 THEN <<>> ELSE step(k, f[k - 1])
    BY <2>1
  <2>3. f1[m + 1] = step(m + 1, f[m])
    OBVIOUS
  <2>4. ASSUME NEW k \in 0 .. m + 1
        PROVE  f1[k] = IF k = 0 THEN <<>> ELSE step(k, f1[k - 1])
    <3>1. CASE k = m + 1
      BY <2>2, <2>3, <3>1
    <3>2. CASE k \in 0 .. m
      BY <2>2, <3>2
    <3> QED BY <3>1, <3>2
  <2>5. f1 = [k \in 0 .. m + 1 |-> f1[k]]
    OBVIOUS
  <2> HIDE DEF f1
  <2>6. f1 = [k \in 0 .. m + 1 |-> IF k = 0 THEN <<>> ELSE step(k, f1[k - 1])]
    BY <2>4, <2>5
  <2>7. KeptUpTo(items, m + 1, f1)
    BY <2>6 DEF KeptUpTo, step
  <2> QED BY <2>7
<1> HIDE DEF S
<1>3. Nat \subseteq S
  BY <1>1, <1>2, Induct
<1> QED BY <1>3 DEF S

\* What is left of a shop is all of its items that are on the list, and no other.
LEMMA WhitelistedIs ==
  ASSUME NEW items \in Seq(Nat)
  PROVE  /\ Whitelisted(items) \in Seq(Nat)
         /\ ElementsOf(Whitelisted(items)) = ElementsOf(items) \cap WHITELISTED_SHOP_ITEMS
<1> DEFINE literally(f) ==
             f = [k \in 0 .. Len(items) |->
                    IF k = 0 THEN <<>>
                    ELSE LET last == f[k - 1]
                         IN  IF items[k] \in WHITELISTED_SHOP_ITEMS
                             THEN Append(last, items[k]) ELSE last]
           kept == CHOOSE f : literally(f)
           n == Len(items)
<1>1. Whitelisted(items) = kept[n]
  BY DEF Whitelisted
<1>2. \A f : literally(f) <=> KeptUpTo(items, n, f)
  BY DEF KeptUpTo
<1>3. n \in Nat /\ DOMAIN items = 1 .. n
  OBVIOUS
<1> HIDE DEF literally, n
<1>4. \E f : literally(f)
  BY <1>2, <1>3, KeptExists
<1>5. literally(kept)
  BY <1>4
<1> HIDE DEF kept
<1>6. kept[0] = <<>>
  BY <1>2, <1>3, <1>5 DEF KeptUpTo
<1>7. \A k \in 1 .. n : kept[k] = IF items[k] \in WHITELISTED_SHOP_ITEMS
                                  THEN Append(kept[k - 1], items[k]) ELSE kept[k - 1]
  <2>1. \A k \in 1 .. n : k \in 0 .. n /\ k # 0
    BY <1>3
  <2>2. KeptUpTo(items, n, kept)
    BY <1>2, <1>5
  <2> QED BY <2>1, <2>2, Zenon DEF KeptUpTo
<1> DEFINE Upto(m) == { items[j] : j \in 1 .. m } \cap WHITELISTED_SHOP_ITEMS
           S == { m \in Nat : m <= n =>
                    kept[m] \in Seq(Nat) /\ ElementsOf(kept[m]) = Upto(m) }
<1>8. 0 \in S
  <2>1. ElementsOf(<<>>) = {} /\ Upto(0) = {} /\ <<>> \in Seq(Nat)
    BY DEF ElementsOf
  <2> HIDE DEF Upto
  <2> QED BY <1>6, <2>1
<1>9. ASSUME NEW m \in Nat, m \in S PROVE m + 1 \in S
  <2> SUFFICES ASSUME m + 1 <= n
               PROVE  /\ kept[m + 1] \in Seq(Nat)
                      /\ ElementsOf(kept[m + 1]) = Upto(m + 1)
    OBVIOUS
  <2>1. kept[m] \in Seq(Nat) /\ ElementsOf(kept[m]) = Upto(m)
    BY <1>3, <1>9
  <2>2. m + 1 \in 1 .. n /\ items[m + 1] \in Nat
    BY <1>3
  <2>3. kept[m + 1] = IF items[m + 1] \in WHITELISTED_SHOP_ITEMS
                      THEN Append(kept[m], items[m + 1]) ELSE kept[m]
    <3>1. (m + 1) - 1 = m
      OBVIOUS
    <3> QED BY <1>7, <2>2, <3>1
  <2>4. { items[j] : j \in 1 .. m + 1 } = { items[j] : j \in 1 .. m } \cup {items[m + 1]}
    <3>1. 1 .. m + 1 = (1 .. m) \cup {m + 1}
      OBVIOUS
    <3> QED BY <3>1
  <2> HIDE DEF WHITELISTED_SHOP_ITEMS
  <2>5. CASE items[m + 1] \notin WHITELISTED_SHOP_ITEMS
    BY <2>1, <2>3, <2>4, <2>5
  <2>6. CASE items[m + 1] \in WHITELISTED_SHOP_ITEMS
    <3> DEFINE s == kept[m]
               x == items[m + 1]
    <3>1. s \in Seq(Nat) /\ x \in Nat /\ kept[m + 1] = Append(s, x)
      BY <2>1, <2>2, <2>3, <2>6
    <3> HIDE DEF s, x
    <3>2. ElementsOf(Append(s, x)) = ElementsOf(s) \cup {x}
      <4>1. DOMAIN Append(s, x) = DOMAIN s \cup {Len(s) + 1} /\ Append(s, x)[Len(s) + 1] = x
        BY <3>1
      <4>2. \A k \in DOMAIN s : Append(s, x)[k] = s[k]
        BY <3>1
      <4> QED BY <4>1, <4>2 DEF ElementsOf
    <3>3. Append(s, x) \in Seq(Nat)
      BY <3>1
    <3>4. Upto(m + 1) = Upto(m) \cup {x}
      BY <2>4, <2>6 DEF x
    <3>5. ElementsOf(s) = Upto(m)
      BY <2>1 DEF s
    <3> HIDE DEF Upto
    <3> QED BY <3>1, <3>2, <3>3, <3>4, <3>5
  <2> QED BY <2>5, <2>6
<1> HIDE DEF S, Upto
<1>10. Nat \subseteq S
  BY <1>8, <1>9, Induct
<1>11. kept[n] \in Seq(Nat) /\ ElementsOf(kept[n]) = Upto(n)
  BY <1>3, <1>10 DEF S
<1>12. Upto(n) = ElementsOf(items) \cap WHITELISTED_SHOP_ITEMS
  BY <1>3 DEF ElementsOf, Upto
<1> QED BY <1>1, <1>11, <1>12

-----------------------------------------------------------------------------
(* Gift TMs *)

LEMMA RowsAre ==
  ASSUME NEW k \in DOMAIN TM_IDENTIFIERS
  PROVE  TM_IDENTIFIERS[k] \in ElementsOf(TM_IDENTIFIERS) /\ TM_IDENTIFIERS[k].arg \in Nat
<1>1. TM_IDENTIFIERS[k] \in ElementsOf(TM_IDENTIFIERS)
  BY DEF ElementsOf
<1> QED BY <1>1, GameDataConstants

LEMMA TMOfIs ==
  ASSUME FixedInv, NEW k \in DOMAIN TM_IDENTIFIERS
  PROVE  TMOf(TM_IDENTIFIERS[k]) \in ElementsOf(TMs) /\ TMOf(TM_IDENTIFIERS[k]) \in Nat
<1> DEFINE g == NewRandomGenerator(<<"gift_tm", TM_IDENTIFIERS[k].identifier>>)
<1>1. Ready(g)
  BY SeedWorks, StillWorks DEF Names, Works
<1>2. TMOf(TM_IDENTIFIERS[k]) = RandTM(g).val
  BY DEF TMOf
<1> HIDE DEF g
<1>3. RandTM(g).val \in { TMs[j] : j \in DOMAIN TMs }
  BY <1>1, RandTMDraws
<1>4. \A j \in DOMAIN TMs : TMs[j] \in Nat
  BY RngConstants
<1> QED BY <1>2, <1>3, <1>4 DEF ElementsOf

\* What a row of the table makes of a stack.
RowMakes(call, k, stack) ==
  LET id == TM_IDENTIFIERS[k]
  IN  IF Matches(id, call, stack) THEN [stack EXCEPT ![id.arg + 1] = TMOf(id)] ELSE stack

\* The stacks of a call, of as many values as it has.
Stacks(call) == { stack \in Seq(Nat) : Len(stack) = Len(call.stack) }

LEMMA RowMakesStack ==
  ASSUME FixedInv, NEW call \in Calls, NEW k \in DOMAIN TM_IDENTIFIERS,
         NEW stack \in Stacks(call)
  PROVE  /\ RowMakes(call, k, stack) \in Stacks(call)
         /\ Matches(TM_IDENTIFIERS[k], call, stack) =>
              /\ TM_IDENTIFIERS[k].arg + 1 \in DOMAIN stack
              /\ TM_IDENTIFIERS[k].arg + 1 <= call.count
<1> PICK a \in Nat : a = TM_IDENTIFIERS[k].arg
  BY RowsAre
<1> PICK tm \in Nat : tm = TMOf(TM_IDENTIFIERS[k])
  BY TMOfIs
<1>1. call.count \in Nat /\ call.count <= Len(call.stack) /\ Len(call.stack) \in Nat
  <2>1. call.stack \in Seq(Nat) /\ call.count \in 0 .. Len(call.stack)
    BY GameDataConstants
  <2> QED BY <2>1
<1>2. stack \in Seq(Nat) /\ DOMAIN stack = 1 .. Len(stack) /\ Len(stack) = Len(call.stack)
  BY DEF Stacks
<1>3. Matches(TM_IDENTIFIERS[k], call, stack) => a + 1 \in DOMAIN stack /\ a + 1 <= call.count
  BY <1>1, <1>2 DEF Matches
<1>4. CASE Matches(TM_IDENTIFIERS[k], call, stack)
  <2>1. RowMakes(call, k, stack) = [stack EXCEPT ![a + 1] = tm]
    BY <1>4 DEF RowMakes
  <2>2. a + 1 \in 1 .. Len(stack)
    BY <1>2, <1>3, <1>4
  <2>3. [stack EXCEPT ![a + 1] = tm] \in Stacks(call)
    BY <1>2, <2>2, ExceptSeq DEF Stacks
  <2> QED BY <1>3, <2>1, <2>3
<1>5. CASE ~ Matches(TM_IDENTIFIERS[k], call, stack)
  BY <1>5 DEF RowMakes
<1> QED BY <1>4, <1>5

\* The stacks down the table.
Down(call, after) ==
  /\ \A k \in 0 .. Len(TM_IDENTIFIERS) : after[k] \in Stacks(call)
  /\ after[0] = call.stack
  /\ \A k \in DOMAIN TM_IDENTIFIERS : after[k] = RowMakes(call, k, after[k - 1])
  /\ replace_tm(call) = IF save_file.gift_tms THEN after[Len(TM_IDENTIFIERS)] ELSE call.stack

LEMMA DownExists ==
  ASSUME FixedInv, NEW call \in Calls
  PROVE  \E after : Down(call, after)
<1> DEFINE n == Len(TM_IDENTIFIERS)
           D == Stacks(call)
           literally(f) ==
             f = [k \in 0 .. n |->
                    IF k = 0 THEN call.stack
                    ELSE LET id == TM_IDENTIFIERS[k]  stack == f[k - 1]
                         IN  IF Matches(id, call, stack)
                             THEN [stack EXCEPT ![id.arg + 1] = TMOf(id)] ELSE stack]
           step == [k \in 1 .. n |-> [stack \in D |-> RowMakes(call, k, stack)]]
           after == CHOOSE f : literally(f)
<1>1. replace_tm(call) = IF save_file.gift_tms THEN after[n] ELSE call.stack
  BY DEF replace_tm
<1>2. n \in Nat /\ DOMAIN TM_IDENTIFIERS = 1 .. n
  BY GameDataConstants
<1>3. call.stack \in D
  BY GameDataConstants DEF Stacks
<1> HIDE DEF n
<1>4. \A f : literally(f) <=>
        f = [k \in 0 .. n |-> IF k = 0 THEN call.stack ELSE RowMakes(call, k, f[k - 1])]
  BY DEF RowMakes
<1> HIDE DEF literally
<1>5. ASSUME NEW k \in 1 .. n, NEW stack \in D
      PROVE  step[k][stack] = RowMakes(call, k, stack) /\ step[k][stack] \in D
  <2>1. step[k][stack] = RowMakes(call, k, stack)
    OBVIOUS
  <2> HIDE DEF step
  <2> QED BY <1>2, <2>1, RowMakesStack
<1>6. Closed(n, D, step)
  <2> HIDE DEF step, D
  <2> QED BY <1>5 DEF Closed
<1> HIDE DEF step, D
<1>7. \E f : literally(f)
  <2>1. PICK f \in [0 .. n -> D] : Steps(call.stack, n, step, f)
    BY <1>2, <1>3, <1>6, StepsExist
  <2>2. ASSUME NEW k \in 0 .. n
        PROVE  f[k] = IF k = 0 THEN call.stack ELSE RowMakes(call, k, f[k - 1])
    <3>1. f[k] = IF k = 0 THEN call.stack ELSE step[k][f[k - 1]]
      BY <2>1 DEF Steps
    <3>2. k # 0 => k \in 1 .. n /\ f[k - 1] \in D
      BY <1>2, <2>1
    <3> QED BY <1>5, <3>1, <3>2
  <2>3. f = [k \in 0 .. n |-> IF k = 0 THEN call.stack ELSE RowMakes(call, k, f[k - 1])]
    BY <2>1, <2>2
  <2> QED BY <1>4, <2>3
<1>8. literally(after)
  BY <1>7
<1> HIDE DEF after
<1>9. after = [k \in 0 .. n |-> IF k = 0 THEN call.stack ELSE RowMakes(call, k, after[k - 1])]
  BY <1>4, <1>8
<1>10. after[0] = call.stack
  BY <1>2, <1>9
<1>11. \A k \in 1 .. n : after[k] = RowMakes(call, k, after[k - 1])
  <2>1. \A k \in 1 .. n : k \in 0 .. n /\ k # 0
    BY <1>2
  <2> QED BY <1>9, <2>1, Zenon
<1>12. \A k \in 0 .. n : after[k] \in D
  <2>1. Follows(call.stack, n, D, step, after)
    BY <1>5, <1>10, <1>11 DEF Follows
  <2> QED BY <1>2, <1>3, <1>6, <2>1, StepsStay
<1>13. Down(call, after)
  BY <1>1, <1>2, <1>10, <1>11, <1>12 DEF Down, n, D
<1> QED BY <1>13

\* What a row does at one place of the stack.
LEMMA RowAt ==
  ASSUME FixedInv, NEW call \in Calls, NEW k \in DOMAIN TM_IDENTIFIERS,
         NEW stack \in Stacks(call), NEW p \in DOMAIN call.stack
  PROVE  RowMakes(call, k, stack)[p] =
           IF Matches(TM_IDENTIFIERS[k], call, stack) /\ p = TM_IDENTIFIERS[k].arg + 1
           THEN TMOf(TM_IDENTIFIERS[k]) ELSE stack[p]
<1> DEFINE id == TM_IDENTIFIERS[k]
<1>1. p \in DOMAIN stack
  <2>1. call.stack \in Seq(Nat) /\ stack \in Seq(Nat) /\ Len(stack) = Len(call.stack)
    BY GameDataConstants DEF Stacks
  <2> QED BY <2>1
<1>2. RowMakes(call, k, stack) =
        IF Matches(id, call, stack) THEN [stack EXCEPT ![id.arg + 1] = TMOf(id)] ELSE stack
  BY DEF RowMakes
<1> HIDE DEF id
<1> QED BY <1>1, <1>2 DEF id

LEMMA OnlyTMs ==
  ASSUME FixedInv, NEW call \in Calls
  PROVE  \A p \in DOMAIN replace_tm(call) :
           replace_tm(call)[p] # call.stack[p] =>
             p <= call.count /\ replace_tm(call)[p] \in ElementsOf(TMs)
<1> PICK after : Down(call, after)
  BY DownExists
<1> DEFINE n == Len(TM_IDENTIFIERS)
           Good(stack) == \A p \in DOMAIN call.stack :
             stack[p] # call.stack[p] => p <= call.count /\ stack[p] \in ElementsOf(TMs)
           S == { m \in Nat : m <= n => Good(after[m]) }
<1>1. n \in Nat /\ DOMAIN TM_IDENTIFIERS = 1 .. n
  BY GameDataConstants
<1> HIDE DEF n
<1>2. /\ \A k \in 0 .. n : after[k] \in Stacks(call)
      /\ after[0] = call.stack
      /\ \A k \in DOMAIN TM_IDENTIFIERS : after[k] = RowMakes(call, k, after[k - 1])
      /\ replace_tm(call) = IF save_file.gift_tms THEN after[n] ELSE call.stack
  BY DEF Down, n
<1>3. 0 \in S
  BY <1>2
<1>4. ASSUME NEW m \in Nat, m \in S PROVE m + 1 \in S
  <2> SUFFICES ASSUME m + 1 <= n, NEW p \in DOMAIN call.stack,
                      after[m + 1][p] # call.stack[p]
               PROVE  p <= call.count /\ after[m + 1][p] \in ElementsOf(TMs)
    OBVIOUS
  <2> DEFINE stack == after[m]
             id == TM_IDENTIFIERS[m + 1]
  <2>1. /\ m \in 0 .. n /\ m + 1 \in DOMAIN TM_IDENTIFIERS /\ (m + 1) - 1 = m
        /\ m + 1 \in 1 .. n
    BY <1>1
  <2>2. Good(stack)
    BY <1>1, <1>4
  <2>3. stack \in Stacks(call) /\ after[m + 1] = RowMakes(call, m + 1, stack)
    BY <1>2, <2>1
  <2> HIDE DEF stack, id
  <2>4. after[m + 1][p] = IF Matches(id, call, stack) /\ p = id.arg + 1
                          THEN TMOf(id) ELSE stack[p]
    BY <2>1, <2>3, RowAt DEF id
  <2>5. Matches(id, call, stack) => id.arg + 1 <= call.count
    BY <2>1, <2>3, RowMakesStack DEF id
  <2>6. TMOf(id) \in ElementsOf(TMs)
    BY <2>1, TMOfIs DEF id
  <2> QED BY <2>2, <2>4, <2>5, <2>6
<1> HIDE DEF S
<1>5. Nat \subseteq S
  BY <1>3, <1>4, Induct
<1> HIDE DEF Good
<1>6. Good(after[n]) /\ Good(call.stack)
  BY <1>1, <1>5 DEF S, Good
<1>7. Good(replace_tm(call))
  BY <1>2, <1>6
<1>8. DOMAIN replace_tm(call) = DOMAIN call.stack
  <2>1. after[n] \in Stacks(call) /\ call.stack \in Seq(Nat)
    BY <1>1, <1>2, GameDataConstants
  <2>2. DOMAIN after[n] = DOMAIN call.stack
    BY <2>1 DEF Stacks
  <2> QED BY <1>2, <2>2
<1> QED BY <1>7, <1>8 DEF Good

\* What the scripts are to name a gift: its TM or, with the option off, the game's own.
GiftTM(id) == IF save_file.gift_tms THEN TMOf(id) ELSE id.old

\* A gift at a place that is no other's gets its TM, whatever other rows do to the stack.
LEMMA GiftNamed ==
  ASSUME FixedInv, NEW call \in Calls, NEW j \in DOMAIN TM_IDENTIFIERS,
         Matches(TM_IDENTIFIERS[j], call, call.stack), ~ SharedPlace(call.cip)
  PROVE  replace_tm(call)[TM_IDENTIFIERS[j].arg + 1] = GiftTM(TM_IDENTIFIERS[j])
<1> PICK after : Down(call, after)
  BY DownExists
<1> DEFINE n == Len(TM_IDENTIFIERS)
           id == TM_IDENTIFIERS[j]
           p == id.arg + 1
           tm == TMOf(id)
           old == id.old
           S == { m \in Nat : m <= n => /\ after[m][p] \in {old, tm}
                                        /\ j <= m => after[m][p] = tm }
<1>1. n \in Nat /\ DOMAIN TM_IDENTIFIERS = 1 .. n /\ j \in 1 .. n
  BY GameDataConstants
<1> HIDE DEF n
<1>2. /\ \A k \in 0 .. n : after[k] \in Stacks(call)
      /\ after[0] = call.stack
      /\ \A k \in DOMAIN TM_IDENTIFIERS : after[k] = RowMakes(call, k, after[k - 1])
      /\ replace_tm(call) = IF save_file.gift_tms THEN after[n] ELSE call.stack
  BY DEF Down, n
<1>3. call.stack \in Stacks(call)
  BY GameDataConstants DEF Stacks
<1>4. p \in DOMAIN call.stack
  BY <1>3, RowMakesStack
<1>5. call.stack[p] = old /\ call.cip = id.cip
  BY DEF Matches
<1>6. ASSUME NEW k \in DOMAIN TM_IDENTIFIERS, NEW stack, Matches(TM_IDENTIFIERS[k], call, stack)
      PROVE  TMOf(TM_IDENTIFIERS[k]) = tm
  <2>1. TM_IDENTIFIERS[k].cip = call.cip /\ TM_IDENTIFIERS[j].cip = call.cip
    BY <1>5, <1>6 DEF Matches
  <2>2. TM_IDENTIFIERS[k].identifier = TM_IDENTIFIERS[j].identifier
    BY <2>1 DEF SharedPlace
  <2> QED BY <2>2 DEF TMOf
<1>7. 0 \in S
  BY <1>1, <1>2, <1>5
<1>8. ASSUME NEW m \in Nat, m \in S PROVE m + 1 \in S
  <2> SUFFICES ASSUME m + 1 <= n
               PROVE  /\ after[m + 1][p] \in {old, tm}
                      /\ j <= m + 1 => after[m + 1][p] = tm
    OBVIOUS
  <2> DEFINE stack == after[m]
             row == TM_IDENTIFIERS[m + 1]
  <2>1. /\ m \in 0 .. n /\ m + 1 \in DOMAIN TM_IDENTIFIERS /\ (m + 1) - 1 = m
        /\ m + 1 \in 1 .. n
    BY <1>1
  <2>2. stack[p] \in {old, tm} /\ (j <= m => stack[p] = tm)
    BY <1>1, <1>8
  <2>3. stack \in Stacks(call) /\ after[m + 1] = RowMakes(call, m + 1, stack)
    BY <1>2, <2>1
  <2>4. j = m + 1 /\ stack[p] = old => Matches(row, call, stack)
    BY <1>5 DEF Matches
  <2>5. j = m + 1 => p = row.arg + 1
    OBVIOUS
  <2>6. Matches(row, call, stack) => TMOf(row) = tm
    BY <1>6, <2>1
  <2> HIDE DEF stack, row, p, tm, old
  <2>7. after[m + 1][p] = IF Matches(row, call, stack) /\ p = row.arg + 1
                          THEN TMOf(row) ELSE stack[p]
    BY <1>4, <2>1, <2>3, RowAt DEF row
  <2>8. j <= m + 1 => j <= m \/ j = m + 1
    BY <1>1
  <2> QED BY <2>2, <2>4, <2>5, <2>6, <2>7, <2>8
<1> HIDE DEF S
<1>9. Nat \subseteq S
  BY <1>7, <1>8, Induct
<1>10. after[n][p] = tm
  BY <1>1, <1>9 DEF S
<1> HIDE DEF tm, old
<1>11. replace_tm(call)[p] = IF save_file.gift_tms THEN tm ELSE old
  BY <1>2, <1>5, <1>10
<1> QED BY <1>11 DEF GiftTM, tm, old, id, p

-----------------------------------------------------------------------------
(* What each hook hands to the game *)

Kinds == {"nothing", "learnset", "personal", "shop", "sparkle", "ball", "call"}

LEMMA LearnsetHanded ==
  ASSUME FixedInv, NEW s \in DOMAIN Learnsets, RandomLearnsetHook(s)
  PROVE  out'.kind = "learnset" /\ LearnsetsWhole'
<1>1. out'.kind = "learnset" /\ LearnsetWhole(out') /\ save_file' = save_file
  BY LearnsetIsWhole DEF RandomLearnsetHook
<1> QED BY <1>1 DEF LearnsetWhole, LearnsetsWhole

LEMMA PersonalHanded ==
  ASSUME FixedInv, NEW s \in DOMAIN BaseStats, FetchPersonalInfoHook(s)
  PROVE  out'.kind = "personal" /\ StatsFit'
<1> DEFINE g == NewRandomGenerator(<<"personal_total", s>>)
           stats == RandStats(g, s)
           abilities == Draws(stats.gen, [k \in 1 .. 3 |->
                                [h \in Places(g) |-> RandRange(h, 1, 268)]])
           items == Draws(abilities.gen, [k \in 1 .. 3 |->
                                [h \in Places(g) |-> RandHeldItem(h)]])
<1>1. /\ \A k \in 1 .. 6 : stats.val[k] \in 1 .. 255
      /\ s = Shedinja <=> stats.val[1] = 1
  BY RandStatsDraw
<1>2. /\ out' = IF save_file.personal
                THEN personal_info(s, stats.val, abilities.val, items.val)
                ELSE personal_info(s, BaseStats[s], None, None)
      /\ save_file' = save_file
  BY DEF FetchPersonalInfoHook
<1> HIDE DEF stats, abilities, items
<1>3. \A b, a, c : /\ personal_info(s, b, a, c).kind = "personal"
                   /\ personal_info(s, b, a, c).species = s
                   /\ personal_info(s, b, a, c).base_stats = b
  BY DEF personal_info
<1>4. /\ out'.kind = "personal" /\ out'.species = s
      /\ save_file.personal => out'.base_stats = stats.val
  BY <1>2, <1>3
<1> QED BY <1>1, <1>2, <1>4 DEF StatsFit

LEMMA FilteredIs ==
  ASSUME NEW items \in Seq(Nat)
  PROVE  /\ Filtered(items) # <<>>
         /\ ElementsOf(Filtered(items)) \cap WHITELISTED_SHOP_ITEMS
              = ElementsOf(items) \cap WHITELISTED_SHOP_ITEMS
         /\ \/ ElementsOf(Filtered(items)) \subseteq WHITELISTED_SHOP_ITEMS
            \/ Filtered(items) = <<106>>
<1>1. ElementsOf(Whitelisted(items)) = ElementsOf(items) \cap WHITELISTED_SHOP_ITEMS
  BY WhitelistedIs
<1>2. CASE Whitelisted(items) # <<>>
  BY <1>1, <1>2 DEF Filtered
<1>3. CASE Whitelisted(items) = <<>>
  <2>1. Filtered(items) = <<106>>
    BY <1>3 DEF Filtered
  <2>2. ElementsOf(<<106>>) = {106} /\ ElementsOf(<<>>) = {} /\ <<106>> # <<>>
    BY DEF ElementsOf
  <2>3. 106 \notin WHITELISTED_SHOP_ITEMS
    BY DEF WHITELISTED_SHOP_ITEMS
  <2>4. ElementsOf(items) \cap WHITELISTED_SHOP_ITEMS = {}
    BY <1>1, <1>3, <2>2
  <2>5. ElementsOf(Filtered(items)) \cap WHITELISTED_SHOP_ITEMS = {}
    BY <2>1, <2>2, <2>3
  <2> QED BY <2>1, <2>2, <2>4, <2>5
<1> QED BY <1>2, <1>3

LEMMA ShopHanded ==
  ASSUME FixedInv, NEW shop \in DOMAIN Shops \cup {None}, FilterShopItems(shop)
  PROVE  /\ out'.kind = "shop" /\ ShopsSellBalls'
         /\ inventory' \in DOMAIN Shops \cup {"template_data", None}
<1>1. out'.kind = "shop" /\ out'.shop = shop /\ save_file' = save_file
  BY DEF FilterShopItems
<1>2. inventory' \in DOMAIN Shops \cup {"template_data", None}
  BY DEF FilterShopItems
<1>3. ASSUME shop # None, save_file.filter_shop
      PROVE  /\ Sold' # <<>>
             /\ ElementsOf(Sold') \cap WHITELISTED_SHOP_ITEMS
                  = ElementsOf(Shops[shop]) \cap WHITELISTED_SHOP_ITEMS
             /\ ElementsOf(Sold') \subseteq WHITELISTED_SHOP_ITEMS \/ Sold' = <<106>>
  <2>1. Sold' = Filtered(Shops[shop])
    BY <1>3 DEF FilterShopItems, Sold
  <2>2. Shops[shop] \in Seq(Nat)
    BY <1>3, GameDataConstants
  <2> QED BY <2>1, <2>2, FilteredIs
<1>4. (ElementsOf(Sold))' = ElementsOf(Sold')
  BY DEF ElementsOf
<1>5. ShopsSellBalls'
  BY <1>1, <1>3, <1>4 DEF ShopsSellBalls
<1> QED BY <1>1, <1>2, <1>5

LEMMA SparkleHanded ==
  ASSUME FixedInv, NEW h \in Sparkles, RandomizeSparkleItem(h)
  PROVE  out'.kind = "sparkle" /\ out'.item \in ElementsOf(HeldItems) \cup {None}
<1> DEFINE g == NewRandomGenerator(<<"sparkle_item", h>>)
<1>1. Ready(g)
  BY SeedWorks, StillWorks DEF Names, Works
<1>2. out' = [kind |-> "sparkle", item |-> IF save_file.item THEN RandHeldItem(g).val ELSE None]
  BY DEF RandomizeSparkleItem
<1> HIDE DEF g
<1>3. RandHeldItem(g).val \in ElementsOf(HeldItems)
  BY <1>1, RandHeldItemDraws DEF ElementsOf
<1> QED BY <1>2, <1>3

LEMMA BallHanded ==
  ASSUME FixedInv, NEW h \in DOMAIN Balls, RandomizeBallItem(h)
  PROVE  out'.kind = "ball" /\ BallsKeepTheirKind'
<1> DEFINE g == NewRandomGenerator(<<"ball_item", h>>)
<1>1. Ready(g)
  BY SeedWorks, StillWorks DEF Names, Works
<1>2. out' = [kind |-> "ball", hash |-> h,
              item |-> IF save_file.item THEN BallItem(g, Balls[h]) ELSE Balls[h]]
  BY DEF RandomizeBallItem
<1> HIDE DEF g
<1>3. RandHeldItem(g).val \in ElementsOf(HeldItems) /\ RandTM(g).val \in ElementsOf(TMs)
  BY <1>1, RandHeldItemDraws, RandTMDraws DEF ElementsOf
<1>4. ElementsOf(HeldItems) \cap ElementsOf(TMs) = {}
  BY GameDataConstants
<1>5. BallItem(g, Balls[h]) \in ElementsOf(TMs) <=> Balls[h] \in ElementsOf(TMs)
  BY <1>3, <1>4 DEF BallItem
<1>6. out'.kind = "ball" /\ out'.hash = h
  BY <1>2
<1>7. out'.item \in ElementsOf(TMs) <=> Balls[h] \in ElementsOf(TMs)
  BY <1>2, <1>5
<1> QED BY <1>6, <1>7 DEF BallsKeepTheirKind

CallIn(o) ==
  \A k \in DOMAIN o.stack :
    o.stack[k] # o.call.stack[k] => k <= o.call.count /\ o.stack[k] \in ElementsOf(TMs)

LEMMA CallHanded ==
  ASSUME FixedInv, NEW call \in Calls, OnAmxCallback(call)
  PROVE  out'.kind = "call" /\ CallIn(out')
<1>1. out' = [kind |-> "call", call |-> call, stack |-> replace_tm(call)]
  BY DEF OnAmxCallback
<1>2. out'.kind = "call" /\ out'.call = call /\ out'.stack = replace_tm(call)
  BY <1>1
<1> QED BY <1>2, OnlyTMs DEF CallIn

-----------------------------------------------------------------------------
(* Whatever the game asks for *)

\* RecordsUsable without what FixedInv says, and in parts.
HandedInv ==
  /\ inventory \in DOMAIN Shops \cup {"template_data", None}
  /\ out.kind \in Kinds
  /\ out.kind = "sparkle" => out.item \in ElementsOf(HeldItems) \cup {None}
  /\ out.kind = "call" => CallIn(out)
  /\ LearnsetsWhole
  /\ StatsFit
  /\ ShopsSellBalls
  /\ BallsKeepTheirKind

LEMMA HandedStep ==
  ASSUME FixedInv, HandedInv, [Next]_vars
  PROVE  HandedInv'
<1>1. ASSUME NEW s \in DOMAIN Learnsets, RandomLearnsetHook(s) PROVE HandedInv'
  <2>1. out'.kind = "learnset" /\ LearnsetsWhole'
    BY <1>1, LearnsetHanded
  <2>2. inventory' = inventory
    BY <1>1 DEF RandomLearnsetHook
  <2>3. StatsFit' /\ ShopsSellBalls' /\ BallsKeepTheirKind'
    BY <2>1 DEF StatsFit, ShopsSellBalls, BallsKeepTheirKind
  <2> QED BY <2>1, <2>2, <2>3 DEF HandedInv, Kinds
<1>2. ASSUME NEW s \in DOMAIN BaseStats, FetchPersonalInfoHook(s) PROVE HandedInv'
  <2>1. out'.kind = "personal" /\ StatsFit'
    BY <1>2, PersonalHanded
  <2>2. inventory' = inventory
    BY <1>2 DEF FetchPersonalInfoHook
  <2>3. LearnsetsWhole' /\ ShopsSellBalls' /\ BallsKeepTheirKind'
    BY <2>1 DEF LearnsetsWhole, ShopsSellBalls, BallsKeepTheirKind
  <2> QED BY <2>1, <2>2, <2>3 DEF HandedInv, Kinds
<1>3. ASSUME NEW shop \in DOMAIN Shops \cup {None}, FilterShopItems(shop) PROVE HandedInv'
  <2>1. /\ out'.kind = "shop" /\ ShopsSellBalls'
        /\ inventory' \in DOMAIN Shops \cup {"template_data", None}
    BY <1>3, ShopHanded
  <2>2. LearnsetsWhole' /\ StatsFit' /\ BallsKeepTheirKind'
    BY <2>1 DEF LearnsetsWhole, StatsFit, BallsKeepTheirKind
  <2> QED BY <2>1, <2>2 DEF HandedInv, Kinds
<1>4. ASSUME NEW h \in Sparkles, RandomizeSparkleItem(h) PROVE HandedInv'
  <2>1. out'.kind = "sparkle" /\ out'.item \in ElementsOf(HeldItems) \cup {None}
    BY <1>4, SparkleHanded
  <2>2. inventory' = inventory
    BY <1>4 DEF RandomizeSparkleItem
  <2>3. LearnsetsWhole' /\ StatsFit' /\ ShopsSellBalls' /\ BallsKeepTheirKind'
    BY <2>1 DEF LearnsetsWhole, StatsFit, ShopsSellBalls, BallsKeepTheirKind
  <2>4. (ElementsOf(HeldItems))' = ElementsOf(HeldItems)
    BY DEF ElementsOf
  <2> QED BY <2>1, <2>2, <2>3, <2>4 DEF HandedInv, Kinds
<1>5. ASSUME NEW h \in DOMAIN Balls, RandomizeBallItem(h) PROVE HandedInv'
  <2>1. out'.kind = "ball" /\ BallsKeepTheirKind'
    BY <1>5, BallHanded
  <2>2. inventory' = inventory
    BY <1>5 DEF RandomizeBallItem
  <2>3. LearnsetsWhole' /\ StatsFit' /\ ShopsSellBalls'
    BY <2>1 DEF LearnsetsWhole, StatsFit, ShopsSellBalls
  <2> QED BY <2>1, <2>2, <2>3 DEF HandedInv, Kinds
<1>6. ASSUME NEW call \in Calls, OnAmxCallback(call) PROVE HandedInv'
  <2>1. out'.kind = "call" /\ CallIn(out')
    BY <1>6, CallHanded
  <2>2. inventory' = inventory /\ CallIn(out)'
    BY <1>6, <2>1 DEF OnAmxCallback, CallIn
  <2>3. LearnsetsWhole' /\ StatsFit' /\ ShopsSellBalls' /\ BallsKeepTheirKind'
    BY <2>1 DEF LearnsetsWhole, StatsFit, ShopsSellBalls, BallsKeepTheirKind
  <2> QED BY <2>1, <2>2, <2>3 DEF HandedInv, Kinds
<1>7. CASE UNCHANGED vars
  BY <1>7 DEF vars, HandedInv, Kinds, CallIn, LearnsetsWhole, StatsFit, ShopsSellBalls, Sold,
              BallsKeepTheirKind
<1> QED BY <1>1, <1>2, <1>3, <1>4, <1>5, <1>6, <1>7 DEF Next

\* RecordsUsable: what the hooks of the loaders hand to the game is of its type and within
\* its bounds - learnset.hpp, personal_total.hpp, shop_items.hpp, field_items.hpp and
\* gift_tms.hpp, whatever the tables hold and whatever is drawn.
THEOREM RecordsAreUsable == Spec => []RecordsUsable
<1>1. Init => HandedInv
  BY DEF Init, HandedInv, Kinds, LearnsetsWhole, StatsFit, ShopsSellBalls, BallsKeepTheirKind
<1>2. FixedInv /\ HandedInv /\ [Next]_vars => HandedInv'
  BY HandedStep
<1>3. FixedInv /\ HandedInv => RecordsUsable
  BY DEF FixedInv, HandedInv, Kinds, CallIn, RecordsUsable, TypeOK
<1> QED BY <1>1, <1>2, <1>3, Fixed, PTL DEF Spec

-----------------------------------------------------------------------------
(* One TM for a gift *)

\* Each TM a script has been told of, but at a shared place, is the one of its gift.
Named(t) ==
  \/ SharedPlace(t.cip)
  \/ \E k \in DOMAIN TM_IDENTIFIERS : /\ t.gift = TM_IDENTIFIERS[k].identifier
                                      /\ t.tm = GiftTM(TM_IDENTIFIERS[k])
ToldInv == \A t \in told : Named(t)

LEMMA CallNamed ==
  ASSUME FixedInv, NEW call \in Calls, OnAmxCallback(call), NEW t \in told' \ told
  PROVE  Named(t)
<1> PICK id \in ElementsOf(TM_IDENTIFIERS) :
      /\ Matches(id, call, call.stack)
      /\ t = [gift |-> id.identifier, cip |-> id.cip, tm |-> replace_tm(call)[id.arg + 1]]
  BY DEF OnAmxCallback
<1> PICK j \in DOMAIN TM_IDENTIFIERS : id = TM_IDENTIFIERS[j]
  BY DEF ElementsOf
<1>1. t.gift = id.identifier /\ t.cip = call.cip /\ t.tm = replace_tm(call)[id.arg + 1]
  BY DEF Matches
<1>2. CASE SharedPlace(call.cip)
  BY <1>1, <1>2 DEF Named
<1>3. CASE ~ SharedPlace(call.cip)
  <2>1. replace_tm(call)[TM_IDENTIFIERS[j].arg + 1] = GiftTM(TM_IDENTIFIERS[j])
    BY <1>3, GiftNamed
  <2> QED BY <1>1, <2>1 DEF Named
<1> QED BY <1>2, <1>3

LEMMA ToldStep ==
  ASSUME FixedInv, ToldInv, [Next]_vars
  PROVE  ToldInv'
<1>1. /\ save_file' = save_file /\ hashing' = hashing
      /\ told' = told \/ \E call \in Calls : OnAmxCallback(call)
  BY DEF Next, vars, RandomLearnsetHook, FetchPersonalInfoHook, FilterShopItems,
         RandomizeSparkleItem, RandomizeBallItem, OnAmxCallback
<1>2. ASSUME NEW t, Named(t) PROVE Named(t)'
  BY <1>1, <1>2 DEF Named, SharedPlace, GiftTM, TMOf, NewRandomGenerator
<1>3. ASSUME NEW t \in told' PROVE Named(t)
  <2>1. CASE t \in told
    BY <2>1 DEF ToldInv
  <2>2. CASE t \notin told
    BY <1>1, <2>2, CallNamed
  <2> QED BY <2>1, <2>2
<1> QED BY <1>2, <1>3 DEF ToldInv

LEMMA ToldMeans ==
  ASSUME ToldInv
  PROVE  OneTMPerGift
<1> SUFFICES ASSUME NEW a \in told, NEW b \in told, a.gift = b.gift, a.tm # b.tm,
                    ~ SharedPlace(a.cip), ~ SharedPlace(b.cip)
             PROVE  FALSE
  BY DEF OneTMPerGift
<1> PICK j \in DOMAIN TM_IDENTIFIERS : /\ a.gift = TM_IDENTIFIERS[j].identifier
                                       /\ a.tm = GiftTM(TM_IDENTIFIERS[j])
  BY DEF ToldInv, Named
<1> PICK k \in DOMAIN TM_IDENTIFIERS : /\ b.gift = TM_IDENTIFIERS[k].identifier
                                       /\ b.tm = GiftTM(TM_IDENTIFIERS[k])
  BY DEF ToldInv, Named
<1>1. TM_IDENTIFIERS[j].old = TM_IDENTIFIERS[k].old
  <2>1. /\ TM_IDENTIFIERS[j] \in ElementsOf(TM_IDENTIFIERS)
        /\ TM_IDENTIFIERS[k] \in ElementsOf(TM_IDENTIFIERS)
    BY RowsAre
  <2> QED BY <2>1, GameDataConstants
<1>2. TMOf(TM_IDENTIFIERS[j]) = TMOf(TM_IDENTIFIERS[k])
  BY DEF TMOf
<1> QED BY <1>1, <1>2 DEF GiftTM

\* OneTMPerGift: wherever scripts name a gift, gift_tms.hpp makes them name one TM, if the
\* place is not in the table for another gift too: for any table whose rows for a gift look
\* for one item, any stacks of the calls, and whatever is drawn.
THEOREM EachGiftIsOneTM == Spec => []OneTMPerGift
<1>1. Init => ToldInv
  BY DEF Init, ToldInv
<1>2. FixedInv /\ ToldInv /\ [Next]_vars => ToldInv'
  BY ToldStep
<1>3. ToldInv => OneTMPerGift
  BY ToldMeans
<1> QED BY <1>1, <1>2, <1>3, Fixed, PTL DEF Spec

-----------------------------------------------------------------------------
(* Evolution: for every number of slots, every personal info and every sequence of *)
(* draws.                                                                          *)

USE DEF Slots

\* What the hook has made of slot k, without each_level.
Replaced(k) ==
  IF loaded[k].species = NoSpecies THEN methods[k] = loaded[k]
  ELSE /\ Drawn(k)
       /\ Growth[methods[k].species] = Growth[species]
       /\ evo_rng.match_types => SharesType(species, methods[k].species)
       /\ methods[k].method \notin {"Trade", "TradeHeldItem"}

\* The loop over the slots: those behind it are done, those ahead as they were loaded.
SlotLoop ==
  /\ \A k \in Slots : k < i => Replaced(k)
  /\ \A k \in Slots : k > i => methods[k] = loaded[k]
  /\ at = "slot" => methods[i] = loaded[i]
  /\ at = "draw" => /\ loaded[i].species # NoSpecies
                    /\ methods[i].species = loaded[i].species
                    /\ methods[i].method \notin {"Trade", "TradeHeldItem"}

FirstSlotLoop ==
  /\ at = "draw" /\ i = 0
  /\ methods[0].species = loaded[0].species
  /\ methods[0].method = "LevelUp"

\* What each_level leaves.
FirstReplaced ==
  /\ Drawn(0)
  /\ Growth[methods[0].species] = Growth[species]
  /\ evo_rng.match_types => SharesType(species, methods[0].species)
  /\ methods[0].method = "LevelUp"
  /\ \A k \in Slots : k > 0 => methods[k].method = "None"

Done == IF evo_rng.each_level THEN FirstReplaced ELSE \A k \in Slots : Replaced(k)

Types ==
  /\ EvolutionTypeOK
  /\ loaded \in [Slots -> Methods]
  /\ \A k \in Slots : loaded[k].species = NoSpecies => loaded[k].method = "None"

Progress ==
  /\ at \in {"slot", "draw"} =>
       /\ evo_rng.enabled
       /\ IF evo_rng.each_level THEN FirstSlotLoop ELSE SlotLoop
  /\ at = "game" /\ evo_rng.enabled => Done

EvolutionInv == Types /\ Progress

-----------------------------------------------------------------------------
\* A set the game loads has a known method and a known species, or none, in each slot.
LEMMA VanillaTypes ==
  ASSUME NEW s \in Species, NEW set \in Vanilla[s]
  PROVE  /\ set \in [Slots -> Methods]
         /\ \A k \in Slots : set[k].species = NoSpecies => set[k].method = "None"
         /\ EachLevel(set) \in [Slots -> Methods]
<1>1. set \in [Slots -> Methods]
  BY EvolutionConstants
<1>2. 0 \in Slots /\ set[0] \in Methods
  BY <1>1, EvolutionConstants
<1>3. [set[0] EXCEPT !.method = "LevelUp"] \in Methods
  BY <1>2 DEF Methods, Levels
<1>4. EachLevel(set) \in [Slots -> Methods]
  BY <1>1, <1>2 DEF EachLevel, Methods, Levels
<1> QED BY <1>1, <1>4, EvolutionConstants

\* A method keeps its species and is no trade for a level or an item afterwards.
LEMMA TradeGone ==
  ASSUME NEW m \in Methods
  PROVE  /\ WithoutTrade(m) \in Methods
         /\ WithoutTrade(m).species = m.species
         /\ WithoutTrade(m).method \notin {"Trade", "TradeHeldItem"}
BY DEF WithoutTrade, Methods, Trades, Levels

LEMMA EvolutionStarts == EvolutionInit => EvolutionInv
<1> SUFFICES ASSUME EvolutionInit PROVE EvolutionInv
  OBVIOUS
<1>1. /\ methods \in [Slots -> Methods] /\ loaded \in [Slots -> Methods]
      /\ \A k \in Slots : loaded[k].species = NoSpecies => loaded[k].method = "None"
  BY VanillaTypes DEF EvolutionInit
<1>2. i \in Slots
  BY EvolutionConstants DEF EvolutionInit
<1> QED BY <1>1, <1>2 DEF EvolutionInit, EvolutionInv, Types, EvolutionTypeOK, Progress

LEMMA LoadPreserves ==
  ASSUME EvolutionInv, NEW s \in Species, NEW set \in Vanilla[s], LoadEvolutions(s, set)
  PROVE  EvolutionInv'
<1> USE DEF LoadEvolutions, EvolutionInv, Types, EvolutionTypeOK
<1>1. /\ set \in [Slots -> Methods] /\ EachLevel(set) \in [Slots -> Methods]
      /\ \A k \in Slots : set[k].species = NoSpecies => set[k].method = "None"
  BY VanillaTypes
<1>2. 0 \in Slots
  BY EvolutionConstants
<1>3. Types'
  BY <1>1, <1>2
<1>4. CASE ~ evo_rng.enabled
  BY <1>3, <1>4 DEF Progress
<1>5. CASE evo_rng.enabled /\ evo_rng.each_level
  <2>1. methods'[0].species = loaded'[0].species /\ methods'[0].method = "LevelUp"
    BY <1>1, <1>2, <1>5 DEF EachLevel, Methods
  <2> QED BY <2>1, <1>3, <1>5 DEF Progress, FirstSlotLoop
<1>6. CASE evo_rng.enabled /\ ~ evo_rng.each_level
  BY <1>3, <1>6 DEF Progress, SlotLoop
<1> QED BY <1>4, <1>5, <1>6

\* Once slot i is replaced and the others are as the loop has them, the next slot or the
\* game finds what it expects.
LEMMA NextSlotPreserves ==
  ASSUME Types, Types', evo_rng.enabled, ~ evo_rng.each_level,
         at \in {"slot", "draw"}, SlotLoop, NextSlot,
         NEW here \in Slots, here = i, Replaced(here)',
         UNCHANGED <<evo_rng, species, loaded>>,
         \A k \in Slots : k # i => methods'[k] = methods[k]
  PROVE  Progress'
<1> USE DEF Types, EvolutionTypeOK
<1>1. \A k \in Slots : k < i => Replaced(k)'
  BY DEF SlotLoop, Replaced, Drawn, SharesType
<1>2. \A k \in Slots : k = i => Replaced(k)'
  OBVIOUS
<1>3. \A k \in Slots : k > i => methods'[k] = loaded'[k]
  BY DEF SlotLoop
<1>4. CASE i = LastSlot
  <2>1. \A k \in Slots : Replaced(k)'
    <3> SUFFICES ASSUME NEW k \in Slots PROVE Replaced(k)'
      OBVIOUS
    <3>1. k < i \/ k = i
      BY <1>4, EvolutionConstants
    <3> QED BY <3>1, <1>1, <1>2
  <2> QED BY <2>1, <1>4 DEF NextSlot, Progress, Done, Replaced, Drawn, SharesType
<1>5. CASE i # LastSlot
  <2>1. i' = i + 1 /\ at' = "slot"
    BY <1>5 DEF NextSlot
  <2>2. \A k \in Slots : k < i' => Replaced(k)'
    <3> SUFFICES ASSUME NEW k \in Slots, k < i' PROVE Replaced(k)'
      OBVIOUS
    <3>1. k < i \/ k = i
      BY <2>1, EvolutionConstants
    <3> QED BY <3>1, <1>1, <1>2
  <2>3. \A k \in Slots : k > i' => methods'[k] = loaded'[k]
    BY <2>1, <1>3, EvolutionConstants
  <2>4. methods'[i'] = loaded'[i']
    BY <2>1, <1>3, <1>5, EvolutionConstants
  <2>5. SlotLoop'
    BY <2>1, <2>2, <2>3, <2>4 DEF SlotLoop, Replaced, Drawn, SharesType
  <2> QED BY <2>1, <2>5 DEF Progress
<1> QED BY <1>4, <1>5

LEMMA StartSlotPreserves == ASSUME EvolutionInv, StartSlot PROVE EvolutionInv'
<1> USE DEF EvolutionInv, Types, EvolutionTypeOK
<1>1. evo_rng.enabled /\ ~ evo_rng.each_level /\ SlotLoop /\ at = "slot" /\ methods[i] = loaded[i]
  BY DEF StartSlot, Progress, FirstSlotLoop, SlotLoop
<1>2. CASE methods[i].species = NoSpecies
  <2>1. NextSlot /\ UNCHANGED <<methods, evo_rng, species, loaded, info>>
    BY <1>2 DEF StartSlot
  <2>2. Types'
    BY <2>1, EvolutionConstants DEF NextSlot
  <2>3. \A k \in Slots : k = i => Replaced(k)'
    BY <1>1, <1>2, <2>1 DEF Replaced
  <2> QED BY <1>1, <2>1, <2>2, <2>3, NextSlotPreserves
<1>3. CASE methods[i].species # NoSpecies
  <2>1. /\ methods' = [methods EXCEPT ![i] = WithoutTrade(@)]
        /\ at' = "draw" /\ i' = i
        /\ UNCHANGED <<evo_rng, species, info, loaded>>
    BY <1>3 DEF StartSlot
  <2>2. methods[i] \in Methods
    OBVIOUS
  <2>3. /\ WithoutTrade(methods[i]) \in Methods
        /\ WithoutTrade(methods[i]).species = methods[i].species
        /\ WithoutTrade(methods[i]).method \notin {"Trade", "TradeHeldItem"}
    BY <2>2, TradeGone
  <2>4. Types'
    BY <2>1, <2>3
  <2>5. \A k \in Slots : k # i => methods'[k] = methods[k]
    BY <2>1
  <2>6. methods'[i] = WithoutTrade(methods[i])
    BY <2>1
  <2>7. \A k \in Slots : k < i => Replaced(k)'
    BY <1>1, <2>1, <2>5 DEF SlotLoop, Replaced, Drawn, SharesType
  <2>8. \A k \in Slots : k > i => methods'[k] = loaded'[k]
    BY <1>1, <2>1, <2>5 DEF SlotLoop
  <2>9. SlotLoop'
    BY <1>1, <1>3, <2>1, <2>3, <2>6, <2>7, <2>8 DEF SlotLoop, Replaced, Drawn, SharesType
  <2> QED BY <1>1, <2>1, <2>4, <2>9 DEF Progress
<1> QED BY <1>2, <1>3

LEMMA DrawPreserves == ASSUME EvolutionInv, NEW c \in Species, Draw(c) PROVE EvolutionInv'
<1> USE DEF EvolutionInv, Types, EvolutionTypeOK
<1>1. evo_rng.enabled /\ at = "draw"
  BY DEF Draw, Progress
<1>2. UNCHANGED <<evo_rng, species, loaded>> /\ info' = c
  BY DEF Draw
<1>3. CASE ~ (Changed(c) /\ Accepted(c))
  <2>1. UNCHANGED <<at, methods, i>>
    BY <1>3 DEF Draw
  <2>2. Types'
    BY <1>2, <2>1
  <2>3. Progress'
    BY <1>1, <1>2, <2>1
       DEF Progress, FirstSlotLoop, SlotLoop, Replaced, Drawn, SharesType, Done
  <2> QED BY <2>2, <2>3
<1>4. CASE Changed(c) /\ Accepted(c) /\ evo_rng.each_level
  <2>1. /\ methods' = [k \in Slots |-> IF k = 0 THEN [methods[0] EXCEPT !.species = c]
                                       ELSE [methods[k] EXCEPT !.method = "None"]]
        /\ at' = "game" /\ i' = 0
    BY <1>4 DEF Draw
  <2>2. 0 \in Slots /\ \A k \in Slots : methods[k] \in Methods
    BY EvolutionConstants
  <2>3. /\ [methods[0] EXCEPT !.species = c] \in Methods
        /\ \A k \in Slots : [methods[k] EXCEPT !.method = "None"] \in Methods
    BY <2>2 DEF Methods, Trades, Levels
  <2>4. Types'
    BY <1>2, <2>1, <2>2, <2>3
  <2>5. methods'[0].species = c /\ methods'[0].method = methods[0].method
    BY <2>1, <2>2 DEF Methods
  <2>6. \A k \in Slots : k > 0 => methods'[k].method = "None"
    <3> SUFFICES ASSUME NEW k \in Slots, k > 0 PROVE methods'[k].method = "None"
      OBVIOUS
    <3>1. methods'[k] = [methods[k] EXCEPT !.method = "None"]
      BY <2>1
    <3> QED BY <2>2, <3>1 DEF Methods
  <2>7. FirstSlotLoop /\ c # methods[0].species
    BY <1>1, <1>4 DEF Progress, FirstSlotLoop, Changed
  <2>8. FirstReplaced'
    BY <1>2, <1>4, <2>5, <2>6, <2>7
       DEF FirstReplaced, FirstSlotLoop, Drawn, Accepted, SharesType
  <2> QED BY <1>2, <1>4, <2>1, <2>4, <2>8 DEF Progress, Done
<1>5. CASE Changed(c) /\ Accepted(c) /\ ~ evo_rng.each_level
  <2>1. methods' = [methods EXCEPT ![i].species = c] /\ NextSlot
    BY <1>5 DEF Draw
  <2>2. SlotLoop
    BY <1>1, <1>5 DEF Progress
  <2>3. methods[i] \in Methods
    OBVIOUS
  <2>4. [methods[i] EXCEPT !.species = c] \in Methods
    BY <2>3 DEF Methods
  <2>5. methods'[i] = [methods[i] EXCEPT !.species = c]
    BY <2>1
  <2>6. methods'[i].species = c /\ methods'[i].method = methods[i].method
    BY <2>3, <2>5 DEF Methods
  <2>7. Types'
    BY <1>2, <2>1, <2>4, EvolutionConstants DEF NextSlot
  <2>8. \A k \in Slots : k = i => Replaced(k)'
    BY <1>1, <1>2, <1>5, <2>2, <2>6
       DEF SlotLoop, Replaced, Drawn, Changed, Accepted, SharesType
  <2>9. \A k \in Slots : k # i => methods'[k] = methods[k]
    BY <2>1
  <2> QED BY <1>1, <1>2, <1>5, <2>1, <2>2, <2>7, <2>8, <2>9, NextSlotPreserves
<1> QED BY <1>3, <1>4, <1>5

\* The hook stays inside its nine slots, and every species and method it leaves is one
\* the game has.
THEOREM Invariant == EvolutionSpec => []EvolutionInv
<1>1. EvolutionInit => EvolutionInv
  BY EvolutionStarts
<1>2. EvolutionInv /\ [EvolutionNext]_evolutionVars => EvolutionInv'
  <2> SUFFICES ASSUME EvolutionInv, [EvolutionNext]_evolutionVars PROVE EvolutionInv'
    OBVIOUS
  <2>1. ASSUME NEW s \in Species, NEW set \in Vanilla[s], LoadEvolutions(s, set) PROVE EvolutionInv'
    BY <2>1, LoadPreserves
  <2>2. CASE StartSlot
    BY <2>2, StartSlotPreserves
  <2>3. ASSUME NEW c \in Species, Draw(c) PROVE EvolutionInv'
    BY <2>3, DrawPreserves
  <2>4. CASE UNCHANGED evolutionVars
    BY <2>4 DEF evolutionVars, EvolutionInv, Types, EvolutionTypeOK, Progress, FirstSlotLoop, SlotLoop, Done,
                FirstReplaced, Replaced, Drawn, SharesType
  <2> QED BY <2>1, <2>2, <2>3, <2>4 DEF EvolutionNext
<1> QED BY <1>1, <1>2, PTL DEF EvolutionSpec

\* Type correctness of the hook, for any number of slots.
THEOREM EvolutionTypeCorrect == EvolutionSpec => []EvolutionTypeOK
<1>1. EvolutionInv => EvolutionTypeOK
  BY DEF EvolutionInv, Types
<1> QED BY <1>1, Invariant, PTL

\* evolution.hpp, both loops: whenever the game goes on with a set, every evolution that
\* was there is another one of the same growth, sharing a type if that is asked for.
THEOREM ReplacedWell == EvolutionSpec => []EvolutionsReplaced
<1>1. EvolutionInv => EvolutionsReplaced
  <2> SUFFICES ASSUME EvolutionInv, at = "game", evo_rng.enabled, NEW k \in Slots
               PROVE  IF evo_rng.each_level /\ k > 0 THEN methods[k].method = "None"
                      ELSE IF loaded[k].species = NoSpecies /\ ~ evo_rng.each_level
                      THEN methods[k] = loaded[k]
                      ELSE /\ Drawn(k)
                           /\ Growth[methods[k].species] = Growth[species]
                           /\ evo_rng.match_types => SharesType(species, methods[k].species)
    BY DEF EvolutionsReplaced
  <2>1. Done
    BY DEF EvolutionInv, Progress
  <2>2. CASE evo_rng.each_level /\ k > 0
    BY <2>1, <2>2 DEF Done, FirstReplaced
  <2>3. CASE evo_rng.each_level /\ ~ (k > 0)
    <3>1. k = 0
      BY <2>3, EvolutionConstants
    <3> QED BY <2>1, <2>3, <3>1 DEF Done, FirstReplaced
  <2>4. CASE ~ evo_rng.each_level
    BY <2>1, <2>4 DEF Done, Replaced
  <2> QED BY <2>2, <2>3, <2>4
<1> QED BY <1>1, Invariant, PTL

\* evolution.hpp:79-94: no evolution that was a plain trade, or a trade with an item, is one
\* when the game goes on.
THEOREM NoTradeLeft == EvolutionSpec => []TradesReplaced
<1>1. EvolutionInv => TradesReplaced
  <2> SUFFICES ASSUME EvolutionInv, at = "game", evo_rng.enabled, NEW k \in Slots
               PROVE  methods[k].method \notin {"Trade", "TradeHeldItem"}
    BY DEF TradesReplaced
  <2>1. Done
    BY DEF EvolutionInv, Progress
  <2>2. CASE evo_rng.each_level
    <3>1. k = 0 \/ k > 0
      BY EvolutionConstants
    <3> QED BY <2>1, <2>2, <3>1 DEF Done, FirstReplaced
  <2>3. CASE ~ evo_rng.each_level
    BY <2>1, <2>3 DEF Done, Replaced, EvolutionInv, Types
  <2> QED BY <2>2, <2>3
<1> QED BY <1>1, Invariant, PTL
=============================================================================
