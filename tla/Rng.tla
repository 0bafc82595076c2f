-------------------------------- MODULE Rng --------------------------------
(***************************************************************************)
(* source/program/rng_manager.hpp: what the patches draw from a generator. *)
(* A generator is its sequence of numbers, taken round and round, and the  *)
(* place it has reached; what draws returns what it drew as val and the    *)
(* generator behind it as gen.                                             *)
(***************************************************************************)
EXTENDS Integers, Sequences, FiniteSets

CONSTANTS
  SpeciesMax, FormCount,    \* 899 in the game; from a species to its number of forms
  InGame,                   \* the pairs of species and form that isInGame accepts
  MoveMax, Usable,          \* 820 in the game; the moves that IsMoveUsable accepts
  MoveSlots,                \* 4
  HeldItems, TMs            \* VALID_HELD_ITEMS and VALID_TMS, sequences

ASSUME RngConstants ==
  /\ SpeciesMax \in Nat \ {0} /\ FormCount \in [1 .. SpeciesMax -> Nat]
  /\ InGame \subseteq (1 .. SpeciesMax) \X Nat
  /\ MoveMax \in Nat \ {0} /\ MoveSlots \in Nat /\ Usable \subseteq 1 .. MoveMax
  /\ HeldItems \in Seq(Nat) /\ HeldItems # <<>>
  /\ TMs \in Seq(Nat) /\ TMs # <<>>

Generator(numbers) == [numbers |-> numbers, at |-> 1]

\* A draw is a function of the places a generator may have reached.
Places(g) == [numbers : {g.numbers}, at : DOMAIN g.numbers]

operator(g) == [val |-> g.numbers[g.at],
                gen |-> [g EXCEPT !.at = IF @ = Len(g.numbers) THEN 1 ELSE @ + 1]]

\* do val = draw while it is not accepted.  Where as many tries as there are places have
\* not found one, none ever does.
Until(g, draw, accepted) ==
  LET tried[k \in 0 .. Len(g.numbers)] ==
        IF k = 0 THEN draw[g]
        ELSE LET last == tried[k - 1]
             IN  IF last.val \in accepted THEN last ELSE draw[last.gen]
  IN  tried[Len(g.numbers)]

\* What a generator would draw, accepted or not: a loop that finds some of it ends.
Ahead(g, draw) ==
  LET place[k \in 0 .. Len(g.numbers)] == IF k = 0 THEN g ELSE draw[place[k - 1]].gen
  IN  { draw[place[k]].val : k \in 0 .. Len(g.numbers) }

\* Draws one behind the other, of which the k-th is draw[k].
Draws(g, draw) ==
  LET first[k \in 0 .. Len(draw)] ==
        IF k = 0 THEN [val |-> <<>>, gen |-> g]
        ELSE LET before == first[k - 1]
                 d == draw[k][before.gen]
             IN  [val |-> Append(before.val, d.val), gen |-> d.gen]
  IN  first[Len(draw)]

\* std::bit_ceil; no number that is drawn below another has more than 16 bits.
BitCeil(n) ==
  LET power[k \in 0 .. 16] ==
        IF k = 0 THEN 1
        ELSE LET last == power[k - 1] IN IF last < n THEN 2 * last ELSE last
  IN  power[16]

\* bit_ceil(maximum) - 1 as a mask leaves the remainder by bit_ceil(maximum).
Masked(g, maximum) ==
  LET size == BitCeil(maximum)
  IN  [h \in Places(g) |-> [operator(h) EXCEPT !.val = @ % size]]

RandMax(g, maximum) ==
  IF maximum \in {0, 1} THEN [val |-> 0, gen |-> g]
  ELSE Until(g, Masked(g, maximum), 0 .. maximum - 1)

RandRange(g, minimum, maximum) ==
  [RandMax(g, maximum - minimum + 1) EXCEPT !.val = minimum + @]

RandElement(g, input) == [RandMax(g, Len(input)) EXCEPT !.val = input[@ + 1]]
RandHeldItem(g) == RandElement(g, HeldItems)
RandTM(g) == RandElement(g, TMs)
RandChance(g, denominator) == [RandMax(g, denominator) EXCEPT !.val = (@ = 0)]

SpeciesThenForm(g) ==
  LET species == RandRange(g, 1, SpeciesMax)
      form    == RandMax(species.gen, FormCount[species.val])
  IN  [val |-> <<species.val, form.val>>, gen |-> form.gen]

Candidates(g) == [h \in Places(g) |-> SpeciesThenForm(h)]
RandSpeciesAndForm(g) == Until(g, Candidates(g), InGame)

MoveIds(g) == [h \in Places(g) |-> RandRange(h, 1, MoveMax)]
RandValidMoveId(g) == Until(g, MoveIds(g), Usable)

\* A move that is among those before it is drawn again.
ValidMoveIds(g) == [h \in Places(g) |-> RandValidMoveId(h)]
RandMoves(g) ==
  LET first[k \in 0 .. MoveSlots] ==
        IF k = 0 THEN [val |-> <<>>, gen |-> g]
        ELSE LET before == first[k - 1]
                 d == Until(before.gen, ValidMoveIds(g),
                            Usable \ { before.val[j] : j \in DOMAIN before.val })
             IN  [val |-> Append(before.val, d.val), gen |-> d.gen]
  IN  first[MoveSlots]

\* The loops end wherever a generator has got to.  One as long as the program's draws
\* whatever can be drawn before it comes round.
LoopsEnd(numbers) ==
  /\ numbers \in Seq(Nat) /\ \E k \in DOMAIN numbers : numbers[k] = 0
  /\ \A g \in Places(Generator(numbers)) :
       /\ Ahead(g, Candidates(g)) \cap InGame # {}
       /\ Ahead(g, MoveIds(g)) \cap Usable # {}
       /\ Cardinality(Ahead(g, ValidMoveIds(g))) >= MoveSlots
=============================================================================
