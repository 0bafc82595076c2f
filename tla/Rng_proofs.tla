----------------------------- MODULE Rng_proofs -----------------------------
(***************************************************************************)
(* What the draws of Rng return, for any numbers a generator may have and  *)
(* from any place in them: the loops stop at what they look for, a choice  *)
(* is one of those there are, the moves of a set differ, and a generator   *)
(* never leaves its numbers.                                               *)
(***************************************************************************)
EXTENDS Rng, FiniteSetTheorems, SequenceTheorems, TLAPS

-----------------------------------------------------------------------------
(***************************************************************************)
(* Recursion over the natural numbers.  The library's theorems on it take  *)
(* an operator, which no prover here can fill in; that the finite sets are *)
(* well-founded by inclusion is one without, and the natural numbers are   *)
(* therefore too.                                                          *)
(***************************************************************************)
LEMMA LeastNat ==
  ASSUME NEW T, T \subseteq Nat, T # {}
  PROVE  \E n \in T : \A m \in T : n <= m
<1> DEFINE R == StrictSubsetOrdering(Nat)
           UpTo(n) == { m \in T : m <= n }
           C == { UpTo(n) : n \in T }
<1>1. IsWellFoundedOn(R, FiniteSubsetsOf(Nat))
  BY FS_StrictSubsetOrderingWellFounded
<1>2. C \subseteq FiniteSubsetsOf(Nat) /\ C # {}
  <2>1. ASSUME NEW n \in T PROVE UpTo(n) \in FiniteSubsetsOf(Nat)
    <3>1. UpTo(n) \in SUBSET Nat /\ n \in Nat
      OBVIOUS
    <3>2. IsFiniteSet(UpTo(n))
      BY <3>1, FS_BoundedSetOfNaturals
    <3> QED BY <3>1, <3>2 DEF FiniteSubsetsOf
  <2> QED BY <2>1
<1>3. PICK c \in C : \A d \in C : ~ (<<d, c>> \in R)
  <2> HIDE DEF C, R
  <2> QED BY <1>1, <1>2, WFMin
<1>4. PICK n \in T : c = UpTo(n)
  OBVIOUS
<1>5. ASSUME NEW m \in T, m < n PROVE FALSE
  <2>1. m \in Int /\ n \in Int /\ \A k \in T : k \in Int
    OBVIOUS
  <2>2. n \in UpTo(n) /\ n \notin UpTo(m) /\ \A k \in UpTo(m) : k \in UpTo(n)
    BY <1>5, <2>1
  <2>3. UpTo(m) \in SUBSET Nat /\ UpTo(n) \in SUBSET Nat /\ UpTo(m) \in C
    OBVIOUS
  <2>4. <<UpTo(m), UpTo(n)>> \in R
    BY <2>2, <2>3 DEF StrictSubsetOrdering
  <2> QED BY <1>3, <1>4, <2>3, <2>4
<1>6. n \in Int /\ \A m \in T : m \in Int
  OBVIOUS
<1> QED BY <1>5, <1>6

LEMMA Induct ==
  ASSUME NEW S, 0 \in S, \A n \in Nat : n \in S => n + 1 \in S
  PROVE  Nat \subseteq S
<1> DEFINE T == Nat \ S
<1>1. CASE T # {}
  <2>1. PICK n \in T : \A m \in T : n <= m
    BY <1>1, LeastNat
  <2>2. n # 0 /\ n \in Nat
    OBVIOUS
  <2>3. n - 1 \in Nat /\ n - 1 \notin T /\ n - 1 + 1 = n
    BY <2>1, <2>2
  <2> QED BY <2>3
<1> QED BY <1>1

\* n steps from a, of which the k-th is step[k].
Steps(a, n, step, f) == f = [k \in 0 .. n |-> IF k = 0 THEN a ELSE step[k][f[k - 1]]]

Closed(n, D, step) == \A k \in 1 .. n : \A x \in D : step[k][x] \in D

LEMMA StepsExist ==
  ASSUME NEW n \in Nat, NEW D, NEW a \in D, NEW step, Closed(n, D, step)
  PROVE  \E f \in [0 .. n -> D] : Steps(a, n, step, f)
<1> DEFINE S == { m \in Nat : m <= n => \E f \in [0 .. m -> D] : Steps(a, m, step, f) }
<1>1. 0 \in S
  <2> DEFINE f0 == [k \in 0 .. 0 |-> a]
  <2>1. f0 \in [0 .. 0 -> D] /\ Steps(a, 0, step, f0)
    BY DEF Steps
  <2> QED BY <2>1
<1>2. ASSUME NEW m \in Nat, m \in S PROVE m + 1 \in S
  <2> SUFFICES ASSUME m + 1 <= n
               PROVE  \E f \in [0 .. m + 1 -> D] : Steps(a, m + 1, step, f)
    OBVIOUS
  <2>1. PICK f \in [0 .. m -> D] : Steps(a, m, step, f)
    BY <1>2
  <2> DEFINE more == [k \in 0 .. m + 1 |-> IF k = m + 1 THEN step[k][f[m]] ELSE f[k]]
  <2>2. more \in [0 .. m + 1 -> D]
    <3>1. m + 1 \in 1 .. n /\ m \in 0 .. m
      OBVIOUS
    <3>2. step[m + 1][f[m]] \in D
      BY <3>1 DEF Closed
    <3> QED BY <3>2
  <2>3. Steps(a, m + 1, step, more)
    <3>1. ASSUME NEW k \in 0 .. m + 1
          PROVE  more[k] = IF k = 0 THEN a ELSE step[k][more[k - 1]]
      <4>1. f[0] = a /\ \A j \in 1 .. m : f[j] = step[j][f[j - 1]]
        BY <2>1 DEF Steps
      <4>2. CASE k = 0
        BY <4>1, <4>2
      <4>3. CASE k = m + 1
        <5>1. m + 1 \in 0 .. m + 1 /\ m \in 0 .. m + 1 /\ m + 1 # m /\ m + 1 - 1 = m
          OBVIOUS
        <5> QED BY <4>3, <5>1
      <4>4. CASE k \in 1 .. m
        <5>1. k - 1 \in 0 .. m + 1 /\ k - 1 # m + 1 /\ k # m + 1 /\ k # 0
          BY <4>4
        <5> QED BY <4>1, <4>4, <5>1
      <4> QED BY <4>2, <4>3, <4>4
    <3> HIDE DEF more
    <3> QED BY <2>2, <3>1 DEF Steps
  <2> HIDE DEF more
  <2> QED BY <2>2, <2>3
<1>3. Nat \subseteq S
  <2> HIDE DEF S
  <2> QED BY <1>1, <1>2, Induct
<1> QED BY <1>3

\* What starts with a and goes on by those steps while it is in D stays in D.
Follows(a, n, D, step, f) ==
  f[0] = a /\ \A k \in 1 .. n : f[k - 1] \in D => f[k] = step[k][f[k - 1]]

LEMMA StepsStay ==
  ASSUME NEW n \in Nat, NEW D, NEW a \in D, NEW step, Closed(n, D, step),
         NEW f, Follows(a, n, D, step, f)
  PROVE  \A k \in 0 .. n : f[k] \in D
<1> USE DEF Closed, Follows
<1> DEFINE S == { m \in Nat : m <= n => f[m] \in D }
<1>1. 0 \in S
  OBVIOUS
<1>2. ASSUME NEW m \in Nat, m \in S PROVE m + 1 \in S
  <2> SUFFICES ASSUME m + 1 <= n PROVE f[m + 1] \in D
    OBVIOUS
  <2>1. m + 1 \in 1 .. n /\ m + 1 - 1 = m /\ f[m] \in D
    BY <1>2
  <2> QED BY <2>1
<1>3. Nat \subseteq S
  <2> HIDE DEF S
  <2> QED BY <1>1, <1>2, Induct
<1> QED BY <1>3

-----------------------------------------------------------------------------
(* Generators *)

\* A generator with numbers, at one of their places.
Running(g) == g \in Places(g) /\ g.numbers \in Seq(Nat)

\* A draw from the places of g.
IsDraw(g, draw) == DOMAIN draw = Places(g) /\ \A h \in Places(g) : draw[h].gen \in Places(g)

LEMMA SamePlaces ==
  ASSUME NEW g, NEW h \in Places(g), Running(g)
  PROVE  /\ Running(h) /\ Places(h) = Places(g) /\ h.numbers = g.numbers
         /\ Len(g.numbers) \in Nat /\ h.at \in 1 .. Len(g.numbers)
<1>1. h.numbers = g.numbers
  BY DEF Places
<1> QED BY <1>1 DEF Running, Places

LEMMA operatorDraws ==
  ASSUME NEW g, Running(g)
  PROVE  operator(g).val \in Nat /\ operator(g).gen \in Places(g)
<1>1. g = [numbers |-> g.numbers, at |-> g.at] /\ g.at \in 1 .. Len(g.numbers)
  BY DEF Running, Places
<1>2. operator(g).val = g.numbers[g.at]
  BY DEF operator
<1>3. operator(g).gen = [numbers |-> g.numbers, at |-> IF g.at = Len(g.numbers) THEN 1 ELSE g.at + 1]
  BY <1>1 DEF operator
<1>4. (IF g.at = Len(g.numbers) THEN 1 ELSE g.at + 1) \in DOMAIN g.numbers
  BY <1>1 DEF Running
<1>5. operator(g).gen \in Places(g)
  BY <1>3, <1>4 DEF Places
<1> QED BY <1>1, <1>2, <1>5 DEF Running

\* The places a generator comes to as draw is drawn from it again and again.
LEMMA AheadPlaces ==
  ASSUME NEW g, Running(g), NEW draw, IsDraw(g, draw)
  PROVE  \E place :
           /\ place[0] = g /\ \A k \in 0 .. Len(g.numbers) : place[k] \in Places(g)
           /\ \A k \in 1 .. Len(g.numbers) : place[k] = draw[place[k - 1]].gen
           /\ Ahead(g, draw) = { draw[place[k]].val : k \in 0 .. Len(g.numbers) }
<1> DEFINE n == Len(g.numbers)
           literally(f) == f = [k \in 0 .. n |-> IF k = 0 THEN g ELSE draw[f[k - 1]].gen]
           step == [k \in 1 .. n |-> [h \in Places(g) |-> draw[h].gen]]
           place == CHOOSE f : literally(f)
<1>1. n \in Nat /\ g \in Places(g)
  BY SamePlaces DEF Running
<1>2. Ahead(g, draw) = { draw[place[k]].val : k \in 0 .. n }
  BY DEF Ahead
<1> HIDE DEF n
<1>3. \A k \in 1 .. n : \A h \in Places(g) : step[k][h] = draw[h].gen /\ step[k][h] \in Places(g)
  BY DEF IsDraw
<1>4. \E f : literally(f)
  <2>1. PICK f \in [0 .. n -> Places(g)] : Steps(g, n, step, f)
    <3> HIDE DEF step
    <3>1. Closed(n, Places(g), step)
      BY <1>3 DEF Closed
    <3> QED BY <1>1, <3>1, StepsExist
  <2>2. ASSUME NEW k \in 0 .. n
        PROVE  f[k] = IF k = 0 THEN g ELSE draw[f[k - 1]].gen
    <3>1. f[k] = IF k = 0 THEN g ELSE step[k][f[k - 1]]
      <4> HIDE DEF step
      <4> QED BY <2>1 DEF Steps
    <3>2. k # 0 => k \in 1 .. n /\ f[k - 1] \in Places(g)
      BY <1>1
    <3> HIDE DEF step
    <3> QED BY <1>3, <3>1, <3>2
  <2>3. f = [k \in 0 .. n |-> IF k = 0 THEN g ELSE draw[f[k - 1]].gen]
    BY <2>2
  <2> QED BY <2>3
<1>5. literally(place)
  <2> HIDE DEF literally
  <2> QED BY <1>4
<1> HIDE DEF place
<1>6. place[0] = g /\ \A k \in 1 .. n : place[k] = draw[place[k - 1]].gen
  BY <1>1, <1>5
<1>7. \A k \in 0 .. n : place[k] \in Places(g)
  <2> HIDE DEF step, literally
  <2>1. Follows(g, n, Places(g), step, place)
    BY <1>3, <1>6 DEF Follows
  <2>2. Closed(n, Places(g), step)
    BY <1>3 DEF Closed
  <2> QED BY <1>1, <2>1, <2>2, StepsStay
<1> QED BY <1>2, <1>6, <1>7 DEF n

\* A loop that has what it looks for ahead of it returns a draw that it accepts.
THEOREM UntilFinds ==
  ASSUME NEW g, Running(g), NEW draw, IsDraw(g, draw), NEW accepted,
         Ahead(g, draw) \cap accepted # {}
  PROVE  \E h \in Places(g) : Until(g, draw, accepted) = draw[h] /\ draw[h].val \in accepted
<1> DEFINE n == Len(g.numbers)
           D == { draw[h] : h \in Places(g) }
           literally(f) ==
             f = [k \in 0 .. n |->
                    IF k = 0 THEN draw[g]
                    ELSE LET last == f[k - 1]
                         IN  IF last.val \in accepted THEN last ELSE draw[last.gen]]
           again == [d \in D |-> IF d.val \in accepted THEN d ELSE draw[d.gen]]
           step == [k \in 1 .. n |-> again]
           tried == CHOOSE f : literally(f)
<1>1. n \in Nat /\ g \in Places(g)
  BY SamePlaces DEF Running
<1>2. Until(g, draw, accepted) = tried[n]
  BY DEF Until
<1> HIDE DEF n
<1>3. draw[g] \in D
  BY <1>1
<1>4. ASSUME NEW d \in D
      PROVE  (IF d.val \in accepted THEN d ELSE draw[d.gen]) \in D
  <2>1. d.gen \in Places(g)
    BY DEF IsDraw
  <2> QED BY <2>1
<1>5. \A k \in 1 .. n : \A d \in D :
        step[k][d] = (IF d.val \in accepted THEN d ELSE draw[d.gen]) /\ step[k][d] \in D
  <2>1. \A k \in 1 .. n : \A d \in D : step[k][d] = IF d.val \in accepted THEN d ELSE draw[d.gen]
    <3> HIDE DEF D
    <3> QED OBVIOUS
  <2> HIDE DEF step, again
  <2> QED BY <1>4, <2>1
<1> HIDE DEF step, D
<1>6. \E f : literally(f)
  <2>1. PICK f \in [0 .. n -> D] : Steps(draw[g], n, step, f)
    <3>1. Closed(n, D, step)
      BY <1>5 DEF Closed
    <3> QED BY <1>1, <1>3, <3>1, StepsExist
  <2>2. ASSUME NEW k \in 0 .. n
        PROVE  f[k] = IF k = 0 THEN draw[g]
                      ELSE LET last == f[k - 1]
                           IN  IF last.val \in accepted THEN last ELSE draw[last.gen]
    <3>1. f[k] = IF k = 0 THEN draw[g] ELSE step[k][f[k - 1]]
      BY <2>1 DEF Steps
    <3>2. k # 0 => k \in 1 .. n /\ f[k - 1] \in D
      BY <1>1, <2>1
    <3> QED BY <1>5, <3>1, <3>2
  <2>3. f = [k \in 0 .. n |->
               IF k = 0 THEN draw[g]
               ELSE LET last == f[k - 1]
                    IN  IF last.val \in accepted THEN last ELSE draw[last.gen]]
    BY <2>1, <2>2
  <2> QED BY <2>3
<1>7. literally(tried)
  <2> HIDE DEF literally
  <2> QED BY <1>6
<1> HIDE DEF tried
<1>8. /\ tried[0] = draw[g]
      /\ \A k \in 1 .. n : tried[k] = IF tried[k - 1].val \in accepted THEN tried[k - 1]
                                      ELSE draw[tried[k - 1].gen]
  BY <1>1, <1>7
<1>9. \A k \in 0 .. n : tried[k] \in D
  <2> HIDE DEF literally
  <2>1. Follows(draw[g], n, D, step, tried)
    BY <1>5, <1>8 DEF Follows
  <2>2. Closed(n, D, step)
    BY <1>5 DEF Closed
  <2> QED BY <1>1, <1>3, <2>1, <2>2, StepsStay
<1> HIDE DEF literally
<1>10. PICK place :
         /\ place[0] = g /\ \A k \in 0 .. n : place[k] \in Places(g)
         /\ \A k \in 1 .. n : place[k] = draw[place[k - 1]].gen
         /\ Ahead(g, draw) = { draw[place[k]].val : k \in 0 .. n }
  BY AheadPlaces DEF n
<1>11. PICK j \in 0 .. n : draw[place[j]].val \in accepted
  BY <1>10
<1>12. \A k \in 0 .. n : tried[k].val \in accepted \/ tried[k] = draw[place[k]]
  <2> DEFINE S == { k \in Nat : k <= n => tried[k].val \in accepted \/ tried[k] = draw[place[k]] }
  <2>1. 0 \in S
    BY <1>8, <1>10
  <2>2. ASSUME NEW k \in Nat, k \in S PROVE k + 1 \in S
    <3> SUFFICES ASSUME k + 1 <= n, tried[k + 1].val \notin accepted
                 PROVE  tried[k + 1] = draw[place[k + 1]]
      OBVIOUS
    <3>1. k + 1 \in 1 .. n /\ k + 1 - 1 = k /\ k <= n
      BY <1>1
    <3>2. tried[k].val \notin accepted
      BY <1>8, <3>1
    <3>3. tried[k] = draw[place[k]] /\ tried[k + 1] = draw[tried[k].gen]
      BY <1>8, <2>2, <3>1, <3>2
    <3> QED BY <1>10, <3>1, <3>3
  <2>3. Nat \subseteq S
    <3> HIDE DEF S
    <3> QED BY <2>1, <2>2, Induct
  <2> QED BY <1>1, <2>3
<1>13. tried[j].val \in accepted
  BY <1>11, <1>12
<1>14. tried[n].val \in accepted
  <2> DEFINE S == { k \in Nat : j + k <= n => tried[j + k].val \in accepted }
  <2>1. 0 \in S
    BY <1>11, <1>13
  <2>2. ASSUME NEW k \in Nat, k \in S PROVE k + 1 \in S
    <3> SUFFICES ASSUME j + (k + 1) <= n PROVE tried[j + (k + 1)].val \in accepted
      OBVIOUS
    <3>1. j + (k + 1) \in 1 .. n /\ j + (k + 1) - 1 = j + k /\ j + k <= n
      BY <1>1, <1>11
    <3> QED BY <1>8, <2>2, <3>1
  <2>3. Nat \subseteq S
    <3> HIDE DEF S
    <3> QED BY <2>1, <2>2, Induct
  <2>4. n - j \in Nat /\ j + (n - j) = n
    BY <1>1, <1>11
  <2> QED BY <1>1, <2>3, <2>4
<1>15. PICK h \in Places(g) : tried[n] = draw[h]
  BY <1>1, <1>9 DEF D
<1> QED BY <1>2, <1>14, <1>15

-----------------------------------------------------------------------------
(* Numbers below a maximum *)

LEMMA BitCeilPositive == ASSUME NEW n \in Nat PROVE BitCeil(n) \in Nat \ {0}
<1> DEFINE D == Nat \ {0}
           literally(f) == f = [k \in 0 .. 16 |->
                                  IF k = 0 THEN 1
                                  ELSE LET last == f[k - 1] IN IF last < n THEN 2 * last ELSE last]
           step == [k \in 1 .. 16 |-> [x \in D |-> IF x < n THEN 2 * x ELSE x]]
           power == CHOOSE f : literally(f)
<1>1. BitCeil(n) = power[16]
  BY DEF BitCeil
<1>2. 1 \in D /\ Closed(16, D, step)
  BY DEF Closed
<1>3. \A k \in 1 .. 16 : \A x \in D : step[k][x] = IF x < n THEN 2 * x ELSE x
  OBVIOUS
<1> HIDE DEF D, step
<1>4. \E f : literally(f)
  <2>1. PICK f \in [0 .. 16 -> D] : Steps(1, 16, step, f)
    BY <1>2, StepsExist
  <2>2. ASSUME NEW k \in 0 .. 16
        PROVE  f[k] = IF k = 0 THEN 1
                      ELSE LET last == f[k - 1] IN IF last < n THEN 2 * last ELSE last
    <3>1. f[k] = IF k = 0 THEN 1 ELSE step[k][f[k - 1]]
      BY <2>1 DEF Steps
    <3>2. k # 0 => k \in 1 .. 16 /\ f[k - 1] \in D
      BY <2>1
    <3> QED BY <1>3, <3>1, <3>2
  <2>3. f = [k \in 0 .. 16 |->
               IF k = 0 THEN 1
               ELSE LET last == f[k - 1] IN IF last < n THEN 2 * last ELSE last]
    BY <2>1, <2>2
  <2> QED BY <2>3
<1>5. literally(power)
  <2> HIDE DEF literally
  <2> QED BY <1>4
<1> HIDE DEF power
<1>6. Follows(1, 16, D, step, power)
  BY <1>3, <1>5 DEF Follows
<1>7. power[16] \in D
  <2>1. \A k \in 0 .. 16 : power[k] \in D
    BY <1>2, <1>6, StepsStay
  <2> QED BY <2>1
<1> QED BY <1>1, <1>7 DEF D

\* A number of which the remainder is below any maximum.
Ready(g) == Running(g) /\ \E k \in DOMAIN g.numbers : g.numbers[k] = 0

LEMMA StillReady ==
  ASSUME NEW g, Ready(g), NEW h \in Places(g)
  PROVE  Ready(h) /\ Places(h) = Places(g)
BY SamePlaces DEF Ready

LEMMA MaskedDraws ==
  ASSUME NEW g, Ready(g), NEW maximum \in Nat
  PROVE  /\ IsDraw(g, Masked(g, maximum))
         /\ \A h \in Places(g) : /\ Masked(g, maximum)[h] \in [val : Nat, gen : Places(g)]
                                 /\ Masked(g, maximum)[h].gen = operator(h).gen
                                 /\ g.numbers[h.at] = 0 => Masked(g, maximum)[h].val = 0
<1> DEFINE size == BitCeil(maximum)
<1>1. size \in Nat \ {0}
  BY BitCeilPositive
<1> HIDE DEF size
<1>2. Masked(g, maximum) = [h \in Places(g) |-> [operator(h) EXCEPT !.val = @ % size]]
  BY DEF Masked, size
<1>3. ASSUME NEW h \in Places(g)
      PROVE  /\ Masked(g, maximum)[h].val = operator(h).val % size
             /\ Masked(g, maximum)[h].gen = operator(h).gen
             /\ operator(h).val \in Nat /\ operator(h).gen \in Places(g)
             /\ operator(h).val = g.numbers[h.at]
             /\ Masked(g, maximum)[h] = [val |-> operator(h).val % size, gen |-> operator(h).gen]
  <2>1. Masked(g, maximum)[h] = [operator(h) EXCEPT !.val = @ % size]
    BY <1>2
  <2>2. Running(h) /\ Places(h) = Places(g) /\ h.numbers = g.numbers
    BY SamePlaces DEF Ready
  <2>3. operator(h).val = g.numbers[h.at]
    BY <2>2 DEF operator
  <2>4. [operator(h) EXCEPT !.val = @ % size] = [val |-> operator(h).val % size, gen |-> operator(h).gen]
    BY DEF operator
  <2> QED BY <2>1, <2>2, <2>3, <2>4, operatorDraws
<1>4. IsDraw(g, Masked(g, maximum))
  BY <1>2, <1>3 DEF IsDraw
<1>5. \A v \in Nat : v % size \in Nat /\ (v = 0 => v % size = 0)
  BY <1>1
<1>6. ASSUME NEW h \in Places(g)
      PROVE  /\ Masked(g, maximum)[h] \in [val : Nat, gen : Places(g)]
             /\ Masked(g, maximum)[h].gen = operator(h).gen
             /\ g.numbers[h.at] = 0 => Masked(g, maximum)[h].val = 0
  <2>1. operator(h).val % size \in Nat
    BY <1>3, <1>5
  <2> DEFINE val == operator(h).val % size
             gen == operator(h).gen
  <2>2. Masked(g, maximum)[h] = [val |-> val, gen |-> gen]
    BY <1>3
  <2>3. val \in Nat /\ gen \in Places(g) /\ (g.numbers[h.at] = 0 => val = 0)
    BY <1>3, <1>5, <2>1
  <2> HIDE DEF val
  <2>4. gen = operator(h).gen
    OBVIOUS
  <2> HIDE DEF gen
  <2> QED BY <2>2, <2>3, <2>4
<1> QED BY <1>4, <1>6

\* The generator comes by its zero.
LEMMA ZeroAhead ==
  ASSUME NEW g, Ready(g), NEW maximum \in Nat
  PROVE  0 \in Ahead(g, Masked(g, maximum))
<1> DEFINE n == Len(g.numbers)
           draw == Masked(g, maximum)
<1>1. n \in Nat /\ g \in Places(g) /\ g.at \in 1 .. n /\ DOMAIN g.numbers = 1 .. n
  BY SamePlaces DEF Ready, Running
<1>2. IsDraw(g, draw) /\ Running(g)
  BY MaskedDraws DEF Ready
<1>3. \A h \in Places(g) : /\ draw[h].gen = operator(h).gen
                           /\ g.numbers[h.at] = 0 => draw[h].val = 0
  BY MaskedDraws
<1> HIDE DEF draw
<1>4. PICK place :
        /\ place[0] = g /\ \A k \in 0 .. n : place[k] \in Places(g)
        /\ \A k \in 1 .. n : place[k] = draw[place[k - 1]].gen
        /\ Ahead(g, draw) = { draw[place[k]].val : k \in 0 .. n }
  BY <1>2, AheadPlaces
<1>5. \A h \in Places(g) : h.at \in 1 .. n
                           /\ operator(h).gen.at = IF h.at = n THEN 1 ELSE h.at + 1
  <2>1. ASSUME NEW h \in Places(g)
        PROVE  h.at \in 1 .. n /\ operator(h).gen.at = IF h.at = n THEN 1 ELSE h.at + 1
    <3>1. h.numbers = g.numbers /\ h.at \in 1 .. n
      BY <1>2, SamePlaces
    <3>2. h = [numbers |-> h.numbers, at |-> h.at]
      BY DEF Places
    <3> QED BY <3>1, <3>2 DEF operator
  <2> QED BY <2>1
<1> PICK z \in 1 .. n : g.numbers[z] = 0
  BY <1>1 DEF Ready
<1> PICK a \in 1 .. n : a = g.at
  BY <1>1
<1> HIDE DEF n
<1>6. \A k \in 0 .. n : place[k].at = IF a + k <= n THEN a + k ELSE a + k - n
  <2> DEFINE S == { k \in Nat : k <= n => place[k].at = IF a + k <= n THEN a + k ELSE a + k - n }
  <2>1. 0 \in S
    BY <1>1, <1>4
  <2>2. ASSUME NEW k \in Nat, k \in S PROVE k + 1 \in S
    <3> SUFFICES ASSUME k + 1 <= n
                 PROVE  place[k + 1].at = IF a + (k + 1) <= n THEN a + (k + 1) ELSE a + (k + 1) - n
      OBVIOUS
    <3>1. k + 1 \in 1 .. n /\ k + 1 - 1 = k /\ k \in 0 .. n
      BY <1>1
    <3>2. place[k + 1] = operator(place[k]).gen /\ place[k] \in Places(g)
      BY <1>3, <1>4, <3>1
    <3>3. place[k + 1].at = IF place[k].at = n THEN 1 ELSE place[k].at + 1
      BY <1>5, <3>2
    <3>4. place[k].at = IF a + k <= n THEN a + k ELSE a + k - n
      BY <2>2, <3>1
    <3> DEFINE here == place[k].at
               there == place[k + 1].at
    <3>5. /\ there = IF here = n THEN 1 ELSE here + 1
          /\ here = IF a + k <= n THEN a + k ELSE (a + k) - n
      <4>1. a + k - n = (a + k) - n
        BY <1>1
      <4> QED BY <3>3, <3>4, <4>1
    <3>6. a \in Int /\ n \in Int /\ k \in Int /\ 1 <= a /\ a <= n /\ 0 <= k /\ k + 1 <= n
      BY <1>1
    <3> HIDE DEF here, there
    <3>7. there = IF a + (k + 1) <= n THEN a + (k + 1) ELSE (a + (k + 1)) - n
      <4>1. CASE a + k < n
        BY <3>5, <3>6, <4>1
      <4>2. CASE a + k = n
        BY <3>5, <3>6, <4>2
      <4>3. CASE a + k > n
        BY <3>5, <3>6, <4>3
      <4> QED BY <3>6, <4>1, <4>2, <4>3
    <3>8. a + (k + 1) - n = (a + (k + 1)) - n
      BY <3>6
    <3> QED BY <3>7, <3>8 DEF there
  <2>3. Nat \subseteq S
    <3> HIDE DEF S
    <3> QED BY <2>1, <2>2, Induct
  <2> QED BY <1>1, <2>3
<1>7. PICK j \in 0 .. n : (IF a + j <= n THEN a + j ELSE a + j - n) = z
  <2>0. n \in Int /\ a \in Int /\ z \in Int /\ 1 <= a /\ a <= n /\ 1 <= z /\ z <= n
    BY <1>1
  <2>1. CASE z >= a
    <3> DEFINE j == z - a
    <3>1. j \in 0 .. n /\ a + j = z
      BY <2>0, <2>1
    <3> HIDE DEF j
    <3> QED BY <2>0, <3>1
  <2>2. CASE z < a
    <3> DEFINE j == (z - a) + n
    <3>1. j \in 0 .. n /\ a + j = z + n
      BY <2>0, <2>2
    <3>2. ~ (z + n <= n) /\ (z + n) - n = z
      BY <2>0
    <3> HIDE DEF j
    <3>3. ~ (a + j <= n) /\ a + j - n = z
      BY <2>0, <3>1, <3>2
    <3>4. (IF a + j <= n THEN a + j ELSE a + j - n) = z
      BY <3>3
    <3> QED BY <3>1, <3>4
  <2> QED BY <1>1, <2>1, <2>2
<1>8. draw[place[j]].val = 0
  BY <1>3, <1>4, <1>6, <1>7
<1> QED BY <1>4, <1>8 DEF draw

LEMMA RandMaxDraws ==
  ASSUME NEW g, Ready(g), NEW maximum \in Nat
  PROVE  /\ RandMax(g, maximum) \in [val : Nat, gen : Places(g)]
         /\ maximum > 0 => RandMax(g, maximum).val < maximum
<1>1. CASE maximum \in {0, 1}
  BY <1>1 DEF RandMax, Ready, Running
<1>2. CASE maximum \notin {0, 1}
  <2>1. IsDraw(g, Masked(g, maximum)) /\ Running(g)
    BY MaskedDraws DEF Ready
  <2>2. 0 \in Ahead(g, Masked(g, maximum)) /\ 0 \in 0 .. maximum - 1
    BY <1>2, ZeroAhead
  <2>3. PICK h \in Places(g) : /\ Until(g, Masked(g, maximum), 0 .. maximum - 1) = Masked(g, maximum)[h]
                               /\ Masked(g, maximum)[h].val \in 0 .. maximum - 1
    BY <2>1, <2>2, UntilFinds
  <2>4. RandMax(g, maximum) = Masked(g, maximum)[h]
    BY <1>2, <2>3 DEF RandMax
  <2>5. Masked(g, maximum)[h] \in [val : Nat, gen : Places(g)]
    BY MaskedDraws
  <2> QED BY <2>3, <2>4, <2>5
<1> QED BY <1>1, <1>2

LEMMA RandRangeDraws ==
  ASSUME NEW g, Ready(g), NEW minimum \in Nat, NEW maximum \in Nat, minimum <= maximum
  PROVE  RandRange(g, minimum, maximum) \in [val : minimum .. maximum, gen : Places(g)]
<1> PICK size \in Nat : size = maximum - minimum + 1
  <2>1. maximum - minimum \in Nat
    OBVIOUS
  <2> QED BY <2>1
<1> DEFINE d == RandMax(g, size)
<1>1. d \in [val : Nat, gen : Places(g)] /\ d.val < size
  <2>1. size > 0
    <3>1. maximum - minimum \in Nat
      OBVIOUS
    <3> QED BY <3>1
  <2> QED BY <2>1, RandMaxDraws
<1>2. RandRange(g, minimum, maximum) = [d EXCEPT !.val = minimum + @]
  BY DEF RandRange
<1> HIDE DEF d
<1>3. minimum + d.val \in minimum .. maximum
  <2>1. d.val \in Nat
    BY <1>1
  <2>2. maximum - minimum \in Nat /\ d.val <= maximum - minimum
    BY <1>1, <2>1
  <2> QED BY <2>1, <2>2
<1> QED BY <1>1, <1>2, <1>3

\* A choice is one of those there are.
LEMMA RandElementDraws ==
  ASSUME NEW g, Ready(g), NEW input \in Seq(Nat), input # <<>>
  PROVE  RandElement(g, input) \in [val : { input[k] : k \in DOMAIN input }, gen : Places(g)]
<1>1. Len(input) \in Nat /\ Len(input) > 0 /\ DOMAIN input = 1 .. Len(input)
  <2>1. Len(input) # 0
    BY EmptySeq
  <2> QED BY <2>1
<1> DEFINE d == RandMax(g, Len(input))
<1>2. d \in [val : Nat, gen : Places(g)] /\ d.val < Len(input)
  BY <1>1, RandMaxDraws
<1>3. RandElement(g, input) = [d EXCEPT !.val = input[@ + 1]]
  BY DEF RandElement
<1> HIDE DEF d
<1>4. d.val + 1 \in DOMAIN input
  BY <1>1, <1>2
<1> QED BY <1>2, <1>3, <1>4

LEMMA RandHeldItemDraws ==
  ASSUME NEW g, Ready(g)
  PROVE  RandHeldItem(g) \in [val : { HeldItems[k] : k \in DOMAIN HeldItems }, gen : Places(g)]
BY RandElementDraws, RngConstants DEF RandHeldItem

LEMMA RandTMDraws ==
  ASSUME NEW g, Ready(g)
  PROVE  RandTM(g) \in [val : { TMs[k] : k \in DOMAIN TMs }, gen : Places(g)]
BY RandElementDraws, RngConstants DEF RandTM

LEMMA RandChanceDraws ==
  ASSUME NEW g, Ready(g), NEW denominator \in Nat
  PROVE  RandChance(g, denominator) \in [val : BOOLEAN, gen : Places(g)]
<1> DEFINE d == RandMax(g, denominator)
<1>1. d \in [val : Nat, gen : Places(g)]
  BY RandMaxDraws
<1>2. RandChance(g, denominator) = [d EXCEPT !.val = (@ = 0)]
  BY DEF RandChance
<1> HIDE DEF d
<1> QED BY <1>1, <1>2

-----------------------------------------------------------------------------
(* Loops that end *)

\* A generator with which all of them do, at one of its places.
Works(g) == g \in Places(g) /\ LoopsEnd(g.numbers)

LEMMA StillWorks ==
  ASSUME NEW g, Works(g), NEW h \in Places(g)
  PROVE  Works(h) /\ Ready(h) /\ Places(h) = Places(g)
<1>1. Running(g) /\ Ready(g)
  BY DEF Works, LoopsEnd, Ready, Running
<1>2. Ready(h) /\ Places(h) = Places(g) /\ h.numbers = g.numbers
  BY <1>1, SamePlaces, StillReady
<1> QED BY <1>2 DEF Works

LEMMA GeneratorWorks ==
  ASSUME NEW numbers, LoopsEnd(numbers)
  PROVE  Works(Generator(numbers)) /\ Generator(numbers).numbers = numbers
<1>1. Generator(numbers) = [numbers |-> numbers, at |-> 1] /\ Generator(numbers).numbers = numbers
  BY DEF Generator
<1>2. 1 \in DOMAIN numbers
  <2>1. PICK k \in DOMAIN numbers : numbers[k] = 0
    BY DEF LoopsEnd
  <2>2. DOMAIN numbers = 1 .. Len(numbers) /\ Len(numbers) \in Nat
    BY DEF LoopsEnd
  <2> QED BY <2>1, <2>2
<1> QED BY <1>1, <1>2 DEF Works, Places

\* What is ahead of a generator that works.
LEMMA WorksAhead ==
  ASSUME NEW g, Works(g)
  PROVE  /\ Ahead(g, Candidates(g)) \cap InGame # {}
         /\ Ahead(g, MoveIds(g)) \cap Usable # {}
         /\ Cardinality(Ahead(g, ValidMoveIds(g))) >= MoveSlots
<1>1. Places(Generator(g.numbers)) = Places(g)
  BY DEF Generator, Places
<1>2. g \in Places(Generator(g.numbers))
  BY <1>1 DEF Works
<1>3. LoopsEnd(g.numbers)
  BY DEF Works
<1> QED BY <1>2, <1>3 DEF LoopsEnd

LEMMA SpeciesThenFormDraws ==
  ASSUME NEW g, Ready(g)
  PROVE  SpeciesThenForm(g) \in [val : Nat \X Nat, gen : Places(g)]
<1> DEFINE species == RandRange(g, 1, SpeciesMax)
           form == RandMax(species.gen, FormCount[species.val])
<1>1. species \in [val : 1 .. SpeciesMax, gen : Places(g)]
  BY RandRangeDraws, RngConstants
<1>2. SpeciesThenForm(g) = [val |-> <<species.val, form.val>>, gen |-> form.gen]
  BY DEF SpeciesThenForm
<1> HIDE DEF species
<1>3. Ready(species.gen) /\ Places(species.gen) = Places(g) /\ FormCount[species.val] \in Nat
  BY <1>1, StillReady, RngConstants
<1>4. form \in [val : Nat, gen : Places(g)]
  BY <1>3, RandMaxDraws
<1> HIDE DEF form
<1>5. species.val \in Nat /\ form.val \in Nat /\ form.gen \in Places(g)
  BY <1>1, <1>4
<1> QED BY <1>2, <1>5

LEMMA CandidatesDraw ==
  ASSUME NEW g, Works(g)
  PROVE  /\ IsDraw(g, Candidates(g))
         /\ \A h \in Places(g) : Candidates(g)[h] \in [val : Nat \X Nat, gen : Places(g)]
<1>1. ASSUME NEW h \in Places(g)
      PROVE  Candidates(g)[h] \in [val : Nat \X Nat, gen : Places(g)]
  <2>1. Candidates(g)[h] = SpeciesThenForm(h)
    BY DEF Candidates
  <2>2. Ready(h) /\ Places(h) = Places(g)
    BY StillWorks
  <2> QED BY <2>1, <2>2, SpeciesThenFormDraws
<1>2. DOMAIN Candidates(g) = Places(g)
  BY DEF Candidates
<1> HIDE DEF Candidates
<1> QED BY <1>1, <1>2 DEF IsDraw

\* A species with its form that is in the game.
LEMMA RandSpeciesAndFormDraws ==
  ASSUME NEW g, Works(g)
  PROVE  RandSpeciesAndForm(g) \in [val : InGame, gen : Places(g)]
<1>1. Running(g) /\ IsDraw(g, Candidates(g)) /\ Ahead(g, Candidates(g)) \cap InGame # {}
  BY CandidatesDraw, StillWorks, WorksAhead DEF Works, Ready
<1>2. PICK h \in Places(g) : /\ Until(g, Candidates(g), InGame) = Candidates(g)[h]
                             /\ Candidates(g)[h].val \in InGame
  BY <1>1, UntilFinds
<1>3. Candidates(g)[h] \in [val : Nat \X Nat, gen : Places(g)]
  BY CandidatesDraw
<1> QED BY <1>2, <1>3 DEF RandSpeciesAndForm

LEMMA MoveIdsDraw ==
  ASSUME NEW g, Works(g)
  PROVE  /\ IsDraw(g, MoveIds(g))
         /\ \A h \in Places(g) : MoveIds(g)[h] \in [val : 1 .. MoveMax, gen : Places(g)]
<1>1. ASSUME NEW h \in Places(g)
      PROVE  MoveIds(g)[h] \in [val : 1 .. MoveMax, gen : Places(g)]
  <2>1. MoveIds(g)[h] = RandRange(h, 1, MoveMax)
    BY DEF MoveIds
  <2>2. Ready(h) /\ Places(h) = Places(g)
    BY StillWorks
  <2>3. MoveMax \in Nat /\ 1 <= MoveMax
    BY RngConstants
  <2>4. RandRange(h, 1, MoveMax) \in [val : 1 .. MoveMax, gen : Places(h)]
    BY <2>2, <2>3, RandRangeDraws
  <2> QED BY <2>1, <2>2, <2>4
<1>2. DOMAIN MoveIds(g) = Places(g)
  BY DEF MoveIds
<1> HIDE DEF MoveIds
<1> QED BY <1>1, <1>2 DEF IsDraw

\* A move that can be used.
LEMMA RandValidMoveIdDraws ==
  ASSUME NEW g, Works(g)
  PROVE  RandValidMoveId(g) \in [val : Usable, gen : Places(g)]
<1>1. Running(g) /\ IsDraw(g, MoveIds(g)) /\ Ahead(g, MoveIds(g)) \cap Usable # {}
  BY MoveIdsDraw, StillWorks, WorksAhead DEF Works, Ready
<1>2. PICK h \in Places(g) : /\ Until(g, MoveIds(g), Usable) = MoveIds(g)[h]
                             /\ MoveIds(g)[h].val \in Usable
  BY <1>1, UntilFinds
<1>3. MoveIds(g)[h] \in [val : 1 .. MoveMax, gen : Places(g)]
  BY MoveIdsDraw
<1> QED BY <1>2, <1>3 DEF RandValidMoveId

LEMMA ValidMoveIdsDraw ==
  ASSUME NEW g, Works(g)
  PROVE  /\ IsDraw(g, ValidMoveIds(g))
         /\ \A h \in Places(g) : ValidMoveIds(g)[h] \in [val : Usable, gen : Places(g)]
<1>1. ASSUME NEW h \in Places(g)
      PROVE  ValidMoveIds(g)[h] \in [val : Usable, gen : Places(g)]
  <2>1. ValidMoveIds(g)[h] = RandValidMoveId(h)
    BY DEF ValidMoveIds
  <2>2. Works(h) /\ Places(h) = Places(g)
    BY StillWorks
  <2> QED BY <2>1, <2>2, RandValidMoveIdDraws
<1>2. DOMAIN ValidMoveIds(g) = Places(g)
  BY DEF ValidMoveIds
<1> HIDE DEF ValidMoveIds
<1> QED BY <1>1, <1>2 DEF IsDraw

-----------------------------------------------------------------------------
(* Draws behind one another *)

\* The places that are gone through from g, the k-th draw being draw[k].
GoesThrough(q, g, draw, n) == q[0] = g /\ \A k \in 1 .. n : q[k] = draw[k][q[k - 1]].gen

LEMMA AppendNext ==
  ASSUME NEW m \in Nat, NEW v, v = [j \in 1 .. m + 1 |-> v[j]],
         NEW s, s = [j \in 1 .. m |-> v[j]]
  PROVE  Append(s, v[m + 1]) = v
<1>1. Len(s) = m
  OBVIOUS
<1>2. Append(s, v[m + 1]) = [j \in 1 .. m + 1 |-> IF j = m + 1 THEN v[m + 1] ELSE s[j]]
  BY <1>1
<1>3. \A j \in 1 .. m + 1 : (IF j = m + 1 THEN v[m + 1] ELSE s[j]) = v[j]
  <2> SUFFICES ASSUME NEW j \in 1 .. m + 1
               PROVE  (IF j = m + 1 THEN v[m + 1] ELSE s[j]) = v[j]
    OBVIOUS
  <2>1. CASE j # m + 1
    <3>1. j \in 1 .. m
      BY <2>1
    <3> QED BY <2>1, <3>1
  <2> QED BY <2>1
<1> QED BY <1>2, <1>3

\* One draw more.
Onward(draw, k, before) ==
  LET d == draw[k][before.gen] IN [val |-> Append(before.val, d.val), gen |-> d.gen]

LEMMA OnwardIs ==
  ASSUME NEW draw, NEW k, NEW before
  PROVE  /\ Onward(draw, k, before).val = Append(before.val, draw[k][before.gen].val)
         /\ Onward(draw, k, before).gen = draw[k][before.gen].gen
         /\ Onward(draw, k, before) = [val |-> Onward(draw, k, before).val,
                                       gen |-> Onward(draw, k, before).gen]
<1> DEFINE a == Append(before.val, draw[k][before.gen].val)
           b == draw[k][before.gen].gen
<1>1. Onward(draw, k, before) = [val |-> a, gen |-> b]
  BY DEF Onward
<1> HIDE DEF a, b
<1>2. Onward(draw, k, before).val = a /\ Onward(draw, k, before).gen = b
  BY <1>1
<1>3. Onward(draw, k, before) = [val |-> Onward(draw, k, before).val,
                                 gen |-> Onward(draw, k, before).gen]
  BY <1>1, <1>2
<1> QED BY <1>2, <1>3 DEF a, b

DrawnUpTo(g, draw, m, f) ==
  f = [k \in 0 .. m |-> IF k = 0 THEN [val |-> <<>>, gen |-> g] ELSE Onward(draw, k, f[k - 1])]

LEMMA DrawnExists ==
  ASSUME NEW g, NEW draw, NEW n \in Nat
  PROVE  \E f : DrawnUpTo(g, draw, n, f)
<1> DEFINE S == { m \in Nat : \E f : DrawnUpTo(g, draw, m, f) }
<1>1. 0 \in S
  <2> DEFINE f0 == [k \in 0 .. 0 |-> [val |-> <<>>, gen |-> g]]
  <2>1. DrawnUpTo(g, draw, 0, f0)
    BY DEF DrawnUpTo
  <2> QED BY <2>1
<1>2. ASSUME NEW m \in Nat, m \in S PROVE m + 1 \in S
  <2>1. PICK f : DrawnUpTo(g, draw, m, f)
    BY <1>2
  <2> DEFINE more == [k \in 0 .. m + 1 |-> IF k = m + 1 THEN Onward(draw, m + 1, f[m]) ELSE f[k]]
  <2>2. ASSUME NEW k \in 0 .. m + 1
        PROVE  more[k] = IF k = 0 THEN [val |-> <<>>, gen |-> g] ELSE Onward(draw, k, more[k - 1])
    BY <2>1 DEF DrawnUpTo
  <2>3. more = [k \in 0 .. m + 1 |-> more[k]]
    OBVIOUS
  <2> HIDE DEF more
  <2>4. DrawnUpTo(g, draw, m + 1, more)
    BY <2>2, <2>3 DEF DrawnUpTo
  <2> QED BY <2>4
<1>3. Nat \subseteq S
  <2> HIDE DEF S
  <2> QED BY <1>1, <1>2, Induct
<1> QED BY <1>3

InTurn(q, g, draw, n) ==
  /\ GoesThrough(q, g, draw, n)
  /\ Draws(g, draw) = [val |-> [k \in 1 .. n |-> draw[k][q[k - 1]].val], gen |-> q[n]]

LEMMA DrawsInTurn ==
  ASSUME NEW g, NEW draw, NEW n \in Nat, Len(draw) = n
  PROVE  \E q : InTurn(q, g, draw, n)
<1> DEFINE literally(f) ==
             f = [k \in 0 .. Len(draw) |->
                    IF k = 0 THEN [val |-> <<>>, gen |-> g]
                    ELSE LET before == f[k - 1]
                             d == draw[k][before.gen]
                         IN  [val |-> Append(before.val, d.val), gen |-> d.gen]]
           first == CHOOSE f : literally(f)
<1>1. Draws(g, draw) = first[Len(draw)]
  BY DEF Draws
<1>2. \A f : literally(f) <=> DrawnUpTo(g, draw, n, f)
  BY DEF DrawnUpTo, Onward
<1>3. literally(first)
  <2>1. \E f : literally(f)
    <3> HIDE DEF literally
    <3> QED BY <1>2, DrawnExists
  <2> HIDE DEF literally
  <2> QED BY <2>1
<1> HIDE DEF first, literally
<1>4. /\ first[0] = [val |-> <<>>, gen |-> g]
      /\ \A k \in 1 .. n : first[k] = Onward(draw, k, first[k - 1])
  <2>1. DrawnUpTo(g, draw, n, first)
    BY <1>2, <1>3
  <2> QED BY <2>1 DEF DrawnUpTo
<1> DEFINE q == [k \in 0 .. n |-> first[k].gen]
           v == [k \in 1 .. n |-> draw[k][q[k - 1]].val]
<1>5. /\ \A k \in 1 .. n : k \in 0 .. n /\ k - 1 \in 0 .. n
      /\ \A k \in 0 .. n : first[k].gen = q[k]
  OBVIOUS
<1>6. \A k \in 1 .. n : v[k] = draw[k][q[k - 1]].val
  OBVIOUS
<1>7. v = [k \in 1 .. n |-> v[k]]
  OBVIOUS
<1>8. v = [k \in 1 .. n |-> draw[k][q[k - 1]].val]
  OBVIOUS
<1> HIDE DEF q, v
<1>9. ASSUME NEW k \in 1 .. n
      PROVE  /\ first[k].val = Append(first[k - 1].val, v[k])
             /\ q[k] = draw[k][q[k - 1]].gen
             /\ first[k] = [val |-> first[k].val, gen |-> q[k]]
  <2>1. first[k] = Onward(draw, k, first[k - 1])
    BY <1>4
  <2>2. first[k].gen = q[k] /\ first[k - 1].gen = q[k - 1] /\ v[k] = draw[k][q[k - 1]].val
    BY <1>5, <1>6
  <2>3. /\ first[k].val = Append(first[k - 1].val, draw[k][first[k - 1].gen].val)
        /\ first[k].gen = draw[k][first[k - 1].gen].gen
        /\ first[k] = [val |-> first[k].val, gen |-> first[k].gen]
    <3> DEFINE before == first[k - 1]
    <3> HIDE DEF before
    <3>1. /\ Onward(draw, k, before).val = Append(before.val, draw[k][before.gen].val)
          /\ Onward(draw, k, before).gen = draw[k][before.gen].gen
          /\ Onward(draw, k, before) = [val |-> Onward(draw, k, before).val,
                                        gen |-> Onward(draw, k, before).gen]
      BY OnwardIs
    <3>2. first[k] = Onward(draw, k, before)
      BY <2>1 DEF before
    <3>3. /\ first[k].val = Append(before.val, draw[k][before.gen].val)
          /\ first[k].gen = draw[k][before.gen].gen
          /\ first[k] = [val |-> first[k].val, gen |-> first[k].gen]
      BY <3>1, <3>2
    <3> QED BY <3>3 DEF before
  <2> QED BY <2>2, <2>3
<1>10. GoesThrough(q, g, draw, n)
  <2>1. q[0] = g
    BY <1>4, <1>5
  <2> QED BY <1>9, <2>1 DEF GoesThrough
<1>11. \A k \in 0 .. n : first[k].val = [j \in 1 .. k |-> v[j]]
  <2> DEFINE S == { k \in Nat : k <= n => first[k].val = [j \in 1 .. k |-> v[j]] }
  <2>1. 0 \in S
    BY <1>4
  <2>2. ASSUME NEW m \in Nat, m \in S PROVE m + 1 \in S
    <3> SUFFICES ASSUME m + 1 <= n PROVE first[m + 1].val = [j \in 1 .. m + 1 |-> v[j]]
      OBVIOUS
    <3>1. m + 1 \in 1 .. n /\ m + 1 - 1 = m
      OBVIOUS
    <3>2. first[m].val = [j \in 1 .. m |-> v[j]]
      BY <2>2
    <3>3. first[m + 1].val = Append(first[m].val, v[m + 1])
      <4>1. PICK k \in 1 .. n : k = m + 1
        BY <3>1
      <4>2. k - 1 = m
        BY <4>1
      <4> QED BY <1>9, <4>1, <4>2
    <3> DEFINE w == [j \in 1 .. m + 1 |-> v[j]]
    <3>4. w[m + 1] = v[m + 1] /\ w = [j \in 1 .. m + 1 |-> w[j]] /\ \A j \in 1 .. m : w[j] = v[j]
      OBVIOUS
    <3> HIDE DEF w
    <3>5. first[m].val = [j \in 1 .. m |-> w[j]]
      BY <3>2, <3>4
    <3>6. Append(first[m].val, w[m + 1]) = w
      BY <3>4, <3>5, AppendNext
    <3> QED BY <3>3, <3>4, <3>6 DEF w
  <2>3. Nat \subseteq S
    <3> HIDE DEF S
    <3> QED BY <2>1, <2>2, Induct
  <2> QED BY <2>3
<1>12. first[n] = [val |-> v, gen |-> q[n]]
  <2>1. first[n].val = v
    <3>1. n \in 0 .. n
      OBVIOUS
    <3>2. first[n].val = [j \in 1 .. n |-> v[j]]
      BY <1>11, <3>1
    <3> QED BY <1>7, <3>2
  <2>2. CASE n = 0
    BY <1>4, <1>5, <2>1, <2>2
  <2>3. CASE n # 0
    <3>1. n \in 1 .. n
      BY <2>3
    <3> QED BY <1>9, <2>1, <3>1
  <2> QED BY <2>2, <2>3
<1> QED BY <1>1, <1>8, <1>10, <1>12 DEF InTurn

AllDraw(n, D, draw) == \A k \in 1 .. n : \A h \in D : draw[k][h].gen \in D

LEMMA DrawsStay ==
  ASSUME NEW n \in Nat, NEW D, NEW g \in D, NEW draw, AllDraw(n, D, draw),
         NEW q, GoesThrough(q, g, draw, n)
  PROVE  \A k \in 0 .. n : q[k] \in D
<1> DEFINE S == { m \in Nat : m <= n => q[m] \in D }
<1>1. 0 \in S
  BY DEF GoesThrough
<1>2. ASSUME NEW m \in Nat, m \in S PROVE m + 1 \in S
  <2> SUFFICES ASSUME m + 1 <= n PROVE q[m + 1] \in D
    OBVIOUS
  <2>1. m + 1 \in 1 .. n /\ m + 1 - 1 = m /\ q[m] \in D
    BY <1>2
  <2> QED BY <2>1 DEF AllDraw, GoesThrough
<1>3. Nat \subseteq S
  <2> HIDE DEF S
  <2> QED BY <1>1, <1>2, Induct
<1> QED BY <1>3

-----------------------------------------------------------------------------
(* A set of moves *)

LEMMA NotAllDrawn ==
  ASSUME NEW m \in Nat, NEW had, NEW A, Cardinality(A) > m, IsFiniteSet(A)
  PROVE  A \ { had[j] : j \in 1 .. m } # {}
<1> DEFINE H == { had[j] : j \in 1 .. m }
           f == [j \in 1 .. m |-> had[j]]
<1>1. IsFiniteSet(1 .. m) /\ Cardinality(1 .. m) = m
  BY FS_Interval
<1>2. f \in Surjection(1 .. m, H)
  BY DEF Surjection
<1> HIDE DEF f, H
<1>3. IsFiniteSet(H) /\ Cardinality(H) <= m
  BY <1>1, <1>2, FS_Surjection
<1>4. CASE A \ H = {}
  <2>1. A \in SUBSET H
    BY <1>4
  <2>2. Cardinality(A) <= Cardinality(H)
    BY <1>3, <2>1, FS_Subset
  <2>3. Cardinality(A) \in Nat /\ Cardinality(H) \in Nat
    BY <1>3, FS_CardinalityType
  <2> QED BY <1>3, <2>2, <2>3
<1> QED BY <1>4 DEF H

LEMMA MovesAhead ==
  ASSUME NEW g, Works(g), NEW m \in Nat, m < MoveSlots, NEW had
  PROVE  Ahead(g, ValidMoveIds(g)) \cap (Usable \ { had[j] : j \in 1 .. m }) # {}
<1> DEFINE A == Ahead(g, ValidMoveIds(g))
<1>1. Cardinality(A) >= MoveSlots /\ Running(g) /\ IsDraw(g, ValidMoveIds(g))
  BY WorksAhead, ValidMoveIdsDraw, StillWorks DEF Works, Ready
<1>2. PICK place :
        /\ \A k \in 0 .. Len(g.numbers) : place[k] \in Places(g)
        /\ A = { ValidMoveIds(g)[place[k]].val : k \in 0 .. Len(g.numbers) }
  BY <1>1, AheadPlaces
<1>3. A \subseteq Usable
  BY <1>2, ValidMoveIdsDraw
<1> HIDE DEF A
<1>4. IsFiniteSet(A)
  <2>1. Usable \subseteq 1 .. MoveMax /\ IsFiniteSet(1 .. MoveMax)
    <3>1. MoveMax \in Int /\ 1 \in Int /\ Usable \subseteq 1 .. MoveMax
      BY RngConstants
    <3>2. IsFiniteSet(1 .. MoveMax)
      BY <3>1, FS_Interval
    <3> QED BY <3>1, <3>2
  <2>2. A \in SUBSET (1 .. MoveMax)
    BY <1>3, <2>1
  <2> QED BY <2>1, <2>2, FS_Subset
<1>5. Cardinality(A) > m
  BY <1>1, <1>4, FS_CardinalityType, RngConstants
<1>6. A \ { had[j] : j \in 1 .. m } # {}
  BY <1>4, <1>5, NotAllDrawn
<1> QED BY <1>3, <1>6 DEF A

\* k moves of which no two are the same.
SomeMoves(k) == { s \in [1 .. k -> Usable] : \A i, j \in 1 .. k : s[i] = s[j] => i = j }

\* What RandMoves draws next.
NextMove(g, before) ==
  Until(before.gen, ValidMoveIds(g), Usable \ { before.val[j] : j \in DOMAIN before.val })

LEMMA NextMoveDraws ==
  ASSUME NEW g, Works(g), NEW m \in Nat, m < MoveSlots,
         NEW before \in [val : SomeMoves(m), gen : Places(g)]
  PROVE  /\ NextMove(g, before).gen \in Places(g)
         /\ Append(before.val, NextMove(g, before).val) \in SomeMoves(m + 1)
<1> DEFINE h == before.gen
           had == before.val
           accepted == Usable \ { had[j] : j \in 1 .. m }
<1>1. h \in Places(g) /\ had \in [1 .. m -> Usable] /\ had \in SomeMoves(m)
  BY DEF SomeMoves
<1>2. Works(h) /\ Running(h) /\ Places(h) = Places(g)
  BY <1>1, StillWorks DEF Ready
<1>3. ValidMoveIds(h) = ValidMoveIds(g)
  BY <1>2 DEF ValidMoveIds
<1>4. IsDraw(h, ValidMoveIds(h))
  BY <1>2, ValidMoveIdsDraw
<1>5. Ahead(h, ValidMoveIds(h)) \cap accepted # {}
  BY <1>2, MovesAhead
<1>6. NextMove(g, before) = Until(h, ValidMoveIds(h), accepted)
  BY <1>1, <1>3 DEF NextMove
<1> HIDE DEF h, had, accepted
<1> PICK x \in Places(h) : /\ NextMove(g, before) = ValidMoveIds(h)[x]
                           /\ ValidMoveIds(h)[x].val \in accepted
  BY <1>2, <1>4, <1>5, <1>6, UntilFinds
<1>7. ValidMoveIds(h)[x] \in [val : Usable, gen : Places(g)]
  BY <1>2, ValidMoveIdsDraw
<1> DEFINE v == NextMove(g, before).val
<1>8. v \in Usable /\ \A j \in 1 .. m : had[j] # v
  BY <1>7 DEF accepted
<1>9. Append(had, v) \in SomeMoves(m + 1)
  <2> HIDE DEF v
  <2>1. Append(had, v) = [j \in 1 .. m + 1 |-> IF j = m + 1 THEN v ELSE had[j]]
    <3> DEFINE w == [j \in 1 .. m + 1 |-> IF j = m + 1 THEN v ELSE had[j]]
    <3>1. w = [j \in 1 .. m + 1 |-> w[j]] /\ w[m + 1] = v /\ \A j \in 1 .. m : w[j] = had[j]
      OBVIOUS
    <3> HIDE DEF w
    <3>2. had = [j \in 1 .. m |-> w[j]]
      BY <1>1, <3>1
    <3>3. Append(had, w[m + 1]) = w
      BY <3>1, <3>2, AppendNext
    <3> QED BY <3>1, <3>3 DEF w
  <2>2. \A j \in 1 .. m + 1 : j = m + 1 \/ j \in 1 .. m
    OBVIOUS
  <2>3. \A i, j \in 1 .. m : had[i] = had[j] => i = j
    BY <1>1 DEF SomeMoves
  <2> QED BY <1>1, <1>8, <2>1, <2>2, <2>3 DEF SomeMoves
<1> QED BY <1>7, <1>9 DEF had

OnwardMove(g, before) ==
  [val |-> Append(before.val, NextMove(g, before).val), gen |-> NextMove(g, before).gen]

MovesUpTo(g, m, f) ==
  f = [k \in 0 .. m |-> IF k = 0 THEN [val |-> <<>>, gen |-> g] ELSE OnwardMove(g, f[k - 1])]

LEMMA MovesExist ==
  ASSUME NEW g, NEW n \in Nat
  PROVE  \E f : MovesUpTo(g, n, f)
<1> DEFINE S == { m \in Nat : \E f : MovesUpTo(g, m, f) }
<1>1. 0 \in S
  <2> DEFINE f0 == [k \in 0 .. 0 |-> [val |-> <<>>, gen |-> g]]
  <2>1. MovesUpTo(g, 0, f0)
    BY DEF MovesUpTo
  <2> QED BY <2>1
<1>2. ASSUME NEW m \in Nat, m \in S PROVE m + 1 \in S
  <2>1. PICK f : MovesUpTo(g, m, f)
    BY <1>2
  <2> DEFINE more == [k \in 0 .. m + 1 |-> IF k = m + 1 THEN OnwardMove(g, f[m]) ELSE f[k]]
  <2>2. ASSUME NEW k \in 0 .. m + 1
        PROVE  more[k] = IF k = 0 THEN [val |-> <<>>, gen |-> g] ELSE OnwardMove(g, more[k - 1])
    BY <2>1 DEF MovesUpTo
  <2>3. more = [k \in 0 .. m + 1 |-> more[k]]
    OBVIOUS
  <2> HIDE DEF more
  <2>4. MovesUpTo(g, m + 1, more)
    BY <2>2, <2>3 DEF MovesUpTo
  <2> QED BY <2>4
<1>3. Nat \subseteq S
  <2> HIDE DEF S
  <2> QED BY <1>1, <1>2, Induct
<1> QED BY <1>3

\* A set of moves is full, of moves that can be used, and no two of them are the same.
THEOREM RandMovesDraws ==
  ASSUME NEW g, Works(g)
  PROVE  /\ RandMoves(g).val \in SomeMoves(MoveSlots)
         /\ RandMoves(g).gen \in Places(g)
<1> DEFINE n == MoveSlots
           literally(f) ==
             f = [k \in 0 .. n |->
                    IF k = 0 THEN [val |-> <<>>, gen |-> g]
                    ELSE LET before == f[k - 1]
                             d == Until(before.gen, ValidMoveIds(g),
                                        Usable \ { before.val[j] : j \in DOMAIN before.val })
                         IN  [val |-> Append(before.val, d.val), gen |-> d.gen]]
           first == CHOOSE f : literally(f)
<1>1. RandMoves(g) = first[n]
  BY DEF RandMoves
<1>2. n \in Nat
  BY RngConstants
<1>3. \A f : literally(f) <=> MovesUpTo(g, n, f)
  BY DEF MovesUpTo, OnwardMove, NextMove
<1> HIDE DEF n
<1>4. literally(first)
  <2>1. \E f : literally(f)
    <3> HIDE DEF literally
    <3> QED BY <1>2, <1>3, MovesExist
  <2> HIDE DEF literally
  <2> QED BY <2>1
<1> HIDE DEF first, literally
<1>5. /\ first[0] = [val |-> <<>>, gen |-> g]
      /\ \A k \in 1 .. n : first[k] = OnwardMove(g, first[k - 1])
  <2>1. MovesUpTo(g, n, first)
    BY <1>3, <1>4
  <2> QED BY <1>2, <2>1 DEF MovesUpTo
<1> DEFINE S == { m \in Nat : m <= n => first[m] \in [val : SomeMoves(m), gen : Places(g)] }
<1>6. 0 \in S
  <2>1. <<>> \in SomeMoves(0)
    BY DEF SomeMoves
  <2>2. g \in Places(g)
    BY DEF Works
  <2> QED BY <1>5, <2>1, <2>2
<1>7. ASSUME NEW m \in Nat, m \in S PROVE m + 1 \in S
  <2> SUFFICES ASSUME m + 1 <= n
               PROVE  first[m + 1] \in [val : SomeMoves(m + 1), gen : Places(g)]
    OBVIOUS
  <2>1. m + 1 \in 1 .. n /\ m + 1 - 1 = m /\ m < n /\ m <= n
    BY <1>2
  <2>2. first[m] \in [val : SomeMoves(m), gen : Places(g)]
    BY <1>7, <2>1
  <2>3. first[m + 1] = OnwardMove(g, first[m])
    BY <1>5, <2>1
  <2>4. /\ NextMove(g, first[m]).gen \in Places(g)
        /\ Append(first[m].val, NextMove(g, first[m]).val) \in SomeMoves(m + 1)
    BY <2>1, <2>2, NextMoveDraws DEF n
  <2> QED BY <2>3, <2>4 DEF OnwardMove
<1>8. Nat \subseteq S
  <2> HIDE DEF S
  <2> QED BY <1>6, <1>7, Induct
<1>9. first[n] \in [val : SomeMoves(n), gen : Places(g)]
  BY <1>2, <1>8
<1> QED BY <1>1, <1>9 DEF n

LEMMA MovesDiffer ==
  ASSUME NEW moves \in SomeMoves(MoveSlots)
  PROVE  Cardinality({ moves[k] : k \in 1 .. MoveSlots }) = MoveSlots
<1> DEFINE n == MoveSlots
           H == { moves[k] : k \in 1 .. n }
<1>1. n \in Nat
  BY RngConstants
<1>2. IsFiniteSet(1 .. n) /\ Cardinality(1 .. n) = n
  BY <1>1, FS_Interval
<1>3. moves \in [1 .. n -> H] /\ \A i, j \in 1 .. n : moves[i] = moves[j] => i = j
  BY DEF SomeMoves
<1>4. moves \in Surjection(1 .. n, H)
  BY <1>3 DEF Surjection
<1> HIDE DEF H, n
<1>5. moves \in Injection(1 .. n, H)
  BY <1>3 DEF Injection, IsInjective
<1>6. Cardinality(H) = Cardinality(1 .. n)
  BY <1>2, <1>4, <1>5, FS_Surjection
<1> QED BY <1>2, <1>6 DEF H, n
=============================================================================
