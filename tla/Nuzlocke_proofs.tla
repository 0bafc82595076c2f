--------------------------- MODULE Nuzlocke_proofs ---------------------------
(***************************************************************************)
(* The two rules of a Nuzlocke run.  Permadeath loses nobody but the       *)
(* fainted, for any Pokemon and any party that is never full; a restricted *)
(* run gets at most one encounter out of a zone, for any objects, zones    *)
(* and map.                                                                *)
(***************************************************************************)
EXTENDS Permadeath, RouteRestriction, FiniteSetTheorems, TLAPS

(***************************************************************************)
(* Ranks: a finite set of numbers is compacted to 0 .. n-1 in its order.   *)
(***************************************************************************)
Below(S, k) == { j \in S : j < k }

LEMMA BelowGrows ==
  ASSUME NEW S \in SUBSET Nat, IsFiniteSet(S), NEW j \in S, NEW k \in Nat, j < k
  PROVE  /\ Cardinality(Below(S, j)) \in Nat /\ Cardinality(Below(S, k)) \in Nat
         /\ Cardinality(Below(S, j)) < Cardinality(Below(S, k))
<1> \A i \in S : i \in Nat
  OBVIOUS
<1>1. Below(S, j) \in SUBSET Below(S, k) /\ Below(S, k) \in SUBSET S
  <2>1. \A i \in S : i < j => i < k
    OBVIOUS
  <2> QED
    BY <2>1 DEF Below
<1>2. j \in Below(S, k) /\ j \notin Below(S, j)
  BY DEF Below
<1>3. IsFiniteSet(Below(S, k))
  BY <1>1, FS_Subset
<1>4. /\ IsFiniteSet(Below(S, j)) /\ Cardinality(Below(S, j)) <= Cardinality(Below(S, k))
      /\ Cardinality(Below(S, k)) = Cardinality(Below(S, j)) => Below(S, k) = Below(S, j)
  BY <1>1, <1>3, FS_Subset
<1>5. Cardinality(Below(S, j)) \in Nat /\ Cardinality(Below(S, k)) \in Nat
  BY <1>3, <1>4, FS_CardinalityType
<1> QED
  BY <1>2, <1>4, <1>5

LEMMA IntervalSize ==
  ASSUME NEW n \in Nat
  PROVE  IsFiniteSet(0 .. n - 1) /\ Cardinality(0 .. n - 1) = n
<1> n - 1 \in Int /\ (0 > n - 1 <=> n = 0)
  OBVIOUS
<1>1. /\ IsFiniteSet(0 .. n - 1)
      /\ Cardinality(0 .. n - 1) = IF 0 > n - 1 THEN 0 ELSE n - 1 - 0 + 1
  BY FS_Interval
<1> QED
  BY <1>1

LEMMA RanksInOrder ==
  ASSUME NEW S \in SUBSET Nat, IsFiniteSet(S)
  PROVE  /\ \A j, k \in S : j < k <=> Cardinality(Below(S, j)) < Cardinality(Below(S, k))
         /\ { Cardinality(Below(S, k)) : k \in S } = 0 .. Cardinality(S) - 1
<1> DEFINE n == Cardinality(S)
           rank == [k \in S |-> Cardinality(Below(S, k))]
<1>1. n \in Nat
  BY FS_CardinalityType
<1>2. \A j, k \in S : j < k => rank[j] \in Nat /\ rank[k] \in Nat /\ rank[j] < rank[k]
  BY BelowGrows
<1>3. \A k \in S : rank[k] \in 0 .. n - 1
  <2> SUFFICES ASSUME NEW k \in S PROVE rank[k] \in 0 .. n - 1
    OBVIOUS
  <2>1. Below(S, k) \in SUBSET S /\ k \notin Below(S, k)
    BY DEF Below
  <2>2. /\ IsFiniteSet(Below(S, k)) /\ Cardinality(Below(S, k)) <= n
        /\ n = Cardinality(Below(S, k)) => S = Below(S, k)
    BY <2>1, FS_Subset
  <2>3. Cardinality(Below(S, k)) \in Nat
    BY <2>2, FS_CardinalityType
  <2> QED
    BY <1>1, <2>1, <2>2, <2>3
<1>4. \A j, k \in S : j < k <=> rank[j] < rank[k]
  BY <1>2, <1>3
<1>5. rank \in Injection(S, 0 .. n - 1)
  <2>1. rank \in [S -> 0 .. n - 1]
    BY <1>3
  <2>2. \A j, k \in S : rank[j] = rank[k] => j = k
    <3> SUFFICES ASSUME NEW j \in S, NEW k \in S, rank[j] = rank[k] PROVE j = k
      OBVIOUS
    <3>1. j \in Nat /\ k \in Nat /\ rank[j] \in Int /\ rank[k] \in Int
      BY <1>3
    <3> HIDE DEF rank
    <3> QED
      BY <1>4, <3>1
  <2> QED
    BY <2>1, <2>2 DEF Injection, IsInjective
<1>6. IsFiniteSet(0 .. n - 1) /\ Cardinality(0 .. n - 1) = n
  <2> HIDE DEF n
  <2> QED
    BY <1>1, IntervalSize
<1>7. rank \in Surjection(S, 0 .. n - 1)
  BY <1>5, <1>6, FS_Injection
<1> QED
  BY <1>3, <1>4, <1>7 DEF Surjection

-----------------------------------------------------------------------------
\* No party ever fills the array.
NeverFull == MaxParty <= 5

(***************************************************************************)
(* The invariant.  In a battle the game remembers at least as many members *)
(* as are left, and their order; it is restored by ranks.                  *)
(***************************************************************************)
OrderRemembered ==
  /\ phase # "field" => /\ before >= count
                        /\ \A m, n \in team : order[m] = order[n] => m = n
  /\ phase = "battle" => index = order

PartyInv ==
  /\ PartyWhole /\ count <= MaxParty
  /\ OrderRemembered /\ OrderKept /\ NoFaintedLeft

LEMMA InitParty == NeverFull /\ Init => PartyInv
<1> SUFFICES ASSUME NeverFull, Init PROVE PartyInv
  OBVIOUS
<1> USE PermadeathConstants DEF Init, Slots, Bytes
<1>1. PICK m \in Pokemon : members = [k \in Slots |-> IF k = 0 THEN m ELSE NULL] /\ team = {m}
  OBVIOUS
<1>2. TypeOK
  BY <1>1 DEF TypeOK
<1>3. PartyIsTeam
  BY <1>1 DEF PartyIsTeam
<1> QED
  BY <1>2, <1>3 DEF PartyInv, PartyWhole, ReadsMembersOnly, OrderRemembered, OrderKept, NoFaintedLeft

\* In the party is on the team.
LEMMA MembersAreTeam ==
  ASSUME TypeOK, PartyIsTeam
  PROVE  /\ \A k \in 0 .. count - 1 : k \in Slots /\ members[k] \in team /\ members[k] \in Pokemon
         /\ \A m \in team : \E k \in 0 .. count - 1 : members[k] = m
         /\ \A m \in Pokemon : InParty(m) <=> m \in team
BY DEF TypeOK, PartyIsTeam, InParty, Slots

(***************************************************************************)
(* What remove_party_member does in a party that is not full.              *)
(***************************************************************************)
LEMMA Removal ==
  ASSUME TypeOK, PartyIsTeam, count \in 2 .. 5, NEW at \in 0 .. count - 1, remove_party_member(at)
  PROVE  /\ count' = count - 1
         /\ members' \in [Slots -> Pokemon \cup {NULL}]
         /\ team' = team \ {members[at]} /\ members[at] \in team
         /\ PartyIsTeam'
<1> USE DEF Slots
<1>1. /\ count' = count - 1 /\ members' = Shifted(at)
      /\ team' = team \ {members[at]}
  BY DEF remove_party_member, CountsAfterRemoval
<1>2. members' \in [Slots -> Pokemon \cup {NULL}]
  BY <1>1 DEF Shifted, TypeOK
<1>3. \A k \in 0 .. count - 2 : members'[k] = IF k < at THEN members[k] ELSE members[k + 1]
  BY <1>1 DEF Shifted
<1>4. team' = { members'[k] : k \in 0 .. count - 2 }
  <2>1. ASSUME NEW k \in 0 .. count - 2 PROVE members'[k] \in team'
    <3> DEFINE old == IF k < at THEN k ELSE k + 1
    <3>1. old \in 0 .. count - 1 /\ old # at /\ members'[k] = members[old]
      BY <1>3, <2>1
    <3> QED
      BY <1>1, <3>1 DEF PartyIsTeam
  <2>2. ASSUME NEW m \in team' PROVE \E k \in 0 .. count - 2 : members'[k] = m
    <3>1. PICK old \in 0 .. count - 1 : members[old] = m
      BY <1>1, <2>2 DEF PartyIsTeam
    <3>2. old # at
      BY <1>1, <2>2, <3>1
    <3> DEFINE k == IF old < at THEN old ELSE old - 1
    <3>3. k \in 0 .. count - 2 /\ members'[k] = m
      BY <1>3, <3>1, <3>2
    <3> QED
      BY <3>3
  <2> QED
    BY <2>1, <2>2
<1>5. \A j, k \in 0 .. count - 2 : members'[j] = members'[k] => j = k
  BY <1>3 DEF PartyIsTeam
<1>6. PartyIsTeam'
  BY <1>1, <1>4, <1>5 DEF PartyIsTeam
<1> QED
  BY <1>1, <1>2, <1>6, MembersAreTeam

-----------------------------------------------------------------------------
\* A party of fewer than six is within the array.
LEMMA WellInside ==
  ASSUME NeverFull, PartyInv
  PROVE  count \in 1 .. 5 /\ InBounds /\ TypeOK /\ PartyIsTeam /\ ReadsMembersOnly
BY PermadeathConstants DEF NeverFull, PartyInv, PartyWhole, PartyIsTeam, InBounds

LEMMA StepStartBattle == ASSUME NeverFull, PartyInv, StartBattle PROVE PartyInv'
<1> USE WellInside, MembersAreTeam, PermadeathConstants DEF party, StartBattle, Slots
<1>1. \A m \in team : /\ index'[m] \in 0 .. count - 1 /\ members[index'[m]] = m
  <2> SUFFICES ASSUME NEW m \in team
               PROVE index'[m] \in 0 .. count - 1 /\ members[index'[m]] = m
    OBVIOUS
  <2>1. \E k \in 0 .. count - 1 : members[k] = m
    OBVIOUS
  <2>2. m \in Pokemon /\ InParty(m)
    BY DEF TypeOK
  <2>3. index'[m] = CHOOSE k \in 0 .. count - 1 : members[k] = m
    BY <2>2
  <2> QED
    BY <2>1, <2>3
<1>2. index' \in [Pokemon -> Slots]
  <2> SUFFICES ASSUME NEW m \in Pokemon
               PROVE (IF InParty(m) THEN CHOOSE k \in 0 .. count - 1 : members[k] = m
                      ELSE index[m]) \in Slots
    OBVIOUS
  <2>1. CASE InParty(m)
    <3>1. m \in team
      BY <2>1
    <3> QED
      BY <1>1, <2>1, <3>1
  <2>2. CASE ~ InParty(m)
    BY <2>2 DEF TypeOK
  <2> QED
    BY <2>1, <2>2
<1>3. \A m, n \in team : order'[m] = order'[n] => m = n
  BY <1>1
<1> USE <1>2, <1>3 DEF PartyInv
<1>4. TypeOK'
  BY DEF TypeOK, Bytes
<1>5. PartyIsTeam' /\ ReadsMembersOnly' /\ count' <= MaxParty
  BY DEF PartyIsTeam, ReadsMembersOnly
<1>6. OrderRemembered'
  <2>1. count \in Int /\ before' = count /\ count' = count /\ team' = team /\ index' = order'
    BY DEF TypeOK, Bytes
  <2>2. before' >= count'
    BY <2>1
  <2> QED BY <2>1, <2>2 DEF OrderRemembered
<1>7. OrderKept' /\ NoFaintedLeft'
  BY DEF OrderKept, NoFaintedLeft
<1> QED
  BY <1>4, <1>5, <1>6, <1>7 DEF PartyWhole

LEMMA StepFaint ==
  ASSUME NeverFull, PartyInv, NEW m \in Pokemon, Faint(m) PROVE PartyInv'
BY WellInside DEF party, Faint, PartyInv, PartyWhole, TypeOK, PartyIsTeam, ReadsMembersOnly,
  OrderRemembered, OrderKept, NoFaintedLeft

LEMMA StepSendOut ==
  ASSUME NeverFull, PartyInv, NEW k \in Slots, SendOut(k) PROVE PartyInv'
<1> USE WellInside DEF party, SendOut, Slots
<1> DEFINE swap(j) == IF j = 0 THEN k ELSE IF j = k THEN 0 ELSE j
<1>1. \A j \in 0 .. count - 1 : swap(j) \in 0 .. count - 1 /\ members'[j] = members[swap(j)]
  BY DEF TypeOK
<1>2. members' \in [Slots -> Pokemon \cup {NULL}]
  BY DEF TypeOK
<1>3. { members'[j] : j \in 0 .. count - 1 } = { members[j] : j \in 0 .. count - 1 }
  <2>1. \A j \in 0 .. count - 1 : swap(swap(j)) = j
    OBVIOUS
  <2> HIDE DEF swap
  <2>2. \A j \in 0 .. count - 1 : swap(j) \in 0 .. count - 1 /\ members[j] = members'[swap(j)]
    BY <1>1, <2>1
  <2>3. \A j \in 0 .. count - 1 : \E i \in 0 .. count - 1 : members'[j] = members[i]
    BY <1>1
  <2>4. \A j \in 0 .. count - 1 : \E i \in 0 .. count - 1 : members[j] = members'[i]
    BY <2>2
  <2>5. ASSUME NEW m \in { members'[j] : j \in 0 .. count - 1 }
        PROVE  m \in { members[j] : j \in 0 .. count - 1 }
    BY <2>3
  <2>6. ASSUME NEW m \in { members[j] : j \in 0 .. count - 1 }
        PROVE  m \in { members'[j] : j \in 0 .. count - 1 }
    BY <2>4
  <2> QED
    BY <2>5, <2>6, Zenon
<1>4. \A i, j \in 0 .. count - 1 : members'[i] = members'[j] => i = j
  <2>1. \A i, j \in 0 .. count - 1 : swap(i) = swap(j) => i = j
    OBVIOUS
  <2> HIDE DEF swap
  <2> QED
    BY <1>1, <2>1 DEF PartyIsTeam
<1> QED
  BY <1>2, <1>3, <1>4 DEF PartyInv, PartyWhole, TypeOK, PartyIsTeam, ReadsMembersOnly,
    OrderRemembered, OrderKept, NoFaintedLeft

LEMMA StepPermaDeath == ASSUME NeverFull, PartyInv, PermaDeath PROVE PartyInv'
<1> USE WellInside DEF party, PermaDeath
<1>1. PICK k \in Slots : Removable(k) /\ remove_party_member(k)
  OBVIOUS
<1>2. k \in 0 .. count - 1 /\ count \in 2 .. 5
  BY <1>1 DEF Removable
<1>3. /\ count' = count - 1 /\ members' \in [Slots -> Pokemon \cup {NULL}]
      /\ team' \in SUBSET team /\ PartyIsTeam'
  BY <1>1, <1>2, Removal
<1>4. TypeOK'
  BY <1>2, <1>3 DEF TypeOK, Bytes
<1>5. OrderRemembered'
  <2>1. before >= count'
    BY <1>2, <1>3 DEF PartyInv, OrderRemembered, TypeOK, Bytes
  <2> QED
    BY <1>3, <2>1 DEF PartyInv, OrderRemembered
<1>6. count' <= MaxParty
  BY <1>2, <1>3, PermadeathConstants DEF PartyInv
<1> QED
  BY <1>3, <1>4, <1>5, <1>6 DEF PartyInv, PartyWhole, ReadsMembersOnly, OrderKept, NoFaintedLeft

LEMMA StepFixIterationCount == ASSUME NeverFull, PartyInv, FixIterationCount PROVE PartyInv'
<1> USE WellInside DEF party, FixIterationCount
<1>1. Minimum(before, count) = count
  BY DEF PartyInv, OrderRemembered, Minimum, TypeOK, Bytes
<1>2. read' \subseteq Pokemon
  BY <1>1, MembersAreTeam
<1> QED
  BY <1>2 DEF PartyInv, PartyWhole, TypeOK, PartyIsTeam, ReadsMembersOnly,
    OrderRemembered, OrderKept, NoFaintedLeft

LEMMA StepHeal == ASSUME NeverFull, PartyInv, Heal PROVE PartyInv'
BY WellInside DEF party, Heal, PartyInv, PartyWhole, TypeOK, PartyIsTeam, ReadsMembersOnly,
  OrderRemembered, OrderKept, NoFaintedLeft

LEMMA StepJoin == ASSUME NeverFull, PartyInv, NEW m \in Pokemon, Join(m) PROVE PartyInv'
<1> USE WellInside, MembersAreTeam, PermadeathConstants DEF party, Join, Slots
<1>1. count' \in 1 .. 5 /\ count' <= MaxParty /\ count' = count + 1
  BY DEF NeverFull
<1>2. /\ members' \in [Slots -> Pokemon \cup {NULL}]
      /\ members'[count] = m
      /\ \A k \in 0 .. count - 1 : members'[k] = members[k]
  BY DEF TypeOK
<1>3. m \notin team
  OBVIOUS
<1>4. PartyIsTeam'
  <2>1. team' = { members'[k] : k \in 0 .. count }
    BY <1>2 DEF PartyIsTeam
  <2>2. \A j, k \in 0 .. count : members'[j] = members'[k] => j = k
    BY <1>2, <1>3 DEF PartyIsTeam
  <2>3. count' - 1 = count /\ count' \in 1 .. 6
    BY <1>1
  <2> QED
    BY <2>1, <2>2, <2>3 DEF PartyIsTeam
<1>5. TypeOK'
  BY <1>1, <1>2 DEF TypeOK, Bytes
<1> QED
  BY <1>1, <1>4, <1>5 DEF PartyInv, PartyWhole, ReadsMembersOnly,
    OrderRemembered, OrderKept, NoFaintedLeft

\* The order is restored without losing anybody, because the indices of the team
\* are 0 .. count-1, each once.
LEMMA StepRestoreOrder == ASSUME NeverFull, PartyInv, RestoreOrder PROVE PartyInv'
<1> USE WellInside, MembersAreTeam, PermadeathConstants DEF RestoreOrder, Slots
<1>1. \A m \in team : m \in Pokemon /\ index[m] \in 0 .. count - 1
  BY DEF PartyInv, OrderKept, TypeOK
<1>2. \A k \in 0 .. count - 1 : \E m \in team : index[m] = k
  BY DEF PartyInv, OrderKept
<1>3. \A m, n \in team : index[m] = index[n] => m = n
  <2> SUFFICES ASSUME NEW m \in team, NEW n \in team, index[m] = index[n] PROVE m = n
    OBVIOUS
  <2>1. ~ (order[m] < order[n]) /\ ~ (order[n] < order[m])
    BY <1>1 DEF PartyInv, OrderKept
  <2>2. order[m] \in Int /\ order[n] \in Int
    BY <1>1 DEF TypeOK
  <2> QED
    BY <2>1, <2>2 DEF PartyInv, OrderRemembered
<1>4. \A k \in 0 .. count - 1 : members'[k] \in team /\ index[members'[k]] = k
  <2> SUFFICES ASSUME NEW k \in 0 .. count - 1
               PROVE  members'[k] \in team /\ index[members'[k]] = k
    OBVIOUS
  <2>1. PICK m \in team : index[m] = k
    BY <1>2
  <2>2. m \in InPlace(k)
    BY <1>1, <2>1 DEF InPlace
  <2>3. members'[k] \in InPlace(k)
    BY <2>2
  <2> QED
    BY <2>3 DEF InPlace
<1> HIDE DEF RestoreOrder
<1>5. \A m \in team : members'[index[m]] = m
  <2> SUFFICES ASSUME NEW m \in team PROVE members'[index[m]] = m
    OBVIOUS
  <2>1. members'[index[m]] \in team /\ index[members'[index[m]]] = index[m]
    BY <1>1, <1>4
  <2> QED
    BY <1>3, <2>1
<1>6. PartyIsTeam'
  <2>1. ASSUME NEW m \in team PROVE m \in { members'[k] : k \in 0 .. count - 1 }
    BY <1>1, <1>5
  <2>2. ASSUME NEW m \in { members'[k] : k \in 0 .. count - 1 } PROVE m \in team
    BY <1>4
  <2>3. ASSUME NEW j \in 0 .. count - 1, NEW k \in 0 .. count - 1, members'[j] = members'[k]
        PROVE  j = k
    <3>1. index[members'[j]] = j /\ index[members'[k]] = k
      BY <1>4
    <3> QED
      BY <2>3, <3>1
  <2> QED
    BY <2>1, <2>2, <2>3 DEF PartyIsTeam, RestoreOrder
<1>7. members' \in [Slots -> Pokemon \cup {NULL}]
  <2>1. \A k \in Slots : members'[k] \in Pokemon \cup {NULL}
    <3> SUFFICES ASSUME NEW k \in Slots PROVE members'[k] \in Pokemon \cup {NULL}
      OBVIOUS
    <3>1. CASE k \in 0 .. count - 1
      BY <1>1, <1>4, <3>1
    <3>2. CASE k >= count
      BY <3>2 DEF TypeOK, RestoreOrder
    <3> QED
      BY <3>1, <3>2
  <2> QED
    BY <2>1 DEF RestoreOrder
<1> QED
  BY <1>6, <1>7 DEF PartyInv, PartyWhole, TypeOK, ReadsMembersOnly,
    OrderRemembered, OrderKept, NoFaintedLeft, RestoreOrder

(***************************************************************************)
(* The end of the battle.  First what becomes of the slots: a fainted lead *)
(* goes, and behind the lead nobody has fainted, for PermaDeath has kept   *)
(* up.                                                                     *)
(***************************************************************************)
LEMMA BehindTheLead ==
  ASSUME NeverFull, PartyInv, \A k \in Slots : ~ Removable(k)
  PROVE  \A k \in 1 .. count - 1 : hp[members[k]] # 0
<1> USE WellInside, MembersAreTeam, PermadeathConstants DEF Slots
<1> DEFINE Well(k) == k <= count - 1 => members[k] # NULL /\ hp[members[k]] # 0
<1>0. \A k \in 1 .. count - 1 : members[k] # NULL
  OBVIOUS
<1>1. Well(1)
  BY <1>0 DEF Removable
<1>2. Well(2)
  BY <1>0, <1>1 DEF Removable
<1>3. Well(3)
  BY <1>0, <1>1, <1>2 DEF Removable
<1>4. Well(4)
  BY <1>0, <1>1, <1>2, <1>3 DEF Removable
<1> QED
  BY <1>1, <1>2, <1>3, <1>4

LEMMA LeadGone ==
  ASSUME NeverFull, PartyInv, RestorePartyOrderPatch
  PROVE  /\ count' \in 1 .. count /\ team' \in SUBSET team
         /\ members' \in [Slots -> Pokemon \cup {NULL}]
         /\ PartyIsTeam'
         /\ count' = 1 \/ \A k \in 0 .. count' - 1 : hp[members'[k]] # 0
<1> USE WellInside, MembersAreTeam DEF RestorePartyOrderPatch, Slots
<1>0. \A k \in 1 .. count - 1 : hp[members[k]] # 0
  BY BehindTheLead
<1>1. CASE LeadFainted
  <2>1. count \in 2 .. 5 /\ remove_party_member(0)
    BY <1>1 DEF LeadFainted
  <2>2. /\ count' = count - 1 /\ members' \in [Slots -> Pokemon \cup {NULL}]
        /\ team' \in SUBSET team /\ PartyIsTeam'
    BY <2>1, Removal
  <2>3. \A k \in 0 .. count - 2 : members'[k] = members[k + 1]
    BY <2>1 DEF remove_party_member, Shifted
  <2>4. \A k \in 0 .. count' - 1 : hp[members'[k]] # 0
    BY <1>0, <2>2, <2>3
  <2> QED
    BY <2>1, <2>2, <2>4
<1>2. CASE ~ LeadFainted
  <2>1. party' = party /\ team' = team
    BY <1>2
  <2>2. count = 1 \/ hp[members[0]] # 0
    BY <1>2, PermadeathConstants DEF LeadFainted
  <2> QED
    BY <1>0, <2>1, <2>2 DEF party, PartyIsTeam, TypeOK
<1> QED
  BY <1>1, <1>2

\* The indices that are left, and how many they are.
LEMMA IndicesLeft ==
  ASSUME NeverFull, PartyInv, phase = "battle", team' \in SUBSET team, count' \in 1 .. count,
         PartyIsTeam'
  PROVE  LET left == { index[m] : m \in team' }
         IN  left \in SUBSET Slots /\ IsFiniteSet(left) /\ Cardinality(left) = count'
<1> USE WellInside
<1> DEFINE left == { index[m] : m \in team' }
           places == 0 .. count' - 1
           at == [k \in places |-> index[members'[k]]]
<1>1. team' = { members'[k] : k \in places } /\ \A j, k \in places : members'[j] = members'[k] => j = k
  BY DEF PartyIsTeam
<1>2. \A m \in team' : m \in team /\ m \in Pokemon /\ index[m] \in Slots
  BY DEF TypeOK
<1>3. \A m, n \in team' : index[m] = index[n] => m = n
  BY <1>2 DEF PartyInv, OrderRemembered
<1>4. \A k \in places : members'[k] \in team'
  BY <1>1
<1> HIDE DEF places
<1>5. at \in [places -> left]
  BY <1>4
<1>6. \A i \in left : \E k \in places : at[k] = i
  <2> SUFFICES ASSUME NEW m \in team' PROVE \E k \in places : at[k] = index[m]
    OBVIOUS
  <2>1. PICK k \in places : members'[k] = m
    BY <1>1
  <2> QED
    BY <2>1
<1>7. \A j, k \in places : at[j] = at[k] => j = k
  <2> SUFFICES ASSUME NEW j \in places, NEW k \in places, at[j] = at[k] PROVE j = k
    OBVIOUS
  <2>1. members'[j] = members'[k]
    BY <1>3, <1>4
  <2> QED
    BY <1>1, <2>1
<1> HIDE DEF at, left
<1>8. at \in Surjection(places, left) /\ at \in Injection(places, left)
  BY <1>5, <1>6, <1>7 DEF Surjection, Injection, IsInjective
<1>9. IsFiniteSet(places) /\ Cardinality(places) = count'
  <2> DEFINE n == count'
  <2>1. n \in Nat
    BY WellInside
  <2> HIDE DEF n
  <2>2. IsFiniteSet(0 .. n - 1) /\ Cardinality(0 .. n - 1) = n
    BY <2>1, IntervalSize
  <2> QED
    BY <2>2 DEF places, n
<1>10. IsFiniteSet(left) /\ Cardinality(left) = count'
  BY <1>8, <1>9, FS_Surjection
<1> QED
  BY <1>2, <1>10 DEF left

\* What is iterated over is the team, and its ranks are those of the indices left.
LEMMA RanksOfTheLeft ==
  ASSUME NeverFull, PartyInv, RestorePartyOrderPatch
  PROVE  LET left == { index[m] : m \in team' }
         IN  /\ \A m \in Pokemon : Iterated(m)' <=> m \in team'
             /\ \A m \in team' : Rank(m) = Cardinality(Below(left, index[m]))
<1> USE WellInside, LeadGone, PermadeathConstants DEF Slots
<1> DEFINE left == { index[m] : m \in team' }
<1>1. Minimum(before', count') = count'
  BY DEF PartyInv, OrderRemembered, Minimum, TypeOK, Bytes, RestorePartyOrderPatch
<1>2. \A k \in 0 .. count' - 1 : k \in Slots /\ members'[k] \in team' /\ members'[k] # NULL
  BY DEF PartyIsTeam, TypeOK
<1>3. \A m \in team' : \E k \in 0 .. count' - 1 : members'[k] = m
  BY DEF PartyIsTeam
<1>4. \A m \in Pokemon : Iterated(m)' <=> m \in team'
  <2>1. ASSUME NEW m \in Pokemon, Iterated(m)' PROVE m \in team'
    BY <1>1, <1>2, <2>1 DEF Iterated
  <2>2. ASSUME NEW m \in team' PROVE Iterated(m)'
    <3>1. PICK k \in 0 .. count' - 1 : members'[k] = m
      BY <1>3
    <3>2. \A j \in 0 .. k : members'[j] # NULL
      BY <1>2
    <3> QED
      BY <1>1, <3>1, <3>2 DEF Iterated
  <2> QED
    BY <2>1, <2>2
<1>5. ASSUME NEW m \in team' PROVE Rank(m) = Cardinality(Below(left, index[m]))
  <2>1. \A n \in team' : n \in Pokemon /\ index[n] \in Slots
    BY DEF TypeOK
  <2>2. \A k \in Slots : k \in left <=> \E n \in Pokemon : Iterated(n)' /\ index[n] = k
    BY <1>4, <2>1
  <2>3. left \in SUBSET Slots
    BY <2>1
  <2> HIDE DEF left
  <2>4. { k \in Slots : k < index[m] /\ \E n \in Pokemon : Iterated(n)' /\ index[n] = k }
        = Below(left, index[m])
    BY <2>2, <2>3 DEF Below
  <2> QED
    BY <2>4 DEF Rank
<1> QED
  BY <1>4, <1>5

LEMMA StepRestorePartyOrderPatch ==
  ASSUME NeverFull, PartyInv, RestorePartyOrderPatch PROVE PartyInv'
<1> USE WellInside, LeadGone, PermadeathConstants
<1> DEFINE left == { index[m] : m \in team' }
           below(k) == Cardinality(Below(left, k))
<1>1. left \in SUBSET Slots /\ IsFiniteSet(left) /\ Cardinality(left) = count'
  BY IndicesLeft DEF RestorePartyOrderPatch
<1>2. left \in SUBSET Nat
  BY <1>1 DEF Slots
<1>3. /\ \A j, k \in left : j < k <=> below(j) < below(k)
      /\ { below(k) : k \in left } = 0 .. count' - 1
  BY <1>1, <1>2, RanksInOrder
<1> HIDE DEF below
<1>4. \A m \in team' : m \in Pokemon /\ m \in team /\ index[m] \in left
  BY DEF TypeOK
<1>5. index' = [m \in Pokemon |-> IF m \in team' THEN Rank(m) ELSE index[m]]
  BY RanksOfTheLeft DEF RestorePartyOrderPatch
<1>6. \A m \in team' : index'[m] = below(index[m])
  BY <1>4, <1>5, RanksOfTheLeft DEF below
<1>7. \A m \in team' : index'[m] \in 0 .. count' - 1
  BY <1>3, <1>4, <1>6
<1>8. index' \in [Pokemon -> Slots]
  BY <1>5, <1>7 DEF TypeOK, Slots
<1>9. OrderKept'
  <2>1. ASSUME NEW k \in 0 .. count' - 1 PROVE \E m \in team' : index'[m] = k
    BY <1>3, <1>6
  <2>2. { index'[m] : m \in team' } = 0 .. count' - 1
    BY <1>7, <2>1
  <2>3. ASSUME NEW m \in team', NEW n \in team'
        PROVE  index'[m] < index'[n] <=> order'[m] < order'[n]
    <3>1. order' = index
      BY DEF PartyInv, OrderRemembered, RestorePartyOrderPatch
    <3> QED
      BY <1>3, <1>4, <1>6, <3>1
  <2> QED
    BY <2>2, <2>3 DEF OrderKept
<1>10. before' >= count'
  BY DEF PartyInv, OrderRemembered, TypeOK, Bytes, RestorePartyOrderPatch
<1>11. OrderRemembered' /\ NoFaintedLeft'
  BY <1>4, <1>10 DEF PartyInv, OrderRemembered, NoFaintedLeft, RestorePartyOrderPatch
<1>12. ReadsMembersOnly'
  <2>1. Minimum(before, count') = count'
    BY <1>10 DEF Minimum, TypeOK, Bytes, RestorePartyOrderPatch
  <2>2. \A k \in 0 .. count' - 1 : members'[k] \in team'
    BY DEF PartyIsTeam
  <2> QED
    BY <1>4, <2>1, <2>2 DEF ReadsMembersOnly, RestorePartyOrderPatch
<1>13. count' \in Bytes /\ count' <= MaxParty
  BY DEF PartyInv, Bytes
<1>14. TypeOK'
  BY <1>4, <1>8, <1>12, <1>13 DEF TypeOK, ReadsMembersOnly, RestorePartyOrderPatch
<1> QED
  BY <1>9, <1>11, <1>12, <1>13, <1>14 DEF PartyInv, PartyWhole

-----------------------------------------------------------------------------
LEMMA NextParty == NeverFull /\ PartyInv /\ [Next]_vars => PartyInv'
<1> SUFFICES ASSUME NeverFull, PartyInv, [Next]_vars PROVE PartyInv'
  OBVIOUS
<1>1. CASE StartBattle
  BY <1>1, StepStartBattle
<1>2. CASE \E m \in Pokemon : Faint(m)
  BY <1>2, StepFaint
<1>3. CASE \E k \in Slots : SendOut(k)
  BY <1>3, StepSendOut
<1>4. CASE PermaDeath
  BY <1>4, StepPermaDeath
<1>5. CASE FixIterationCount
  BY <1>5, StepFixIterationCount
<1>6. CASE RestorePartyOrderPatch
  BY <1>6, StepRestorePartyOrderPatch
<1>7. CASE RestoreOrder
  BY <1>7, StepRestoreOrder
<1>8. CASE Heal
  BY <1>8, StepHeal
<1>9. CASE \E m \in Pokemon : Join(m)
  BY <1>9, StepJoin
<1>10. CASE UNCHANGED vars
  BY <1>10 DEF vars, party, PartyInv, PartyWhole, TypeOK, PartyIsTeam, ReadsMembersOnly,
    OrderRemembered, OrderKept, NoFaintedLeft
<1> QED
  BY <1>1, <1>2, <1>3, <1>4, <1>5, <1>6, <1>7, <1>8, <1>9, <1>10 DEF Next, Battle

LEMMA PartyInvariant ==
  ASSUME NeverFull PROVE Spec => []PartyInv
<1>1. Init => PartyInv
  BY InitParty
<1>2. PartyInv /\ [Next]_vars => PartyInv'
  BY NextParty
<1> QED
  BY <1>1, <1>2, PTL DEF Spec

\* The hooks lose, duplicate or skip no Pokemon that was not deleted, and the game
\* reads no slot behind the party (remove_party_member, FixIterationCount), as long as
\* the party never fills the array.
THEOREM PartyStaysWhole ==
  ASSUME NeverFull PROVE Spec => []PartyWhole
<1>1. PartyInv => PartyWhole
  BY DEF PartyInv
<1> QED
  BY <1>1, PartyInvariant, PTL

\* RestorePartyOrderPatch compacts the indices to 0 .. count-1 in the order the party
\* had before the battle, whatever was removed, at whatever place and time.
THEOREM OrderStaysKept ==
  ASSUME NeverFull PROVE Spec => []OrderKept
<1>1. PartyInv => OrderKept
  BY DEF PartyInv
<1> QED
  BY <1>1, PartyInvariant, PTL

\* When a battle has ended nobody who fainted is in the party, unless it is its only
\* member (PermaDeath, RestorePartyOrderPatch).
THEOREM NoFaintedStays ==
  ASSUME NeverFull PROVE Spec => []NoFaintedLeft
<1>1. PartyInv => NoFaintedLeft
  BY DEF PartyInv
<1> QED
  BY <1>1, PartyInvariant, PTL

\* No step takes a Pokemon out of the party but one that fainted and is not the last.
THEOREM OnlyFaintedGo ==
  ASSUME NeverFull PROVE Spec => OnlyTheFaintedGo
<1> DEFINE Gone == \A m \in team : m \notin team' => hp[m] = 0 /\ team # {m}
<1>1. ASSUME PartyInv, [Next]_vars PROVE Gone
  <2> USE <1>1, WellInside, MembersAreTeam DEF Slots
  <2> SUFFICES ASSUME NEW m \in team, m \notin team' PROVE hp[m] = 0 /\ team # {m}
    OBVIOUS
  <2>0. \A k \in 0 .. count - 1 : count >= 2 => \E n \in team : n # members[k]
    <3> SUFFICES ASSUME NEW k \in 0 .. count - 1, count >= 2
                 PROVE  \E n \in team : n # members[k]
      OBVIOUS
    <3>1. PICK j \in 0 .. count - 1 : j # k
      <4>1. CASE k = 0
        BY <4>1
      <4>2. CASE k # 0
        BY <4>2
      <4> QED
        BY <4>1, <4>2
    <3> QED
      BY <3>1 DEF PartyIsTeam
  <2>1. CASE PermaDeath
    <3>1. PICK k \in Slots : Removable(k) /\ remove_party_member(k)
      BY <2>1 DEF PermaDeath
    <3>2. m = members[k] /\ k \in 0 .. count - 1 /\ count >= 2 /\ hp[members[k]] = 0
      BY <3>1 DEF Removable, remove_party_member
    <3> QED
      BY <2>0, <3>2
  <2>2. CASE RestorePartyOrderPatch
    <3>1. LeadFainted /\ remove_party_member(0)
      BY <2>2 DEF RestorePartyOrderPatch
    <3>2. m = members[0] /\ count >= 2 /\ hp[members[0]] = 0
      BY <3>1 DEF LeadFainted, remove_party_member
    <3> QED
      BY <2>0, <3>2
  <2>3. CASE \E n \in Pokemon : Join(n)
    BY <2>3 DEF Join
  <2>4. CASE ~ PermaDeath /\ ~ RestorePartyOrderPatch /\ ~ (\E n \in Pokemon : Join(n))
    <3>1. team' = team
      BY <1>1, <2>4 DEF Next, Battle, vars, StartBattle, Faint, SendOut, FixIterationCount,
        RestoreOrder, Heal
    <3> QED
      BY <3>1
  <2> QED
    BY <2>1, <2>2, <2>3, <2>4
<1>2. PartyInv /\ [Next]_vars => [Gone]_vars
  BY <1>1
<1> QED
  BY <1>2, PartyInvariant, PTL DEF Spec, OnlyTheFaintedGo

-----------------------------------------------------------------------------
(* RouteRestriction *)

(***************************************************************************)
(* Neither filter nor blacklist alone bounds the encounters of a zone: the *)
(* inductive invariant carries the zone of the battle in progress from the *)
(* moment its object was found on the (filtered) field to its result.      *)
(***************************************************************************)
BattleZoneIsOpen ==
  enabled /\ stage = "battle" /\ battle \in Objects =>
    /\ encounter_zone_hash = ZoneOf[battle]
    /\ ZoneOf[battle] # 0 => wins[ZoneOf[battle]] = 0

StoredOncePerZone == enabled => \A z \in Zones : stored.wins[z] <= 1

RouteInv ==
  /\ RouteTypeOK
  /\ FieldIsFiltered
  /\ WonZonesAreConsumed
  /\ BattleZoneIsOpen
  /\ OneEncounterPerZone
  /\ StoredOncePerZone

\* The variables have their types in every initial state.
LEMMA InitRouteType == RouteInit => RouteTypeOK
  BY RouteRestrictionConstants DEF RouteInit, RouteTypeOK, NoWins, Zones

\* Every step preserves the types.
LEMMA NextRouteType == RouteTypeOK /\ [RouteNext]_routeVars => RouteTypeOK'
<1> SUFFICES ASSUME RouteTypeOK, [RouteNext]_routeVars PROVE RouteTypeOK'
  OBVIOUS
<1> USE RouteRestrictionConstants DEF RouteTypeOK
<1>1. ASSUME NEW s \in Objects, LoadObject(s) PROVE RouteTypeOK'
  BY <1>1 DEF LoadObject
<1>2. ASSUME NEW s \in Objects, UnloadObject(s) PROVE RouteTypeOK'
  BY <1>2 DEF UnloadObject
<1>3. ASSUME NEW s \in Objects, Encounter(s) PROVE RouteTypeOK'
  BY <1>3 DEF Encounter, StoreZone
<1>4. CASE OtherBattle
  BY <1>4 DEF OtherBattle
<1>5. ASSUME NEW result \in Results, OnBattleResult(result) PROVE RouteTypeOK'
  <2>1. wins' \in [Zones -> Nat]
    BY <1>5 DEF OnBattleResult
  <2>2. blacklisted_zones' \subseteq Hashes
    BY <1>5 DEF OnBattleResult
  <2> QED
    BY <2>1, <2>2, <1>5 DEF OnBattleResult
<1>6. CASE ReconstructField
  BY <1>6 DEF ReconstructField
<1>7. CASE Save
  BY <1>7 DEF Save
<1>8. CASE Restart
  BY <1>8 DEF Restart
<1>9. CASE UNCHANGED routeVars
  BY <1>9 DEF routeVars
<1> QED
  BY <1>1, <1>2, <1>3, <1>4, <1>5, <1>6, <1>7, <1>8, <1>9 DEF RouteNext

\* Every variable keeps its type for ever.
THEOREM RouteTypeCorrect == RouteSpec => []RouteTypeOK
  BY InitRouteType, NextRouteType, PTL DEF RouteSpec

-----------------------------------------------------------------------------
\* The invariant holds in every initial state.
LEMMA InitRouteInv == RouteInit => RouteInv
<1> SUFFICES ASSUME RouteInit PROVE RouteInv
  OBVIOUS
<1>1. RouteTypeOK
  BY InitRouteType
<1>2. \A z \in Zones : wins[z] = 0 /\ stored.wins[z] = 0
  BY DEF RouteInit, NoWins
<1> QED
  BY <1>1, <1>2 DEF RouteInit, RouteInv, FieldIsFiltered, WonZonesAreConsumed,
     BattleZoneIsOpen, OneEncounterPerZone, StoredOncePerZone

\* A battle that begins on the field begins in a zone nothing was won in.
LEMMA EncounterIsOpen ==
  ASSUME RouteInv, NEW s \in Objects, Encounter(s), enabled, ZoneOf[s] # 0
  PROVE  ZoneOf[s] \in Zones /\ wins[ZoneOf[s]] = 0
<1>1. ZoneOf[s] \in Zones
  BY RouteRestrictionConstants DEF Zones
<1>2. ZoneOf[s] \notin blacklisted_zones
  BY DEF RouteInv, FieldIsFiltered, Encounter
<1>3. ~ (wins[ZoneOf[s]] > 0) /\ wins[ZoneOf[s]] \in Nat
  BY <1>1, <1>2 DEF RouteInv, WonZonesAreConsumed, RouteTypeOK
<1> QED
  BY <1>1, <1>3

\* Every step preserves the invariant.
LEMMA NextRouteInv == RouteInv /\ [RouteNext]_routeVars => RouteInv'
<1> SUFFICES ASSUME RouteInv, [RouteNext]_routeVars PROVE RouteInv'
  OBVIOUS
<1>0. RouteTypeOK /\ RouteTypeOK'
  BY NextRouteType DEF RouteInv
<1> DEFINE Rest == /\ FieldIsFiltered
                   /\ WonZonesAreConsumed
                   /\ BattleZoneIsOpen
                   /\ OneEncounterPerZone
                   /\ StoredOncePerZone
<1>1. ASSUME NEW s \in Objects, LoadObject(s) PROVE Rest'
  <2>1. FieldIsFiltered'
    BY <1>1 DEF LoadObject, RouteInv, FieldIsFiltered, Filtered
  <2> QED
    BY <2>1, <1>1 DEF LoadObject, RouteInv, WonZonesAreConsumed, BattleZoneIsOpen,
       OneEncounterPerZone, StoredOncePerZone
<1>2. ASSUME NEW s \in Objects, UnloadObject(s) PROVE Rest'
  <2>1. FieldIsFiltered'
    BY <1>2 DEF UnloadObject, RouteInv, FieldIsFiltered
  <2> QED
    BY <2>1, <1>2 DEF UnloadObject, RouteInv, WonZonesAreConsumed, BattleZoneIsOpen,
       OneEncounterPerZone, StoredOncePerZone
<1>3. ASSUME NEW s \in Objects, Encounter(s) PROVE Rest'
  <2>1. BattleZoneIsOpen'
    BY <1>3, EncounterIsOpen DEF Encounter, StoreZone, BattleZoneIsOpen
  <2> QED
    BY <2>1, <1>3 DEF Encounter, RouteInv, FieldIsFiltered, WonZonesAreConsumed,
       OneEncounterPerZone, StoredOncePerZone
<1>4. ASSUME OtherBattle PROVE Rest'
  <2>1. BattleZoneIsOpen'
    BY <1>4, RouteRestrictionConstants DEF OtherBattle, BattleZoneIsOpen
  <2> QED
    BY <2>1, <1>4 DEF OtherBattle, RouteInv, FieldIsFiltered, WonZonesAreConsumed,
       OneEncounterPerZone, StoredOncePerZone
<1>5. ASSUME NEW result \in Results, OnBattleResult(result) PROVE Rest'
  <2>1. ASSUME enabled, NEW z \in Zones
        PROVE  /\ wins'[z] <= 1
               /\ wins'[z] > 0 => z \in blacklisted_zones'
    <3>1. CASE battle \in Objects /\ ZoneOf[battle] = z /\ result \in {"Win", "Capture"}
      <4>1. Consumes(result)
        BY <3>1, RouteRestrictionConstants DEF Consumes
      <4>2. wins[z] = 0 /\ encounter_zone_hash = z
        BY <2>1, <3>1, <1>5 DEF RouteInv, BattleZoneIsOpen, OnBattleResult, Zones
      <4>3. wins'[z] = wins[z] + 1
        BY <1>5, <3>1 DEF OnBattleResult
      <4>4. z \in blacklisted_zones'
        BY <1>5, <2>1, <4>1, <4>2 DEF OnBattleResult
      <4> QED
        BY <4>2, <4>3, <4>4
    <3>2. CASE ~ (battle \in Objects /\ ZoneOf[battle] = z /\ result \in {"Win", "Capture"})
      <4>1. wins'[z] = wins[z]
        BY <1>5, <3>2 DEF OnBattleResult
      <4>2. blacklisted_zones \subseteq blacklisted_zones'
        BY <1>5 DEF OnBattleResult
      <4> QED
        BY <4>1, <4>2, <2>1 DEF RouteInv, OneEncounterPerZone, WonZonesAreConsumed
    <3> QED
      BY <3>1, <3>2
  <2>2. WonZonesAreConsumed' /\ OneEncounterPerZone'
    BY <2>1, <1>5 DEF OnBattleResult, RouteInv, WonZonesAreConsumed, OneEncounterPerZone
  <2>3. FieldIsFiltered' /\ BattleZoneIsOpen' /\ StoredOncePerZone'
    BY <1>5 DEF OnBattleResult, RouteInv, FieldIsFiltered, BattleZoneIsOpen,
       StoredOncePerZone
  <2> QED
    BY <2>2, <2>3
<1>6. ASSUME ReconstructField PROVE Rest'
  <2>1. FieldIsFiltered'
    BY <1>6, <1>0 DEF ReconstructField, FieldIsFiltered, Filtered, RouteTypeOK
  <2> QED
    BY <2>1, <1>6 DEF ReconstructField, RouteInv, WonZonesAreConsumed,
       BattleZoneIsOpen, OneEncounterPerZone, StoredOncePerZone
<1>7. ASSUME Save PROVE Rest'
  BY <1>7 DEF Save, RouteInv, FieldIsFiltered, WonZonesAreConsumed, BattleZoneIsOpen,
     OneEncounterPerZone, StoredOncePerZone
<1>8. ASSUME Restart PROVE Rest'
  BY <1>8 DEF Restart, RouteInv, FieldIsFiltered, WonZonesAreConsumed, BattleZoneIsOpen,
     OneEncounterPerZone, StoredOncePerZone
<1>9. ASSUME UNCHANGED routeVars PROVE Rest'
  BY <1>9 DEF routeVars, RouteInv, FieldIsFiltered, WonZonesAreConsumed, BattleZoneIsOpen,
     OneEncounterPerZone, StoredOncePerZone
<1>10. Rest'
  BY <1>1, <1>2, <1>3, <1>4, <1>5, <1>6, <1>7, <1>8, <1>9 DEF RouteNext
<1> QED
  BY <1>0, <1>10 DEF RouteInv

\* The inductive invariant holds in every reachable state.
LEMMA RouteInvariance == RouteSpec => []RouteInv
  BY InitRouteInv, NextRouteInv, PTL DEF RouteSpec

\* README, "Nuzlocke route restriction": at most one encounter of each zone is won or
\* caught in a restricted run, whatever is saved, restarted and loaded in between.
THEOREM AtMostOneEncounter == RouteSpec => []OneEncounterPerZone
<1>1. RouteInv => OneEncounterPerZone
  BY DEF RouteInv
<1> QED
  BY <1>1, RouteInvariance, PTL

\* Nothing on the field spawns in a consumed zone (FilterObject at both places).
THEOREM FieldFiltered == RouteSpec => []FieldIsFiltered
<1>1. RouteInv => FieldIsFiltered
  BY DEF RouteInv
<1> QED
  BY <1>1, RouteInvariance, PTL

\* The blacklist, live or saved, never lags behind the encounters won.
THEOREM BlacklistKeepsUp == RouteSpec => []WonZonesAreConsumed
<1>1. RouteInv => WonZonesAreConsumed
  BY DEF RouteInv
<1> QED
  BY <1>1, RouteInvariance, PTL
=============================================================================
