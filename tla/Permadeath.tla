----------------------------- MODULE Permadeath -----------------------------
(***************************************************************************)
(* source/program/patches/permadeath.hpp: three hooks delete fainted       *)
(* Pokemon from the battle party, an array of six pointers with a count.   *)
(* PermaDeath runs very often during a battle, FixIterationCount and       *)
(* RestorePartyOrderPatch when it ends.  The battle itself (who faints,    *)
(* who is sent out) and what the game does with the party before and after *)
(* the hooks are external, and modelled from what the hooks rely on.       *)
(***************************************************************************)
EXTENDS Integers, FiniteSets

CONSTANTS
  Pokemon,     \* every Pokemon the player may own
  MaxParty,    \* bound: the largest party
  NULL         \* no Pokemon in a slot

ASSUME PermadeathConstants ==
  /\ NULL \notin Pokemon
  /\ MaxParty \in 1 .. 6

Slots == 0 .. 5          \* party_member_t *members[6]
Bytes == 0 .. 255        \* u8 count

VARIABLES
  members,    \* party->members
  count,      \* party->count
  hp,         \* hp of each Pokemon, 0 or 1: fainted or not
  index,      \* real_party_index of each Pokemon
  phase,      \* "field", "battle", or "restored": the order of the real party
              \* is about to be restored
  before,     \* the party size the game remembers from before the battle
  read,       \* what the game last read from the slots it iterates over
  \* history, not in the program:
  team,       \* the Pokemon of the party that were not deleted
  order       \* their positions when the battle began

party == <<members, count>>
vars  == <<members, count, hp, index, phase, before, read, team, order>>

InParty(m) == \E k \in Slots : k < count /\ members[k] = m

Init ==
  /\ \E m \in Pokemon : /\ members = [k \in Slots |-> IF k = 0 THEN m ELSE NULL]
                        /\ team = {m}
  /\ count = 1
  /\ hp = [m \in Pokemon |-> 1]
  /\ index = [m \in Pokemon |-> 0]
  /\ phase = "field"
  /\ before = 1
  /\ read = {}
  /\ order = [m \in Pokemon |-> 0]

-----------------------------------------------------------------------------
\* Slots after the removal, with the first pointer moved left out.
ShiftedWrong(at) ==
  [k \in Slots |-> IF at < k /\ k < count - 1 THEN members[k + 1]
                   ELSE IF k = count THEN NULL ELSE members[k]]

(***************************************************************************)
(* remove_party_member.  members[count] is cleared: one past the last      *)
(* member, so the slot that falls free keeps its pointer.  In a full party *)
(* that is members[6], which is outside the array and on the count: the    *)
(* compiled code keeps 5 if it holds the count in a register across the    *)
(* store, and leaves 255 or 0 if it reloads the count or stores it first.  *)
(***************************************************************************)
Shifted(at) ==
  [k \in Slots |-> IF at <= k /\ k < count - 1 THEN members[k + 1]
                   ELSE IF k = count THEN NULL ELSE members[k]]

CountsAfterRemoval == IF count < 6 THEN {count - 1} ELSE {5, 255, 0}

remove_party_member(at) ==
  /\ members' = Shifted(at)
  /\ count' \in CountsAfterRemoval
  /\ team' = team \ {members[at]}

\* The slot PermaDeath removes: the first fainted one behind the lead, if the
\* pointers before it are all there.
Removable(k) ==
  /\ k \in 1 .. count - 1
  /\ members[k] # NULL /\ hp[members[k]] = 0
  /\ \A j \in 1 .. k - 1 : members[j] # NULL /\ hp[members[j]] # 0

\* Once the count is wrong the hooks run past the array: not followed further.
InBounds == count <= 6

PermaDeath ==
  /\ phase = "battle" /\ InBounds
  /\ \E k \in Slots : Removable(k) /\ remove_party_member(k)
  /\ UNCHANGED <<hp, index, phase, before, read, order>>

Minimum(a, b) == IF a < b THEN a ELSE b

\* FixIterationCount, and the game's loop over W0 members that follows it.
FixIterationCount ==
  /\ phase = "battle" /\ InBounds
  /\ read' = { members[k] : k \in 0 .. Minimum(before, count) - 1 }
  /\ UNCHANGED <<party, hp, index, phase, before, team, order>>

(***************************************************************************)
(* RestorePartyOrderPatch: a fainted lead goes if it is not the last one,  *)
(* W21 is capped, and the remembered indices of the members that are left  *)
(* are compacted in their order.                                           *)
(***************************************************************************)
\* The fainted lead, without the test that another one is left; and no test at all.
LeadFaintedAlone == members[0] # NULL /\ hp[members[0]] = 0
LeadForgotten == FALSE

LeadFainted == count > 1 /\ members[0] # NULL /\ hp[members[0]] = 0

Iterated(m) ==
  \E k \in Slots : /\ k < Minimum(before, count) /\ members[k] = m
                   /\ \A j \in 0 .. k : members[j] # NULL

\* Not compacted.
RankAsRemembered(m) == index[m]

\* The rank of a member's remembered index among those that are left.
Rank(m) == Cardinality({ k \in Slots :
             /\ k < index[m]
             /\ \E n \in Pokemon : Iterated(n)' /\ index[n] = k })

RestorePartyOrderPatch ==
  /\ phase = "battle" /\ InBounds
  /\ \A k \in Slots : ~ Removable(k)      \* PermaDeath has kept up
  /\ IF LeadFainted THEN remove_party_member(0) ELSE UNCHANGED <<party, team>>
  /\ phase' = "restored"
  /\ UNCHANGED before
  /\ index' = [m \in Pokemon |-> IF Iterated(m)' THEN Rank(m) ELSE index[m]]
  /\ read' = { members'[k] : k \in 0 .. Minimum(before, count') - 1 }
  /\ UNCHANGED <<hp, order>>

-----------------------------------------------------------------------------
\* External: what the game does.

\* The battle party starts in the order of the real one and remembers it.
StartBattle ==
  /\ phase = "field"
  /\ \E m \in Pokemon : InParty(m) /\ hp[m] # 0
  /\ phase' = "battle"
  /\ before' = count
  /\ index' = [m \in Pokemon |->
                 IF InParty(m) THEN CHOOSE k \in 0 .. count - 1 : members[k] = m
                 ELSE index[m]]
  /\ order' = index'
  /\ read' = {}
  /\ UNCHANGED <<party, hp, team>>

Faint(m) ==
  /\ phase = "battle" /\ InBounds
  /\ InParty(m) /\ hp[m] # 0
  /\ hp' = [hp EXCEPT ![m] = 0]
  /\ UNCHANGED <<party, index, phase, before, read, team, order>>

\* Another Pokemon is sent out and changes places with the lead.
SendOut(k) ==
  /\ phase = "battle" /\ InBounds
  /\ k \in 1 .. count - 1
  /\ members[k] # NULL /\ hp[members[k]] # 0
  /\ members' = [members EXCEPT ![0] = members[k], ![k] = members[0]]
  /\ UNCHANGED <<count, hp, index, phase, before, read, team, order>>

\* The real party's order, from real_party_index: a place that no member has is empty.
InPlace(k) == { m \in Pokemon : InParty(m) /\ index[m] = k }

RestoreOrder ==
  /\ phase = "restored" /\ InBounds
  /\ phase' = "field"
  /\ members' = [k \in Slots |-> IF k >= count THEN members[k]
                   ELSE IF InPlace(k) = {} THEN NULL
                   ELSE CHOOSE m \in InPlace(k) : TRUE]
  /\ read' = {}
  /\ UNCHANGED <<count, hp, index, before, team, order>>

Heal ==
  /\ phase = "field"
  /\ hp' = [m \in Pokemon |-> 1]
  /\ UNCHANGED <<party, index, phase, before, read, team, order>>

\* A Pokemon joins the party, healthy.  (A Pokemon that was deleted does not come
\* back; its name may be used again for another one.)
Join(m) ==
  /\ phase = "field"
  /\ count < MaxParty
  /\ ~ InParty(m)
  /\ members' = [members EXCEPT ![count] = m]
  /\ count' = count + 1
  /\ team' = team \cup {m}
  /\ hp' = [hp EXCEPT ![m] = 1]
  /\ UNCHANGED <<index, phase, before, read, order>>

Battle ==
  \/ StartBattle
  \/ \E m \in Pokemon : Faint(m)
  \/ \E k \in Slots : SendOut(k)
  \/ PermaDeath \/ FixIterationCount \/ RestorePartyOrderPatch
  \/ RestoreOrder

Next == Battle \/ Heal \/ \E m \in Pokemon : Join(m)

Spec == Init /\ [][Next]_vars

-----------------------------------------------------------------------------
TypeOK ==
  /\ members \in [Slots -> Pokemon \cup {NULL}]
  /\ count \in Bytes
  /\ hp \in [Pokemon -> 0 .. 1]
  /\ index \in [Pokemon -> Slots]
  /\ phase \in {"field", "battle", "restored"}
  /\ before \in Bytes
  /\ read \subseteq Pokemon \cup {NULL}
  /\ team \subseteq Pokemon
  /\ order \in [Pokemon -> Slots]

\* The slots below the count hold exactly the Pokemon that were never deleted, each
\* once: no hook loses, duplicates or skips a Pokemon, whatever the order of
\* faints, switches and removals.
PartyIsTeam ==
  /\ count \in 1 .. 6
  /\ team = { members[k] : k \in 0 .. count - 1 }
  /\ \A j, k \in 0 .. count - 1 : members[j] = members[k] => j = k

\* The README: when a Pokemon faints it is deleted.  Only then, never the last one,
\* and nobody who fainted is left when the party returns to the field, unless it is
\* the only one.
OnlyTheFaintedGo ==
  [][ \A m \in team : m \notin team' => hp[m] = 0 /\ team # {m} ]_vars

NoFaintedLeft ==
  phase = "restored" => count = 1 \/ \A k \in 0 .. count - 1 : hp[members[k]] # 0

\* After the battle the survivors' indices are 0 .. count-1 in the order the party
\* had before the battle, so that restoring the order loses nobody.
OrderKept ==
  phase = "restored" =>
    /\ { index[m] : m \in team } = 0 .. count - 1
    /\ \A m, n \in team : index[m] < index[n] <=> order[m] < order[n]

\* The comment on FixIterationCount: the game would dereference a null pointer if it
\* iterated over the size the party had before the battle.  With the hooks every slot
\* it iterates over holds a member of the party.
ReadsMembersOnly == read \subseteq Pokemon

\* The party is one the game can go on with: every variable is of its type, the slots
\* hold the team, and nobody reads a slot behind it.
PartyWhole == TypeOK /\ PartyIsTeam /\ ReadsMembersOnly
=============================================================================
