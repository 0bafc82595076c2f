------------------------------ MODULE GameData ------------------------------
(***************************************************************************)
(* The hooks behind the game's loaders and givers, under                   *)
(* source/program/patches: learnset.hpp, personal_total.hpp,               *)
(* shop_items.hpp, field_items.hpp, and gift_tms.hpp with its callback of  *)
(* amx_handler.hpp.  Each replaces what the game has just looked up.       *)
(***************************************************************************)
EXTENDS Rng, FiniteSets

CONSTANTS
  Settings, Hashings,        \* as in Encounters
  Learnsets,                 \* from a species to its moves' levels, a sequence
  Cap,                       \* 65: what learnset_items has room for
  BaseStats, Shedinja,       \* from a species to its six stats; species 292
  NumberMax,                 \* the largest number of a generator
  Shops,                     \* from a shop to what it sells
  Balls, Sparkles,           \* items in the field, by hash; what lies in a ball is Balls[h]
  TM_IDENTIFIERS,            \* the table, a sequence
  Calls,                     \* what scripts pass to the game's functions
  None

Names == { <<"learnset", s>> : s \in DOMAIN Learnsets }
         \cup { <<"personal_total", s>> : s \in DOMAIN BaseStats }
         \cup { <<"sparkle_item", h>> : h \in Sparkles }
         \cup { <<"ball_item", h>> : h \in DOMAIN Balls }
         \cup { <<"gift_tm", TM_IDENTIFIERS[k].identifier>> : k \in DOMAIN TM_IDENTIFIERS }

ElementsOf(s) == { s[k] : k \in DOMAIN s }
Total(s) == LET upTo[k \in 0 .. Len(s)] == IF k = 0 THEN 0 ELSE upTo[k - 1] + s[k]
            IN  upTo[Len(s)]

ASSUME GameDataConstants ==
  /\ Settings \subseteq [learnset : BOOLEAN, personal : BOOLEAN, filter_shop : BOOLEAN,
                         item : BOOLEAN, gift_tms : BOOLEAN]
  /\ \A h \in Hashings : DOMAIN h = Names /\ \A name \in Names : LoopsEnd(h[name])
  /\ Cap \in Nat
  /\ \A s \in DOMAIN Learnsets : Learnsets[s] \in Seq(Nat) /\ Len(Learnsets[s]) <= Cap
  /\ \A s \in DOMAIN BaseStats : BaseStats[s] \in [1 .. 6 -> Nat] /\ Total(BaseStats[s]) >= 70
  /\ NumberMax \in Nat \ {0}
  /\ None \notin DOMAIN Shops /\ \A s \in DOMAIN Shops : Shops[s] \in Seq(Nat)
  /\ ElementsOf(HeldItems) \cap ElementsOf(TMs) = {}
  \* The rows of the table for one gift look for the same item.
  /\ TM_IDENTIFIERS \in Seq(ElementsOf(TM_IDENTIFIERS))
  /\ \A a, b \in ElementsOf(TM_IDENTIFIERS) :
       a.arg \in Nat /\ (a.identifier = b.identifier => a.old = b.old)
  \* A call passes at most the values on the script's stack.
  /\ \A c \in Calls : c.stack \in Seq(Nat) /\ c.count \in 0 .. Len(c.stack)

VARIABLES
  save_file, hashing,        \* the settings and rng_seed
  out,                       \* what the game has been handed last
  inventory,                 \* where the shop's table points to: a shop, the template, or None
  template_data,             \* the items of the last shop that was filtered
  \* history, not in the program:
  told                       \* the TMs scripts were told of: gift, place and item

vars == <<save_file, hashing, out, inventory, template_data, told>>

NewRandomGenerator(name) == Generator(hashing[name])

Init ==
  /\ save_file \in Settings /\ hashing \in Hashings
  /\ out = [kind |-> "nothing"]
  /\ inventory = None /\ template_data = <<>>
  /\ told = {}

-----------------------------------------------------------------------------
(* learnset.hpp *)

End == [move |-> -1, level |-> -1]

LevelOnes(levels) == Cardinality({ k \in DOMAIN levels : levels[k] = 1 })

\* Wherever there is an entry left.
AddedToTheEnd(levels) ==
  IF levels # <<>> /\ Len(levels) < Cap /\ LevelOnes(levels) < 4
  THEN 4 - LevelOnes(levels) ELSE 0
Added(levels) ==
  IF levels # <<>> /\ Len(levels) < Cap - 3 /\ LevelOnes(levels) < 4
  THEN 4 - LevelOnes(levels) ELSE 0

RandomLearnsetHook(s) ==
  /\ LET levels == Learnsets[s]
         count  == Len(levels) + IF save_file.learnset THEN Added(levels) ELSE 0
         g      == NewRandomGenerator(<<"learnset", s>>)
         moves  == Draws(g, [k \in 1 .. count |-> ValidMoveIds(g)]).val
     IN  out' = [kind |-> "learnset", species |-> s, count |-> count,
                 items |-> [k \in 1 .. Cap |->
                   IF k > count THEN End
                   ELSE [move  |-> IF save_file.learnset THEN moves[k] ELSE 0,
                         level |-> IF k <= Len(levels) THEN levels[k] ELSE 1]]]
  /\ UNCHANGED <<save_file, hashing, inventory, template_data, told>>

-----------------------------------------------------------------------------
(* personal_total.hpp *)

\* An integer division: 1 for the largest number there is, else 0.
RandDouble(g) == [operator(g) EXCEPT !.val = @ \div NumberMax]

\* std::round of weight / total * bst, no less than 1.  0 / 0 is not a number, and the
\* maximum of 1 and that is 1.
Share(weight, total, bst) ==
  IF total = 0 \/ weight = 0 THEN 1
  ELSE LET rounded == (2 * weight * bst + total) \div (2 * total)
       IN  IF rounded < 1 THEN 1 ELSE rounded

StatsOf(s, weights) ==
  LET total == Total(weights) - IF s = Shedinja THEN weights[1] ELSE 0
      bst   == Total(BaseStats[s]) - IF s = Shedinja THEN 51 ELSE 70
  IN  [k \in 1 .. 6 |-> IF k > 1 THEN Share(weights[k], total, bst) + 10
                        ELSE IF s = Shedinja THEN 1 ELSE Share(weights[1], total, bst) + 20]

DrawStats(g, s) ==
  LET weights == Draws(g, [k \in 1 .. 6 |-> [h \in Places(g) |-> RandDouble(h)]])
  IN  [val |-> StatsOf(s, weights.val), gen |-> weights.gen]

InAByte == [1 .. 6 -> 0 .. 255]
Stats(g, s) == [h \in Places(g) |-> DrawStats(h, s)]
RandStats(g, s) == Until(g, Stats(g, s), InAByte)

\* The loop for the stats ends too.
ASSUME StatsLoopEnds ==
  \A h \in Hashings, s \in DOMAIN BaseStats :
    LET g == Generator(h[<<"personal_total", s>>])
    IN  Ahead(g, Stats(g, s)) \cap InAByte # {}

\* The fields that the hook writes; those it does not are None in what the game filled in.
personal_info(s, base_stats, abilities, held_items) ==
  [kind |-> "personal", species |-> s, base_stats |-> base_stats,
   abilities |-> abilities, held_items |-> held_items]

FetchPersonalInfoHook(s) ==
  /\ LET g == NewRandomGenerator(<<"personal_total", s>>)
         stats == RandStats(g, s)
         abilities == Draws(stats.gen, [k \in 1 .. 3 |->
                              [h \in Places(g) |-> RandRange(h, 1, 268)]])
         items == Draws(abilities.gen, [k \in 1 .. 3 |->
                              [h \in Places(g) |-> RandHeldItem(h)]])
     IN  out' = IF save_file.personal
                THEN personal_info(s, stats.val, abilities.val, items.val)
                ELSE personal_info(s, BaseStats[s], None, None)
  /\ UNCHANGED <<save_file, hashing, inventory, template_data, told>>

-----------------------------------------------------------------------------
(* shop_items.hpp *)

WHITELISTED_SHOP_ITEMS == (1 .. 16) \cup (492 .. 500) \cup {576, 851}
Whitelisted(items) ==
  LET kept[k \in 0 .. Len(items)] ==
        IF k = 0 THEN <<>>
        ELSE LET last == kept[k - 1]
             IN  IF items[k] \in WHITELISTED_SHOP_ITEMS THEN Append(last, items[k]) ELSE last
  IN  kept[Len(items)]
Filtered(items) == IF Whitelisted(items) = <<>> THEN <<106>> ELSE Whitelisted(items)

\* The game's function points the table to the shop, or to nothing; the hook to its copy.
FilterShopItems(shop) ==
  /\ IF save_file.filter_shop /\ shop # None
     THEN template_data' = Filtered(Shops[shop]) /\ inventory' = "template_data"
     ELSE inventory' = shop /\ UNCHANGED template_data
  /\ out' = [kind |-> "shop", shop |-> shop]
  /\ UNCHANGED <<save_file, hashing, told>>

Sold == IF inventory = "template_data" THEN template_data ELSE Shops[inventory]

-----------------------------------------------------------------------------
(* field_items.hpp *)

\* The item's place is always the last, 7: the loop over the cutoffs runs on when it has
\* found one.
RandomizeSparkleItem(h) ==
  /\ out' = [kind |-> "sparkle", item |-> IF save_file.item
               THEN RandHeldItem(NewRandomGenerator(<<"sparkle_item", h>>)).val ELSE None]
  /\ UNCHANGED <<save_file, hashing, inventory, template_data, told>>

\* TMs are only drawn for gifts.
BallItem(g, item) ==
  IF item \notin ElementsOf(TMs) THEN RandHeldItem(g).val ELSE RandTM(g).val

RandomizeBallItem(h) ==
  /\ out' = [kind |-> "ball", hash |-> h, item |-> IF save_file.item
               THEN BallItem(NewRandomGenerator(<<"ball_item", h>>), Balls[h]) ELSE Balls[h]]
  /\ UNCHANGED <<save_file, hashing, inventory, template_data, told>>

-----------------------------------------------------------------------------
(* gift_tms.hpp *)

Matches(id, call, stack) ==
  /\ call.cip = id.cip
  /\ id.arg < call.count
  /\ stack[id.arg + 1] = id.old

\* A draw for every place of the script.
TMOfPlace(id) == TMs[1 + (id.cip % Len(TMs))]
TMOf(id) == RandTM(NewRandomGenerator(<<"gift_tm", id.identifier>>)).val

\* Down the table, each row looking at what the ones before it have left.
replace_tm(call) ==
  LET after[k \in 0 .. Len(TM_IDENTIFIERS)] ==
        IF k = 0 THEN call.stack
        ELSE LET id == TM_IDENTIFIERS[k]  stack == after[k - 1]
             IN  IF Matches(id, call, stack)
                 THEN [stack EXCEPT ![id.arg + 1] = TMOf(id)] ELSE stack
  IN  IF save_file.gift_tms THEN after[Len(TM_IDENTIFIERS)] ELSE call.stack

OnAmxCallback(call) ==
  /\ out' = [kind |-> "call", call |-> call, stack |-> replace_tm(call)]
  /\ told' = told \cup { [gift |-> id.identifier, cip |-> id.cip,
                          tm |-> replace_tm(call)[id.arg + 1]] :
                         id \in { i \in ElementsOf(TM_IDENTIFIERS) :
                                    Matches(i, call, call.stack) } }
  /\ UNCHANGED <<save_file, hashing, inventory, template_data>>

Next ==
  \/ \E s \in DOMAIN Learnsets : RandomLearnsetHook(s)
  \/ \E s \in DOMAIN BaseStats : FetchPersonalInfoHook(s)
  \/ \E shop \in DOMAIN Shops \cup {None} : FilterShopItems(shop)
  \/ \E h \in Sparkles : RandomizeSparkleItem(h)
  \/ \E h \in DOMAIN Balls : RandomizeBallItem(h)
  \/ \E call \in Calls : OnAmxCallback(call)

Spec == Init /\ [][Next]_vars

-----------------------------------------------------------------------------
TypeOK ==
  /\ save_file \in Settings /\ hashing \in Hashings
  /\ inventory \in DOMAIN Shops \cup {"template_data", None}
  /\ out.kind \in {"nothing", "learnset", "personal", "shop", "sparkle", "ball", "call"}
  /\ out.kind = "sparkle" => out.item \in ElementsOf(HeldItems) \cup {None}
  /\ out.kind = "call" => \A k \in DOMAIN out.stack :
       out.stack[k] # out.call.stack[k] => k <= out.call.count /\ out.stack[k] \in ElementsOf(TMs)

\* learnset.hpp: ensure at least 4 moves at level 1 (if possible).  A learnset that has room
\* for four more gets them, count is the number of its entries and no more than the array
\* holds, every move can be used, and the levels that were there stay.
LearnsetsWhole ==
  out.kind = "learnset" =>
    LET levels == Learnsets[out.species]
        entries == { k \in DOMAIN out.items : out.items[k] # End }
    IN  /\ entries = 1 .. out.count
        /\ \A k \in DOMAIN levels : out.items[k].level = levels[k]
        /\ save_file.learnset =>
             /\ \A k \in entries : out.items[k].move \in Usable
             /\ levels # <<>> /\ Len(levels) + 4 <= Cap =>
                  Cardinality({ k \in entries : out.items[k].level = 1 }) >= 4

\* personal_total.hpp: the loop keeps stats in a byte, and Shedinja its one hit point.
StatsFit ==
  out.kind = "personal" /\ save_file.personal =>
    /\ \A k \in 1 .. 6 : out.base_stats[k] \in 1 .. 255
    /\ out.species = Shedinja <=> out.base_stats[1] = 1

\* README: shops will only sell Poke Balls.  What the table points to is all the shop's own
\* balls in their order, one placeholder if it had none, and nothing else.
ShopsSellBalls ==
  out.kind = "shop" /\ out.shop # None /\ save_file.filter_shop =>
    /\ Sold # <<>>
    /\ ElementsOf(Sold) \cap WHITELISTED_SHOP_ITEMS
         = ElementsOf(Shops[out.shop]) \cap WHITELISTED_SHOP_ITEMS
    /\ ElementsOf(Sold) \subseteq WHITELISTED_SHOP_ITEMS \/ Sold = <<106>>

\* field_items.hpp: a TM in a ball is replaced by a TM and another item by no TM.
BallsKeepTheirKind ==
  out.kind = "ball" =>
    (out.item \in ElementsOf(TMs) <=> Balls[out.hash] \in ElementsOf(TMs))

\* gift_tms.hpp gives one identifier to all the places where a script names a gift.  They
\* name the same TM, but for those that are also in the table for another gift: there a
\* TM that was drawn may be replaced again, as the other gift's.
SharedPlace(cip) ==
  \E j, k \in DOMAIN TM_IDENTIFIERS :
    /\ TM_IDENTIFIERS[j].cip = cip /\ TM_IDENTIFIERS[k].cip = cip
    /\ TM_IDENTIFIERS[j].identifier # TM_IDENTIFIERS[k].identifier

OneTMPerGift ==
  \A a, b \in told :
    a.gift = b.gift /\ a.tm # b.tm => SharedPlace(a.cip) \/ SharedPlace(b.cip)

\* Whatever the game asks for, it gets a record it can use: of its type, no longer than
\* its array, numbers within their bytes, a shop that sells something, an item of its kind.
RecordsUsable ==
  /\ TypeOK
  /\ LearnsetsWhole /\ StatsFit /\ ShopsSellBalls /\ BallsKeepTheirKind
=============================================================================
