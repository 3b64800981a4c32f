-------------------------------- MODULE Items --------------------------------
(***************************************************************************)
(* Consumables: on_use_item, on_use_insight_item and                       *)
(* on_auto_use_expire_power_item (handlers/item).                          *)
(***************************************************************************)
EXTENDS Growth

CONSTANTS
    Consumable,      \* the items that can be used
    Effect,          \* Effect[i]: fixed, random or chosen rewards, or a hero
    Baskets,         \* bound: the requests to use items, as sequences of entries
    InsightRow,      \* rows of insight_items, each of one item
    InsightRank,     \* InsightRank[r]: insight_item.hero_rank
    InsightLevel,    \* InsightLevel[r]: the level its effect sets
    ExpiredRow,      \* rows of power_items that expired
    StaminaOf        \* StaminaOf[e]: what they are worth

\* An item gives all of a bill, one of its parcels for each item used at random,
\* the parcel asked for, or one of the heroes of its effect.
EffectKind == {"fixed", "random", "chosen", "hero"}

ASSUME ItemsAssumption ==
    /\ Consumable \subseteq Material
    /\ \A i \in Consumable : /\ Effect[i].kind \in EffectKind
                             /\ Effect[i].gives \in Bill
                             /\ Effect[i].kind = "hero" =>
                                   \A j \in DOMAIN Effect[i].gives : Effect[i].gives[j][1] \in Hero
    /\ Baskets \subseteq Seq(Consumable \X Int \X Nat)
    /\ \A entries \in Baskets : \A j \in DOMAIN entries :
          entries[j][3] \in DOMAIN Effect[entries[j][1]].gives
    /\ InsightRank \in [InsightRow -> Nat] /\ InsightLevel \in [InsightRow -> Nat \ {0}]
    /\ IsFiniteSet(ExpiredRow)
    /\ StaminaOf \in [ExpiredRow -> Nat \ {0}]

VARIABLES
    stamina,   \* the row of currency 4
    expired,   \* the rows of ExpiredRow that are still there
    left,      \* left[r]: insight_items.quantity
    raises     \* history: raises[r]: how often r set a hero's rank

itemVars == <<stamina, expired, left, raises>>

ItemsInit ==
    /\ stamina = 0
    /\ expired = ExpiredRow
    /\ left = [r \in InsightRow |-> 1]
    /\ raises = [r \in InsightRow |-> 0]

-----------------------------------------------------------------------------
(* on_use_item: each entry is paid, and what it gives is kept in memory and *)
(* handed out after the last.  An entry that cannot be paid is an error.    *)

Reward(c, extra) ==
    /\ bill' = [bill EXCEPT ![c].product = [x \in Thing |-> @[x] + extra[x]]]
    /\ UNCHANGED <<settled, taken, dearest, overlapped, served, faults>>

\* entries: <<item, quantity, what was chosen of its effect>>.  The quantity is
\* not checked either.
UseItem(c, entries) ==
    /\ Begin(c, Total([i \in DOMAIN entries |-> <<entries[i][1], entries[i][2]>>]), Nothing,
             FlattenSeq([i \in DOMAIN entries |->
                << Ordered("pay", entries[i][1], entries[i][2]),
                   Stmt("open", <<entries[i][1], entries[i][3]>>, entries[i][2]) >>])
             \o << Stmt("handOut", "all", 0) >>)
    /\ UNCHANGED <<growthVars, itemVars>>

\* A hero item gives one hero, and a random one as many as were used, if any.
Open(c) ==
    /\ At(c, "open")
    /\ LET gives == Effect[What(c)[1]].gives  choice == What(c)[2]  n == Amount(c)
       IN CASE Effect[What(c)[1]].kind = "fixed" ->
                 Proceed(c, <<>>) /\ Reward(c, Total(Times(gives, n)))
            [] Effect[What(c)[1]].kind = "chosen" ->
                 Proceed(c, <<>>) /\ Reward(c, Total(Times(<< gives[choice] >>, n)))
            [] Effect[What(c)[1]].kind = "random" ->
                 \E picks \in [1..n -> DOMAIN gives] :
                    Proceed(c, <<>>) /\ Reward(c, Total([i \in 1..n |-> gives[picks[i]]]))
            [] Effect[What(c)[1]].kind = "hero" ->
                 /\ Proceed(c, << Stmt("useHero", gives[choice][1], 1) >>)
                 /\ Reward(c, Total(<< gives[choice] >>))
    /\ UNCHANGED <<owned, growthVars, itemVars>>

UseOrder == <<"item", "currency", "equip">>

\* bill[c].product is what the handler collected; an upsert of nothing at all is
\* left out.
HandOut(c) ==
    /\ At(c, "handOut")
    /\ LET due == bill[c].product
           parcels == SetToSeq({<<m, due[m]>> : m \in {n \in Material : due[n] # 0}})
       IN Proceed(c, Deliver(UseOrder, parcels, "useHero"))
    /\ UNCHANGED <<owned, growthVars, itemVars>> /\ Unrecorded

-----------------------------------------------------------------------------
(* on_use_insight_item: the hero is raised first, the item counted last.    *)

UseInsight(c, r, h) ==
    /\ Begin(c, Nothing, Nothing, << Stmt("applyInsight", <<r, h>>, 0) >>)
    /\ UNCHANGED <<growthVars, itemVars>>

\* Mutant of ApplyInsight: a row that is used up still works.
ApplyUsedInsight(c) ==
    /\ At(c, "applyInsight")
    /\ LET r == What(c)[1]  h == What(c)[2]
       IN IF h \notin heroes THEN Decline(c)
          ELSE /\ Proceed(c, << Stmt("raise", <<r, h>>, InsightRank[r] + 1) >>
                             \o SkinOf(h, InsightRank[r] + 1)
                             \o << Stmt("spendInsight", r, 1) >>)
               /\ Unrecorded
    /\ UNCHANGED <<owned, growthVars, itemVars>>

ApplyInsight(c) ==
    /\ At(c, "applyInsight")
    /\ LET r == What(c)[1]  h == What(c)[2]
       IN IF left[r] <= 0 \/ h \notin heroes THEN Decline(c)
          ELSE /\ Proceed(c, << Stmt("raise", <<r, h>>, InsightRank[r] + 1) >>
                             \o SkinOf(h, InsightRank[r] + 1)
                             \o << Stmt("spendInsight", r, 1) >>)
               /\ Unrecorded
    /\ UNCHANGED <<owned, growthVars, itemVars>>

\* The rank and the level the hero has do not count.
Raise(c) ==
    /\ At(c, "raise")
    /\ LET r == What(c)[1]  h == What(c)[2]
       IN /\ grown' = [grown EXCEPT ![h].rank = Amount(c), ![h].level = InsightLevel[r]]
          /\ raises' = [raises EXCEPT ![r] = @ + 1]
    /\ Proceed(c, <<>>)
    /\ UNCHANGED <<owned, styles, bits, bitsRead, skin, stamina, expired, left>> /\ Unrecorded

SpendInsight(c) ==
    /\ At(c, "spendInsight")
    /\ left' = [left EXCEPT ![What(c)] = @ - 1]
    /\ Proceed(c, <<>>)
    /\ UNCHANGED <<owned, growthVars, stamina, expired, raises>> /\ Unrecorded

-----------------------------------------------------------------------------
(* on_auto_use_expire_power_item: the rows are deleted one by one, then the *)
(* stamina is read and overwritten.  The month card it looks at next is in  *)
(* Daily.                                                                  *)

AutoUse(c) ==
    /\ Begin(c, Nothing, Nothing, << Stmt("findExpired", "all", 0) >>)
    /\ UNCHANGED <<growthVars, itemVars>>

\* Mutant of FindExpired: the stamina first, then the rows.
FindExpiredGiveFirst(c) ==
    /\ At(c, "findExpired")
    /\ LET rows == SetToSeq(expired)
           total == SumFunctionOnSet(StaminaOf, expired)
       IN Proceed(c, (IF rows = <<>> THEN <<>> ELSE << Stmt("readStamina", "all", total) >>)
                     \o [i \in DOMAIN rows |-> Stmt("deletePower", rows[i], 0)])
    /\ UNCHANGED <<owned, growthVars, itemVars>> /\ Unrecorded

FindExpired(c) ==
    /\ At(c, "findExpired")
    /\ LET rows == SetToSeq(expired)
           total == SumFunctionOnSet(StaminaOf, expired)
       IN Proceed(c, [i \in DOMAIN rows |-> Stmt("deletePower", rows[i], 0)]
                     \o (IF rows = <<>> THEN <<>> ELSE << Stmt("readStamina", "all", total) >>))
    /\ UNCHANGED <<owned, growthVars, itemVars>> /\ Unrecorded

\* A row another connection deleted makes no difference.
DeletePower(c) ==
    /\ At(c, "deletePower")
    /\ expired' = expired \ {What(c)}
    /\ Proceed(c, <<>>)
    /\ UNCHANGED <<owned, growthVars, stamina, left, raises>> /\ Unrecorded

ReadStamina(c) ==
    /\ At(c, "readStamina")
    /\ Proceed(c, << Stmt("saveStamina", "all", stamina + Amount(c)) >>)
    /\ UNCHANGED <<owned, growthVars, itemVars>> /\ Unrecorded

SaveStamina(c) ==
    /\ At(c, "saveStamina")
    /\ stamina' = Amount(c)
    /\ Proceed(c, <<>>)
    /\ UNCHANGED <<owned, growthVars, expired, left, raises>> /\ Unrecorded

-----------------------------------------------------------------------------
ItemsRequest(c) ==
    \/ \E entries \in Baskets : UseItem(c, entries)
    \/ \E r \in InsightRow, h \in Hero : UseInsight(c, r, h)
    \/ AutoUse(c)

ItemsStep(c) ==
    \/ Open(c) \/ HandOut(c)
    \/ ApplyInsight(c) \/ Raise(c) \/ SpendInsight(c)
    \/ FindExpired(c) \/ DeletePower(c) \/ ReadStamina(c) \/ SaveStamina(c)
=============================================================================
