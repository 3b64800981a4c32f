-------------------------------- MODULE Store --------------------------------
(***************************************************************************)
(* Purchases: on_buy_goods, paid with what the player owns, and            *)
(* on_new_order, which completes an order of the store of the platform at  *)
(* once (handlers/store/buy_goods.rs, handlers/store/new_order.rs).        *)
(***************************************************************************)
EXTENDS Inventory

CONSTANTS
    Goods,       \* store_goods
    Cost,        \* Cost[g]: its cost, items and currencies
    Product,     \* Product[g]
    BuyLimit,    \* BuyLimit[g]: max_buy_count, 0 without one
    Quantity,    \* bound: the numbers a request asks for, which nobody checks
    Pack,        \* store_charge_goods
    PackItems,   \* PackItems[p]: what it holds; of a month card, both bonuses
    PackPrice,   \* PackPrice[p]
    CardDays     \* CardDays[p]: the days of a month card, 0 for another pack

ASSUME StoreAssumption ==
    /\ Cost \in [Goods -> Bill] /\ Product \in [Goods -> Bill]
    /\ \A g \in Goods : \A i \in DOMAIN Cost[g] : Kind[Cost[g][i][1]] \in {"item", "currency"}
    /\ BuyLimit \in [Goods -> Nat]
    /\ IsFiniteSet(Quantity) /\ Quantity \subseteq Int /\ \E n \in Quantity : n > 0
    /\ PackItems \in [Pack -> Bill] /\ PackPrice \in [Pack -> Nat]
    /\ CardDays \in [Pack -> Nat]

VARIABLES
    bought,     \* bought[g]: user_store_goods.buy_count
    charged,    \* charged[p]: user_charge_info.buy_count
    spent,      \* user_stats.total_charge_amount
    cardUntil,  \* cardUntil[p]: the days the month card has left
    orders      \* history: orders[p]: orders of p that were completed

storeVars == <<bought, charged, spent, cardUntil, orders>>

StoreInit ==
    /\ bought = [g \in Goods |-> 0]
    /\ charged = [p \in Pack |-> 0]
    /\ spent = 0
    /\ cardUntil = [p \in Pack |-> 0]
    /\ orders = [p \in Pack |-> 0]

-----------------------------------------------------------------------------
(* on_buy_goods.                                                           *)

Payable == <<"item", "currency">>
CostIn(op, parcels) ==
    FlattenSeq([i \in DOMAIN Payable |-> Each(op, OfKind(parcels, Payable[i]))])

\* A hero is given once, whatever the number is.
Promise(parcels, n) ==
    [x \in Thing |-> IF x \in Hero THEN Total(parcels)[x] ELSE n * Total(parcels)[x]]

BuyOrder == <<"item", "currency", "equip", "power", "insight", "hero">>

\* Mutant of BuyGoods: the goods first, then the price.
BuyGoodsOnCredit(c, g, n) ==
    /\ Begin(c, Total(Times(Cost[g], n)), Promise(Product[g], n),
             << Stmt("limit", g, n) >>
             \o CostIn("check", Times(Cost[g], n))
             \o Deliver(BuyOrder, Times(Product[g], n), "buyHero")
             \o CostIn("take", Times(Cost[g], n)) \o << Stmt("countBuy", g, n) >>)
    /\ UNCHANGED storeVars

\* The limit is looked at, the price checked and taken, the purchase counted and
\* the goods given.  With n < 0 all of it goes the other way: the price is paid
\* back, the count falls, and the goods are taken from the stock.
BuyGoods(c, g, n) ==
    /\ Begin(c, Total(Times(Cost[g], n)), Promise(Product[g], n),
             << Stmt("limit", g, n) >>
             \o CostIn("check", Times(Cost[g], n)) \o CostIn("take", Times(Cost[g], n))
             \o << Stmt("countBuy", g, n) >>
             \o Deliver(BuyOrder, Times(Product[g], n), "buyHero"))
    /\ UNCHANGED storeVars

\* Mutant of CheckLimit: how many are bought is left out of the comparison.
CheckLimitReached(c) ==
    /\ At(c, "limit")
    /\ IF BuyLimit[What(c)] > 0 /\ bought[What(c)] >= BuyLimit[What(c)]
       THEN Return(c, "refused") ELSE Proceed(c, <<>>)
    /\ UNCHANGED <<owned, storeVars>> /\ Unrecorded

\* The purchase limit, against the count as it is now.
CheckLimit(c) ==
    /\ At(c, "limit")
    /\ IF BuyLimit[What(c)] > 0 /\ bought[What(c)] + Amount(c) > BuyLimit[What(c)]
       THEN Return(c, "refused") ELSE Proceed(c, <<>>)
    /\ UNCHANGED <<owned, storeVars>> /\ Unrecorded

CountBuy(c) ==
    /\ At(c, "countBuy")
    /\ bought' = [bought EXCEPT ![What(c)] = @ + Amount(c)]
    /\ Proceed(c, <<>>)
    /\ UNCHANGED <<owned, charged, spent, cardUntil, orders>> /\ Unrecorded

-----------------------------------------------------------------------------
(* on_new_order.  The card, the counter of the pack and the total are read  *)
(* and then overwritten.                                                   *)

PackOrder == <<"item", "currency", "power", "insight", "equip", "hero">>

NewOrder(c, p) ==
    /\ Begin(c, Nothing, Total(PackItems[p]),
             (IF CardDays[p] > 0 THEN << Stmt("readCard", p, 0) >> ELSE <<>>)
             \o Deliver(PackOrder, PackItems[p], "orderHero")
             \o << Stmt("readCharge", p, 0), Stmt("readStats", p, 0) >>)
    /\ UNCHANGED storeVars

ReadCard(c) ==
    /\ At(c, "readCard")
    /\ Proceed(c, << Stmt("saveCard", What(c), cardUntil[What(c)] + CardDays[What(c)]) >>)
    /\ UNCHANGED <<owned, storeVars>> /\ Unrecorded

\* The player's first card is a new row, and the last row counts; a later one
\* moves the end of the last row.
SaveCard(c) ==
    /\ At(c, "saveCard")
    /\ cardUntil' = [cardUntil EXCEPT ![What(c)] =
                       IF Amount(c) = CardDays[What(c)] THEN Max({@, Amount(c)}) ELSE Amount(c)]
    /\ Proceed(c, <<>>)
    /\ UNCHANGED <<owned, bought, charged, spent, orders>> /\ Unrecorded

ReadCharge(c) ==
    /\ At(c, "readCharge")
    /\ Proceed(c, << Stmt("saveCharge", What(c), charged[What(c)] + 1) >>)
    /\ UNCHANGED <<owned, storeVars>> /\ Unrecorded

SaveCharge(c) ==
    /\ At(c, "saveCharge")
    /\ charged' = [charged EXCEPT ![What(c)] = Amount(c)]
    /\ Proceed(c, <<>>)
    /\ UNCHANGED <<owned, bought, spent, cardUntil, orders>> /\ Unrecorded

ReadStats(c) ==
    /\ At(c, "readStats")
    /\ Proceed(c, << Stmt("saveStats", What(c), spent + PackPrice[What(c)]) >>)
    /\ UNCHANGED <<owned, storeVars>> /\ Unrecorded

SaveStats(c) ==
    /\ At(c, "saveStats")
    /\ spent' = Amount(c)
    /\ orders' = [orders EXCEPT ![What(c)] = @ + 1]
    /\ Proceed(c, <<>>)
    /\ UNCHANGED <<owned, bought, charged, cardUntil>> /\ Unrecorded

-----------------------------------------------------------------------------
StoreRequest(c) ==
    \/ \E g \in Goods, n \in Quantity : BuyGoods(c, g, n)
    \/ \E p \in Pack : NewOrder(c, p)

StoreStep(c) ==
    \/ CheckLimit(c) \/ CountBuy(c)
    \/ ReadCard(c) \/ SaveCard(c) \/ ReadCharge(c) \/ SaveCharge(c)
    \/ ReadStats(c) \/ SaveStats(c)
=============================================================================
