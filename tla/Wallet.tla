-------------------------------- MODULE Wallet --------------------------------
(***************************************************************************)
(* The services that take from and give to a player, on one inventory:     *)
(* purchases, growth, consumables, mail, summons and GM commands, and how   *)
(* the player lays out talents and teams, on connections whose handlers    *)
(* interleave statement by statement.                                      *)
(***************************************************************************)
EXTENDS Store, Items, Mail, Summon, TalentLayouts, HeroGroups, Gm

CONSTANTS
    Mixes      \* bound: the sets of services that are used together

Service == {"store", "growth", "items", "mail", "summon", "talents", "groups", "gm"}

ASSUME WalletAssumption == Mixes \subseteq SUBSET Service

VARIABLE services    \* bound: the services this behaviour uses

layOut == <<layoutVars, groupVars>>
vars == <<invVars, storeVars, growthVars, itemVars, mailVars, summonVars, layOut, gmVars, services>>

Init ==
    /\ InventoryInit /\ StoreInit /\ GrowthInit /\ ItemsInit /\ MailInit /\ SummonInit
    /\ LayoutInit /\ GroupsInit /\ GmInit
    /\ services \in Mixes

StoreNext(c) ==
    /\ ("store" \in services /\ StoreRequest(c)) \/ StoreStep(c)
    /\ UNCHANGED <<growthVars, itemVars, mailVars, summonVars, layOut, gmVars, services>>

GrowthNext(c) ==
    /\ ("growth" \in services /\ GrowthRequest(c)) \/ GrowthStep(c)
    /\ UNCHANGED <<storeVars, itemVars, mailVars, summonVars, layOut, gmVars, services>>

ItemsNext(c) ==
    /\ ("items" \in services /\ ItemsRequest(c)) \/ ItemsStep(c)
    /\ UNCHANGED <<storeVars, mailVars, summonVars, layOut, gmVars, services>>

MailNext(c) ==
    /\ ("mail" \in services /\ MailRequest(c)) \/ MailStep(c)
    /\ UNCHANGED <<storeVars, growthVars, itemVars, summonVars, layOut, gmVars, services>>

SummonNext(c) ==
    /\ ("summon" \in services /\ SummonRequest(c)) \/ SummonStep(c)
    /\ UNCHANGED <<storeVars, growthVars, itemVars, mailVars, layOut, gmVars, services>>

LayoutNext(c) ==
    /\ ("talents" \in services /\ LayoutRequest(c)) \/ LayoutStep(c)
    /\ UNCHANGED <<storeVars, itemVars, mailVars, summonVars, groupVars, gmVars, services>>

GroupsNext(c) ==
    /\ ("groups" \in services /\ GroupsRequest(c)) \/ GroupsStep(c)
    /\ UNCHANGED <<storeVars, growthVars, itemVars, mailVars, summonVars, layoutVars, gmVars, services>>

GmNext(c) ==
    /\ ("gm" \in services /\ GmRequest(c)) \/ GmStep(c)
    /\ UNCHANGED <<storeVars, growthVars, itemVars, mailVars, summonVars, layOut, services>>

InventoryNext(c) ==
    /\ InventoryStep(c)
    /\ UNCHANGED <<storeVars, growthVars, itemVars, mailVars, summonVars, layOut, gmVars, services>>

Next ==
    \E c \in Conn :
        \/ InventoryNext(c) \/ StoreNext(c) \/ GrowthNext(c) \/ ItemsNext(c)
        \/ MailNext(c) \/ SummonNext(c) \/ LayoutNext(c) \/ GroupsNext(c)
        \/ GmNext(c)

Spec == Init /\ [][Next]_vars

-----------------------------------------------------------------------------
Serial == ~overlapped
Idle == \A c \in Conn : job[c] = <<>>
Calm == Serial /\ faults = 0 /\ Idle

\* Every variable holds what the columns and the handlers can hold.
TypeOK ==
    /\ balance \in [Material -> Int] /\ present \in [Material -> BOOLEAN]
    /\ withdrawn \in [Material -> Nat] /\ pieces \subseteq Nat /\ heroes \subseteq Hero
    /\ duplicates \in [Hero -> Nat]
    /\ \A c \in Conn : \A i \in DOMAIN job[c] : job[c][i].n \in Int
    /\ outcome \in [Conn -> Outcome]
    /\ bill \in [Conn -> [price : Amounts, product : Amounts]]
    /\ settled \in [Conn -> [price : Amounts, product : Amounts]]
    /\ taken \in [Material -> Nat] /\ served \in Nat /\ faults \in Nat
    /\ bought \in [Goods -> Int] /\ charged \in [Pack -> Nat] /\ spent \in Nat
    /\ cardUntil \in [Pack -> Nat]
    /\ grown \in [Hero -> Grown] /\ styles \in [Hero -> SUBSET Style]
    /\ bits \in [Hero -> SUBSET Style] /\ skin \in [Hero -> 0..3]
    /\ stamina \in Nat /\ expired \subseteq ExpiredRow /\ left \in [InsightRow -> Int]
    /\ claimed \in BOOLEAN /\ claims \in Nat
    /\ pity \in [Pool -> 0..HardPity] /\ guaranteed \in [Pool -> BOOLEAN]
    /\ chosen \in [Pool -> SUBSET Hero] /\ discounts \in [Pool -> Nat]
    /\ counts \in [Pool -> Nat] /\ logged \in [Pool -> Nat]
    /\ inUse \in [Hero -> Template] /\ worn \in [Hero -> [Template -> Style \cup {NoStyle}]]
    /\ lastId \in Nat /\ DOMAIN teams \subseteq 1..lastId /\ DOMAIN meant = DOMAIN teams
    /\ DOMAIN sorted = Snapshot /\ DOMAIN common = Common
    /\ userLevel \in 1..MaxLevel

\* Nothing is spent that is not there: a balance is never below zero while the
\* requests come one after the other.  Handlers that overlap each act on a
\* balance they read before, so it may fall below, by no more than what the
\* other connections were taking at that moment.  Numbers below zero, which no
\* handler turns down, make no debt where they should pay, for then they add; but
\* where they should give, the upsert takes without a look at the balance, and
\* what was taken that way (withdrawn) is on top of the bound.
DebtBounded ==
    /\ TypeOK
    /\ \A m \in Material :
       balance[m] + withdrawn[m] >=
          IF overlapped THEN 0 - (Cardinality(Conn) - 1) * dearest ELSE 0

\* A purchase limit holds for requests in a row, and overlapping ones get past
\* it by at most a request for each other connection: the limit is read first
\* and the count raised after the price (buy_goods.rs).  A request for less than
\* nothing lowers the count, so that as much more can be bought; the count itself
\* does not get past the limit by it.
LimitKept ==
    \A g \in Goods :
       BuyLimit[g] > 0 =>
          bought[g] <= BuyLimit[g]
                       + (IF overlapped THEN (Cardinality(Conn) - 1) * Max(Quantity) ELSE 0)

\* A hero the player owned already is not given again by an order, nor counted;
\* and what has a row for each piece is not taken away by a number below zero.
Given(c) ==
    \A x \in Thing :
       \/ settled[c].product[x] = bill[c].product[x]
       \/ x \in heroes /\ settled[c].product[x] = 0
       \/ Kind[x] \in {"equip", "power", "insight"} /\ bill[c].product[x] < 0
                                                  /\ settled[c].product[x] = 0

\* A price below zero is paid back, but not where there is no row to add it to.
Settled(c) ==
    \A x \in Thing : \/ settled[c].price[x] = bill[c].price[x]
                     \/ bill[c].price[x] < 0 /\ settled[c].price[x] = 0

\* Consumables and talent styles are paid piece by piece, each piece with what
\* it unlocks, before the next is looked at.
Piecewise(c) ==
    \/ \E i \in Consumable : bill[c].price[i] # 0 \/ settled[c].price[i] # 0
    \/ \E s \in Style : bill[c].price = Total(StyleCost[s])

\* A request that ran to its end gave all it promised, no more and no less, with
\* what its duplicates were worth, and was paid in full; one that was turned down
\* cost nothing and gave nothing.  What it costs holds only for a request that
\* nothing overlapped, for the handlers ignore the result of the removals, and
\* a refusal is free only when the whole price was looked at before.  With a number
\* below zero price and goods change their signs and their roles, and the code is
\* held to the same: all of it, or nothing.
AllOrNothing ==
    \A c \in Conn :
       /\ outcome[c] = "done" => Given(c) /\ (Serial => Settled(c))
       /\ outcome[c] = "refused" /\ Serial /\ ~Piecewise(c) =>
             settled[c].price = Nothing /\ settled[c].product = Nothing

\* Nothing is handed out before all of the price was taken, wherever a request
\* that nothing overlaps is cut short: an interrupted request can cost the
\* player something but never gain it something.  A number below zero, which
\* buy_goods.rs takes like any other, keeps the order and turns the meaning round:
\* the price is paid back first and the goods are taken away afterwards, so that
\* such a request gains the player something when it is cut short between them.
PayBeforeDelivery ==
    \A c \in Conn :
       Serial /\ ~Piecewise(c) /\ settled[c].product # Nothing => Settled(c)

\* A mail is delivered once, and again only for each reading that failed before
\* it marked the mail and for each connection that had read it as unclaimed.
MailDeliveredOnce ==
    deliveries <= faults + IF overlapped THEN Cardinality(Conn) ELSE 1

\* Between requests that nothing overlapped or cut short, what is recorded twice
\* agrees: talent style rows and bits, the skins of the three tables, the mail and
\* its history, the counters of a pool and the summons asked for and paid, though for
\* less than ten the price and the pull are those of one; and the counter of a pack, the total spent and the days of a month
\* card, each read and overwritten, have every order.
RecordsAgree ==
    Calm =>
       /\ bits = styles
       /\ \A h \in Hero : skin[h] \in {0, 3}
       /\ claims = deliveries /\ claimed = (deliveries > 0)
       /\ \A p \in Pool :
             counts[p] = SumFunctionOnSet(asked, {q \in Pool : p \in SharedCount[q]})
       /\ charged = orders
       /\ spent = MapThenSumSet(LAMBDA p : orders[p] * PackPrice[p], Pack)
       /\ \A p \in Pack : cardUntil[p] = orders[p] * CardDays[p]

\* Converting expired power items neither makes nor loses stamina: what is in
\* the row and what the rows left are worth is constant between whole requests,
\* and interrupted ones only lose some.
StaminaConverted ==
    LET worth == stamina + MapThenSumSet(LAMBDA e : StaminaOf[e], expired)
        all == MapThenSumSet(LAMBDA e : StaminaOf[e], ExpiredRow)
    IN /\ Calm => worth = all
       /\ Serial => worth <= all

\* An insight item raises a hero once, although it is counted down last: again
\* only when the request that raised one failed before.
InsightUsedOnce ==
    \A r \in InsightRow : Serial => raises[r] <= 1 + faults

\* What a consumable is worth reaches the player once: power as stamina, an
\* insight item as the rank of one hero.
ItemsUsedOnce == StaminaConverted /\ InsightUsedOnce

\* So many pulls never pass without a six star, and a featured hero follows a six
\* star that was not featured.  A summon that fails after its pulls loses them from
\* the counters, at most those of one ten pull.
PityHolds ==
    \A p \in Pool :
       /\ Serial => dry[p] < HardPity + Many * faults
       /\ Serial /\ faults = 0 => lost[p] <= 1

\* What a hero's columns would have cost in m, at least: the levels of its rank,
\* its ranks, talents, styles and portrayal.
AmountOf(parcels, m) == Total(parcels)[m]
Paid(costs, from, to, m) ==
    MapThenSumSet(LAMBDA i : AmountOf(costs[i], m), (from + 1)..to)

Worth(h, m) ==
    LET old == OpeningGrowth[h]  new == grown[h]
    IN Paid(LevelCost[h], IF new.rank > old.rank THEN 1 ELSE old.level, new.level, m)
       + Paid(RankCost[h], old.rank, new.rank, m)
       + Paid(TalentCost[h], old.talent, new.talent, m)
       + MapThenSumSet(LAMBDA s : AmountOf(StyleCost[s], m), styles[h])
       + IF m = SkillItem[h] THEN new.skill - old.skill ELSE 0

Raised == {h \in Hero : grown[h] # OpeningGrowth[h] \/ styles[h] # {}}

\* Every level, rank, talent, style and portrayal a hero has was paid for, as
\* long as no insight item raised it and nothing overlapped.  To consume less than
\* nothing lowers the portrayal and gives items back (hero_upgrade_skill.rs); such
\* a return is not held against the payments, so what is left is that nothing
\* was ever reached without one.
GrowthPaidFor ==
    Serial /\ (\A r \in InsightRow : raises[r] = 0) =>
       \A m \in Material : MapThenSumSet(LAMBDA h : Worth(h, m), Raised) <= taken[m]

\* A hero never wears a style it has not unlocked, whatever overlaps.
StylesUnlocked ==
    \A h \in Hero, t \in Template : worn[h][t] # NoStyle => worn[h][t] \in styles[h]

\* Besides, no place of a talent holds two cubes as long as nothing overlaps; and
\* after requests that nothing overlapped or cut short, the cubes in force are
\* those of the template in use, though every handler changes the two copies one
\* by one.
TalentsInStep ==
    /\ StylesUnlocked
    /\ \A h \in Hero :
          /\ Serial => OneEach(active[h]) /\ \A t \in Template : OneEach(layouts[h][t])
          /\ Calm => InForce(h)

\* A saved team never holds a row of another save, whatever overlaps.
RowsOwned == \A id \in DOMAIN teams : OwnRows(id)

\* Besides, once the requests are over and none failed it holds all the rows of its
\* own.  As long as nothing overlaps a number of a snapshot has one team; and after
\* requests that nothing overlapped or cut short, the order names the teams there
\* are, and the common groups are what was last asked for.
TeamsKeptWhole ==
    /\ RowsOwned
    /\ Idle /\ faults = 0 => teams = meant
    /\ Serial => \A s \in Snapshot, g \in Sub : Cardinality(Held(s, g)) <= 1
    /\ Calm => /\ \A s \in Snapshot : DOMAIN sorted[s] = {g \in Sub : Held(s, g) # {}}
               /\ common = fielded
=============================================================================
