-------------------------------- MODULE Summon --------------------------------
(***************************************************************************)
(* Summoning: on_summon and on_choose_enhanced_pool_hero                   *)
(* (handlers/gacha.rs, state/gacha, db/game/summon.rs).  A summon takes     *)
(* its price, rolls in memory on the pity counters it read, grants hero     *)
(* after hero, and saves the counters last.                                *)
(***************************************************************************)
EXTENDS Inventory

CONSTANTS
    Pool,
    Options,        \* Options[p][offer]: the ways to pay, each some of one item
    Ticket, Gem, TicketPrice,   \* a missing ticket costs TicketPrice gems
    Featured,       \* Featured[p]: the rate-up heroes of the pool's table
    Selectable,     \* the pools whose rate-up heroes the player chooses
    SixStar, FiveStar, Lower,    \* SixStar[p], ...: its heroes by rarity
    Many,           \* the pulls of a ten-pull
    Few,            \* bound: the numbers below ten that clients ask for
    HardPity,       \* the pull since the last six star that always is one
    SharedCount,    \* SharedCount[p]: the pools a summon from p counts for
    Discounts       \* Discounts[p]: ten-pulls at a discount

Offer == {"one", "ten", "discount"}

ASSUME SummonAssumption ==
    /\ \A p \in Pool, o \in Offer : Options[p][o] \in Bill
    /\ \A p \in Pool, o \in Offer : \A i \in DOMAIN Options[p][o] : Kind[Options[p][o][i][1]] = "item"
    /\ \A p \in Pool : Options[p]["one"] # <<>> /\ Options[p]["ten"] # <<>>
    /\ Ticket \in Material /\ Gem \in Material /\ TicketPrice \in Nat \ {0}
    /\ Featured \in [Pool -> SUBSET Hero] /\ Selectable \subseteq Pool
    /\ \A p \in Pool : SixStar[p] \ Featured[p] # {} /\ FiveStar[p] # {}
    /\ \A p \in Pool : SixStar[p] \cup FiveStar[p] \cup Lower[p] \subseteq Hero
    /\ Many \in Nat \ {0} /\ HardPity \in Nat \ {0}
    /\ Few \subseteq Nat \ {0, Many}
    /\ SharedCount \in [Pool -> SUBSET Pool]
    /\ Discounts \in [Pool -> Nat]

VARIABLES
    pity,         \* pity[p]: user_gacha_state.pity_6
    guaranteed,   \* guaranteed[p]: user_gacha_state.up_guaranteed
    chosen,       \* chosen[p]: user_sp_pool_up_heroes
    discounts,    \* discounts[p]: user_summon_pools.discount_time
    counts,       \* counts[p]: user_summon_pools.summon_count
    logged,       \* logged[p]: rows of user_summon_history
    mem,          \* mem[c]: what c's handler holds in memory
    asked,        \* history: asked[p]: what the requests to p that were paid asked for
    dry,          \* history: dry[p]: pulls since the last six star
    lost          \* history: lost[p]: six stars in a row that were not featured

tables == <<pity, guaranteed, chosen, discounts, counts, logged>>
rolls == <<asked, dry, lost>>
summonVars == <<tables, mem, rolls>>

Blank == [up |-> {}, pity |-> 0, guaranteed |-> FALSE, discounted |-> FALSE]

SummonInit ==
    /\ pity = [p \in Pool |-> 0]
    /\ guaranteed = [p \in Pool |-> FALSE]
    /\ chosen = [p \in Pool |-> {}]
    /\ discounts = Discounts
    /\ counts = [p \in Pool |-> 0]
    /\ logged = [p \in Pool |-> 0]
    /\ mem = [c \in Conn |-> Blank]
    /\ asked = [p \in Pool |-> 0]
    /\ dry = [p \in Pool |-> 0]
    /\ lost = [p \in Pool |-> 0]

-----------------------------------------------------------------------------
Still == UNCHANGED owned /\ Unrecorded

\* Whoever asks for less than ten gets, and pays, one pull.
Pulls(n) == IF n = Many THEN Many ELSE 1

\* After the price of n summons: the featured heroes, the counters, the pulls, the
\* records, which count all n.
RollPlan(p, n) ==
    << Stmt("readUp", p, n), Stmt("load", p, 0) >>
    \o [i \in 1..Pulls(n) |-> Stmt("pull", p, IF n = Many /\ i = 1 THEN 1 ELSE 0)]
    \o << Stmt("save", p, 0), Stmt("useDiscount", p, 0), Stmt("count", p, n), Stmt("log", p, 0) >>

SummonFew(c, p, n) ==
    /\ Begin(c, Nothing, Nothing, << Stmt("option", <<p, "one">>, 1) >> \o RollPlan(p, n))
    /\ mem' = [mem EXCEPT ![c] = Blank]
    /\ UNCHANGED <<tables, rolls>>

SummonTen(c, p) ==
    /\ Begin(c, Nothing, Nothing, << Stmt("readDiscount", p, 0) >> \o RollPlan(p, Many))
    /\ mem' = [mem EXCEPT ![c] = Blank]
    /\ UNCHANGED <<tables, rolls>>

ReadDiscount(c) ==
    /\ At(c, "readDiscount")
    /\ LET p == What(c)
           offer == IF discounts[p] > 0 /\ Options[p]["discount"] # <<>> THEN "discount" ELSE "ten"
       IN /\ mem' = [mem EXCEPT ![c].discounted = discounts[p] > 0]
          /\ Proceed(c, << Stmt("option", <<p, offer>>, 1) >>)
    /\ UNCHANGED <<tables, rolls>> /\ Still

\* The first option the player has the items for, or the last.
TryOption(c) ==
    /\ At(c, "option")
    /\ LET options == Options[What(c)[1]][What(c)[2]]  i == Amount(c)
           here == balance[options[i][1]] >= options[i][2]
       IN Proceed(c, << Stmt(IF here \/ i = Len(options) THEN "settle" ELSE "option",
                             What(c), IF here \/ i = Len(options) THEN i ELSE i + 1) >>)
    /\ UNCHANGED summonVars /\ Still

Price(c, parcels) ==
    /\ Proceed(c, Each("take", parcels))
    /\ bill' = [bill EXCEPT ![c].price = Total(parcels)]
    /\ UNCHANGED <<settled, taken, dearest, overlapped, served, faults>>

\* The items are looked at once more.
Settle(c) ==
    /\ At(c, "settle")
    /\ LET parcel == Options[What(c)[1]][What(c)[2]][Amount(c)]
           current == balance[parcel[1]]
       IN CASE current >= parcel[2] -> Price(c, << parcel >>)
            [] current < parcel[2] /\ parcel[1] = Ticket ->
                 Proceed(c, << Stmt("convert", parcel[2] - current, current) >>) /\ Unrecorded
            [] OTHER -> Return(c, "refused") /\ Unrecorded
    /\ UNCHANGED <<owned, summonVars>>

\* Gems for the missing tickets.  what is the shortage, n the tickets there are.
Convert(c) ==
    /\ At(c, "convert")
    /\ LET gems == What(c) * TicketPrice
       IN IF balance[Gem] < gems THEN Return(c, "refused") /\ Unrecorded
          ELSE Price(c, (IF Amount(c) > 0 THEN << <<Ticket, Amount(c)>> >> ELSE <<>>)
                        \o << <<Gem, gems>> >>)
    /\ UNCHANGED <<owned, summonVars>>

-----------------------------------------------------------------------------
ReadUp(c) ==
    /\ At(c, "readUp")
    /\ LET p == What(c)
       IN mem' = [mem EXCEPT ![c].up = IF p \in Selectable THEN chosen[p] ELSE Featured[p]]
    /\ asked' = [asked EXCEPT ![What(c)] = @ + Amount(c)]
    /\ Proceed(c, <<>>)
    /\ UNCHANGED <<tables, dry, lost>> /\ Still

Load(c) ==
    /\ At(c, "load")
    /\ LET p == What(c)
       IN mem' = [mem EXCEPT ![c].pity = pity[p], ![c].guaranteed = guaranteed[p]]
    /\ Proceed(c, <<>>)
    /\ UNCHANGED <<tables, rolls>> /\ Still

\* single_pull draws in memory, so it does not matter that the code draws all
\* heroes before it grants the first.
Drawn(c, h) ==
    /\ Proceed(c, << Stmt("pullHero", h, 1) >>)
    /\ bill' = [bill EXCEPT ![c].product[h] = @ + 1]
    /\ UNCHANGED <<owned, settled, taken, dearest, overlapped, served, faults, tables, asked>>

\* A six star, featured or not.  A flip that is lost makes the next one sure.
PullSix(c) ==
    /\ At(c, "pull")
    /\ LET p == What(c)  up == mem[c].up  normal == SixStar[p] \ up
       IN \E featured \in BOOLEAN :
            /\ featured => up # {}
            /\ ~featured => normal # {} /\ ~(up # {} /\ mem[c].guaranteed)
            /\ mem' = [mem EXCEPT ![c].pity = 0, ![c].guaranteed = up # {} /\ ~featured]
            /\ lost' = [lost EXCEPT ![p] = IF up # {} /\ ~featured THEN @ + 1 ELSE 0]
            /\ dry' = [dry EXCEPT ![p] = 0]
            /\ \E h \in (IF featured THEN up ELSE normal) : Drawn(c, h)

\* Mutant of PullLower: the hard pity is a pull late.
PullLowerOnce(c) ==
    /\ At(c, "pull")
    /\ LET p == What(c)
       IN /\ mem[c].pity < HardPity
          /\ mem' = [mem EXCEPT ![c].pity = @ + 1]
          /\ dry' = [dry EXCEPT ![p] = @ + 1]
          /\ \E h \in FiveStar[p] \cup (IF Amount(c) = 1 THEN {} ELSE Lower[p]) : Drawn(c, h)
    /\ UNCHANGED lost

\* Below the hard pity a pull may be a lower star, the first of ten a five.
PullLower(c) ==
    /\ At(c, "pull")
    /\ LET p == What(c)
       IN /\ mem[c].pity + 1 < HardPity
          /\ mem' = [mem EXCEPT ![c].pity = @ + 1]
          /\ dry' = [dry EXCEPT ![p] = @ + 1]
          /\ \E h \in FiveStar[p] \cup (IF Amount(c) = 1 THEN {} ELSE Lower[p]) : Drawn(c, h)
    /\ UNCHANGED lost

SaveCounters(c) ==
    /\ At(c, "save")
    /\ pity' = [pity EXCEPT ![What(c)] = mem[c].pity]
    /\ guaranteed' = [guaranteed EXCEPT ![What(c)] = mem[c].guaranteed]
    /\ Proceed(c, <<>>)
    /\ UNCHANGED <<chosen, discounts, counts, logged, mem, rolls>> /\ Still

UseDiscount(c) ==
    /\ At(c, "useDiscount")
    /\ discounts' = IF mem[c].discounted /\ discounts[What(c)] > 0
                    THEN [discounts EXCEPT ![What(c)] = @ - 1] ELSE discounts
    /\ Proceed(c, <<>>)
    /\ UNCHANGED <<pity, guaranteed, chosen, counts, logged, mem, rolls>> /\ Still

\* Mutant of CountSummons: the pools that share the count are left out.
CountOwnSummons(c) ==
    /\ At(c, "count")
    /\ counts' = [counts EXCEPT ![What(c)] = @ + Amount(c)]
    /\ Proceed(c, <<>>)
    /\ UNCHANGED <<pity, guaranteed, chosen, discounts, logged, mem, rolls>> /\ Still

CountSummons(c) ==
    /\ At(c, "count")
    /\ counts' = [p \in Pool |-> IF p \in SharedCount[What(c)] THEN counts[p] + Amount(c)
                                 ELSE counts[p]]
    /\ Proceed(c, <<>>)
    /\ UNCHANGED <<pity, guaranteed, chosen, discounts, logged, mem, rolls>> /\ Still

AddHistory(c) ==
    /\ At(c, "log")
    /\ logged' = [logged EXCEPT ![What(c)] = @ + 1]
    /\ mem' = [mem EXCEPT ![c] = Blank]
    /\ Proceed(c, <<>>)
    /\ UNCHANGED <<pity, guaranteed, chosen, discounts, counts, rolls>> /\ Still

-----------------------------------------------------------------------------
(* on_choose_enhanced_pool_hero.                                           *)

ChooseHero(c, p, h) ==
    /\ Begin(c, Nothing, Nothing, << Stmt("deleteUp", p, 0), Stmt("insertUp", <<p, h>>, 0) >>)
    /\ UNCHANGED summonVars

DeleteUp(c) ==
    /\ At(c, "deleteUp")
    /\ chosen' = [chosen EXCEPT ![What(c)] = {}]
    /\ Proceed(c, <<>>)
    /\ UNCHANGED <<pity, guaranteed, discounts, counts, logged, mem, rolls>> /\ Still

\* (user_id, pool_id, hero_id) is the key.
InsertUp(c) ==
    /\ At(c, "insertUp")
    /\ LET p == What(c)[1]  h == What(c)[2]
       IN IF h \in chosen[p] THEN Fail(c) /\ UNCHANGED chosen
          ELSE /\ Proceed(c, <<>>) /\ Unrecorded
               /\ chosen' = [chosen EXCEPT ![p] = @ \cup {h}]
    /\ UNCHANGED <<owned, pity, guaranteed, discounts, counts, logged, mem, rolls>>

-----------------------------------------------------------------------------
SummonRequest(c) ==
    \E p \in Pool :
       \/ \E n \in Few : SummonFew(c, p, n)
       \/ SummonTen(c, p)
       \/ p \in Selectable /\ \E h \in SixStar[p] : ChooseHero(c, p, h)

SummonStep(c) ==
    \/ ReadDiscount(c) \/ TryOption(c) \/ Settle(c) \/ Convert(c)
    \/ ReadUp(c) \/ Load(c) \/ PullSix(c) \/ PullLower(c)
    \/ SaveCounters(c) \/ UseDiscount(c) \/ CountSummons(c) \/ AddHistory(c)
    \/ DeleteUp(c) \/ InsertUp(c)
=============================================================================
