------------------------------- MODULE MCWallet -------------------------------
(* The catalogue of the wallet run.                                        *)
EXTENDS Wallet, TLC

CONSTANTS
    coin, gem, ticket, pass, dust, box, crate, chest, card, shard, soul, cube, vial, tome,
    ann, bea, cat, dot, s1, g1, pack, month, q1, q2, e1, e2, r1

Kinds ==
    [x \in Thing |->
        CASE x \in {coin, gem} -> "currency"
          [] x \in {ticket, pass, dust, box, crate, chest, card, shard, soul} -> "item"
          [] x = cube -> "equip"
          [] x = vial -> "power"
          [] x = tome -> "insight"
          [] x \in Hero -> "hero"]

Purse ==
    [m \in Material |->
        CASE m \in {coin, dust} -> 3
          [] m \in {ticket, box, shard} -> 2
          [] m \in {gem, pass, crate, chest, card} -> 1
          [] OTHER -> 0]

\* Ann's next duplicate is the sixth.
DuplicatesBefore == [h \in Hero |-> IF h = ann THEN 5 ELSE 0]
Dupe == [h \in Hero |-> << <<shard, 1>> >>]
LateDupe == [h \in Hero |-> << <<dust, 1>> >>]

\* A good of an item and a currency; a pack, and a month card.
CostOf == [g \in Goods |-> << <<coin, 1>>, <<dust, 1>> >>]
ProductOf == [g \in Goods |-> << <<box, 1>>, <<cube, 1>>, <<ann, 1>> >>]
Limit == [g \in Goods |-> 2]
Numbers == {-1, 0, 1, 2}
PackOf ==
    [p \in Pack |-> IF p = month THEN << <<gem, 1>> >>
                    ELSE << <<tome, 1>>, <<vial, 1>>, <<dot, 1>> >>]
PriceOf == [p \in Pack |-> IF p = month THEN 1 ELSE 2]
DaysOf == [p \in Pack |-> IF p = month THEN 3 ELSE 0]

\* Ann can reach level 3 and, at level 2, rank 2; Bea has rank 2 already.
Columns ==
    [h \in Hero |-> [level |-> 1, rank |-> IF h = bea THEN 2 ELSE 1, talent |-> 0,
                   skill |-> IF h = ann THEN 4 ELSE 0]]
Levels ==
    [h \in Hero |-> (1 :> <<>> @@ 2 :> << <<coin, 1>> >> @@ 3 :> << <<coin, 1>>, <<gem, 1>> >>)]
Ranks ==
    [h \in Hero |-> IF h = bea THEN (3 :> << <<coin, 1>> >>)
                    ELSE (2 :> << <<coin, 1>>, <<dust, 1>> >>)]
LevelOfRank == [h \in Hero |-> [r \in DOMAIN Ranks[h] |-> IF h = bea THEN 1 ELSE 2]]
Talents == [h \in Hero |-> (1 :> << <<dust, 2>> >>)]
RankOfTalent == [h \in Hero |-> (1 :> 2)]
Styles == [s \in Style |-> << <<shard, 1>>, <<dust, 1>>, <<coin, 2>> >>]
\* There are no souls, and no row to give one back to.
Portrait == [h \in Hero |-> IF h = bea THEN soul ELSE shard]

\* One consumable of each kind.
Effects ==
    (box :> [kind |-> "fixed", gives |-> << <<coin, 1>> >>]
     @@ crate :> [kind |-> "random", gives |-> << <<ticket, 1>>, <<cube, 1>> >>]
     @@ chest :> [kind |-> "chosen", gives |-> << <<gem, 2>>, <<cube, 1>> >>]
     @@ card :> [kind |-> "hero", gives |-> << <<ann, 1>>, <<dot, 1>> >>])
\* Each of them alone, pairs of which the second can be too dear, and none and
\* less than none.
Uses ==
    { << <<box, 2, 1>> >>, << <<crate, 1, 1>> >>, << <<chest, 1, 2>> >>,
      << <<card, 1, 1>> >>, << <<card, 1, 2>>, <<box, 2, 1>> >>,
      << <<chest, 1, 1>>, <<crate, 2, 1>> >>,
      << <<card, 0, 2>> >>, << <<crate, -1, 1>>, <<chest, -1, 2>> >>, << <<box, -1, 1>> >> }
RankOfRow == [r \in InsightRow |-> 2]
LevelOfRow == [r \in InsightRow |-> 1]
Vigour == (e1 :> 1 @@ e2 :> 2)

Letter == << <<coin, 1>>, <<cube, 1>>, <<vial, 1>>, <<dot, 1>> >>

\* The first pool has a featured hero and a discount; in the second the player
\* chooses one, and ten summons are too dear.
Prices ==
    [p \in Pool |->
        [one |-> << <<pass, 1>>, <<ticket, 1>> >>,
         ten |-> << <<ticket, IF p = q1 THEN 2 ELSE 4>> >>,
         discount |-> IF p = q1 THEN << <<ticket, 1>> >> ELSE <<>>]]
UpOf == [p \in Pool |-> IF p = q1 THEN {cat} ELSE {}]
Six == [p \in Pool |-> {bea, cat}]
Five == [p \in Pool |-> {ann}]
Low == [p \in Pool |-> {ann}]
CountFor == [p \in Pool |-> IF p = q1 THEN {q1, q2} ELSE {q2}]
Discounted == [p \in Pool |-> IF p = q1 THEN 1 ELSE 0]

\* The places 0 and 1.  A cube is moved from one to the other, put onto another
\* one, and taken away; the scheme fills the second place only.
FirstScheme == [h \in Hero |-> << [at |-> 0, cube |-> 10] >>]
Schemes == (1 :> << [at |-> 1, cube |-> 61] >>)
CubeMoves ==
    { [take |-> 0, put |-> [at |-> 1, cube |-> 10]],
      [take |-> Nowhere, put |-> [at |-> 0, cube |-> 61]],
      [take |-> 0, put |-> Nowhere] }

\* A team with psychubes and one with a gap and a substitute.
Couple == [heroes |-> <<0, 8>>, subs |-> <<7>>, equips |-> <<>>, activity |-> <<>>]
FightGroups ==
    { [heroes |-> <<7, 0>>, subs |-> <<0>>,
       equips |-> << [hero |-> 0, uids |-> <<3>>], [hero |-> 7, uids |-> <<4>>] >>,
       activity |-> << [hero |-> 7, uids |-> <<4>>] >>],
      Couple }
Swaps == { <<1, 1, <<3>> >>, <<1, 0, <<>> >>, <<5, 0, <<3>> >> }
SavedTeams == { <<1, 1, Couple>> }
Nobody == [members |-> <<0, 0, 0, 0>>, equips |-> <<>>]

\* More coins than there are are taken away; Ann is owned, Cat is not.
Typed == { <<coin, 1>>, <<coin, -4>>, <<dust, -1>>, <<cube, 2>>, <<cube, -1>>, <<ann, 1>>, <<cat, 1>> }
LevelsTyped == {0, 1, 60, 81}

\* Those together that share a stock, whose behaviours include what each of them
\* does alone; summons and saved teams by themselves.
Together ==
    { {"store", "mail"}, {"store", "gm"}, {"growth", "items"}, {"growth", "talents"},
      {"summon"}, {"groups"} }
ConnSymmetry == Permutations(Conn)
=============================================================================
