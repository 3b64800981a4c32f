------------------------------ MODULE MCDestiny ------------------------------
(* Instances of Destiny for TLC: the catalogues the runs use.              *)
EXTENDS Kit

CONSTANTS h1, h2, h3, gold, dust

\* One hero of two stages, a stone with a price and one without a consume row;
\* h2 is not owned.
OneHero == {h1}
OneHeroSlot == (h1 :> {<<1, 1>>, <<1, 2>>, <<2, 1>>})
OneHeroSlotCost ==
    (h1 :> (<<1, 1>> :> (gold :> 1 @@ dust :> 1)
         @@ <<1, 2>> :> (gold :> 1 @@ dust :> 0)
         @@ <<2, 1>> :> (gold :> 1 @@ dust :> 0)))
OneHeroFacet == (h1 :> {1, 2})
StoneCost == (1 :> (gold :> 0 @@ dust :> 1))

\* Two heroes that pay from one balance, a node each.
TwoHeroes == {h1, h3}
OneNode == [h \in TwoHeroes |-> {<<1, 1>>}]
OneNodeCost == [h \in TwoHeroes |-> (<<1, 1>> :> (gold :> IF h = h1 THEN 1 ELSE 2))]
NoFacet == [h \in TwoHeroes |-> {}]
NoStoneCost == [x \in {} |-> [m \in Material |-> 0]]

\* Kits: facet 1 exchanges at stage 1 and reshapes at stage 2, facet 2 has a
\* row at stage 2 only.
X(from, to) == [from |-> from, to |-> to]
KitRow(g1, g2, u, ps) ==
    [group1 |-> g1, group2 |-> g2, ultimate |-> u, passives |-> ps, powers |-> {}]
ExCells(g1, u, x) == [group1 |-> g1, group2 |-> NoSkills, ultimate |-> u, passive |-> x]
OneCharacter == (h1 :> KitRow(<<1, 2>>, <<3>>, 9, <<11, 12>>))
OneReplacement == (h1 :> KitRow(<<4>>, <<5>>, 8, <<11, 12>>))
OneExRow == (h1 :> (1 :> ExCells(<<6>>, 0, <<X(11, 13), X(12, 14)>>)
                 @@ 2 :> ExCells(NoSkills, 7, <<X(11, 15)>>)))
OneMaxEx == (h1 :> 2)
OneFacetRow ==
    (<<1, 1>> :> [exchange |-> <<X(11, 15), X(15, 16), X(6, 20), X(11, 17)>>, powers |-> {},
                  reshape |-> FALSE]
     @@ <<1, 2>> :> [exchange |-> <<X(15, 16)>>, powers |-> {1}, reshape |-> TRUE]
     @@ <<2, 2>> :> [exchange |-> <<X(14, 18)>>, powers |-> {2}, reshape |-> FALSE])
OneReshapeRow ==
    [f \in {<<1, 1>>, <<1, 2>>} |->
        [group1 |-> <<30 + f[2]>>, group2 |-> NoSkills, ultimate |-> 0,
         exchange |-> <<X(16, 40 + f[2]), X(41, 43)>>]]
OneSlotEffect == (h1 :> [s \in OneHeroSlot[h1] |-> [hp |-> 5, atk |-> 3]])
OneBase == (h1 :> [hp |-> 100, atk |-> 1000])
NoKits == [h \in TwoHeroes |-> KitRow(<<1>>, <<2>>, 9, <<>>)]
NoLevels == [h \in TwoHeroes |-> <<>>]
NoRows == <<>>
NoExLevels == [h \in TwoHeroes |-> 0]

Start == (gold :> 2 @@ dust :> 1)
StartGold == (gold :> 2)

SessionSymmetry == Permutations(Session)
=============================================================================
