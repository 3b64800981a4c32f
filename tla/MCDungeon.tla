----------------------------- MODULE MCDungeon -----------------------------
(* A small instance of Dungeon: a player with three heroes, two trial       *)
(* heroes, two enemies, room for four ordinals, two connections.            *)
EXTENDS Dungeon

CONSTANTS c1, c2, p1, e1, s1, h1, h2

Slot(does, at, num) == [does |-> does, at |-> at, num |-> num, when |-> "always"]

MCChapterOf == (e1 :> h1) @@ (s1 :> h1)

\* c2 names a chapter in which no episode has a row at first.
MCNamed == (c1 :> {h1}) @@ (c2 :> {h2})

MCMaxRequests == (c1 :> 4) @@ (c2 :> 3)

MCSkill ==
  [strike |-> [slots |-> <<Slot("Damage", "target", 3)>>, rate |-> 0],
   storm  |-> [slots |-> <<Slot("LostLife", "self", 500), Slot("Damage", "enemies", 2)>>, rate |-> 0],
   mend   |-> [slots |-> <<Slot("HealByTwoAttr", "allies", 1), Slot("AddBuff", "self", 7)>>, rate |-> 0],
   plain  |-> [slots |-> <<>>, rate |-> 4],
   share  |-> [slots |-> <<Slot("AverageLife", "allies", 0)>>, rate |-> 0]]

MCPoolMax == <<2, 1>>
MCStartPool == <<[value |-> 1, acc |-> 0], [value |-> 0, acc |-> 0]>>

MCOwned == p1 :> (1 :> "anna" @@ 2 :> "bea" @@ 3 :> "cleo")
MCTrial == 5 :> "dora" @@ 6 :> "anna"
MCMonsters == <<[model |-> "crow", skill |-> "plain"], [model |-> "wolf", skill |-> "strike"]>>
Full(n) == [hp |-> n, max |-> n]
MCLife == [anna |-> [hp |-> 5, max |-> 6], bea |-> Full(6), cleo |-> Full(4), dora |-> Full(5),
           crow |-> Full(4), wolf |-> Full(3)]
MCBaseSkills == [anna |-> <<"strike", "mend">>, bea |-> <<"storm", "share">>,
                 cleo |-> <<"mend">>, dora |-> <<"plain">>]
MCLine == [strike |-> 1, storm |-> 2, mend |-> 3, plain |-> 4, share |-> 5]
MCUpgrade == <<"anna", 1, 1>> :> "strike"
MCDeals == {[draws |-> <<0, 5, 6, 3, 4, 4, 2, 1, 7, 3, 2, 0, 9, 6>>, aims |-> <<0, 1>>]}

Group(heroes, subs, trials) == [heroes |-> heroes, subs |-> subs, trials |-> trials]
TrialHero(id, pos) == [id |-> id, pos |-> pos]

\* c1 names its second hero by a uid too wide for a word; c2 leaves a slot empty
\* and borrows a trial hero for the third.
MCGroups == (c1 :> {Group(<<1, 18>>, <<>>, <<>>)}) @@ (c2 :> {Group(<<1, 0, -5>>, <<2>>, <<>>)})

\* Sequences of at most n of the members of S, none but 0 twice.
Lists(S, n) ==
  {l \in UNION {[1..k -> S] : k \in 0..n} :
     \A i, j \in DOMAIN l : i # j /\ l[i] = l[j] => l[i] = 0}

MCLineups ==
  {Group(heroes, subs, trials) :
     heroes \in Lists({0, 1, 2, 17, -1, -5}, 3), subs \in Lists({3, -2, -6}, 2),
     trials \in {<<>>} \cup {<<TrialHero(5, i)>> : i \in {0, 1, 2, -1}}
                \cup {<<TrialHero(5, i), TrialHero(6, j)>> : i \in {1, 2}, j \in {2, -1}}}

Play(card, to) == Operation(1, card, to)

\* The first list plays a card at an enemy, one at nobody, one position that
\* is not there and one selected with a target, which c2 has for its trial
\* hero; the effect of the second is refused for c1.
MCOperLists ==
  {<<Play(0, -5), Play(1, 0), Play(11, -5), Operation(2, 0, 2), Operation(3, 0, 0)>>,
   <<Play(3, 0)>>}
=============================================================================
