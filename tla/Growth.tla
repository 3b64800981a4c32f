-------------------------------- MODULE Growth --------------------------------
(***************************************************************************)
(* What a player pays to make a hero stronger: levels, ranks (insight),    *)
(* the portrayal of the skill, talents and talent styles                   *)
(* (handlers/hero/hero_level_up.rs, hero_rank_up.rs,                       *)
(* hero_upgrade_skill.rs, handlers/talent).  A handler reads the hero once, *)
(* checks and takes the cost, and then overwrites the column.              *)
(***************************************************************************)
EXTENDS Inventory

CONSTANTS
    OpeningGrowth,   \* OpeningGrowth[h]: the columns of h when it is created
    LevelCost,       \* LevelCost[h][l]: character_cosume of reaching level l
    RankNeeds,       \* RankNeeds[h][r]: the level from which rank r is reached
    RankCost,        \* RankCost[h][r]
    TalentNeeds,     \* TalentNeeds[h][t]: the rank talent t asks for
    TalentCost,      \* TalentCost[h][t], items only
    Style, StyleCost,   \* talent styles, and StyleCost[s]
    SkillItem,       \* SkillItem[h]: the item a duplicate of h gives
    Consume,         \* bound: how many of it a request consumes, not checked
    InsightSkin      \* heroes with a skin of their own for rank 3

MaxSkill == 5

\* The skill has no lowest level: to consume less than nothing lowers it.
Skill == {k \in Int : k <= MaxSkill}
Grown == [level : Nat \ {0}, rank : Nat \ {0}, talent : Nat, skill : Skill]

ASSUME GrowthAssumption ==
    /\ OpeningGrowth \in [Hero -> Grown]
    /\ \A h \in Hero : /\ \A l \in DOMAIN LevelCost[h] :
                            LevelCost[h][l] \in Bill /\ l \in Nat /\ 1..l \subseteq DOMAIN LevelCost[h]
                       /\ \A r \in DOMAIN RankCost[h] : RankCost[h][r] \in Bill
                       /\ DOMAIN RankNeeds[h] = DOMAIN RankCost[h]
                       /\ \A t \in DOMAIN TalentCost[h] : TalentCost[h][t] \in Bill
                       /\ DOMAIN TalentNeeds[h] = DOMAIN TalentCost[h]
    /\ StyleCost \in [Style -> Bill]
    /\ SkillItem \in [Hero -> Material]
    /\ Consume \subseteq Int
    /\ InsightSkin \subseteq Hero

VARIABLES
    grown,     \* grown[h]: level, rank, talent and ex_skill_level of h
    styles,    \* styles[h]: the rows of hero_talent_styles
    bits,      \* bits[h]: the styles whose bit talent_style_unlock has
    bitsRead,  \* bitsRead[c]: the bits c's handler read
    skin       \* skin[h]: 0, or the last of hero_all_skins, hero_skins and
               \* heroes.skin that has the skin of rank 3

growthVars == <<grown, styles, bits, bitsRead, skin>>

GrowthInit ==
    /\ grown = OpeningGrowth
    /\ styles = [h \in Hero |-> {}]
    /\ bits = [h \in Hero |-> {}]
    /\ bitsRead = [c \in Conn |-> {}]
    /\ skin = [h \in Hero |-> 0]

-----------------------------------------------------------------------------
\* The handler knows what the request costs once it has read the hero.
Quote(c, parcels) ==
    /\ bill' = [bill EXCEPT ![c].price = Total(parcels)]
    /\ UNCHANGED <<settled, taken, dearest, overlapped, served, faults>>

\* Either an answer that changes nothing, or an error.
Decline(c) == Return(c, "refused") /\ Unrecorded

\* All of a cost is checked before the first of it is taken.
CheckAndTake(parcels) == Each("check", parcels) \o Each("take", parcels)

\* A cost string is paid items first, then currencies.
ItemsFirst(parcels) == OfKind(parcels, "item") \o OfKind(parcels, "currency")

Save(c, column) ==
    /\ grown' = [grown EXCEPT ![What(c)][column] = Amount(c)]
    /\ Proceed(c, <<>>)
    /\ UNCHANGED <<owned, styles, bits, bitsRead, skin>> /\ Unrecorded

\* Mutant of ByCurrency: the last level is free.
ByCurrencyButOne(h, old, new) ==
    LET all == Total(FlattenSeq([i \in 1..(new - old - 1) |->
                                   OfKind(LevelCost[h][old + i], "currency")]))
    IN SetToSeqs({<<m, all[m]>> : m \in {n \in Material : all[n] > 0}})

\* hero_level_up.  The cost is summed by currency in a HashMap, whose order
\* nobody chooses.
ByCurrency(h, old, new) ==
    LET all == Total(FlattenSeq([i \in 1..(new - old) |->
                                   OfKind(LevelCost[h][old + i], "currency")]))
    IN SetToSeqs({<<m, all[m]>> : m \in {n \in Material : all[n] > 0}})

LevelUp(c) ==
    /\ At(c, "levelUp")
    /\ LET h == What(c)  old == grown[h].level  new == Amount(c)
       IN IF h \notin heroes \/ new <= old \/ new \notin DOMAIN LevelCost[h] THEN Decline(c)
          ELSE \E parcels \in ByCurrency(h, old, new) :
                  /\ Proceed(c, CheckAndTake(parcels) \o << Stmt("saveLevel", h, new) >>)
                  /\ Quote(c, parcels)
    /\ UNCHANGED <<owned, growthVars>>

SaveLevel(c) == At(c, "saveLevel") /\ Save(c, "level")

\* hero_rank_up, at exactly the level the next rank asks for.
RankUp(c) ==
    /\ At(c, "rankUp")
    /\ LET h == What(c)  target == grown[h].rank + 1
       IN IF \/ h \notin heroes
             \/ target \notin DOMAIN RankCost[h]
             \/ grown[h].level # RankNeeds[h][target]
          THEN Decline(c)
          ELSE /\ Proceed(c, CheckAndTake(ItemsFirst(RankCost[h][target]))
                             \o << Stmt("saveRank", h, target) >>)
               /\ Quote(c, RankCost[h][target])
    /\ UNCHANGED <<owned, growthVars>>

\* What unlock_insight_skin has to do for a rank.
SkinOf(h, rank) == IF rank >= 3 /\ h \in InsightSkin THEN << Stmt("hasSkin", h, 0) >> ELSE <<>>

SaveRank(c) ==
    /\ At(c, "saveRank")
    /\ grown' = [grown EXCEPT ![What(c)].rank = Amount(c), ![What(c)].level = 1]
    /\ Proceed(c, SkinOf(What(c), Amount(c)))
    /\ UNCHANGED <<owned, styles, bits, bitsRead, skin>> /\ Unrecorded

\* A player with the skin in hero_all_skins is done.
HasSkin(c) ==
    /\ At(c, "hasSkin")
    /\ Proceed(c, IF skin[What(c)] > 0 THEN <<>>
                  ELSE [i \in 1..3 |-> Stmt("saveSkin", What(c), i)])
    /\ UNCHANGED <<owned, growthVars>> /\ Unrecorded

\* The two INSERTs, the first under a unique index, and the UPDATE.
SaveSkin(c) ==
    /\ At(c, "saveSkin")
    /\ IF Amount(c) = 1 /\ skin[What(c)] > 0
       THEN Fail(c) /\ UNCHANGED skin
       ELSE /\ Proceed(c, <<>>) /\ Unrecorded
            /\ skin' = [skin EXCEPT ![What(c)] = Amount(c)]
    /\ UNCHANGED <<owned, grown, styles, bits, bitsRead>>

\* hero_upgrade_skill: the items of type 3 raise the portrayal, those of another
\* type are taken all the same.  A number below zero gives items, and lowers it.
UpgradeSkill(c) ==
    /\ \/ At(c, "upgradeSkill") /\ grown[What(c)].skill < MaxSkill
       \/ At(c, "upgradeOther")
    /\ What(c) \in heroes
    /\ Proceed(c, << Ordered("pay", SkillItem[What(c)], Amount(c)) >>
                  \o (IF At(c, "upgradeSkill") THEN << Stmt("readSkill", What(c), Amount(c)) >>
                      ELSE <<>>))
    /\ Quote(c, << <<SkillItem[What(c)], Amount(c)>> >>)
    /\ UNCHANGED <<owned, growthVars>>

UpgradeSkillDeclined(c) ==
    /\ \/ At(c, "upgradeSkill") /\ grown[What(c)].skill >= MaxSkill
       \/ (At(c, "upgradeSkill") \/ At(c, "upgradeOther")) /\ What(c) \notin heroes
    /\ Decline(c)
    /\ UNCHANGED <<owned, growthVars>>

ReadSkill(c) ==
    /\ At(c, "readSkill")
    /\ Proceed(c, << Stmt("saveSkill", What(c), Min({grown[What(c)].skill + Amount(c), MaxSkill})) >>)
    /\ UNCHANGED <<owned, growthVars>> /\ Unrecorded

SaveSkill(c) == At(c, "saveSkill") /\ Save(c, "skill")

\* hero_talent_up.
TalentUp(c) ==
    /\ At(c, "talentUp")
    /\ LET h == What(c)  new == grown[h].talent + 1
       IN IF \/ h \notin heroes
             \/ new \notin DOMAIN TalentCost[h]
             \/ grown[h].rank < TalentNeeds[h][new]
          THEN Decline(c)
          ELSE /\ Proceed(c, CheckAndTake(OfKind(TalentCost[h][new], "item"))
                             \o << Stmt("saveTalent", h, new) >>)
               /\ Quote(c, OfKind(TalentCost[h][new], "item"))
    /\ UNCHANGED <<owned, growthVars>>

SaveTalent(c) == At(c, "saveTalent") /\ Save(c, "talent")

\* unlock_talent_style: the items are taken one by one, and only then are the
\* currencies looked at.  what is the style and the hero.
UnlockStyle(c) ==
    /\ At(c, "unlockStyle")
    /\ LET h == What(c)[1]  s == What(c)[2]
           currencies == OfKind(StyleCost[s], "currency")
       IN IF h \notin heroes \/ s \in styles[h] THEN Decline(c)
          ELSE /\ Proceed(c, Each("pay", OfKind(StyleCost[s], "item"))
                             \o CheckAndTake(currencies)
                             \o << Stmt("readBits", What(c), 0), Stmt("insertStyle", What(c), 0),
                                   Stmt("saveBits", What(c), 0) >>)
               /\ Quote(c, StyleCost[s])
    /\ UNCHANGED <<owned, growthVars>>

ReadBits(c) ==
    /\ At(c, "readBits")
    /\ bitsRead' = [bitsRead EXCEPT ![c] = bits[What(c)[1]]]
    /\ Proceed(c, <<>>)
    /\ UNCHANGED <<owned, grown, styles, bits, skin>> /\ Unrecorded

\* (hero_uid, style_id) is the key.
InsertStyle(c) ==
    /\ At(c, "insertStyle")
    /\ LET h == What(c)[1]  s == What(c)[2]
       IN IF s \in styles[h]
          THEN Fail(c) /\ UNCHANGED styles
          ELSE /\ Proceed(c, <<>>) /\ Unrecorded
               /\ styles' = [styles EXCEPT ![h] = @ \cup {s}]
    /\ UNCHANGED <<owned, grown, bits, bitsRead, skin>>

SaveBits(c) ==
    /\ At(c, "saveBits")
    /\ bits' = [bits EXCEPT ![What(c)[1]] = bitsRead[c] \cup {What(c)[2]}]
    /\ bitsRead' = [bitsRead EXCEPT ![c] = {}]
    /\ Proceed(c, <<>>)
    /\ UNCHANGED <<owned, grown, styles, skin>> /\ Unrecorded

-----------------------------------------------------------------------------
Ask(c, op, what, n) == Begin(c, Nothing, Nothing, << Stmt(op, what, n) >>) /\ UNCHANGED growthVars

GrowthRequest(c) ==
    \E h \in Hero :
       \/ \E l \in DOMAIN LevelCost[h] : Ask(c, "levelUp", h, l)
       \/ Ask(c, "rankUp", h, 0)
       \/ \E n \in Consume, op \in {"upgradeSkill", "upgradeOther"} : Ask(c, op, h, n)
       \/ Ask(c, "talentUp", h, 0)
       \/ \E s \in Style : Ask(c, "unlockStyle", <<h, s>>, 0)

GrowthStep(c) ==
    \/ LevelUp(c) \/ SaveLevel(c) \/ RankUp(c) \/ SaveRank(c) \/ HasSkin(c) \/ SaveSkin(c)
    \/ UpgradeSkill(c) \/ UpgradeSkillDeclined(c) \/ ReadSkill(c) \/ SaveSkill(c)
    \/ TalentUp(c) \/ SaveTalent(c)
    \/ UnlockStyle(c) \/ ReadBits(c) \/ InsertStyle(c) \/ SaveBits(c)
=============================================================================
