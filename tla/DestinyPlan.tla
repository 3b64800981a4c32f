----------------------------- MODULE DestinyPlan -----------------------------
(***************************************************************************)
(* The Destiny progression rules: what a command does to a hero's row and  *)
(* what it costs.  This is the pure part of the Destiny subsystem          *)
(* (database/src/models/game/destiny.rs, plan_transition and its helpers)  *)
(* over the configuration index (lib/config/src/destiny.rs).               *)
(*                                                                         *)
(* A hero climbs stages (rank); each stage has nodes (level).  Its facets  *)
(* are the stones it may unlock; an unlocked stone may be equipped.        *)
(* Malformed cost strings, a data error of the tables, are not modelled:   *)
(* a cost is what parse_material_costs makes of them, the total per        *)
(* material.                                                               *)
(***************************************************************************)
EXTENDS Integers, FiniteSets, FiniteSetsExt

CONSTANTS
    Hero,       \* heroes a command can name
    Eligible,   \* those the user owns exactly once and the tables configure
    Material,   \* items and currencies
    Stone,      \* stone (facet) ids
    Slot,       \* Slot[h]: the (stage, node) pairs of h's slot group
    SlotCost,   \* SlotCost[h][slot]: materials the slot consumes
    Facet,      \* Facet[h]: the stones that are facets of h
    FacetCost,  \* FacetCost[stone]: defined where a consume row is configured
    Arg,        \* the levels and stone ids commands carry (0 where there is none)
    MaxAmount   \* i32::MAX, the largest total a cost may reach

Positive == Nat \ {0}
Price == [Material -> 0..MaxAmount]

\* The tables as the game ships them: stages and their nodes without gaps.
SlotsWithoutGaps ==
    \A h \in Eligible : \A s \in Slot[h] :
        /\ \A n \in 1..s[2] : <<s[1], n>> \in Slot[h]
        /\ \A stage \in 1..s[1] : <<stage, 1>> \in Slot[h]

ASSUME CatalogAssumption ==
    /\ Eligible \subseteq Hero /\ IsFiniteSet(Eligible)
    /\ Stone \subseteq Positive
    /\ Arg \subseteq Nat
    /\ MaxAmount \in Nat
    /\ Slot \in [Eligible -> SUBSET (Positive \X Positive)]
    /\ \A h \in Eligible : IsFiniteSet(Slot[h])
    /\ SlotsWithoutGaps
    /\ \A h \in Eligible : SlotCost[h] \in [Slot[h] -> [Material -> Nat]]
    /\ Facet \in [Eligible -> SUBSET Stone]
    /\ DOMAIN FacetCost \subseteq Stone /\ IsFiniteSet(DOMAIN FacetCost)
    /\ \A x \in DOMAIN FacetCost : FacetCost[x] \in [Material -> Nat]

NoStone == 0

\* The destiny columns of a heroes row with the hero's rows of
\* hero_destiny_stone_unlocks.
Row == [rank : Nat, level : Nat, stone : Nat, unlocked : SUBSET Stone]
FreshRow == [rank |-> 0, level |-> 0, stone |-> NoStone, unlocked |-> {}]

Op == {"RankUp", "LevelUp", "UnlockStone", "UseStone"}
Command == {c \in [op : Op, hero : Hero, arg : Arg] : c.op = "RankUp" => c.arg = 0}

-----------------------------------------------------------------------------
\* A hero that never entered the system: its first rank-up opens stage 1.
Unopened(row) == row.rank = 0 /\ row.level = 0

\* validate_progress_state
OnConfiguredNode(h, row) ==
    row.rank > 0 /\ row.level > 0 /\ <<row.rank, row.level>> \in Slot[h]

StageComplete(h, row) == <<row.rank, row.level + 1>> \notin Slot[h]

TargetRank(row) == IF Unopened(row) THEN 1 ELSE row.rank + 1

RankUpLegal(h, row) ==
    /\ Unopened(row) \/ (OnConfiguredNode(h, row) /\ StageComplete(h, row))
    /\ <<TargetRank(row), 1>> \in Slot[h]

\* Mutant of LevelUpLegal: forgets to refuse a target below the current level.
AnyLevelLegal(h, row, target) ==
    /\ OnConfiguredNode(h, row)
    /\ \A n \in (row.level + 1)..target : <<row.rank, n>> \in Slot[h]

LevelUpLegal(h, row, target) ==
    /\ OnConfiguredNode(h, row)
    /\ target >= row.level
    /\ \A n \in (row.level + 1)..target : <<row.rank, n>> \in Slot[h]

UnlockLegal(h, row, x) ==
    row.rank > 0 /\ x \in Facet[h] /\ x \in DOMAIN FacetCost

\* Mutant of UseLegal: equips a facet that is still locked.
LockedUseLegal(h, row, x) == x # NoStone => x \in Facet[h]

UseLegal(h, row, x) == x # NoStone => x \in Facet[h] /\ x \in row.unlocked

Legal(row, c) ==
    CASE c.op = "RankUp"      -> RankUpLegal(c.hero, row)
      [] c.op = "LevelUp"     -> LevelUpLegal(c.hero, row, c.arg)
      [] c.op = "UnlockStone" -> UnlockLegal(c.hero, row, c.arg)
      [] c.op = "UseStone"    -> UseLegal(c.hero, row, c.arg)

\* The row a legal command leaves behind.  It equals the row it found exactly
\* when the plan is MutationKind::NoChange.
After(row, c) ==
    CASE c.op = "RankUp"      -> [row EXCEPT !.rank = TargetRank(row), !.level = 1]
      [] c.op = "LevelUp"     -> [row EXCEPT !.level = c.arg]
      [] c.op = "UnlockStone" -> [row EXCEPT !.unlocked = @ \cup {c.arg}]
      [] c.op = "UseStone"    -> [row EXCEPT !.stone = c.arg]

\* The slots a progress command pays for.
NodesCharged(row, c) ==
    IF c.op = "RankUp" THEN {<<TargetRank(row), 1>>}
    ELSE {row.rank} \X ((row.level + 1)..c.arg)

\* parse_material_costs over the consume strings of the plan: one total per
\* material, however often the strings name it.  Equipping is free.
Cost(row, c) ==
    CASE c.op = "UnlockStone" -> FacetCost[c.arg]
      [] c.op = "UseStone"    -> [m \in Material |-> 0]
      [] OTHER -> [m \in Material |->
            SumFunctionOnSet([n \in Slot[c.hero] |-> SlotCost[c.hero][n][m]], NodesCharged(row, c))]

\* plan_transition returns a plan: the command is legal and, when it changes
\* anything, every total fits an i32.
Accepted(row, c) ==
    Legal(row, c) /\ (After(row, c) # row => Cost(row, c) \in Price)

\* The materials the plan lists.
Materials(row, c) == {m \in Material : Cost(row, c)[m] > 0}

-----------------------------------------------------------------------------
\* Rows of heroes at the start: a hero drawn later starts fresh, a hero of the
\* starter data at the last slot with every facet unlocked and one equipped.
LastSlots(h) ==
    {s \in Slot[h] : \A t \in Slot[h] : t[1] < s[1] \/ (t[1] = s[1] /\ t[2] <= s[2])}

StarterRows(h) ==
    {[rank |-> s[1], level |-> s[2], stone |-> x, unlocked |-> Facet[h]] :
        s \in LastSlots(h), x \in Facet[h]}

InitialRows(h) == {FreshRow} \cup StarterRows(h)
=============================================================================
