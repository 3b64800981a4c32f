--------------------------------- MODULE Kit ---------------------------------
(***************************************************************************)
(* What a hero's Destiny row is worth in battle: its skills, passives and   *)
(* attributes (gameserver/src/state/battle/destiny/{kit,attributes}.rs and  *)
(* entity_builder.rs).  A battle that cannot resolve a hero does not start, *)
(* so what commands may store and what battles can read must agree; Destiny *)
(* supplies the rows.                                                       *)
(*                                                                         *)
(* Skills are numbers and the tables are functions.  The hard-coded         *)
(* passives of two heroes, the trace kept for tests, activity heroes and    *)
(* malformed table strings are left out; equipment adds passives and flat   *)
(* attributes after all of this.                                            *)
(***************************************************************************)
EXTENDS Destiny, SequencesExt

CONSTANTS
    Character,    \* hero -> the kit of its character row
    Replacement,  \* hero -> the kit of its character_rank_replace row, if any
    ExRow,        \* hero -> level -> its skill_ex_level row, where there is one
    MaxEx,        \* hero -> the highest of these levels
    FacetRow,     \* <<facet, rank>> -> its character_destiny_facets row
    ReshapeRow,   \* <<facet, level>> -> its destiny_facets_ex_level row
    SlotEffect,   \* hero -> slot -> what it adds to each attribute, in tenths
    Attribute,    \* direct and percent attributes
    Percent,      \* those of them that are a share of the base
    Base          \* hero -> attribute -> its value before equipment

NoSkills == <<>>   \* an empty cell of the tables
NoUltimate == 0

\* A reshaping row for every level a hero of that facet can have.
ReshapesConfigured ==
    \A h \in Eligible : \A f \in DOMAIN FacetRow :
        f[1] \in Facet[h] /\ FacetRow[f].reshape =>
            \A n \in 1..MaxEx[h] : <<f[1], n>> \in DOMAIN ReshapeRow

ASSUME KitAssumption ==
    /\ ReshapesConfigured
    /\ MaxEx \in [Eligible -> Nat]

-----------------------------------------------------------------------------
(* The two ways of exchanging skills. *)

\* apply_ordered_transitions: exchange after exchange, each on the first value
\* that is its source by then.
OrderedTransitions(values, exchanges) ==
    FoldLeft(LAMBDA vs, x : IF \E i \in DOMAIN vs : vs[i] = x.from
                            THEN [vs EXCEPT ![SelectInSeq(vs, LAMBDA v : v = x.from)] = x.to]
                            ELSE vs,
             values, exchanges)

\* apply_facet_transitions: every value by what it was, so that exchanges of
\* one row do not chain; of several for one source the last counts.
FacetTransition(value, exchanges) ==
    LET matching == {i \in DOMAIN exchanges : exchanges[i].from = value}
    IN IF matching = {} THEN value ELSE exchanges[Max(matching)].to

FacetTransitions(values, exchanges) ==
    [i \in DOMAIN values |-> FacetTransition(values[i], exchanges)]

\* replace_group_from_value and replace_ultimate: an empty cell replaces nothing.
ReplaceFrom(kit, row) ==
    [kit EXCEPT !.group1   = IF row.group1 = NoSkills THEN @ ELSE row.group1,
                !.group2   = IF row.group2 = NoSkills THEN @ ELSE row.group2,
                !.ultimate = IF row.ultimate = NoUltimate THEN @ ELSE row.ultimate]

-----------------------------------------------------------------------------
(* resolve_entity_kit. *)

\* validate_destiny_state_shape.
ShapeValid(row) ==
    \/ Unopened(row) /\ row.stone = NoStone
    \/ row.rank > 0 /\ row.level > 0

\* effective_destiny_context: a facet that is foreign, or has no row at this
\* rank, counts as none.
FacetActive(h, row) ==
    /\ row.stone # NoStone /\ row.rank > 0
    /\ row.stone \in Facet[h]
    /\ <<row.stone, row.rank>> \in DOMAIN FacetRow

Reshaped(h, row) == FacetActive(h, row) /\ FacetRow[<<row.stone, row.rank>>].reshape

\* A reshaping facet needs a row for each level the hero has.
ReshapeConfigured(row, ex) == \A n \in 1..ex : <<row.stone, n>> \in DOMAIN ReshapeRow

KitResolves(h, row, ex) ==
    /\ ShapeValid(row)
    /\ ex <= MaxEx[h]
    /\ Reshaped(h, row) => ReshapeConfigured(row, ex)

\* active_rank_replacement: grown to rank 3 and in one of its own two skins.
BaseKit(h, grown) ==
    IF grown /\ h \in DOMAIN Replacement THEN Replacement[h] ELSE Character[h]

\* The levels of a hero that have a row, in ascending order.
ExLevels(h, ex) == SelectSeq([n \in 1..ex |-> n], LAMBDA n : n \in DOMAIN ExRow[h])

\* Skills: of the reshaped row of this very level, else of each level in turn.
SkillsResolved(h, row, ex, kit) ==
    IF Reshaped(h, row)
    THEN IF ex = 0 THEN kit ELSE ReplaceFrom(kit, ReshapeRow[<<row.stone, ex>>])
    ELSE FoldLeft(LAMBDA k, n : ReplaceFrom(k, ExRow[h][n]), kit, ExLevels(h, ex))

\* Passives: the exchanges of each level, the highest first.
PassivesResolved(h, ex, kit) ==
    [kit EXCEPT !.passives =
        FoldLeft(LAMBDA ps, n : OrderedTransitions(ps, ExRow[h][n].passive),
                 @, Reverse(ExLevels(h, ex)))]

\* The facet exchanges what is there by now, adds powers, and, if it reshapes,
\* exchanges passives level by level.
FacetResolved(h, row, ex, kit) ==
    IF ~FacetActive(h, row) THEN kit
    ELSE LET facet == FacetRow[<<row.stone, row.rank>>]
             x == facet.exchange
             ps == FacetTransitions(kit.passives, x)
         IN [kit EXCEPT
               !.group1   = FacetTransitions(@, x),
               !.group2   = FacetTransitions(@, x),
               !.ultimate = FacetTransition(@, x),
               !.powers   = facet.powers,
               !.passives = IF facet.reshape
                            THEN FoldLeft(LAMBDA vs, n :
                                   OrderedTransitions(vs, ReshapeRow[<<row.stone, n>>].exchange),
                                   ps, [n \in 1..ex |-> n])
                            ELSE ps]

\* The kit of a hero for which KitResolves.
ResolveKit(h, row, ex, grown) ==
    FacetResolved(h, row, ex,
        PassivesResolved(h, ex, SkillsResolved(h, row, ex, BaseKit(h, grown))))

-----------------------------------------------------------------------------
(* resolve_destiny_attributes. *)

\* The nodes of a stage, up to the first that is missing.
StageSlots(h, stage) ==
    {s \in Slot[h] : s[1] = stage /\ \A n \in 1..s[2] : <<stage, n>> \in Slot[h]}

\* Mutant of IncludedSlots: the completed stages are forgotten.
CurrentStageOnly(h, row) == {row.rank} \X (1..row.level)

\* All completed stages, then the current one up to the level.
IncludedSlots(h, row) ==
    (UNION {StageSlots(h, stage) : stage \in 1..(row.rank - 1)})
    \cup ({row.rank} \X (1..row.level))

AttributesResolve(h, row) ==
    \/ Unopened(row)
    \/ /\ row.rank > 0 /\ row.level > 0
       /\ \A stage \in 1..(row.rank - 1) : StageSlots(h, stage) # {}
       /\ \A n \in 1..row.level : <<row.rank, n>> \in Slot[h]

Tenths(h, row, a) ==
    IF Unopened(row) THEN 0
    ELSE MapThenSumSet(LAMBDA s : SlotEffect[h][s][a], IncludedSlots(h, row))

\* FixedTenths::floor_percent_of for the shares, the sum itself otherwise.
Bonus(h, row, a) ==
    IF a \in Percent THEN (Base[h][a] * Tenths(h, row, a)) \div 1000 ELSE Tenths(h, row, a)

-----------------------------------------------------------------------------
(* Properties. *)

Levels(h) == 0..MaxEx[h]

\* Whatever commands have made of a hero, a battle can be built with it.
CanFight ==
    \A h \in Eligible :
        /\ AttributesResolve(h, rows[h])
        /\ \A ex \in Levels(h) : KitResolves(h, rows[h], ex)

\* The attributes of a hero come from exactly the slots it has paid for, those
\* Ledger counts.
AttributesPaidFor ==
    \A h \in Eligible :
        ~Unopened(rows[h]) => IncludedSlots(h, rows[h]) = PathSlots(h, rows[h])

\* No attribute was higher on the way.
NeverWeaker(h, row) ==
    \A s \in PathSlots(h, row), a \in Attribute :
        Bonus(h, [row EXCEPT !.rank = s[1], !.level = s[2]], a) <= Bonus(h, row, a)

\* Each passive is what the highest level that speaks of it says, and the first
\* group what the highest level that names one names.
LastNamed(h, ex, p) ==
    LET named == {n \in 1..ex : n \in DOMAIN ExRow[h]
                                /\ \E i \in DOMAIN ExRow[h][n].passive :
                                      ExRow[h][n].passive[i].from = p}
    IN IF named = {} THEN p ELSE FacetTransition(p, ExRow[h][Max(named)].passive)

LastGroup(h, ex, group) ==
    LET named == {n \in 1..ex : n \in DOMAIN ExRow[h] /\ ExRow[h][n].group1 # NoSkills}
    IN IF named = {} THEN group ELSE ExRow[h][Max(named)].group1

\* A hero without its facet is what its levels make of its character, and
\* putting one on exchanges skills and passives one for one, or does nothing.
KitFollows(h, row, ex, grown) ==
    LET base == BaseKit(h, grown)
        bare == ResolveKit(h, [row EXCEPT !.stone = NoStone], ex, grown)
        kit  == ResolveKit(h, row, ex, grown)
    IN /\ bare.passives = [i \in DOMAIN base.passives |-> LastNamed(h, ex, base.passives[i])]
       /\ bare.group1 = LastGroup(h, ex, base.group1)
       /\ Len(kit.passives) = Len(bare.passives)
       /\ ~FacetActive(h, row) => kit = bare
       /\ FacetActive(h, row) /\ ~Reshaped(h, row) =>
            kit.passives = FacetTransitions(bare.passives,
                                            FacetRow[<<row.stone, row.rank>>].exchange)

FollowsRow(h, row) ==
    /\ NeverWeaker(h, row)
    /\ \A ex \in Levels(h), grown \in BOOLEAN : KitFollows(h, row, ex, grown)

\* Battles read from a committed row what commands have put there: every hero
\* can be built, from what was paid for, at the start and whenever its row
\* changes it is not weaker than on the way, and its kit follows its levels and
\* its facet.
FightsAsPaid ==
    /\ [](CanFight /\ AttributesPaidFor)
    /\ \A h \in Eligible : FollowsRow(h, rows[h])
    /\ [][\A h \in Eligible : rows'[h] # rows[h] => FollowsRow(h, rows'[h])]_vars
=============================================================================
