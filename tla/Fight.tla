------------------------------- MODULE Fight -------------------------------
(***************************************************************************)
(* One round of a battle as gameserver/src/state/battle computes it: the    *)
(* operations play cards of the hand against a snapshot of the entities,    *)
(* the enemies answer from the same snapshot, and only then are the         *)
(* effects of all the steps applied to the authoritative fight.  Nothing    *)
(* here is a variable: a round is a function of the battle, of the          *)
(* operations and of the targets the enemies draw.                          *)
(*                                                                         *)
(* A fight maps the uids of its entities, substitutes included, to their    *)
(* side (1 the player's, 2 the enemy's), model, life and maximum.  Amounts  *)
(* are abstracted: a slot of a skill carries the number its                 *)
(* formula yields.  Buffs are left out, because the BuffMgr that conditions *)
(* read is created empty with every RoundState and never filled.            *)
(***************************************************************************)
EXTENDS Integers, Sequences, FiniteSets, SequencesExt

CONSTANTS
  Skill,     \* skill id -> [slots : Seq of [does, at, num, when], rate]
  PerPoint,  \* DAMAGE_PER_POINT
  PoolMax    \* team -> maximum of its bloodtithe pool

\* A skill without a row in the tables has neither slots nor a rate; a
\* share of life to lose is in thousandths.
ASSUME FightAssumption ==
  /\ PerPoint \in Nat \ {0}
  /\ PoolMax \in [{1, 2} -> Nat]
  /\ \A s \in DOMAIN Skill :
       /\ Skill[s].rate \in Int
       /\ Skill[s].slots \in Seq([does : STRING, at : STRING, num : Int, when : STRING])
       /\ \A i \in DOMAIN Skill[s].slots :
            Skill[s].slots[i].does = "LostLife" => Skill[s].slots[i].num >= 0

Nobody == 0      \* target uid 0: "auto target", the uid of no entity
NoNumber == -1   \* an effect without effect_num (every number sent is >= 0
                 \* but a lost life, whose type is its own)
NoSkill == "none"

Entities(fight) == DOMAIN fight.side
Teammates(fight, u) == {v \in Entities(fight) : fight.side[v] = fight.side[u]}
Alive(fight, side) == {u \in Entities(fight) : fight.side[u] = side /\ fight.hp[u] > 0}

-----------------------------------------------------------------------------
(* Skills: the effects of one card, computed from the snapshot. *)

\* resolve_targets.
Targets(fight, caster, target, at) ==
  CASE at = "target"  -> {target}
    [] at = "allies"  -> Teammates(fight, caster)
    [] at = "enemies" -> Entities(fight) \ Teammates(fight, caster)
    [] at = "inherit" -> {IF target \in Entities(fight) THEN target ELSE caster}
    [] OTHER          -> {caster}

\* check_condition: the unconditional codes hold, "does not have the buff"
\* holds of an empty BuffMgr, "all allies have the buff" does not.
Holds(when) == when \in {"always", "lacks_buff"}

Effect(type, u, num) == [type |-> type, target |-> u, num |-> num]

AtLeastOne(n) == IF n < 1 THEN 1 ELSE n

\* calculate_damage_effect: nothing when the target is no entity.
DamageEffects(fight, u, num) ==
  IF u \in Entities(fight) THEN <<Effect("Damage", u, AtLeastOne(num))>> ELSE <<>>

\* execute_behavior, for one target.  Missing life is read from the snapshot
\* taken when the round began, whatever the cards played before it did.
BehaviorEffects(fight, u, slot) ==
  CASE slot.does = "Damage"      -> DamageEffects(fight, u, slot.num)
    [] slot.does = "Heal"        -> <<Effect("Heal", u, AtLeastOne(slot.num))>>
    [] slot.does = "HealByTwoAttr" ->
         IF u \in Entities(fight)
         THEN <<Effect("Heal", u, fight.max[u] - fight.hp[u] + slot.num)>>
         ELSE <<>>
    [] slot.does = "Bloodlust"   -> <<Effect("Heal", u, slot.num)>>
    [] slot.does = "AverageLife" -> <<Effect("AverageLife", u, NoNumber)>>
    [] slot.does = "LostLife"    ->
         <<Effect("CurrentHpChange", u, -((fight.max[u] * slot.num) \div 1000))>>
    [] slot.does = "AddBuff"     -> <<Effect("BuffAdd", u, slot.num)>>
    [] OTHER                     -> <<>>   \* passive or unknown behaviours

SlotEffects(fight, caster, target, slot) ==
  LET who == IF slot.does \in {"LostLife", "Bloodlust"} THEN {caster}
             ELSE Targets(fight, caster, target, slot.at)
  IN IF Holds(slot.when)
     THEN FlattenSeq([i \in 1..Cardinality(who) |->
            BehaviorEffects(fight, SetToSeq(who)[i], slot)])
     ELSE <<>>

\* execute_skill: every slot in turn; the damage rate only when no slot is
\* defined at all.
ExecuteSkill(fight, caster, target, skill) ==
  LET slots == Skill[skill].slots
  IN [kind    |-> "Skill",
      from    |-> caster,
      skill   |-> skill,
      effects |-> IF slots = <<>> /\ Skill[skill].rate > 0
                  THEN DamageEffects(fight, target, Skill[skill].rate)
                  ELSE FlattenSeq([i \in DOMAIN slots |->
                         SlotEffects(fight, caster, target, slots[i])])]

OtherStep(kind) == [kind |-> kind, from |-> Nobody, skill |-> NoSkill, effects |-> <<>>]

-----------------------------------------------------------------------------
(* The player's operations on the round state: hand, used cards, steps. *)

Operation(type, card, to) == [type |-> type, card |-> card, to |-> to]

\* The hero of the player's own that a card makes act: cards name a model, and
\* a player owns a model once.  Trial heroes and substitutes have negative uids.
Casters(fight, card) == {u \in Entities(fight) : u > 0 /\ fight.model[u] = card.hero}
Caster(fight, card) == CHOOSE u \in Casters(fight, card) : TRUE

\* Mutant of PlayCard: the card is played and stays in the hand.
KeepCard(fight, state, oper) ==
  LET i == oper.card + 1 IN
  IF i \notin DOMAIN state.hand \/ Casters(fight, state.hand[i]) = {} THEN state
  ELSE [state EXCEPT
          !.used  = Append(@, oper.card),
          !.steps = Append(@, ExecuteSkill(fight, Caster(fight, state.hand[i]), oper.to,
                                           state.hand[i].skill))]

\* play_card.  A card that is not there is no step at all; a card that
\* nobody can play fails the round.  Card positions count from 0.
PlayCard(fight, state, oper) ==
  LET i == oper.card + 1 IN
  CASE i \notin DOMAIN state.hand -> state
    [] i \in DOMAIN state.hand /\ Casters(fight, state.hand[i]) = {} ->
         [state EXCEPT !.ok = FALSE]
    [] OTHER ->
         [state EXCEPT
            !.hand  = RemoveAt(@, i),
            !.used  = Append(@, oper.card),
            !.point = IF @ > 0 THEN @ - 1 ELSE 0,
            !.steps = Append(@, ExecuteSkill(fight, Caster(fight, state.hand[i]), oper.to,
                                             state.hand[i].skill))]

\* execute_operation.
ExecuteOperation(fight, state, oper) ==
  LET show(kind) == [state EXCEPT !.steps = Append(@, OtherStep(kind))]
  IN CASE oper.type = 1 \/ (oper.type = 2 /\ oper.to # Nobody) -> PlayCard(fight, state, oper)
       [] oper.type = 2 /\ oper.to = Nobody -> show("SelectCard")
       [] oper.type = 3 -> show("ChangeHero")
       [] oper.type = 4 -> show("EndTurn")
       [] OTHER -> state

\* The loop over the operations stops at the first that fails.
ExecuteOperations(fight, state, opers) ==
  FoldLeft(LAMBDA s, o : IF s.ok THEN ExecuteOperation(fight, s, o) ELSE s, state, opers)

\* generate_auto_opers: select and play positions 0, 1 and 2, then end the
\* turn; each card played shifts the positions of those after it.
AutoOpers(deck) ==
  LET n == IF Len(deck) < 3 THEN Len(deck) ELSE 3
  IN FlattenSeq([k \in 1..n |-> <<Operation(2, k - 1, Nobody), Operation(1, k - 1, Nobody)>>])
       \o <<Operation(4, 0, Nobody)>>

\* execute_ai_turn: the enemies alive in the snapshot play their cards, each
\* at the target of the card or at the hero drawn for it; draw is one outcome
\* of the random generator.  With no hero of the player's own alive in the
\* snapshot there is no turn.
AiSteps(fight, cards, draw) ==
  LET plays == {i \in DOMAIN cards : /\ cards[i].foe \in Entities(fight)
                                     /\ fight.hp[cards[i].foe] > 0
                                     /\ cards[i].skill # NoSkill}
      step(i) == ExecuteSkill(fight, cards[i].foe,
                   IF cards[i].to # Nobody THEN cards[i].to ELSE draw[i], cards[i].skill)
  IN FlattenSeq([i \in DOMAIN cards |-> IF i \in plays THEN <<step(i)>> ELSE <<>>])

\* Whom the enemies may aim at.
Aims(fight) == {u \in Alive(fight, 1) : u > 0}

Draws(fight, cards) ==
  IF \E i \in DOMAIN cards : cards[i].to = Nobody
  THEN [DOMAIN cards -> Aims(fight)]
  ELSE {[i \in DOMAIN cards |-> Nobody]}

-----------------------------------------------------------------------------
(* The effects, applied to the authoritative fight. *)

\* on_hp_lost: a point for every PerPoint lost, up to the maximum; what is
\* lost beyond it stays in the accumulator.
HpLost(pool, team, lost) ==
  LET total  == pool.acc + lost
      room   == IF pool.value < PoolMax[team] THEN PoolMax[team] - pool.value ELSE 0
      gained == IF total \div PerPoint < room THEN total \div PerPoint ELSE room
  IN [value |-> pool.value + gained, acc |-> total - gained * PerPoint]

\* play_act_effect_data and the handlers it dispatches to.  An entity that is
\* not found, and a life to set without a number, are errors.
PlayEffect(result, e) ==
  LET f == result.fight
      set(hp) == [result EXCEPT !.fight.hp[e.target] = hp]
      refused == /\ e.type \in {"Damage", "Heal", "AverageLife", "CurrentHpChange"}
                 /\ \/ e.target \notin Entities(f)
                    \/ e.type = "AverageLife" /\ e.num = NoNumber
  IN IF refused THEN [result EXCEPT !.ok = FALSE] ELSE
     CASE e.type = "Damage" ->
            [result EXCEPT
               !.fight.hp[e.target] = IF @ > e.num THEN @ - e.num ELSE 0,
               !.fight.pool[f.side[e.target]] = HpLost(@, f.side[e.target], e.num)]
       [] e.type = "Heal" ->
            set(IF f.hp[e.target] + e.num < f.max[e.target]
                THEN f.hp[e.target] + e.num ELSE f.max[e.target])
       [] e.type \in {"AverageLife", "CurrentHpChange"} -> set(e.num)
       [] OTHER -> result

\* The effects of all steps, in order.
Shown(steps) == FlattenSeq([i \in DOMAIN steps |-> steps[i].effects])

\* play_step_data_list, until the first error.
PlaySteps(fight, steps) ==
  FoldLeft(LAMBDA r, e : IF r.ok THEN PlayEffect(r, e) ELSE r,
           [ok |-> TRUE, fight |-> fight], Shown(steps))

\* check_battle_end.
BattleEnd(fight) == Alive(fight, 1) = {} \/ Alive(fight, 2) = {}

-----------------------------------------------------------------------------
(* process_round. *)

NewState(battle) ==
  [ok |-> TRUE, hand |-> battle.deck, used |-> <<>>, point |-> battle.points,
   steps |-> <<OtherStep("Refresh")>>]

\* The reply and the fight the round leaves.  The life reported and the end of
\* the battle are rebuilt from the fight the effects were applied to.
Response(state, steps, fight, ok) ==
  [ok |-> ok, steps |-> steps, hand |-> state.hand, used |-> state.used,
   point |-> state.point, hp |-> fight.hp, finish |-> BattleEnd(fight), fight |-> fight]

ProcessRound(battle, opers) ==
  LET fight  == battle.fight
      state  == ExecuteOperations(fight, NewState(battle), opers)
      turns  == IF Aims(fight) = {} THEN {<<>>}
                ELSE {AiSteps(fight, battle.ai, d) : d \in Draws(fight, battle.ai)}
  IN {LET played == PlaySteps(fight, state.steps \o ai)
      IN Response(state, state.steps \o ai, played.fight, state.ok /\ played.ok) : ai \in turns}

-----------------------------------------------------------------------------
(* What a round promises, for a round r of battle b. *)

CardsOf(seq) == ToBag([i \in DOMAIN seq |-> <<seq[i].hero, seq[i].skill>>])

PlayedCards(fight, steps) ==
  LET own == {i \in DOMAIN steps : steps[i].from > 0}
      card(i) == <<fight.model[steps[i].from], steps[i].skill>>
  IN [x \in {card(i) : i \in own} |-> Cardinality({i \in own : card(i) = x})]

DamageTo(fight, side, steps) ==
  LET es == Shown(steps)
  IN SumFunctionOnSet([i \in DOMAIN es |-> es[i].num],
       {i \in DOMAIN es : es[i].type = "Damage" /\ fight.side[es[i].target] = side})

\* The reply shows the state the server holds.
ReportsServerState(r) == r.hp = r.fight.hp /\ r.finish = BattleEnd(r.fight)

\* Every card that left the hand shows as one skill of the hero it belongs to.
HandAccountedFor(b, r) == CardsOf(b.deck) = CardsOf(r.hand) (+) PlayedCards(b.fight, r.steps)

\* Points of bloodtithe and what is left in the accumulator are together the
\* damage the steps show.
DamageAccountedFor(b, r) ==
  \A t \in {1, 2} :
    LET before == b.fight.pool[t]  after == r.fight.pool[t]
    IN /\ PerPoint * after.value + after.acc
            = PerPoint * before.value + before.acc + DamageTo(b.fight, t, r.steps)
       /\ after.value <= PoolMax[t]
       /\ after.acc < PerPoint \/ after.value = PoolMax[t]

LifeWithinMax(r) == \A u \in Entities(r.fight) : r.fight.hp[u] <= r.fight.max[u]
=============================================================================
