-------------------------------- MODULE Team --------------------------------
(***************************************************************************)
(* What create_battle builds from the hero group of a request               *)
(* (gameserver/src/state/battle/{trial,fight_builder,cards}.rs): who        *)
(* fights, under which uid and at which position, the hand dealt to the     *)
(* player and the cards of the enemies.  Everything is a function of the    *)
(* player, of the group and of what the random generators draw.             *)
(*                                                                         *)
(* A slot of a group holds an owned hero (its uid, positive, of which only   *)
(* the lower 32 bits are looked at), nothing (0),                           *)
(* a placeholder of a battle aid (-1..-MaxAid) or, in the older encoding, a *)
(* trial hero (the negated id of a trial, beyond -MaxOrdinal).  Uids of     *)
(* the attackers that own no row are negated ordinals up to MaxOrdinal; the *)
(* enemies start behind them.                                               *)
(***************************************************************************)
EXTENDS Fight, FiniteSetsExt

CONSTANTS
  Owned,       \* player -> uid of a hero it owns -> model
  Trial,       \* trial id -> model
  Monsters,    \* enemies of the episode, in order: [model, skill]
  Life,        \* model -> [hp, max] with which it enters the first round
  BaseSkills,  \* model -> first skill of each of its groups
  Line,        \* skill -> what its ranks have in common (id / 10)
  Upgrade,     \* <<model, line, rank>> -> skill, where the skill table has one
  PlayerMax,   \* action points the episode allows
  StartPool,   \* bloodtithe of the two teams in the first round
  MaxAid,      \* MAX_BATTLE_AID_ORDINAL
  MaxOrdinal,  \* MAX_TRIAL_UID_ORDINAL
  HalfWord,    \* 2^31
  Deals        \* bound: what the generators may draw, [draws, aims]

\* The tables name heroes, monsters and skills that they have; nobody begins
\* with more life than its maximum, nor a team with a pool that is more than full.
ASSUME TeamAssumption ==
  /\ \A m \in DOMAIN Life :
       Life[m].hp \in Int /\ Life[m].max \in Nat /\ Life[m].hp <= Life[m].max
  /\ \A m \in DOMAIN BaseSkills : m \in DOMAIN Life /\ BaseSkills[m] \in Seq(DOMAIN Skill)
  /\ \A p \in DOMAIN Owned : \A u \in DOMAIN Owned[p] :
       u \in Nat \ {0} /\ Owned[p][u] \in DOMAIN BaseSkills
  /\ \A t \in DOMAIN Trial : Trial[t] \in DOMAIN BaseSkills
  /\ Monsters \in Seq([model : DOMAIN Life, skill : DOMAIN Skill \cup {NoSkill}])
  /\ \A x \in DOMAIN Upgrade : Upgrade[x] \in DOMAIN Skill
  /\ StartPool \in [{1, 2} -> [value : Nat, acc : Nat]]
  /\ \A t \in {1, 2} : StartPool[t].value <= PoolMax[t] /\ StartPool[t].acc < PerPoint
  /\ PlayerMax \in Nat \ {0} /\ MaxAid \in Nat /\ MaxOrdinal \in Nat
  /\ HalfWord \in Nat \ {0}
  /\ \A d \in Deals :
       d.draws \in Seq(Nat) /\ \A i \in DOMAIN Monsters : d.aims[i] \in Nat

\* Hero groups as they come from clients.
AnyGroup == [heroes : Seq(Int), subs : Seq(Int), trials : Seq([id : Int, pos : Int])]

-----------------------------------------------------------------------------
(* Trial heroes: normalize_trial_requests. *)

Slots(g) == Range(g.heroes) \cup Range(g.subs)
IsAid(u) == u \in -MaxAid..-1
IsLegacyTrial(u) == u < -MaxOrdinal
Explicit(g) == g.trials # <<>>

\* max_battle_aid_ordinal.
AidOrdinal(g) == Max({0} \cup {-u : u \in {v \in Slots(g) : IsAid(v)}})

\* The slots of a list that hold a trial hero; substitutes get negative
\* positions.
LegacyTrials(slots, sign) ==
  FlattenSeq([i \in DOMAIN slots |->
    IF IsLegacyTrial(slots[i]) THEN <<[id |-> -slots[i], pos |-> sign * i]>> ELSE <<>>])

Requested(g) ==
  IF Explicit(g) THEN g.trials
  ELSE LegacyTrials(g.heroes, 1) \o LegacyTrials(g.subs, -1)

\* Every trial hero takes the next ordinal after the aids'.
Trials(g) ==
  LET ts == Requested(g)
  IN {[id |-> ts[i].id, pos |-> ts[i].pos, uid |-> -(AidOrdinal(g) + i)] : i \in DOMAIN ts}

Normalizes(g) ==
  LET ts == Requested(g)
  IN /\ \A u \in Slots(g) : u >= 0 \/ IsAid(u) \/ IsLegacyTrial(u)
     /\ Explicit(g) => \A u \in Slots(g) : ~IsLegacyTrial(u)
     /\ AidOrdinal(g) + Len(ts) <= MaxOrdinal
     /\ \A i \in DOMAIN ts : ts[i].id > 0 /\ ts[i].pos # 0
     /\ \A i, j \in DOMAIN ts : i # j => ts[i].id # ts[j].id /\ ts[i].pos # ts[j].pos

MainTrials(g) == {t \in Trials(g) : t.pos > 0}
SubTrials(g) == Trials(g) \ MainTrials(g)

\* Mutant of Reserved: as many ordinals as there are trial heroes.
TrialCount(g) == Cardinality(Trials(g))

\* reserved_attacker_uid_ordinal.
Reserved(g) == Max({AidOrdinal(g)} \cup {-t.uid : t \in Trials(g)})

-----------------------------------------------------------------------------
(* The two teams: build_attacker_team_with_destiny_modifiers and             *)
(* build_defender_team.                                                      *)

Member(uid, model, pos) == [uid |-> uid, model |-> model, pos |-> pos]

\* claim_next_attacker_position, for the k-th slot that claims.
FreePosition(taken, k) ==
  CHOOSE p \in 1..(k + Cardinality(taken)) :
    p \notin taken /\ Cardinality(1..p \ taken) = k

\* With explicit trial heroes every slot claims the next position they leave
\* free, also an empty one; otherwise a slot is its position.
Position(g, taken, i) == IF Explicit(g) THEN FreePosition(taken, i) ELSE i

OwnedSlots(slots) == {i \in DOMAIN slots : slots[i] > 0}

\* A hero is read by its uid `as i32`: a uid of the wire that is too wide names
\* the hero of its lower 32 bits, which enters under that hero's own uid.
AsI32(u) == ((u + HalfWord) % (2 * HalfWord)) - HalfWord

Mains(p, g) ==
  {Member(AsI32(g.heroes[i]), Owned[p][AsI32(g.heroes[i])],
          Position(g, {t.pos : t \in MainTrials(g)}, i)) : i \in OwnedSlots(g.heroes)}
    \cup {Member(t.uid, Trial[t.id], t.pos) : t \in MainTrials(g)}

\* Owned substitutes take the ordinals after the reserved ones, in order.
SubOrdinal(g, i) == Reserved(g) + Cardinality({j \in OwnedSlots(g.subs) : j <= i})

Subs(p, g) ==
  {Member(-SubOrdinal(g, i), Owned[p][AsI32(g.subs[i])],
          Position(g, {-t.pos : t \in SubTrials(g)}, i)) : i \in OwnedSlots(g.subs)}
    \cup {Member(t.uid, Trial[t.id], -t.pos) : t \in SubTrials(g)}

Foes == {Member(-(MaxOrdinal + i), Monsters[i].model, i) : i \in DOMAIN Monsters}

\* The requests that build a fight: the others are refused.
Builds(p, g) ==
  /\ Normalizes(g)
  /\ \A u \in Slots(g) : u > 0 => AsI32(u) \in DOMAIN Owned[p]
  /\ \A t \in Trials(g) : t.id \in DOMAIN Trial
  /\ \A i \in OwnedSlots(g.subs) : SubOrdinal(g, i) <= MaxOrdinal

\* The entities by uid; the enemies are entered last.
BuildFight(p, g) ==
  LET ours   == Mains(p, g) \cup Subs(p, g)
      theirs == {m.uid : m \in Foes}
      uids   == theirs \cup {m.uid : m \in ours}
      side   == [u \in uids |-> IF u \in theirs THEN 2 ELSE 1]
      model  == [u \in uids |->
                  (CHOOSE m \in IF side[u] = 2 THEN Foes ELSE ours : m.uid = u).model]
  IN [side |-> side, model |-> model, pool |-> StartPool,
      hp |-> [u \in uids |-> Life[model[u]].hp], max |-> [u \in uids |-> Life[model[u]].max]]

-----------------------------------------------------------------------------
(* Cards: generate_initial_deck and generate_ai_initial_deck. *)

\* The heroes cards are dealt for: owned ones of the main list, then trials.
Sources(p, g) ==
  LET own(u)   == IF u > 0 THEN <<Owned[p][AsI32(u)]>> ELSE <<>>
      trial(t) == IF t.pos > 0 THEN <<Trial[t.id]>> ELSE <<>>
  IN FlattenSeq([i \in DOMAIN g.heroes |-> own(g.heroes[i])])
       \o FlattenSeq([i \in DOMAIN Requested(g) |-> trial(Requested(g)[i])])

MaxCards(n) == Min({3 * n, 9})

\* build_candidate_pool: the first rank of each skill, whatever the rank the
\* hero's kit gives it in the fight.
Candidates(p, g) ==
  FlattenSeq([i \in DOMAIN Sources(p, g) |->
    LET model == Sources(p, g)[i]
    IN [k \in DOMAIN BaseSkills[model] |->
          [hero |-> model, skill |-> BaseSkills[model][k], type |-> 0]]])

\* A card drawn next to its like is merged into it, if the table has a skill
\* of the next rank; the hand is no longer for it.
DrawCard(hand, card) ==
  LET last == hand[Len(hand)]
      next == <<last.hero, Line[last.skill], last.type + 1>>
      up   == [hero |-> last.hero, skill |-> Upgrade[next], type |-> last.type + 1]
  IN IF /\ hand # <<>>
        /\ last.hero = card.hero /\ Line[last.skill] = Line[card.skill]
        /\ last.type = card.type
        /\ next \in DOMAIN Upgrade
     THEN [hand EXCEPT ![Len(hand)] = up]
     ELSE Append(hand, card)

\* draw_cards_with_merge: until the hand is full; nothing can be drawn from an
\* empty pool.
Hand(p, g, draws) ==
  LET from == Candidates(p, g)
      full == MaxCards(Len(Sources(p, g)))
  IN FoldLeft(LAMBDA hand, n : IF from # <<>> /\ Len(hand) < full
                               THEN DrawCard(hand, from[(n % Len(from)) + 1]) ELSE hand,
              <<>>, draws)

\* Whom the enemies aim at: owned heroes of the main list, by position.
Targetable(p, g) == {m \in Mains(p, g) : m.uid > 0 /\ Life[m.model].hp > 0}
Ranked(ms, k) == CHOOSE m \in ms : Cardinality({n \in ms : n.pos <= m.pos}) = k

\* Every enemy alive plays its first skill at one of them.
AiHand(p, g, aims) ==
  LET ms == Targetable(p, g)
      card(i) == [foe |-> -(MaxOrdinal + i), skill |-> Monsters[i].skill,
                  to |-> Ranked(ms, (aims[i] % Cardinality(ms)) + 1).uid]
  IN FlattenSeq([i \in DOMAIN Monsters |->
       IF ms # {} /\ Life[Monsters[i].model].hp > 0 /\ Monsters[i].skill # NoSkill
       THEN <<card(i)>> ELSE <<>>])

\* default_max_ap: aids count as heroes.
Points(g) ==
  LET active == Cardinality({i \in DOMAIN g.heroes : g.heroes[i] > 0 \/ IsAid(g.heroes[i])})
                  + Cardinality(MainTrials(g))
  IN Min({PlayerMax, IF active <= 2 THEN 2 ELSE 4})

\* create_battle.
Built(p, g) ==
  IF ~Builds(p, g) THEN {}
  ELSE {[fight |-> BuildFight(p, g), deck |-> Hand(p, g, d.draws),
         ai |-> AiHand(p, g, d.aims), points |-> Points(g)] :
          d \in {d \in Deals : Len(Hand(p, g, d.draws)) = MaxCards(Len(Sources(p, g)))}}

-----------------------------------------------------------------------------
(* What a team promises. *)

\* A lineup lists an owned hero once in its main list: the code relies on the
\* client for it.
ListsOnce(g) ==
  \A i, j \in OwnedSlots(g.heroes) : AsI32(g.heroes[i]) = AsI32(g.heroes[j]) => i = j

\* Nobody shares a uid, a position, or the uid of the player's own entity.
Apart(members) == \A m, n \in members : m # n => m.uid # n.uid /\ m.pos # n.pos

OwnNamespace(p, g) ==
  LET ours == Mains(p, g) \cup Subs(p, g)
  IN /\ Apart(Mains(p, g)) /\ Apart(Subs(p, g)) /\ Apart(Foes)
     /\ \A m \in Mains(p, g), n \in Subs(p, g) : m.uid # n.uid
     /\ \A m \in ours : m.uid >= -MaxOrdinal /\ m.uid # Nobody /\ m.pos >= 1

\* The player's own heroes stand in the order it listed them.
InOrder(p, g) ==
  \A i, j \in OwnedSlots(g.heroes), m, n \in Mains(p, g) :
    i < j /\ m.uid = AsI32(g.heroes[i]) /\ n.uid = AsI32(g.heroes[j]) => m.pos < n.pos

\* The hand holds cards of fighters only, and the enemies aim at them.
DealtFromTeam(p, g) ==
  \A b \in Built(p, g) :
    /\ \A i \in DOMAIN b.deck : \E m \in Mains(p, g) : m.model = b.deck[i].hero
    /\ \A i \in DOMAIN b.ai : \E m \in Mains(p, g) : m.uid = b.ai[i].to
    /\ b.points > 0

SoundTeam(p, g) == OwnNamespace(p, g) /\ InOrder(p, g) /\ DealtFromTeam(p, g)
=============================================================================
