----------------------------- MODULE RosterProofs -----------------------------
(***************************************************************************)
(* Theorems about module Roster, for every set of players, heroes and      *)
(* connections and any number of grants.                                   *)
(*                                                                         *)
(* They rest on the inductive invariant IInv.  Its two ideas: the next uid *)
(* is free when it is inserted, so every grant holds a row of its own; and *)
(* the unique birthday lets only one grant of a hero reach the talents.    *)
(***************************************************************************)
EXTENDS Roster, TLAPS, FiniteSetTheorems, WellFoundedInduction

USE DEF Stage, Uid

-----------------------------------------------------------------------------
(* Rows.                                                                   *)

\* The uids in use have a number.
LEMMA UsedCount ==
    ASSUME TypeOK
    PROVE  Cardinality(Used) \in Nat /\ IsFiniteSet(Used)
BY FS_CardinalityType DEF TypeOK

\* The next uid is one more than the number of rows.
LEMMA NextUidCount ==
    ASSUME TypeOK
    PROVE  NextUid = Cardinality(Used) + 1
<1> DEFINE n == Cardinality(Used)
<1>1. n \in Nat /\ Used = 1..n
  BY UsedCount DEF TypeOK
<1>2. CASE n = 0
  <2>1. Used = {}
    BY <1>1, <1>2
  <2> QED
    BY <1>2, <2>1 DEF NextUid
<1>3. CASE n # 0
  <2>1. n \in Used /\ \A y \in Used : n >= y
    BY <1>1, <1>3
  <2>2. Max(Used) \in Used /\ \A y \in Used : Max(Used) >= y
    BY <2>1 DEF Max
  <2>3. Max(Used) = n
    BY <1>1, <2>1, <2>2
  <2> QED
    BY <2>1, <2>3 DEF NextUid
<1> QED
  BY <1>2, <1>3

\* A non-empty set of natural numbers has a least one.
LEMMA NatLeast ==
    ASSUME NEW S \in SUBSET Nat, S # {}
    PROVE  \E m \in S : \A v \in S : m <= v
<1> DEFINE R == {ss \in Nat \X Nat : ss[1] < ss[2]}
<1>1. IsWellFoundedOn(R, Nat)
  BY NatLessThanWellFounded DEF OpToRel
<1> HIDE DEF R
<1>2. PICK m \in S : \A v \in S : <<v, m>> \notin R
  BY <1>1, WFMin
<1>3. ASSUME NEW v \in S  PROVE m <= v
  <2>1. ~(v < m)
    BY <1>2 DEF R
  <2> QED
    BY <2>1
<1> QED
  BY <1>3

\* The rows that may be counted are finitely many, now and after a step.
LEMMA SettledFinite ==
    ASSUME TypeOK, NEW p \in Player
    PROVE  IsFiniteSet(Settled(p)) /\ Cardinality(Settled(p)) \in Nat
<1>1. Settled(p) \in SUBSET Used
  BY DEF Settled, WholeOf
<1>2. IsFiniteSet(Settled(p))
  BY <1>1, UsedCount, FS_Subset
<1> QED
  BY <1>2, FS_CardinalityType

LEMMA SettledFiniteNext ==
    ASSUME TypeOK', NEW p \in Player
    PROVE  IsFiniteSet(Settled(p)') /\ Cardinality(Settled(p)') \in Nat
<1>1. Settled(p)' \in SUBSET (Used')
  BY DEF Settled, WholeOf
<1>2. IsFiniteSet(Used')
  BY DEF TypeOK
<1>3. IsFiniteSet(Settled(p)')
  BY <1>1, <1>2, FS_Subset
<1> QED
  BY <1>3, FS_CardinalityType

-----------------------------------------------------------------------------
(* The initial states.                                                     *)

LEMMA InitIInv == Init => IInv
<1> SUFFICES ASSUME Init PROVE IInv
  OBVIOUS
<1> USE RosterAssumption
<1> DEFINE N == Cardinality(Hero)
           S == Cardinality(StarterOf)
<1>1. N \in Nat
  BY FS_CardinalityType
<1>2. IsFiniteSet(StarterOf) /\ S \in {0, 1}
  <2>1. IsFiniteSet(StarterOf) /\ S \in Nat
    BY FS_Subset, FS_CardinalityType
  <2> QED
    BY <2>1
<1>3. PICK order \in Order :
        heroes = [u \in 1..(S * N) |->
                    [player |-> CHOOSE p \in StarterOf : TRUE, hero |-> order[u],
                     duplicates |-> 0, parts |-> "talents"]]
  BY DEF Init
<1>4. Used = 1..(S * N) /\ S * N \in Nat
  BY <1>1, <1>2, <1>3 DEF Used
<1>5. IsFiniteSet(Used) /\ Cardinality(Used) = S * N
  BY <1>4, FS_Interval
<1>6. CASE S = 0
  <2>1. StarterOf = {} /\ Used = {}
    BY <1>1, <1>2, <1>4, <1>6, FS_EmptySet
  <2>2. TypeOK
    BY <1>4, <1>5, <2>1 DEF TypeOK, Init, Used
  <2>3. GrantInv /\ HoldInv /\ BirthdayInv
    BY <2>1 DEF GrantInv, HoldInv, BirthdayInv, Init, Holds
  <2>4. AnswerInv
    BY <2>1 DEF AnswerInv, Init
  <2>5. CountInv
    <3> SUFFICES ASSUME NEW p \in Player PROVE counted[p] <= Cardinality(Settled(p))
      BY DEF CountInv
    <3>1. counted[p] = 0
      BY <2>1 DEF Init
    <3> QED
      BY <2>2, <3>1, SettledFinite
  <2> QED
    BY <2>2, <2>3, <2>4, <2>5 DEF IInv
<1>7. CASE S = 1
  <2>1. PICK q : StarterOf = {q}
    BY <1>2, <1>7, FS_Singleton
  <2>2. q \in Player /\ (CHOOSE p \in StarterOf : TRUE) = q
    BY <2>1
  <2>3. Used = 1..N
    BY <1>1, <1>4, <1>7
  <2>4. order \in [1..N -> Hero] /\ \A h \in Hero : \E i \in 1..N : order[i] = h
    BY DEF Order
  <2>5. \A u, v \in 1..N : order[u] = order[v] => u = v
    <3>1. order \in Surjection(1..N, Hero)
      BY <2>4 DEF Surjection
    <3>2. IsFiniteSet(1..N) /\ Cardinality(1..N) = N
      BY <1>1, FS_Interval
    <3>3. order \in Injection(1..N, Hero)
      BY <3>1, <3>2, FS_SurjSameCardinalityImpliesInj
    <3> QED
      BY <2>4, <3>3 DEF Injection, IsInjective
  <2>6. \A u \in Used :
          /\ heroes[u] \in Row
          /\ heroes[u].player = q /\ heroes[u].hero = order[u]
          /\ heroes[u].duplicates = 0 /\ heroes[u].parts = "talents"
    <3> SUFFICES ASSUME NEW u \in Used
                 PROVE  /\ heroes[u] \in Row
                        /\ heroes[u].player = q /\ heroes[u].hero = order[u]
                        /\ heroes[u].duplicates = 0 /\ heroes[u].parts = "talents"
      OBVIOUS
    <3>1. heroes[u] = [player |-> q, hero |-> order[u], duplicates |-> 0, parts |-> "talents"]
      BY <1>3, <1>4, <2>2
    <3>2. order[u] \in Hero
      BY <2>3, <2>4
    <3> QED
      BY <2>2, <3>1, <3>2 DEF Row
  <2>7. TypeOK
    <3>1. heroes \in [Used -> Row]
      BY <1>3, <1>4, <2>6
    <3>2. birthdays \subseteq Player \X Hero
      BY DEF Init
    <3> QED
      BY <1>1, <1>4, <1>5, <3>1, <3>2 DEF TypeOK, Init
  <2>8. GrantInv /\ HoldInv
    BY DEF GrantInv, HoldInv, Init, Holds
  <2>9. BirthdayInv
    <3>1. \A u \in Used : <<heroes[u].player, heroes[u].hero>> \in birthdays
      BY <2>1, <2>6 DEF Init, Row
    <3>2. \A u, v \in Used : heroes[u].hero = heroes[v].hero => u = v
      BY <2>3, <2>5, <2>6
    <3>3. \A c \in Conn : pc[c] # "talents"
      BY DEF Init
    <3> QED
      BY <3>1, <3>2, <3>3 DEF BirthdayInv
  <2>10. AnswerInv
    <3> SUFFICES ASSUME NEW p \in Player, NEW h \in Hero
                 PROVE  /\ answered[<<p, h>>] > 0 => RowsOf(p, h) # {}
                        /\ \A u \in Used : Oldest(u, p, h) =>
                              answered[<<p, h>>] <= heroes[u].duplicates + (IF Answerable(p, h) THEN 1 ELSE 0)
      BY DEF AnswerInv
    <3>1. answered[<<p, h>>] = IF p = q THEN 1 ELSE 0
      BY <2>1 DEF Init
    <3>2. p = q => \E u \in RowsOf(p, h) : Whole(u)
      BY <2>3, <2>4, <2>6 DEF RowsOf, Whole
    <3>3. p = q => Answerable(p, h)
      BY <3>2 DEF Answerable, Init
    <3>4. \A u \in Used : heroes[u].duplicates = 0
      BY <2>6
    <3> QED
      BY <3>1, <3>2, <3>3, <3>4
  <2>11. CountInv
    <3> SUFFICES ASSUME NEW p \in Player PROVE counted[p] <= Cardinality(Settled(p))
      BY DEF CountInv
    <3>1. CASE p = q
      <4>1. Settled(p) = Used
        BY <2>6, <3>1 DEF Settled, WholeOf, Whole, Init
      <4>2. counted[p] = N /\ Cardinality(Settled(p)) = N
        BY <1>1, <1>5, <1>7, <2>1, <3>1, <4>1 DEF Init
      <4> QED
        BY <1>1, <4>2
    <3>2. CASE p # q
      <4>1. counted[p] = 0
        BY <2>1, <3>2 DEF Init
      <4> QED
        BY <2>7, <4>1, SettledFinite
    <3> QED
      BY <3>1, <3>2
  <2> QED
    BY <2>7, <2>8, <2>9, <2>10, <2>11 DEF IInv
<1> QED
  BY <1>2, <1>6, <1>7

-----------------------------------------------------------------------------
(* Steps that leave rows, birthdays, answers and counts alone, and move no *)
(* connection on to its own row.                                           *)

LEMMA QuietStep ==
    ASSUME IInv, TypeOK', GrantInv', UNCHANGED <<heroes, birthdays, answered, counted>>,
           \A c \in Conn : Holds(c)' =>
               pc'[c] = pc[c] /\ uid'[c] = uid[c] /\ wanted'[c] = wanted[c]
    PROVE  IInv'
<1>1. HoldInv'
  BY DEF IInv, HoldInv, Holds
<1>2. Used' = Used /\ \A p \in Player, h \in Hero : RowsOf(p, h)' = RowsOf(p, h)
  BY DEF Used, RowsOf
<1>3. BirthdayInv'
  BY <1>2 DEF IInv, BirthdayInv, Whole, Holds, RowsOf
<1>4. AnswerInv'
  <2> SUFFICES ASSUME NEW p \in Player, NEW h \in Hero
               PROVE  /\ answered[<<p, h>>] > 0 => RowsOf(p, h) # {}
                      /\ \A u \in Used : Oldest(u, p, h) =>
                            answered[<<p, h>>] <= heroes[u].duplicates + (IF Answerable(p, h)' THEN 1 ELSE 0)
    BY <1>2 DEF AnswerInv, Oldest
  <2>1. Answerable(p, h) => Answerable(p, h)'
    BY <1>2 DEF Answerable, Whole, Holds
  <2>2. answered[<<p, h>>] \in Nat /\ \A u \in Used : heroes[u].duplicates \in Nat
    BY DEF IInv, TypeOK, Row
  <2> QED
    BY <2>1, <2>2 DEF IInv, AnswerInv
<1>5. CountInv'
  <2> SUFFICES ASSUME NEW p \in Player PROVE counted[p] <= Cardinality(Settled(p)')
    BY DEF CountInv
  <2>1. Settled(p) \in SUBSET (Settled(p)')
    BY <1>2 DEF Settled, WholeOf, Whole, Holds
  <2>2. Cardinality(Settled(p)) <= Cardinality(Settled(p)')
    BY <2>1, SettledFiniteNext, FS_Subset
  <2>3. Cardinality(Settled(p)) \in Nat /\ Cardinality(Settled(p)') \in Nat
    BY SettledFinite, SettledFiniteNext DEF IInv
  <2>4. counted[p] \in Nat /\ counted[p] <= Cardinality(Settled(p))
    BY DEF IInv, CountInv, TypeOK
  <2> QED
    BY <2>2, <2>3, <2>4
<1> QED
  BY <1>1, <1>3, <1>4, <1>5 DEF IInv

LEMMA GrantInvariant ==
    ASSUME IInv, NEW c \in Conn, NEW h \in Hero, Grant(c, h)
    PROVE  IInv'
<1>1. UNCHANGED <<heroes, birthdays, answered, counted, uid>> /\ Used' = Used
  BY DEF Grant, Used
<1>2. \A d \in Conn : d # c => pc'[d] = pc[d] /\ wanted'[d] = wanted[d]
  BY DEF Grant, Goto, IInv, TypeOK
<1>3. pc'[c] = "has" /\ wanted'[c] = h
  BY DEF Grant, Goto, IInv, TypeOK
<1>4. TypeOK'
  BY <1>1, RosterAssumption DEF IInv, TypeOK, Grant, Goto
<1>5. GrantInv'
  BY <1>1, <1>2, <1>3 DEF IInv, GrantInv, RowsOf, Holds, PartsAt
<1> QED
  BY <1>1, <1>2, <1>3, <1>4, <1>5, QuietStep DEF Holds

LEMMA HasHeroInvariant ==
    ASSUME IInv, NEW c \in Conn, HasHero(c)
    PROVE  IInv'
<1>1. UNCHANGED <<heroes, birthdays, answered, counted, uid, wanted, asked>> /\ Used' = Used
  BY DEF HasHero, Used
<1>2. \A d \in Conn : d # c => pc'[d] = pc[d]
  BY DEF HasHero, Goto, IInv, TypeOK
<1>3. pc[c] = "has" /\ pc'[c] = IF RowsOf(PlayerOf[c], wanted[c]) # {} THEN "duplicate" ELSE "takeUid"
  BY DEF HasHero, Goto, IInv, TypeOK
<1>4. TypeOK'
  BY <1>1 DEF IInv, TypeOK, HasHero, Goto
<1>5. GrantInv'
  BY <1>1, <1>2, <1>3 DEF IInv, GrantInv, RowsOf, Holds, PartsAt
<1> QED
  BY <1>1, <1>2, <1>3, <1>4, <1>5, QuietStep DEF Holds

LEMMA TakeUidInvariant ==
    ASSUME IInv, NEW c \in Conn, TakeUid(c)
    PROVE  IInv'
<1>1. UNCHANGED <<heroes, birthdays, answered, counted, wanted, asked>> /\ Used' = Used
  BY DEF TakeUid, Used
<1>2. \A d \in Conn : d # c => pc'[d] = pc[d] /\ uid'[d] = uid[d]
  BY DEF TakeUid, Goto, IInv, TypeOK
<1>3. pc[c] = "takeUid" /\ pc'[c] = "insert" /\ uid'[c] = Cardinality(Used) + 1
  BY NextUidCount DEF TakeUid, Goto, IInv, TypeOK
<1>4. Cardinality(Used) \in Nat
  BY UsedCount DEF IInv
<1>5. TypeOK'
  <2>1. NextUid \in Uid
    BY <1>4, NextUidCount DEF IInv
  <2> QED
    BY <1>1, <2>1 DEF IInv, TypeOK, TakeUid, Goto
<1>6. GrantInv'
  BY <1>1, <1>2, <1>3, <1>4 DEF IInv, GrantInv, RowsOf, Holds, PartsAt
<1> QED
  BY <1>1, <1>2, <1>3, <1>5, <1>6, QuietStep DEF Holds

LEMMA FailInvariant ==
    ASSUME IInv, NEW c \in Conn, Fail(c)
    PROVE  IInv'
<1>1. UNCHANGED <<heroes, birthdays, answered, counted, asked>> /\ Used' = Used
  BY DEF Fail, Used
<1>2. \A d \in Conn : d # c => pc'[d] = pc[d] /\ uid'[d] = uid[d] /\ wanted'[d] = wanted[d]
  BY DEF Fail, Return, Goto, IInv, TypeOK
<1>3. pc'[c] = "idle"
  BY DEF Fail, Return, Goto, IInv, TypeOK
<1>4. TypeOK'
  BY <1>1 DEF IInv, TypeOK, Fail, Return, Goto
<1>5. GrantInv'
  BY <1>1, <1>2, <1>3 DEF IInv, GrantInv, RowsOf, Holds, PartsAt
<1> QED
  BY <1>1, <1>2, <1>3, <1>4, <1>5, QuietStep DEF Holds

LEMMA CrashInvariant ==
    ASSUME IInv, Crash
    PROVE  IInv'
<1>1. UNCHANGED <<heroes, birthdays, answered, counted, asked>> /\ Used' = Used
  BY DEF Crash, Used
<1>2. \A d \in Conn : pc'[d] = "idle"
  BY DEF Crash
<1>3. TypeOK'
  BY <1>1 DEF IInv, TypeOK, Crash
<1>4. GrantInv'
  BY <1>2 DEF GrantInv, Holds
<1> QED
  BY <1>1, <1>2, <1>3, <1>4, QuietStep DEF Holds

LEMMA StutterInvariant ==
    ASSUME IInv, UNCHANGED vars
    PROVE  IInv'
<1>1. UNCHANGED <<heroes, birthdays, counted, pc, wanted, uid, answered, asked>> /\ Used' = Used
  BY DEF vars, Used
<1>2. TypeOK' /\ GrantInv'
  BY <1>1 DEF IInv, TypeOK, GrantInv, RowsOf, Holds, PartsAt
<1> QED
  BY <1>1, <1>2, QuietStep DEF Holds

-----------------------------------------------------------------------------
(* Steps that write.                                                       *)

\* A step that counts nothing only needs to keep what may be counted.
LEMMA CountKept ==
    ASSUME IInv, TypeOK', counted' = counted,
           \A p \in Player : Settled(p) \subseteq Settled(p)'
    PROVE  CountInv'
<1> SUFFICES ASSUME NEW p \in Player PROVE counted[p] <= Cardinality(Settled(p)')
  BY DEF CountInv
<1>1. Cardinality(Settled(p)) <= Cardinality(Settled(p)')
  BY SettledFiniteNext, FS_Subset
<1>2. Cardinality(Settled(p)) \in Nat /\ Cardinality(Settled(p)') \in Nat
  BY SettledFinite, SettledFiniteNext DEF IInv
<1>3. counted[p] \in Nat /\ counted[p] <= Cardinality(Settled(p))
  BY DEF IInv, CountInv, TypeOK
<1> QED
  BY <1>1, <1>2, <1>3

LEMMA AddDuplicateInvariant ==
    ASSUME IInv, NEW c \in Conn, AddDuplicate(c)
    PROVE  IInv'
<1> DEFINE q == PlayerOf[c]
           g == wanted[c]
<1>1. UNCHANGED <<birthdays, counted, asked>>
  BY DEF AddDuplicate
<1>2. /\ pc[c] = "duplicate" /\ pc'[c] = "idle"
      /\ \A d \in Conn : d # c => pc'[d] = pc[d] /\ uid'[d] = uid[d] /\ wanted'[d] = wanted[d]
  BY DEF AddDuplicate, Granted, Return, Goto, IInv, TypeOK
<1>3. q \in Player /\ g \in Hero /\ RowsOf(q, g) # {}
  BY <1>2, RosterAssumption DEF IInv, GrantInv
<1>4. Used' = Used /\ \A u \in Used : heroes[u] \in Row
  BY DEF AddDuplicate, Used, IInv, TypeOK
<1>5. \A u \in Used :
        /\ heroes'[u] \in Row
        /\ heroes'[u].player = heroes[u].player /\ heroes'[u].hero = heroes[u].hero
        /\ heroes'[u].parts = heroes[u].parts
        /\ heroes'[u].duplicates = heroes[u].duplicates + (IF u \in RowsOf(q, g) THEN 1 ELSE 0)
  <2> SUFFICES ASSUME NEW u \in Used
               PROVE  /\ heroes'[u] \in Row
                      /\ heroes'[u].player = heroes[u].player /\ heroes'[u].hero = heroes[u].hero
                      /\ heroes'[u].parts = heroes[u].parts
                      /\ heroes'[u].duplicates = heroes[u].duplicates + (IF u \in RowsOf(q, g) THEN 1 ELSE 0)
    OBVIOUS
  <2>1. heroes'[u] = IF u \in RowsOf(q, g)
                     THEN [heroes[u] EXCEPT !.duplicates = @ + 1] ELSE heroes[u]
    BY DEF AddDuplicate
  <2>2. heroes[u] \in Row
    BY <1>4
  <2> QED
    BY <2>1, <2>2 DEF Row
<1>6. /\ answered' \in [Player \X Hero -> Nat]
      /\ answered'[<<q, g>>] = answered[<<q, g>>] + 1
      /\ \A k \in Player \X Hero : k # <<q, g>> => answered'[k] = answered[k]
  BY <1>3 DEF AddDuplicate, Granted, IInv, TypeOK
<1>7. \A p \in Player, h \in Hero : RowsOf(p, h)' = RowsOf(p, h)
  BY <1>4, <1>5 DEF RowsOf
<1>8. TypeOK'
  <2>1. heroes' \in [Used' -> Row]
    BY <1>4, <1>5 DEF AddDuplicate
  <2>2. pc' \in [Conn -> Stage] /\ wanted' \in [Conn -> Hero \cup {None}]
        /\ uid' \in [Conn -> Uid \cup {None}]
    BY DEF AddDuplicate, Granted, Return, Goto, IInv, TypeOK
  <2> QED
    BY <1>1, <1>4, <1>6, <2>1, <2>2 DEF IInv, TypeOK
<1>9. GrantInv'
  BY <1>2, <1>4, <1>5, <1>7, RosterAssumption DEF IInv, GrantInv, Holds, PartsAt, RowsOf
<1>10. HoldInv'
  BY <1>2 DEF IInv, HoldInv, Holds
<1>11. BirthdayInv'
  BY <1>1, <1>2, <1>4, <1>5 DEF IInv, BirthdayInv, Whole, RowsOf
<1>12. AnswerInv'
  <2> SUFFICES ASSUME NEW p \in Player, NEW h \in Hero
               PROVE  /\ answered'[<<p, h>>] > 0 => RowsOf(p, h) # {}
                      /\ \A u \in Used : Oldest(u, p, h) =>
                            answered'[<<p, h>>] <= heroes'[u].duplicates + (IF Answerable(p, h)' THEN 1 ELSE 0)
    BY <1>4, <1>7 DEF AnswerInv, Oldest
  <2>1. Answerable(p, h) => Answerable(p, h)'
    BY <1>2, <1>5, <1>7 DEF Answerable, Whole, RowsOf
  <2>2. answered[<<p, h>>] \in Nat /\ \A u \in Used : heroes[u].duplicates \in Nat
    BY <1>4 DEF IInv, TypeOK, Row
  <2>3. /\ answered[<<p, h>>] > 0 => RowsOf(p, h) # {}
        /\ \A u \in Used : Oldest(u, p, h) =>
              answered[<<p, h>>] <= heroes[u].duplicates + (IF Answerable(p, h) THEN 1 ELSE 0)
    BY DEF IInv, AnswerInv
  <2>4. CASE p = q /\ h = g
    BY <1>3, <1>5, <1>6, <2>1, <2>2, <2>3, <2>4 DEF Oldest
  <2>5. CASE ~(p = q /\ h = g)
    <3>1. answered'[<<p, h>>] = answered[<<p, h>>]
      BY <1>6, <2>5
    <3>2. \A u \in RowsOf(p, h) : u \notin RowsOf(q, g)
      BY <2>5 DEF RowsOf
    <3> QED
      BY <1>5, <2>1, <2>2, <2>3, <3>1, <3>2 DEF Oldest
  <2> QED
    BY <2>4, <2>5
<1>13. CountInv'
  BY <1>1, <1>2, <1>4, <1>5, <1>8, CountKept DEF Settled, WholeOf, Whole
<1> QED
  BY <1>8, <1>9, <1>10, <1>11, <1>12, <1>13 DEF IInv

LEMMA InsertHeroInvariant ==
    ASSUME IInv, NEW c \in Conn, InsertHero(c)
    PROVE  IInv'
<1> DEFINE q == PlayerOf[c]
           g == wanted[c]
           k == uid[c]
           n == Cardinality(Used)
<1>1. UNCHANGED <<birthdays, counted, wanted, uid, answered, asked>>
  BY DEF InsertHero
<1>2. /\ pc[c] = "insert" /\ pc'[c] = "parts"
      /\ \A d \in Conn : d # c => pc'[d] = pc[d]
  BY DEF InsertHero, Goto, IInv, TypeOK
<1>3. q \in Player /\ g \in Hero
  BY <1>2, RosterAssumption DEF IInv, GrantInv
<1>4. n \in Nat /\ IsFiniteSet(Used) /\ Used = 1..n
  BY UsedCount DEF IInv, TypeOK
<1>5. k = n + 1 /\ k \notin Used
  <2>1. k \in 1..(n + 1) /\ k \notin Used
    BY <1>2 DEF InsertHero, IInv, GrantInv
  <2> QED
    BY <1>4, <2>1
<1>6. Used' = Used \cup {k}
  BY DEF InsertHero, WithRow, Used
<1>7. (\A u \in Used : heroes'[u] = heroes[u]) /\ heroes'[k] = NewRow(c)
  BY <1>5 DEF InsertHero, WithRow
<1>8. /\ heroes'[k].player = q /\ heroes'[k].hero = g
      /\ heroes'[k].duplicates = 0 /\ heroes'[k].parts = "none"
      /\ heroes'[k] \in Row
  BY <1>3, <1>7 DEF NewRow, Row
<1>9. IsFiniteSet(Used') /\ Cardinality(Used') = n + 1
  BY <1>4, <1>5, <1>6, FS_AddElement
<1>10. TypeOK'
  <2>1. heroes' \in [Used' -> Row]
    <3>1. \A u \in Used' : heroes'[u] \in Row
      BY <1>6, <1>7, <1>8 DEF IInv, TypeOK
    <3> QED
      BY <1>6, <3>1 DEF InsertHero, WithRow
  <2>2. Used' = 1..Cardinality(Used')
    BY <1>4, <1>5, <1>6, <1>9
  <2>3. pc' \in [Conn -> Stage]
    BY DEF InsertHero, Goto, IInv, TypeOK
  <2> QED
    BY <1>1, <1>9, <2>1, <2>2, <2>3 DEF IInv, TypeOK
<1>11. \A p \in Player, h \in Hero :
          /\ RowsOf(p, h) \subseteq RowsOf(p, h)'
          /\ RowsOf(p, h)' \subseteq RowsOf(p, h) \cup {k}
  BY <1>6, <1>7 DEF RowsOf
<1>12. GrantInv'
  <2> SUFFICES ASSUME NEW d \in Conn
               PROVE  /\ pc'[d] # "idle" => wanted[d] \in Hero
                      /\ pc'[d] = "duplicate" => RowsOf(PlayerOf[d], wanted[d])' # {}
                      /\ pc'[d] = "insert" => uid[d] \in 1..(n + 2)
                      /\ Holds(d)' => /\ uid[d] \in RowsOf(PlayerOf[d], wanted[d])'
                                      /\ heroes'[uid[d]].parts = PartsAt(pc'[d])
    BY <1>1, <1>4, <1>9 DEF GrantInv
  <2>1. CASE d = c
    <3>1. pc'[d] = "parts" /\ wanted'[d] = g /\ uid'[d] = k
      BY <1>1, <1>2, <2>1
    <3>2. k \in RowsOf(q, g)' /\ heroes'[k].parts = PartsAt("parts")
      BY <1>1, <1>6, <1>8 DEF RowsOf, PartsAt
    <3> QED
      BY <1>3, <2>1, <3>1, <3>2
  <2>2. CASE d # c
    <3>1. /\ pc[d] # "idle" => wanted[d] \in Hero
          /\ pc[d] = "duplicate" => RowsOf(PlayerOf[d], wanted[d]) # {}
          /\ pc[d] = "insert" => uid[d] \in 1..(n + 1)
          /\ Holds(d) => /\ uid[d] \in RowsOf(PlayerOf[d], wanted[d])
                         /\ heroes[uid[d]].parts = PartsAt(pc[d])
      BY DEF IInv, GrantInv
    <3>2. pc'[d] = pc[d] /\ (Holds(d)' <=> Holds(d)) /\ PlayerOf[d] \in Player
      BY <1>2, <2>2, RosterAssumption DEF Holds
    <3>3. Holds(d) => uid[d] \in Used /\ pc[d] # "idle"
      BY <3>1 DEF RowsOf, Holds
    <3>4. Holds(d)' => uid[d] \in RowsOf(PlayerOf[d], wanted[d])'
      BY <1>6, <1>7, <3>1, <3>2, <3>3, <1>1 DEF RowsOf
    <3>5. Holds(d)' => heroes'[uid[d]].parts = PartsAt(pc'[d])
      BY <1>7, <3>1, <3>2, <3>3
    <3>6. pc'[d] = "duplicate" => RowsOf(PlayerOf[d], wanted[d])' # {}
      BY <1>1, <1>6, <1>7, <3>1, <3>2 DEF RowsOf
    <3> QED
      BY <1>4, <3>1, <3>2, <3>4, <3>5, <3>6
  <2> QED
    BY <2>1, <2>2
<1>13. HoldInv'
  <2>1. \A d \in Conn : d # c /\ Holds(d)' => Holds(d) /\ uid[d] \in Used
    BY <1>2 DEF Holds, IInv, GrantInv, RowsOf
  <2> QED
    BY <1>1, <1>5, <2>1 DEF IInv, HoldInv
<1>14. BirthdayInv'
  BY <1>1, <1>2, <1>6, <1>7, <1>8 DEF IInv, BirthdayInv, Whole, RowsOf
<1>15. AnswerInv'
  <2> SUFFICES ASSUME NEW p \in Player, NEW h \in Hero
               PROVE  /\ answered[<<p, h>>] > 0 => RowsOf(p, h)' # {}
                      /\ \A u \in Used' : Oldest(u, p, h)' =>
                            answered[<<p, h>>] <= heroes'[u].duplicates + (IF Answerable(p, h)' THEN 1 ELSE 0)
    BY <1>1 DEF AnswerInv
  <2>1. Answerable(p, h) => Answerable(p, h)'
    BY <1>1, <1>2, <1>7, <1>11 DEF Answerable, Whole, RowsOf
  <2>2. answered[<<p, h>>] \in Nat /\ \A u \in Used : heroes[u].duplicates \in Nat
    BY DEF IInv, TypeOK, Row
  <2>3. /\ answered[<<p, h>>] > 0 => RowsOf(p, h) # {}
        /\ \A u \in Used : Oldest(u, p, h) =>
              answered[<<p, h>>] <= heroes[u].duplicates + (IF Answerable(p, h) THEN 1 ELSE 0)
    BY DEF IInv, AnswerInv
  <2>4. answered[<<p, h>>] > 0 => RowsOf(p, h)' # {}
    BY <1>11, <2>3
  <2>5. ASSUME NEW u \in Used', Oldest(u, p, h)'
        PROVE  answered[<<p, h>>] <= heroes'[u].duplicates + (IF Answerable(p, h)' THEN 1 ELSE 0)
    <3>1. CASE u \in Used
      <4>1. Oldest(u, p, h)
        BY <1>7, <1>11, <2>5, <3>1 DEF Oldest, RowsOf
      <4> QED
        BY <1>7, <2>1, <2>2, <2>3, <3>1, <4>1
    <3>2. CASE u = k
      <4>1. RowsOf(p, h) = {}
        BY <1>4, <1>5, <1>11, <2>5, <3>2 DEF Oldest, RowsOf
      <4>2. answered[<<p, h>>] = 0
        BY <2>2, <2>3, <4>1
      <4> QED
        BY <1>8, <3>2, <4>2
    <3> QED
      BY <1>6, <3>1, <3>2
  <2> QED
    BY <2>4, <2>5
<1>16. CountInv'
  BY <1>1, <1>2, <1>6, <1>7, <1>10, CountKept DEF Settled, WholeOf, Whole
<1> QED
  BY <1>10, <1>12, <1>13, <1>14, <1>15, <1>16 DEF IInv

LEMMA InsertPartsInvariant ==
    ASSUME IInv, NEW c \in Conn, InsertParts(c)
    PROVE  IInv'
<1> DEFINE k == uid[c]
<1>1. UNCHANGED <<birthdays, counted, wanted, uid, answered, asked>>
  BY DEF InsertParts
<1>2. /\ pc[c] = "parts" /\ pc'[c] = "birthday"
      /\ \A d \in Conn : d # c => pc'[d] = pc[d]
  BY DEF InsertParts, Goto, IInv, TypeOK
<1>3. k \in RowsOf(PlayerOf[c], wanted[c]) /\ k \in Used /\ heroes[k].parts = "none"
  BY <1>2 DEF IInv, GrantInv, Holds, PartsAt, RowsOf
<1>4. Used' = Used /\ \A u \in Used : heroes[u] \in Row
  BY DEF InsertParts, Used, IInv, TypeOK
<1>5. (\A u \in Used : u # k => heroes'[u] = heroes[u])
      /\ heroes'[k] = [heroes[k] EXCEPT !.parts = "skills"]
  BY <1>3 DEF InsertParts, IInv, TypeOK
<1>6. /\ heroes'[k] \in Row /\ heroes'[k].parts = "skills"
      /\ heroes'[k].player = heroes[k].player /\ heroes'[k].hero = heroes[k].hero
      /\ heroes'[k].duplicates = heroes[k].duplicates
  BY <1>3, <1>4, <1>5 DEF Row
<1>7. \A p \in Player, h \in Hero : RowsOf(p, h)' = RowsOf(p, h)
  BY <1>4, <1>5, <1>6 DEF RowsOf
<1>8. \A u \in Used : Whole(u)' <=> Whole(u)
  BY <1>3, <1>5, <1>6 DEF Whole
<1>9. TypeOK'
  <2>1. heroes' \in [Used' -> Row] /\ pc' \in [Conn -> Stage]
    BY <1>4, <1>6 DEF InsertParts, Goto, IInv, TypeOK
  <2> QED
    BY <1>1, <1>4, <2>1 DEF IInv, TypeOK
<1>10. GrantInv'
  <2> SUFFICES ASSUME NEW d \in Conn
               PROVE  /\ pc'[d] # "idle" => wanted[d] \in Hero
                      /\ pc'[d] = "duplicate" => RowsOf(PlayerOf[d], wanted[d])' # {}
                      /\ pc'[d] = "insert" => uid[d] \in 1..(Cardinality(Used) + 1)
                      /\ Holds(d)' => /\ uid[d] \in RowsOf(PlayerOf[d], wanted[d])'
                                      /\ heroes'[uid[d]].parts = PartsAt(pc'[d])
    BY <1>1, <1>4 DEF GrantInv
  <2>1. CASE d = c
    <3>1. pc'[d] = "birthday" /\ wanted[c] \in Hero
      BY <1>2, <2>1 DEF IInv, GrantInv
    <3>2. k \in RowsOf(PlayerOf[c], wanted[c])' /\ heroes'[k].parts = PartsAt("birthday")
      BY <1>1, <1>3, <1>4, <1>6 DEF RowsOf, PartsAt
    <3> QED
      BY <2>1, <3>1, <3>2
  <2>2. CASE d # c
    <3>1. /\ pc[d] # "idle" => wanted[d] \in Hero
          /\ pc[d] = "duplicate" => RowsOf(PlayerOf[d], wanted[d]) # {}
          /\ pc[d] = "insert" => uid[d] \in 1..(Cardinality(Used) + 1)
          /\ Holds(d) => /\ uid[d] \in RowsOf(PlayerOf[d], wanted[d])
                         /\ heroes[uid[d]].parts = PartsAt(pc[d])
      BY DEF IInv, GrantInv
    <3>2. pc'[d] = pc[d] /\ (Holds(d)' <=> Holds(d))
      BY <1>2, <2>2 DEF Holds
    <3>3. Holds(d) => uid[d] # k /\ uid[d] \in Used
      BY <1>2, <2>2, <3>1 DEF IInv, HoldInv, Holds, RowsOf
    <3>4. RowsOf(PlayerOf[d], wanted[d])' = RowsOf(PlayerOf[d], wanted[d])
      BY <1>1, <1>4, <1>5, <1>6 DEF RowsOf
    <3> QED
      BY <1>5, <3>1, <3>2, <3>3, <3>4
  <2> QED
    BY <2>1, <2>2
<1>11. HoldInv'
  BY <1>1, <1>2 DEF IInv, HoldInv, Holds
<1>12. BirthdayInv'
  <2>1. \A u \in Used : heroes'[u].player = heroes[u].player /\ heroes'[u].hero = heroes[u].hero
    BY <1>5, <1>6
  <2>2. \A d \in Conn : RowsOf(PlayerOf[d], wanted[d])' = RowsOf(PlayerOf[d], wanted[d])
    BY <1>1, <1>4, <2>1 DEF RowsOf
  <2>3. \A d \in Conn : \A u \in RowsOf(PlayerOf[d], wanted[d]) : Whole(u)' <=> Whole(u)
    BY <1>8 DEF RowsOf
  <2>4. \A d \in Conn : pc'[d] = "talents" <=> pc[d] = "talents"
    BY <1>2
  <2> QED
    BY <1>1, <1>4, <1>8, <2>1, <2>2, <2>3, <2>4 DEF IInv, BirthdayInv
<1>13. AnswerInv'
  <2> SUFFICES ASSUME NEW p \in Player, NEW h \in Hero
               PROVE  /\ answered[<<p, h>>] > 0 => RowsOf(p, h) # {}
                      /\ \A u \in Used : Oldest(u, p, h) =>
                            answered[<<p, h>>] <= heroes'[u].duplicates + (IF Answerable(p, h)' THEN 1 ELSE 0)
    BY <1>1, <1>4, <1>7 DEF AnswerInv, Oldest
  <2>1. Answerable(p, h)' <=> Answerable(p, h)
    BY <1>1, <1>2, <1>7, <1>8 DEF Answerable, RowsOf
  <2> QED
    BY <1>5, <1>6, <2>1 DEF IInv, AnswerInv
<1>14. CountInv'
  BY <1>1, <1>2, <1>4, <1>5, <1>6, <1>8, <1>9, CountKept DEF Settled, WholeOf
<1> QED
  BY <1>9, <1>10, <1>11, <1>12, <1>13, <1>14 DEF IInv

LEMMA InsertBirthdayInvariant ==
    ASSUME IInv, NEW c \in Conn, InsertBirthday(c)
    PROVE  IInv'
<1> DEFINE q == PlayerOf[c]
           g == wanted[c]
<1>1. UNCHANGED <<heroes, counted, wanted, uid, answered, asked>> /\ Used' = Used
  BY DEF InsertBirthday, Used
<1>2. /\ pc[c] = "birthday" /\ pc'[c] = "talents"
      /\ \A d \in Conn : d # c => pc'[d] = pc[d]
  BY DEF InsertBirthday, Goto, IInv, TypeOK
<1>3. <<q, g>> \notin birthdays /\ birthdays' = birthdays \cup {<<q, g>>}
  BY DEF InsertBirthday
<1>4. q \in Player /\ g \in Hero
  BY <1>2, RosterAssumption DEF IInv, GrantInv
<1>5. TypeOK'
  BY <1>1, <1>3, <1>4 DEF IInv, TypeOK, InsertBirthday, Goto
<1>6. GrantInv'
  BY <1>1, <1>2 DEF IInv, GrantInv, Holds, PartsAt, RowsOf
<1>7. HoldInv'
  BY <1>1, <1>2 DEF IInv, HoldInv, Holds
<1>8. BirthdayInv'
  <2>1. \A u \in Used : Whole(u)' => <<heroes[u].player, heroes[u].hero>> \in birthdays'
    BY <1>1, <1>3 DEF IInv, BirthdayInv, Whole
  <2>2. \A u, v \in Used :
          /\ Whole(u)' /\ Whole(v)'
          /\ heroes[u].player = heroes[v].player /\ heroes[u].hero = heroes[v].hero
          => u = v
    BY <1>1 DEF IInv, BirthdayInv, Whole
  <2>3. ASSUME NEW d \in Conn, pc'[d] = "talents"
        PROVE  /\ <<PlayerOf[d], wanted[d]>> \in birthdays'
               /\ \A u \in RowsOf(PlayerOf[d], wanted[d]) : ~Whole(u)
               /\ \A e \in Conn : pc'[e] = "talents" /\ PlayerOf[e] = PlayerOf[d]
                                     /\ wanted[e] = wanted[d] => e = d
    <3>1. CASE d = c
      <4>1. \A u \in RowsOf(q, g) : ~Whole(u)
        BY <1>3 DEF IInv, BirthdayInv, RowsOf
      <4>2. \A e \in Conn : e # c /\ pc[e] = "talents" => <<PlayerOf[e], wanted[e]>> \in birthdays
        BY DEF IInv, BirthdayInv
      <4> QED
        BY <1>2, <1>3, <3>1, <4>1, <4>2
    <3>2. CASE d # c
      <4>1. pc[d] = "talents"
        BY <1>2, <2>3, <3>2
      <4>2. /\ <<PlayerOf[d], wanted[d]>> \in birthdays
            /\ \A u \in RowsOf(PlayerOf[d], wanted[d]) : ~Whole(u)
            /\ \A e \in Conn : pc[e] = "talents" /\ PlayerOf[e] = PlayerOf[d]
                                  /\ wanted[e] = wanted[d] => e = d
        BY <4>1 DEF IInv, BirthdayInv
      <4> QED
        BY <1>2, <1>3, <4>2
    <3> QED
      BY <3>1, <3>2
  <2>4. \A d \in Conn : RowsOf(PlayerOf[d], wanted[d])' = RowsOf(PlayerOf[d], wanted[d])
    BY <1>1 DEF RowsOf
  <2>5. \A u : Whole(u)' <=> Whole(u)
    BY <1>1 DEF Whole
  <2> QED
    BY <1>1, <2>1, <2>2, <2>3, <2>4, <2>5 DEF BirthdayInv
<1>9. AnswerInv'
  <2>1. \A p \in Player, h \in Hero : RowsOf(p, h)' = RowsOf(p, h)
    BY <1>1 DEF RowsOf
  <2>2. \A p \in Player, h \in Hero : Answerable(p, h)' <=> Answerable(p, h)
    BY <1>1, <1>2, <2>1 DEF Answerable, Whole
  <2> QED
    BY <1>1, <2>1, <2>2 DEF IInv, AnswerInv, Oldest
<1>10. CountInv'
  BY <1>1, <1>2, <1>5, CountKept DEF Settled, WholeOf, Whole
<1> QED
  BY <1>5, <1>6, <1>7, <1>8, <1>9, <1>10 DEF IInv

LEMMA InsertTalentsInvariant ==
    ASSUME IInv, NEW c \in Conn, InsertTalents(c)
    PROVE  IInv'
<1> DEFINE k == uid[c]
           q == PlayerOf[c]
           g == wanted[c]
<1>1. UNCHANGED <<birthdays, counted, wanted, uid, answered, asked>>
  BY DEF InsertTalents
<1>2. /\ pc[c] = "talents" /\ pc'[c] = "count"
      /\ \A d \in Conn : d # c => pc'[d] = pc[d]
  BY DEF InsertTalents, Goto, IInv, TypeOK
<1>3. /\ k \in RowsOf(q, g) /\ k \in Used /\ heroes[k].parts = "skills"
      /\ heroes[k].player = q /\ heroes[k].hero = g /\ q \in Player /\ g \in Hero
  BY <1>2, RosterAssumption DEF IInv, GrantInv, Holds, PartsAt, RowsOf
<1>4. Used' = Used /\ \A u \in Used : heroes[u] \in Row
  BY DEF InsertTalents, Used, IInv, TypeOK
<1>5. (\A u \in Used : u # k => heroes'[u] = heroes[u])
      /\ heroes'[k] = [heroes[k] EXCEPT !.parts = "talents"]
  BY <1>3 DEF InsertTalents, IInv, TypeOK
<1>6. /\ heroes'[k] \in Row /\ heroes'[k].parts = "talents"
      /\ heroes'[k].player = heroes[k].player /\ heroes'[k].hero = heroes[k].hero
      /\ heroes'[k].duplicates = heroes[k].duplicates
  BY <1>3, <1>4, <1>5 DEF Row
<1>7. \A u \in Used : heroes'[u].player = heroes[u].player /\ heroes'[u].hero = heroes[u].hero
  BY <1>5, <1>6
<1>8. \A p \in Player, h \in Hero : RowsOf(p, h)' = RowsOf(p, h)
  BY <1>4, <1>7 DEF RowsOf
<1>9. ~Whole(k) /\ Whole(k)' /\ \A u \in Used : u # k => (Whole(u)' <=> Whole(u))
  BY <1>1, <1>3, <1>5, <1>6 DEF Whole
<1>10. /\ <<q, g>> \in birthdays
       /\ \A u \in RowsOf(q, g) : ~Whole(u)
       /\ \A d \in Conn : pc[d] = "talents" /\ PlayerOf[d] = q /\ wanted[d] = g => d = c
  BY <1>2 DEF IInv, BirthdayInv
<1>11. TypeOK'
  <2>1. heroes' \in [Used' -> Row] /\ pc' \in [Conn -> Stage]
    BY <1>4, <1>6 DEF InsertTalents, Goto, IInv, TypeOK
  <2> QED
    BY <1>1, <1>4, <2>1 DEF IInv, TypeOK
<1>12. GrantInv'
  <2> SUFFICES ASSUME NEW d \in Conn
               PROVE  /\ pc'[d] # "idle" => wanted[d] \in Hero
                      /\ pc'[d] = "duplicate" => RowsOf(PlayerOf[d], wanted[d])' # {}
                      /\ pc'[d] = "insert" => uid[d] \in 1..(Cardinality(Used) + 1)
                      /\ Holds(d)' => /\ uid[d] \in RowsOf(PlayerOf[d], wanted[d])'
                                      /\ heroes'[uid[d]].parts = PartsAt(pc'[d])
    BY <1>1, <1>4 DEF GrantInv
  <2>1. CASE d = c
    <3>1. k \in RowsOf(q, g)' /\ heroes'[k].parts = PartsAt("count")
      BY <1>1, <1>3, <1>4, <1>6 DEF RowsOf, PartsAt
    <3> QED
      BY <1>2, <1>3, <2>1, <3>1
  <2>2. CASE d # c
    <3>1. /\ pc[d] # "idle" => wanted[d] \in Hero
          /\ pc[d] = "duplicate" => RowsOf(PlayerOf[d], wanted[d]) # {}
          /\ pc[d] = "insert" => uid[d] \in 1..(Cardinality(Used) + 1)
          /\ Holds(d) => /\ uid[d] \in RowsOf(PlayerOf[d], wanted[d])
                         /\ heroes[uid[d]].parts = PartsAt(pc[d])
      BY DEF IInv, GrantInv
    <3>2. pc'[d] = pc[d] /\ (Holds(d)' <=> Holds(d))
      BY <1>2, <2>2 DEF Holds
    <3>3. Holds(d) => uid[d] # k /\ uid[d] \in Used
      BY <1>2, <2>2, <3>1 DEF IInv, HoldInv, Holds, RowsOf
    <3>4. RowsOf(PlayerOf[d], wanted[d])' = RowsOf(PlayerOf[d], wanted[d])
      BY <1>1, <1>4, <1>7 DEF RowsOf
    <3> QED
      BY <1>5, <3>1, <3>2, <3>3, <3>4
  <2> QED
    BY <2>1, <2>2
<1>13. HoldInv'
  BY <1>1, <1>2 DEF IInv, HoldInv, Holds
<1>14. BirthdayInv'
  <2>1. \A u \in Used : Whole(u)' => <<heroes[u].player, heroes[u].hero>> \in birthdays
    BY <1>3, <1>9, <1>10 DEF IInv, BirthdayInv
  <2>2. ASSUME NEW u \in Used, NEW v \in Used, Whole(u)', Whole(v)',
               heroes[u].player = heroes[v].player, heroes[u].hero = heroes[v].hero
        PROVE  u = v
    <3>1. CASE u # k /\ v # k
      BY <1>9, <2>2, <3>1 DEF IInv, BirthdayInv
    <3>2. CASE u = k \/ v = k
      BY <1>3, <1>9, <1>10, <2>2, <3>2 DEF RowsOf
    <3> QED
      BY <3>1, <3>2
  <2>3. ASSUME NEW d \in Conn, pc'[d] = "talents"
        PROVE  /\ <<PlayerOf[d], wanted[d]>> \in birthdays
               /\ \A u \in RowsOf(PlayerOf[d], wanted[d]) : ~Whole(u)'
               /\ \A e \in Conn : pc'[e] = "talents" /\ PlayerOf[e] = PlayerOf[d]
                                     /\ wanted[e] = wanted[d] => e = d
    <3>1. d # c /\ pc[d] = "talents"
      BY <1>2, <2>3
    <3>2. /\ <<PlayerOf[d], wanted[d]>> \in birthdays
          /\ \A u \in RowsOf(PlayerOf[d], wanted[d]) : ~Whole(u)
          /\ \A e \in Conn : pc[e] = "talents" /\ PlayerOf[e] = PlayerOf[d]
                                /\ wanted[e] = wanted[d] => e = d
      BY <3>1 DEF IInv, BirthdayInv
    <3>3. k \notin RowsOf(PlayerOf[d], wanted[d])
      BY <1>3, <1>10, <3>1 DEF RowsOf
    <3>4. \A u \in RowsOf(PlayerOf[d], wanted[d]) : ~Whole(u)'
      BY <1>9, <3>2, <3>3 DEF RowsOf
    <3> QED
      BY <1>2, <3>2, <3>4
  <2>4. \A d \in Conn : RowsOf(PlayerOf[d], wanted[d])' = RowsOf(PlayerOf[d], wanted[d])
    BY <1>1, <1>4, <1>7 DEF RowsOf
  <2> QED
    BY <1>1, <1>4, <1>7, <2>1, <2>2, <2>3, <2>4 DEF BirthdayInv
<1>15. AnswerInv'
  <2> SUFFICES ASSUME NEW p \in Player, NEW h \in Hero
               PROVE  /\ answered[<<p, h>>] > 0 => RowsOf(p, h) # {}
                      /\ \A u \in Used : Oldest(u, p, h) =>
                            answered[<<p, h>>] <= heroes'[u].duplicates + (IF Answerable(p, h)' THEN 1 ELSE 0)
    BY <1>1, <1>4, <1>8 DEF AnswerInv, Oldest
  <2>1. Answerable(p, h) => Answerable(p, h)'
    <3>1. CASE p = q /\ h = g
      BY <1>10, <3>1 DEF Answerable
    <3>2. CASE ~(p = q /\ h = g)
      <4>1. k \notin RowsOf(p, h)
        BY <1>3, <3>2 DEF RowsOf
      <4> QED
        BY <1>1, <1>2, <1>8, <1>9, <3>2, <4>1 DEF Answerable, RowsOf
    <3> QED
      BY <3>1, <3>2
  <2>2. answered[<<p, h>>] \in Nat /\ \A u \in Used : heroes[u].duplicates \in Nat
    BY <1>4 DEF IInv, TypeOK, Row
  <2>3. /\ answered[<<p, h>>] > 0 => RowsOf(p, h) # {}
        /\ \A u \in Used : Oldest(u, p, h) =>
              answered[<<p, h>>] <= heroes[u].duplicates + (IF Answerable(p, h) THEN 1 ELSE 0)
    BY DEF IInv, AnswerInv
  <2>4. \A u \in Used : heroes'[u].duplicates = heroes[u].duplicates
    BY <1>5, <1>6
  <2> QED
    BY <2>1, <2>2, <2>3, <2>4
<1>16. CountInv'
  <2>1. \A p \in Player : Settled(p) \subseteq Settled(p)'
    BY <1>1, <1>2, <1>4, <1>7, <1>9 DEF Settled, WholeOf
  <2> QED
    BY <1>1, <1>11, <2>1, CountKept
<1> QED
  BY <1>11, <1>12, <1>13, <1>14, <1>15, <1>16 DEF IInv

LEMMA CountHeroInvariant ==
    ASSUME IInv, NEW c \in Conn, CountHero(c)
    PROVE  IInv'
<1> DEFINE k == uid[c]
           q == PlayerOf[c]
           g == wanted[c]
<1>1. UNCHANGED <<heroes, birthdays, asked>> /\ Used' = Used
  BY DEF CountHero, Used
<1>2. /\ pc[c] = "count" /\ pc'[c] = "idle"
      /\ \A d \in Conn : d # c => pc'[d] = pc[d] /\ uid'[d] = uid[d] /\ wanted'[d] = wanted[d]
  BY DEF CountHero, Granted, Return, Goto, IInv, TypeOK
<1>3. /\ k \in RowsOf(q, g) /\ Whole(k) /\ k \in Used
      /\ heroes[k].player = q /\ heroes[k].hero = g /\ q \in Player /\ g \in Hero
  BY <1>2, RosterAssumption DEF IInv, GrantInv, Holds, PartsAt, RowsOf, Whole
<1>4. /\ answered' \in [Player \X Hero -> Nat]
      /\ answered'[<<q, g>>] = answered[<<q, g>>] + 1
      /\ \A x \in Player \X Hero : x # <<q, g>> => answered'[x] = answered[x]
  BY <1>3 DEF CountHero, Granted, IInv, TypeOK
<1>5. /\ counted' \in [Player -> Nat] /\ counted'[q] = counted[q] + 1
      /\ \A p \in Player : p # q => counted'[p] = counted[p]
  BY <1>3 DEF CountHero, IInv, TypeOK
<1>6. \A d \in Conn : d # c /\ pc[d] = "count" => uid[d] # k
  BY <1>2 DEF IInv, HoldInv, Holds
<1>7. TypeOK'
  <2>1. pc' \in [Conn -> Stage] /\ wanted' \in [Conn -> Hero \cup {None}]
        /\ uid' \in [Conn -> Uid \cup {None}]
    BY DEF CountHero, Granted, Return, Goto, IInv, TypeOK
  <2> QED
    BY <1>1, <1>4, <1>5, <2>1 DEF IInv, TypeOK
<1>8. GrantInv'
  BY <1>1, <1>2 DEF IInv, GrantInv, Holds, PartsAt, RowsOf
<1>9. HoldInv'
  BY <1>2 DEF IInv, HoldInv, Holds
<1>10. BirthdayInv'
  BY <1>1, <1>2 DEF IInv, BirthdayInv, Whole, RowsOf
<1>11. AnswerInv'
  <2>0. \A p, h : RowsOf(p, h)' = RowsOf(p, h) /\ \A u : Oldest(u, p, h)' <=> Oldest(u, p, h)
    BY <1>1 DEF Oldest, RowsOf
  <2> SUFFICES ASSUME NEW p \in Player, NEW h \in Hero
               PROVE  /\ answered'[<<p, h>>] > 0 => RowsOf(p, h) # {}
                      /\ \A u \in Used : Oldest(u, p, h) =>
                            answered'[<<p, h>>] <= heroes[u].duplicates + (IF Answerable(p, h)' THEN 1 ELSE 0)
    BY <1>1, <2>0 DEF AnswerInv
  <2>1. answered[<<p, h>>] \in Nat /\ \A u \in Used : heroes[u].duplicates \in Nat
    BY DEF IInv, TypeOK, Row
  <2>2. /\ answered[<<p, h>>] > 0 => RowsOf(p, h) # {}
        /\ \A u \in Used : Oldest(u, p, h) =>
              answered[<<p, h>>] <= heroes[u].duplicates + (IF Answerable(p, h) THEN 1 ELSE 0)
    BY DEF IInv, AnswerInv
  <2>3. CASE p = q /\ h = g
    <3>1. ~Answerable(p, h)
      BY <1>2, <2>3 DEF Answerable
    <3>2. \A d \in Conn : ~(pc'[d] = "count" /\ PlayerOf[d] = p /\ wanted'[d] = h)
      <4> SUFFICES ASSUME NEW d \in Conn, d # c, pc[d] = "count", PlayerOf[d] = q, wanted[d] = g
                   PROVE  FALSE
        BY <1>2, <2>3
      <4>1. uid[d] \in Used /\ Whole(uid[d]) /\ heroes[uid[d]].player = q /\ heroes[uid[d]].hero = g
        BY DEF IInv, GrantInv, Holds, PartsAt, RowsOf, Whole
      <4>2. uid[d] = k
        BY <1>3, <4>1 DEF IInv, BirthdayInv
      <4> QED
        BY <1>6, <4>2
    <3>3. Answerable(p, h)'
      BY <1>1, <1>3, <2>3, <3>2 DEF Answerable, RowsOf, Whole
    <3> QED
      BY <1>3, <1>4, <2>1, <2>2, <2>3, <3>1, <3>3
  <2>4. CASE ~(p = q /\ h = g)
    <3>1. answered'[<<p, h>>] = answered[<<p, h>>]
      BY <1>4, <2>4
    <3>2. Answerable(p, h) => Answerable(p, h)'
      BY <1>1, <1>2 DEF Answerable, RowsOf, Whole
    <3> QED
      BY <2>1, <2>2, <3>1, <3>2
  <2> QED
    BY <2>3, <2>4
<1>12. CountInv'
  <2> SUFFICES ASSUME NEW p \in Player PROVE counted'[p] <= Cardinality(Settled(p)')
    BY DEF CountInv
  <2>1. Settled(p) \subseteq Settled(p)'
    BY <1>1, <1>2 DEF Settled, WholeOf, Whole
  <2>2. /\ counted[p] \in Nat /\ counted[p] <= Cardinality(Settled(p))
        /\ Cardinality(Settled(p)) \in Nat /\ IsFiniteSet(Settled(p))
    BY SettledFinite DEF IInv, CountInv, TypeOK
  <2>3. IsFiniteSet(Settled(p)') /\ Cardinality(Settled(p)') \in Nat
    BY <1>7, SettledFiniteNext
  <2>4. CASE p = q
    <3>1. k \in Settled(p)' /\ k \notin Settled(p)
      BY <1>1, <1>2, <1>3, <1>6, <2>4 DEF Settled, WholeOf, Whole
    <3>2. Cardinality(Settled(p) \cup {k}) = Cardinality(Settled(p)) + 1
      BY <2>2, <3>1, FS_AddElement
    <3>3. Cardinality(Settled(p) \cup {k}) <= Cardinality(Settled(p)')
      BY <2>1, <2>3, <3>1, FS_Subset
    <3> QED
      BY <1>5, <2>2, <2>3, <2>4, <3>2, <3>3
  <2>5. CASE p # q
    <3>1. Cardinality(Settled(p)) <= Cardinality(Settled(p)')
      BY <2>1, <2>3, FS_Subset
    <3> QED
      BY <1>5, <2>2, <2>3, <2>5, <3>1
  <2> QED
    BY <2>4, <2>5
<1> QED
  BY <1>7, <1>8, <1>9, <1>10, <1>11, <1>12 DEF IInv

-----------------------------------------------------------------------------
(* The theorems.                                                           *)

\* Every reachable state satisfies the inductive invariant.
THEOREM Invariance == Spec => []IInv
<1>1. IInv /\ [Next]_vars => IInv'
  <2> SUFFICES ASSUME IInv, [Next]_vars PROVE IInv'
    OBVIOUS
  <2>1. ASSUME NEW c \in Conn, Step(c) PROVE IInv'
    BY <2>1, HasHeroInvariant, AddDuplicateInvariant, TakeUidInvariant, InsertHeroInvariant,
       InsertPartsInvariant, InsertBirthdayInvariant, InsertTalentsInvariant,
       CountHeroInvariant, FailInvariant DEF Step
  <2>2. ASSUME NEW c \in Conn, NEW h \in Hero, Grant(c, h) PROVE IInv'
    BY <2>2, GrantInvariant
  <2> QED
    BY <2>1, <2>2, CrashInvariant, StutterInvariant DEF Next
<1> QED
  BY <1>1, InitIInv, PTL DEF Spec

\* Every variable keeps its type, and no uid is ever left out.
THEOREM TypeCorrect == Spec => []TypeOK
<1>1. IInv => TypeOK
  BY DEF IInv
<1> QED
  BY <1>1, Invariance, PTL

\* Grants on any number of connections complete one row of a hero at most: the
\* unique birthday decides whose.
THEOREM OneHeroWhole == Spec => []OneWholeHero
<1>1. IInv => OneWholeHero
  <2> SUFFICES ASSUME IInv, NEW p \in Player, NEW h \in Hero
               PROVE  Cardinality({u \in RowsOf(p, h) : heroes[u].parts = "talents"}) <= 1
    BY DEF OneWholeHero
  <2> DEFINE W == {u \in RowsOf(p, h) : heroes[u].parts = "talents"}
  <2>1. \A u, v \in W : u = v
    BY DEF IInv, BirthdayInv, RowsOf, Whole
  <2>2. W = {} \/ \E u : W = {u}
    BY <2>1
  <2>3. Cardinality(W) = 0 \/ Cardinality(W) = 1
    BY <2>2, FS_EmptySet, FS_Singleton
  <2> QED
    BY <2>3
<1> QED
  BY <1>1, Invariance, PTL

\* No grant that was answered is lost from the row the game reads, whatever other
\* grants of the hero were interrupted.
THEOREM AnswersKept == Spec => []GrantsKept
<1>1. IInv => GrantsKept
  <2> SUFFICES ASSUME IInv, NEW p \in Player, NEW h \in Hero, answered[<<p, h>>] > 0
               PROVE  /\ RowsOf(p, h) # {}
                      /\ answered[<<p, h>>] <= heroes[Min(RowsOf(p, h))].duplicates + 1
    BY DEF GrantsKept
  <2>1. RowsOf(p, h) # {} /\ RowsOf(p, h) \subseteq Nat
    <3>1. Used \subseteq Nat
      BY UsedCount DEF IInv, TypeOK
    <3>2. RowsOf(p, h) # {}
      BY DEF IInv, AnswerInv
    <3> QED
      BY <3>1, <3>2 DEF RowsOf
  <2>2. PICK m \in RowsOf(p, h) : \A v \in RowsOf(p, h) : m <= v
    BY <2>1, NatLeast
  <2>3. Oldest(Min(RowsOf(p, h)), p, h)
    BY <2>2 DEF Min, Oldest
  <2>4. Min(RowsOf(p, h)) \in Used /\ heroes[Min(RowsOf(p, h))].duplicates \in Nat
    BY <2>3 DEF Oldest, RowsOf, IInv, TypeOK, Row
  <2>5. answered[<<p, h>>] \in Nat
    BY DEF IInv, TypeOK
  <2> QED
    BY <2>1, <2>3, <2>4, <2>5 DEF IInv, AnswerInv
<1> QED
  BY <1>1, Invariance, PTL

\* The count on the player's card never runs ahead of the heroes that are whole.
THEOREM CountsBehind == Spec => []CountNotAhead
<1>1. IInv => CountNotAhead
  <2> SUFFICES ASSUME IInv, NEW p \in Player
               PROVE  counted[p] <= Cardinality({u \in Used : heroes[u].player = p /\ heroes[u].parts = "talents"})
    BY DEF CountNotAhead
  <2> DEFINE W == {u \in Used : heroes[u].player = p /\ heroes[u].parts = "talents"}
  <2>1. IsFiniteSet(W) /\ Cardinality(W) \in Nat
    BY UsedCount, FS_Subset, FS_CardinalityType DEF IInv
  <2>2. Settled(p) \subseteq W
    BY DEF Settled, WholeOf, Whole
  <2>3. Cardinality(Settled(p)) <= Cardinality(W) /\ Cardinality(Settled(p)) \in Nat
    BY <2>1, <2>2, FS_Subset, SettledFinite DEF IInv
  <2>4. counted[p] \in Nat /\ counted[p] <= Cardinality(Settled(p))
    BY DEF IInv, CountInv, TypeOK
  <2> QED
    BY <2>1, <2>3, <2>4
<1> QED
  BY <1>1, Invariance, PTL

\* A hero row never changes hands, never becomes another hero and never loses
\* duplicates or what completes it, whichever connections race for its uid.
THEOREM RowsStay == Spec => RowsKept
<1> DEFINE Kept(u) ==
      /\ u \in Used'
      /\ heroes'[u].player = heroes[u].player /\ heroes'[u].hero = heroes[u].hero
      /\ heroes'[u].duplicates >= heroes[u].duplicates
      /\ heroes[u].parts = "talents" => heroes'[u].parts = "talents"
<1>1. IInv /\ [Next]_vars => [\A u \in Used : Kept(u)]_vars
  <2> SUFFICES ASSUME IInv, Next, NEW u \in Used PROVE Kept(u)
    OBVIOUS
  <2>1. heroes[u] \in Row /\ heroes[u].duplicates \in Nat
    BY DEF IInv, TypeOK, Row
  <2>2. CASE heroes' = heroes
    BY <2>1, <2>2 DEF Used
  <2>3. ASSUME NEW c \in Conn, AddDuplicate(c) PROVE Kept(u)
    <3>1. Used' = Used
      BY <2>3 DEF AddDuplicate, Used
    <3>2. heroes'[u] = heroes[u] \/ heroes'[u] = [heroes[u] EXCEPT !.duplicates = @ + 1]
      BY <2>3 DEF AddDuplicate
    <3> QED
      BY <2>1, <3>1, <3>2 DEF Row
  <2>4. ASSUME NEW c \in Conn, InsertHero(c) PROVE Kept(u)
    <3>1. Used' = Used \cup {uid[c]}
      BY <2>4 DEF InsertHero, WithRow, Used
    <3>2. heroes'[u] = heroes[u]
      BY <2>4 DEF InsertHero, WithRow
    <3> QED
      BY <2>1, <3>1, <3>2
  <2>5. ASSUME NEW c \in Conn, InsertParts(c) \/ InsertTalents(c) PROVE Kept(u)
    <3>1. Used' = Used
      BY <2>5 DEF InsertParts, InsertTalents, Used
    <3>2. uid[c] = u => heroes[u].parts # "talents"
      BY <2>5 DEF InsertParts, InsertTalents, IInv, GrantInv, Holds, PartsAt
    <3>3. \/ heroes'[u] = heroes[u]
          \/ uid[c] = u /\ \E x \in {"skills", "talents"} : heroes'[u] = [heroes[u] EXCEPT !.parts = x]
      BY <2>5 DEF InsertParts, InsertTalents, IInv, TypeOK
    <3> QED
      BY <2>1, <3>1, <3>2, <3>3 DEF Row
  <2> QED
    BY <2>2, <2>3, <2>4, <2>5
       DEF Next, Step, Crash, Grant, HasHero, TakeUid, InsertBirthday, CountHero, Fail
<1> QED
  BY <1>1, Invariance, PTL DEF Spec, RowsKept
=============================================================================
