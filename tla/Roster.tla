-------------------------------- MODULE Roster --------------------------------
(***************************************************************************)
(* Heroes of all accounts: has_hero, add_hero_duplicate and create_hero    *)
(* (models/game/heros.rs), which mails, summons, purchases, rewards and    *)
(* consumables call to grant a hero.  None of them runs in a transaction,  *)
(* so grants of several connections interleave between statements, and one *)
(* that fails leaves what it has written.                                  *)
(***************************************************************************)
EXTENDS Integers, FiniteSets, FiniteSetsExt

CONSTANTS
    Player, Hero,
    Conn,          \* connections to the game server
    PlayerOf,      \* PlayerOf[c]: the player logged in on c
    None,
    StarterOf,     \* the players whose starter data was loaded, at most one
    MaxGrants      \* bound: grants of heroes asked for

ASSUME RosterAssumption ==
    /\ PlayerOf \in [Conn -> Player]
    /\ IsFiniteSet(Player) /\ IsFiniteSet(Hero)
    /\ StarterOf \subseteq Player /\ Cardinality(StarterOf) <= 1
    /\ MaxGrants \in Nat

\* uids are counted from 20000001 in the code.
Uid == Nat \ {0}

\* What tells rows of heroes apart; parts: the tables below it that are filled.
Row == [player : Player, hero : Hero, duplicates : Nat, parts : {"none", "skills", "talents"}]

VARIABLES
    heroes,     \* heroes[u]: the row with uid u
    birthdays,  \* rows of hero_birthday_info
    counted,    \* counted[p]: the sum of player_info's hero_rare_*_count
    pc,         \* pc[c]: the next statement of c's grant
    wanted,     \* wanted[c]: the hero it grants
    uid,        \* uid[c]: the uid it chose
    answered,   \* history: how often a hero was granted to a player, to the end
    asked       \* history: grants so far

vars == <<heroes, birthdays, counted, pc, wanted, uid, answered, asked>>

Stage == {"idle", "has", "duplicate", "takeUid", "insert", "parts", "birthday", "talents", "count"}

Used == DOMAIN heroes

\* No uid is ever left out.
TypeOK ==
    /\ heroes \in [Used -> Row]
    /\ IsFiniteSet(Used) /\ Used = 1..Cardinality(Used)
    /\ birthdays \subseteq Player \X Hero
    /\ counted \in [Player -> Nat]
    /\ pc \in [Conn -> Stage]
    /\ wanted \in [Conn -> Hero \cup {None}]
    /\ uid \in [Conn -> Uid \cup {None}]
    /\ answered \in [Player \X Hero -> Nat]
    /\ asked \in 0..MaxGrants

RowsOf(p, h) == {u \in Used : heroes[u].player = p /\ heroes[u].hero = h}

\* An order in which the starter data inserts the heroes.
Order == {f \in [1..Cardinality(Hero) -> Hero] : \A h \in Hero : \E i \in DOMAIN f : f[i] = h}

\* load_hero_list: one whole row per hero, with consecutive uids, and its
\* birthday.
Init ==
    /\ \E order \in Order :
          heroes = [u \in 1..(Cardinality(StarterOf) * Cardinality(Hero)) |->
                      [player |-> CHOOSE p \in StarterOf : TRUE, hero |-> order[u],
                       duplicates |-> 0, parts |-> "talents"]]
    /\ birthdays = StarterOf \X Hero
    /\ counted = [p \in Player |-> IF p \in StarterOf THEN Cardinality(Hero) ELSE 0]
    /\ pc = [c \in Conn |-> "idle"]
    /\ wanted = [c \in Conn |-> None]
    /\ uid = [c \in Conn |-> None]
    /\ answered = [g \in Player \X Hero |-> IF g[1] \in StarterOf THEN 1 ELSE 0]
    /\ asked = 0

-----------------------------------------------------------------------------
Goto(c, stage) == pc' = [pc EXCEPT ![c] = stage]

\* The handler is over: its local variables are gone.
Return(c) ==
    /\ Goto(c, "idle")
    /\ wanted' = [wanted EXCEPT ![c] = None]
    /\ uid' = [uid EXCEPT ![c] = None]

\* The hero is granted, and the handler goes on to its answer.
Granted(c) ==
    /\ Return(c)
    /\ answered' = [answered EXCEPT ![<<PlayerOf[c], wanted[c]>>] = @ + 1]

\* A handler that has charged or claimed what the hero is granted for.
Grant(c, h) ==
    /\ pc[c] = "idle"
    /\ asked < MaxGrants
    /\ asked' = asked + 1
    /\ wanted' = [wanted EXCEPT ![c] = h]
    /\ Goto(c, "has")
    /\ UNCHANGED <<heroes, birthdays, counted, uid, answered>>

\* has_hero
HasHero(c) ==
    /\ pc[c] = "has"
    /\ Goto(c, IF RowsOf(PlayerOf[c], wanted[c]) # {} THEN "duplicate" ELSE "takeUid")
    /\ UNCHANGED <<heroes, birthdays, counted, wanted, uid, answered, asked>>

\* Mutant of AddDuplicate: the newest row counts.
AddToNewest(c) ==
    /\ pc[c] = "duplicate"
    /\ heroes' = [heroes EXCEPT ![Max(RowsOf(PlayerOf[c], wanted[c]))].duplicates = @ + 1]
    /\ Granted(c)
    /\ UNCHANGED <<birthdays, counted, asked>>

\* hero_duplicate counts in every row of the hero.
AddDuplicate(c) ==
    /\ pc[c] = "duplicate"
    /\ heroes' = [u \in Used |-> IF u \in RowsOf(PlayerOf[c], wanted[c])
                                THEN [heroes[u] EXCEPT !.duplicates = @ + 1]
                                ELSE heroes[u]]
    /\ Granted(c)
    /\ UNCHANGED <<birthdays, counted, asked>>

-----------------------------------------------------------------------------
(* create_hero, statement by statement.                                    *)

\* The uid after the largest of all players.
NextUid == IF Used = {} THEN 1 ELSE Max(Used) + 1

TakeUid(c) ==
    /\ pc[c] = "takeUid"
    /\ uid' = [uid EXCEPT ![c] = NextUid]
    /\ Goto(c, "insert")
    /\ UNCHANGED <<heroes, birthdays, counted, wanted, answered, asked>>

WithRow(u, row) == [v \in Used \cup {u} |-> IF v = u THEN row ELSE heroes[v]]

NewRow(c) == [player |-> PlayerOf[c], hero |-> wanted[c], duplicates |-> 0, parts |-> "none"]

\* Mutant of InsertHero: INSERT OR REPLACE.
InsertOrReplaceHero(c) ==
    /\ pc[c] = "insert"
    /\ heroes' = WithRow(uid[c], NewRow(c))
    /\ Goto(c, "parts")
    /\ UNCHANGED <<birthdays, counted, wanted, uid, answered, asked>>

\* The row, if no other grant took the uid.
InsertHero(c) ==
    /\ pc[c] = "insert"
    /\ uid[c] \notin Used
    /\ heroes' = WithRow(uid[c], NewRow(c))
    /\ Goto(c, "parts")
    /\ UNCHANGED <<birthdays, counted, wanted, uid, answered, asked>>

\* Its passive skills, voices, item unlocks and special attributes, row by row.
InsertParts(c) ==
    /\ pc[c] = "parts"
    /\ heroes' = [heroes EXCEPT ![uid[c]].parts = "skills"]
    /\ Goto(c, "birthday")
    /\ UNCHANGED <<birthdays, counted, wanted, uid, answered, asked>>

\* Mutant of InsertBirthday: INSERT OR IGNORE.
InsertOrIgnoreBirthday(c) ==
    /\ pc[c] = "birthday"
    /\ birthdays' = birthdays \cup {<<PlayerOf[c], wanted[c]>>}
    /\ Goto(c, "talents")
    /\ UNCHANGED <<heroes, counted, wanted, uid, answered, asked>>

\* Unique per player and hero, so a second creation ends here.
InsertBirthday(c) ==
    /\ pc[c] = "birthday"
    /\ <<PlayerOf[c], wanted[c]>> \notin birthdays
    /\ birthdays' = birthdays \cup {<<PlayerOf[c], wanted[c]>>}
    /\ Goto(c, "talents")
    /\ UNCHANGED <<heroes, counted, wanted, uid, answered, asked>>

\* Mutant of InsertTalents: the hero is counted by itself, before it is complete.
CountEarly(c) ==
    /\ pc[c] = "talents"
    /\ counted' = [counted EXCEPT ![PlayerOf[c]] = @ + 1]
    /\ Goto(c, "count")
    /\ UNCHANGED <<heroes, birthdays, wanted, uid, answered, asked>>

\* Its talent cubes and templates, row by row.
InsertTalents(c) ==
    /\ pc[c] = "talents"
    /\ heroes' = [heroes EXCEPT ![uid[c]].parts = "talents"]
    /\ Goto(c, "count")
    /\ UNCHANGED <<birthdays, counted, wanted, uid, answered, asked>>

\* hero_count
CountHero(c) ==
    /\ pc[c] = "count"
    /\ counted' = [counted EXCEPT ![PlayerOf[c]] = @ + 1]
    /\ Granted(c)
    /\ UNCHANGED <<heroes, birthdays, asked>>

\* A statement fails, because of what it inserts or otherwise, or the client is
\* gone: the connection ends, and the client comes back.
Fail(c) ==
    /\ pc[c] # "idle"
    /\ Return(c)
    /\ UNCHANGED <<heroes, birthdays, counted, answered, asked>>

\* The process stops.
Crash ==
    /\ pc' = [c \in Conn |-> "idle"]
    /\ wanted' = [c \in Conn |-> None]
    /\ uid' = [c \in Conn |-> None]
    /\ UNCHANGED <<heroes, birthdays, counted, answered, asked>>

Step(c) ==
    \/ HasHero(c) \/ AddDuplicate(c)
    \/ TakeUid(c) \/ InsertHero(c) \/ InsertParts(c)
    \/ InsertBirthday(c) \/ InsertTalents(c) \/ CountHero(c)
    \/ Fail(c)

Next ==
    \/ \E c \in Conn : Step(c) \/ \E h \in Hero : Grant(c, h)
    \/ Crash

Spec == Init /\ [][Next]_vars

-----------------------------------------------------------------------------
(* Properties.                                                             *)

\* A hero row stays with its player and stays the hero it is, however grants of
\* all players race for the next uid, and its duplicates and parts never shrink.
RowsKept ==
    [][\A u \in Used :
          /\ u \in Used'
          /\ heroes'[u].player = heroes[u].player /\ heroes'[u].hero = heroes[u].hero
          /\ heroes'[u].duplicates >= heroes[u].duplicates
          /\ heroes[u].parts = "talents" => heroes'[u].parts = "talents"]_vars

\* heroes has no key on player and hero, so grants on two connections may both
\* find the hero missing and insert it; still only one of the rows is completed.
OneWholeHero ==
    \A p \in Player, h \in Hero :
        Cardinality({u \in RowsOf(p, h) : heroes[u].parts = "talents"}) <= 1

\* What was granted to the end is in the row the game reads, the oldest: the hero
\* itself, and one duplicate for each further grant, whatever other grants of the
\* hero failed half-way.
GrantsKept ==
    \A p \in Player, h \in Hero :
        answered[<<p, h>>] > 0 =>
            /\ RowsOf(p, h) # {}
            /\ answered[<<p, h>>] <= heroes[Min(RowsOf(p, h))].duplicates + 1

\* The collection count shown on the player's card never exceeds the heroes that
\* are complete.
CountNotAhead ==
    \A p \in Player :
        counted[p] <= Cardinality({u \in Used : heroes[u].player = p /\ heroes[u].parts = "talents"})

-----------------------------------------------------------------------------
(* The inductive invariant: what each stage of a grant knows of the rows,  *)
(* and how rows, birthdays, answers and counts hang together.              *)

Whole(u) == heroes[u].parts = "talents"
WholeOf(p) == {u \in Used : heroes[u].player = p /\ Whole(u)}

\* A grant that has inserted its row holds it until it ends.
Holds(c) == pc[c] \in {"parts", "birthday", "talents", "count"}

PartsAt(stage) ==
    CASE stage = "parts" -> "none"
      [] stage = "count" -> "talents"
      [] OTHER -> "skills"

GrantInv ==
    \A c \in Conn :
        /\ pc[c] # "idle" => wanted[c] \in Hero
        /\ pc[c] = "duplicate" => RowsOf(PlayerOf[c], wanted[c]) # {}
        /\ pc[c] = "insert" => uid[c] \in 1..(Cardinality(Used) + 1)
        /\ Holds(c) => /\ uid[c] \in RowsOf(PlayerOf[c], wanted[c])
                       /\ heroes[uid[c]].parts = PartsAt(pc[c])

HoldInv == \A c, d \in Conn : Holds(c) /\ Holds(d) /\ uid[c] = uid[d] => c = d

\* The birthday comes before the talents, and decides whose row is completed.
BirthdayInv ==
    /\ \A u \in Used : Whole(u) => <<heroes[u].player, heroes[u].hero>> \in birthdays
    /\ \A u, v \in Used :
          /\ Whole(u) /\ Whole(v)
          /\ heroes[u].player = heroes[v].player /\ heroes[u].hero = heroes[v].hero
          => u = v
    /\ \A c \in Conn : pc[c] = "talents" =>
          /\ <<PlayerOf[c], wanted[c]>> \in birthdays
          /\ \A u \in RowsOf(PlayerOf[c], wanted[c]) : ~Whole(u)
          /\ \A d \in Conn : pc[d] = "talents" /\ PlayerOf[d] = PlayerOf[c]
                                /\ wanted[d] = wanted[c] => d = c

\* A row is answered for once it is whole and its grant has ended.
Answerable(p, h) ==
    /\ \E u \in RowsOf(p, h) : Whole(u)
    /\ \A c \in Conn : ~(pc[c] = "count" /\ PlayerOf[c] = p /\ wanted[c] = h)

Oldest(u, p, h) == u \in RowsOf(p, h) /\ \A v \in RowsOf(p, h) : u <= v

AnswerInv ==
    \A p \in Player, h \in Hero :
        /\ answered[<<p, h>>] > 0 => RowsOf(p, h) # {}
        /\ \A u \in Used : Oldest(u, p, h) =>
              answered[<<p, h>>] <= heroes[u].duplicates + (IF Answerable(p, h) THEN 1 ELSE 0)

\* The whole rows of p whose grant has ended are those that may be counted.
Settled(p) == {u \in WholeOf(p) : \A c \in Conn : ~(pc[c] = "count" /\ uid[c] = u)}

CountInv == \A p \in Player : counted[p] <= Cardinality(Settled(p))

\* Rows are completed one per player and hero, and only grants that ended are
\* answered and counted, whatever else was interrupted.
IInv == TypeOK /\ GrantInv /\ HoldInv /\ BirthdayInv /\ AnswerInv /\ CountInv
=============================================================================
