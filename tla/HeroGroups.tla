------------------------------ MODULE HeroGroups ------------------------------
(***************************************************************************)
(* The teams a player keeps: on_set_hero_group_snapshot saves one under a   *)
(* snapshot and copies it to the common group of that number,               *)
(* on_set_hero_group_equip changes the psychubes of a common group, and     *)
(* on_get_hero_group_snapshot_list reads what was saved                     *)
(* (handlers/hero_group, db/game/hero_groups.rs, hero_group_snapshots.rs).  *)
(*                                                                         *)
(* A saved team is a row and, in other tables, the rows that refer to it;   *)
(* a save deletes the old team and inserts a new one, row by row.  A row    *)
(* that is deleted takes those that refer to it with it, and one that is    *)
(* gone cannot be referred to: sqlx turns foreign keys on.                  *)
(***************************************************************************)
EXTENDS Inventory

CONSTANTS
    Snapshot,     \* snapshot_id
    Sub,          \* snapshot_sub_id, which becomes the group_id
    Common,       \* those with a row in hero_groups_common
    FightGroup,   \* bound: teams as clients send them; an empty slot is 0
    EquipChange,  \* bound: requests to change psychubes, <<group, index, uids>>
    Saved,        \* teams saved before: <<snapshot, sub, fight group>>
    EmptyTeam     \* the common groups of a new account

Part == {"members", "equips", "activity"}

ASSUME HeroGroupsAssumption ==
    /\ Common \subseteq Sub /\ Sub \subseteq Nat
    /\ LET Slots == Seq([hero : Int, uids : Seq(Int)])
       IN FightGroup \subseteq
             [heroes : Seq(Int), subs : Seq(Int), equips : Slots, activity : Slots]
    /\ EquipChange \subseteq Sub \X Nat \X Seq(Int)
    /\ IsFiniteSet(Saved)
    /\ Saved \subseteq Snapshot \X Sub \X FightGroup
    /\ \A x, y \in Saved : x[1] = y[1] /\ x[2] = y[2] => x = y
    /\ \A x, y \in Saved : x[2] = y[2] => x[3] = y[3]

VARIABLES
    teams,     \* rows of hero_group_snapshot_groups, by id, with their parts
    lastId,    \* the last id the table has given
    sorted,    \* sorted[s]: hero_group_snapshot_sort_ids, sub to order
    common,    \* common[g]: the rows of the common group's members and equips
    meant,     \* history: meant[id]: the team that row id was inserted for
    fielded    \* history: what requests have made of the common groups

groupVars == <<teams, lastId, sorted, common, meant, fielded>>

-----------------------------------------------------------------------------
\* The team a fight group is saved as: the empty slots are left out, which
\* closes the gaps among the heroes but not those among the psychubes.
Filled(slots) == Those(slots, LAMBDA uid : uid # 0)
Equips(slots) ==
    FlattenSeq([i \in DOMAIN slots |->
        IF slots[i].hero = 0 THEN <<>>
        ELSE [j \in DOMAIN Filled(slots[i].uids) |-> <<i - 1, Filled(slots[i].uids)[j]>>]])

GroupInfo(f) ==
    [members |-> Filled(f.heroes) \o Filled(f.subs),
     equips |-> Equips(f.equips), activity |-> Equips(f.activity)]

Row(s, g) == [snapshot |-> s, sub |-> g, members |-> <<>>, equips |-> <<>>, activity |-> <<>>]
WithParts(s, g, info) ==
    [Row(s, g) EXCEPT !.members = info.members, !.equips = info.equips, !.activity = info.activity]

Numbered == SetToSeq(Saved)
SavedSubs(s) == {x[2] : x \in {y \in Saved : y[1] = s}}
Fielded(info) == [members |-> info.members, equips |-> info.equips]

GroupsInit ==
    /\ teams = [i \in DOMAIN Numbered |->
                  WithParts(Numbered[i][1], Numbered[i][2], GroupInfo(Numbered[i][3]))]
    /\ lastId = Len(Numbered)
    /\ sorted = [s \in Snapshot |->
                   [g \in SavedSubs(s) |-> Cardinality({h \in SavedSubs(s) : h < g})]]
    /\ common = [g \in Common |->
                   IF \E x \in Saved : x[2] = g
                   THEN Fielded(GroupInfo((CHOOSE x \in Saved : x[2] = g)[3]))
                   ELSE EmptyTeam]
    /\ meant = teams
    /\ fielded = common

-----------------------------------------------------------------------------
(* Saving a team.                                                          *)

Held(s, g) == {i \in DOMAIN teams : teams[i].snapshot = s /\ teams[i].sub = g}

AskSave(c, s, g, f) ==
    /\ Begin(c, Nothing, Nothing,
             << Stmt("findTeam", <<s, g, GroupInfo(f)>>, 0), Stmt("readOrder", <<s, g>>, 0),
                Stmt("findCommon", <<g, GroupInfo(f)>>, 0) >>)
    /\ fielded' = IF g \in Common THEN [fielded EXCEPT ![g] = Fielded(GroupInfo(f))] ELSE fielded
    /\ UNCHANGED <<teams, lastId, sorted, common, meant>>

\* The upsert of the snapshot has no other effect than its time.  The team saved
\* before, the first if there are several, is deleted table by table.
FindTeam(c) ==
    /\ At(c, "findTeam")
    /\ LET s == What(c)[1]  g == What(c)[2]  info == What(c)[3]
           old == IF Held(s, g) = {} THEN <<>> ELSE << Min(Held(s, g)) >>
       IN Proceed(c, FlattenSeq([i \in DOMAIN old |->
                         << Stmt("wipePart", <<old[i], "members">>, 0),
                            Stmt("wipePart", <<old[i], "equips">>, 0),
                            Stmt("wipePart", <<old[i], "activity">>, 0),
                            Stmt("dropTeam", old[i], 0) >>])
                     \o << Stmt("newTeam", <<s, g, info>>, 0) >>)
    /\ UNCHANGED <<owned, groupVars>> /\ Unrecorded

WipePart(c) ==
    /\ At(c, "wipePart")
    /\ teams' = [id \in DOMAIN teams |->
                   IF id = What(c)[1] THEN [teams[id] EXCEPT ![What(c)[2]] = <<>>] ELSE teams[id]]
    /\ Proceed(c, <<>>)
    /\ UNCHANGED <<owned, lastId, sorted, common, meant, fielded>> /\ Unrecorded

DropTeam(c) ==
    /\ At(c, "dropTeam")
    /\ teams' = [id \in DOMAIN teams \ {What(c)} |-> teams[id]]
    /\ meant' = [id \in DOMAIN teams \ {What(c)} |-> meant[id]]
    /\ Proceed(c, <<>>)
    /\ UNCHANGED <<owned, lastId, sorted, common, fielded>> /\ Unrecorded

\* A table with one more row.
With(table, key, row) ==
    [k \in DOMAIN table \cup {key} |-> IF k = key THEN row ELSE table[k]]

\* The INSERT under a given id, and what is to be inserted for it.
InsertTeam(c, id) ==
    LET s == What(c)[1]  g == What(c)[2]  info == What(c)[3]
        each(part) == [i \in DOMAIN info[part] |-> Stmt("insertPart", <<id, part, info[part][i]>>, 0)]
    IN /\ teams' = With(teams, id, Row(s, g))
       /\ meant' = With(meant, id, WithParts(s, g, info))
       /\ lastId' = id
       /\ Proceed(c, each("members") \o each("equips") \o each("activity"))
       /\ UNCHANGED <<owned, sorted, common, fielded>> /\ Unrecorded

\* Mutant of NewTeam: ids are counted on from those in use (a key without
\* AUTOINCREMENT).
NewTeamReusingIds(c) ==
    /\ At(c, "newTeam")
    /\ InsertTeam(c, Max(DOMAIN teams \cup {0}) + 1)

\* AUTOINCREMENT: an id is never given again.
NewTeam(c) ==
    /\ At(c, "newTeam")
    /\ InsertTeam(c, lastId + 1)

InsertPart(c) ==
    /\ At(c, "insertPart")
    /\ LET id == What(c)[1]  part == What(c)[2]  x == What(c)[3]
       IN IF id \notin DOMAIN teams
          THEN Fail(c) /\ UNCHANGED teams
          ELSE /\ teams' = [teams EXCEPT ![id][part] = Append(@, x)]
               /\ Proceed(c, <<>>) /\ Unrecorded
    /\ UNCHANGED <<owned, lastId, sorted, common, meant, fielded>>

\* The order of the teams is read, extended by a new one, and written anew.
\* Equal places come as the key has them.
Before(order, g) ==
    {h \in DOMAIN order : order[h] < order[g] \/ (order[h] = order[g] /\ h < g)}
InOrder(order) ==
    [i \in 1..Cardinality(DOMAIN order) |->
       CHOOSE g \in DOMAIN order : Cardinality(Before(order, g)) = i - 1]

ReadOrder(c) ==
    /\ At(c, "readOrder")
    /\ LET s == What(c)[1]  g == What(c)[2]
           old == InOrder(sorted[s])
           merged == IF g \in DOMAIN sorted[s] THEN old ELSE Append(old, g)
       IN Proceed(c, << Stmt("wipeOrder", s, 0) >>
                     \o [i \in DOMAIN merged |-> Stmt("insertOrder", <<s, merged[i]>>, i - 1)])
    /\ UNCHANGED <<owned, groupVars>> /\ Unrecorded

WipeOrder(c) ==
    /\ At(c, "wipeOrder")
    /\ sorted' = [sorted EXCEPT ![What(c)] = <<>>]
    /\ Proceed(c, <<>>)
    /\ UNCHANGED <<owned, teams, lastId, common, meant, fielded>> /\ Unrecorded

\* (snapshot_id, sub_id) is the key.
InsertOrder(c) ==
    /\ At(c, "insertOrder")
    /\ LET s == What(c)[1]  g == What(c)[2]
       IN IF g \in DOMAIN sorted[s]
          THEN Fail(c) /\ UNCHANGED sorted
          ELSE /\ sorted' = [sorted EXCEPT ![s] = With(@, g, Amount(c))]
               /\ Proceed(c, <<>>) /\ Unrecorded
    /\ UNCHANGED <<owned, teams, lastId, common, meant, fielded>>

\* sync_snapshot_to_common.  There is no common group of another number, which
\* is an error, though the team is saved.
Replace(g, part, rows) ==
    << Stmt("wipeCommon", <<g, part>>, 0) >>
    \o [i \in DOMAIN rows |-> Stmt("insertCommon", <<g, part, rows[i]>>, 0)]

FindCommon(c) ==
    /\ At(c, "findCommon")
    /\ LET g == What(c)[1]  info == What(c)[2]
       IN IF g \notin Common THEN Return(c, "failed")
          ELSE Proceed(c, Replace(g, "members", info.members) \o Replace(g, "equips", info.equips))
    /\ UNCHANGED <<owned, groupVars>> /\ Unrecorded

WipeCommon(c) ==
    /\ At(c, "wipeCommon")
    /\ common' = [common EXCEPT ![What(c)[1]][What(c)[2]] = <<>>]
    /\ Proceed(c, <<>>)
    /\ UNCHANGED <<owned, teams, lastId, sorted, meant, fielded>> /\ Unrecorded

InsertCommon(c) ==
    /\ At(c, "insertCommon")
    /\ common' = [common EXCEPT ![What(c)[1]][What(c)[2]] = Append(@, What(c)[3])]
    /\ Proceed(c, <<>>)
    /\ UNCHANGED <<owned, teams, lastId, sorted, meant, fielded>> /\ Unrecorded

-----------------------------------------------------------------------------
(* Changing the psychubes of one hero of a common group.                   *)

OtherSlots(equips, index) == Those(equips, LAMBDA e : e[1] # index)
InSlot(index, uids) == [i \in DOMAIN uids |-> <<index, uids[i]>>]

AskEquip(c, g, index, uids) ==
    /\ Begin(c, Nothing, Nothing, << Stmt("setEquip", <<g, index, uids>>, 0) >>)
    /\ fielded' = IF g \in Common
                  THEN [fielded EXCEPT ![g].equips = OtherSlots(@, index) \o InSlot(index, uids)]
                  ELSE fielded
    /\ UNCHANGED <<teams, lastId, sorted, common, meant>>

SetEquip(c) ==
    /\ At(c, "setEquip")
    /\ LET g == What(c)[1]  index == What(c)[2]
           rows == InSlot(index, What(c)[3])
       IN IF g \notin Common THEN Return(c, "failed")
          ELSE Proceed(c, << Stmt("wipeSlot", <<g, index>>, 0) >>
                          \o [i \in DOMAIN rows |-> Stmt("insertCommon", <<g, "equips", rows[i]>>, 0)])
    /\ UNCHANGED <<owned, groupVars>> /\ Unrecorded

WipeSlot(c) ==
    /\ At(c, "wipeSlot")
    /\ common' = [common EXCEPT ![What(c)[1]].equips = OtherSlots(@, What(c)[2])]
    /\ Proceed(c, <<>>)
    /\ UNCHANGED <<owned, teams, lastId, sorted, meant, fielded>> /\ Unrecorded

-----------------------------------------------------------------------------
(* Reading: the teams are listed, and then read one by one.                *)

AskList(c, asked) ==
    /\ Begin(c, Nothing, Nothing, << Stmt("listTeams", asked, 0) >>)
    /\ UNCHANGED groupVars

ListTeams(c) ==
    /\ At(c, "listTeams")
    /\ LET listed == SetToSeq({id \in DOMAIN teams : teams[id].snapshot \in What(c)})
       IN Proceed(c, [i \in DOMAIN listed |-> Stmt("readTeam", listed[i], 0)])
    /\ UNCHANGED <<owned, groupVars>> /\ Unrecorded

\* A team that was replaced since is an error.
ReadTeam(c) ==
    /\ At(c, "readTeam")
    /\ IF What(c) \in DOMAIN teams THEN Proceed(c, <<>>) ELSE Return(c, "failed")
    /\ UNCHANGED <<owned, groupVars>> /\ Unrecorded

-----------------------------------------------------------------------------
GroupsRequest(c) ==
    \/ \E s \in Snapshot, g \in Sub, f \in FightGroup : AskSave(c, s, g, f)
    \/ \E x \in EquipChange : AskEquip(c, x[1], x[2], x[3])
    \/ \E asked \in {Snapshot} \cup {{s} : s \in Snapshot} : AskList(c, asked)

GroupsStep(c) ==
    \/ FindTeam(c) \/ WipePart(c) \/ DropTeam(c) \/ NewTeam(c) \/ InsertPart(c)
    \/ ReadOrder(c) \/ WipeOrder(c) \/ InsertOrder(c)
    \/ FindCommon(c) \/ WipeCommon(c) \/ InsertCommon(c)
    \/ SetEquip(c) \/ WipeSlot(c)
    \/ ListTeams(c) \/ ReadTeam(c)

-----------------------------------------------------------------------------
\* The rows of a team are some of those its own save is to insert.
OwnRows(id) ==
    \A part \in Part : /\ ToSet(teams[id][part]) \subseteq ToSet(meant[id][part])
                       /\ Len(teams[id][part]) <= Len(meant[id][part])
=============================================================================
