---------------------------- MODULE DungeonProofs ----------------------------
(***************************************************************************)
(* Theorems about module Dungeon, for any connections, players, heroes,     *)
(* skills, episodes, battles and faults.                                    *)
(*                                                                         *)
(* The argument for the tables: a handler's place (job) says what it has    *)
(* written, tables only grow, and what waits in a queue is either about the *)
(* round the handler is still saving or saved already; of the packets       *)
(* queued only the first carries the tag of a request, the one that is      *)
(* being handled.                                                           *)
(*                                                                         *)
(* The argument for a round: what a battle starts from can be played        *)
(* (Playable), every operation keeps the number of cards of each face that  *)
(* are in the hand or shown (States), every effect keeps life within its    *)
(* maximum and adds to the pools what it takes (Results).  For a team: the  *)
(* slots that claim a position claim different ones, in order, and the      *)
(* negative uids are ordinals given out in turn.                            *)
(***************************************************************************)
EXTENDS Dungeon, Sums, FiniteSetTheorems, SequenceTheorems, TLAPS

-----------------------------------------------------------------------------
(* Types. *)

BattleSets == UNION {Battles[p][g] : p \in Players, g \in AllGroups}
Battle == [episode : Episodes, chapter : Chapters, group : AllGroups, replay : BOOLEAN, id : Nat, set : BattleSets]

\* What dungeon records keep.
Kept == {Lineup(g) : g \in AllGroups}

RoundPlaces == {"computed", "save", "progress", "decide", "record", "result"}
Jobs ==
  {NoJob} \cup [pc : {"login", "start_row"}]
    \cup [pc : {"story", "story_row"}, player : Players, episode : Stories, chapter : Chapters]
    \cup [pc : RoundPlaces, player : Players, battle : Battle]

About ==
  {Nothing}
    \cup [kind : {"round"}, player : Players, episode : Episodes, chapter : Chapters,
          battle : Nat, replay : BOOLEAN]
    \cup [kind : {"story"}, player : Players, episode : Stories, chapter : Chapters]
    \cup [kind : {"reward"}, player : Players, episode : Episodes, chapter : Chapters, first : BOOLEAN]
    \cup [kind : {"opers"}, player : Players, episode : Episodes, records : Nat]
    \cup [kind : {"record"}, player : Players, episode : Episodes, group : Kept]

Packet == [tag : Nat, about : About]
Row == [star : Nat, count : Nat, rec : BOOLEAN]
Rows == [Players -> [Episodes \cup Stories -> [Chapters -> Row]]]

Domains ==
  /\ DOMAIN phase = Conns /\ DOMAIN player = Conns /\ DOMAIN queue = Conns
  /\ DOMAIN asked = Conns /\ DOMAIN battle = Conns /\ DOMAIN job = Conns

TableTypes ==
  /\ dungeons \in Rows
  /\ replays \in [Players -> [Episodes -> SUBSET Nat]]
  /\ records \in [Players -> [Episodes -> Kept \cup {None}]]
  /\ \A p \in Players, e \in Episodes : IsFiniteSet(replays[p][e])
  /\ now \in Nat

-----------------------------------------------------------------------------
(* What holds of each connection. *)

Typed(c) ==
  /\ phase[c] \in Phases
  /\ player[c] \in Players \cup {None}
  /\ battle[c] \in Battle \cup {None}
  /\ queue[c] \in Seq(Packet)
  /\ asked[c] \in Nat
  /\ job[c] \in Jobs

\* What the handler has written by the place it has reached.
Written(j) ==
  /\ j.pc \in {"save", "progress", "decide", "record"} => ~j.battle.replay
  /\ j.pc \in {"progress", "decide", "record", "result"} /\ ~j.battle.replay
       => j.battle.id \in replays[j.player][j.battle.episode]
  /\ j.pc \in {"decide", "record", "result"} /\ ~j.battle.replay
       => /\ dungeons[j.player][j.battle.episode][j.battle.chapter].count > 0
          /\ dungeons[j.player][j.battle.episode][j.battle.chapter].rec
  /\ j.pc = "story_row" => dungeons[j.player][j.episode][j.chapter].count > 0

Replied == {"save", "progress", "decide", "record", "result"}

\* What is queued, and in which phases anything is.
Queued(c) ==
  \A i \in 1..Len(queue[c]) :
    /\ phase[c] \notin {"reading", "none"}
    /\ phase[c] = "flushing" => Saved(queue[c][i].about)
    /\ phase[c] = "handling" => /\ job[c].pc \in Replied
                                /\ queue[c][i].about = RoundReply(job[c])

ConnInv(c) ==
  /\ Typed(c)
  /\ phase[c] = "handling" <=> job[c] # NoJob
  /\ Written(job[c])
  /\ Queued(c)

-----------------------------------------------------------------------------
(* What holds of each episode of a player. *)

RowInv(e, h, row) == row.star = IF h = ChapterOf[e] \/ row.count > 0 THEN 2 ELSE 0

EpisodeInv(p, e) ==
  /\ \A h \in Chapters : RowInv(e, h, dungeons[p][e][h])
  /\ records[p][e] # None => \E h \in Chapters : dungeons[p][e][h].count > 0 /\ dungeons[p][e][h].rec
  /\ Marked(p, e) =>
       \/ records[p][e] # None
       \/ Between(p, e, {"decide", "record"}) # {}
       \/ torn \cap {<<p, e, "decide">>, <<p, e, "record">>} # {}
  /\ \/ <<p, e, "progress">> \in torn
     \/ Cardinality(replays[p][e]) <= Counted(p, e) + Cardinality(Between(p, e, {"progress"}))

ToldInv == told \subseteq About /\ ToldIsSaved

IInv ==
  /\ Domains
  /\ TableTypes
  /\ \A c \in Conns : ConnInv(c)
  /\ \A p \in Players, e \in Episodes : EpisodeInv(p, e)
  /\ ToldInv

-----------------------------------------------------------------------------
(* Frames. *)

\* A step of connection c leaves the other connections alone.
Local(c) ==
  /\ Domains'
  /\ \A d \in Conns \ {c} :
       /\ phase'[d] = phase[d] /\ player'[d] = player[d] /\ queue'[d] = queue[d]
       /\ asked'[d] = asked[d] /\ battle'[d] = battle[d] /\ job'[d] = job[d]

\* The tables only grow.
Grow ==
  /\ TableTypes'
  /\ \A p \in Players, e \in Episodes :
       /\ replays[p][e] \subseteq replays'[p][e]
       /\ records[p][e] # None => records'[p][e] # None
  /\ \A p \in Players, e \in Episodes \cup Stories, h \in Chapters :
       /\ dungeons'[p][e][h].count >= dungeons[p][e][h].count
       /\ dungeons[p][e][h].rec => dungeons'[p][e][h].rec

ConnStep(c) == Request(c) \/ Work(c) \/ Network(c) \/ DatabaseError(c) \/ Disconnect(c)

TableWork(c) == SaveOperations(c) \/ Progress(c) \/ SaveRecord(c) \/ StoryProgress(c)

LEMMA RequestLocal ==
  ASSUME Domains, NEW c \in Conns, Request(c)
  PROVE  Local(c) /\ UNCHANGED <<tables, told, torn>>
<1> USE DEF Domains, Local, Read, Then, Continue, Finish, Refuse, Goto, Answer, tables, dungeonVars
<1>1. CASE OnLogin(c)
  BY <1>1 DEF OnLogin
<1>2. CASE OnStartDungeon(c)
  BY <1>2 DEF OnStartDungeon, NewBattle
<1>3. CASE OnStartStory(c)
  BY <1>3 DEF OnStartStory
<1>4. CASE OnStartTowerBattle(c)
  BY <1>4 DEF OnStartTowerBattle, NewBattle
<1>5. CASE OnBeginRound(c) \/ OnAutoRound(c)
  <2>1. PICK opers : PlayRound(c, opers)
    BY <1>5 DEF OnBeginRound, OnAutoRound
  <2> QED
    BY <2>1 DEF PlayRound
<1>6. CASE EndBattle(c)
  BY <1>6 DEF EndBattle
<1>7. CASE OnGetFightOper(c)
  BY <1>7 DEF OnGetFightOper
<1>8. CASE OnGetFightRecordGroup(c)
  BY <1>8 DEF OnGetFightRecordGroup
<1>9. CASE OnReconnectFight(c) \/ BadRequest(c)
  BY <1>9 DEF OnReconnectFight, BadRequest
<1> QED
  BY <1>1, <1>2, <1>3, <1>4, <1>5, <1>6, <1>7, <1>8, <1>9 DEF Request

LEMMA WorkLocal ==
  ASSUME Domains, NEW c \in Conns, Work(c)
  PROVE  Local(c) /\ UNCHANGED <<told, torn>> /\ (TableWork(c) \/ UNCHANGED tables)
<1> USE DEF Domains, Local, Then, Continue, Finish, Refuse, Goto, tables, sessionVars, TableWork
<1>1. CASE LoggedIn(c) \/ StartRow(c) \/ StoryRow(c)
  BY <1>1 DEF LoggedIn, StartRow, StoryRow
<1>2. CASE QueueReply(c) \/ Decide(c) \/ Result(c)
  BY <1>2 DEF QueueReply, Decide, Result
<1>3. CASE SaveOperations(c) \/ Progress(c) \/ SaveRecord(c) \/ StoryProgress(c)
  BY <1>3 DEF SaveOperations, Progress, SaveRecord, StoryProgress
<1> QED
  BY <1>1, <1>2, <1>3 DEF Work

LEMMA RestLocal ==
  ASSUME Domains, NEW c \in Conns, Network(c) \/ DatabaseError(c) \/ Disconnect(c)
  PROVE  Local(c) /\ UNCHANGED tables
<1> USE DEF Domains, Local, Goto, tables, dungeonVars
<1>1. CASE Network(c)
  BY <1>1 DEF Network, Accept, Leave, Flush, FlushFails
<1>2. CASE DatabaseError(c)
  BY <1>2 DEF DatabaseError, Refuse, Then
<1>3. CASE Disconnect(c)
  BY <1>3 DEF Disconnect, Close
<1> QED
  BY <1>1, <1>2, <1>3

-----------------------------------------------------------------------------
(* The tables grow. *)

\* The row an upsert of update_dungeon_progress leaves.
LEMMA Upserted ==
  ASSUME dungeons \in Rows, NEW p \in Players, NEW e \in Episodes \cup Stories, NEW h \in Chapters,
         NEW stars \in {1, 2}, UpdateDungeonProgress(p, e, h, stars)
  PROVE  /\ dungeons' \in Rows
         /\ dungeons'[p][e][h].count = dungeons[p][e][h].count + 1 /\ dungeons'[p][e][h].rec
         /\ dungeons'[p][e][h].star = IF stars > dungeons[p][e][h].star THEN stars ELSE dungeons[p][e][h].star
         /\ \A k \in Chapters \ {h} : dungeons'[p][e][k] = dungeons[p][e][k]
         /\ \A q \in Players, f \in Episodes \cup Stories :
              <<q, f>> # <<p, e>> => dungeons'[q][f] = dungeons[q][f]
<1> DEFINE E == Episodes \cup Stories
           row == dungeons[p][e][h]
           new == [star |-> IF stars > row.star THEN stars ELSE row.star,
                   count |-> row.count + 1, rec |-> TRUE]
           R == [Chapters -> Row]
           rows == [dungeons[p][e] EXCEPT ![h] = new]
           all == [dungeons[p] EXCEPT ![e] = rows]
<1>1. dungeons' = [dungeons EXCEPT ![p] = all]
  BY DEF UpdateDungeonProgress
<1>2. dungeons[p] \in [E -> R] /\ dungeons[p][e] \in R /\ row \in Row
  <2>1. dungeons[p] \in [E -> R]
    BY DEF Rows
  <2>2. dungeons[p][e] \in R
    BY <2>1
  <2> QED
    BY <2>1, <2>2
<1>3. /\ new \in Row /\ new.count = row.count + 1 /\ new.rec
      /\ new.star = IF stars > row.star THEN stars ELSE row.star
  BY <1>2 DEF Row
<1> HIDE DEF new
<1>4. rows \in R /\ rows[h] = new /\ \A k \in Chapters \ {h} : rows[k] = dungeons[p][e][k]
  BY <1>2, <1>3
<1> HIDE DEF rows, R
<1>5. all \in [E -> R] /\ all[e] = rows /\ \A f \in E \ {e} : all[f] = dungeons[p][f]
  BY <1>2, <1>4
<1> HIDE DEF all
<1>6. dungeons \in [Players -> [E -> R]]
  BY DEF Rows, R
<1>7. /\ dungeons' \in [Players -> [E -> R]] /\ dungeons'[p] = all
      /\ \A q \in Players \ {p} : dungeons'[q] = dungeons[q]
  BY <1>1, <1>5, <1>6
<1>8. \A q \in Players, f \in E : <<q, f>> # <<p, e>> => dungeons'[q][f] = dungeons[q][f]
  BY <1>5, <1>7
<1> QED
  BY <1>3, <1>4, <1>5, <1>7, <1>8 DEF Rows, R

\* The rows of one episode.
LEMMA RowTyped ==
  ASSUME dungeons \in Rows, NEW p \in Players, NEW e \in Episodes \cup Stories, NEW h \in Chapters
  PROVE  dungeons[p][e][h] \in Row /\ dungeons[p][e][h].count \in Nat
BY DEF Rows, Row

LEMMA GrowKept ==
  ASSUME TableTypes, UNCHANGED tables, now' \in Nat
  PROVE  Grow
<1>1. TableTypes'
  BY DEF TableTypes, tables
<1>2. \A p \in Players, e \in Episodes \cup Stories, h \in Chapters : dungeons[p][e][h].count \in Nat
  BY RowTyped DEF TableTypes
<1> QED
  BY <1>1, <1>2 DEF tables, Grow

LEMMA ClockRuns ==
  ASSUME Next, now \in Nat
  PROVE  now' \in Nat
<1> USE DEF sessionVars, dungeonVars
<1>1. CASE Crash
  BY <1>1 DEF Crash
<1>2. CASE \E c \in Conns : ConnStep(c)
  <2>1. PICK c \in Conns : ConnStep(c)
    BY <1>2
  <2>2. CASE OnStartDungeon(c) \/ OnStartTowerBattle(c)
    <3>1. PICK t \in {now, now + 1} : now' = t
      BY <2>2 DEF OnStartDungeon, OnStartTowerBattle, NewBattle
    <3> QED
      BY <3>1
  <2>3. CASE ~(OnStartDungeon(c) \/ OnStartTowerBattle(c))
    BY <2>1, <2>3 DEF ConnStep, Request, OnLogin, OnStartStory, OnBeginRound, OnAutoRound, PlayRound,
       EndBattle, OnGetFightOper, OnGetFightRecordGroup, OnReconnectFight, BadRequest,
       Work, LoggedIn, StartRow, StoryProgress, StoryRow, QueueReply, SaveOperations, Progress,
       Decide, SaveRecord, Result, Network, DatabaseError, Disconnect
  <2> QED
    BY <2>2, <2>3
<1> QED
  BY <1>1, <1>2 DEF Next, ConnStep

\* A handler that is saving a round knows whose and which.
LEMMA RoundJob ==
  ASSUME NEW c \in Conns, Typed(c), job[c].pc \in RoundPlaces
  PROVE  /\ job[c].player \in Players /\ job[c].battle \in Battle
         /\ job[c] \in [pc : RoundPlaces, player : Players, battle : Battle]
BY DEF Typed, Jobs, NoJob, RoundPlaces

LEMMA StoryJob ==
  ASSUME NEW c \in Conns, Typed(c), job[c].pc \in {"story", "story_row"}
  PROVE  /\ job[c].player \in Players /\ job[c].episode \in Stories /\ job[c].chapter \in Chapters
         /\ job[c] \in [pc : {"story", "story_row"}, player : Players, episode : Stories, chapter : Chapters]
BY DEF Typed, Jobs, NoJob, RoundPlaces

LEMMA GrowSaved ==
  ASSUME TableTypes, NEW c \in Conns, Typed(c), SaveOperations(c)
  PROVE  Grow
<1> DEFINE p == job[c].player
           e == job[c].battle.episode
           id == job[c].battle.id
<1>1. p \in Players /\ e \in Episodes /\ id \in Nat
  BY RoundJob DEF SaveOperations, RoundPlaces, Battle
<1>2. replays' = [replays EXCEPT ![p][e] = @ \cup {id}] /\ UNCHANGED <<dungeons, records, now>>
  BY DEF SaveOperations, SaveRoundOperations
<1>3. /\ replays' \in [Players -> [Episodes -> SUBSET Nat]]
      /\ replays'[p][e] = replays[p][e] \cup {id}
      /\ \A q \in Players, f \in Episodes : <<q, f>> # <<p, e>> => replays'[q][f] = replays[q][f]
  BY <1>1, <1>2 DEF TableTypes
<1>4. ASSUME NEW q \in Players, NEW f \in Episodes
      PROVE  IsFiniteSet(replays'[q][f]) /\ replays[q][f] \subseteq replays'[q][f]
  <2>1. IsFiniteSet(replays[q][f])
    BY DEF TableTypes
  <2>2. CASE <<q, f>> = <<p, e>>
    <3> DEFINE old == replays[q][f]
    <3> HIDE DEF old
    <3>1. IsFiniteSet(old \cup {id})
      BY <2>1, FS_AddElement DEF old
    <3>2. replays'[q][f] = old \cup {id}
      BY <2>2, <1>3 DEF old
    <3> QED
      BY <3>1, <3>2 DEF old
  <2> QED
    BY <2>1, <2>2, <1>3
<1>5. TableTypes'
  BY <1>2, <1>3, <1>4 DEF TableTypes
<1>6. \A q \in Players, f \in Episodes \cup Stories, h \in Chapters : dungeons[q][f][h].count \in Nat
  BY RowTyped DEF TableTypes
<1>7. /\ \A q \in Players, f \in Episodes : records[q][f] # None => records'[q][f] # None
      /\ \A q \in Players, f \in Episodes \cup Stories, h \in Chapters :
           /\ dungeons'[q][f][h].count >= dungeons[q][f][h].count
           /\ dungeons[q][f][h].rec => dungeons'[q][f][h].rec
  BY <1>2, <1>6
<1> QED
  BY <1>4, <1>5, <1>7 DEF Grow

LEMMA GrowUpserted ==
  ASSUME TableTypes, NEW c \in Conns, Typed(c), Progress(c) \/ StoryProgress(c)
  PROVE  Grow
<1>1. UNCHANGED <<replays, records, now>>
  BY DEF Progress, StoryProgress
<1>2. PICK p \in Players, e \in Episodes \cup Stories, h \in Chapters, stars \in {1, 2} :
        UpdateDungeonProgress(p, e, h, stars)
  <2>1. CASE Progress(c)
    BY <2>1, RoundJob DEF Progress, RoundPlaces, Battle
  <2>2. CASE StoryProgress(c)
    BY <2>2, StoryJob DEF StoryProgress
  <2> QED
    BY <2>1, <2>2
<1>3. /\ dungeons' \in Rows
      /\ dungeons'[p][e][h].count = dungeons[p][e][h].count + 1 /\ dungeons'[p][e][h].rec
      /\ \A k \in Chapters \ {h} : dungeons'[p][e][k] = dungeons[p][e][k]
      /\ \A q \in Players, f \in Episodes \cup Stories :
              <<q, f>> # <<p, e>> => dungeons'[q][f] = dungeons[q][f]
  BY <1>2, Upserted DEF TableTypes
<1>4. \A q \in Players, f \in Episodes \cup Stories, k \in Chapters : dungeons[q][f][k].count \in Nat
  BY RowTyped DEF TableTypes
<1>5. TableTypes'
  BY <1>1, <1>3 DEF TableTypes
<1>6. ASSUME NEW q \in Players, NEW f \in Episodes \cup Stories, NEW k \in Chapters
      PROVE  /\ dungeons'[q][f][k].count >= dungeons[q][f][k].count
             /\ dungeons[q][f][k].rec => dungeons'[q][f][k].rec
  <2>1. CASE <<q, f, k>> = <<p, e, h>>
    BY <1>3, <1>4, <2>1
  <2>2. CASE <<q, f, k>> # <<p, e, h>>
    <3>1. dungeons'[q][f][k] = dungeons[q][f][k]
      BY <1>3, <2>2
    <3> QED
      BY <1>4, <3>1
  <2> QED
    BY <2>1, <2>2
<1> QED
  BY <1>1, <1>5, <1>6 DEF Grow

LEMMA GrowRecorded ==
  ASSUME TableTypes, NEW c \in Conns, Typed(c), SaveRecord(c)
  PROVE  Grow
<1> DEFINE p == job[c].player
           e == job[c].battle.episode
           g == Lineup(job[c].battle.group)
<1>1. p \in Players /\ e \in Episodes /\ job[c].battle.group \in AllGroups /\ g \in Kept
  BY RoundJob DEF SaveRecord, RoundPlaces, Battle, Kept
<1>2. g # None
  BY <1>1, DungeonAssumption DEF DungeonAssumption
<1>3. records' = [records EXCEPT ![p][e] = g] /\ UNCHANGED <<dungeons, replays, now>>
  BY DEF SaveRecord
<1>4. /\ records' \in [Players -> [Episodes -> Kept \cup {None}]]
      /\ records'[p][e] = g
      /\ \A q \in Players, f \in Episodes : <<q, f>> # <<p, e>> => records'[q][f] = records[q][f]
  BY <1>1, <1>3 DEF TableTypes
<1>5. TableTypes'
  BY <1>3, <1>4 DEF TableTypes
<1>6. \A q \in Players, f \in Episodes \cup Stories, h \in Chapters : dungeons[q][f][h].count \in Nat
  BY RowTyped DEF TableTypes
<1>7. \A q \in Players, f \in Episodes : records[q][f] # None => records'[q][f] # None
  BY <1>2, <1>4
<1> QED
  BY <1>3, <1>5, <1>6, <1>7 DEF Grow

LEMMA GrowStep ==
  ASSUME Domains, TableTypes, \A c \in Conns : Typed(c), Next
  PROVE  Grow
<1>1. now' \in Nat
  BY ClockRuns DEF TableTypes
<1>2. CASE Crash
  BY <1>1, <1>2, GrowKept DEF Crash, tables
<1>3. CASE \E c \in Conns : ConnStep(c)
  <2>1. PICK c \in Conns : ConnStep(c)
    BY <1>3
  <2>2. TableWork(c) \/ UNCHANGED tables
    BY <2>1, RequestLocal, WorkLocal, RestLocal DEF ConnStep, tables
  <2> QED
    BY <1>1, <2>2, GrowKept, GrowSaved, GrowUpserted, GrowRecorded DEF TableWork
<1> QED
  BY <1>2, <1>3 DEF Next, ConnStep

LEMMA CountsGrow ==
  ASSUME TableTypes, Grow, NEW p \in Players, NEW e \in Episodes \cup Stories, NEW h \in Chapters
  PROVE  /\ dungeons[p][e][h].count > 0 => dungeons'[p][e][h].count > 0
         /\ dungeons[p][e][h].rec => dungeons'[p][e][h].rec
<1>1. dungeons[p][e][h].count \in Nat
  BY RowTyped DEF TableTypes
<1>2. dungeons'[p][e][h].count \in Nat
  BY DEF Grow, TableTypes, Rows, Row
<1>3. dungeons'[p][e][h].count >= dungeons[p][e][h].count
  BY DEF Grow
<1>4. dungeons[p][e][h].rec => dungeons'[p][e][h].rec
  BY DEF Grow
<1> QED
  BY <1>1, <1>2, <1>3, <1>4

\* What is saved stays saved.
LEMMA SavedStays ==
  ASSUME TableTypes, Grow, NEW t \in About, Saved(t)
  PROVE  Saved(t)'
<1>1. CASE t.kind = "opers"
  <2>1. t.player \in Players /\ t.episode \in Episodes /\ t.records \in Nat
    BY <1>1 DEF About, Nothing
  <2> DEFINE old == replays[t.player][t.episode]
             new == replays'[t.player][t.episode]
  <2>2. IsFiniteSet(old) /\ IsFiniteSet(new) /\ old \subseteq new
    BY <2>1 DEF TableTypes, Grow
  <2> HIDE DEF old, new
  <2>3. Cardinality(old) \in Nat /\ Cardinality(new) \in Nat
    BY <2>2, FS_CardinalityType
  <2>5. Cardinality(old) <= Cardinality(new)
    BY <2>2, FS_Subset
  <2>4. t.records <= Cardinality(new)
    BY <1>1, <2>1, <2>3, <2>5 DEF Saved, Marked, old
  <2> QED
    BY <1>1, <2>4 DEF Saved, Marked, new
<1>2. CASE t.kind = "round"
  <2>1. t.player \in Players /\ t.episode \in Episodes /\ t.chapter \in Chapters
    BY <1>2 DEF About, Nothing
  <2>2. replays[t.player][t.episode] \subseteq replays'[t.player][t.episode]
    BY <2>1 DEF Grow
  <2> QED
    BY <1>2, <2>1, <2>2, CountsGrow DEF Saved, Marked
<1>3. CASE t.kind = "story"
  <2>1. t.player \in Players /\ t.episode \in Stories /\ t.chapter \in Chapters
    BY <1>3 DEF About, Nothing
  <2> QED
    BY <1>3, <2>1, CountsGrow DEF Saved, Marked
<1>4. CASE t.kind = "reward"
  <2>1. t.player \in Players /\ t.episode \in Episodes /\ t.chapter \in Chapters
    BY <1>4 DEF About, Nothing
  <2> QED
    BY <1>4, <2>1, CountsGrow DEF Saved, Marked
<1>5. CASE t.kind = "record"
  <2>1. t.player \in Players /\ t.episode \in Episodes
    BY <1>5 DEF About, Nothing
  <2> QED
    BY <1>5, <2>1, CountsGrow DEF Saved, Marked
<1>6. CASE t.kind = "none"
  BY <1>6 DEF Saved, Marked
<1> QED
  BY <1>1, <1>2, <1>3, <1>4, <1>5, <1>6 DEF About, Nothing

-----------------------------------------------------------------------------
(* Each connection. *)

LEMMA OthersKept ==
  ASSUME TableTypes, Grow, NEW c \in Conns, NEW d \in Conns \ {c}, Local(c), ConnInv(d)
  PROVE  ConnInv(d)'
<1>1. /\ phase'[d] = phase[d] /\ player'[d] = player[d] /\ queue'[d] = queue[d]
      /\ asked'[d] = asked[d] /\ battle'[d] = battle[d] /\ job'[d] = job[d]
  BY DEF Local
<1>2. Typed(d)'
  BY <1>1 DEF ConnInv, Typed
<1>3. Written(job[d])'
  <2>1. CASE job[d].pc \in RoundPlaces
    <3>1. /\ job[d].player \in Players /\ job[d].battle.episode \in Episodes
          /\ job[d].battle.chapter \in Chapters
      BY <2>1, RoundJob DEF ConnInv, Battle
    <3> DEFINE j == job[d]  p == j.player  e == j.battle.episode  h == j.battle.chapter
    <3>2. replays[p][e] \subseteq replays'[p][e]
      BY <3>1 DEF Grow
    <3>3. (dungeons[p][e][h].count > 0 => dungeons'[p][e][h].count > 0)
          /\ (dungeons[p][e][h].rec => dungeons'[p][e][h].rec)
      BY <3>1, CountsGrow
    <3>4. Written(j)
      BY DEF ConnInv
    <3>5. j.pc # "story_row"
      BY <2>1 DEF RoundPlaces
    <3> QED
      BY <3>2, <3>3, <3>4, <3>5, <1>1, Zenon DEF Written
  <2>2. CASE job[d].pc \in {"story", "story_row"}
    <3>1. job[d].player \in Players /\ job[d].episode \in Stories /\ job[d].chapter \in Chapters
      BY <2>2, StoryJob DEF ConnInv
    <3> DEFINE p == job[d].player  e == job[d].episode  h == job[d].chapter
    <3>2. dungeons[p][e][h].count > 0 => dungeons'[p][e][h].count > 0
      BY <3>1, CountsGrow
    <3> QED
      BY <2>2, <3>2, <1>1 DEF ConnInv, Written
  <2>3. CASE job[d].pc \notin RoundPlaces \cup {"story", "story_row"}
    BY <2>3, <1>1 DEF Written, RoundPlaces
  <2> QED
    BY <2>1, <2>2, <2>3
<1>4. Queued(d)'
  <2> SUFFICES ASSUME NEW i \in 1..Len(queue'[d])
               PROVE  /\ phase'[d] \notin {"reading", "none"}
                      /\ phase'[d] = "flushing" => Saved(queue[d][i].about)'
                      /\ phase'[d] = "handling" => /\ job'[d].pc \in Replied
                                                   /\ queue'[d][i].about = RoundReply(job[d])'
    BY DEF Queued
  <2>1. queue[d][i].about \in About
    <3>1. queue[d] \in Seq(Packet) /\ i \in 1..Len(queue[d])
      BY <1>1 DEF ConnInv, Typed
    <3>2. queue[d][i] \in Packet
      BY <3>1, ElementOfSeq
    <3> QED
      BY <3>2 DEF Packet
  <2>2. phase[d] = "flushing" => Saved(queue[d][i].about)'
    <3>1. SUFFICES ASSUME phase[d] = "flushing" PROVE Saved(queue[d][i].about)'
      OBVIOUS
    <3>2. PICK t : t = queue[d][i].about
      OBVIOUS
    <3>3. t \in About /\ Saved(t)
      BY <3>1, <3>2, <2>1, <1>1 DEF ConnInv, Queued
    <3>4. Saved(t)'
      BY <3>3, SavedStays
    <3> QED
      BY <3>2, <3>4, <1>1 DEF Saved, Marked
  <2>3. /\ phase'[d] \notin {"reading", "none"}
        /\ phase'[d] = "handling" => /\ job'[d].pc \in Replied
                                     /\ queue'[d][i].about = RoundReply(job[d])
    BY <1>1 DEF ConnInv, Queued
  <2>4. RoundReply(job[d])' = RoundReply(job[d])
    BY <1>1 DEF RoundReply
  <2> QED
    BY <1>1, <2>2, <2>3, <2>4
<1> QED
  BY <1>1, <1>2, <1>3, <1>4 DEF ConnInv

\* Nothing waits to be sent before a round is answered.
LEMMA QueueEmpty ==
  ASSUME NEW c \in Conns, ConnInv(c),
         phase[c] \in {"reading", "none"} \/ (phase[c] = "handling" /\ job[c].pc \notin Replied)
  PROVE  queue[c] = <<>>
<1>1. queue[c] \in Seq(Packet) /\ Len(queue[c]) \in Nat
  BY LenProperties DEF ConnInv, Typed
<1>2. 1 \notin 1..Len(queue[c])
  BY DEF ConnInv, Queued
<1> QED
  BY <1>1, <1>2, EmptySeq

\* A round that is being answered has one reply in the queue, or none yet.
LEMMA QueueIsReply ==
  ASSUME NEW c \in Conns, ConnInv(c), phase[c] = "handling", NEW i \in 1..Len(queue[c])
  PROVE  queue[c][i].about = RoundReply(job[c]) /\ job[c].pc \in Replied
BY DEF ConnInv, Queued

\* Three ways a step may leave its connection: working with nothing queued,
\* flushing one packet, or out of the loop.
LEMMA Silent ==
  ASSUME NEW c \in Conns, Typed(c)', queue'[c] = <<>>, phase'[c] = "handling" <=> job'[c] # NoJob,
         Written(job[c])'
  PROVE  ConnInv(c)'
BY DEF ConnInv, Queued

LEMMA Flushing ==
  ASSUME NEW c \in Conns, NEW packet \in Packet, Typed(c)', queue'[c] = <<packet>>,
         phase'[c] = "flushing", job'[c] = NoJob, Saved(packet.about)'
  PROVE  ConnInv(c)'
<1>1. \A i \in 1..Len(queue'[c]) : i = 1 /\ queue'[c][i].about = packet.about
  OBVIOUS
<1>2. Queued(c)'
  <2>1. PICK t : t = packet.about
    OBVIOUS
  <2>2. Saved(t)'
    BY <2>1 DEF Saved, Marked
  <2>3. \A i \in 1..Len(queue'[c]) : Saved(queue[c][i].about)'
    BY <1>1, <2>1, <2>2 DEF Saved, Marked
  <2> QED
    BY <2>3 DEF Queued
<1>3. Written(job[c])'
  BY DEF Written, NoJob
<1> QED
  BY <1>2, <1>3 DEF ConnInv

LEMMA Closing ==
  ASSUME NEW c \in Conns, Typed(c)', phase'[c] = "closing", job'[c] = NoJob
  PROVE  ConnInv(c)'
BY DEF ConnInv, Queued, Written, NoJob

LEMMA OnePacket ==
  ASSUME NEW q, q = <<>>, NEW packet \in Packet
  PROVE  q \o <<packet>> = <<packet>> /\ <<packet>> \in Seq(Packet) /\ q \o <<>> = <<>>
BY DEF Packet

LEMMA NothingSaved ==
  /\ \A n \in Nat : Reply(n, Nothing) \in Packet
  /\ Saved(Nothing)'
BY DEF Reply, Packet, About, Saved, Marked, Nothing

-----------------------------------------------------------------------------
\* A request finds its connection idle, with nothing queued.
LEMMA AtRead ==
  ASSUME Domains, NEW c \in Conns, ConnInv(c), Read(c)
  PROVE  /\ phase[c] = "reading" /\ job[c] = NoJob /\ queue[c] = <<>>
         /\ asked'[c] = asked[c] + 1 /\ asked'[c] \in Nat
<1>1. phase[c] = "reading" /\ asked' = [asked EXCEPT ![c] = @ + 1]
  BY DEF Read
<1>2. queue[c] = <<>>
  BY <1>1, QueueEmpty
<1>3. asked[c] \in Nat
  BY DEF ConnInv, Typed
<1>4. job[c] = NoJob
  BY <1>1 DEF ConnInv
<1> QED
  BY <1>1, <1>2, <1>3, <1>4 DEF Domains

LEMMA NewBattleTyped ==
  ASSUME Domains, now \in Nat, NEW c \in Conns, NEW e \in Episodes, NEW h \in Named[c],
         NEW g \in Groups[c], NEW isReplay \in BOOLEAN, player[c] \in Players,
         NewBattle(c, e, h, g, isReplay)
  PROVE  battle'[c] \in Battle
<1>1. PICK t \in {now, now + 1}, b \in Battles[player[c]][g] :
        battle' = [battle EXCEPT ![c] =
          [episode |-> e, chapter |-> h, group |-> g, replay |-> isReplay, id |-> t, set |-> b]]
  BY DEF NewBattle
<1>2. t \in Nat /\ g \in AllGroups /\ h \in Chapters
  BY DungeonAssumption DEF AllGroups, DungeonAssumption
<1>3. b \in BattleSets
  BY <1>2 DEF BattleSets
<1> QED
  BY <1>1, <1>2, <1>3 DEF Battle, Domains

\* A request that is answered at once, with something that is stored.
LEMMA AnsweredAtOnce ==
  ASSUME Domains, NEW c \in Conns, ConnInv(c), Read(c), NEW about \in About,
         Finish(c, <<Reply(asked'[c], about)>>), Saved(about)',
         player'[c] \in Players \cup {None}, battle'[c] \in Battle \cup {None}, job' = job
  PROVE  ConnInv(c)'
<1> DEFINE packet == Reply(asked'[c], about)
<1>1. packet \in Packet /\ packet.about = about
  BY AtRead DEF Reply, Packet
<1>2. phase'[c] = "flushing" /\ queue'[c] = queue[c] \o <<packet>>
  BY DEF Finish, Goto, Domains
<1> HIDE DEF packet
<1>3. queue'[c] = <<packet>> /\ queue'[c] \in Seq(Packet)
  BY <1>1, <1>2, AtRead, OnePacket
<1>4. Typed(c)'
  BY <1>2, <1>3, AtRead DEF Typed, Phases, Jobs
<1>5. PICK k \in Packet : k = packet
  BY <1>1
<1>6. k.about = about
  BY <1>5, <1>1
<1>7. Saved(k.about)'
  BY <1>6 DEF Saved, Marked
<1> QED
  BY <1>2, <1>3, <1>4, <1>5, <1>7, AtRead, Flushing

\* A request that starts to work.
LEMMA StartsToWork ==
  ASSUME Domains, NEW c \in Conns, ConnInv(c), Read(c), NEW j \in Jobs \ {NoJob},
         Then(c, j), Continue(c, <<>>), Written(j)',
         player'[c] \in Players \cup {None}, battle'[c] \in Battle \cup {None}
  PROVE  ConnInv(c)'
<1>1. phase'[c] = "handling" /\ job'[c] = j /\ queue'[c] = queue[c] \o <<>>
  BY DEF Continue, Goto, Then, Domains
<1>2. queue'[c] = <<>> /\ queue'[c] \in Seq(Packet)
  <2>1. queue[c] = <<>>
    BY AtRead
  <2>2. <<>> \o <<>> = <<>> /\ <<>> \in Seq(Packet)
    OBVIOUS
  <2> QED
    BY <1>1, <2>1, <2>2
<1>3. Typed(c)'
  BY <1>1, <1>2, AtRead DEF Typed, Phases
<1>4. Written(job[c])'
  BY <1>1 DEF Written
<1> QED
  BY <1>1, <1>2, <1>3, <1>4, Silent

\* A handler that fails closes its connection.
LEMMA Refused ==
  ASSUME Domains, NEW c \in Conns, ConnInv(c), Refuse(c), job'[c] = NoJob, asked'[c] \in Nat,
         UNCHANGED <<player, battle>>
  PROVE  ConnInv(c)'
<1>1. phase'[c] = "closing" /\ queue' = queue
  BY DEF Refuse, Goto, Domains
<1>2. Typed(c)'
  BY <1>1 DEF ConnInv, Typed, Phases, Jobs
<1> QED
  BY <1>1, <1>2, Closing

LEMMA RequestConn ==
  ASSUME IInv, NEW c \in Conns, Request(c), UNCHANGED tables
  PROVE  ConnInv(c)'
<1>0. /\ ConnInv(c) /\ Domains /\ TableTypes /\ now \in Nat
      /\ player[c] \in Players \cup {None} /\ battle[c] \in Battle \cup {None}
  BY DEF IInv, ConnInv, Typed, TableTypes
<1>n. Nothing \in About /\ Saved(Nothing)'
  BY NothingSaved DEF About
<1>1. CASE OnLogin(c)
  <2>1. PICK p \in Players : player' = [player EXCEPT ![c] = p]
    BY <1>1 DEF OnLogin
  <2>2. [pc |-> "login"] \in Jobs \ {NoJob} /\ Written([pc |-> "login"])'
    BY DEF Jobs, NoJob, Written
  <2>3. player'[c] = p /\ battle' = battle
    BY <2>1, <1>0, <1>1 DEF OnLogin, Domains
  <2> QED
    BY <1>0, <1>1, <2>2, <2>3, StartsToWork DEF OnLogin
<1>2. CASE OnStartDungeon(c)
  <2>1. PICK e \in Episodes, h \in Named[c], g \in Groups[c], isReplay \in BOOLEAN :
          NewBattle(c, e, h, g, isReplay)
    BY <1>2 DEF OnStartDungeon
  <2>2. [pc |-> "start_row"] \in Jobs \ {NoJob} /\ Written([pc |-> "start_row"])'
    BY DEF Jobs, NoJob, Written
  <2>3. battle'[c] \in Battle /\ player' = player
    BY <2>1, <1>0, <1>2, NewBattleTyped DEF OnStartDungeon
  <2> QED
    BY <1>0, <1>2, <2>2, <2>3, StartsToWork DEF OnStartDungeon
<1>3. CASE OnStartStory(c)
  <2>1. PICK e \in Stories, h \in Named[c] :
          Then(c, [pc |-> "story", player |-> player[c], episode |-> e, chapter |-> h])
    BY <1>3 DEF OnStartStory
  <2> DEFINE j == [pc |-> "story", player |-> player[c], episode |-> e, chapter |-> h]
  <2>0. h \in Chapters /\ player[c] \in Players
    BY <1>0, <1>3, DungeonAssumption DEF DungeonAssumption, OnStartStory
  <2>2. j \in Jobs \ {NoJob}
    BY <2>0 DEF Jobs, NoJob
  <2>3. Written(j)'
    BY DEF Written
  <2>4. player' = player /\ battle' = battle /\ Read(c) /\ Continue(c, <<>>)
    BY <1>3 DEF OnStartStory
  <2> HIDE DEF j
  <2>5. PICK k \in Jobs \ {NoJob} : k = j
    BY <2>2
  <2>6. Written(k)' /\ Then(c, k)
    BY <2>1, <2>3, <2>5 DEF Written, j
  <2> QED
    BY <1>0, <2>4, <2>6, StartsToWork
<1>4. CASE OnStartTowerBattle(c)
  <2>1. PICK e \in Episodes, h \in Named[c], g \in Groups[c] : NewBattle(c, e, h, g, FALSE)
    BY <1>4 DEF OnStartTowerBattle
  <2>2. battle'[c] \in Battle /\ player' = player
    BY <2>1, <1>0, <1>4, NewBattleTyped DEF OnStartTowerBattle
  <2> QED
    BY <1>0, <1>n, <1>4, <2>2, AnsweredAtOnce DEF OnStartTowerBattle, Answer
<1>5. CASE OnBeginRound(c) \/ OnAutoRound(c)
  <2>1. PICK opers : PlayRound(c, opers)
    BY <1>5 DEF OnBeginRound, OnAutoRound
  <2>2. Read(c) /\ player[c] # None /\ battle[c] # None /\ UNCHANGED <<player, battle>>
    BY <2>1 DEF PlayRound
  <2>3. \/ Then(c, [pc |-> "computed", player |-> player[c], battle |-> battle[c]]) /\ Continue(c, <<>>)
        \/ Refuse(c) /\ UNCHANGED job
    BY <2>1 DEF PlayRound
  <2>4. CASE Then(c, [pc |-> "computed", player |-> player[c], battle |-> battle[c]]) /\ Continue(c, <<>>)
    <3> DEFINE j == [pc |-> "computed", player |-> player[c], battle |-> battle[c]]
    <3>1. j \in Jobs \ {NoJob}
      BY <1>0, <2>2 DEF Jobs, NoJob, RoundPlaces
    <3>2. Written(j)'
      BY DEF Written
    <3> HIDE DEF j
    <3>3. PICK k \in Jobs \ {NoJob} : k = j
      BY <3>1
    <3>4. Written(k)' /\ Then(c, k)
      BY <2>4, <3>2, <3>3 DEF Written, j
    <3> QED
      BY <1>0, <2>2, <2>4, <3>4, StartsToWork
  <2>5. CASE Refuse(c) /\ UNCHANGED job
    BY <1>0, <2>2, <2>5, AtRead, Refused
  <2> QED
    BY <2>3, <2>4, <2>5
<1>6. CASE EndBattle(c)
  <2>1. battle'[c] = None /\ player' = player
    BY <1>0, <1>6 DEF EndBattle, Domains
  <2> QED
    BY <1>0, <1>n, <1>6, <2>1, AnsweredAtOnce DEF EndBattle, Answer
<1>7. CASE OnGetFightOper(c)
  <2> DEFINE p == player[c]
             e == battle[c].episode
             n == IF battle[c].replay THEN Cardinality(replays[p][e]) ELSE 0
             a == [kind |-> "opers", player |-> p, episode |-> e, records |-> n]
  <2>1. p \in Players /\ e \in Episodes
    BY <1>0, <1>7 DEF OnGetFightOper, Battle
  <2>2. Cardinality(replays[p][e]) \in Nat
    BY <2>1, <1>0, FS_CardinalityType DEF TableTypes
  <2>3. n \in Nat /\ n <= Cardinality(replays[p][e])
    BY <2>2
  <2>4. Answer(c, a) /\ Read(c) /\ UNCHANGED <<player, battle, job>>
    BY <1>7 DEF OnGetFightOper, dungeonVars
  <2>5. a \in About /\ a.kind = "opers" /\ a.player = p /\ a.episode = e /\ a.records = n
    BY <2>1, <2>3 DEF About
  <2> HIDE DEF a, n, p, e
  <2>6. PICK b \in About : b = a
    BY <2>5
  <2>7. Saved(b)'
    BY <2>3, <2>5, <2>6 DEF Saved, Marked, tables
  <2> QED
    BY <1>0, <2>4, <2>6, <2>7, AnsweredAtOnce DEF Answer
<1>8. CASE OnGetFightRecordGroup(c)
  <2>1. PICK e \in Episodes :
          Answer(c, IF player[c] = None \/ records[player[c]][e] = None THEN Nothing
                    ELSE [kind |-> "record", player |-> player[c], episode |-> e,
                          group |-> records[player[c]][e]])
    BY <1>8 DEF OnGetFightRecordGroup
  <2>2. Read(c) /\ UNCHANGED <<player, battle, job>>
    BY <1>8 DEF OnGetFightRecordGroup, dungeonVars
  <2>3. CASE player[c] = None \/ records[player[c]][e] = None
    BY <1>0, <1>n, <2>1, <2>2, <2>3, AnsweredAtOnce DEF Answer
  <2>4. CASE ~(player[c] = None \/ records[player[c]][e] = None)
    <3> DEFINE a == [kind |-> "record", player |-> player[c], episode |-> e,
                     group |-> records[player[c]][e]]
    <3>1. player[c] \in Players /\ records[player[c]][e] \in Kept
      BY <1>0, <2>4 DEF TableTypes
    <3>2. a \in About /\ a.kind = "record" /\ a.player = player[c] /\ a.episode = e
      BY <3>1 DEF About
    <3>3. \E h \in Chapters : dungeons[player[c]][e][h].rec
      BY <3>1, <2>4 DEF IInv, EpisodeInv
    <3>4. Answer(c, a)
      BY <2>1, <2>4
    <3> HIDE DEF a
    <3>5. PICK b \in About : b = a
      BY <3>2
    <3>6. Saved(b)'
      BY <3>2, <3>3, <3>5 DEF Saved, Marked, tables
    <3> QED
      BY <1>0, <2>2, <3>4, <3>5, <3>6, AnsweredAtOnce DEF Answer
  <2> QED
    BY <2>3, <2>4
<1>9. CASE OnReconnectFight(c)
  BY <1>0, <1>n, <1>9, AnsweredAtOnce DEF OnReconnectFight, Answer, dungeonVars
<1>10. CASE BadRequest(c)
  BY <1>0, <1>10, AtRead, Refused DEF BadRequest, dungeonVars
<1> QED
  BY <1>1, <1>2, <1>3, <1>4, <1>5, <1>6, <1>7, <1>8, <1>9, <1>10 DEF Request

-----------------------------------------------------------------------------
\* A handler with nothing queued that answers and ends.
LEMMA Ended ==
  ASSUME Domains, NEW c \in Conns, ConnInv(c), phase[c] = "handling", job[c].pc \notin Replied,
         NEW about \in About, Finish(c, <<Reply(asked[c], about)>>), Saved(about)',
         Then(c, NoJob), UNCHANGED <<player, asked, battle>>
  PROVE  ConnInv(c)'
<1> DEFINE packet == Reply(asked[c], about)
<1>1. asked[c] \in Nat /\ player[c] \in Players \cup {None} /\ battle[c] \in Battle \cup {None}
  BY DEF ConnInv, Typed
<1>2. packet \in Packet /\ packet.about = about
  BY <1>1 DEF Reply, Packet
<1>3. phase'[c] = "flushing" /\ queue'[c] = queue[c] \o <<packet>> /\ job'[c] = NoJob
  BY DEF Finish, Goto, Then, Domains
<1> HIDE DEF packet
<1>4. queue'[c] = <<packet>> /\ queue'[c] \in Seq(Packet)
  BY <1>2, <1>3, QueueEmpty, OnePacket
<1>5. Typed(c)'
  BY <1>1, <1>3, <1>4 DEF Typed, Phases, Jobs
<1>6. PICK k \in Packet : k = packet
  BY <1>2
<1>7. k.about = about
  BY <1>6, <1>2
<1>8. Saved(k.about)'
  BY <1>7 DEF Saved, Marked
<1> QED
  BY <1>3, <1>4, <1>5, <1>6, <1>8, Flushing

\* A handler that saves a round moves to its next place.
LEMMA NewPlace ==
  ASSUME NEW j \in [pc : RoundPlaces, player : Players, battle : Battle], NEW x \in RoundPlaces
  PROVE  LET k == [j EXCEPT !.pc = x]
         IN /\ k \in [pc : RoundPlaces, player : Players, battle : Battle]
            /\ k.pc = x /\ k.player = j.player /\ k.battle = j.battle
            /\ k \in Jobs /\ k # NoJob /\ RoundReply(k) = RoundReply(j)
BY DEF RoundPlaces, Jobs, NoJob, RoundReply

LEMMA Advances ==
  ASSUME Domains, NEW c \in Conns, ConnInv(c), phase[c] = "handling", job[c].pc \in Replied,
         NEW x \in Replied, Then(c, [job[c] EXCEPT !.pc = x]), UNCHANGED <<sessionVars, battle>>,
         Written(job[c])'
  PROVE  ConnInv(c)'
<1>1. job[c] \in [pc : RoundPlaces, player : Players, battle : Battle]
  BY RoundJob DEF ConnInv, RoundPlaces, Replied
<1>2. job'[c] = [job[c] EXCEPT !.pc = x]
  BY DEF Then, Domains
<1>3. /\ job'[c] \in Jobs /\ job'[c] # NoJob /\ job'[c].pc \in Replied
      /\ RoundReply(job'[c]) = RoundReply(job[c])
  <2>1. x \in RoundPlaces
    BY DEF RoundPlaces, Replied
  <2>2. /\ job'[c] \in Jobs /\ job'[c] # NoJob /\ job'[c].pc = x
        /\ RoundReply(job'[c]) = RoundReply(job[c])
    BY <1>1, <1>2, <2>1, NewPlace
  <2> QED
    BY <2>2
<1>4. phase' = phase /\ queue' = queue /\ asked' = asked /\ player' = player
  BY DEF sessionVars
<1>5. Typed(c)'
  BY <1>3, <1>4 DEF ConnInv, Typed
<1>6. Queued(c)'
  <2>1. \A i \in 1..Len(queue'[c]) : queue'[c][i].about = RoundReply(job[c])
    BY <1>4, QueueIsReply
  <2>2. RoundReply(job[c])' = RoundReply(job'[c])
    BY DEF RoundReply
  <2> QED
    BY <2>1, <2>2, <1>3, <1>4 DEF Queued
<1> QED
  BY <1>3, <1>4, <1>5, <1>6 DEF ConnInv

\* What the round's writes make of Written.
LEMMA AfterSave ==
  ASSUME IInv, NEW c \in Conns, SaveOperations(c)
  PROVE  Written(job[c])'
<1> DEFINE p == job[c].player
           e == job[c].battle.episode
           id == job[c].battle.id
<1>1. /\ job[c] \in [pc : RoundPlaces, player : Players, battle : Battle]
      /\ p \in Players /\ e \in Episodes
  BY RoundJob DEF IInv, ConnInv, SaveOperations, RoundPlaces, Battle
<1>2. job'[c] = [job[c] EXCEPT !.pc = "progress"]
  BY DEF SaveOperations, Then, IInv, Domains
<1>3. job'[c].pc = "progress" /\ job'[c].player = p /\ job'[c].battle = job[c].battle
  BY <1>1, <1>2, NewPlace DEF RoundPlaces
<1>4. id \in replays'[p][e]
  BY <1>1 DEF SaveOperations, SaveRoundOperations, IInv, TableTypes
<1>5. ~job[c].battle.replay
  BY DEF SaveOperations, IInv, ConnInv, Written
<1> QED
  BY <1>3, <1>4, <1>5 DEF Written

LEMMA AfterProgress ==
  ASSUME IInv, NEW c \in Conns, Progress(c)
  PROVE  Written(job[c])'
<1> DEFINE p == job[c].player
           e == job[c].battle.episode
           h == job[c].battle.chapter
           id == job[c].battle.id
<1>1. /\ job[c] \in [pc : RoundPlaces, player : Players, battle : Battle]
      /\ p \in Players /\ e \in Episodes /\ h \in Chapters
  BY RoundJob DEF IInv, ConnInv, Progress, RoundPlaces, Battle
<1>2. job'[c] = [job[c] EXCEPT !.pc = "decide"] /\ replays' = replays
  BY DEF Progress, Then, IInv, Domains
<1>3. job'[c].pc = "decide" /\ job'[c].player = p /\ job'[c].battle = job[c].battle
  BY <1>1, <1>2, NewPlace DEF RoundPlaces
<1>4. ~job[c].battle.replay /\ id \in replays[p][e]
  BY DEF Progress, IInv, ConnInv, Written
<1>5. UpdateDungeonProgress(p, e, h, 2)
  BY DEF Progress
<1>t. dungeons \in Rows
  BY DEF IInv, TableTypes
<1> HIDE DEF p, e, h
<1>6. dungeons'[p][e][h].count = dungeons[p][e][h].count + 1 /\ dungeons'[p][e][h].rec
  BY <1>1, <1>5, <1>t, Upserted
<1>7. dungeons[p][e][h].count \in Nat
  BY <1>1, <1>t, RowTyped
<1>8. dungeons'[p][e][h].count > 0 /\ dungeons'[p][e][h].rec /\ id \in replays'[p][e]
  <2>1. id \in replays'[p][e]
    BY <1>2, <1>4
  <2> HIDE DEF id
  <2> QED
    BY <1>6, <1>7, <2>1
<1>9. /\ job'[c].battle.episode = e /\ job'[c].battle.chapter = h /\ job'[c].battle.id = id
      /\ ~job'[c].battle.replay
  BY <1>3, <1>4 DEF e, h
<1> HIDE DEF id
<1> QED
  BY <1>3, <1>8, <1>9 DEF Written

LEMMA AfterDecision ==
  ASSUME IInv, NEW c \in Conns, Decide(c) \/ SaveRecord(c)
  PROVE  Written(job[c])' /\ \E x \in {"record", "result"} : Then(c, [job[c] EXCEPT !.pc = x])
<1> DEFINE p == job[c].player
           e == job[c].battle.episode
<1>1. job[c].pc \in {"decide", "record"} /\ UNCHANGED <<dungeons, replays>>
  BY DEF Decide, SaveRecord, tables
<1>2. /\ job[c] \in [pc : RoundPlaces, player : Players, battle : Battle]
      /\ p \in Players /\ e \in Episodes
  BY <1>1, RoundJob DEF IInv, ConnInv, RoundPlaces, Battle
<1>3. PICK x \in {"record", "result"} : Then(c, [job[c] EXCEPT !.pc = x])
  BY DEF Decide, SaveRecord
<1>4. job'[c] = [job[c] EXCEPT !.pc = x]
  BY <1>3 DEF Then, IInv, Domains
<1>5. job'[c].pc = x /\ job'[c].player = p /\ job'[c].battle = job[c].battle
  BY <1>2, <1>4, NewPlace DEF RoundPlaces
<1>6. /\ ~job[c].battle.replay /\ job[c].battle.id \in replays[p][e]
      /\ dungeons[p][e][job[c].battle.chapter].count > 0 /\ dungeons[p][e][job[c].battle.chapter].rec
  BY <1>1 DEF IInv, ConnInv, Written
<1> QED
  BY <1>1, <1>3, <1>5, <1>6 DEF Written

\* The reply of a round is true once the round is saved.
LEMMA RoundSaved ==
  ASSUME NEW c \in Conns, ConnInv(c), job[c].pc = "result"
  PROVE  RoundReply(job[c]) \in About /\ Saved(RoundReply(job[c]))
<1>1. job[c].player \in Players /\ job[c].battle \in Battle
  BY RoundJob DEF ConnInv, RoundPlaces
<1>2. RoundReply(job[c]) \in About
  BY <1>1 DEF RoundReply, About, Battle
<1> QED
  BY <1>2 DEF ConnInv, Written, Saved, Marked, RoundReply

LEMMA AfterReward ==
  ASSUME IInv, NEW c \in Conns, Result(c), HasRow(job[c].player, job[c].battle.episode, job[c].battle.chapter)
  PROVE  ConnInv(c)'
<1> DEFINE p == job[c].player
           e == job[c].battle.episode
           h == job[c].battle.chapter
           a == [kind |-> "reward", player |-> p, episode |-> e, chapter |-> h,
                 first |-> dungeons[p][e][h].count = 1]
           packet == Push(a)
<1>0. job[c].pc = "result" /\ ConnInv(c)
  BY DEF Result, IInv
<1>1. p \in Players /\ e \in Episodes /\ h \in Chapters
  BY <1>0, RoundJob DEF ConnInv, RoundPlaces, Battle
<1>2. a \in About /\ packet \in Packet /\ packet.about = a
  BY <1>1 DEF About, Push, Packet, NoTag
<1>13. PICK b \in About : b = a /\ packet.about = b
  BY <1>2
<1>3. Saved(b)'
  <2>1. UNCHANGED tables
    BY DEF Result
  <2> DEFINE cleared == dungeons[p][e][h].count = 1
  <2>3. b = [kind |-> "reward", player |-> p, episode |-> e, chapter |-> h, first |-> cleared]
    BY <1>13
  <2> HIDE DEF cleared
  <2>4. b.kind = "reward" /\ b.player = p /\ b.episode = e /\ b.chapter = h /\ (b.first <=> cleared)
    BY <2>3
  <2>2. b.kind = "reward" /\ b.player = p /\ b.episode = e /\ b.chapter = h /\ (b.first => dungeons[p][e][h].count = 1)
    BY <2>4 DEF cleared
  <2> QED
    BY <2>1, <2>2 DEF Saved, Marked, tables
<1>4. /\ phase'[c] = "flushing" /\ queue'[c] = queue[c] \o <<packet>> /\ job'[c] = NoJob
      /\ UNCHANGED <<player, asked, battle, tables>>
  BY DEF Result, Finish, Goto, Then, IInv, Domains
<1>5. phase[c] = "handling"
  BY <1>0 DEF ConnInv, NoJob
<1>6. queue[c] \in Seq(Packet)
  BY <1>0 DEF ConnInv, Typed
<1> HIDE DEF packet, a
<1>7. /\ queue'[c] \in Seq(Packet) /\ Len(queue'[c]) = Len(queue[c]) + 1 /\ Len(queue[c]) \in Nat
      /\ \A i \in 1..Len(queue[c]) : queue'[c][i] = queue[c][i]
      /\ queue'[c][Len(queue[c]) + 1] = packet
  BY <1>2, <1>4, <1>6
<1>8. \A i \in 1..Len(queue'[c]) : queue'[c][i].about = b \/ queue'[c][i].about = RoundReply(job[c])
  BY <1>0, <1>13, <1>5, <1>7, QueueIsReply, SMTT(30)
<1>9. \A i \in 1..Len(queue'[c]) : Saved(queue[c][i].about)'
  <2> SUFFICES ASSUME NEW i \in 1..Len(queue'[c])
               PROVE  Saved(queue[c][i].about)'
    OBVIOUS
  <2>1. CASE queue'[c][i].about = b
    BY <2>1, <1>3 DEF Saved, Marked
  <2>2. CASE queue'[c][i].about = RoundReply(job[c])
    <3>1. PICK t : t = RoundReply(job[c])
      OBVIOUS
    <3>2. Saved(t)
      BY <3>1, <1>0, RoundSaved
    <3>3. Saved(t)'
      BY <3>2, <1>4 DEF Saved, Marked, tables
    <3> QED
      BY <3>1, <3>3, <2>2 DEF Saved, Marked
  <2> QED
    BY <1>8, <2>1, <2>2
<1>10. Queued(c)'
  BY <1>4, <1>9 DEF Queued
<1>11. Typed(c)'
  BY <1>0, <1>4, <1>7 DEF ConnInv, Typed, Phases, Jobs
<1>12. Written(job[c])'
  BY <1>4 DEF Written, NoJob
<1> QED
  BY <1>4, <1>10, <1>11, <1>12 DEF ConnInv

LEMMA AfterResult ==
  ASSUME IInv, NEW c \in Conns, Result(c)
  PROVE  ConnInv(c)'
<1>1. CASE HasRow(job[c].player, job[c].battle.episode, job[c].battle.chapter)
  BY <1>1, AfterReward
<1>2. CASE ~HasRow(job[c].player, job[c].battle.episode, job[c].battle.chapter)
  <2>1. /\ Refuse(c) /\ Then(c, NoJob) /\ UNCHANGED <<player, asked, battle>>
        /\ ConnInv(c) /\ Domains /\ asked[c] \in Nat
    BY <1>2 DEF Result, IInv, ConnInv, Typed
  <2>2. job'[c] = NoJob /\ asked'[c] \in Nat
    BY <2>1 DEF Then, Domains
  <2> QED
    BY <2>1, <2>2, Refused
<1> QED
  BY <1>1, <1>2

LEMMA WorkConn ==
  ASSUME IInv, NEW c \in Conns, Work(c)
  PROVE  ConnInv(c)'
<1>0. /\ ConnInv(c) /\ Domains /\ TableTypes
  BY DEF IInv
<1>n. Nothing \in About /\ Saved(Nothing)'
  BY NothingSaved DEF About
<1>1. CASE LoggedIn(c) \/ StartRow(c)
  <2>1. job[c].pc \in {"login", "start_row"} /\ phase[c] = "handling"
    BY <1>0, <1>1 DEF LoggedIn, StartRow, ConnInv, NoJob
  <2>2. Then(c, NoJob) /\ UNCHANGED <<player, asked, battle>>
    BY <1>1 DEF LoggedIn, StartRow
  <2>3. Finish(c, <<Reply(asked[c], Nothing)>>) \/ Refuse(c)
    BY <1>1 DEF LoggedIn, StartRow
  <2>4. CASE Finish(c, <<Reply(asked[c], Nothing)>>)
    BY <1>0, <1>n, <2>1, <2>2, <2>4, Ended DEF Replied
  <2>5. CASE Refuse(c)
    <3>1. job'[c] = NoJob /\ asked'[c] \in Nat
      BY <1>0, <2>2 DEF Then, Domains, ConnInv, Typed
    <3> QED
      BY <1>0, <2>2, <2>5, <3>1, Refused
  <2> QED
    BY <2>3, <2>4, <2>5
<1>2. CASE StoryProgress(c)
  <2> DEFINE p == job[c].player
             e == job[c].episode
             h == job[c].chapter
  <2>1. job[c].pc = "story" /\ phase[c] = "handling"
    BY <1>0, <1>2 DEF StoryProgress, ConnInv, NoJob
  <2>2. /\ p \in Players /\ e \in Stories /\ h \in Chapters
        /\ job[c] \in [pc : {"story", "story_row"}, player : Players, episode : Stories, chapter : Chapters]
    BY <1>0, <2>1, StoryJob DEF ConnInv
  <2>3. job'[c] = [job[c] EXCEPT !.pc = "story_row"] /\ UNCHANGED <<sessionVars, battle>>
    BY <1>0, <1>2 DEF StoryProgress, Then, Domains
  <2>4. /\ job'[c] \in Jobs /\ job'[c] # NoJob
        /\ job'[c].pc = "story_row" /\ job'[c].player = p /\ job'[c].episode = e /\ job'[c].chapter = h
    BY <2>2, <2>3 DEF Jobs, NoJob
  <2>5. UpdateDungeonProgress(p, e, h, 1)
    BY <1>2 DEF StoryProgress
  <2> HIDE DEF p, e, h
  <2>6. dungeons'[p][e][h].count = dungeons[p][e][h].count + 1
    BY <1>0, <2>2, <2>5, Upserted DEF TableTypes
  <2>7. dungeons[p][e][h].count \in Nat
    BY <1>0, <2>2, RowTyped DEF TableTypes
  <2>8. Written(job[c])'
    BY <2>4, <2>6, <2>7 DEF Written
  <2>9. queue'[c] = <<>>
    BY <1>0, <2>1, <2>3, QueueEmpty DEF sessionVars, Replied
  <2>10. Typed(c)'
    BY <1>0, <2>3, <2>4 DEF ConnInv, Typed, sessionVars
  <2> QED
    BY <2>1, <2>3, <2>4, <2>8, <2>9, <2>10, Silent DEF sessionVars
<1>3. CASE StoryRow(c)
  <2> DEFINE a == [kind |-> "story", player |-> job[c].player, episode |-> job[c].episode,
                   chapter |-> job[c].chapter]
  <2>1. job[c].pc = "story_row" /\ phase[c] = "handling"
    BY <1>0, <1>3 DEF StoryRow, ConnInv, NoJob
  <2>2. job[c].player \in Players /\ job[c].episode \in Stories /\ job[c].chapter \in Chapters
    BY <1>0, <2>1, StoryJob DEF ConnInv
  <2>3. PICK b \in About : b = a
    BY <2>2 DEF About
  <2>4. dungeons[b.player][b.episode][b.chapter].count > 0 /\ b.kind = "story"
    BY <1>0, <2>1, <2>3 DEF ConnInv, Written
  <2>5. Saved(b)'
    BY <1>3, <2>4 DEF StoryRow, tables, Saved, Marked
  <2>6. Finish(c, <<Reply(asked[c], b)>>)
    BY <1>3, <2>3 DEF StoryRow
  <2> QED
    BY <1>0, <1>3, <2>1, <2>5, <2>6, Ended DEF StoryRow, Replied
<1>4. CASE QueueReply(c)
  <2> DEFINE x == IF job[c].battle.replay THEN "result" ELSE "save"
             packet == Reply(asked[c], RoundReply(job[c]))
  <2>1. job[c].pc = "computed" /\ phase[c] = "handling"
    BY <1>0, <1>4 DEF QueueReply, ConnInv, NoJob
  <2>2. job[c] \in [pc : RoundPlaces, player : Players, battle : Battle] /\ job[c].battle.replay \in BOOLEAN
    BY <1>0, <2>1, RoundJob DEF ConnInv, RoundPlaces, Battle
  <2>3. job'[c] = [job[c] EXCEPT !.pc = x] /\ UNCHANGED <<player, asked, battle>>
    BY <1>0, <1>4 DEF QueueReply, Then, Domains
  <2>4. x \in RoundPlaces /\ x \in Replied
    BY DEF RoundPlaces, Replied
  <2> HIDE DEF x
  <2>5. /\ job'[c] \in Jobs /\ job'[c] # NoJob /\ job'[c].pc = x /\ job'[c].battle = job[c].battle
        /\ RoundReply(job'[c]) = RoundReply(job[c])
    BY <2>2, <2>3, <2>4, NewPlace
  <2>6. Written(job[c])'
    BY <2>5 DEF Written, x
  <2>7. asked[c] \in Nat
    BY <1>0 DEF ConnInv, Typed
  <2>8. packet \in Packet /\ packet.about = RoundReply(job[c])
    BY <2>2, <2>7 DEF Reply, Packet, About, RoundReply, Battle
  <2>9. phase'[c] = "handling" /\ queue'[c] = queue[c] \o <<packet>>
    BY <1>0, <1>4 DEF QueueReply, Continue, Goto, Domains
  <2> HIDE DEF packet
  <2>10. queue'[c] = <<packet>> /\ queue'[c] \in Seq(Packet)
    BY <1>0, <2>1, <2>8, <2>9, QueueEmpty, OnePacket DEF Replied
  <2>11. \A i \in 1..Len(queue'[c]) : queue'[c][i].about = RoundReply(job'[c])
    BY <2>5, <2>8, <2>10
  <2>12. RoundReply(job[c])' = RoundReply(job'[c])
    BY DEF RoundReply
  <2>13. Queued(c)'
    BY <2>4, <2>5, <2>9, <2>11, <2>12 DEF Queued
  <2>14. Typed(c)'
    BY <1>0, <2>3, <2>5, <2>9, <2>10 DEF ConnInv, Typed, Phases
  <2> QED
    BY <2>5, <2>6, <2>9, <2>13, <2>14 DEF ConnInv
<1>5. CASE SaveOperations(c) \/ Progress(c)
  <2>1. job[c].pc \in {"save", "progress"} /\ phase[c] = "handling" /\ UNCHANGED <<sessionVars, battle>>
    BY <1>0, <1>5 DEF SaveOperations, Progress, ConnInv, NoJob
  <2>2. \E x \in {"progress", "decide"} : Then(c, [job[c] EXCEPT !.pc = x])
    BY <1>5 DEF SaveOperations, Progress
  <2>3. Written(job[c])'
    BY <1>5, AfterSave, AfterProgress
  <2> QED
    BY <1>0, <2>1, <2>2, <2>3, Advances DEF Replied
<1>6. CASE Decide(c) \/ SaveRecord(c)
  <2>1. job[c].pc \in {"decide", "record"} /\ phase[c] = "handling" /\ UNCHANGED <<sessionVars, battle>>
    BY <1>0, <1>6 DEF Decide, SaveRecord, ConnInv, NoJob
  <2>2. Written(job[c])' /\ \E x \in {"record", "result"} : Then(c, [job[c] EXCEPT !.pc = x])
    BY <1>6, AfterDecision
  <2> QED
    BY <1>0, <2>1, <2>2, Advances DEF Replied
<1>7. CASE Result(c)
  BY <1>7, AfterResult
<1> QED
  BY <1>1, <1>2, <1>3, <1>4, <1>5, <1>6, <1>7 DEF Work

LEMMA RestConn ==
  ASSUME IInv, NEW c \in Conns, Network(c) \/ DatabaseError(c) \/ Disconnect(c)
  PROVE  ConnInv(c)'
<1>0. /\ ConnInv(c) /\ Domains /\ Typed(c) /\ <<>> \in Seq(Packet)
      /\ phase[c] # "handling" => job[c] = NoJob
  BY DEF IInv, ConnInv
<1>w. Written(NoJob)' /\ NoJob \in Jobs
  BY DEF Written, NoJob, Jobs
<1>1. CASE Accept(c) /\ UNCHANGED dungeonVars
  <2>1. phase[c] = "none" /\ phase'[c] = "reading" /\ player'[c] = None /\ queue'[c] = <<>>
    BY <1>0, <1>1 DEF Accept, Goto, Domains
  <2>2. UNCHANGED <<asked, battle, job>>
    BY <1>1 DEF Accept, dungeonVars
  <2>3. Typed(c)' /\ job'[c] = NoJob
    BY <1>0, <2>1, <2>2 DEF Typed, Phases
  <2>4. Written(job[c])'
    BY <2>3 DEF Written, NoJob
  <2> QED
    BY <2>1, <2>3, <2>4, Silent
<1>2. CASE (Leave(c) \/ FlushFails(c)) /\ UNCHANGED dungeonVars
  <2>1. phase[c] \in {"reading", "flushing"} /\ phase'[c] = "closing" /\ UNCHANGED <<player, asked, battle, job>>
    BY <1>0, <1>2 DEF Leave, FlushFails, Goto, Domains, dungeonVars
  <2>2. queue'[c] \in Seq(Packet)
    <3>1. CASE Leave(c)
      BY <1>0, <3>1 DEF Leave, Typed
    <3>2. CASE FlushFails(c)
      <4>1. PICK sent \in 0..(Len(queue[c]) - 1) : queue' = [queue EXCEPT ![c] = SubSeq(@, sent + 2, Len(@))]
        BY <3>2 DEF FlushFails
      <4>2. queue'[c] = SubSeq(queue[c], sent + 2, Len(queue[c])) /\ queue[c] \in Seq(Packet)
        BY <1>0, <4>1 DEF Domains, Typed
      <4> QED
        BY <4>1, <4>2
    <3> QED
      BY <1>2, <3>1, <3>2
  <2>3. Typed(c)' /\ job'[c] = NoJob
    BY <1>0, <2>1, <2>2 DEF Typed, Phases
  <2> QED
    BY <2>1, <2>3, Closing
<1>3. CASE Flush(c) /\ UNCHANGED dungeonVars
  <2>1. phase[c] = "flushing" /\ phase'[c] = "reading" /\ queue'[c] = <<>> /\ UNCHANGED <<player, asked, battle, job>>
    BY <1>0, <1>3 DEF Flush, Goto, Domains, dungeonVars
  <2>2. Typed(c)' /\ job'[c] = NoJob
    BY <1>0, <2>1 DEF Typed, Phases
  <2>3. Written(job[c])'
    BY <2>2 DEF Written, NoJob
  <2> QED
    BY <2>1, <2>2, <2>3, Silent
<1>4. CASE DatabaseError(c)
  <2>1. job'[c] = NoJob /\ Refuse(c) /\ UNCHANGED <<player, asked, battle>>
    BY <1>0, <1>4 DEF DatabaseError, Then, Domains
  <2> QED
    BY <1>0, <2>1, Refused DEF Typed
<1>5. CASE Disconnect(c)
  <2>1. /\ phase[c] = "closing" /\ phase'[c] = "none" /\ player'[c] = None /\ queue'[c] = <<>>
        /\ battle'[c] = None /\ UNCHANGED <<asked, job>>
    BY <1>0, <1>5 DEF Disconnect, Close, Goto, Domains
  <2>2. Typed(c)' /\ job'[c] = NoJob
    BY <1>0, <2>1 DEF Typed, Phases
  <2>3. Written(job[c])'
    BY <2>2 DEF Written, NoJob
  <2> QED
    BY <2>1, <2>2, <2>3, Silent
<1> QED
  BY <1>1, <1>2, <1>3, <1>4, <1>5 DEF Network

LEMMA CrashConn ==
  ASSUME IInv, Crash, NEW c \in Conns
  PROVE  ConnInv(c)'
<1>1. phase'[c] = "none" /\ player'[c] = None /\ queue'[c] = <<>> /\ battle'[c] = None /\ job'[c] = NoJob
      /\ asked'[c] = asked[c]
  BY DEF Crash
<1>2. Typed(c)'
  BY <1>1 DEF IInv, ConnInv, Typed, Phases, Jobs
<1>3. Written(job[c])'
  BY <1>1 DEF Written, NoJob
<1> QED
  BY <1>1, <1>2, <1>3, Silent

LEMMA ConnStepInv ==
  ASSUME IInv, Next
  PROVE  Domains' /\ \A d \in Conns : ConnInv(d)'
<1>1. CASE Crash
  BY <1>1, CrashConn DEF Crash, IInv, Domains
<1>2. CASE \E c \in Conns : ConnStep(c)
  <2>1. PICK c \in Conns : ConnStep(c)
    BY <1>2
  <2>2. Grow
    BY GrowStep DEF IInv, ConnInv
  <2>3. Local(c) /\ ConnInv(c)'
    BY <2>1, RequestLocal, WorkLocal, RestLocal, RequestConn, WorkConn, RestConn DEF ConnStep, IInv
  <2>4. \A d \in Conns \ {c} : ConnInv(d)'
    BY <2>2, <2>3, OthersKept DEF IInv
  <2> QED
    BY <2>3, <2>4 DEF Local
<1> QED
  BY <1>1, <1>2 DEF Next, ConnStep

-----------------------------------------------------------------------------
(* What clients were told. *)

\* Only a flush tells a client anything, and only what was queued.
LEMMA ToldFrom ==
  ASSUME IInv, Next, NEW t \in told'
  PROVE  t \in About /\ Saved(t)
<1>1. CASE t \in told
  BY <1>1 DEF IInv, ToldInv, ToldIsSaved
<1>2. CASE t \notin told
  <2>1. PICK c \in Conns : ConnStep(c)
    BY <1>2 DEF Next, ConnStep, Crash
  <2>2. Flush(c) \/ FlushFails(c)
    BY <1>2, <2>1, RequestLocal, WorkLocal
       DEF ConnStep, IInv, Network, Accept, Leave, DatabaseError, Refuse, Disconnect, Close
  <2>3. phase[c] = "flushing" /\ queue[c] \in Seq(Packet)
    BY <2>2 DEF Flush, FlushFails, IInv, ConnInv, Typed
  <2>4. PICK i \in 1..Len(queue[c]) : t = queue[c][i].about
    <3>1. CASE Flush(c)
      BY <3>1, <1>2, <2>3 DEF Flush, Receive
    <3>2. CASE FlushFails(c)
      <4>1. PICK sent \in 0..(Len(queue[c]) - 1) : Receive(c, SubSeq(queue[c], 1, sent))
        BY <3>2 DEF FlushFails
      <4> DEFINE part == SubSeq(queue[c], 1, sent)
      <4>2. PICK i \in DOMAIN part : t = part[i].about
        BY <4>1, <1>2 DEF Receive
      <4>3. Len(queue[c]) \in Nat /\ sent \in Nat /\ sent < Len(queue[c])
        BY <2>3, <4>1, LenProperties
      <4>4. DOMAIN part = 1..sent /\ \A k \in 1..sent : part[k] = queue[c][k]
        BY <2>3, <4>3
      <4> QED
        BY <4>2, <4>3, <4>4
    <3> QED
      BY <2>2, <3>1, <3>2
  <2>5. queue[c][i] \in Packet
    BY <2>3, ElementOfSeq
  <2> QED
    BY <2>3, <2>4, <2>5 DEF Packet, IInv, ConnInv, Queued
<1> QED
  BY <1>1, <1>2

LEMMA ToldStep ==
  ASSUME IInv, Next, Grow
  PROVE  ToldInv'
<1> SUFFICES ASSUME NEW t \in told' PROVE t \in About /\ Saved(t)'
  BY DEF ToldInv, ToldIsSaved
<1> QED
  BY ToldFrom, SavedStays DEF IInv

-----------------------------------------------------------------------------
(* The tables of an episode. *)

\* Who is between two writes of a round changes only with the job of the one
\* who moves.
LEMMA BetweenMoves ==
  ASSUME NEW c \in Conns, Local(c), NEW p, NEW e, NEW pcs
  PROVE  Between(p, e, pcs)' \ {c} = Between(p, e, pcs) \ {c}
BY DEF Between, Local

LEMMA BetweenFinite ==
  ASSUME NEW p, NEW e, NEW pcs
  PROVE  IsFiniteSet(Between(p, e, pcs)) /\ IsFiniteSet(Between(p, e, pcs)')
<1>1. Between(p, e, pcs) \in SUBSET Conns /\ Between(p, e, pcs)' \in SUBSET Conns
  BY DEF Between
<1> QED
  BY <1>1, DungeonAssumption, FS_Subset DEF DungeonAssumption

\* The rounds counted of an episode are the sum over its chapters.
LEMMA CountedTyped ==
  ASSUME dungeons \in Rows, NEW p \in Players, NEW e \in Episodes
  PROVE  Counted(p, e) \in Nat
<1> DEFINE w == [h \in Chapters |-> dungeons[p][e][h].count]
<1>1. IsFiniteSet(Chapters)
  BY DungeonAssumption DEF DungeonAssumption
<1>2. \A h \in Chapters : w[h] \in Nat
  BY RowTyped
<1> HIDE DEF w
<1>3. SumFunctionOnSet(w, Chapters) \in Nat
  BY <1>1, <1>2, SumAtLeast
<1> QED
  BY <1>3 DEF Counted, w

LEMMA SameRows ==
  ASSUME NEW p, NEW e, dungeons'[p][e] = dungeons[p][e]
  PROVE  Marked(p, e)' = Marked(p, e) /\ Counted(p, e)' = Counted(p, e)
BY DEF Marked, Counted

\* The rest of an episode's state and of the handlers at work on it stays.
LEMMA EpisodeKept ==
  ASSUME NEW p \in Players, NEW e \in Episodes, EpisodeInv(p, e),
         dungeons'[p][e] = dungeons[p][e], replays'[p][e] = replays[p][e],
         records'[p][e] = records[p][e], torn \subseteq torn',
         \/ Between(p, e, {"decide", "record"})' = Between(p, e, {"decide", "record"})
         \/ torn' \cap {<<p, e, "decide">>, <<p, e, "record">>} # {}
         \/ records[p][e] # None,
         \/ Between(p, e, {"progress"})' = Between(p, e, {"progress"})
         \/ <<p, e, "progress">> \in torn'
  PROVE  EpisodeInv(p, e)'
<1> DEFINE before == Between(p, e, {"progress"})
           after == Between(p, e, {"progress"})'
           middle == Between(p, e, {"decide", "record"})
<1>1. Marked(p, e) =>
       \/ records'[p][e] # None
       \/ Between(p, e, {"decide", "record"})' # {}
       \/ torn' \cap {<<p, e, "decide">>, <<p, e, "record">>} # {}
  BY DEF EpisodeInv
<1>2. \/ <<p, e, "progress">> \in torn'
      \/ Cardinality(replays'[p][e]) <= Counted(p, e) + Cardinality(after)
  <2>1. <<p, e, "progress">> \in torn => <<p, e, "progress">> \in torn'
    OBVIOUS
  <2> QED
    BY <2>1 DEF EpisodeInv
<1>3. /\ \A h \in Chapters : RowInv(e, h, dungeons'[p][e][h])
      /\ records'[p][e] # None => \E h \in Chapters : dungeons'[p][e][h].count > 0 /\ dungeons'[p][e][h].rec
  BY DEF EpisodeInv
<1>4. Marked(p, e)' = Marked(p, e) /\ Counted(p, e)' = Counted(p, e)
  BY SameRows
<1>5. \A h \in Chapters : RowInv(e, h, dungeons[p][e][h])'
  BY <1>3 DEF RowInv
<1> QED
  BY <1>1, <1>2, <1>3, <1>4, <1>5 DEF EpisodeInv

\* Places at which a handler is between two writes of a round.
Midway == {"progress", "decide", "record"}

LEMMA EpisodeOfIdle ==
  ASSUME NEW c \in Conns, Local(c), job[c].pc \notin Midway, job'[c].pc \notin Midway,
         UNCHANGED tables, torn \subseteq torn',
         NEW p \in Players, NEW e \in Episodes, EpisodeInv(p, e)
  PROVE  EpisodeInv(p, e)'
<1>1. \A pcs \in SUBSET Midway : Between(p, e, pcs)' = Between(p, e, pcs)
  <2> SUFFICES ASSUME NEW pcs \in SUBSET Midway PROVE Between(p, e, pcs)' = Between(p, e, pcs)
    OBVIOUS
  <2>1. c \notin Between(p, e, pcs) /\ c \notin Between(p, e, pcs)'
    BY DEF Between
  <2> QED
    BY <2>1, BetweenMoves
<1>2. {"decide", "record"} \in SUBSET Midway /\ {"progress"} \in SUBSET Midway
  BY DEF Midway
<1> QED
  BY <1>1, <1>2, EpisodeKept DEF tables

\* The round of c moves from one place to another: what that means for an
\* episode that is not the one of its battle.
LEMMA EpisodeOfOther ==
  ASSUME NEW c \in Conns, Local(c), NEW p \in Players, NEW e \in Episodes, EpisodeInv(p, e),
         <<job[c].player, job[c].battle.episode>> # <<p, e>>,
         job'[c].player = job[c].player, job'[c].battle = job[c].battle,
         dungeons'[p][e] = dungeons[p][e], replays'[p][e] = replays[p][e],
         records'[p][e] = records[p][e], torn' = torn
  PROVE  EpisodeInv(p, e)'
<1>1. Between(p, e, {"decide", "record"})' = Between(p, e, {"decide", "record"})
  <2>0. c \notin Between(p, e, {"decide", "record"})
    BY DEF Between
  <2>1. c \notin Between(p, e, {"decide", "record"})'
    BY DEF Between
  <2>2. Between(p, e, {"decide", "record"})' \ {c} = Between(p, e, {"decide", "record"}) \ {c}
    BY BetweenMoves
  <2>3. \A d \in Conns : d \in Between(p, e, {"decide", "record"})' <=> d \in Between(p, e, {"decide", "record"})
    BY <2>0, <2>1, <2>2
  <2> QED
    BY <2>3 DEF Between
<1>2. Between(p, e, {"progress"})' = Between(p, e, {"progress"})
  <2>0. c \notin Between(p, e, {"progress"})
    BY DEF Between
  <2>1. c \notin Between(p, e, {"progress"})'
    BY DEF Between
  <2>2. Between(p, e, {"progress"})' \ {c} = Between(p, e, {"progress"}) \ {c}
    BY BetweenMoves
  <2>3. \A d \in Conns : d \in Between(p, e, {"progress"})' <=> d \in Between(p, e, {"progress"})
    BY <2>0, <2>1, <2>2
  <2> QED
    BY <2>3 DEF Between
<1> QED
  BY <1>1, <1>2, EpisodeKept

\* Where the job of c is, before and after a step that moves its round on.
LEMMA Moved ==
  ASSUME IInv, NEW c \in Conns, job[c].pc \in Replied, NEW x \in Replied,
         Then(c, [job[c] EXCEPT !.pc = x])
  PROVE  /\ job[c].player \in Players /\ job[c].battle.episode \in Episodes
         /\ job'[c].pc = x /\ job'[c].player = job[c].player /\ job'[c].battle = job[c].battle
<1>1. job[c] \in [pc : RoundPlaces, player : Players, battle : Battle]
  BY RoundJob DEF IInv, ConnInv, Replied, RoundPlaces
<1>2. job'[c] = [job[c] EXCEPT !.pc = x]
  BY DEF Then, IInv, Domains
<1>3. x \in RoundPlaces
  BY DEF Replied, RoundPlaces
<1>4. job'[c].pc = x /\ job'[c].player = job[c].player /\ job'[c].battle = job[c].battle
  BY <1>1, <1>2, <1>3, NewPlace
<1> QED
  BY <1>1, <1>4 DEF Battle

\* Saving a battle's operations adds at most one replay, and the handler that is
\* about to count it.
LEMMA EpisodeSaved ==
  ASSUME IInv, NEW c \in Conns, Local(c), SaveOperations(c), NEW p \in Players, NEW e \in Episodes
  PROVE  EpisodeInv(p, e)'
<1> DEFINE id == job[c].battle.id
           before == Between(p, e, {"progress"})
           after == Between(p, e, {"progress"})'
<1>0. EpisodeInv(p, e) /\ job[c].pc = "save"
  BY DEF IInv, SaveOperations
<1>1. /\ job[c].player \in Players /\ job[c].battle.episode \in Episodes
      /\ job'[c].pc = "progress" /\ job'[c].player = job[c].player /\ job'[c].battle = job[c].battle
  BY <1>0, Moved DEF SaveOperations, Replied
<1>2. /\ replays' = [replays EXCEPT ![job[c].player][job[c].battle.episode] = @ \cup {id}]
      /\ UNCHANGED <<dungeons, records, torn>>
  BY DEF SaveOperations, SaveRoundOperations
<1>3. CASE <<job[c].player, job[c].battle.episode>> # <<p, e>>
  <2>1. replays'[p][e] = replays[p][e]
    BY <1>1, <1>2, <1>3 DEF IInv, TableTypes
  <2> QED
    BY <1>0, <1>1, <1>2, <1>3, <2>1, EpisodeOfOther
<1>4. CASE job[c].player = p /\ job[c].battle.episode = e
  <2>1. replays'[p][e] = replays[p][e] \cup {id}
    BY <1>2, <1>4 DEF IInv, TableTypes
  <2>2. c \notin before /\ c \in after
    BY <1>0, <1>1, <1>4 DEF Between
  <2>3. after = before \cup {c}
    BY <2>2, BetweenMoves
  <2>4. IsFiniteSet(before) /\ IsFiniteSet(replays[p][e])
    BY BetweenFinite DEF IInv, TableTypes
  <2> DEFINE old == replays[p][e]
  <2> HIDE DEF old, before, after
  <2>5. Cardinality(before) \in Nat /\ Cardinality(before \cup {c}) = Cardinality(before) + 1
    BY <2>2, <2>4, FS_AddElement, FS_CardinalityType
  <2>6. Cardinality(old) \in Nat /\ Cardinality(old \cup {id}) \in {Cardinality(old), Cardinality(old) + 1}
    BY <2>4, FS_AddElement, FS_CardinalityType DEF old
  <2>7. Counted(p, e) \in Nat
    BY CountedTyped DEF IInv, TableTypes
  <2>8. <<p, e, "progress">> \in torn \/ Cardinality(old) <= Counted(p, e) + Cardinality(before)
    BY <1>0 DEF EpisodeInv, old, before
  <2>9. \/ <<p, e, "progress">> \in torn'
        \/ Cardinality(replays'[p][e]) <= Counted(p, e)' + Cardinality(after)
    <3>1. Cardinality(replays'[p][e]) \in {Cardinality(old), Cardinality(old) + 1}
      BY <2>1, <2>6 DEF old
    <3>2. Cardinality(after) = Cardinality(before) + 1
      BY <2>3, <2>5
    <3>3. Counted(p, e)' = Counted(p, e) /\ torn' = torn
      BY <1>2, SameRows
    <3>4. Cardinality(old) <= Counted(p, e) + Cardinality(before)
            => Cardinality(replays'[p][e]) <= Counted(p, e)' + Cardinality(after)
      BY <2>5, <2>6, <2>7, <3>1, <3>2, <3>3
    <3> QED
      BY <2>8, <3>3, <3>4
  <2>10. Between(p, e, {"decide", "record"})' = Between(p, e, {"decide", "record"})
    <3>1. c \notin Between(p, e, {"decide", "record"}) /\ c \notin Between(p, e, {"decide", "record"})'
      BY <1>0, <1>1 DEF Between
    <3> QED
      BY <3>1, BetweenMoves
  <2>11. Marked(p, e)' = Marked(p, e) /\ \A h \in Chapters : RowInv(e, h, dungeons[p][e][h])'
    BY <1>0, <1>2, SameRows DEF EpisodeInv, RowInv
  <2> QED
    BY <1>0, <1>2, <2>9, <2>10, <2>11 DEF EpisodeInv, after
<1> QED
  BY <1>3, <1>4

\* A round won is counted once, in the chapter of its battle, and earns two stars.
LEMMA CountedOnce ==
  ASSUME dungeons \in Rows, NEW p \in Players, NEW e \in Episodes, NEW h \in Chapters,
         UpdateDungeonProgress(p, e, h, 2)
  PROVE  Counted(p, e)' = Counted(p, e) + 1
<1> DEFINE v == [k \in Chapters |-> dungeons'[p][e][k].count]
           w == [k \in Chapters |-> dungeons[p][e][k].count]
<1>1. /\ dungeons' \in Rows
      /\ dungeons'[p][e][h].count = dungeons[p][e][h].count + 1
      /\ \A k \in Chapters \ {h} : dungeons'[p][e][k] = dungeons[p][e][k]
  BY Upserted
<1>2. \A k \in Chapters : v[k] \in Int /\ w[k] \in Int
  BY <1>1 DEF Rows, Row
<1>3. v[h] = w[h] + 1 /\ \A k \in Chapters \ {h} : v[k] = w[k]
  BY <1>1
<1>4. IsFiniteSet(Chapters)
  BY DungeonAssumption DEF DungeonAssumption
<1>5. Counted(p, e)' = SumFunctionOnSet(v, Chapters) /\ Counted(p, e) = SumFunctionOnSet(w, Chapters)
  BY DEF Counted
<1> HIDE DEF v, w
<1>6. /\ SumFunctionOnSet(v, Chapters) = SumFunctionOnSet(w, Chapters) - w[h] + v[h]
      /\ SumFunctionOnSet(w, Chapters) \in Int
  BY <1>2, <1>3, <1>4, SumChange
<1> QED
  BY <1>2, <1>3, <1>5, <1>6

LEMMA RowsEarned ==
  ASSUME dungeons \in Rows, NEW p \in Players, NEW e \in Episodes, NEW h \in Chapters,
         UpdateDungeonProgress(p, e, h, 2), \A k \in Chapters : RowInv(e, k, dungeons[p][e][k]),
         NEW k \in Chapters
  PROVE  RowInv(e, k, dungeons[p][e][k])'
<1>1. CASE k # h
  BY <1>1, Upserted DEF RowInv
<1>2. CASE k = h
  <2>1. dungeons[p][e][h].count \in Nat
    BY RowTyped
  <2>2. dungeons[p][e][h].star \in {0, 2}
    BY DEF RowInv
  <2>3. dungeons'[p][e][h].star = 2
    BY <2>2, Upserted
  <2>4. dungeons'[p][e][h].count > 0
    BY <2>1, Upserted
  <2> QED
    BY <1>2, <2>3, <2>4 DEF RowInv
<1> QED
  BY <1>1, <1>2

\* Counting it takes that handler away, and brings it to the record.
LEMMA EpisodeCounted ==
  ASSUME IInv, NEW c \in Conns, Local(c), Progress(c), NEW p \in Players, NEW e \in Episodes
  PROVE  EpisodeInv(p, e)'
<1> DEFINE before == Between(p, e, {"progress"})
           after == Between(p, e, {"progress"})'
<1>0. EpisodeInv(p, e) /\ job[c].pc = "progress" /\ TableTypes
  BY DEF IInv, Progress
<1>1. /\ job[c].player \in Players /\ job[c].battle.episode \in Episodes
      /\ job'[c].pc = "decide" /\ job'[c].player = job[c].player /\ job'[c].battle = job[c].battle
  BY <1>0, Moved DEF Progress, Replied
<1>2. /\ UpdateDungeonProgress(job[c].player, job[c].battle.episode, job[c].battle.chapter, 2)
      /\ UNCHANGED <<replays, records, torn>>
  BY DEF Progress
<1>5. dungeons \in Rows /\ job[c].battle.chapter \in Chapters
  BY <1>0, RoundJob DEF TableTypes, IInv, ConnInv, RoundPlaces, Battle
<1>3. CASE <<job[c].player, job[c].battle.episode>> # <<p, e>>
  <2>1. dungeons'[p][e] = dungeons[p][e]
    BY <1>1, <1>2, <1>3, <1>5, Upserted
  <2> QED
    BY <1>0, <1>1, <1>2, <1>3, <2>1, EpisodeOfOther
<1>4. CASE job[c].player = p /\ job[c].battle.episode = e
  <2> DEFINE h == job[c].battle.chapter
  <2>1. UpdateDungeonProgress(p, e, h, 2) /\ h \in Chapters
    BY <1>2, <1>4, <1>5
  <2> HIDE DEF h
  <2>a. dungeons'[p][e][h].rec /\ dungeons'[p][e][h].count \in Nat /\ dungeons'[p][e][h].count > 0
    BY <2>1, <1>5, RowTyped, Upserted
  <2>b. Counted(p, e)' = Counted(p, e) + 1
    BY <2>1, <1>5, CountedOnce
  <2>c. \A k \in Chapters : RowInv(e, k, dungeons[p][e][k])'
    BY <1>0, <2>1, <1>5, RowsEarned DEF EpisodeInv
  <2>2. c \in before /\ c \notin after
    BY <1>0, <1>1, <1>4 DEF Between
  <2>3. after = before \ {c}
    BY <2>2, BetweenMoves
  <2>4. IsFiniteSet(before) /\ IsFiniteSet(replays[p][e])
    BY <1>0, BetweenFinite DEF TableTypes
  <2> HIDE DEF before, after
  <2>5. Cardinality(before) \in Nat /\ Cardinality(before \ {c}) = Cardinality(before) - 1
    BY <2>2, <2>4, FS_RemoveElement, FS_CardinalityType
  <2>6. Cardinality(replays[p][e]) \in Nat
    BY <2>4, FS_CardinalityType
  <2>7. Counted(p, e) \in Nat
    BY <1>5, CountedTyped
  <2>8. <<p, e, "progress">> \in torn
          \/ Cardinality(replays[p][e]) <= Counted(p, e) + Cardinality(before)
    BY <1>0 DEF EpisodeInv, before
  <2>9. \/ <<p, e, "progress">> \in torn'
        \/ Cardinality(replays'[p][e]) <= Counted(p, e)' + Cardinality(after)
    BY <1>2, <2>b, <2>3, <2>5, <2>6, <2>7, <2>8
  <2>10. Between(p, e, {"decide", "record"})' # {}
    BY <1>1, <1>4 DEF Between
  <2>11. \E k \in Chapters : dungeons'[p][e][k].count > 0 /\ dungeons'[p][e][k].rec
    BY <2>1, <2>a
  <2> QED
    BY <2>c, <2>9, <2>10, <2>11 DEF EpisodeInv, after
<1> QED
  BY <1>3, <1>4

\* A handler leaves its record alone only if there is one.
LEMMA EpisodeDecided ==
  ASSUME IInv, NEW c \in Conns, Local(c), Decide(c), NEW p \in Players, NEW e \in Episodes
  PROVE  EpisodeInv(p, e)'
<1>0. EpisodeInv(p, e) /\ job[c].pc = "decide" /\ UNCHANGED <<dungeons, replays, records, torn>>
  BY DEF IInv, Decide, tables
<1>1. PICK x \in {"record", "result"} :
        /\ Then(c, [job[c] EXCEPT !.pc = x])
        /\ x = "result" => ~ShouldUpdateDungeonRecord(job[c].player, job[c].battle.episode, job[c].battle.group)
  BY DEF Decide
<1>2. /\ job'[c].pc = x /\ job'[c].player = job[c].player /\ job'[c].battle = job[c].battle
  BY <1>0, <1>1, Moved DEF Replied
<1>3. CASE <<job[c].player, job[c].battle.episode>> # <<p, e>>
  BY <1>0, <1>2, <1>3, EpisodeOfOther
<1>4. CASE job[c].player = p /\ job[c].battle.episode = e
  <2>1. Between(p, e, {"progress"})' = Between(p, e, {"progress"})
    <3>1. c \notin Between(p, e, {"progress"}) /\ c \notin Between(p, e, {"progress"})'
      BY <1>0, <1>2 DEF Between
    <3> QED
      BY <3>1, BetweenMoves
  <2>2. CASE x = "record"
    <3>1. c \in Between(p, e, {"decide", "record"}) /\ c \in Between(p, e, {"decide", "record"})'
      BY <1>0, <1>2, <1>4, <2>2 DEF Between
    <3>2. Between(p, e, {"decide", "record"})' = Between(p, e, {"decide", "record"})
      BY <3>1, BetweenMoves
    <3> QED
      BY <1>0, <2>1, <3>2, EpisodeKept
  <2>3. CASE x = "result"
    <3>1. records[p][e] # None
      BY <1>1, <1>4, <2>3 DEF ShouldUpdateDungeonRecord
    <3> QED
      BY <1>0, <2>1, <3>1, EpisodeKept
  <2> QED
    BY <2>2, <2>3
<1> QED
  BY <1>3, <1>4

\* A record is saved for an episode that was counted.
LEMMA EpisodeRecorded ==
  ASSUME IInv, NEW c \in Conns, Local(c), SaveRecord(c), NEW p \in Players, NEW e \in Episodes
  PROVE  EpisodeInv(p, e)'
<1> DEFINE g == Lineup(job[c].battle.group)
<1>0. EpisodeInv(p, e) /\ job[c].pc = "record" /\ UNCHANGED <<dungeons, replays, torn>>
  BY DEF IInv, SaveRecord
<1>1. /\ job[c].player \in Players /\ job[c].battle.episode \in Episodes
      /\ job'[c].pc = "result" /\ job'[c].player = job[c].player /\ job'[c].battle = job[c].battle
  BY <1>0, Moved DEF SaveRecord, Replied
<1>2. records' = [records EXCEPT ![job[c].player][job[c].battle.episode] = g]
  BY DEF SaveRecord
<1>3. CASE <<job[c].player, job[c].battle.episode>> # <<p, e>>
  <2>1. records'[p][e] = records[p][e]
    BY <1>1, <1>2, <1>3 DEF IInv, TableTypes
  <2> QED
    BY <1>0, <1>1, <1>3, <2>1, EpisodeOfOther
<1>4. CASE job[c].player = p /\ job[c].battle.episode = e
  <2>1. records'[p][e] = g
    BY <1>2, <1>4 DEF IInv, TableTypes
  <2>2. g # None
    <3>1. job[c].battle \in Battle
      BY <1>0, RoundJob DEF RoundPlaces, IInv, ConnInv
    <3> QED
      BY <3>1, DungeonAssumption DEF DungeonAssumption, Battle
  <2>3. \E h \in Chapters : dungeons[p][e][h].count > 0 /\ dungeons[p][e][h].rec
    <3>1. job[c].battle.chapter \in Chapters
      BY <1>0, RoundJob DEF IInv, ConnInv, RoundPlaces, Battle
    <3> QED
      BY <1>0, <1>4, <3>1 DEF IInv, ConnInv, Written
  <2>4. Between(p, e, {"progress"})' = Between(p, e, {"progress"})
    <3>1. c \notin Between(p, e, {"progress"}) /\ c \notin Between(p, e, {"progress"})'
      BY <1>0, <1>1 DEF Between
    <3> QED
      BY <3>1, BetweenMoves
  <2>5. Counted(p, e)' = Counted(p, e) /\ \A h \in Chapters : RowInv(e, h, dungeons[p][e][h])'
    BY <1>0, SameRows DEF EpisodeInv, RowInv
  <2> QED
    BY <1>0, <2>1, <2>2, <2>3, <2>4, <2>5 DEF EpisodeInv
<1> QED
  BY <1>3, <1>4

\* A handler that is cut short leaves a trace.
LEMMA EpisodeTorn ==
  ASSUME IInv, NEW c \in Conns, Local(c), DatabaseError(c), NEW p \in Players, NEW e \in Episodes
  PROVE  EpisodeInv(p, e)'
<1>0. /\ EpisodeInv(p, e) /\ UNCHANGED tables /\ Tear({c}) /\ job'[c] = NoJob
  BY DEF IInv, DatabaseError, Then, Domains
<1>1. torn \subseteq torn' /\ (job[c].pc \in Midway => <<job[c].player, job[c].battle.episode, job[c].pc>> \in torn')
  BY <1>0 DEF Tear, Midway
<1>2. \A pcs \in SUBSET Midway : c \notin Between(p, e, pcs)'
  BY <1>0 DEF Between, NoJob, Midway
<1>3. \A pcs \in SUBSET Midway : c \notin Between(p, e, pcs) => Between(p, e, pcs)' = Between(p, e, pcs)
  BY <1>2, BetweenMoves
<1>4. Between(p, e, {"decide", "record"})' = Between(p, e, {"decide", "record"})
        \/ torn' \cap {<<p, e, "decide">>, <<p, e, "record">>} # {}
  BY <1>1, <1>3 DEF Between, Midway
<1>5. Between(p, e, {"progress"})' = Between(p, e, {"progress"}) \/ <<p, e, "progress">> \in torn'
  BY <1>1, <1>3 DEF Between, Midway
<1> QED
  BY <1>0, <1>1, <1>4, <1>5, EpisodeKept DEF tables

LEMMA EpisodeCrash ==
  ASSUME IInv, Crash, NEW p \in Players, NEW e \in Episodes
  PROVE  EpisodeInv(p, e)'
<1>0. /\ EpisodeInv(p, e) /\ UNCHANGED tables /\ Tear(Conns) /\ \A c \in Conns : job'[c] = NoJob
  BY DEF IInv, Crash, tables
<1>1. torn \subseteq torn' /\ \A c \in Conns : job[c].pc \in Midway =>
                                  <<job[c].player, job[c].battle.episode, job[c].pc>> \in torn'
  BY <1>0 DEF Tear, Midway
<1>2. \A pcs \in SUBSET Midway : Between(p, e, pcs)' = {}
  BY <1>0 DEF Between, NoJob, Midway
<1>4. Between(p, e, {"decide", "record"})' = Between(p, e, {"decide", "record"})
        \/ torn' \cap {<<p, e, "decide">>, <<p, e, "record">>} # {}
  BY <1>1, <1>2 DEF Between, Midway
<1>5. Between(p, e, {"progress"})' = Between(p, e, {"progress"}) \/ <<p, e, "progress">> \in torn'
  BY <1>1, <1>2 DEF Between, Midway
<1> QED
  BY <1>0, <1>1, <1>4, <1>5, EpisodeKept DEF tables

LEMMA EpisodeStep ==
  ASSUME IInv, Next, NEW p \in Players, NEW e \in Episodes
  PROVE  EpisodeInv(p, e)'
<1>0. EpisodeInv(p, e) /\ Domains /\ TableTypes
  BY DEF IInv
<1>1. CASE Crash
  BY <1>1, EpisodeCrash
<1>2. CASE \E c \in Conns : ConnStep(c)
  <2>1. PICK c \in Conns : ConnStep(c)
    BY <1>2
  <2>2. Local(c)
    BY <1>0, <2>1, RequestLocal, WorkLocal, RestLocal DEF ConnStep
  <2>3. CASE DatabaseError(c)
    BY <2>2, <2>3, EpisodeTorn
  <2>4. CASE SaveOperations(c) \/ Progress(c) \/ Decide(c) \/ SaveRecord(c)
    BY <2>2, <2>4, EpisodeSaved, EpisodeCounted, EpisodeDecided, EpisodeRecorded
  <2>5. CASE StoryProgress(c)
    <3>1. job[c].pc = "story" /\ UpdateDungeonProgress(job[c].player, job[c].episode, job[c].chapter, 1)
          /\ UNCHANGED <<replays, records, torn>>
      BY <2>5 DEF StoryProgress
    <3>2. /\ job[c].player \in Players /\ job[c].episode \in Stories /\ job[c].chapter \in Chapters
          /\ job[c] \in [pc : {"story", "story_row"}, player : Players, episode : Stories, chapter : Chapters]
      BY <3>1, StoryJob DEF IInv, ConnInv
    <3>3. dungeons'[p][e] = dungeons[p][e]
      BY <1>0, <3>1, <3>2, DungeonAssumption, Upserted DEF DungeonAssumption, TableTypes
    <3>4. job'[c].pc = "story_row"
      BY <1>0, <2>5, <3>2 DEF StoryProgress, Then, Domains
    <3>5. /\ Between(p, e, {"decide", "record"})' = Between(p, e, {"decide", "record"})
          /\ Between(p, e, {"progress"})' = Between(p, e, {"progress"})
      <4>1. /\ c \notin Between(p, e, {"decide", "record"}) /\ c \notin Between(p, e, {"decide", "record"})'
            /\ c \notin Between(p, e, {"progress"}) /\ c \notin Between(p, e, {"progress"})'
        BY <3>1, <3>4 DEF Between
      <4> QED
        BY <2>2, <4>1, BetweenMoves
    <3> QED
      BY <1>0, <3>1, <3>3, <3>5, EpisodeKept
  <2>6. CASE Request(c)
    <3>1. UNCHANGED tables /\ torn' = torn
      BY <1>0, <2>6, RequestLocal
    <3>2. job[c].pc \notin Midway /\ job'[c].pc \notin Midway
      <4> USE DEF Midway, NoJob
      <4>1. job[c] = NoJob /\ Domains
        BY <1>0, <2>6 DEF Request, OnLogin, OnStartDungeon, OnStartStory, OnStartTowerBattle, OnBeginRound,
           OnAutoRound, PlayRound, EndBattle, OnGetFightOper, OnGetFightRecordGroup, OnReconnectFight,
           BadRequest, Read, IInv, ConnInv
      <4>2. CASE OnLogin(c) \/ OnStartDungeon(c) \/ OnStartStory(c)
        BY <4>1, <4>2 DEF OnLogin, OnStartDungeon, OnStartStory, Then, Domains
      <4>3. CASE OnBeginRound(c) \/ OnAutoRound(c)
        <5>1. PICK opers : PlayRound(c, opers)
          BY <4>3 DEF OnBeginRound, OnAutoRound
        <5>2. \/ Then(c, [pc |-> "computed", player |-> player[c], battle |-> battle[c]])
              \/ job' = job
          BY <5>1 DEF PlayRound
        <5> QED
          BY <4>1, <5>2 DEF Then, Domains
      <4>4. CASE ~(OnLogin(c) \/ OnStartDungeon(c) \/ OnStartStory(c) \/ OnBeginRound(c) \/ OnAutoRound(c))
        <5>1. job' = job
          BY <2>6, <4>4 DEF Request, OnStartTowerBattle, EndBattle, OnGetFightOper,
             OnGetFightRecordGroup, OnReconnectFight, BadRequest, dungeonVars
        <5> QED
          BY <4>1, <5>1
      <4> QED
        BY <4>1, <4>2, <4>3, <4>4
    <3> QED
      BY <1>0, <2>2, <3>1, <3>2, EpisodeOfIdle
  <2>7. CASE Network(c) \/ Disconnect(c)
    <3>1. UNCHANGED tables /\ torn' = torn /\ job' = job
      BY <2>7 DEF Network, Disconnect, dungeonVars, tables
    <3>2. job[c] = NoJob
      BY <2>7 DEF Network, Accept, Leave, Flush, FlushFails, Disconnect, Close, IInv, ConnInv
    <3> QED
      BY <1>0, <2>2, <3>1, <3>2, EpisodeOfIdle DEF Midway, NoJob
  <2>8. CASE LoggedIn(c) \/ StartRow(c) \/ StoryRow(c) \/ QueueReply(c) \/ Result(c)
    <3>1. UNCHANGED tables /\ torn' = torn
      BY <2>8 DEF LoggedIn, StartRow, StoryRow, QueueReply, Result, tables
    <3>2. job[c].pc \notin Midway
      BY <2>8 DEF LoggedIn, StartRow, StoryRow, QueueReply, Result, Midway
    <3>3. job'[c].pc \notin Midway
      <4>1. CASE QueueReply(c)
        <5>1. job[c] \in [pc : RoundPlaces, player : Players, battle : Battle]
          BY <4>1, RoundJob DEF QueueReply, RoundPlaces, IInv, ConnInv
        <5>2. \E x \in {"result", "save"} : job'[c] = [job[c] EXCEPT !.pc = x]
          BY <1>0, <4>1 DEF QueueReply, Then, Domains
        <5>3. job'[c].pc \in {"result", "save"}
          BY <5>1, <5>2
        <5> QED
          BY <5>3 DEF Midway
      <4>2. CASE ~QueueReply(c)
        BY <1>0, <2>8, <4>2, SMTT(30) DEF LoggedIn, StartRow, StoryRow, Result, Then, Domains, Midway, NoJob
      <4> QED
        BY <4>1, <4>2
    <3> QED
      BY <1>0, <2>2, <3>1, <3>2, <3>3, EpisodeOfIdle
  <2> QED
    BY <2>1, <2>3, <2>4, <2>5, <2>6, <2>7, <2>8 DEF ConnStep, Work
<1> QED
  BY <1>1, <1>2 DEF Next, ConnStep

-----------------------------------------------------------------------------
LEMMA InitInv == Init => IInv
<1> SUFFICES ASSUME Init PROVE IInv
  OBVIOUS
<1>1. Domains
  BY DEF Init, SessionInit, Domains
<1>2. TableTypes
  BY FS_EmptySet DEF Init, TableTypes, Rows, Row, FirstRow, NoRow
<1>3. ASSUME NEW c \in Conns PROVE ConnInv(c)
  <2>1. /\ phase[c] = "none" /\ player[c] = None /\ queue[c] = <<>> /\ asked[c] = 0
        /\ battle[c] = None /\ job[c] = NoJob
    BY DEF Init, SessionInit
  <2>2. Typed(c)
    BY <2>1 DEF Typed, Phases, Jobs
  <2>3. Written(job[c]) /\ Queued(c)
    BY <2>1 DEF Written, NoJob, Queued
  <2> QED
    BY <2>1, <2>2, <2>3 DEF ConnInv
<1>4. ASSUME NEW p \in Players, NEW e \in Episodes PROVE EpisodeInv(p, e)
  <2>1. replays[p][e] = {} /\ records[p][e] = None
    BY DEF Init
  <2>2. \A h \in Chapters : RowInv(e, h, dungeons[p][e][h]) /\ ~dungeons[p][e][h].rec
    BY DEF Init, FirstRow, NoRow, RowInv
  <2>3. Cardinality({}) = 0 /\ Cardinality(Between(p, e, {"progress"})) \in Nat
    BY FS_EmptySet, BetweenFinite, FS_CardinalityType
  <2>4. Counted(p, e) \in Nat
    BY <1>2, CountedTyped DEF TableTypes
  <2> QED
    BY <2>1, <2>2, <2>3, <2>4 DEF EpisodeInv, Marked
<1>5. ToldInv
  BY DEF Init, SessionInit, ToldInv, ToldIsSaved
<1> QED
  BY <1>1, <1>2, <1>3, <1>4, <1>5 DEF IInv

LEMMA StutterInv == IInv /\ UNCHANGED vars => IInv'
<1> SUFFICES ASSUME IInv, UNCHANGED vars PROVE IInv'
  OBVIOUS
<1> USE DEF vars, sessionVars, dungeonVars
<1>1. Domains' /\ TableTypes'
  BY DEF IInv, Domains, TableTypes
<1>2. ASSUME NEW c \in Conns PROVE ConnInv(c)'
  <2>1. ConnInv(c)
    BY DEF IInv
  <2>2. Typed(c)' /\ Written(job[c])'
    BY <2>1 DEF ConnInv, Typed, Written
  <2>3. \A t : Saved(t)' <=> Saved(t)
    BY DEF Saved, Marked
  <2>4. Queued(c)'
    BY <2>1, <2>3 DEF ConnInv, Queued, RoundReply
  <2> QED
    BY <2>1, <2>2, <2>4 DEF ConnInv
<1>3. ASSUME NEW p \in Players, NEW e \in Episodes PROVE EpisodeInv(p, e)'
  <2>1. EpisodeInv(p, e) /\ UNCHANGED <<dungeons, replays, records, torn, job>>
    BY DEF IInv, tables
  <2>2. /\ Between(p, e, {"decide", "record"})' = Between(p, e, {"decide", "record"})
        /\ Between(p, e, {"progress"})' = Between(p, e, {"progress"})
    BY <2>1 DEF Between
  <2> QED
    BY <2>1, <2>2, EpisodeKept
<1>4. ToldInv'
  BY DEF IInv, ToldInv, ToldIsSaved, Saved, Marked
<1> QED
  BY <1>1, <1>2, <1>3, <1>4 DEF IInv

\* Each handler has written what its place says, its queue holds nothing else than
\* the reply of the round it saves, and the tables of an episode agree but for the
\* rounds being saved and those cut short.
THEOREM Invariance == Spec => []IInv
<1>1. IInv /\ [Next]_vars => IInv'
  <2> SUFFICES ASSUME IInv, Next PROVE IInv'
    BY StutterInv
  <2>1. Grow
    BY GrowStep DEF IInv, ConnInv
  <2> QED
    BY <2>1, ConnStepInv, EpisodeStep, ToldStep DEF IInv, Grow
<1> QED
  BY <1>1, InitInv, PTL DEF Spec

\* Though replies are queued before the tables are written (begin_round.rs), no
\* client ever learns of a round, a story, a first clear, a replay or a record that
\* is not stored, whatever database call, socket or process fails.
THEOREM NothingToldUnsaved == Spec => []ToldIsSaved
<1>1. IInv => ToldIsSaved
  BY DEF IInv, ToldInv
<1> QED
  BY <1>1, Invariance, PTL

\* The replays, the counts and the records of an episode agree whenever no handler
\* is between two of its writes and none was cut short there, with any number of
\* connections of one player at once.
THEOREM TablesAlwaysAgree == Spec => []TablesAgree
<1>1. IInv => TablesAgree
  <2> SUFFICES ASSUME IInv, NEW p \in Players, NEW e \in Episodes
               PROVE  /\ Between(p, e, {"progress"}) = {} /\ <<p, e, "progress">> \notin torn
                           => Cardinality(replays[p][e]) <= Counted(p, e)
                      /\ Between(p, e, {"decide", "record"}) = {}
                           /\ torn \cap {<<p, e, "decide">>, <<p, e, "record">>} = {}
                           => (Marked(p, e) => records[p][e] # None)
                      /\ records[p][e] # None => \E h \in Chapters : dungeons[p][e][h].count > 0
                      /\ \A h \in Chapters : RowInv(e, h, dungeons[p][e][h])
    BY DEF TablesAgree, RowInv
  <2>1. EpisodeInv(p, e) /\ Counted(p, e) \in Nat
    BY CountedTyped DEF IInv, TableTypes
  <2>2. Cardinality({}) = 0
    BY FS_EmptySet
  <2>3. Between(p, e, {"progress"}) = {} /\ <<p, e, "progress">> \notin torn
          => Cardinality(replays[p][e]) <= Counted(p, e)
    <3>1. Between(p, e, {"progress"}) = {}
            => Counted(p, e) + Cardinality(Between(p, e, {"progress"})) = Counted(p, e)
      BY <2>1, <2>2
    <3>2. <<p, e, "progress">> \notin torn
            => Cardinality(replays[p][e]) <= Counted(p, e) + Cardinality(Between(p, e, {"progress"}))
      BY <2>1, Zenon DEF EpisodeInv
    <3> QED
      BY <3>1, <3>2, Zenon
  <2>4. Between(p, e, {"decide", "record"}) = {}
          /\ torn \cap {<<p, e, "decide">>, <<p, e, "record">>} = {}
          => (Marked(p, e) => records[p][e] # None)
    BY <2>1, Zenon DEF EpisodeInv
  <2>5. records[p][e] # None => \E h \in Chapters : dungeons[p][e][h].count > 0
    BY <2>1, Zenon DEF EpisodeInv
  <2>6. \A h \in Chapters : RowInv(e, h, dungeons[p][e][h])
    BY <2>1 DEF EpisodeInv
  <2> QED
    BY <2>3, <2>4, <2>5, <2>6, Zenon
<1> QED
  BY <1>1, Invariance, PTL

-----------------------------------------------------------------------------
(* The order of the answers. *)

\* The reply of a request is the first packet queued for it, and the only one
\* that carries its tag.
Tagged(c) ==
  \A i \in 1..Len(queue[c]) : queue[c][i].tag = IF i = 1 THEN asked[c] ELSE NoTag

\* Answers have come for every packet read but the one being handled, and in
\* the order they were read.
Order(c) ==
  /\ opened[c] \in 0..asked[c] /\ asked[c] \in 0..MaxRequests[c]
  /\ answers[c] \in Seq(Nat)
  /\ \A i \in 1..Len(answers[c]) : answers[c][i] = opened[c] + i
  /\ phase[c] = "reading" => opened[c] + Len(answers[c]) = asked[c]
  /\ phase[c] \in {"handling", "flushing"} =>
       opened[c] + Len(answers[c]) + 1 = asked[c] /\ Tagged(c)
  /\ phase[c] = "handling" /\ job[c].pc \in Replied => Len(queue[c]) = 1
  /\ phase[c] = "flushing" => Len(queue[c]) > 0

\* Only a player has a battle, and only while its connection lasts.
BattleOwned(c) == battle[c] # None => player[c] # None /\ phase[c] # "none"

OInv ==
  /\ phase \in [Conns -> Phases]
  /\ DOMAIN opened = Conns /\ DOMAIN answers = Conns
  /\ faults \in 0..MaxFaults /\ now \in 0..MaxTime
  /\ \A c \in Conns : Order(c) /\ BattleOwned(c)

\* A step of connection c leaves the answers of the others alone.
Elsewhere(c) ==
  /\ phase' \in [Conns -> Phases]
  /\ DOMAIN opened' = Conns /\ DOMAIN answers' = Conns
  /\ faults' \in 0..MaxFaults /\ now' \in 0..MaxTime
  /\ \A d \in Conns \ {c} : opened'[d] = opened[d] /\ answers'[d] = answers[d]

\* A client that receives what was queued for its request receives its tag.
LEMMA TagsQueued ==
  ASSUME NEW q \in Seq(Packet), NEW n \in Nat, n # NoTag,
         \A i \in 1..Len(q) : q[i].tag = IF i = 1 THEN n ELSE NoTag
  PROVE  Tags(q) = IF Len(q) = 0 THEN <<>> ELSE <<n>>
<1>0. Len(q) \in Nat /\ DOMAIN q = 1..Len(q)
  BY LenProperties
<1>1. CASE Len(q) = 0
  <2>1. Replies(q) = {}
    BY <1>0, <1>1 DEF Replies
  <2>2. Cardinality(Replies(q)) = 0
    BY <2>1, FS_EmptySet
  <2> QED
    BY <1>1, <2>2 DEF Tags
<1>2. CASE Len(q) > 0
  <2>1. Replies(q) = {1} /\ q[1].tag = n
    BY <1>0, <1>2 DEF Replies
  <2>0. {j \in {1} : j <= 1} = {1}
    OBVIOUS
  <2>2. Cardinality({1}) = 1
    BY FS_Singleton
  <2>3. Nth({1}, 1) = 1
    BY <2>0, <2>2 DEF Nth
  <2>4. Tags(q) = [k \in 1..1 |-> q[Nth({1}, k)].tag]
    BY <2>1, <2>2 DEF Tags
  <2>5. [k \in 1..1 |-> q[Nth({1}, k)].tag] = <<n>>
    BY <2>1, <2>3
  <2> QED
    BY <1>2, <2>4, <2>5
<1> QED
  BY <1>0, <1>1, <1>2

\* Answers that count on from o.
Counting(s, o) == s \in Seq(Nat) /\ \A i \in 1..Len(s) : s[i] = o + i

\* The next answer keeps the order.
LEMMA NextAnswer ==
  ASSUME NEW s, NEW o \in Nat, NEW n \in Nat, Counting(s, o), o + Len(s) + 1 = n
  PROVE  Counting(s \o <<n>>, o) /\ o + Len(s \o <<n>>) = n
<1>s. s \in Seq(Nat) /\ \A i \in 1..Len(s) : s[i] = o + i
  BY DEF Counting
<1>0. Len(s) \in Nat
  BY <1>s, LenProperties
<1>1. <<n>> \in Seq(Nat) /\ Len(<<n>>) = 1 /\ <<n>>[1] = n
  OBVIOUS
<1> DEFINE t == s \o <<n>>
<1>2. /\ t \in Seq(Nat) /\ Len(t) = Len(s) + 1
      /\ \A i \in 1..Len(t) : t[i] = IF i <= Len(s) THEN s[i] ELSE n
  <2>1. /\ t \in Seq(Nat) /\ Len(t) = Len(s) + Len(<<n>>)
        /\ \A i \in 1..(Len(s) + Len(<<n>>)) :
             t[i] = IF i <= Len(s) THEN s[i] ELSE <<n>>[i - Len(s)]
    BY <1>s, <1>1, ConcatProperties
  <2> HIDE DEF t
  <2>2. ASSUME NEW i \in 1..Len(t) PROVE t[i] = IF i <= Len(s) THEN s[i] ELSE n
    <3>1. i > Len(s) => i - Len(s) = 1
      BY <1>0, <1>1, <2>1
    <3> QED
      BY <1>1, <2>1, <3>1
  <2> QED
    BY <1>1, <2>1, <2>2
<1> HIDE DEF t
<1>3. ASSUME NEW i \in 1..Len(t) PROVE t[i] = o + i
  <2>1. CASE i <= Len(s)
    <3>1. i \in 1..Len(s)
      BY <1>0, <1>2, <2>1
    <3>2. t[i] = s[i]
      BY <1>2, <2>1
    <3> QED
      BY <1>s, <3>1, <3>2
  <2>2. CASE ~(i <= Len(s))
    <3>1. i = Len(s) + 1
      BY <1>0, <1>2, <2>2
    <3> QED
      BY <1>0, <1>2, <2>2, <3>1
  <2> QED
    BY <2>1, <2>2
<1>4. o + Len(t) = n
  BY <1>0, <1>2
<1>5. Counting(t, o)
  BY <1>2, <1>3 DEF Counting
<1> QED
  BY <1>4, <1>5 DEF t

LEMMA OrderOthers ==
  ASSUME NEW c \in Conns, NEW d \in Conns \ {c}, Local(c), Elsewhere(c), Order(d), BattleOwned(d)
  PROVE  Order(d)' /\ BattleOwned(d)'
<1>1. /\ phase'[d] = phase[d] /\ player'[d] = player[d] /\ queue'[d] = queue[d]
      /\ asked'[d] = asked[d] /\ battle'[d] = battle[d] /\ job'[d] = job[d]
      /\ opened'[d] = opened[d] /\ answers'[d] = answers[d]
  BY DEF Local, Elsewhere
<1> QED
  BY <1>1 DEF Order, BattleOwned, Tagged

-----------------------------------------------------------------------------
LEMMA GotoTyped ==
  ASSUME phase \in [Conns -> Phases], NEW c \in Conns, NEW x \in Phases, Goto(c, x)
  PROVE  phase' \in [Conns -> Phases] /\ phase'[c] = x
BY DEF Goto

\* The clock stays within its bound.
LEMMA ClockBound ==
  ASSUME now \in 0..MaxTime, NEW c \in Conns, NEW e, NEW h, NEW g, NEW isReplay,
         NewBattle(c, e, h, g, isReplay)
  PROVE  now' \in 0..MaxTime
<1>1. MaxTime \in Nat
  BY DungeonAssumption DEF DungeonAssumption
<1> QED
  BY <1>1 DEF NewBattle

\* Only the network brings answers: a request and its handler do not.
LEMMA RequestElsewhere ==
  ASSUME OInv, NEW c \in Conns, Request(c)
  PROVE  Elsewhere(c) /\ opened' = opened /\ answers' = answers
<1> USE DEF Elsewhere, OInv
<1>0. {"handling", "flushing", "closing"} \subseteq Phases
  BY DEF Phases
<1>1. ASSUME NEW x \in {"handling", "flushing", "closing"}, Goto(c, x)
      PROVE  phase' \in [Conns -> Phases]
  BY <1>0, <1>1, GotoTyped
<1>2. CASE OnLogin(c) \/ OnStartStory(c)
  BY <1>1, <1>2 DEF OnLogin, OnStartStory, Continue
<1>3. CASE OnStartDungeon(c)
  <2>1. now' \in 0..MaxTime
    BY <1>3, ClockBound DEF OnStartDungeon
  <2> QED
    BY <1>1, <1>3, <2>1 DEF OnStartDungeon, Continue
<1>4. CASE OnStartTowerBattle(c)
  <2>1. now' \in 0..MaxTime
    BY <1>4, ClockBound DEF OnStartTowerBattle
  <2> QED
    BY <1>1, <1>4, <2>1 DEF OnStartTowerBattle, Finish
<1>5. CASE OnBeginRound(c) \/ OnAutoRound(c)
  <2>1. PICK opers : PlayRound(c, opers)
    BY <1>5 DEF OnBeginRound, OnAutoRound
  <2>2. (Continue(c, <<>>) \/ Refuse(c)) /\ UNCHANGED <<faults, now>>
    BY <2>1 DEF PlayRound
  <2> QED
    BY <1>1, <2>2 DEF Continue, Refuse
<1>6. CASE EndBattle(c)
  BY <1>1, <1>6 DEF EndBattle, Answer, Finish
<1>7. CASE OnGetFightOper(c)
  BY <1>1, <1>7 DEF OnGetFightOper, Answer, Finish, dungeonVars
<1>8. CASE OnGetFightRecordGroup(c)
  BY <1>1, <1>8 DEF OnGetFightRecordGroup, Answer, Finish, dungeonVars
<1>9. CASE OnReconnectFight(c)
  BY <1>1, <1>9 DEF OnReconnectFight, Answer, Finish, dungeonVars
<1>10. CASE BadRequest(c)
  BY <1>1, <1>10 DEF BadRequest, Refuse, dungeonVars
<1> QED
  BY <1>2, <1>3, <1>4, <1>5, <1>6, <1>7, <1>8, <1>9, <1>10 DEF Request

LEMMA WorkElsewhere ==
  ASSUME OInv, NEW c \in Conns, Work(c)
  PROVE  Elsewhere(c) /\ opened' = opened /\ answers' = answers /\ UNCHANGED <<asked, player, battle>>
<1> USE DEF Elsewhere, OInv
<1>0. {"handling", "flushing", "closing"} \subseteq Phases
  BY DEF Phases
<1>1. ASSUME NEW x \in {"handling", "flushing", "closing"}, Goto(c, x)
      PROVE  phase' \in [Conns -> Phases]
  BY <1>0, <1>1, GotoTyped
<1>2. CASE LoggedIn(c) \/ StartRow(c) \/ StoryRow(c)
  BY <1>1, <1>2 DEF LoggedIn, StartRow, StoryRow, Finish, Refuse
<1>3. CASE QueueReply(c)
  BY <1>1, <1>3 DEF QueueReply, Continue
<1>4. CASE Result(c)
  BY <1>1, <1>4 DEF Result, Finish, Refuse
<1>5. CASE StoryProgress(c) \/ SaveOperations(c) \/ Progress(c) \/ Decide(c) \/ SaveRecord(c)
  BY <1>5 DEF StoryProgress, SaveOperations, Progress, Decide, SaveRecord, sessionVars
<1> QED
  BY <1>2, <1>3, <1>4, <1>5 DEF Work

LEMMA RestElsewhere ==
  ASSUME OInv, NEW c \in Conns, Network(c) \/ DatabaseError(c) \/ Disconnect(c)
  PROVE  Elsewhere(c)
<1> USE DEF Elsewhere, OInv
<1>0. {"reading", "closing", "none"} \subseteq Phases /\ MaxFaults \in Nat
  BY DungeonAssumption DEF Phases, DungeonAssumption
<1>1. ASSUME NEW x \in {"reading", "closing", "none"}, Goto(c, x)
      PROVE  phase' \in [Conns -> Phases]
  BY <1>0, <1>1, GotoTyped
<1>2. CASE (Accept(c) \/ Leave(c) \/ Flush(c)) /\ UNCHANGED dungeonVars
  BY <1>1, <1>2 DEF Accept, Leave, Flush, Receive, dungeonVars
<1>3. CASE FlushFails(c) /\ UNCHANGED dungeonVars
  <2>1. PICK sent \in 0..(Len(queue[c]) - 1) : Receive(c, SubSeq(queue[c], 1, sent))
    BY <1>3 DEF FlushFails
  <2>2. faults' \in 0..MaxFaults
    BY <1>0, <1>3 DEF FlushFails
  <2> QED
    BY <1>1, <1>3, <2>1, <2>2 DEF FlushFails, Receive, dungeonVars
<1>4. CASE DatabaseError(c)
  <2>1. faults' \in 0..MaxFaults
    BY <1>0, <1>4 DEF DatabaseError
  <2> QED
    BY <1>1, <1>4, <2>1 DEF DatabaseError, Refuse
<1>5. CASE Disconnect(c)
  BY <1>1, <1>5 DEF Disconnect, Close
<1> QED
  BY <1>2, <1>3, <1>4, <1>5 DEF Network

\* The order of a connection that has one request to answer.
LEMMA OrderMade ==
  ASSUME NEW c \in Conns,
         opened'[c] \in 0..asked'[c], asked'[c] \in 0..MaxRequests[c],
         answers'[c] \in Seq(Nat),
         \A i \in 1..Len(answers'[c]) : answers'[c][i] = opened'[c] + i,
         opened'[c] + Len(answers'[c]) + 1 = asked'[c], Tagged(c)',
         phase'[c] # "reading",
         phase'[c] = "handling" => job'[c].pc \notin Replied,
         phase'[c] = "flushing" => Len(queue'[c]) > 0
  PROVE  Order(c)'
BY Zenon DEF Order

\* A request read, or one being handled, that is answered and ends.
LEMMA OrderAnswered ==
  ASSUME NEW c \in Conns, Order(c), queue[c] = <<>>,
         \/ phase[c] = "reading" /\ asked'[c] = asked[c] + 1 /\ asked'[c] <= MaxRequests[c]
         \/ phase[c] = "handling" /\ asked'[c] = asked[c],
         opened'[c] = opened[c], answers'[c] = answers[c], phase'[c] = "flushing",
         NEW about, queue'[c] = <<Reply(asked'[c], about)>>
  PROVE  Order(c)'
<1>0. MaxRequests[c] \in Nat /\ Len(answers[c]) \in Nat /\ asked[c] \in Nat /\ opened[c] \in Nat
  BY DungeonAssumption, LenProperties DEF DungeonAssumption, Order
<1>1. asked'[c] \in 0..MaxRequests[c] /\ opened'[c] + Len(answers'[c]) + 1 = asked'[c]
  BY <1>0 DEF Order
<1>2. Len(queue'[c]) = 1 /\ queue'[c][1].tag = asked'[c]
  BY DEF Reply
<1>3. Tagged(c)'
  BY <1>2 DEF Tagged
<1>4. opened'[c] \in 0..asked'[c]
  BY <1>0, <1>1
<1>5. \A i \in 1..Len(answers'[c]) : answers'[c][i] = opened'[c] + i
  BY DEF Order
<1>6. answers'[c] \in Seq(Nat)
  BY DEF Order
<1>7. phase'[c] # "reading" /\ phase'[c] # "handling" /\ Len(queue'[c]) > 0
  BY <1>2
<1> QED
  BY <1>1, <1>3, <1>4, <1>5, <1>6, <1>7, OrderMade, Zenon

\* A request read that is being handled, with nothing queued.
LEMMA OrderStarts ==
  ASSUME NEW c \in Conns, Order(c),
         \/ phase[c] = "reading" /\ asked'[c] = asked[c] + 1 /\ asked'[c] <= MaxRequests[c]
         \/ phase[c] = "handling" /\ asked'[c] = asked[c],
         opened'[c] = opened[c], answers'[c] = answers[c], phase'[c] = "handling",
         queue'[c] = <<>>, job'[c].pc \notin Replied
  PROVE  Order(c)'
<1>0. MaxRequests[c] \in Nat /\ Len(answers[c]) \in Nat /\ asked[c] \in Nat /\ opened[c] \in Nat
  BY DungeonAssumption, LenProperties DEF DungeonAssumption, Order
<1>1. asked'[c] \in 0..MaxRequests[c] /\ opened'[c] + Len(answers'[c]) + 1 = asked'[c]
  BY <1>0 DEF Order
<1>3. Tagged(c)'
  BY DEF Tagged
<1>4. opened'[c] \in 0..asked'[c]
  BY <1>0, <1>1
<1>5. \A i \in 1..Len(answers'[c]) : answers'[c][i] = opened'[c] + i
  BY DEF Order
<1>6. answers'[c] \in Seq(Nat)
  BY DEF Order
<1>7. phase'[c] # "reading" /\ phase'[c] # "flushing"
  OBVIOUS
<1> QED
  BY <1>1, <1>3, <1>4, <1>5, <1>6, <1>7, OrderMade, Zenon

\* A connection that closes has told what it told.
LEMMA OrderCloses ==
  ASSUME NEW c \in Conns, Order(c), phase'[c] \in {"closing", "none"},
         asked'[c] \in asked[c]..MaxRequests[c],
         opened'[c] = opened[c], answers'[c] = answers[c]
  PROVE  Order(c)'
<1>0. MaxRequests[c] \in Nat /\ asked[c] \in Nat /\ opened[c] \in 0..asked[c]
  BY DungeonAssumption DEF DungeonAssumption, Order
<1>1. asked'[c] \in 0..MaxRequests[c] /\ opened'[c] \in 0..asked'[c]
  BY <1>0
<1>2. answers'[c] \in Seq(Nat) /\ \A i \in 1..Len(answers'[c]) : answers'[c][i] = opened'[c] + i
  BY DEF Order
<1> QED
  BY <1>1, <1>2 DEF Order

LEMMA OneReply ==
  ASSUME NEW n, NEW about
  PROVE  <<>> \o <<Reply(n, about)>> = <<Reply(n, about)>>
OBVIOUS

\* Three ways to deal with a packet just read: it is answered at once, its
\* handler goes on, or it is refused.
LEMMA AnswerOrder ==
  ASSUME IInv, OInv, NEW c \in Conns, Read(c), NEW about, Answer(c, about),
         opened' = opened, answers' = answers
  PROVE  Order(c)' /\ phase'[c] = "flushing"
<1>0. ConnInv(c) /\ Domains /\ Order(c)
  BY DEF IInv, OInv
<1>1. phase[c] = "reading" /\ queue[c] = <<>> /\ asked'[c] = asked[c] + 1 /\ asked'[c] \in Nat
  BY <1>0, AtRead
<1>2. asked'[c] <= MaxRequests[c]
  <2>1. asked[c] \in Nat /\ MaxRequests[c] \in Nat /\ asked[c] < MaxRequests[c]
    BY <1>0, DungeonAssumption DEF Order, DungeonAssumption, Read
  <2> QED
    BY <1>1, <2>1
<1>3. phase'[c] = "flushing" /\ queue'[c] = queue[c] \o <<Reply(asked'[c], about)>>
  BY <1>0 DEF Answer, Finish, Goto, Domains
<1>4. queue'[c] = <<Reply(asked'[c], about)>>
  BY <1>1, <1>3, OneReply
<1> QED
  BY <1>0, <1>1, <1>2, <1>3, <1>4, OrderAnswered

LEMMA StartOrder ==
  ASSUME IInv, OInv, NEW c \in Conns, Read(c), Continue(c, <<>>), NEW j, Then(c, j),
         j.pc \notin Replied, opened' = opened, answers' = answers
  PROVE  Order(c)' /\ phase'[c] = "handling"
<1>0. ConnInv(c) /\ Domains /\ Order(c)
  BY DEF IInv, OInv
<1>1. phase[c] = "reading" /\ queue[c] = <<>> /\ asked'[c] = asked[c] + 1 /\ asked'[c] \in Nat
  BY <1>0, AtRead
<1>2. asked'[c] <= MaxRequests[c]
  <2>1. asked[c] \in Nat /\ MaxRequests[c] \in Nat /\ asked[c] < MaxRequests[c]
    BY <1>0, DungeonAssumption DEF Order, DungeonAssumption, Read
  <2> QED
    BY <1>1, <2>1
<1>3. phase'[c] = "handling" /\ queue'[c] = queue[c] \o <<>> /\ job'[c] = j
  BY <1>0 DEF Continue, Goto, Then, Domains
<1>4. queue'[c] = <<>>
  <2>1. <<>> \o <<>> = <<>>
    OBVIOUS
  <2> QED
    BY <1>1, <1>3, <2>1
<1> QED
  BY <1>0, <1>1, <1>2, <1>3, <1>4, OrderStarts

LEMMA RefuseOrder ==
  ASSUME IInv, OInv, NEW c \in Conns, Read(c), Refuse(c), opened' = opened, answers' = answers
  PROVE  Order(c)' /\ phase'[c] = "closing"
<1>0. ConnInv(c) /\ Domains /\ Order(c)
  BY DEF IInv, OInv
<1>1. asked'[c] = asked[c] + 1
  BY <1>0, AtRead
<1>2. asked'[c] \in asked[c]..MaxRequests[c]
  <2>1. asked[c] \in Nat /\ MaxRequests[c] \in Nat /\ asked[c] < MaxRequests[c]
    BY <1>0, DungeonAssumption DEF Order, DungeonAssumption, Read
  <2> QED
    BY <1>1, <2>1
<1>3. phase'[c] = "closing"
  BY <1>0 DEF Refuse, Goto, Domains
<1> QED
  BY <1>0, <1>2, <1>3, OrderCloses

LEMMA RequestOrder ==
  ASSUME IInv, OInv, NEW c \in Conns, Request(c)
  PROVE  Order(c)' /\ BattleOwned(c)'
<1>0. /\ opened' = opened /\ answers' = answers
      /\ BattleOwned(c) /\ Domains
  BY RequestElsewhere DEF OInv, IInv
<1>1. CASE OnLogin(c)
  <2>1. PICK p \in Players : player' = [player EXCEPT ![c] = p]
    BY <1>1 DEF OnLogin
  <2>2. player'[c] # None /\ battle' = battle /\ Read(c) /\ Continue(c, <<>>) /\ Then(c, [pc |-> "login"])
    BY <1>0, <1>1, <2>1, DungeonAssumption DEF OnLogin, Domains, DungeonAssumption
  <2>3. Order(c)' /\ phase'[c] = "handling"
    BY <1>0, <2>2, StartOrder DEF Replied
  <2> QED
    BY <2>2, <2>3 DEF BattleOwned
<1>2. CASE OnStartDungeon(c)
  <2>1. player' = player /\ player[c] # None /\ Read(c) /\ Continue(c, <<>>) /\ Then(c, [pc |-> "start_row"])
    BY <1>2 DEF OnStartDungeon
  <2>2. Order(c)' /\ phase'[c] = "handling"
    BY <1>0, <2>1, StartOrder DEF Replied
  <2> QED
    BY <2>1, <2>2 DEF BattleOwned
<1>3. CASE OnStartStory(c)
  <2>1. PICK e \in Stories, h \in Named[c] :
          Then(c, [pc |-> "story", player |-> player[c], episode |-> e, chapter |-> h])
    BY <1>3 DEF OnStartStory
  <2>2. player' = player /\ player[c] # None /\ Read(c) /\ Continue(c, <<>>)
    BY <1>3 DEF OnStartStory
  <2>3. [pc |-> "story", player |-> player[c], episode |-> e, chapter |-> h].pc \notin Replied
    BY DEF Replied
  <2>4. Order(c)' /\ phase'[c] = "handling"
    BY <1>0, <2>1, <2>2, <2>3, StartOrder
  <2> QED
    BY <2>2, <2>4 DEF BattleOwned
<1>4. CASE OnStartTowerBattle(c)
  <2>1. player' = player /\ player[c] # None /\ Read(c) /\ Answer(c, Nothing)
    BY <1>4 DEF OnStartTowerBattle, Answer
  <2>2. Order(c)' /\ phase'[c] = "flushing"
    BY <1>0, <2>1, AnswerOrder
  <2> QED
    BY <2>1, <2>2 DEF BattleOwned
<1>5. CASE OnBeginRound(c) \/ OnAutoRound(c)
  <2>1. PICK opers : PlayRound(c, opers)
    BY <1>5 DEF OnBeginRound, OnAutoRound
  <2>2. Read(c) /\ player[c] # None /\ player' = player
    BY <2>1 DEF PlayRound
  <2>3. \/ Then(c, [pc |-> "computed", player |-> player[c], battle |-> battle[c]]) /\ Continue(c, <<>>)
        \/ Refuse(c)
    BY <2>1 DEF PlayRound
  <2>4. CASE Then(c, [pc |-> "computed", player |-> player[c], battle |-> battle[c]]) /\ Continue(c, <<>>)
    <3>1. [pc |-> "computed", player |-> player[c], battle |-> battle[c]].pc \notin Replied
      BY DEF Replied
    <3>2. Order(c)' /\ phase'[c] = "handling"
      BY <1>0, <2>2, <2>4, <3>1, StartOrder
    <3> QED
      BY <2>2, <3>2 DEF BattleOwned
  <2>5. CASE Refuse(c)
    <3>1. Order(c)' /\ phase'[c] = "closing"
      BY <1>0, <2>2, <2>5, RefuseOrder
    <3> QED
      BY <2>2, <3>1 DEF BattleOwned
  <2> QED
    BY <2>3, <2>4, <2>5
<1>6. CASE EndBattle(c) \/ OnReconnectFight(c)
  <2>1. Read(c) /\ Answer(c, Nothing) /\ player' = player
    BY <1>6 DEF EndBattle, OnReconnectFight
  <2>2. battle'[c] = None \/ battle' = battle
    BY <1>0, <1>6 DEF EndBattle, OnReconnectFight, Domains, dungeonVars
  <2>3. Order(c)' /\ phase'[c] = "flushing"
    BY <1>0, <2>1, AnswerOrder
  <2> QED
    BY <1>0, <2>1, <2>2, <2>3 DEF BattleOwned
<1>7. CASE OnGetFightOper(c)
  <2>1. PICK about : Answer(c, about)
    BY <1>7 DEF OnGetFightOper
  <2>2. Read(c) /\ player' = player /\ battle' = battle
    BY <1>7 DEF OnGetFightOper, dungeonVars
  <2>3. Order(c)' /\ phase'[c] = "flushing"
    BY <1>0, <2>1, <2>2, AnswerOrder
  <2> QED
    BY <1>0, <2>2, <2>3 DEF BattleOwned
<1>8. CASE OnGetFightRecordGroup(c)
  <2>1. PICK about : Answer(c, about)
    BY <1>8 DEF OnGetFightRecordGroup
  <2>2. Read(c) /\ player' = player /\ battle' = battle
    BY <1>8 DEF OnGetFightRecordGroup, dungeonVars
  <2>3. Order(c)' /\ phase'[c] = "flushing"
    BY <1>0, <2>1, <2>2, AnswerOrder
  <2> QED
    BY <1>0, <2>2, <2>3 DEF BattleOwned
<1>9. CASE BadRequest(c)
  <2>1. Read(c) /\ Refuse(c) /\ player' = player /\ battle' = battle
    BY <1>9 DEF BadRequest, dungeonVars
  <2>2. Order(c)' /\ phase'[c] = "closing"
    BY <1>0, <2>1, RefuseOrder
  <2> QED
    BY <1>0, <2>1, <2>2 DEF BattleOwned
<1> QED
  BY <1>1, <1>2, <1>3, <1>4, <1>5, <1>6, <1>7, <1>8, <1>9 DEF Request

LEMMA WorkOrder ==
  ASSUME IInv, OInv, NEW c \in Conns, Work(c)
  PROVE  Order(c)' /\ BattleOwned(c)'
<1>0. /\ opened' = opened /\ answers' = answers /\ UNCHANGED <<asked, player, battle>>
      /\ ConnInv(c) /\ Order(c) /\ BattleOwned(c) /\ Domains
  BY WorkElsewhere DEF OInv, IInv
<1>1. phase[c] = "handling"
  <2>1. job[c].pc # "none"
    BY DEF Work, LoggedIn, StartRow, StoryProgress, StoryRow, QueueReply, SaveOperations,
       Progress, Decide, SaveRecord, Result
  <2> QED
    BY <1>0, <2>1 DEF ConnInv, NoJob
<1>2. asked'[c] = asked[c] /\ opened'[c] = opened[c] /\ answers'[c] = answers[c]
  BY <1>0
<1>3. SUFFICES Order(c)' /\ phase'[c] # "none"
  BY <1>0 DEF BattleOwned
<1>9. CASE (StartRow(c) \/ Result(c)) /\ Refuse(c)
  <2>1. phase'[c] = "closing"
    BY <1>0, <1>9 DEF Refuse, Goto, Domains
  <2>2. asked'[c] \in asked[c]..MaxRequests[c]
    BY <1>0, <1>2 DEF Order
  <2> QED
    BY <1>0, <1>2, <2>1, <2>2, OrderCloses
<1>4. CASE (LoggedIn(c) \/ StartRow(c) \/ StoryRow(c)) /\ ~(StartRow(c) /\ Refuse(c))
  <2>1. job[c].pc \in {"login", "start_row", "story_row"}
    BY <1>4 DEF LoggedIn, StartRow, StoryRow
  <2>2. queue[c] = <<>>
    BY <1>0, <1>1, <2>1, QueueEmpty DEF Replied
  <2>3. PICK about : Finish(c, <<Reply(asked[c], about)>>)
    BY <1>4 DEF LoggedIn, StartRow, StoryRow
  <2>4. phase'[c] = "flushing" /\ queue'[c] = queue[c] \o <<Reply(asked[c], about)>>
    BY <1>0, <2>3 DEF Finish, Goto, Domains
  <2>5. queue'[c] = <<Reply(asked'[c], about)>>
    BY <1>2, <2>2, <2>4, OneReply
  <2> QED
    BY <1>0, <1>1, <1>2, <2>2, <2>4, <2>5, OrderAnswered
<1>5. CASE StoryProgress(c)
  <2>1. job[c].pc = "story" /\ UNCHANGED <<phase, queue>> /\ Then(c, [job[c] EXCEPT !.pc = "story_row"])
    BY <1>5 DEF StoryProgress, sessionVars
  <2>2. queue'[c] = <<>>
    BY <1>0, <1>1, <2>1, QueueEmpty DEF Replied
  <2>3. job'[c].pc \notin Replied
    <3>1. job[c] \in [pc : {"story", "story_row"}, player : Players, episode : Stories, chapter : Chapters]
      BY <1>0, <2>1, StoryJob DEF ConnInv
    <3>2. job'[c].pc = "story_row"
      BY <1>0, <2>1, <3>1 DEF Then, Domains
    <3> QED
      BY <3>2 DEF Replied
  <2> QED
    BY <1>0, <1>1, <1>2, <2>1, <2>2, <2>3, OrderStarts
<1>6. CASE QueueReply(c)
  <2>1. job[c].pc = "computed"
    BY <1>6 DEF QueueReply
  <2>2. queue[c] = <<>>
    BY <1>0, <1>1, <2>1, QueueEmpty DEF Replied
  <2>3. PICK about : Continue(c, <<Reply(asked[c], about)>>)
    BY <1>6 DEF QueueReply
  <2>4. phase'[c] = "handling" /\ queue'[c] = queue[c] \o <<Reply(asked[c], about)>>
    BY <1>0, <2>3 DEF Continue, Goto, Domains
  <2>5. queue'[c] = <<Reply(asked[c], about)>>
    BY <2>2, <2>4, OneReply
  <2>6. Len(queue'[c]) = 1 /\ Tagged(c)'
    BY <1>2, <2>5 DEF Tagged, Reply
  <2> QED
    BY <1>0, <1>1, <1>2, <2>4, <2>6 DEF Order
<1>7. CASE SaveOperations(c) \/ Progress(c) \/ Decide(c) \/ SaveRecord(c)
  <2>1. UNCHANGED <<phase, queue>> /\ job[c].pc \in Replied
    BY <1>7 DEF SaveOperations, Progress, Decide, SaveRecord, sessionVars, Replied
  <2>2. Len(queue'[c]) = 1 /\ Tagged(c)'
    BY <1>0, <1>1, <2>1 DEF Order, Tagged
  <2> QED
    BY <1>0, <1>1, <1>2, <2>1, <2>2 DEF Order
<1>8. CASE Result(c) /\ ~Refuse(c)
  <2>1. job[c].pc = "result" /\ Len(queue[c]) = 1 /\ queue[c][1].tag = asked[c] /\ queue[c] \in Seq(Packet)
    BY <1>0, <1>1, <1>8, SMTT(30) DEF Result, Replied, Order, Tagged, ConnInv, Typed
  <2>2. PICK about : Finish(c, <<Push(about)>>)
    BY <1>8 DEF Result
  <2>3. phase'[c] = "flushing" /\ queue'[c] = queue[c] \o <<Push(about)>>
    BY <1>0, <2>2 DEF Finish, Goto, Domains
  <2> DEFINE packet == Push(about)
  <2>4. packet.tag = NoTag
    BY DEF Push
  <2> HIDE DEF packet
  <2>5. /\ Len(queue'[c]) = 2 /\ queue'[c][1] = queue[c][1] /\ queue'[c][2] = packet
    BY <2>1, <2>3 DEF packet
  <2>6. Tagged(c)'
    <3>1. \A i \in 1..Len(queue'[c]) : i = 1 \/ i = 2
      BY <2>5
    <3>2. queue'[c][1].tag = asked'[c] /\ queue'[c][2].tag = NoTag
      BY <1>2, <2>1, <2>4, <2>5
    <3> QED
      BY <3>1, <3>2 DEF Tagged
  <2> QED
    BY <1>0, <1>1, <1>2, <2>3, <2>5, <2>6 DEF Order
<1> QED
  BY <1>4, <1>5, <1>6, <1>7, <1>8, <1>9 DEF Work

\* A flush that sends some of what is queued, all of it or not.
LEMMA FlushedSome ==
  ASSUME IInv, OInv, NEW c \in Conns, phase[c] = "flushing", NEW sent \in 0..Len(queue[c]),
         Receive(c, SubSeq(queue[c], 1, sent)), UNCHANGED <<asked, opened>>
  PROVE  /\ answers'[c] \in Seq(Nat)
         /\ \A i \in 1..Len(answers'[c]) : answers'[c][i] = opened'[c] + i
         /\ sent > 0 => opened'[c] + Len(answers'[c]) = asked'[c]
<1> DEFINE part == SubSeq(queue[c], 1, sent)
           n == asked[c]
<1>0. /\ queue[c] \in Seq(Packet) /\ Order(c) /\ DOMAIN answers = Conns /\ Len(queue[c]) \in Nat
      /\ Len(answers[c]) \in Nat
  BY LenProperties DEF IInv, ConnInv, Typed, OInv, Order
<1>1. /\ part \in Seq(Packet) /\ Len(part) = sent
      /\ \A i \in 1..sent : part[i] = queue[c][i]
  BY <1>0
<1>2. answers'[c] = answers[c] \o Tags(part)
  BY <1>0 DEF Receive
<1>3. n \in Nat /\ n # NoTag /\ opened[c] \in Nat /\ opened[c] + Len(answers[c]) + 1 = n
  BY <1>0 DEF Order, NoTag
<1> HIDE DEF part
<1>4. \A i \in 1..Len(part) : part[i].tag = IF i = 1 THEN n ELSE NoTag
  <2>1. \A i \in 1..Len(queue[c]) : queue[c][i].tag = IF i = 1 THEN n ELSE NoTag
    BY <1>0 DEF Order, Tagged
  <2>2. 1..sent \subseteq 1..Len(queue[c])
    BY <1>0
  <2> QED
    BY <1>1, <2>1, <2>2
<1> HIDE DEF n
<1>5. Tags(part) = IF Len(part) = 0 THEN <<>> ELSE <<n>>
  BY <1>1, <1>3, <1>4, TagsQueued
<1>6. (Tags(part) = <<>> \/ Tags(part) = <<n>>) /\ (sent > 0 => Tags(part) = <<n>>)
  BY <1>0, <1>1, <1>5
<1>7. answers[c] \in Seq(Nat) /\ \A i \in 1..Len(answers[c]) : answers[c][i] = opened[c] + i
  BY <1>0 DEF Order
<1>8. CASE Tags(part) = <<>>
  <2>1. answers'[c] = answers[c] /\ <<n>> # <<>>
    BY <1>2, <1>7, <1>8
  <2> QED
    BY <1>6, <1>7, <1>8, <2>1
<1>9. CASE Tags(part) = <<n>>
  <2> DEFINE all == answers[c] \o <<n>>
  <2>1. Counting(answers[c], opened[c])
    BY <1>7 DEF Counting
  <2>2. Counting(all, opened[c]) /\ opened[c] + Len(all) = n
    BY <1>3, <2>1, NextAnswer, Zenon
  <2>3. answers'[c] = all
    BY <1>2, <1>9
  <2> HIDE DEF all
  <2> QED
    BY <2>2, <2>3 DEF n, Counting
<1> QED
  BY <1>6, <1>8, <1>9

LEMMA RestOrder ==
  ASSUME IInv, OInv, NEW c \in Conns, Network(c) \/ DatabaseError(c) \/ Disconnect(c)
  PROVE  Order(c)' /\ BattleOwned(c)'
<1>0. ConnInv(c) /\ Order(c) /\ BattleOwned(c) /\ Domains /\ DOMAIN opened = Conns /\ DOMAIN answers = Conns
  BY DEF OInv, IInv
<1>n. asked[c] \in Nat /\ asked[c] \in asked[c]..MaxRequests[c]
  BY <1>0, DungeonAssumption DEF Order, DungeonAssumption
<1>1. CASE Accept(c) /\ UNCHANGED dungeonVars
  <2>1. /\ phase[c] = "none" /\ phase'[c] = "reading" /\ opened'[c] = asked[c] /\ answers'[c] = <<>>
        /\ asked' = asked /\ battle' = battle
    BY <1>0, <1>1 DEF Accept, Goto, Domains, dungeonVars
  <2>2. <<>> \in Seq(Nat) /\ Len(<<>>) = 0 /\ asked[c] \in 0..asked[c] /\ asked[c] + 0 = asked[c]
    BY <1>n
  <2>3. Order(c)'
    BY <1>0, <2>1, <2>2 DEF Order
  <2> QED
    BY <1>0, <2>1, <2>3 DEF BattleOwned
<1>2. CASE Leave(c) /\ UNCHANGED dungeonVars
  <2>1. phase'[c] = "closing" /\ UNCHANGED <<asked, opened, answers, player, battle>> /\ phase[c] # "none"
    BY <1>0, <1>2 DEF Leave, Goto, Domains, dungeonVars
  <2> QED
    BY <1>0, <1>n, <2>1, OrderCloses DEF BattleOwned
<1>3. CASE Flush(c) /\ UNCHANGED dungeonVars
  <2>1. /\ phase[c] = "flushing" /\ phase'[c] = "reading" /\ UNCHANGED <<asked, opened, player, battle>>
        /\ Receive(c, queue[c])
    BY <1>0, <1>3 DEF Flush, Goto, Domains, dungeonVars
  <2>2. queue[c] \in Seq(Packet) /\ Len(queue[c]) \in Nat /\ Len(queue[c]) > 0
    BY <1>0, <2>1, LenProperties DEF ConnInv, Typed, Order
  <2>3. SubSeq(queue[c], 1, Len(queue[c])) = queue[c]
    BY <2>2, SubSeqFull
  <2>4. Len(queue[c]) \in 0..Len(queue[c])
    BY <2>2
  <2>5. /\ answers'[c] \in Seq(Nat)
        /\ \A i \in 1..Len(answers'[c]) : answers'[c][i] = opened'[c] + i
        /\ opened'[c] + Len(answers'[c]) = asked'[c]
    BY <2>1, <2>2, <2>3, <2>4, FlushedSome
  <2>6. Order(c)'
    BY <1>0, <2>1, <2>5 DEF Order
  <2> QED
    BY <1>0, <2>1, <2>6 DEF BattleOwned
<1>4. CASE FlushFails(c) /\ UNCHANGED dungeonVars
  <2>1. /\ phase[c] = "flushing" /\ phase'[c] = "closing" /\ UNCHANGED <<asked, opened, player, battle>>
    BY <1>0, <1>4 DEF FlushFails, Goto, Domains, dungeonVars
  <2>2. PICK sent \in 0..(Len(queue[c]) - 1) : Receive(c, SubSeq(queue[c], 1, sent))
    BY <1>4 DEF FlushFails
  <2>3. sent \in 0..Len(queue[c])
    <3>1. Len(queue[c]) \in Nat
      BY <1>0, LenProperties DEF ConnInv, Typed
    <3> QED
      BY <3>1
  <2>4. /\ answers'[c] \in Seq(Nat)
        /\ \A i \in 1..Len(answers'[c]) : answers'[c][i] = opened'[c] + i
    BY <2>1, <2>2, <2>3, FlushedSome
  <2>5. Order(c)'
    BY <1>0, <2>1, <2>4 DEF Order
  <2> QED
    BY <1>0, <2>1, <2>5 DEF BattleOwned
<1>5. CASE DatabaseError(c)
  <2>1. phase'[c] = "closing" /\ UNCHANGED <<asked, opened, answers, player, battle>>
    BY <1>0, <1>5 DEF DatabaseError, Refuse, Goto, Domains
  <2> QED
    BY <1>0, <1>n, <2>1, OrderCloses DEF BattleOwned
<1>6. CASE Disconnect(c)
  <2>1. phase'[c] = "none" /\ UNCHANGED <<asked, opened, answers>> /\ battle'[c] = None
    BY <1>0, <1>6 DEF Disconnect, Close, Goto, Domains
  <2> QED
    BY <1>0, <1>n, <2>1, OrderCloses DEF BattleOwned
<1> QED
  BY <1>1, <1>2, <1>3, <1>4, <1>5, <1>6 DEF Network

LEMMA CrashOrder ==
  ASSUME IInv, OInv, Crash
  PROVE  OInv'
<1>1. phase' \in [Conns -> Phases]
  BY DEF Crash, Phases
<1>2. faults' \in 0..MaxFaults
  <2>1. MaxFaults \in Nat
    BY DungeonAssumption DEF DungeonAssumption
  <2> QED
    BY <2>1 DEF Crash, OInv
<1>3. ASSUME NEW c \in Conns PROVE Order(c)' /\ BattleOwned(c)'
  <2>1. phase'[c] = "none" /\ UNCHANGED <<asked, opened, answers>> /\ battle'[c] = None /\ Order(c)
    BY DEF Crash, OInv
  <2>2. asked[c] \in asked[c]..MaxRequests[c]
    BY <2>1, DungeonAssumption DEF Order, DungeonAssumption
  <2> QED
    BY <2>1, <2>2, OrderCloses DEF BattleOwned
<1> QED
  BY <1>1, <1>2, <1>3 DEF OInv, Crash

LEMMA InitOrder == Init => OInv
<1> SUFFICES ASSUME Init PROVE OInv
  OBVIOUS
<1>1. phase \in [Conns -> Phases] /\ DOMAIN opened = Conns /\ DOMAIN answers = Conns
  BY DEF Init, SessionInit, Phases
<1>2. 0 \in 0..MaxFaults /\ 0 \in 0..MaxTime
  BY DungeonAssumption DEF DungeonAssumption
<1>3. ASSUME NEW c \in Conns PROVE Order(c) /\ BattleOwned(c)
  <2>1. /\ phase[c] = "none" /\ asked[c] = 0 /\ opened[c] = 0 /\ answers[c] = <<>> /\ battle[c] = None
    BY DEF Init, SessionInit
  <2>2. MaxRequests[c] \in Nat /\ <<>> \in Seq(Nat)
    BY DungeonAssumption DEF DungeonAssumption
  <2> QED
    BY <2>1, <2>2 DEF Order, BattleOwned
<1> QED
  BY <1>1, <1>2, <1>3 DEF OInv, Init, SessionInit

LEMMA StutterOrder == OInv /\ UNCHANGED vars => OInv'
<1> SUFFICES ASSUME OInv, UNCHANGED vars PROVE OInv'
  OBVIOUS
<1> USE DEF vars, sessionVars, dungeonVars
<1>1. ASSUME NEW c \in Conns PROVE Order(c)' /\ BattleOwned(c)'
  BY DEF OInv, Order, Tagged, BattleOwned
<1> QED
  BY <1>1 DEF OInv

\* A connection has had the answers of all it asked since it was accepted, but for
\* the packet its handler is at work on, whose reply is the first one queued.
THEOREM AnswersNumbered == Spec => []OInv
<1>1. IInv /\ OInv /\ [Next]_vars => OInv'
  <2> SUFFICES ASSUME IInv, OInv, Next PROVE OInv'
    BY StutterOrder
  <2>1. CASE Crash
    BY <2>1, CrashOrder
  <2>2. CASE \E c \in Conns : ConnStep(c)
    <3>1. PICK c \in Conns : ConnStep(c)
      BY <2>2
    <3>2. Local(c) /\ Elsewhere(c)
      BY <3>1, RequestLocal, WorkLocal, RestLocal, RequestElsewhere, WorkElsewhere, RestElsewhere DEF ConnStep, IInv
    <3>3. Order(c)' /\ BattleOwned(c)'
      BY <3>1, RequestOrder, WorkOrder, RestOrder DEF ConnStep
    <3>4. \A d \in Conns \ {c} : Order(d)' /\ BattleOwned(d)'
      BY <3>2, OrderOthers DEF OInv
    <3> QED
      BY <3>2, <3>3, <3>4 DEF OInv, Elsewhere
  <2> QED
    BY <2>1, <2>2 DEF Next, ConnStep
<1> QED
  BY <1>1, InitOrder, Invariance, PTL DEF Spec

\* Whatever fails, what a client was told is stored, and it was answered in the
\* order it asked: no reply is skipped, repeated or overtaken, over any number of
\* connections and of requests (flush_send_queue, send_reply).
THEOREM AnswersAreSound == Spec => []AnsweredMeansSaved
<1>1. IInv /\ OInv => AnsweredMeansSaved
  <2> SUFFICES ASSUME IInv, OInv PROVE AnsweredMeansSaved
    OBVIOUS
  <2>1. TypeOK
    BY DEF IInv, OInv, ConnInv, Order, BattleOwned, TypeOK, SessionTypeOK
  <2>2. AnswersInOrder
    <3>1. ASSUME NEW c \in Conns PROVE DOMAIN answers[c] = 1..Len(answers[c])
      BY LenProperties DEF OInv, Order
    <3> QED
      BY <3>1 DEF OInv, Order, AnswersInOrder
  <2> QED
    BY <2>1, <2>2 DEF AnsweredMeansSaved, IInv, ToldInv
<1> QED
  BY <1>1, Invariance, AnswersNumbered, PTL

-----------------------------------------------------------------------------
(* Rounds: the effects of skills. *)

\* An effect of a step computed from the snapshot f.  Damage is of at least one
\* and hits an entity; a life to set is not above the maximum, or has no number
\* and is refused.
EffectTypes == {"Damage", "Heal", "AverageLife", "CurrentHpChange", "BuffAdd"}
StepKinds == {"Refresh", "Skill", "SelectCard", "ChangeHero", "EndTurn"}

Effects(f) ==
  {e \in [type : EffectTypes, target : Int, num : Int] :
     /\ e.type = "Damage" => e.target \in Entities(f) /\ e.num >= 1
     /\ e.type = "AverageLife" => e.num = NoNumber
     /\ e.type = "CurrentHpChange" /\ e.target \in Entities(f) => e.num <= f.max[e.target]}

Steps(f) ==
  [kind : StepKinds, from : Entities(f) \cup {Nobody}, skill : DOMAIN Skill \cup {NoSkill},
   effects : Seq(Effects(f))]

\* A fight whose entities are alive within their maxima.
Sane(f) ==
  /\ IsFiniteSet(Entities(f)) /\ Entities(f) \subseteq Int
  /\ f.side \in [Entities(f) -> {1, 2}]
  /\ f.max \in [Entities(f) -> Nat]
  /\ f.hp \in [Entities(f) -> Int]
  /\ \A u \in Entities(f) : f.hp[u] <= f.max[u]

SkillSlots == [does : STRING, at : STRING, num : Int, when : STRING]

LEMMA ShareOfLife ==
    ASSUME NEW a \in Nat, NEW b \in Nat
    PROVE -((a * b) \div 1000) \in Int /\ -((a * b) \div 1000) <= 0
<1>1. a * b \in Nat
  OBVIOUS
<1>2. \A n \in Nat : n \div 1000 \in Nat
  OBVIOUS
<1>3. (a * b) \div 1000 \in Nat
  BY <1>1, <1>2
<1>4. \A n \in Nat : -n \in Int /\ -n <= 0
  OBVIOUS
<1> QED
  BY <1>3, <1>4

LEMMA OneEffect ==
    ASSUME NEW f, NEW t \in EffectTypes, NEW u \in Int, NEW n \in Int,
           t = "Damage" => u \in Entities(f) /\ n >= 1,
           t = "AverageLife" => n = NoNumber,
           t = "CurrentHpChange" /\ u \in Entities(f) => n <= f.max[u]
    PROVE << Effect(t, u, n) >> \in Seq(Effects(f))
<1>1. Effect(t, u, n) \in Effects(f)
  BY DEF Effect, Effects
<1> QED
  BY <1>1

LEMMA DamageTyped ==
    ASSUME NEW f, Sane(f), NEW u, NEW n \in Int
    PROVE DamageEffects(f, u, n) \in Seq(Effects(f))
<1>1. AtLeastOne(n) \in Int /\ AtLeastOne(n) >= 1
  BY DEF AtLeastOne
<1>2. CASE u \in Entities(f)
  <2>1. u \in Int
    BY <1>2 DEF Sane
  <2>2. << Effect("Damage", u, AtLeastOne(n)) >> \in Seq(Effects(f))
    BY <1>1, <1>2, <2>1, OneEffect DEF EffectTypes
  <2> QED
    BY <1>2, <2>2 DEF DamageEffects
<1>3. CASE u \notin Entities(f)
  BY <1>3 DEF DamageEffects
<1> QED
  BY <1>2, <1>3

LEMMA BehaviorTyped ==
    ASSUME NEW f, Sane(f), NEW u \in Int, NEW slot \in SkillSlots,
           slot.does = "LostLife" => slot.num >= 0 /\ u \in Entities(f)
    PROVE BehaviorEffects(f, u, slot) \in Seq(Effects(f))
<1> DEFINE does == slot.does  num == slot.num
<1>0. num \in Int
  BY DEF SkillSlots
<1>e. <<>> \in Seq(Effects(f))
  OBVIOUS
<1>1. CASE does = "Damage"
  BY <1>0, <1>1, DamageTyped DEF BehaviorEffects
<1>2. CASE does = "Heal"
  <2>1. AtLeastOne(num) \in Int
    BY <1>0 DEF AtLeastOne
  <2> HIDE DEF num
  <2>2. << Effect("Heal", u, AtLeastOne(num)) >> \in Seq(Effects(f))
    BY <2>1, OneEffect DEF EffectTypes
  <2> QED
    BY <1>2, <2>2 DEF BehaviorEffects, num
<1>3. CASE does = "HealByTwoAttr"
  <2>1. CASE u \in Entities(f)
    <3> DEFINE n == f.max[u] - f.hp[u] + num
    <3>1. n \in Int
      BY <1>0, <2>1 DEF Sane
    <3> HIDE DEF n
    <3>2. << Effect("Heal", u, n) >> \in Seq(Effects(f))
      BY <3>1, OneEffect DEF EffectTypes
    <3> QED
      BY <1>3, <2>1, <3>2 DEF BehaviorEffects, n
  <2>2. CASE u \notin Entities(f)
    BY <1>3, <1>e, <2>2 DEF BehaviorEffects
  <2> QED
    BY <2>1, <2>2
<1>4. CASE does = "Bloodlust"
  <2>2. << Effect("Heal", u, num) >> \in Seq(Effects(f))
    BY <1>0, OneEffect DEF EffectTypes
  <2> QED
    BY <1>4, <2>2 DEF BehaviorEffects
<1>5. CASE does = "AverageLife"
  <2>1. NoNumber \in Int
    BY DEF NoNumber
  <2>2. << Effect("AverageLife", u, NoNumber) >> \in Seq(Effects(f))
    BY <2>1, OneEffect DEF EffectTypes
  <2> QED
    BY <1>5, <2>2 DEF BehaviorEffects
<1>6. CASE does = "LostLife"
  <2> DEFINE n == -((f.max[u] * num) \div 1000)
  <2>1. f.max[u] \in Nat /\ num \in Nat
    BY <1>0, <1>6 DEF Sane
  <2>2. n \in Int /\ n <= 0
    BY <2>1, ShareOfLife
  <2> HIDE DEF n
  <2>3. n <= f.max[u]
    BY <2>1, <2>2
  <2>4. << Effect("CurrentHpChange", u, n) >> \in Seq(Effects(f))
    BY <2>2, <2>3, OneEffect DEF EffectTypes
  <2> QED
    BY <1>6, <2>4 DEF BehaviorEffects, n
<1>7. CASE does = "AddBuff"
  <2>2. << Effect("BuffAdd", u, num) >> \in Seq(Effects(f))
    BY <1>0, OneEffect DEF EffectTypes
  <2> QED
    BY <1>7, <2>2 DEF BehaviorEffects
<1>8. CASE does \notin {"Damage", "Heal", "HealByTwoAttr", "Bloodlust", "AverageLife", "LostLife", "AddBuff"}
  BY <1>8, <1>e DEF BehaviorEffects
<1> QED
  BY <1>1, <1>2, <1>3, <1>4, <1>5, <1>6, <1>7, <1>8

LEMMA TargetsTyped ==
    ASSUME NEW f, Sane(f), NEW caster \in Entities(f), NEW target \in Int, NEW at
    PROVE Targets(f, caster, target, at) \subseteq Int /\ IsFiniteSet(Targets(f, caster, target, at))
<1> DEFINE T == Targets(f, caster, target, at)
<1>1. T \subseteq Entities(f) \cup {target}
  BY DEF Targets, Teammates
<1>2. IsFiniteSet(Entities(f) \cup {target}) /\ Entities(f) \subseteq Int
  BY FS_AddElement DEF Sane
<1>3. IsFiniteSet(T)
  <2> HIDE DEF T
  <2> QED
    BY <1>1, <1>2, FS_Subset
<1> QED
  BY <1>1, <1>2, <1>3

LEMMA SlotTyped ==
    ASSUME NEW f, Sane(f), NEW caster \in Entities(f), NEW target \in Int, NEW slot \in SkillSlots,
           slot.does = "LostLife" => slot.num >= 0
    PROVE SlotEffects(f, caster, target, slot) \in Seq(Effects(f))
<1> DEFINE who == IF slot.does \in {"LostLife", "Bloodlust"} THEN {caster}
                  ELSE Targets(f, caster, target, slot.at)
           n == Cardinality(who)
           ss == [i \in 1..n |-> BehaviorEffects(f, SetToSeq(who)[i], slot)]
<1>1. caster \in Int
  BY DEF Sane
<1>2. who \subseteq Int /\ IsFiniteSet(who)
  BY <1>1, TargetsTyped, FS_Singleton
<1>3. slot.does = "LostLife" => who = {caster}
  OBVIOUS
<1>9. SlotEffects(f, caster, target, slot) = IF Holds(slot.when) THEN FlattenSeq(ss) ELSE <<>>
  BY DEF SlotEffects
<1> HIDE DEF who
<1>4. n \in Nat /\ SetToSeq(who) \in Seq(who) /\ Len(SetToSeq(who)) = n
  <2>1. n \in Nat /\ ExistsBijection(1..n, who)
    BY <1>2, FS_CardinalityType
  <2>2. PICK g \in [1..n -> who] : IsInjective(g)
    BY <2>1 DEF ExistsBijection, Bijection, Injection, IsInjective
  <2>3. SetToSeq(who) \in [1..n -> who]
    BY <2>2 DEF SetToSeq
  <2> HIDE DEF n
  <2> QED
    BY <2>1, <2>3
<1>5. \A i \in 1..n : BehaviorEffects(f, SetToSeq(who)[i], slot) \in Seq(Effects(f))
  <2> TAKE i \in 1..n
  <2> DEFINE u == SetToSeq(who)[i]
  <2>1. u \in who
    BY <1>4
  <2> HIDE DEF u
  <2>2. u \in Int /\ (slot.does = "LostLife" => slot.num >= 0 /\ u \in Entities(f))
    BY <1>2, <1>3, <2>1
  <2>3. BehaviorEffects(f, u, slot) \in Seq(Effects(f))
    BY <2>2, BehaviorTyped
  <2> QED
    BY <2>3 DEF u
<1>6. ss = [i \in 1..n |-> ss[i]] /\ \A i \in 1..n : ss[i] \in Seq(Effects(f))
  BY <1>5
<1> HIDE DEF ss, n
<1>7. FlattenSeq(ss) \in Seq(Effects(f))
  BY <1>4, <1>6, FlatMade
<1> QED
  BY <1>7, <1>9

\* What a skill does to a sane fight are effects.
LEMMA SkillTyped ==
    ASSUME NEW f, Sane(f), NEW caster \in Entities(f), NEW target \in Int, NEW skill \in DOMAIN Skill
    PROVE /\ ExecuteSkill(f, caster, target, skill) \in Steps(f)
          /\ ExecuteSkill(f, caster, target, skill).from = caster
          /\ ExecuteSkill(f, caster, target, skill).skill = skill
<1> DEFINE slots == Skill[skill].slots
           n == Len(slots)
           ss == [i \in DOMAIN slots |-> SlotEffects(f, caster, target, slots[i])]
<1>1. /\ slots \in Seq(SkillSlots) /\ Skill[skill].rate \in Int
      /\ \A i \in DOMAIN slots : slots[i].does = "LostLife" => slots[i].num >= 0
  BY FightAssumption DEF SkillSlots
<1>2. n \in Nat /\ DOMAIN slots = 1..n /\ \A i \in 1..n : slots[i] \in SkillSlots
  BY <1>1
<1>3. \A i \in 1..n : ss[i] \in Seq(Effects(f))
  BY <1>1, <1>2, SlotTyped
<1>4. ss = [i \in 1..n |-> ss[i]]
  BY <1>2
<1>5. FlattenSeq(ss) \in Seq(Effects(f))
  <2> HIDE DEF ss, n
  <2> QED
    BY <1>2, <1>3, <1>4, FlatMade
<1>6. DamageEffects(f, target, Skill[skill].rate) \in Seq(Effects(f))
  BY <1>1, DamageTyped
<1> QED
  BY <1>5, <1>6 DEF ExecuteSkill, Steps, StepKinds

LEMMA OtherTyped ==
    ASSUME NEW f, NEW kind \in StepKinds
    PROVE OtherStep(kind) \in Steps(f) /\ OtherStep(kind).from = Nobody
  BY DEF OtherStep, Steps

-----------------------------------------------------------------------------
(* Rounds: the effects applied. *)

\* Pools that are full or have less than a point left over.
Pools ==
  {p \in [{1, 2} -> [value : Nat, acc : Nat]] :
     \A t \in {1, 2} : p[t].value <= PoolMax[t] /\ (p[t].acc < PerPoint \/ p[t].value = PoolMax[t])}

\* What may become of f while effects are applied.
Becomes(f) ==
  {h \in [side : {f.side}, model : {f.model}, max : {f.max},
          hp : [Entities(f) -> Int], pool : Pools] :
     \A u \in Entities(f) : h.hp[u] <= f.max[u]}

Results(f) == [ok : BOOLEAN, fight : Becomes(f)]

Worth(p) == PerPoint * p.value + p.acc

LEMMA Divided ==
    ASSUME NEW n \in Nat
    PROVE /\ n \div PerPoint \in Nat
          /\ PerPoint * (n \div PerPoint) <= n
          /\ n - PerPoint * (n \div PerPoint) < PerPoint
<1>1. PerPoint \in Nat /\ PerPoint > 0
  BY FightAssumption
<1> QED
  BY <1>1

\* A point is gained for every PerPoint lost as long as there is room, and what is
\* lost stays accounted for.
LEMMA PoolGains ==
    ASSUME NEW p \in [value : Nat, acc : Nat], NEW t \in {1, 2}, NEW n \in Nat,
           p.value <= PoolMax[t]
    PROVE LET q == HpLost(p, t, n) IN
          /\ q \in [value : Nat, acc : Nat]
          /\ q.value <= PoolMax[t] /\ (q.acc < PerPoint \/ q.value = PoolMax[t])
          /\ Worth(q) = Worth(p) + n
<1> DEFINE total == p.acc + n
           d == total \div PerPoint
           room == IF p.value < PoolMax[t] THEN PoolMax[t] - p.value ELSE 0
           gained == IF d < room THEN d ELSE room
           q == [value |-> p.value + gained, acc |-> total - gained * PerPoint]
<1>1. /\ PerPoint \in Nat /\ PerPoint > 0 /\ PoolMax[t] \in Nat /\ total \in Nat
      /\ p.value \in Nat /\ p.acc \in Nat
  BY FightAssumption
<1>2. d \in Nat /\ PerPoint * d <= total /\ total - PerPoint * d < PerPoint
  BY <1>1, Divided
<1>3. room \in Nat /\ p.value + room = PoolMax[t]
  BY <1>1
<1>4. HpLost(p, t, n) = q
  BY DEF HpLost
<1> HIDE DEF d, room
<1>5. gained \in Nat /\ gained <= d /\ gained <= room /\ (gained = d \/ gained = room)
  BY <1>2, <1>3
<1> HIDE DEF gained
<1>6. gained * PerPoint = PerPoint * gained /\ PerPoint * gained \in Nat
  BY <1>1, <1>5
<1>7. PerPoint * gained <= PerPoint * d
  <2>1. (d - gained) \in Nat
    BY <1>2, <1>5
  <2>2. PerPoint * (d - gained) \in Nat
    BY <1>1, <2>1
  <2>3. PerPoint * (d - gained) = PerPoint * d - PerPoint * gained
    BY <1>1, <1>2, <1>5
  <2>4. PerPoint * d \in Int
    BY <1>1, <1>2
  <2> QED
    BY <1>6, <2>2, <2>3, <2>4
<1>8. PerPoint * (p.value + gained) = PerPoint * p.value + PerPoint * gained
  BY <1>1, <1>5
<1>9. PerPoint * p.value \in Int /\ PerPoint * d \in Int
  BY <1>1, <1>2
<1> HIDE DEF total
<1>10. q \in [value : Nat, acc : Nat]
  BY <1>1, <1>2, <1>5, <1>6, <1>7, <1>9
<1>11. q.value <= PoolMax[t]
  BY <1>1, <1>3, <1>5
<1>12. q.acc < PerPoint \/ q.value = PoolMax[t]
  <2>1. CASE gained = d
    BY <1>2, <1>6, <2>1
  <2>2. CASE gained = room
    BY <1>3, <2>2
  <2> QED
    BY <1>5, <2>1, <2>2
<1>13. Worth(q) = Worth(p) + n
  <2>1. Worth(q) = (PerPoint * p.value + PerPoint * gained) + (total - PerPoint * gained)
    BY <1>6, <1>8 DEF Worth
  <2>2. total = p.acc + n
    BY DEF total
  <2> QED
    BY <1>1, <1>6, <1>9, <2>1, <2>2 DEF Worth
<1> QED
  BY <1>4, <1>10, <1>11, <1>12, <1>13

LEMMA LifeSet ==
    ASSUME NEW f, NEW r \in Results(f), NEW u \in Entities(f), NEW n \in Int, n <= f.max[u]
    PROVE /\ [r EXCEPT !.fight.hp[u] = n] \in Results(f)
          /\ [r EXCEPT !.fight.hp[u] = n].fight.pool = r.fight.pool
          /\ [r EXCEPT !.fight.hp[u] = n].ok = r.ok
<1> DEFINE h == r.fight
           g == [h EXCEPT !.hp = [h.hp EXCEPT ![u] = n]]
<1>1. h \in Becomes(f) /\ r.ok \in BOOLEAN
  BY DEF Results
<1>2. [h.hp EXCEPT ![u] = n] \in [Entities(f) -> Int]
  BY <1>1 DEF Becomes
<1>3. \A v \in Entities(f) : [h.hp EXCEPT ![u] = n][v] <= f.max[v]
  BY <1>1 DEF Becomes
<1>4. g \in Becomes(f) /\ g.pool = h.pool
  BY <1>1, <1>2, <1>3 DEF Becomes
<1>5. [r EXCEPT !.fight.hp[u] = n] = [r EXCEPT !.fight = g]
  OBVIOUS
<1> HIDE DEF g
<1> QED
  BY <1>1, <1>4, <1>5 DEF Results

\* The damage an effect shows for a team.
Hits(f, e, t) == e.type = "Damage" /\ f.side[e.target] = t
DamageOf(f, e, t) == IF Hits(f, e, t) THEN e.num ELSE 0

\* Every effect leaves a fight within its maxima, and moves the pools by the damage
\* it shows.
LEMMA EffectApplied ==
    ASSUME NEW f, Sane(f), NEW r \in Results(f), NEW e \in Effects(f)
    PROVE /\ PlayEffect(r, e) \in Results(f)
          /\ \A t \in {1, 2} : Worth(PlayEffect(r, e).fight.pool[t])
                                 = Worth(r.fight.pool[t]) + DamageOf(f, e, t)
          /\ PlayEffect(r, e).ok => r.ok
<1> DEFINE h == r.fight  u == e.target  q == PlayEffect(r, e)
           Acts == {"Damage", "Heal", "AverageLife", "CurrentHpChange"}
<1>1. /\ r \in [ok : BOOLEAN, fight : Becomes(f)] /\ h \in Becomes(f) /\ r.ok \in BOOLEAN
      /\ h.side = f.side /\ h.max = f.max /\ h.hp \in [Entities(f) -> Int] /\ h.pool \in Pools
      /\ \A v \in Entities(f) : h.hp[v] <= f.max[v]
  BY DEF Results, Becomes
<1>2. Entities(h) = Entities(f)
  BY <1>1 DEF Entities
<1>3. e.num \in Int /\ e.type \in EffectTypes
  BY DEF Effects
<1>4. \A t \in {1, 2} : Worth(h.pool[t]) \in Int
  BY <1>1, FightAssumption DEF Worth, Pools
<1> DEFINE Same(s) == s \in Results(f) /\ s.fight.pool = h.pool /\ (s.ok => r.ok)
<1>5. ASSUME Same(q), e.type # "Damage"
      PROVE q \in Results(f)
            /\ (\A t \in {1, 2} : Worth(q.fight.pool[t]) = Worth(h.pool[t]) + DamageOf(f, e, t))
            /\ (q.ok => r.ok)
  <2>1. \A t \in {1, 2} : DamageOf(f, e, t) = 0
    BY <1>5 DEF DamageOf, Hits
  <2>2. q \in Results(f) /\ q.fight.pool = h.pool /\ (q.ok => r.ok)
    BY <1>5
  <2> HIDE DEF q
  <2>3. \A t \in {1, 2} : Worth(q.fight.pool[t]) = Worth(h.pool[t]) + DamageOf(f, e, t)
    BY <1>4, <2>1, <2>2
  <2> QED
    BY <2>2, <2>3
<1>6. CASE e.type \in Acts /\ (u \notin Entities(f) \/ (e.type = "AverageLife" /\ e.num = NoNumber))
  <2>1. q = [r EXCEPT !.ok = FALSE]
    BY <1>2, <1>6 DEF PlayEffect
  <2>2. Same(q)
    BY <1>1, <2>1 DEF Results
  <2>3. e.type # "Damage"
    BY <1>6 DEF Effects
  <2> QED
    BY <1>5, <2>2, <2>3
<1>7. CASE e.type = "Damage" /\ u \in Entities(f)
  <2> DEFINE t == f.side[u]
             n == IF h.hp[u] > e.num THEN h.hp[u] - e.num ELSE 0
             hp == [h.hp EXCEPT ![u] = n]
             pool == [h.pool EXCEPT ![t] = HpLost(@, t, e.num)]
             g == [h EXCEPT !.hp = hp, !.pool = pool]
  <2>1. t \in {1, 2} /\ f.max[u] \in Nat /\ e.num \in Nat
    BY <1>3, <1>7 DEF Sane, Effects
  <2>2. n \in Int /\ n <= f.max[u]
    BY <1>1, <1>7, <2>1
  <2> HIDE DEF n
  <2>3. hp \in [Entities(f) -> Int] /\ \A v \in Entities(f) : hp[v] <= f.max[v]
    BY <1>1, <2>2
  <2>4. /\ h.pool[t] \in [value : Nat, acc : Nat] /\ h.pool[t].value <= PoolMax[t]
        /\ h.pool \in [{1, 2} -> [value : Nat, acc : Nat]]
    BY <1>1, <2>1 DEF Pools
  <2>5. LET p == HpLost(h.pool[t], t, e.num) IN
        /\ p \in [value : Nat, acc : Nat]
        /\ p.value <= PoolMax[t] /\ (p.acc < PerPoint \/ p.value = PoolMax[t])
        /\ Worth(p) = Worth(h.pool[t]) + e.num
    BY <2>1, <2>4, PoolGains
  <2>6. pool \in Pools
    BY <1>1, <2>1, <2>4, <2>5 DEF Pools
  <2>7. \A s \in {1, 2} : pool[s] = IF s = t THEN HpLost(h.pool[t], t, e.num) ELSE h.pool[s]
    BY <2>1, <2>4
  <2>8. \A s \in {1, 2} : DamageOf(f, e, s) = IF s = t THEN e.num ELSE 0
    BY <1>7 DEF DamageOf, Hits
  <2>9. q = [r EXCEPT !.fight = g]
    <3> DEFINE g1 == [h EXCEPT !.hp = hp]
               r1 == [r EXCEPT !.fight.hp[e.target] = IF @ > e.num THEN @ - e.num ELSE 0]
    <3>1. q = [r1 EXCEPT !.fight.pool[h.side[e.target]]
                            = HpLost(@, h.side[e.target], e.num)]
      BY <1>2, <1>7 DEF PlayEffect
    <3>2. [h EXCEPT !.hp[u] = IF @ > e.num THEN @ - e.num ELSE 0] = g1
      BY DEF n
    <3>3. [g1 EXCEPT !.pool[t] = HpLost(@, t, e.num)] = g
      BY <1>1
    <3>4. r1 = [r EXCEPT !.fight = g1]
      BY <1>1, <3>2
    <3>5. r1.fight = g1 /\ h.side[e.target] = t
      BY <1>1, <3>4
    <3> HIDE DEF r1, g1
    <3>6. q = [r1 EXCEPT !.fight = [g1 EXCEPT !.pool[t] = HpLost(@, t, e.num)]]
      BY <3>1, <3>5
    <3>7. q = [r1 EXCEPT !.fight = g]
      BY <3>3, <3>6
    <3> HIDE DEF g, q
    <3> QED
      BY <1>1, <3>4, <3>7
  <2> HIDE DEF hp, pool, t
  <2>10. g \in Becomes(f) /\ g.pool = pool
    BY <1>1, <2>3, <2>6 DEF Becomes
  <2> HIDE DEF g
  <2>11. q \in Results(f) /\ q.ok = r.ok /\ q.fight.pool = pool
    BY <1>1, <2>9, <2>10 DEF Results
  <2>12. \A s \in {1, 2} : Worth(pool[s]) = Worth(h.pool[s]) + DamageOf(f, e, s)
    BY <1>4, <2>1, <2>5, <2>7, <2>8
  <2> HIDE DEF q
  <2>13. \A s \in {1, 2} : Worth(q.fight.pool[s]) = Worth(h.pool[s]) + DamageOf(f, e, s)
    BY <2>11, <2>12
  <2> QED
    BY <2>11, <2>13 DEF q
<1>8. CASE e.type = "Heal" /\ u \in Entities(f)
  <2> DEFINE n == IF h.hp[u] + e.num < h.max[u] THEN h.hp[u] + e.num ELSE h.max[u]
  <2>1. f.max[u] \in Nat
    BY <1>8 DEF Sane
  <2>2. n \in Int /\ n <= f.max[u]
    BY <1>1, <1>3, <1>8, <2>1
  <2>3. q = [r EXCEPT !.fight.hp[u] = n]
    BY <1>2, <1>8 DEF PlayEffect
  <2> HIDE DEF n
  <2>4. Same(q)
    BY <1>8, <2>2, <2>3, LifeSet
  <2> QED
    BY <1>5, <1>8, <2>4
<1>9. CASE e.type = "CurrentHpChange" /\ u \in Entities(f)
  <2>2. e.num <= f.max[u]
    BY <1>9 DEF Effects
  <2>3. q = [r EXCEPT !.fight.hp[u] = e.num]
    BY <1>2, <1>9 DEF PlayEffect
  <2>4. Same(q)
    BY <1>3, <1>9, <2>2, <2>3, LifeSet
  <2> QED
    BY <1>5, <1>9, <2>4
<1>10. CASE e.type \notin Acts
  <2>1. q = r
    BY <1>10 DEF PlayEffect
  <2>2. Same(q)
    BY <2>1
  <2> QED
    BY <1>5, <1>10, <2>2
<1>11. e.type = "AverageLife" => e.num = NoNumber
  BY DEF Effects
<1> DEFINE Good == /\ q \in Results(f)
                   /\ \A t \in {1, 2} : Worth(q.fight.pool[t]) = Worth(h.pool[t]) + DamageOf(f, e, t)
                   /\ q.ok => r.ok
<1>12. Good
  <2>1. CASE e.type \notin Acts
    BY <1>10, <2>1
  <2>2. CASE e.type \in Acts /\ u \notin Entities(f)
    BY <1>6, <2>2
  <2>3. CASE e.type \in Acts /\ u \in Entities(f)
    <3>1. e.type \in {"Damage", "Heal", "CurrentHpChange"} \/ (e.type = "AverageLife" /\ e.num = NoNumber)
      BY <1>11, <2>3
    <3> HIDE DEF Good
    <3> QED
      BY <1>6, <1>7, <1>8, <1>9, <2>3, <3>1 DEF Good
  <2> HIDE DEF Good
  <2> QED
    BY <2>1, <2>2, <2>3
<1> QED
  BY <1>12
LEMMA ShownTyped ==
    ASSUME NEW f, NEW steps \in Seq(Steps(f))
    PROVE Shown(steps) \in Seq(Effects(f))
<1>1. Len(steps) \in Nat /\ DOMAIN steps = 1..Len(steps)
  OBVIOUS
<1>4. \A i \in 1..Len(steps) : steps[i] \in Steps(f)
  BY <1>1
<1>2. \A i \in 1..Len(steps) : steps[i].effects \in Seq(Effects(f))
  BY <1>4 DEF Steps
<1>3. FlattenSeq([i \in 1..Len(steps) |-> steps[i].effects]) \in Seq(Effects(f))
  BY <1>1, <1>2, FlatMade
<1> QED
  BY <1>1, <1>3 DEF Shown

\* The fights the effects shown lead through.
LEMMA PlayRuns ==
    ASSUME NEW f, Sane(f), f \in Becomes(f), NEW steps \in Seq(Steps(f))
    PROVE LET es == Shown(steps) IN
          \E x \in [0..Len(es) -> Results(f)] :
             /\ x[0] = [ok |-> TRUE, fight |-> f]
             /\ \A k \in 1..Len(es) :
                  x[k] = IF x[k - 1].ok THEN PlayEffect(x[k - 1], es[k]) ELSE x[k - 1]
             /\ PlaySteps(f, steps) = x[Len(es)]
<1> DEFINE es == Shown(steps)  n == Len(es)  R == Results(f)
           b == [ok |-> TRUE, fight |-> f]
           After(r, i) == IF r.ok THEN PlayEffect(r, es[i]) ELSE r
           C(g) == g = [s \in SUBSET (DOMAIN es) |->
                          IF s = {} THEN b ELSE After(g[s \ {Max(s)}], Max(s))]
           c == CHOOSE g : C(g)
           fs == [i \in 1..n |-> [r \in R |-> After(r, i)]]
<1>1. es \in Seq(Effects(f)) /\ n \in Nat /\ DOMAIN es = 1..n
  BY ShownTyped
<1>2. b \in R
  BY DEF Results
<1>3. \A r \in R : \A i \in 1..n : After(r, i) \in R
  <2> TAKE r \in R
  <2> TAKE i \in 1..n
  <2>1. es[i] \in Effects(f)
    BY <1>1
  <2>2. PlayEffect(r, es[i]) \in R
    BY <2>1, EffectApplied
  <2> QED
    BY <2>2
<1>4. PlaySteps(f, steps) = c[DOMAIN es]
  BY DEF PlaySteps, FoldLeft, MapThenFoldSet
<1> HIDE DEF es, n, R, b, After
<1>5. fs \in [1..n -> [R -> R]]
  BY <1>3
<1>6. PICK g \in [SUBSET (1..n) -> R] : Folds(g, n, b, fs)
  <2> HIDE DEF fs
  <2> QED
    BY <1>1, <1>2, <1>5, FoldExists
<1>7. C(g)
  <2>1. \A s \in SUBSET (1..n) : s # {} => Max(s) \in 1..n /\ g[s \ {Max(s)}] \in R
    BY <1>1, MaxOfPart
  <2>2. \A s \in SUBSET (1..n) : s # {} => fs[Max(s)][g[s \ {Max(s)}]] = After(g[s \ {Max(s)}], Max(s))
    BY <2>1
  <2>3. g = [s \in SUBSET (1..n) |-> IF s = {} THEN b ELSE fs[Max(s)][g[s \ {Max(s)}]]]
    BY <1>6 DEF Folds
  <2> HIDE DEF fs
  <2>4. g = [s \in SUBSET (1..n) |-> IF s = {} THEN b ELSE After(g[s \ {Max(s)}], Max(s))]
    BY <2>2, <2>3
  <2> QED
    BY <1>1, <2>4
<1>8. C(c)
  <2> HIDE DEF C
  <2> QED
    BY <1>7
<1> HIDE DEF c, fs
<1>9. Runs(c, n, R, b, fs)
  <2>1. c = [s \in SUBSET (1..n) |-> IF s = {} THEN b ELSE After(c[s \ {Max(s)}], Max(s))]
    BY <1>1, <1>8
  <2>2. \A s \in SUBSET (1..n) : s # {} => Max(s) \in 1..n
    BY <1>1, MaxOfPart
  <2>3. \A r \in R : \A i \in 1..n : fs[i][r] = After(r, i)
    BY DEF fs
  <2>4. {} \in SUBSET (1..n)
    OBVIOUS
  <2> QED
    BY <2>1, <2>2, <2>3, <2>4 DEF Runs
<1>10. PICK x \in [0..n -> R] : Traced(x, c, n, b, fs)
  <2>1. n \in Nat
    BY <1>1
  <2> HIDE DEF R
  <2> QED
    BY <2>1, <1>2, <1>5, <1>9, FoldRuns
<1>11. \A k \in 1..n : x[k] = After(x[k - 1], k)
  <2> TAKE k \in 1..n
  <2>1. k - 1 \in 0..n
    BY <1>1
  <2> QED
    BY <1>10, <2>1 DEF fs, Traced
<1>12. /\ x[0] = [ok |-> TRUE, fight |-> f]
       /\ \A k \in 1..n : x[k] = IF x[k - 1].ok THEN PlayEffect(x[k - 1], es[k]) ELSE x[k - 1]
       /\ PlaySteps(f, steps) = x[n]
  BY <1>1, <1>4, <1>10, <1>11 DEF b, After, Traced
<1> QED
  BY <1>10, <1>12 DEF es, n, R

\* Playing the effects of the steps leaves a fight within its maxima, and has filled
\* the pools with the damage shown.
LEMMA PlayAccounts ==
    ASSUME NEW f, Sane(f), f \in Becomes(f), NEW steps \in Seq(Steps(f))
    PROVE /\ PlaySteps(f, steps) \in Results(f)
          /\ PlaySteps(f, steps).ok =>
               \A t \in {1, 2} : Worth(PlaySteps(f, steps).fight.pool[t])
                                   = Worth(f.pool[t]) + DamageTo(f, t, steps)
<1> DEFINE es == Shown(steps)  n == Len(es)
           w == [i \in DOMAIN es |-> es[i].num]
           hit(t, k) == {i \in 1..k : Hits(f, es[i], t)}
<1>1. es \in Seq(Effects(f)) /\ n \in Nat /\ DOMAIN es = 1..n
  BY ShownTyped
<1>2. PICK x \in [0..n -> Results(f)] :
             /\ x[0] = [ok |-> TRUE, fight |-> f]
             /\ \A k \in 1..n :
                  x[k] = IF x[k - 1].ok THEN PlayEffect(x[k - 1], es[k]) ELSE x[k - 1]
             /\ PlaySteps(f, steps) = x[n]
  BY PlayRuns
<1>3. \A t : DamageTo(f, t, steps) = SumFunctionOnSet(w, hit(t, n))
  <2> TAKE t
  <2>1. {i \in DOMAIN es : es[i].type = "Damage" /\ f.side[es[i].target] = t} = hit(t, n)
    BY <1>1 DEF Hits
  <2> HIDE DEF hit
  <2> QED
    BY <2>1 DEF DamageTo
<1>4. \A i \in 1..n : es[i] \in Effects(f) /\ w[i] = es[i].num /\ es[i].num \in Int
  BY <1>1 DEF Effects
<1>5. \A k \in 0..n : \A t \in {1, 2} : Worth(x[k].fight.pool[t]) \in Int /\ Worth(f.pool[t]) \in Int
  <2>1. \A r \in Results(f) : \A t \in {1, 2} : Worth(r.fight.pool[t]) \in Int
    BY FightAssumption, SMTT(30) DEF Worth, Results, Becomes, Pools
  <2>2. \A t \in {1, 2} : Worth(f.pool[t]) \in Int
    BY FightAssumption DEF Worth, Becomes, Pools
  <2> QED
    BY <1>2, <2>1, <2>2
<1> HIDE DEF es, n, w
<1>6. \A t \in {1, 2} : \A k \in 1..n :
         SumFunctionOnSet(w, hit(t, k)) = SumFunctionOnSet(w, hit(t, k - 1)) + DamageOf(f, es[k], t)
  <2> TAKE t \in {1, 2}
  <2> TAKE k \in 1..n
  <2>1. /\ IsFiniteSet(hit(t, k - 1)) /\ hit(t, k - 1) \subseteq 1..n /\ k \notin hit(t, k - 1)
        /\ hit(t, k) = IF Hits(f, es[k], t) THEN hit(t, k - 1) \cup {k} ELSE hit(t, k - 1)
    <3>1. IsFiniteSet(1..(k - 1))
      BY <1>1, FS_Interval
    <3>2. IsFiniteSet(hit(t, k - 1))
      BY <3>1, FS_Subset
    <3>3. 1..k = 1..(k - 1) \cup {k} /\ k \notin 1..(k - 1) /\ 1..(k - 1) \subseteq 1..n
      BY <1>1
    <3> QED
      BY <3>2, <3>3
  <2> HIDE DEF hit
  <2>2. SumFunctionOnSet(w, hit(t, k - 1)) \in Int
    BY <1>4, <2>1, SumFacts
  <2>3. SumFunctionOnSet(w, hit(t, k - 1) \cup {k}) = SumFunctionOnSet(w, hit(t, k - 1)) + w[k]
    <3>1. \A y \in hit(t, k - 1) \cup {k} : w[y] \in Int
      BY <1>4, <2>1
    <3> QED
      BY <2>1, <3>1, SumInsert
  <2> QED
    BY <1>4, <2>1, <2>2, <2>3 DEF DamageOf
<1> DEFINE Right(k) == x[k].ok => \A t \in {1, 2} : Worth(x[k].fight.pool[t])
                                     = Worth(f.pool[t]) + SumFunctionOnSet(w, hit(t, k))
           F == {k \in Nat : k <= n => Right(k)}
<1>7. 0 \in F
  <2>1. \A t : hit(t, 0) = {}
    OBVIOUS
  <2>2. \A t : SumFunctionOnSet(w, hit(t, 0)) = 0
    BY <2>1, SumEmpty
  <2>3. 0 \in 0..n
    BY <1>1
  <2>4. x[0].fight = f
    BY <1>2
  <2> HIDE DEF hit
  <2> QED
    BY <1>5, <2>2, <2>3, <2>4
<1>8. ASSUME NEW k \in Nat, k \in F PROVE k + 1 \in F
  <2> SUFFICES ASSUME k + 1 <= n, x[k + 1].ok PROVE Right(k + 1)
    OBVIOUS
  <2>1. k + 1 \in 1..n /\ k \in 0..n /\ k <= n /\ (k + 1) - 1 = k /\ k + 1 \in 0..n
    BY <1>1
  <2>2. x[k + 1] = IF x[k].ok THEN PlayEffect(x[k], es[k + 1]) ELSE x[k]
    BY <1>2, <2>1
  <2>3. x[k] \in Results(f) /\ es[k + 1] \in Effects(f)
    BY <1>2, <1>4, <2>1
  <2>4. x[k].ok /\ x[k + 1] = PlayEffect(x[k], es[k + 1])
    BY <2>2
  <2>5. \A t \in {1, 2} : Worth(x[k + 1].fight.pool[t])
                            = Worth(x[k].fight.pool[t]) + DamageOf(f, es[k + 1], t)
    BY <2>3, <2>4, EffectApplied
  <2>6. \A t \in {1, 2} : Worth(x[k].fight.pool[t]) = Worth(f.pool[t]) + SumFunctionOnSet(w, hit(t, k))
    BY <1>8, <2>1, <2>4
  <2>7. \A t \in {1, 2} : SumFunctionOnSet(w, hit(t, k + 1))
                            = SumFunctionOnSet(w, hit(t, k)) + DamageOf(f, es[k + 1], t)
    <3> HIDE DEF hit
    <3> QED
      BY <1>6, <2>1
  <2>8. \A t \in {1, 2} : DamageOf(f, es[k + 1], t) \in Int
    BY <1>4, <2>1 DEF DamageOf
  <2>9. \A t \in {1, 2} : SumFunctionOnSet(w, hit(t, k)) \in Int
    <3> TAKE t \in {1, 2}
    <3>1. IsFiniteSet(1..k)
      BY FS_Interval
    <3>3. 1..k \subseteq 1..n
      BY <1>1, <2>1
    <3>2. IsFiniteSet(hit(t, k)) /\ hit(t, k) \subseteq 1..n
      BY <3>1, <3>3, FS_Subset
    <3> HIDE DEF hit
    <3>4. \A i \in hit(t, k) : w[i] \in Int
      BY <1>4, <3>2
    <3> QED
      BY <3>2, <3>4, SumFacts
  <2> HIDE DEF hit
  <2>10. ASSUME NEW t \in {1, 2}
         PROVE Worth(x[k + 1].fight.pool[t]) = Worth(f.pool[t]) + SumFunctionOnSet(w, hit(t, k + 1))
    <3> DEFINE A == Worth(x[k + 1].fight.pool[t])  B == Worth(x[k].fight.pool[t])
               D == DamageOf(f, es[k + 1], t)  W == Worth(f.pool[t])
               s0 == SumFunctionOnSet(w, hit(t, k))  s1 == SumFunctionOnSet(w, hit(t, k + 1))
    <3>1. A = B + D /\ B = W + s0 /\ s1 = s0 + D /\ D \in Int /\ s0 \in Int /\ W \in Int
      BY <1>5, <2>1, <2>5, <2>6, <2>7, <2>8, <2>9
    <3> HIDE DEF A, B, D, W, s0, s1
    <3>2. A = W + s1
      BY <3>1
    <3> QED
      BY <3>2 DEF A, W, s1
  <2> QED
    BY <2>10
<1>9. Right(n)
  <2> HIDE DEF Right
  <2>1. Nat \subseteq F
    <3> HIDE DEF F
    <3> QED
      BY <1>7, <1>8, OnNaturals
  <2> QED
    BY <1>1, <2>1
<1>10. n \in 0..n
  BY <1>1
<1> QED
  BY <1>2, <1>3, <1>9, <1>10

-----------------------------------------------------------------------------
(* Rounds: the cards. *)

Cards == [hero : DOMAIN Life, skill : DOMAIN Skill, type : Int]
EnemyCards == [foe : {n \in Int : n < 0}, skill : DOMAIN Skill \cup {NoSkill}, to : Int]
Orders == [type : Int, card : Int, to : Int]

\* A battle a round can be played of.
Playable(b) ==
  /\ Sane(b.fight) /\ b.fight \in Becomes(b.fight)
  /\ b.fight.model \in [Entities(b.fight) -> DOMAIN Life]
  /\ b.deck \in Seq(Cards) /\ b.ai \in Seq(EnemyCards) /\ b.points \in Int

\* The faces of cards, the cards with a face, the steps that show one.
Faces == (DOMAIN Life) \X (DOMAIN Skill \cup {NoSkill})
Like(x) == {c \in Cards : <<c.hero, c.skill>> = x}
Plays(f, x) == {s \in Steps(f) : s.from > 0 /\ <<f.model[s.from], s.skill>> = x}

\* What the operations make of the hand they are dealt: of every face as many cards
\* as are gone from the hand have been played.
States(b) ==
  {s \in [ok : BOOLEAN, hand : Seq(Cards), used : Seq(Int), point : Int,
          steps : Seq(Steps(b.fight))] :
     \A x \in Faces : Count(b.deck, Like(x))
                        = Count(s.hand, Like(x)) + Count(s.steps, Plays(b.fight, x))}

LEMMA StepAdded ==
    ASSUME NEW b, NEW s \in States(b), NEW e \in Steps(b.fight), ~(e.from > 0)
    PROVE [s EXCEPT !.steps = Append(@, e)] \in States(b)
<1> DEFINE r == [s EXCEPT !.steps = Append(@, e)]
<1>1. /\ s \in [ok : BOOLEAN, hand : Seq(Cards), used : Seq(Int), point : Int,
                steps : Seq(Steps(b.fight))]
      /\ s.hand \in Seq(Cards) /\ s.steps \in Seq(Steps(b.fight))
  BY DEF States
<1>2. /\ r \in [ok : BOOLEAN, hand : Seq(Cards), used : Seq(Int), point : Int,
                steps : Seq(Steps(b.fight))]
      /\ r.hand = s.hand /\ r.steps = Append(s.steps, e)
  <2>1. Append(s.steps, e) \in Seq(Steps(b.fight))
    BY <1>1
  <2> QED
    BY <1>1, <2>1
<1>3. \A x \in Faces : Count(r.steps, Plays(b.fight, x)) = Count(s.steps, Plays(b.fight, x))
  <2> TAKE x \in Faces
  <2>1. e \notin Plays(b.fight, x)
    BY DEF Plays
  <2>2. Count(Append(s.steps, e), Plays(b.fight, x))
          = Count(s.steps, Plays(b.fight, x)) + IF e \in Plays(b.fight, x) THEN 1 ELSE 0
    BY <1>1, CountAppend
  <2>3. Count(s.steps, Plays(b.fight, x)) \in Nat
    BY <1>1, CountTyped
  <2> QED
    BY <1>2, <2>1, <2>2, <2>3
<1> HIDE DEF r
<1>4. \A x \in Faces : Count(b.deck, Like(x))
                         = Count(r.hand, Like(x)) + Count(r.steps, Plays(b.fight, x))
  BY <1>2, <1>3 DEF States
<1>5. r \in States(b)
  BY <1>2, <1>4 DEF States
<1> QED
  BY <1>5 DEF r

LEMMA CardPlayed ==
    ASSUME NEW b, Playable(b), NEW s \in States(b), NEW o \in Orders
    PROVE PlayCard(b.fight, s, o) \in States(b)
<1> DEFINE i == o.card + 1  f == b.fight
           T == [ok : BOOLEAN, hand : Seq(Cards), used : Seq(Int), point : Int, steps : Seq(Steps(f))]
<1>1. /\ s \in T /\ s.hand \in Seq(Cards) /\ s.steps \in Seq(Steps(f)) /\ s.used \in Seq(Int)
      /\ s.point \in Int
  BY DEF States
<1>2. o.card \in Int /\ o.to \in Int /\ i \in Int
  BY DEF Orders
<1>3. CASE i \notin DOMAIN s.hand
  BY <1>3 DEF PlayCard
<1>4. CASE i \in DOMAIN s.hand /\ Casters(f, s.hand[i]) = {}
  <2> DEFINE r == [s EXCEPT !.ok = FALSE]
  <2>1. r \in T /\ r.hand = s.hand /\ r.steps = s.steps
    BY <1>1
  <2> HIDE DEF r
  <2>2. r \in States(b)
    BY <2>1 DEF States
  <2> QED
    BY <1>4, <2>2 DEF PlayCard, r
<1>5. CASE i \in DOMAIN s.hand /\ Casters(f, s.hand[i]) # {}
  <2> DEFINE c == s.hand[i]  u == Caster(f, c)
             e == ExecuteSkill(f, u, o.to, c.skill)
             r == [s EXCEPT
                    !.hand  = RemoveAt(@, i),
                    !.used  = Append(@, o.card),
                    !.point = IF @ > 0 THEN @ - 1 ELSE 0,
                    !.steps = Append(@, e)]
  <2>1. c \in Cards /\ i \in 1..Len(s.hand)
    BY <1>1, <1>5
  <2>2. u \in Entities(f) /\ u > 0 /\ f.model[u] = c.hero
    BY <1>5 DEF Caster, Casters
  <2>3. PlayCard(f, s, o) = r
    BY <1>5 DEF PlayCard
  <2>4. c.skill \in DOMAIN Skill /\ c.hero \in DOMAIN Life
    BY <2>1 DEF Cards
  <2> HIDE DEF u, c
  <2>5. e \in Steps(f) /\ e.from = u /\ e.skill = c.skill
    BY <1>2, <2>2, <2>4, SkillTyped DEF Playable
  <2> HIDE DEF e
  <2>6. RemoveAt(s.hand, i) \in Seq(Cards)
    BY <1>1, <2>1, CountRemoved
  <2>7. r \in T /\ r.hand = RemoveAt(s.hand, i) /\ r.steps = Append(s.steps, e)
    <3>1. (IF s.point > 0 THEN s.point - 1 ELSE 0) \in Int
      BY <1>1
    <3>2. Append(s.steps, e) \in Seq(Steps(f)) /\ Append(s.used, o.card) \in Seq(Int)
      BY <1>1, <1>2, <2>5
    <3> QED
      BY <1>1, <2>6, <3>1, <3>2
  <2> HIDE DEF r
  <2>8. ASSUME NEW x \in Faces
        PROVE Count(b.deck, Like(x)) = Count(r.hand, Like(x)) + Count(r.steps, Plays(f, x))
    <3>1. c \in Like(x) <=> e \in Plays(f, x)
      BY <2>1, <2>2, <2>5 DEF Like, Plays
    <3>2. Count(r.hand, Like(x)) = Count(s.hand, Like(x)) - IF c \in Like(x) THEN 1 ELSE 0
      BY <1>1, <2>1, <2>7, CountRemoved DEF c
    <3>3. Count(r.steps, Plays(f, x)) = Count(s.steps, Plays(f, x))
                                          + IF e \in Plays(f, x) THEN 1 ELSE 0
      BY <1>1, <2>5, <2>7, CountAppend
    <3>4. Count(b.deck, Like(x)) = Count(s.hand, Like(x)) + Count(s.steps, Plays(f, x))
      BY DEF States
    <3>5. Count(s.hand, Like(x)) \in Nat /\ Count(s.steps, Plays(f, x)) \in Nat
      BY <1>1, CountTyped
    <3> QED
      BY <3>1, <3>2, <3>3, <3>4, <3>5
  <2>9. r \in States(b)
    BY <2>7, <2>8 DEF States
  <2> QED
    BY <2>3, <2>9
<1> QED
  BY <1>3, <1>4, <1>5

LEMMA OperationExecuted ==
    ASSUME NEW b, Playable(b), NEW s \in States(b), NEW o \in Orders
    PROVE ExecuteOperation(b.fight, s, o) \in States(b)
<1> DEFINE show(kind) == [s EXCEPT !.steps = Append(@, OtherStep(kind))]
<1>0. o.type \in Int /\ o.to \in Int /\ Nobody \in Int
  BY DEF Orders, Nobody
<1>1. \A kind \in StepKinds : show(kind) \in States(b)
  <2> TAKE kind \in StepKinds
  <2>1. OtherStep(kind) \in Steps(b.fight) /\ ~(OtherStep(kind).from > 0)
    BY OtherTyped DEF Nobody
  <2> QED
    BY <2>1, StepAdded
<1>2. CASE o.type = 1 \/ (o.type = 2 /\ o.to # Nobody)
  <2>1. ExecuteOperation(b.fight, s, o) = PlayCard(b.fight, s, o)
    BY <1>0, <1>2 DEF ExecuteOperation
  <2> QED
    BY <2>1, CardPlayed
<1>3. CASE o.type = 2 /\ o.to = Nobody
  <2>1. ExecuteOperation(b.fight, s, o) = show("SelectCard")
    BY <1>0, <1>3 DEF ExecuteOperation
  <2> QED
    BY <1>1, <2>1 DEF StepKinds
<1>4. CASE o.type = 3
  <2>1. ExecuteOperation(b.fight, s, o) = show("ChangeHero")
    BY <1>0, <1>4 DEF ExecuteOperation
  <2> QED
    BY <1>1, <2>1 DEF StepKinds
<1>5. CASE o.type = 4
  <2>1. ExecuteOperation(b.fight, s, o) = show("EndTurn")
    BY <1>0, <1>5 DEF ExecuteOperation
  <2> QED
    BY <1>1, <2>1 DEF StepKinds
<1>6. CASE o.type \notin {1, 2, 3, 4}
  <2>1. ExecuteOperation(b.fight, s, o) = s
    BY <1>0, <1>6 DEF ExecuteOperation
  <2> QED
    BY <2>1
<1> QED
  BY <1>2, <1>3, <1>4, <1>5, <1>6

LEMMA NewStateTyped ==
    ASSUME NEW b, Playable(b)
    PROVE NewState(b) \in States(b)
<1> DEFINE s == NewState(b)  e == OtherStep("Refresh")
<1>1. e \in Steps(b.fight) /\ ~(e.from > 0)
  BY OtherTyped DEF StepKinds, Nobody
<1> HIDE DEF e
<1>2. /\ s \in [ok : BOOLEAN, hand : Seq(Cards), used : Seq(Int), point : Int,
                steps : Seq(Steps(b.fight))]
      /\ s.hand = b.deck /\ s.steps = <<e>>
  BY <1>1 DEF NewState, Playable, e
<1>3. ASSUME NEW x \in Faces
      PROVE Count(s.steps, Plays(b.fight, x)) = 0
  <2>1. e \notin Plays(b.fight, x)
    BY <1>1 DEF Plays
  <2>2. {i \in DOMAIN <<e>> : <<e>>[i] \in Plays(b.fight, x)} = {}
    BY <2>1
  <2> QED
    BY <1>2, <2>2, FS_EmptySet DEF Count
<1>4. \A x \in Faces : Count(b.deck, Like(x)) \in Nat
  BY CountTyped DEF Playable
<1> HIDE DEF s
<1>5. \A x \in Faces : Count(b.deck, Like(x))
                         = Count(s.hand, Like(x)) + Count(s.steps, Plays(b.fight, x))
  BY <1>2, <1>3, <1>4
<1>6. s \in States(b)
  BY <1>2, <1>5 DEF States
<1> QED
  BY <1>6 DEF s

\* The loop over the operations.
LEMMA OperationsExecuted ==
    ASSUME NEW b, Playable(b), NEW s \in States(b), NEW opers \in Seq(Orders)
    PROVE ExecuteOperations(b.fight, s, opers) \in States(b)
<1> DEFINE n == Len(opers)  R == States(b)
           After(r, i) == IF r.ok THEN ExecuteOperation(b.fight, r, opers[i]) ELSE r
           C(g) == g = [p \in SUBSET (DOMAIN opers) |->
                          IF p = {} THEN s ELSE After(g[p \ {Max(p)}], Max(p))]
           c == CHOOSE g : C(g)
           fs == [i \in 1..n |-> [r \in R |-> After(r, i)]]
<1>1. n \in Nat /\ DOMAIN opers = 1..n /\ \A i \in 1..n : opers[i] \in Orders
  OBVIOUS
<1>3. \A r \in R : \A i \in 1..n : After(r, i) \in R
  BY <1>1, OperationExecuted
<1>4. ExecuteOperations(b.fight, s, opers) = c[DOMAIN opers]
  BY DEF ExecuteOperations, FoldLeft, MapThenFoldSet
<1>2. s \in R
  OBVIOUS
<1> HIDE DEF n, R, After
<1>5. fs \in [1..n -> [R -> R]]
  BY <1>3
<1>6. PICK g \in [SUBSET (1..n) -> R] : Folds(g, n, s, fs)
  <2> HIDE DEF fs
  <2> QED
    BY <1>1, <1>2, <1>5, FoldExists
<1>7. C(g)
  <2>1. \A p \in SUBSET (1..n) : p # {} => Max(p) \in 1..n /\ g[p \ {Max(p)}] \in R
    BY <1>1, MaxOfPart
  <2>2. \A p \in SUBSET (1..n) : p # {} => fs[Max(p)][g[p \ {Max(p)}]] = After(g[p \ {Max(p)}], Max(p))
    BY <2>1
  <2>3. g = [p \in SUBSET (1..n) |-> IF p = {} THEN s ELSE fs[Max(p)][g[p \ {Max(p)}]]]
    BY <1>6 DEF Folds
  <2> HIDE DEF fs
  <2>4. g = [p \in SUBSET (1..n) |-> IF p = {} THEN s ELSE After(g[p \ {Max(p)}], Max(p))]
    BY <2>2, <2>3
  <2> QED
    BY <1>1, <2>4
<1>8. C(c)
  <2> HIDE DEF C
  <2> QED
    BY <1>7
<1> HIDE DEF c, fs
<1>9. Runs(c, n, R, s, fs)
  <2>1. c = [p \in SUBSET (1..n) |-> IF p = {} THEN s ELSE After(c[p \ {Max(p)}], Max(p))]
    BY <1>1, <1>8
  <2>2. \A p \in SUBSET (1..n) : p # {} => Max(p) \in 1..n
    BY <1>1, MaxOfPart
  <2>3. \A r \in R : \A i \in 1..n : fs[i][r] = After(r, i)
    BY DEF fs
  <2>4. {} \in SUBSET (1..n)
    OBVIOUS
  <2> QED
    BY <2>1, <2>2, <2>3, <2>4 DEF Runs
<1>10. PICK x \in [0..n -> R] : Traced(x, c, n, s, fs)
  <2>1. n \in Nat
    BY <1>1
  <2> HIDE DEF R
  <2> QED
    BY <2>1, <1>2, <1>5, <1>9, FoldRuns
<1>11. x[n] \in R
  BY <1>1, <1>10
<1> QED
  BY <1>1, <1>4, <1>10, <1>11 DEF R, Traced

\* The enemies' steps are none of the player's own.
LEMMA AiTyped ==
    ASSUME NEW b, Playable(b), NEW d \in Draws(b.fight, b.ai)
    PROVE /\ AiSteps(b.fight, b.ai, d) \in Seq(Steps(b.fight))
          /\ \A i \in DOMAIN AiSteps(b.fight, b.ai, d) : AiSteps(b.fight, b.ai, d)[i].from < 0
<1> DEFINE f == b.fight  cards == b.ai  n == Len(cards)
           A == {s \in Steps(f) : s.from < 0}
           plays == {i \in DOMAIN cards : /\ cards[i].foe \in Entities(f)
                                          /\ f.hp[cards[i].foe] > 0
                                          /\ cards[i].skill # NoSkill}
           step(i) == ExecuteSkill(f, cards[i].foe,
                        IF cards[i].to # Nobody THEN cards[i].to ELSE d[i], cards[i].skill)
           ss == [i \in 1..n |-> IF i \in plays THEN <<step(i)>> ELSE <<>>]
<1>1. n \in Nat /\ DOMAIN cards = 1..n /\ \A i \in 1..n : cards[i] \in EnemyCards
  BY DEF Playable
<1>2. \A i \in 1..n : d[i] \in Int
  <2>1. CASE \E i \in DOMAIN cards : cards[i].to = Nobody
    <3>1. d \in [DOMAIN cards -> Aims(f)]
      BY <2>1 DEF Draws
    <3>2. Aims(f) \subseteq Int
      BY DEF Aims, Alive, Playable, Sane
    <3> QED
      BY <1>1, <3>1, <3>2
  <2>2. CASE ~(\E i \in DOMAIN cards : cards[i].to = Nobody)
    <3>1. d = [i \in DOMAIN cards |-> Nobody]
      BY <2>2 DEF Draws
    <3> QED
      BY <1>1, <3>1 DEF Nobody
  <2> QED
    BY <2>1, <2>2
<1>3. \A i \in plays : step(i) \in A
  <2> TAKE i \in plays
  <2>1. /\ cards[i] \in EnemyCards /\ i \in 1..n /\ cards[i].foe \in Entities(f)
        /\ cards[i].skill # NoSkill
    BY <1>1
  <2>2. cards[i].foe < 0 /\ cards[i].skill \in DOMAIN Skill /\ cards[i].to \in Int
    BY <2>1 DEF EnemyCards
  <2>3. (IF cards[i].to # Nobody THEN cards[i].to ELSE d[i]) \in Int
    BY <1>2, <2>1, <2>2
  <2>4. step(i) \in Steps(f) /\ step(i).from = cards[i].foe
    BY <2>1, <2>2, <2>3, SkillTyped DEF Playable
  <2> HIDE DEF step
  <2> QED
    BY <2>2, <2>4
<1>4. \A i \in 1..n : ss[i] \in Seq(A)
  <2> TAKE i \in 1..n
  <2> HIDE DEF step, plays, A
  <2>1. CASE i \in plays
    <3>1. step(i) \in A
      BY <1>3, <2>1
    <3>2. <<step(i)>> \in Seq(A)
      BY <3>1
    <3> QED
      BY <2>1, <3>2
  <2>2. CASE i \notin plays
    BY <2>2
  <2> QED
    BY <2>1, <2>2
<1>5. AiSteps(f, cards, d) = FlattenSeq(ss)
  BY <1>1 DEF AiSteps
<1>6. ss = [i \in 1..n |-> ss[i]]
  OBVIOUS
<1> HIDE DEF ss, n, A
<1>7. FlattenSeq(ss) \in Seq(A)
  BY <1>1, <1>4, <1>6, FlatMade
<1>8. AiSteps(f, cards, d) \in Seq(A)
  BY <1>5, <1>7
<1> DEFINE t == AiSteps(f, cards, d)
<1> HIDE DEF t
<1>9. t \in Seq(Steps(f)) /\ \A i \in DOMAIN t : t[i] \in A
  <2>1. t \in Seq(A) /\ A \subseteq Steps(f)
    BY <1>8 DEF t, A
  <2>2. IsList(t) /\ ToSet(t) \subseteq A
    BY <2>1, SeqMade
  <2>3. t \in Seq(Steps(f))
    BY <2>1, <2>2, SeqSub
  <2> QED
    BY <2>1, <2>3
<1>10. \A i \in DOMAIN t : t[i].from < 0
  BY <1>9 DEF A
<1> QED
  BY <1>9, <1>10 DEF t

\* A bag of cards, and the bag of the cards played, count the faces.
LEMMA CardsCounted ==
    ASSUME NEW s \in Seq(Cards)
    PROVE LET bag == CardsOf(s) IN
          /\ bag = [x \in DOMAIN bag |-> bag[x]]
          /\ DOMAIN bag = {x \in Faces : Count(s, Like(x)) > 0}
          /\ \A x \in DOMAIN bag : bag[x] = Count(s, Like(x))
<1> DEFINE t == [i \in DOMAIN s |-> <<s[i].hero, s[i].skill>>]
           on(x) == {i \in DOMAIN s : s[i] \in Like(x)}
<1>1. \A i \in DOMAIN s : s[i] \in Cards /\ t[i] \in Faces
  <2> TAKE i \in DOMAIN s
  <2>1. s[i] \in Cards
    OBVIOUS
  <2>2. s[i].hero \in DOMAIN Life /\ s[i].skill \in DOMAIN Skill \cup {NoSkill}
    BY <2>1 DEF Cards
  <2>3. t[i] = <<s[i].hero, s[i].skill>>
    OBVIOUS
  <2>4. <<s[i].hero, s[i].skill>> \in (DOMAIN Life) \X (DOMAIN Skill \cup {NoSkill})
    BY <2>2
  <2> HIDE DEF t
  <2> QED
    BY <2>1, <2>3, <2>4 DEF Faces
<1>2. \A x : {i \in DOMAIN t : t[i] = x} = on(x)
  BY <1>1 DEF Like
<1>3. Range(t) = {x \in Faces : on(x) # {}}
  <2>1. Range(t) = {t[i] : i \in DOMAIN s}
    BY DEF Range
  <2>2. \A x : x \in Range(t) <=> \E i \in DOMAIN s : t[i] = x
    BY <2>1
  <2>3. \A x : (\E i \in DOMAIN s : t[i] = x) <=> on(x) # {}
    BY <1>2
  <2> HIDE DEF on, t
  <2> QED
    BY <1>1, <2>2, <2>3
<1>4. \A x : on(x) # {} <=> Count(s, Like(x)) > 0
  <2> TAKE x
  <2>1. IsFiniteSet(on(x)) /\ Count(s, Like(x)) \in Nat /\ Count(s, Like(x)) = Cardinality(on(x))
    BY CountTyped DEF Count
  <2> HIDE DEF on
  <2> QED
    BY <2>1, FS_EmptySet
<1>5. CardsOf(s) = [x \in Range(t) |-> Cardinality({i \in DOMAIN t : t[i] = x})]
  BY DEF CardsOf, ToBag
<1>6. \A x : Cardinality(on(x)) = Count(s, Like(x))
  BY DEF Count
<1> HIDE DEF t, on
<1>7. CardsOf(s) = [x \in {x \in Faces : Count(s, Like(x)) > 0} |-> Count(s, Like(x))]
  <2>1. Range(t) = {x \in Faces : Count(s, Like(x)) > 0}
    BY <1>3, <1>4
  <2>2. \A x : Cardinality({i \in DOMAIN t : t[i] = x}) = Count(s, Like(x))
    BY <1>2, <1>6
  <2> QED
    BY <1>5, <2>1, <2>2
<1> QED
  BY <1>7

LEMMA StepsCounted ==
    ASSUME NEW f, Sane(f), f.model \in [Entities(f) -> DOMAIN Life], NEW s \in Seq(Steps(f))
    PROVE LET bag == PlayedCards(f, s) IN
          /\ bag = [x \in DOMAIN bag |-> bag[x]]
          /\ DOMAIN bag = {x \in Faces : Count(s, Plays(f, x)) > 0}
          /\ \A x \in DOMAIN bag : bag[x] = Count(s, Plays(f, x))
<1> DEFINE own == {i \in DOMAIN s : s[i].from > 0}
           card(i) == <<f.model[s[i].from], s[i].skill>>
           on(x) == {i \in DOMAIN s : s[i] \in Plays(f, x)}
<1>1. \A i \in DOMAIN s : s[i] \in Steps(f)
  OBVIOUS
<1>0. \A i \in own : card(i) \in Faces
  <2> TAKE i \in own
  <2>1. s[i] \in Steps(f) /\ s[i].from > 0
    BY <1>1
  <2>2. s[i].from \in Entities(f) /\ s[i].skill \in DOMAIN Skill \cup {NoSkill}
    BY <2>1 DEF Steps, Nobody
  <2>3. f.model[s[i].from] \in DOMAIN Life
    BY <2>2
  <2>4. <<f.model[s[i].from], s[i].skill>> \in (DOMAIN Life) \X (DOMAIN Skill \cup {NoSkill})
    BY <2>2, <2>3
  <2> QED
    BY <2>4 DEF Faces
<1>2. \A x : {i \in own : card(i) = x} = on(x)
  BY <1>1 DEF Plays
<1>3. {card(i) : i \in own} = {x \in Faces : on(x) # {}}
  <2>3. \A x : (\E i \in own : card(i) = x) <=> on(x) # {}
    BY <1>2
  <2> HIDE DEF on, card, own
  <2> QED
    BY <1>0, <2>3
<1>4. \A x : on(x) # {} <=> Count(s, Plays(f, x)) > 0
  <2> TAKE x
  <2>1. IsFiniteSet(on(x)) /\ Count(s, Plays(f, x)) \in Nat /\ Count(s, Plays(f, x)) = Cardinality(on(x))
    BY CountTyped DEF Count
  <2> HIDE DEF on
  <2> QED
    BY <2>1, FS_EmptySet
<1>5. PlayedCards(f, s) = [x \in {card(i) : i \in own} |-> Cardinality({i \in own : card(i) = x})]
  BY DEF PlayedCards
<1>6. \A x : Cardinality(on(x)) = Count(s, Plays(f, x))
  BY DEF Count
<1> HIDE DEF own, card, on
<1>7. PlayedCards(f, s) = [x \in {x \in Faces : Count(s, Plays(f, x)) > 0} |-> Count(s, Plays(f, x))]
  <2>1. {card(i) : i \in own} = {x \in Faces : Count(s, Plays(f, x)) > 0}
    BY <1>3, <1>4
  <2>2. \A x : Cardinality({i \in own : card(i) = x}) = Count(s, Plays(f, x))
    BY <1>2, <1>6
  <2> QED
    BY <1>5, <2>1, <2>2
<1> QED
  BY <1>7

\* The hand that was dealt is the hand that is left and what was played.
LEMMA HandAccounts ==
    ASSUME NEW b, Playable(b), NEW hand \in Seq(Cards), NEW steps \in Seq(Steps(b.fight)),
           \A x \in Faces : Count(b.deck, Like(x))
                              = Count(hand, Like(x)) + Count(steps, Plays(b.fight, x))
    PROVE CardsOf(b.deck) = CardsOf(hand) (+) PlayedCards(b.fight, steps)
<1> DEFINE D == CardsOf(b.deck)  H == CardsOf(hand)  P == PlayedCards(b.fight, steps)
           d(x) == Count(b.deck, Like(x))  h(x) == Count(hand, Like(x))
           p(x) == Count(steps, Plays(b.fight, x))
<1>1. b.deck \in Seq(Cards) /\ Sane(b.fight) /\ b.fight.model \in [Entities(b.fight) -> DOMAIN Life]
  BY DEF Playable
<1>2. D = [x \in DOMAIN D |-> D[x]] /\ DOMAIN D = {x \in Faces : d(x) > 0} /\ \A x \in DOMAIN D : D[x] = d(x)
  BY <1>1, CardsCounted
<1>3. DOMAIN H = {x \in Faces : h(x) > 0} /\ \A x \in DOMAIN H : H[x] = h(x)
  BY CardsCounted
<1>4. DOMAIN P = {x \in Faces : p(x) > 0} /\ \A x \in DOMAIN P : P[x] = p(x)
  BY <1>1, StepsCounted
<1>5. \A x \in Faces : d(x) = h(x) + p(x) /\ d(x) \in Nat /\ h(x) \in Nat /\ p(x) \in Nat
  BY <1>1, CountTyped
<1> HIDE DEF D, H, P, d, h, p
<1>6. DOMAIN D = DOMAIN H \cup DOMAIN P
  BY <1>2, <1>3, <1>4, <1>5
<1>7. \A x \in DOMAIN D : D[x] = (IF x \in DOMAIN H THEN H[x] ELSE 0) + (IF x \in DOMAIN P THEN P[x] ELSE 0)
  <2> TAKE x \in DOMAIN D
  <2>1. x \in Faces /\ D[x] = d(x) /\ d(x) = h(x) + p(x) /\ h(x) \in Nat /\ p(x) \in Nat
    BY <1>2, <1>5
  <2>2. (IF x \in DOMAIN H THEN H[x] ELSE 0) = h(x)
    BY <1>3, <2>1
  <2>3. (IF x \in DOMAIN P THEN P[x] ELSE 0) = p(x)
    BY <1>4, <2>1
  <2> QED
    BY <2>1, <2>2, <2>3
<1>8. D = H (+) P
  BY <1>2, <1>6, <1>7 DEF (+)
<1> QED
  BY <1>8 DEF D, H, P

\* What a round of a battle that can be played promises.
LEMMA RoundOf ==
    ASSUME NEW b, Playable(b), NEW opers \in Seq(Orders), NEW r \in ProcessRound(b, opers), r.ok
    PROVE /\ ReportsServerState(r)
          /\ HandAccountedFor(b, r)
          /\ DamageAccountedFor(b, r)
          /\ LifeWithinMax(r)
<1> DEFINE f == b.fight  s == ExecuteOperations(f, NewState(b), opers)
           turns == IF Aims(f) = {} THEN {<<>>}
                    ELSE {AiSteps(f, b.ai, d) : d \in Draws(f, b.ai)}
<1>1. PICK ai \in turns : r = LET played == PlaySteps(f, s.steps \o ai)
                              IN Response(s, s.steps \o ai, played.fight, s.ok /\ played.ok)
  BY DEF ProcessRound
<1>2. s \in States(b)
  BY NewStateTyped, OperationsExecuted
<1>3. ai \in Seq(Steps(f)) /\ \A i \in DOMAIN ai : ai[i].from < 0
  <2>1. CASE Aims(f) = {}
    <3>1. ai = <<>>
      BY <1>1, <2>1
    <3> QED
      BY <3>1
  <2>2. CASE Aims(f) # {}
    <3>1. PICK d \in Draws(f, b.ai) : ai = AiSteps(f, b.ai, d)
      BY <1>1, <2>2
    <3> QED
      BY <3>1, AiTyped
  <2> QED
    BY <2>1, <2>2
<1> HIDE DEF s, turns
<1> DEFINE all == s.steps \o ai  played == PlaySteps(f, all)
<1>4. s.steps \in Seq(Steps(f)) /\ s.hand \in Seq(Cards) /\ s.ok \in BOOLEAN
  BY <1>2 DEF States
<1>5. all \in Seq(Steps(f))
  BY <1>3, <1>4, JoinTyped
<1>6. Sane(f) /\ f \in Becomes(f) /\ f.model \in [Entities(f) -> DOMAIN Life]
  BY DEF Playable
<1>7. /\ played \in Results(f)
      /\ played.ok => \A t \in {1, 2} : Worth(played.fight.pool[t]) = Worth(f.pool[t]) + DamageTo(f, t, all)
  <2> HIDE DEF all
  <2> QED
    BY <1>5, <1>6, PlayAccounts
<1>8. /\ r.steps = all /\ r.hand = s.hand /\ r.fight = played.fight /\ r.hp = r.fight.hp
      /\ r.finish = BattleEnd(r.fight) /\ r.ok = (s.ok /\ played.ok)
  BY <1>1 DEF Response
<1>9. \A x \in Faces : Count(b.deck, Like(x)) = Count(s.hand, Like(x)) + Count(all, Plays(f, x))
  <2> TAKE x \in Faces
  <2>1. \A i \in DOMAIN ai : ai[i] \notin Plays(f, x)
    <3> TAKE i \in DOMAIN ai
    <3>1. ai[i] \in Steps(f) /\ ai[i].from < 0
      BY <1>3
    <3>2. ai[i].from \in Int
      BY <1>6, <3>1 DEF Steps, Sane, Nobody
    <3> QED
      BY <3>1, <3>2 DEF Plays
  <2>2. Count(all, Plays(f, x)) = Count(s.steps, Plays(f, x))
    BY <1>3, <1>4, <2>1, CountJoin
  <2> QED
    BY <1>2, <2>2 DEF States
<1> HIDE DEF all, played
<1>10. ReportsServerState(r)
  BY <1>8 DEF ReportsServerState
<1>11. HandAccountedFor(b, r)
  <2>1. CardsOf(b.deck) = CardsOf(s.hand) (+) PlayedCards(f, all)
    BY <1>4, <1>5, <1>9, HandAccounts
  <2> QED
    BY <1>8, <2>1 DEF HandAccountedFor
<1>12. played.fight \in Becomes(f) /\ played.ok
  BY <1>7, <1>8 DEF Results
<1>13. DamageAccountedFor(b, r)
  <2>1. played.fight.pool \in Pools
    BY <1>12 DEF Becomes
  <2>2. \A t \in {1, 2} : /\ played.fight.pool[t].value <= PoolMax[t]
                          /\ played.fight.pool[t].acc < PerPoint \/ played.fight.pool[t].value = PoolMax[t]
    BY <2>1 DEF Pools
  <2>3. \A t \in {1, 2} : PerPoint * played.fight.pool[t].value + played.fight.pool[t].acc
          = PerPoint * f.pool[t].value + f.pool[t].acc + DamageTo(f, t, all)
    BY <1>7, <1>12 DEF Worth
  <2> QED
    BY <1>8, <2>2, <2>3 DEF DamageAccountedFor
<1>14. LifeWithinMax(r)
  <2>1. /\ played.fight.side = f.side /\ played.fight.max = f.max
        /\ \A u \in Entities(f) : played.fight.hp[u] <= f.max[u]
    BY <1>12 DEF Becomes
  <2> QED
    BY <1>8, <2>1 DEF LifeWithinMax, Entities
<1> QED
  BY <1>10, <1>11, <1>13, <1>14

\* A finite set has finitely many images, and as many of them if no two agree.
LEMMA Images ==
    ASSUME NEW S, IsFiniteSet(S), NEW f
    PROVE /\ IsFiniteSet({f[x] : x \in S})
          /\ (\A x, y \in S : f[x] = f[y] => x = y)
               => Cardinality({f[x] : x \in S}) = Cardinality(S)
<1> DEFINE h == [x \in S |-> f[x]]  T == {f[x] : x \in S}
<1>1. h \in Surjection(S, T)
  BY DEF Surjection
<1>2. IsFiniteSet(T) /\ (Cardinality(T) = Cardinality(S) <=> h \in Injection(S, T))
  <2> HIDE DEF h, T
  <2> QED
    BY <1>1, FS_Surjection
<1>3. ASSUME \A x, y \in S : f[x] = f[y] => x = y PROVE h \in Injection(S, T)
  BY <1>3 DEF Injection, IsInjective
<1> QED
  BY <1>2, <1>3

-----------------------------------------------------------------------------
(* Teams: uids and positions. *)

LEMMA SlotsTyped ==
    ASSUME NEW g \in AnyGroup
    PROVE /\ IsFiniteSet(Slots(g)) /\ Slots(g) \subseteq Int
          /\ \A i \in DOMAIN g.heroes : g.heroes[i] \in Slots(g) /\ g.heroes[i] \in Int
          /\ \A i \in DOMAIN g.subs : g.subs[i] \in Slots(g) /\ g.subs[i] \in Int
          /\ IsFiniteSet(DOMAIN g.heroes) /\ DOMAIN g.heroes \subseteq Nat \ {0}
          /\ IsFiniteSet(DOMAIN g.subs) /\ DOMAIN g.subs \subseteq Nat \ {0}
<1>1. /\ g.heroes \in Seq(Int) /\ g.subs \in Seq(Int)
  BY DEF AnyGroup
<1>2. ASSUME NEW s \in Seq(Int)
      PROVE IsFiniteSet(DOMAIN s) /\ IsFiniteSet(Range(s)) /\ Range(s) \subseteq Int
            /\ DOMAIN s \subseteq Nat \ {0}
            /\ \A i \in DOMAIN s : s[i] \in Range(s)
  <2>1. Len(s) \in Nat /\ DOMAIN s = 1..Len(s)
    OBVIOUS
  <2>2. IsFiniteSet(DOMAIN s)
    BY <2>1, FS_Interval
  <2>3. IsFiniteSet({s[i] : i \in DOMAIN s})
    BY <2>2, Images
  <2> QED
    BY <2>1, <2>2, <2>3 DEF Range
<1>3. IsFiniteSet(Range(g.heroes) \cup Range(g.subs))
  BY <1>1, <1>2, FS_Union
<1> QED
  BY <1>1, <1>2, <1>3 DEF Slots

LEMMA AidTyped ==
    ASSUME NEW g \in AnyGroup
    PROVE AidOrdinal(g) \in Nat
<1> DEFINE A == {v \in Slots(g) : IsAid(v)}  m == [u \in A |-> -u]  X == {-u : u \in A}
           S == {0} \cup X
<1>1. IsFiniteSet(A) /\ A \subseteq Int
  BY SlotsTyped, FS_Subset
<1>2. IsFiniteSet({m[u] : u \in A})
  BY <1>1, Images
<1>3. X = {m[u] : u \in A}
  OBVIOUS
<1>4. IsFiniteSet(X) /\ X \subseteq Int
  BY <1>1, <1>2, <1>3
<1> HIDE DEF X
<1>5. IsFiniteSet({0} \cup X)
  BY <1>4, FS_Union, FS_Singleton
<1>6. S \subseteq Int /\ 0 \in S
  BY <1>4
<1>7. Max(S) \in Int /\ 0 <= Max(S)
  <2>1. IsFiniteSet(S) /\ S # {}
    BY <1>5
  <2> HIDE DEF S
  <2> QED
    BY <1>6, <2>1, MaxIsGreatest
<1>8. AidOrdinal(g) = Max(S)
  BY DEF AidOrdinal, X
<1> QED
  BY <1>7, <1>8

\* A trial hero of the older encoding stands where a slot names it.
OfSlots(slots, sign) ==
  {r \in [id : Int, pos : Int] :
     \E i \in DOMAIN slots : IsLegacyTrial(slots[i]) /\ r.pos = sign * i}

LEMMA LegacyTyped ==
    ASSUME NEW slots \in Seq(Int), NEW sign \in {1, -1}
    PROVE LegacyTrials(slots, sign) \in Seq(OfSlots(slots, sign))
<1> DEFINE n == Len(slots)
           A == OfSlots(slots, sign)
           ss == [i \in 1..n |->
                   IF IsLegacyTrial(slots[i]) THEN <<[id |-> -slots[i], pos |-> sign * i]>> ELSE <<>>]
<1>1. n \in Nat /\ DOMAIN slots = 1..n /\ \A i \in 1..n : slots[i] \in Int
  OBVIOUS
<1>2. \A i \in 1..n : ss[i] \in Seq(A)
  <2> TAKE i \in 1..n
  <2>1. CASE IsLegacyTrial(slots[i])
    <3> DEFINE r == [id |-> -slots[i], pos |-> sign * i]
    <3>1. r.id \in Int /\ r.pos \in Int /\ r \in [id : Int, pos : Int]
      BY <1>1
    <3>2. r \in A
      BY <1>1, <2>1, <3>1 DEF OfSlots
    <3> HIDE DEF r, A
    <3>3. <<r>> \in Seq(A)
      BY <3>2
    <3> QED
      BY <2>1, <3>3 DEF r
  <2>2. CASE ~IsLegacyTrial(slots[i])
    BY <2>2
  <2> QED
    BY <2>1, <2>2
<1>3. LegacyTrials(slots, sign) = FlattenSeq(ss)
  BY <1>1 DEF LegacyTrials
<1>4. ss = [i \in 1..n |-> ss[i]]
  OBVIOUS
<1> HIDE DEF ss, n, A
<1>5. FlattenSeq(ss) \in Seq(A)
  BY <1>1, <1>2, <1>4, FlatMade
<1> QED
  BY <1>3, <1>5 DEF A

LEMMA RequestedTyped ==
    ASSUME NEW g \in AnyGroup
    PROVE /\ Requested(g) \in Seq([id : Int, pos : Int])
          /\ ~Explicit(g) =>
               \A i \in DOMAIN Requested(g) : LET q == Requested(g)[i].pos IN
                  /\ q > 0 => q \in DOMAIN g.heroes /\ IsLegacyTrial(g.heroes[q])
                  /\ q < 0 => -q \in DOMAIN g.subs /\ IsLegacyTrial(g.subs[-q])
<1> DEFINE H == OfSlots(g.heroes, 1)  S == OfSlots(g.subs, -1)  A == H \cup S
<1>1. g.heroes \in Seq(Int) /\ g.subs \in Seq(Int) /\ g.trials \in Seq([id : Int, pos : Int])
  BY DEF AnyGroup
<1>2. CASE Explicit(g)
  BY <1>1, <1>2 DEF Requested
<1>3. CASE ~Explicit(g)
  <2> DEFINE t == LegacyTrials(g.heroes, 1)  u == LegacyTrials(g.subs, -1)
  <2>1. t \in Seq(H) /\ u \in Seq(S)
    BY <1>1, LegacyTyped
  <2> HIDE DEF t, u
  <2>2. t \in Seq(A) /\ u \in Seq(A)
    <3> HIDE DEF H, S
    <3>1. IsList(t) /\ ToSet(t) \subseteq H /\ IsList(u) /\ ToSet(u) \subseteq S
      BY <2>1, SeqMade
    <3> QED
      BY <3>1, SeqSub
  <2>3. t \o u \in Seq(A)
    BY <2>2, JoinTyped
  <2>4. Requested(g) = t \o u
    BY <1>3 DEF Requested, t, u
  <2>5. \A r \in A : r \in [id : Int, pos : Int]
    BY DEF OfSlots
  <2>6. Requested(g) \in Seq([id : Int, pos : Int])
    <3> HIDE DEF A
    <3>1. IsList(t \o u) /\ ToSet(t \o u) \subseteq A
      BY <2>3, SeqMade
    <3>2. ToSet(t \o u) \subseteq [id : Int, pos : Int]
      BY <2>5, <3>1
    <3> QED
      BY <2>4, <3>1, <3>2, SeqSub
  <2>7. \A r \in A : /\ r.pos > 0 => r.pos \in DOMAIN g.heroes /\ IsLegacyTrial(g.heroes[r.pos])
                     /\ r.pos < 0 => -r.pos \in DOMAIN g.subs /\ IsLegacyTrial(g.subs[-r.pos])
    <3> TAKE r \in A
    <3>1. CASE r \in H
      <4>1. PICK i \in DOMAIN g.heroes : IsLegacyTrial(g.heroes[i]) /\ r.pos = 1 * i
        BY <3>1 DEF OfSlots
      <4>2. i \in Nat /\ i > 0
        BY SlotsTyped
      <4>3. r.pos = i
        BY <4>1, <4>2
      <4> QED
        BY <4>1, <4>2, <4>3
    <3>2. CASE r \in S
      <4>1. PICK i \in DOMAIN g.subs : IsLegacyTrial(g.subs[i]) /\ r.pos = (-1) * i
        BY <3>2 DEF OfSlots
      <4>2. i \in Nat /\ i > 0
        BY SlotsTyped
      <4>3. -r.pos = i /\ r.pos < 0
        BY <4>1, <4>2
      <4> QED
        BY <4>1, <4>2, <4>3
    <3> QED
      BY <3>1, <3>2
  <2>8. \A i \in DOMAIN Requested(g) : Requested(g)[i] \in A
    <3> HIDE DEF A
    <3> QED
      BY <2>3, <2>4
  <2> QED
    BY <2>6, <2>7, <2>8
<1> QED
  BY <1>2, <1>3

\* What a trial hero of a request that normalizes is.
LEMMA TrialsTyped ==
    ASSUME NEW g \in AnyGroup, Normalizes(g)
    PROVE /\ IsFiniteSet(Trials(g))
          /\ \A t \in Trials(g) :
               /\ t.id \in Int /\ t.pos \in Int /\ t.pos # 0
               /\ t.uid \in Int /\ t.uid < 0 /\ t.uid >= -Reserved(g)
               /\ ~Explicit(g) =>
                    /\ t.pos > 0 => t.pos \in DOMAIN g.heroes /\ IsLegacyTrial(g.heroes[t.pos])
                    /\ t.pos < 0 => -t.pos \in DOMAIN g.subs /\ IsLegacyTrial(g.subs[-t.pos])
          /\ \A t, u \in Trials(g) : t # u => t.uid # u.uid /\ t.pos # u.pos
          /\ Reserved(g) \in Nat /\ Reserved(g) <= MaxOrdinal
<1> DEFINE ts == Requested(g)  n == Len(ts)  a == AidOrdinal(g)
           made == [i \in DOMAIN ts |-> [id |-> ts[i].id, pos |-> ts[i].pos, uid |-> -(a + i)]]
<1>1. /\ ts \in Seq([id : Int, pos : Int]) /\ n \in Nat /\ DOMAIN ts = 1..n /\ a \in Nat
      /\ MaxOrdinal \in Nat
  <2>1. ts \in Seq([id : Int, pos : Int])
    BY RequestedTyped
  <2>2. a \in Nat
    BY AidTyped
  <2>3. MaxOrdinal \in Nat
    BY TeamAssumption
  <2>4. Len(ts) \in Nat /\ DOMAIN ts = 1..Len(ts)
    BY <2>1
  <2> QED
    BY <2>1, <2>2, <2>3, <2>4
<1>2. \A i \in 1..n : ts[i] \in [id : Int, pos : Int]
  <2> DEFINE A == [id : Int, pos : Int]
  <2>1. ts \in Seq(A) /\ DOMAIN ts = 1..n
    BY <1>1
  <2> HIDE DEF A, ts
  <2>2. \A i \in 1..n : ts[i] \in A
    BY <2>1
  <2> QED
    BY <2>2 DEF A
<1>3. Trials(g) = {made[i] : i \in 1..n}
  BY <1>1 DEF Trials
<1>4. IsFiniteSet(Trials(g))
  <2>1. IsFiniteSet(1..n)
    BY <1>1, FS_Interval
  <2> HIDE DEF made
  <2> QED
    BY <1>3, <2>1, Images
<1>5. \A i \in 1..n : made[i].id = ts[i].id /\ made[i].pos = ts[i].pos /\ made[i].uid = -(a + i)
  BY <1>1
<1>6. /\ a + n <= MaxOrdinal
      /\ \A i \in 1..n : ts[i].pos # 0
      /\ \A i, j \in 1..n : i # j => ts[i].pos # ts[j].pos
  BY <1>1 DEF Normalizes
<1>7. /\ ~Explicit(g) =>
           \A i \in 1..n : LET q == ts[i].pos IN
              /\ q > 0 => q \in DOMAIN g.heroes /\ IsLegacyTrial(g.heroes[q])
              /\ q < 0 => -q \in DOMAIN g.subs /\ IsLegacyTrial(g.subs[-q])
  BY <1>1, RequestedTyped
<1> HIDE DEF made, ts, n, a
<1> DEFINE up == [t \in Trials(g) |-> -t.uid]  X == {-t.uid : t \in Trials(g)}
<1>8. Reserved(g) \in Nat /\ Reserved(g) <= MaxOrdinal /\ \A t \in Trials(g) : -t.uid <= Reserved(g)
  <2>1. X = {up[t] : t \in Trials(g)}
    OBVIOUS
  <2>2. IsFiniteSet({up[t] : t \in Trials(g)})
    BY <1>4, Images
  <2>3. \A x \in X : x \in Nat /\ x <= MaxOrdinal
    <3> TAKE x \in X
    <3>1. PICK i \in 1..n : x = -(made[i].uid)
      BY <1>3
    <3>2. x = a + i /\ i \in Nat /\ i <= n
      BY <1>1, <1>5, <3>1
    <3> QED
      BY <1>1, <1>6, <3>2
  <2> HIDE DEF up
  <2>4. \A t \in Trials(g) : -t.uid \in X
    OBVIOUS
  <2>5. IsFiniteSet(X)
    BY <2>1, <2>2
  <2> HIDE DEF X
  <2>6. IsFiniteSet({a} \cup X)
    BY <2>5, FS_Union, FS_Singleton
  <2> DEFINE S == {a} \cup X
  <2>7. S \subseteq Int /\ S # {} /\ \A x \in S : x \in Nat /\ x <= MaxOrdinal
    BY <1>1, <1>6, <2>3
  <2>8. Max(S) \in S /\ \A y \in S : y <= Max(S)
    <3> HIDE DEF S
    <3> QED
      BY <2>6, <2>7, MaxIsGreatest DEF S
  <2>9. Reserved(g) = Max(S)
    BY DEF Reserved, X, a
  <2>10. \A t \in Trials(g) : -t.uid \in S
    BY <2>4
  <2> HIDE DEF S
  <2> QED
    BY <2>7, <2>8, <2>9, <2>10
<1> HIDE DEF up, X
<1>9. ASSUME NEW t \in Trials(g)
      PROVE /\ t.id \in Int /\ t.pos \in Int /\ t.pos # 0
            /\ t.uid \in Int /\ t.uid < 0 /\ t.uid >= -Reserved(g)
            /\ ~Explicit(g) =>
                 /\ t.pos > 0 => t.pos \in DOMAIN g.heroes /\ IsLegacyTrial(g.heroes[t.pos])
                 /\ t.pos < 0 => -t.pos \in DOMAIN g.subs /\ IsLegacyTrial(g.subs[-t.pos])
  <2>1. PICK i \in 1..n : t = made[i]
    BY <1>3
  <2>2. t.id = ts[i].id /\ t.pos = ts[i].pos /\ t.uid = -(a + i) /\ i \in Nat /\ i > 0
    BY <1>1, <1>5, <2>1
  <2>3. t.uid \in Int /\ t.uid < 0
    BY <1>1, <2>2
  <2>4. t.uid >= -Reserved(g)
    BY <1>8, <2>3
  <2> QED
    BY <1>2, <1>6, <1>7, <2>2, <2>3, <2>4
<1>10. ASSUME NEW t \in Trials(g), NEW u \in Trials(g), t # u
       PROVE t.uid # u.uid /\ t.pos # u.pos
  <2>1. PICK i \in 1..n : t = made[i]
    BY <1>3
  <2>2. PICK j \in 1..n : u = made[j]
    BY <1>3
  <2>3. i # j
    BY <1>10, <2>1, <2>2
  <2>4. ts[i].pos # ts[j].pos
    BY <1>6, <2>3
  <2>5. t.pos = ts[i].pos /\ u.pos = ts[j].pos /\ t.uid = -(a + i) /\ u.uid = -(a + j)
    BY <1>5, <2>1, <2>2
  <2> QED
    BY <1>1, <2>3, <2>4, <2>5
<1> QED
  BY <1>4, <1>8, <1>9, <1>10

\* The k-th position that is not taken exists, and they increase with k.
LEMMA FreeFound ==
    ASSUME NEW taken, IsFiniteSet(taken), NEW k \in Nat \ {0}
    PROVE /\ FreePosition(taken, k) \in Nat \ {0} /\ FreePosition(taken, k) \notin taken
          /\ Cardinality((1..FreePosition(taken, k)) \ taken) = k
<1> DEFINE n == k + Cardinality(taken)  T == (1..n) \ taken
           Is(p) == p \notin taken /\ Cardinality((1..p) \ taken) = k
<1>1. Cardinality(taken) \in Nat /\ n \in Nat
  <2>1. Cardinality(taken) \in Nat
    BY FS_CardinalityType
  <2> QED
    BY <2>1
<1>2. IsFiniteSet(1..n) /\ Cardinality(1..n) = n
  BY <1>1, FS_Interval
<1>3. IsFiniteSet(T) /\ Cardinality(T) \in Nat
  <2>1. IsFiniteSet(T)
    BY <1>2, FS_Subset
  <2> HIDE DEF T
  <2> QED
    BY <2>1, FS_CardinalityType
<1>4. k <= Cardinality(T)
  <2> DEFINE both == (1..n) \cap taken
  <2>1. IsFiniteSet(both) /\ Cardinality(both) <= Cardinality(taken)
    BY FS_Subset
  <2>2. T \cup both = 1..n /\ T \cap both = {}
    OBVIOUS
  <2> HIDE DEF T, both
  <2>3. Cardinality(T \cup both) = Cardinality(T) + Cardinality(both) - Cardinality(T \cap both)
    BY <1>3, <2>1, FS_Union
  <2>4. Cardinality(T \cap both) = 0
    BY <2>2, FS_EmptySet
  <2>5. Cardinality(both) \in Nat
    BY <2>1, FS_CardinalityType
  <2>6. n = Cardinality(T) + Cardinality(both)
    <3> HIDE DEF n
    <3>1. Cardinality(T \cup both) = n
      BY <1>2, <2>2
    <3> QED
      BY <1>3, <2>3, <2>4, <2>5, <3>1
  <2> QED
    BY <1>1, <1>3, <2>1, <2>5, <2>6
<1>5. T \subseteq Int /\ k \in 1..Cardinality(T)
  BY <1>3, <1>4
<1>6. PICK x \in T : Cardinality({y \in T : y <= x}) = k
  <2> HIDE DEF T
  <2> QED
    BY <1>3, <1>5, RankExists
<1>7. {y \in T : y <= x} = (1..x) \ taken
  BY <1>1
<1>8. x \in 1..n /\ Is(x)
  BY <1>6, <1>7
<1> DEFINE p == FreePosition(taken, k)
<1>9. p \in 1..n /\ Is(p)
  <2>1. p = CHOOSE q \in 1..n : Is(q)
    BY DEF FreePosition
  <2> HIDE DEF p, Is, n
  <2> QED
    BY <1>8, <2>1
<1> HIDE DEF p
<1>10. p \in Nat \ {0}
  BY <1>1, <1>9
<1> QED
  BY <1>9, <1>10 DEF p

LEMMA FreeInOrder ==
    ASSUME NEW taken, IsFiniteSet(taken), NEW i \in Nat \ {0}, NEW j \in Nat \ {0}, i < j
    PROVE FreePosition(taken, i) < FreePosition(taken, j)
<1> DEFINE p == FreePosition(taken, i)  q == FreePosition(taken, j)
<1>1. /\ p \in Nat \ {0} /\ q \in Nat \ {0}
      /\ Cardinality((1..p) \ taken) = i /\ Cardinality((1..q) \ taken) = j
  BY FreeFound
<1> HIDE DEF p, q
<1> SUFFICES ASSUME ~(p < q) PROVE FALSE
  BY DEF p, q
<1>2. (1..q) \ taken \in SUBSET ((1..p) \ taken)
  BY <1>1
<1>3. IsFiniteSet(1..p)
  BY <1>1, FS_Interval
<1>4. IsFiniteSet((1..p) \ taken)
  BY <1>3, FS_Subset
<1>5. Cardinality((1..q) \ taken) <= Cardinality((1..p) \ taken)
  BY <1>2, <1>4, FS_Subset
<1> QED
  BY <1>1, <1>5

\* The slots of a list stand apart, in order, and where no trial hero stands.
LEMMA SlotsApart ==
    ASSUME NEW g, NEW slots, OwnedSlots(slots) \subseteq Nat \ {0}, NEW taken, IsFiniteSet(taken),
           ~Explicit(g) => taken \cap OwnedSlots(slots) = {}
    PROVE /\ \A i \in OwnedSlots(slots) :
               Position(g, taken, i) \in Nat \ {0} /\ Position(g, taken, i) \notin taken
          /\ \A i, j \in OwnedSlots(slots) :
               i < j => Position(g, taken, i) < Position(g, taken, j)
<1>1. CASE Explicit(g)
  BY <1>1, FreeFound, FreeInOrder DEF Position
<1>2. CASE ~Explicit(g)
  BY <1>2 DEF Position
<1> QED
  BY <1>1, <1>2

LEMMA OwnedTyped ==
    ASSUME NEW g \in AnyGroup, NEW slots \in {g.heroes, g.subs}
    PROVE /\ OwnedSlots(slots) \subseteq Nat \ {0} /\ IsFiniteSet(OwnedSlots(slots))
          /\ \A i \in OwnedSlots(slots) : slots[i] \in Int /\ slots[i] > 0 /\ slots[i] \in Slots(g)
<1>1. /\ IsFiniteSet(DOMAIN slots) /\ DOMAIN slots \subseteq Nat \ {0}
      /\ \A i \in DOMAIN slots : slots[i] \in Int /\ slots[i] \in Slots(g)
  BY SlotsTyped
<1>2. OwnedSlots(slots) \subseteq DOMAIN slots /\ \A i \in OwnedSlots(slots) : slots[i] > 0
  BY DEF OwnedSlots
<1>3. IsFiniteSet(OwnedSlots(slots))
  BY <1>1, <1>2, FS_Subset
<1> QED
  BY <1>1, <1>2, <1>3

\* In a team that is built, what is read of a slot names a hero of the player.
LEMMA HeroNamed ==
    ASSUME NEW p \in DOMAIN Owned, NEW g \in AnyGroup, Builds(p, g),
           NEW slots \in {g.heroes, g.subs}, NEW i \in OwnedSlots(slots)
    PROVE /\ AsI32(slots[i]) \in Nat \ {0}
          /\ Owned[p][AsI32(slots[i])] \in DOMAIN BaseSkills
<1>1. slots[i] > 0 /\ slots[i] \in Slots(g)
  BY OwnedTyped
<1>2. AsI32(slots[i]) \in DOMAIN Owned[p]
  BY <1>1 DEF Builds
<1> QED
  BY <1>2, TeamAssumption

\* Where the trial heroes of the main list, and those of the substitutes, stand.
MainTaken(g) == {t.pos : t \in MainTrials(g)}
SubTaken(g) == {-t.pos : t \in SubTrials(g)}

LEMMA TakenApart ==
    ASSUME NEW g \in AnyGroup, Normalizes(g)
    PROVE /\ IsFiniteSet(MainTaken(g)) /\ IsFiniteSet(SubTaken(g))
          /\ ~Explicit(g) => /\ MainTaken(g) \cap OwnedSlots(g.heroes) = {}
                             /\ SubTaken(g) \cap OwnedSlots(g.subs) = {}
          /\ IsFiniteSet(MainTrials(g)) /\ IsFiniteSet(SubTrials(g))
          /\ \A t \in MainTrials(g) : t \in Trials(g) /\ t.pos > 0 /\ t.pos \in Int
          /\ \A t \in SubTrials(g) : t \in Trials(g) /\ t.pos < 0 /\ t.pos \in Int
<1> DEFINE M == MainTrials(g)  S == SubTrials(g)
           fm == [t \in M |-> t.pos]  fs == [t \in S |-> -t.pos]
<1>1. /\ M \subseteq Trials(g) /\ S \subseteq Trials(g)
      /\ \A t \in M : t.pos > 0
      /\ \A t \in S : ~(t.pos > 0)
  BY DEF MainTrials, SubTrials
<1>2. IsFiniteSet(Trials(g)) /\ \A t \in Trials(g) : t.pos \in Int /\ t.pos # 0
  BY TrialsTyped
<1>3. IsFiniteSet(M) /\ IsFiniteSet(S)
  <2> HIDE DEF M, S
  <2> QED
    BY <1>1, <1>2, FS_Subset
<1>4. \A t \in M : t.pos > 0 /\ t.pos \in Int /\ t \in Trials(g)
  BY <1>1, <1>2
<1>5. \A t \in S : t.pos < 0 /\ t.pos \in Int /\ t \in Trials(g)
  <2>1. \A t \in S : ~(t.pos > 0)
    BY DEF SubTrials, MainTrials
  <2>2. \A t \in S : t \in Trials(g)
    BY <1>1
  <2> HIDE DEF S
  <2> QED
    BY <1>2, <2>1, <2>2
<1> HIDE DEF M, S
<1>6. IsFiniteSet(MainTaken(g)) /\ IsFiniteSet(SubTaken(g))
  <2>1. MainTaken(g) = {fm[t] : t \in M} /\ SubTaken(g) = {fs[t] : t \in S}
    BY DEF MainTaken, SubTaken, M, S
  <2> HIDE DEF fm, fs
  <2> QED
    BY <1>3, <2>1, Images
<1>7. ASSUME ~Explicit(g), NEW x \in MainTaken(g) PROVE x \notin OwnedSlots(g.heroes)
  <2>1. PICK t \in M : x = t.pos
    BY DEF MainTaken, M
  <2>2. x \in DOMAIN g.heroes /\ IsLegacyTrial(g.heroes[x])
    BY <1>4, <1>7, <2>1, TrialsTyped
  <2>3. g.heroes[x] \in Int /\ MaxOrdinal \in Nat
    BY <2>2, SlotsTyped, TeamAssumption
  <2> QED
    BY <2>2, <2>3 DEF IsLegacyTrial, OwnedSlots
<1>8. ASSUME ~Explicit(g), NEW x \in SubTaken(g) PROVE x \notin OwnedSlots(g.subs)
  <2>1. PICK t \in S : x = -t.pos
    BY DEF SubTaken, S
  <2>2. x \in DOMAIN g.subs /\ IsLegacyTrial(g.subs[x])
    BY <1>5, <1>8, <2>1, TrialsTyped
  <2>3. g.subs[x] \in Int /\ MaxOrdinal \in Nat
    BY <2>2, SlotsTyped, TeamAssumption
  <2> QED
    BY <2>2, <2>3 DEF IsLegacyTrial, OwnedSlots
<1> QED
  BY <1>3, <1>4, <1>5, <1>6, <1>7, <1>8 DEF M, S

\* The members of the main list: an owned hero for each slot that holds one, and a
\* trial hero.
LEMMA MainsAre ==
    ASSUME NEW p \in DOMAIN Owned, NEW g \in AnyGroup, Builds(p, g)
    PROVE /\ IsFiniteSet(Mains(p, g))
          /\ \A m \in Mains(p, g) :
               /\ m.uid \in Int /\ m.uid # 0 /\ m.uid >= -Reserved(g) /\ m.pos \in Nat \ {0}
               /\ m.model \in DOMAIN BaseSkills
               /\ \/ \E i \in OwnedSlots(g.heroes) :
                        m = Member(AsI32(g.heroes[i]), Owned[p][AsI32(g.heroes[i])], Position(g, MainTaken(g), i))
                  \/ \E t \in MainTrials(g) : m = Member(t.uid, Trial[t.id], t.pos)
<1> DEFINE own(i) == Member(AsI32(g.heroes[i]), Owned[p][AsI32(g.heroes[i])], Position(g, MainTaken(g), i))
           trial(t) == Member(t.uid, Trial[t.id], t.pos)
           A == OwnedSlots(g.heroes)  M == MainTrials(g)
           fo == [i \in A |-> own(i)]  ft == [t \in M |-> trial(t)]
<1>1. Mains(p, g) = {own(i) : i \in A} \cup {trial(t) : t \in M}
  BY DEF Mains, MainTaken
<1>2. Normalizes(g)
  BY DEF Builds
<1>3. IsFiniteSet(A) /\ IsFiniteSet(M)
  BY <1>2, OwnedTyped, TakenApart
<1>4. IsFiniteSet(Mains(p, g))
  <2>1. {own(i) : i \in A} = {fo[i] : i \in A} /\ {trial(t) : t \in M} = {ft[t] : t \in M}
    OBVIOUS
  <2> HIDE DEF fo, ft, own, trial, A, M
  <2>2. IsFiniteSet({fo[i] : i \in A}) /\ IsFiniteSet({ft[t] : t \in M})
    BY <1>3, Images
  <2> DEFINE X == {fo[i] : i \in A}  Y == {ft[t] : t \in M}
  <2>3. IsFiniteSet(X) /\ IsFiniteSet(Y)
    BY <2>2
  <2> HIDE DEF X, Y
  <2>4. IsFiniteSet(X \cup Y)
    BY <2>3, FS_Union
  <2> QED
    BY <1>1, <2>1, <2>4 DEF X, Y
<1>5. ASSUME NEW i \in A
      PROVE /\ own(i).uid \in Int /\ own(i).uid # 0 /\ own(i).uid >= -Reserved(g)
            /\ own(i).pos \in Nat \ {0} /\ own(i).model \in DOMAIN BaseSkills
  <2>1. AsI32(g.heroes[i]) \in Nat \ {0} /\ Owned[p][AsI32(g.heroes[i])] \in DOMAIN BaseSkills
    BY HeroNamed
  <2>3. Position(g, MainTaken(g), i) \in Nat \ {0}
    BY <1>2, OwnedTyped, TakenApart, SlotsApart
  <2>4. Reserved(g) \in Nat
    BY <1>2, TrialsTyped
  <2> QED
    BY <2>1, <2>3, <2>4 DEF Member
<1>6. ASSUME NEW t \in M
      PROVE /\ trial(t).uid \in Int /\ trial(t).uid # 0 /\ trial(t).uid >= -Reserved(g)
            /\ trial(t).pos \in Nat \ {0} /\ trial(t).model \in DOMAIN BaseSkills
  <2>1. t \in Trials(g) /\ t.pos > 0 /\ t.pos \in Int
    BY <1>2, TakenApart
  <2>2. t.uid \in Int /\ t.uid < 0 /\ t.uid >= -Reserved(g)
    BY <1>2, <2>1, TrialsTyped
  <2>3. Trial[t.id] \in DOMAIN BaseSkills
    BY <2>1, TeamAssumption DEF Builds
  <2> QED
    BY <2>1, <2>2, <2>3 DEF Member
<1> HIDE DEF A, M
<1>7. \A m \in Mains(p, g) : (\E i \in A : m = own(i)) \/ (\E t \in M : m = trial(t))
  BY <1>1
<1>8. \A m \in Mains(p, g) : /\ m.uid \in Int /\ m.uid # 0 /\ m.uid >= -Reserved(g)
                             /\ m.pos \in Nat \ {0} /\ m.model \in DOMAIN BaseSkills
  <2> HIDE DEF own, trial
  <2> QED
    BY <1>5, <1>6, <1>7
<1> QED
  BY <1>4, <1>7, <1>8 DEF A, M

LEMMA SubOrdinals ==
    ASSUME NEW g \in AnyGroup, Normalizes(g)
    PROVE /\ \A i \in OwnedSlots(g.subs) : SubOrdinal(g, i) \in Nat /\ SubOrdinal(g, i) > Reserved(g)
          /\ \A i, j \in OwnedSlots(g.subs) : i < j => SubOrdinal(g, i) < SubOrdinal(g, j)
<1> DEFINE A == OwnedSlots(g.subs)  upto(i) == {j \in A : j <= i}
<1>1. IsFiniteSet(A) /\ A \subseteq Nat \ {0} /\ Reserved(g) \in Nat
  BY OwnedTyped, TrialsTyped
<1>2. \A i : SubOrdinal(g, i) = Reserved(g) + Cardinality(upto(i))
  BY DEF SubOrdinal
<1> HIDE DEF A
<1>3. \A i : IsFiniteSet(upto(i)) /\ Cardinality(upto(i)) \in Nat
  <2> TAKE i
  <2>1. IsFiniteSet(upto(i))
    BY <1>1, FS_Subset
  <2> QED
    BY <2>1, FS_CardinalityType
<1>4. ASSUME NEW i \in A PROVE Cardinality(upto(i)) > 0
  <2>1. i \in upto(i)
    BY <1>1
  <2> HIDE DEF upto
  <2>2. Cardinality(upto(i)) # 0
    BY <1>3, <2>1, FS_EmptySet
  <2> QED
    BY <1>3, <2>2
<1>5. ASSUME NEW i \in A, NEW j \in A, i < j PROVE Cardinality(upto(i)) < Cardinality(upto(j))
  <2>1. upto(i) \in SUBSET upto(j) /\ j \in upto(j) /\ j \notin upto(i)
    <3>1. \A x \in A : x <= i => x <= j
      BY <1>1, <1>5
    <3>2. j <= j /\ ~(j <= i)
      BY <1>1, <1>5
    <3> QED
      BY <3>1, <3>2
  <2> HIDE DEF upto
  <2>2. /\ Cardinality(upto(i)) <= Cardinality(upto(j))
        /\ Cardinality(upto(j)) = Cardinality(upto(i)) => upto(j) = upto(i)
    BY <1>3, <2>1, FS_Subset
  <2>3. upto(i) # upto(j)
    BY <2>1
  <2>4. Cardinality(upto(i)) \in Nat /\ Cardinality(upto(j)) \in Nat
    BY <1>3
  <2> QED
    BY <2>2, <2>3, <2>4
<1> HIDE DEF upto
<1>6. \A i \in A : SubOrdinal(g, i) \in Nat /\ SubOrdinal(g, i) > Reserved(g)
  BY <1>1, <1>2, <1>3, <1>4
<1>7. \A i, j \in A : i < j => SubOrdinal(g, i) < SubOrdinal(g, j)
  <2> TAKE i, j \in A
  <2> HAVE i < j
  <2>1. Cardinality(upto(i)) < Cardinality(upto(j)) /\ Cardinality(upto(i)) \in Nat /\ Cardinality(upto(j)) \in Nat
    BY <1>3, <1>5
  <2>2. SubOrdinal(g, i) = Reserved(g) + Cardinality(upto(i)) /\ SubOrdinal(g, j) = Reserved(g) + Cardinality(upto(j))
    BY <1>2
  <2> QED
    BY <1>1, <2>1, <2>2
<1> QED
  BY <1>6, <1>7 DEF A

LEMMA SubsAre ==
    ASSUME NEW p \in DOMAIN Owned, NEW g \in AnyGroup, Builds(p, g)
    PROVE /\ IsFiniteSet(Subs(p, g))
          /\ \A m \in Subs(p, g) :
               /\ m.uid \in Int /\ m.uid < 0 /\ m.uid >= -MaxOrdinal /\ m.pos \in Nat \ {0}
               /\ m.model \in DOMAIN BaseSkills
               /\ \/ \E i \in OwnedSlots(g.subs) :
                        m = Member(-SubOrdinal(g, i), Owned[p][AsI32(g.subs[i])], Position(g, SubTaken(g), i))
                  \/ \E t \in SubTrials(g) : m = Member(t.uid, Trial[t.id], -t.pos)
<1> DEFINE own(i) == Member(-SubOrdinal(g, i), Owned[p][AsI32(g.subs[i])], Position(g, SubTaken(g), i))
           trial(t) == Member(t.uid, Trial[t.id], -t.pos)
           A == OwnedSlots(g.subs)  M == SubTrials(g)
           fo == [i \in A |-> own(i)]  ft == [t \in M |-> trial(t)]
<1>1. Subs(p, g) = {own(i) : i \in A} \cup {trial(t) : t \in M}
  BY DEF Subs, SubTaken
<1>2. Normalizes(g) /\ \A i \in A : SubOrdinal(g, i) <= MaxOrdinal
  BY DEF Builds
<1>3. IsFiniteSet(A) /\ IsFiniteSet(M)
  BY <1>2, OwnedTyped, TakenApart
<1>9. MaxOrdinal \in Nat
  BY TeamAssumption
<1>4. IsFiniteSet(Subs(p, g))
  <2>1. {own(i) : i \in A} = {fo[i] : i \in A} /\ {trial(t) : t \in M} = {ft[t] : t \in M}
    OBVIOUS
  <2> HIDE DEF fo, ft, own, trial, A, M
  <2>2. IsFiniteSet({fo[i] : i \in A}) /\ IsFiniteSet({ft[t] : t \in M})
    BY <1>3, Images
  <2> DEFINE X == {fo[i] : i \in A}  Y == {ft[t] : t \in M}
  <2>3. IsFiniteSet(X) /\ IsFiniteSet(Y)
    BY <2>2
  <2> HIDE DEF X, Y
  <2>4. IsFiniteSet(X \cup Y)
    BY <2>3, FS_Union
  <2> QED
    BY <1>1, <2>1, <2>4 DEF X, Y
<1>5. ASSUME NEW i \in A
      PROVE /\ own(i).uid \in Int /\ own(i).uid < 0 /\ own(i).uid >= -MaxOrdinal
            /\ own(i).pos \in Nat \ {0} /\ own(i).model \in DOMAIN BaseSkills
  <2>2. Owned[p][AsI32(g.subs[i])] \in DOMAIN BaseSkills
    BY HeroNamed
  <2>3. Position(g, SubTaken(g), i) \in Nat \ {0}
    BY <1>2, OwnedTyped, TakenApart, SlotsApart
  <2>4. SubOrdinal(g, i) \in Nat /\ SubOrdinal(g, i) > Reserved(g) /\ Reserved(g) \in Nat
    BY <1>2, SubOrdinals, TrialsTyped
  <2>5. -SubOrdinal(g, i) \in Int /\ -SubOrdinal(g, i) < 0 /\ -SubOrdinal(g, i) >= -MaxOrdinal
    BY <1>2, <1>9, <2>4
  <2> QED
    BY <2>2, <2>3, <2>5 DEF Member
<1>6. ASSUME NEW t \in M
      PROVE /\ trial(t).uid \in Int /\ trial(t).uid < 0 /\ trial(t).uid >= -MaxOrdinal
            /\ trial(t).pos \in Nat \ {0} /\ trial(t).model \in DOMAIN BaseSkills
  <2>1. t \in Trials(g) /\ t.pos < 0 /\ t.pos \in Int
    BY <1>2, TakenApart
  <2>2. t.uid \in Int /\ t.uid < 0 /\ t.uid >= -Reserved(g) /\ Reserved(g) \in Nat /\ Reserved(g) <= MaxOrdinal
    BY <1>2, <2>1, TrialsTyped
  <2>3. Trial[t.id] \in DOMAIN BaseSkills
    BY <2>1, TeamAssumption DEF Builds
  <2> QED
    BY <1>9, <2>1, <2>2, <2>3 DEF Member
<1> HIDE DEF A, M
<1>7. \A m \in Subs(p, g) : (\E i \in A : m = own(i)) \/ (\E t \in M : m = trial(t))
  BY <1>1
<1>8. \A m \in Subs(p, g) : /\ m.uid \in Int /\ m.uid < 0 /\ m.uid >= -MaxOrdinal
                            /\ m.pos \in Nat \ {0} /\ m.model \in DOMAIN BaseSkills
  <2> HIDE DEF own, trial
  <2> QED
    BY <1>5, <1>6, <1>7
<1> QED
  BY <1>4, <1>7, <1>8 DEF A, M

LEMMA FoesAre ==
    /\ IsFiniteSet(Foes)
    /\ \A m \in Foes :
         /\ m.uid \in Int /\ m.uid < -MaxOrdinal /\ m.uid < 0 /\ m.pos \in Nat \ {0}
         /\ m.model \in DOMAIN Life
         /\ \E i \in DOMAIN Monsters : m = Member(-(MaxOrdinal + i), Monsters[i].model, i)
<1> DEFINE n == Len(Monsters)  foe(i) == Member(-(MaxOrdinal + i), Monsters[i].model, i)
           h == [i \in 1..n |-> foe(i)]
           A == [model : DOMAIN Life, skill : DOMAIN Skill \cup {NoSkill}]
<1>1. Monsters \in Seq(A) /\ MaxOrdinal \in Nat
  BY TeamAssumption
<1>2. n \in Nat /\ DOMAIN Monsters = 1..n /\ \A i \in 1..n : Monsters[i].model \in DOMAIN Life
  <2> HIDE DEF A
  <2>1. n \in Nat /\ DOMAIN Monsters = 1..n /\ \A i \in 1..n : Monsters[i] \in A
    BY <1>1
  <2> QED
    BY <2>1 DEF A
<1>3. Foes = {foe(i) : i \in 1..n}
  BY <1>2 DEF Foes
<1>4. IsFiniteSet(Foes)
  <2>1. IsFiniteSet(1..n)
    BY <1>2, FS_Interval
  <2>2. Foes = {h[i] : i \in 1..n}
    BY <1>3
  <2> HIDE DEF h, n
  <2> QED
    BY <2>1, <2>2, Images
<1>5. ASSUME NEW i \in 1..n
      PROVE /\ foe(i).uid \in Int /\ foe(i).uid < -MaxOrdinal /\ foe(i).uid < 0
            /\ foe(i).pos \in Nat \ {0} /\ foe(i).model \in DOMAIN Life
  BY <1>1, <1>2 DEF Member
<1> HIDE DEF n
<1> QED
  BY <1>2, <1>3, <1>4, <1>5

\* The fight of a team: everybody in it is alive within the maximum of the model.
LEMMA FightBuilt ==
    ASSUME NEW p \in DOMAIN Owned, NEW g \in AnyGroup, Builds(p, g)
    PROVE LET f == BuildFight(p, g) IN
          /\ Sane(f) /\ f \in Becomes(f) /\ f.model \in [Entities(f) -> DOMAIN Life]
<1> DEFINE f == BuildFight(p, g)
           ours == Mains(p, g) \cup Subs(p, g)
           theirs == {m.uid : m \in Foes}
           own == {m.uid : m \in ours}
           uids == theirs \cup own
           side == [u \in uids |-> IF u \in theirs THEN 2 ELSE 1]
           model == [u \in uids |-> (CHOOSE m \in IF side[u] = 2 THEN Foes ELSE ours : m.uid = u).model]
           hp == [u \in uids |-> Life[model[u]].hp]
           max == [u \in uids |-> Life[model[u]].max]
<1>1. f = [side |-> side, model |-> model, pool |-> StartPool, hp |-> hp, max |-> max]
  BY DEF BuildFight
<1>2. /\ IsFiniteSet(ours) /\ \A m \in ours : m.uid \in Int /\ m.model \in DOMAIN Life
  <2>1. IsFiniteSet(Mains(p, g)) /\ \A m \in Mains(p, g) : m.uid \in Int /\ m.model \in DOMAIN BaseSkills
    BY MainsAre
  <2>2. IsFiniteSet(Subs(p, g)) /\ \A m \in Subs(p, g) : m.uid \in Int /\ m.model \in DOMAIN BaseSkills
    BY SubsAre
  <2>3. DOMAIN BaseSkills \subseteq DOMAIN Life
    BY TeamAssumption
  <2> QED
    BY <2>1, <2>2, <2>3, FS_Union
<1>3. IsFiniteSet(Foes) /\ \A m \in Foes : m.uid \in Int /\ m.model \in DOMAIN Life
  BY FoesAre
<1>4. IsFiniteSet(uids) /\ uids \subseteq Int
  <2> DEFINE fo == [m \in ours |-> m.uid]  ft == [m \in Foes |-> m.uid]
  <2>1. own = {fo[m] : m \in ours} /\ theirs = {ft[m] : m \in Foes}
    OBVIOUS
  <2>2. own \subseteq Int /\ theirs \subseteq Int
    BY <1>2, <1>3
  <2> HIDE DEF fo, ft, ours, own, theirs
  <2>3. IsFiniteSet(own) /\ IsFiniteSet(theirs)
    BY <1>2, <1>3, <2>1, Images
  <2>4. IsFiniteSet(theirs \cup own)
    BY <2>3, FS_Union
  <2> QED
    BY <2>2, <2>4
<1>5. side \in [uids -> {1, 2}] /\ \A u \in uids : side[u] = IF u \in theirs THEN 2 ELSE 1
  OBVIOUS
<1>6. ASSUME NEW u \in uids PROVE model[u] \in DOMAIN Life
  <2> DEFINE team == IF side[u] = 2 THEN Foes ELSE ours
  <2>1. \E m \in team : m.uid = u
    <3>1. CASE u \in theirs
      BY <1>5, <3>1
    <3>2. CASE u \notin theirs
      BY <1>5, <3>2
    <3> QED
      BY <3>1, <3>2
  <2>2. \A m \in team : m.model \in DOMAIN Life
    BY <1>2, <1>3
  <2>3. model[u] = (CHOOSE m \in team : m.uid = u).model
    OBVIOUS
  <2> HIDE DEF team, model
  <2>4. (CHOOSE m \in team : m.uid = u) \in team
    BY <2>1
  <2> QED
    BY <2>2, <2>3, <2>4
<1>7. model \in [uids -> DOMAIN Life]
  <2>1. model = [u \in uids |-> model[u]]
    OBVIOUS
  <2> HIDE DEF model, uids
  <2> QED
    BY <1>6, <2>1
<1>8. /\ hp \in [uids -> Int] /\ max \in [uids -> Nat] /\ \A u \in uids : hp[u] <= max[u]
  <2> HIDE DEF model, uids
  <2>1. \A u \in uids : Life[model[u]].hp \in Int /\ Life[model[u]].max \in Nat
                        /\ Life[model[u]].hp <= Life[model[u]].max
    BY <1>6, TeamAssumption
  <2> QED
    BY <2>1
<1>9. StartPool \in Pools
  BY TeamAssumption, FightAssumption DEF Pools
<1> HIDE DEF hp, max, model, side, uids
<1>10. Entities(f) = uids
  BY <1>1, <1>5 DEF Entities
<1> HIDE DEF f
<1>11. Sane(f)
  BY <1>1, <1>4, <1>5, <1>8, <1>10 DEF Sane
<1>12. f \in Becomes(f)
  BY <1>1, <1>8, <1>9, <1>10 DEF Becomes
<1> QED
  BY <1>1, <1>7, <1>10, <1>11, <1>12 DEF f

-----------------------------------------------------------------------------
(* Teams: the hands. *)

\* Cards are dealt for members of the main list.
Fighters(p, g) == {m.model : m \in Mains(p, g)}
TeamCards(p, g) == {c \in Cards : c.hero \in Fighters(p, g)}

LEMMA SourcesTyped ==
    ASSUME NEW p \in DOMAIN Owned, NEW g \in AnyGroup, Builds(p, g)
    PROVE Sources(p, g) \in Seq(Fighters(p, g))
<1> DEFINE A == Fighters(p, g)  H == g.heroes  n == Len(H)  R == Requested(g)  k == Len(R)
           own(u) == IF u > 0 THEN <<Owned[p][AsI32(u)]>> ELSE <<>>
           trial(t) == IF t.pos > 0 THEN <<Trial[t.id]>> ELSE <<>>
           so == [i \in 1..n |-> own(H[i])]  st == [i \in 1..k |-> trial(R[i])]
<1>1. n \in Nat /\ DOMAIN H = 1..n /\ k \in Nat /\ DOMAIN R = 1..k
  <2>1. H \in Seq(Int)
    BY DEF AnyGroup
  <2>2. R \in Seq([id : Int, pos : Int])
    BY RequestedTyped
  <2> HIDE DEF R
  <2>3. n \in Nat /\ DOMAIN H = 1..n
    BY <2>1
  <2>4. k \in Nat /\ DOMAIN R = 1..k
    BY <2>2
  <2> QED
    BY <2>3, <2>4
<1>2. ASSUME NEW i \in 1..n PROVE so[i] \in Seq(A)
  <2>1. CASE H[i] > 0
    <3>1. i \in OwnedSlots(H)
      BY <1>1, <2>1 DEF OwnedSlots
    <3> DEFINE m == Member(AsI32(H[i]), Owned[p][AsI32(H[i])], Position(g, {t.pos : t \in MainTrials(g)}, i))
    <3>2. m \in Mains(p, g)
      BY <3>1 DEF Mains
    <3>3. m.model = Owned[p][AsI32(H[i])]
      BY DEF Member
    <3>4. Owned[p][AsI32(H[i])] \in A
      <4> HIDE DEF m
      <4> QED
        BY <3>2, <3>3 DEF Fighters
    <3> HIDE DEF A
    <3>5. <<Owned[p][AsI32(H[i])]>> \in Seq(A)
      BY <3>4
    <3> QED
      BY <2>1, <3>5
  <2>2. CASE ~(H[i] > 0)
    BY <2>2
  <2> QED
    BY <2>1, <2>2
<1>3. ASSUME NEW i \in 1..k PROVE st[i] \in Seq(A)
  <2>1. CASE R[i].pos > 0
    <3> DEFINE t == [id |-> R[i].id, pos |-> R[i].pos, uid |-> -(AidOrdinal(g) + i)]
               m == Member(t.uid, Trial[t.id], t.pos)
    <3>1. t \in Trials(g)
      BY <1>1 DEF Trials
    <3>2. t \in MainTrials(g)
      BY <2>1, <3>1 DEF MainTrials
    <3>3. m \in Mains(p, g)
      <4> HIDE DEF t
      <4> QED
        BY <3>2 DEF Mains
    <3>4. m.model = Trial[R[i].id]
      BY DEF Member
    <3>5. Trial[R[i].id] \in A
      <4> HIDE DEF m
      <4> QED
        BY <3>3, <3>4 DEF Fighters
    <3> HIDE DEF A
    <3>6. <<Trial[R[i].id]>> \in Seq(A)
      BY <3>5
    <3> QED
      BY <2>1, <3>6
  <2>2. CASE ~(R[i].pos > 0)
    BY <2>2
  <2> QED
    BY <2>1, <2>2
<1>4. Sources(p, g) = FlattenSeq(so) \o FlattenSeq(st)
  BY <1>1 DEF Sources
<1>5. so = [i \in 1..n |-> so[i]] /\ st = [i \in 1..k |-> st[i]]
  OBVIOUS
<1> HIDE DEF so, st, n, k, A
<1>6. FlattenSeq(so) \in Seq(A) /\ FlattenSeq(st) \in Seq(A)
  BY <1>1, <1>2, <1>3, <1>5, FlatMade
<1>7. FlattenSeq(so) \o FlattenSeq(st) \in Seq(A)
  BY <1>6, JoinTyped
<1> QED
  BY <1>4, <1>7 DEF A

LEMMA CandidatesTyped ==
    ASSUME NEW p \in DOMAIN Owned, NEW g \in AnyGroup, Builds(p, g)
    PROVE Candidates(p, g) \in Seq(TeamCards(p, g))
<1> DEFINE S == Sources(p, g)  n == Len(S)  A == TeamCards(p, g)
           card(m, k) == [hero |-> m, skill |-> BaseSkills[m][k], type |-> 0]
           of(m) == [k \in DOMAIN BaseSkills[m] |-> card(m, k)]
           ss == [i \in 1..n |-> of(S[i])]
<1>1. n \in Nat /\ DOMAIN S = 1..n /\ \A i \in 1..n : S[i] \in Fighters(p, g)
  <2>1. S \in Seq(Fighters(p, g))
    BY SourcesTyped
  <2> HIDE DEF S
  <2> QED
    BY <2>1
<1>2. ASSUME NEW m \in Fighters(p, g) PROVE of(m) \in Seq(A)
  <2>1. m \in DOMAIN BaseSkills /\ m \in DOMAIN Life
    BY MainsAre, TeamAssumption DEF Fighters
  <2> DEFINE b == BaseSkills[m]  l == Len(b)
  <2>2. b \in Seq(DOMAIN Skill)
    BY <2>1, TeamAssumption
  <2>3. l \in Nat /\ DOMAIN b = 1..l /\ \A k \in 1..l : b[k] \in DOMAIN Skill
    <3> HIDE DEF b
    <3> QED
      BY <2>2
  <2>4. \A k \in 1..l : card(m, k) \in A
    BY <2>1, <2>3 DEF TeamCards, Cards
  <2> HIDE DEF card, A
  <2>5. of(m) = [k \in 1..l |-> card(m, k)]
    BY <2>3
  <2>6. of(m) \in [1..l -> A]
    BY <2>4, <2>5
  <2> HIDE DEF of, l
  <2> QED
    BY <2>3, <2>6
<1>3. Candidates(p, g) = FlattenSeq(ss)
  BY <1>1 DEF Candidates
<1>4. \A i \in 1..n : ss[i] \in Seq(A)
  <2> HIDE DEF of, A, S
  <2> QED
    BY <1>1, <1>2
<1>5. ss = [i \in 1..n |-> ss[i]]
  OBVIOUS
<1> HIDE DEF ss, n, A
<1>6. FlattenSeq(ss) \in Seq(A)
  BY <1>1, <1>4, <1>5, FlatMade
<1> QED
  BY <1>3, <1>6 DEF A

LEMMA CardDrawn ==
    ASSUME NEW p, NEW g, NEW hand \in Seq(TeamCards(p, g)), NEW c \in TeamCards(p, g)
    PROVE DrawCard(hand, c) \in Seq(TeamCards(p, g))
<1> DEFINE A == TeamCards(p, g)  n == Len(hand)  last == hand[n]
           next == <<last.hero, Line[last.skill], last.type + 1>>
           merges == /\ hand # <<>>
                     /\ last.hero = c.hero /\ Line[last.skill] = Line[c.skill]
                     /\ last.type = c.type
                     /\ next \in DOMAIN Upgrade
           up == [hero |-> last.hero, skill |-> Upgrade[next], type |-> last.type + 1]
<1>1. DrawCard(hand, c) = IF merges THEN [hand EXCEPT ![n] = up] ELSE Append(hand, c)
  BY DEF DrawCard
<1>2. CASE merges
  <2>0. hand # <<>> /\ next \in DOMAIN Upgrade
    <3> HIDE DEF next
    <3> QED
      BY <1>2
  <2>1. n \in DOMAIN hand /\ last \in A
    <3>1. hand \in Seq(A) /\ hand # <<>>
      BY <2>0
    <3> HIDE DEF A, merges, up, next
    <3>2. n \in DOMAIN hand /\ hand[n] \in A
      BY <3>1
    <3> QED
      BY <3>2
  <2>2. last \in Cards /\ last.hero \in Fighters(p, g)
    BY <2>1 DEF TeamCards
  <2>3. Upgrade[next] \in DOMAIN Skill
    BY <2>0, TeamAssumption
  <2> HIDE DEF next, last, merges
  <2>4. up \in A
    <3>1. last.type \in Int
      BY <2>2 DEF Cards
    <3>2. up = [hero |-> last.hero, skill |-> Upgrade[next], type |-> last.type + 1]
      OBVIOUS
    <3>3. up \in Cards
      BY <2>2, <2>3, <3>1, <3>2 DEF Cards
    <3>4. up.hero = last.hero
      BY <3>2
    <3> HIDE DEF up
    <3> QED
      BY <2>2, <3>3, <3>4 DEF TeamCards
  <2> HIDE DEF up, A
  <2>5. [hand EXCEPT ![n] = up] \in Seq(A)
    BY <2>1, <2>4 DEF A
  <2> QED
    BY <1>1, <1>2, <2>5 DEF A, last, next
<1>3. CASE ~merges
  <2> HIDE DEF merges
  <2>1. Append(hand, c) \in Seq(A)
    <3> HIDE DEF A
    <3> QED
      BY DEF A
  <2> QED
    BY <1>1, <1>3, <2>1
<1> HIDE DEF merges
<1> QED
  BY <1>2, <1>3

LEMMA HandTyped ==
    ASSUME NEW p \in DOMAIN Owned, NEW g \in AnyGroup, Builds(p, g), NEW draws \in Seq(Nat)
    PROVE Hand(p, g, draws) \in Seq(TeamCards(p, g))
<1> DEFINE from == Candidates(p, g)  full == MaxCards(Len(Sources(p, g)))
           n == Len(draws)  A == TeamCards(p, g)  R == Seq(A)
           After(r, i) == IF from # <<>> /\ Len(r) < full
                          THEN DrawCard(r, from[(draws[i] % Len(from)) + 1]) ELSE r
           b == <<>>
           C(h) == h = [s \in SUBSET (DOMAIN draws) |->
                          IF s = {} THEN b ELSE After(h[s \ {Max(s)}], Max(s))]
           c == CHOOSE h : C(h)
           fs == [i \in 1..n |-> [r \in R |-> After(r, i)]]
<1>1. n \in Nat /\ DOMAIN draws = 1..n /\ \A i \in 1..n : draws[i] \in Nat
  OBVIOUS
<1>2. b \in R
  OBVIOUS
<1>3. \A r \in R : \A i \in 1..n : After(r, i) \in R
  <2> TAKE r \in R
  <2> TAKE i \in 1..n
  <2>1. CASE from # <<>>
    <3>1. from \in Seq(A)
      BY CandidatesTyped
    <3> HIDE DEF from, A
    <3>2. Len(from) \in Nat /\ Len(from) > 0 /\ DOMAIN from = 1..Len(from)
      BY <2>1, <3>1
    <3>3. draws[i] % Len(from) \in 0..(Len(from) - 1)
      BY <1>1, <3>2
    <3>4. (draws[i] % Len(from)) + 1 \in 1..Len(from)
      BY <3>2, <3>3
    <3>5. from[(draws[i] % Len(from)) + 1] \in A
      BY <3>1, <3>2, <3>4
    <3>6. DrawCard(r, from[(draws[i] % Len(from)) + 1]) \in R
      BY <3>5, CardDrawn DEF A
    <3> HIDE DEF R
    <3> QED
      BY <3>6
  <2>2. CASE from = <<>>
    BY <2>2
  <2> QED
    BY <2>1, <2>2
<1>4. Hand(p, g, draws) = c[DOMAIN draws]
  BY DEF Hand, FoldLeft, MapThenFoldSet
<1> HIDE DEF n, R, b, After
<1>5. fs \in [1..n -> [R -> R]]
  BY <1>3
<1>6. PICK h \in [SUBSET (1..n) -> R] : Folds(h, n, b, fs)
  <2> HIDE DEF fs
  <2> QED
    BY <1>1, <1>2, <1>5, FoldExists
<1>7. C(h)
  <2>1. \A s \in SUBSET (1..n) : s # {} => Max(s) \in 1..n /\ h[s \ {Max(s)}] \in R
    BY <1>1, MaxOfPart
  <2>2. \A s \in SUBSET (1..n) : s # {} => fs[Max(s)][h[s \ {Max(s)}]] = After(h[s \ {Max(s)}], Max(s))
    BY <2>1
  <2>3. h = [s \in SUBSET (1..n) |-> IF s = {} THEN b ELSE fs[Max(s)][h[s \ {Max(s)}]]]
    BY <1>6 DEF Folds
  <2> HIDE DEF fs
  <2>4. h = [s \in SUBSET (1..n) |-> IF s = {} THEN b ELSE After(h[s \ {Max(s)}], Max(s))]
    BY <2>2, <2>3
  <2> QED
    BY <1>1, <2>4
<1>8. C(c)
  <2> HIDE DEF C
  <2> QED
    BY <1>7
<1> HIDE DEF c, fs
<1>9. Runs(c, n, R, b, fs)
  <2>1. c = [s \in SUBSET (1..n) |-> IF s = {} THEN b ELSE After(c[s \ {Max(s)}], Max(s))]
    BY <1>1, <1>8
  <2>2. \A s \in SUBSET (1..n) : s # {} => Max(s) \in 1..n
    BY <1>1, MaxOfPart
  <2>3. \A r \in R : \A i \in 1..n : fs[i][r] = After(r, i)
    BY DEF fs
  <2>4. {} \in SUBSET (1..n)
    OBVIOUS
  <2> QED
    BY <2>1, <2>2, <2>3, <2>4 DEF Runs
<1>10. PICK x \in [0..n -> R] : Traced(x, c, n, b, fs)
  <2>1. n \in Nat
    BY <1>1
  <2> HIDE DEF R
  <2> QED
    BY <2>1, <1>2, <1>5, <1>9, FoldRuns
<1>11. x[n] = c[1..n] /\ x[n] \in R
  BY <1>1, <1>10 DEF Traced
<1> QED
  BY <1>1, <1>4, <1>11 DEF R

-----------------------------------------------------------------------------
(* Teams: places, the enemies' cards and the points of a round. *)

\* Nobody of the main team stands where another does.
LEMMA PlacesApart ==
    ASSUME NEW p \in DOMAIN Owned, NEW g \in AnyGroup, Builds(p, g),
           NEW m \in Mains(p, g), NEW n \in Mains(p, g), m.pos = n.pos
    PROVE m = n
<1> DEFINE place(i) == Position(g, MainTaken(g), i)
           hero(i) == Member(AsI32(g.heroes[i]), Owned[p][AsI32(g.heroes[i])], place(i))
           trial(t) == Member(t.uid, Trial[t.id], t.pos)
<1>1. Normalizes(g)
  BY DEF Builds
<1>2. \A i, j \in OwnedSlots(g.heroes) : i < j => place(i) < place(j)
  BY <1>1, TakenApart, OwnedTyped, SlotsApart
<1>3. /\ OwnedSlots(g.heroes) \subseteq Nat
      /\ \A i \in OwnedSlots(g.heroes) : place(i) \in Nat /\ place(i) \notin MainTaken(g)
  BY <1>1, TakenApart, OwnedTyped, SlotsApart
<1>4. \A t, u \in MainTrials(g) : t.pos = u.pos => t = u
  BY <1>1, TrialsTyped, TakenApart
<1>5. \A t \in MainTrials(g) : t.pos \in MainTaken(g)
  BY DEF MainTaken
<1>6. /\ \A i : hero(i).pos = place(i)
      /\ \A t : trial(t).pos = t.pos
  BY DEF Member
<1>7. /\ (\E i \in OwnedSlots(g.heroes) : m = hero(i)) \/ (\E t \in MainTrials(g) : m = trial(t))
      /\ (\E i \in OwnedSlots(g.heroes) : n = hero(i)) \/ (\E t \in MainTrials(g) : n = trial(t))
  BY MainsAre
<1> HIDE DEF place, hero, trial
<1>8. \A i, j \in OwnedSlots(g.heroes) : place(i) = place(j) => i = j
  BY <1>2, <1>3
<1> QED
  BY <1>3, <1>4, <1>5, <1>6, <1>7, <1>8

\* Among members of the main team there is one of every rank.
LEMMA RankTaken ==
    ASSUME NEW p \in DOMAIN Owned, NEW g \in AnyGroup, Builds(p, g),
           NEW ms, ms \subseteq Mains(p, g), NEW k \in 1..Cardinality(ms)
    PROVE Ranked(ms, k) \in ms
<1> DEFINE f == [m \in ms |-> m.pos]
           T == {f[m] : m \in ms}
<1>1. IsFiniteSet(ms) /\ \A m \in ms : m.pos \in Nat
  BY MainsAre, FS_Subset
<1>2. \A m, n \in ms : f[m] = f[n] => m = n
  BY PlacesApart
<1>3. IsFiniteSet(T) /\ Cardinality(T) = Cardinality(ms)
  <2> HIDE DEF f
  <2> QED
    BY <1>1, <1>2, Images
<1>4. T \subseteq Int
  BY <1>1
<1>5. PICK x \in T : Cardinality({y \in T : y <= x}) = k
  <2> HIDE DEF T
  <2> QED
    BY <1>3, <1>4, RankExists
<1>6. PICK m \in ms : x = m.pos
  BY <1>5
<1> DEFINE U == {n \in ms : n.pos <= m.pos}
<1>7. {y \in T : y <= x} = {f[n] : n \in U}
  BY <1>6
<1>8. Cardinality({f[n] : n \in U}) = Cardinality(U)
  <2>1. IsFiniteSet(U)
    BY <1>1, FS_Subset
  <2>2. \A a, b \in U : f[a] = f[b] => a = b
    BY <1>2
  <2> HIDE DEF f, U
  <2> QED
    BY <2>1, <2>2, Images
<1>9. Cardinality(U) = k
  BY <1>5, <1>7, <1>8
<1> QED
  BY <1>9 DEF Ranked

\* What the enemies hold is aimed at members of the main team.
AimedCards(p, g) == {c \in EnemyCards : c.to \in {m.uid : m \in Mains(p, g)}}

LEMMA AiHandTyped ==
    ASSUME NEW p \in DOMAIN Owned, NEW g \in AnyGroup, Builds(p, g),
           NEW aims, \A i \in DOMAIN Monsters : aims[i] \in Nat
    PROVE AiHand(p, g, aims) \in Seq(AimedCards(p, g))
<1> DEFINE ms == Targetable(p, g)  n == Len(Monsters)  A == AimedCards(p, g)
           aim(i) == Ranked(ms, (aims[i] % Cardinality(ms)) + 1)
           card(i) == [foe |-> -(MaxOrdinal + i), skill |-> Monsters[i].skill, to |-> aim(i).uid]
           plays(i) == ms # {} /\ Life[Monsters[i].model].hp > 0 /\ Monsters[i].skill # NoSkill
           ss == [i \in 1..n |-> IF plays(i) THEN <<card(i)>> ELSE <<>>]
<1>1. n \in Nat /\ DOMAIN Monsters = 1..n
  BY TeamAssumption
<1>2. AiHand(p, g, aims) = FlattenSeq(ss)
  BY <1>1 DEF AiHand
<1>3. ASSUME NEW i \in 1..n, ms # {} PROVE card(i) \in A
  <2>1. ms \subseteq Mains(p, g) /\ IsFiniteSet(ms)
    BY MainsAre, FS_Subset DEF Targetable
  <2>2. Cardinality(ms) \in Nat \ {0}
    <3> HIDE DEF ms
    <3> QED
      BY <1>3, <2>1, FS_CardinalityType, FS_EmptySet
  <2>3. (aims[i] % Cardinality(ms)) + 1 \in 1..Cardinality(ms)
    <3>1. \A a \in Nat, b \in Nat \ {0} : (a % b) + 1 \in 1..b
      OBVIOUS
    <3>2. aims[i] \in Nat
      BY <1>1, <1>3
    <3> HIDE DEF ms
    <3> QED
      BY <2>2, <3>1, <3>2
  <2>4. aim(i) \in ms
    <3> HIDE DEF ms
    <3> QED
      BY <2>1, <2>3, RankTaken
  <2> HIDE DEF ms
  <2>5. aim(i) \in Mains(p, g) /\ aim(i).uid \in Int
    <3> HIDE DEF aim
    <3> QED
      BY <2>1, <2>4, MainsAre
  <2>6. Monsters[i].skill \in DOMAIN Skill \cup {NoSkill}
    <3> DEFINE M == [model : DOMAIN Life, skill : DOMAIN Skill \cup {NoSkill}]
    <3>1. Monsters \in Seq(M) /\ i \in DOMAIN Monsters
      BY <1>1, <1>3, TeamAssumption
    <3>2. Monsters[i] \in M
      <4> HIDE DEF M
      <4> QED
        BY <3>1
    <3> QED
      BY <3>2
  <2>7. -(MaxOrdinal + i) \in {k \in Int : k < 0}
    BY <1>1, <1>3, TeamAssumption
  <2> HIDE DEF aim
  <2> QED
    BY <2>5, <2>6, <2>7 DEF AimedCards, EnemyCards
<1>4. ASSUME NEW i \in 1..n PROVE ss[i] \in Seq(A)
  <2>1. CASE plays(i)
    <3>1. card(i) \in A
      <4> HIDE DEF card, A
      <4> QED
        BY <1>3, <1>4, <2>1
    <3> HIDE DEF card, A, plays
    <3> QED
      BY <1>4, <2>1, <3>1
  <2>2. CASE ~plays(i)
    <3> HIDE DEF card, A, plays
    <3> QED
      BY <1>4, <2>2
  <2> QED
    BY <2>1, <2>2
<1>5. ss = [i \in 1..n |-> ss[i]]
  OBVIOUS
<1> HIDE DEF ss, n, A
<1> QED
  BY <1>1, <1>2, <1>4, <1>5, FlatMade DEF A

LEMMA PointsTyped ==
    ASSUME NEW g \in AnyGroup
    PROVE Points(g) \in Int /\ Points(g) > 0
<1>1. \A few \in BOOLEAN : LET n == Min({PlayerMax, IF few THEN 2 ELSE 4}) IN n \in Int /\ n > 0
  <2> TAKE few \in BOOLEAN
  <2> DEFINE S == {PlayerMax, IF few THEN 2 ELSE 4}
  <2>1. S \subseteq Nat /\ S # {} /\ 0 \notin S
    BY TeamAssumption
  <2> HIDE DEF S
  <2>2. Min(S) \in Nat \ {0}
    BY <2>1, MinIsLeast
  <2> QED
    BY <2>2 DEF S
<1>2. \E few \in BOOLEAN : Points(g) = Min({PlayerMax, IF few THEN 2 ELSE 4})
  BY DEF Points
<1> QED
  BY <1>1, <1>2

\* What create_battle builds can be played; its cards are of fighters and its
\* enemies aim at them.
LEMMA BuiltTyped ==
    ASSUME NEW p \in DOMAIN Owned, NEW g \in AnyGroup, NEW b \in Built(p, g)
    PROVE /\ Playable(b) /\ Builds(p, g) /\ b.points > 0
          /\ b.deck \in Seq(TeamCards(p, g)) /\ b.ai \in Seq(AimedCards(p, g))
<1>1. Builds(p, g)
  BY DEF Built
<1>2. PICK d \in Deals :
        b = [fight |-> BuildFight(p, g), deck |-> Hand(p, g, d.draws),
             ai |-> AiHand(p, g, d.aims), points |-> Points(g)]
  BY <1>1 DEF Built
<1>3. d.draws \in Seq(Nat) /\ \A i \in DOMAIN Monsters : d.aims[i] \in Nat
  BY TeamAssumption
<1>4. /\ b.fight = BuildFight(p, g) /\ b.deck = Hand(p, g, d.draws)
      /\ b.ai = AiHand(p, g, d.aims) /\ b.points = Points(g)
  BY <1>2
<1>5. b.deck \in Seq(TeamCards(p, g))
  BY <1>1, <1>3, <1>4, HandTyped
<1>6. b.ai \in Seq(AimedCards(p, g))
  BY <1>1, <1>3, <1>4, AiHandTyped
<1>7. b.points \in Int /\ b.points > 0
  BY <1>4, PointsTyped
<1>8. b.deck \in Seq(Cards)
  <2>1. TeamCards(p, g) \subseteq Cards
    BY DEF TeamCards
  <2> QED
    BY <1>5, <2>1
<1>9. b.ai \in Seq(EnemyCards)
  <2>1. AimedCards(p, g) \subseteq EnemyCards
    BY DEF AimedCards
  <2> QED
    BY <1>6, <2>1
<1>10. Sane(b.fight) /\ b.fight \in Becomes(b.fight)
       /\ b.fight.model \in [Entities(b.fight) -> DOMAIN Life]
  BY <1>1, <1>4, FightBuilt
<1> QED
  BY <1>1, <1>5, <1>6, <1>7, <1>8, <1>9, <1>10 DEF Playable

LEMMA AutoTyped ==
    ASSUME NEW deck \in Seq(Cards)
    PROVE AutoOpers(deck) \in Seq(Orders)
<1> DEFINE n == IF Len(deck) < 3 THEN Len(deck) ELSE 3
           ss == [k \in 1..n |-> <<Operation(2, k - 1, Nobody), Operation(1, k - 1, Nobody)>>]
           last == <<Operation(4, 0, Nobody)>>
<1>1. n \in Nat
  <2>1. Len(deck) \in Nat
    OBVIOUS
  <2> QED
    BY <2>1
<1>2. \A t \in Int, k \in Int : Operation(t, k, Nobody) \in Orders
  BY DEF Operation, Orders, Nobody
<1>3. AutoOpers(deck) = FlattenSeq(ss) \o last
  BY DEF AutoOpers
<1> HIDE DEF n
<1>4. \A k \in 1..n : ss[k] \in Seq(Orders)
  <2> TAKE k \in 1..n
  <2>1. k - 1 \in Int
    BY <1>1
  <2> DEFINE x == Operation(2, k - 1, Nobody)  y == Operation(1, k - 1, Nobody)
  <2>2. x \in Orders /\ y \in Orders
    BY <1>2, <2>1
  <2>3. ss[k] = <<x, y>>
    OBVIOUS
  <2> HIDE DEF x, y, ss
  <2> QED
    BY <2>2, <2>3
<1>5. last \in Seq(Orders)
  <2>1. Operation(4, 0, Nobody) \in Orders
    BY <1>2
  <2> QED
    BY <2>1
<1>6. ss = [k \in 1..n |-> ss[k]]
  OBVIOUS
<1> HIDE DEF ss, last
<1>7. FlattenSeq(ss) \in Seq(Orders)
  BY <1>1, <1>4, <1>6, FlatMade
<1> QED
  BY <1>3, <1>5, <1>7, JoinTyped

-----------------------------------------------------------------------------
(* Rounds: what a connection is about to be told. *)

\* What RoundSound says of a round r of battle b.
Reported(b, r) ==
  /\ ReportsServerState(r)
  /\ HandAccountedFor(b, r)
  /\ DamageAccountedFor(b, r)
  /\ LifeWithinMax(r)

\* A round waits only for the handler that computed it.
RoundInv(c) ==
  round[c] # None => job[c].pc = "computed" /\ Reported(job[c].battle.set, round[c])

RInv == DOMAIN round = Conns /\ \A c \in Conns : RoundInv(c)

\* A handler that has no round to report and gets none.
LEMMA NoRound ==
    ASSUME RInv, NEW c \in Conns, Local(c), job[c].pc # "computed", UNCHANGED round
    PROVE RInv'
<1>1. round[c] = None
  BY DEF RInv, RoundInv
<1>2. \A d \in Conns : RoundInv(d)'
  BY <1>1 DEF RInv, RoundInv, Local
<1> QED
  BY <1>2 DEF RInv

\* The jobs of all handlers stay.
LEMMA SameRound ==
    ASSUME RInv, UNCHANGED <<job, round>>
    PROVE RInv'
BY DEF RInv, RoundInv

LEMMA RoundPlayed ==
    ASSUME IInv, RInv, NEW c \in Conns, Local(c), NEW opers \in Seq(Orders), PlayRound(c, opers)
    PROVE RInv'
<1> DEFINE b == battle[c].set
<1>1. /\ player[c] # None /\ battle[c] # None
      /\ battle[c] \in Battle /\ job[c] = NoJob
  BY AtRead DEF PlayRound, IInv, ConnInv, Typed
<1>2. PICK r \in ProcessRound(b, opers) :
       \/ /\ r.ok
          /\ round' = [round EXCEPT ![c] = r]
          /\ Then(c, [pc |-> "computed", player |-> player[c], battle |-> battle[c]])
          /\ Continue(c, <<>>)
       \/ ~r.ok /\ Refuse(c) /\ UNCHANGED <<round, job>>
  BY DEF PlayRound
<1>3. CASE r.ok
  <2>1. PICK p \in Players, g \in AllGroups : b \in Built(p, g)
    <3>1. b \in BattleSets
      BY <1>1 DEF Battle
    <3> QED
      BY <3>1 DEF BattleSets, Battles
  <2>2. p \in DOMAIN Owned /\ g \in AnyGroup
    BY DungeonAssumption
  <2>3. Playable(b)
    BY <2>1, <2>2, BuiltTyped
  <2>4. Reported(b, r)
    BY <1>2, <1>3, <2>3, RoundOf DEF Reported
  <2>5. /\ DOMAIN round' = Conns /\ round'[c] = r /\ \A d \in Conns \ {c} : round'[d] = round[d]
        /\ job'[c] = [pc |-> "computed", player |-> player[c], battle |-> battle[c]]
    BY <1>2, <1>3 DEF Then, RInv, IInv, Domains
  <2>6. RoundInv(c)'
    BY <2>4, <2>5 DEF RoundInv
  <2>7. \A d \in Conns \ {c} : RoundInv(d)'
    BY <2>5 DEF RInv, RoundInv, Local
  <2> QED
    BY <2>5, <2>6, <2>7 DEF RInv
<1>4. CASE ~r.ok
  BY <1>2, <1>4, SameRound
<1> QED
  BY <1>3, <1>4

LEMMA RoundRequest ==
    ASSUME IInv, RInv, NEW c \in Conns, Local(c), Request(c)
    PROVE RInv'
<1>1. CASE OnBeginRound(c)
  BY <1>1, RoundPlayed, DungeonAssumption DEF OnBeginRound, Orders
<1>2. CASE OnAutoRound(c)
  <2>1. battle[c] \in Battle
    BY <1>2 DEF OnAutoRound, IInv, ConnInv, Typed
  <2>2. PICK p \in Players, g \in AllGroups : battle[c].set \in Built(p, g)
    BY <2>1 DEF Battle, BattleSets, Battles
  <2>3. battle[c].set.deck \in Seq(Cards)
    BY <2>2, BuiltTyped, DungeonAssumption DEF Playable
  <2> QED
    BY <1>2, <2>3, AutoTyped, RoundPlayed DEF OnAutoRound
<1>3. CASE Read(c) /\ UNCHANGED round
  <2>1. job[c].pc # "computed"
    BY <1>3, AtRead DEF IInv, NoJob
  <2> QED
    BY <1>3, <2>1, NoRound
<1> QED
  BY <1>1, <1>2, <1>3
  DEF Request, OnLogin, OnStartDungeon, OnStartStory, OnStartTowerBattle, EndBattle,
      OnGetFightOper, OnGetFightRecordGroup, OnReconnectFight, BadRequest, dungeonVars

LEMMA RoundWork ==
    ASSUME IInv, RInv, NEW c \in Conns, Local(c), Work(c)
    PROVE RInv'
<1>1. CASE QueueReply(c)
  <2>1. /\ DOMAIN round' = Conns /\ round'[c] = None
        /\ \A d \in Conns \ {c} : round'[d] = round[d]
    BY <1>1 DEF QueueReply, RInv
  <2>2. \A d \in Conns : RoundInv(d)'
    BY <2>1 DEF RInv, RoundInv, Local
  <2> QED
    BY <2>1, <2>2 DEF RInv
<1>2. CASE job[c].pc # "computed" /\ UNCHANGED round
  BY <1>2, NoRound
<1> QED
  BY <1>1, <1>2
  DEF Work, LoggedIn, StartRow, StoryProgress, StoryRow, SaveOperations, Progress, Decide,
      SaveRecord, Result

LEMMA RoundRest ==
    ASSUME RInv, NEW c \in Conns, Local(c), Network(c) \/ DatabaseError(c) \/ Disconnect(c)
    PROVE RInv'
<1>1. CASE Network(c) \/ Disconnect(c)
  BY <1>1, SameRound DEF Network, Disconnect, dungeonVars
<1>2. CASE DatabaseError(c)
  BY <1>2, NoRound DEF DatabaseError
<1> QED
  BY <1>1, <1>2

\* Whatever the battle, the cards and operations of the player, and the random
\* targets of the enemies, the reply of a round shows the state the server holds;
\* every card that left the hand shows as a skill of its hero, the bloodtithe won
\* is the damage shown, and nobody has more life than its maximum.
THEOREM RoundsAreSound == Spec => []RoundSound
<1>1. Init => RInv
  BY DEF Init, RInv, RoundInv
<1>2. IInv /\ RInv /\ [Next]_vars => RInv'
  <2> SUFFICES ASSUME IInv, RInv, [Next]_vars PROVE RInv'
    OBVIOUS
  <2>1. CASE Crash
    <3>1. round' = [c \in Conns |-> None]
      BY <2>1 DEF Crash
    <3> QED
      BY <3>1 DEF RInv, RoundInv
  <2>2. CASE \E c \in Conns : ConnStep(c)
    <3>1. PICK c \in Conns : ConnStep(c)
      BY <2>2
    <3>2. Local(c)
      BY <3>1, RequestLocal, WorkLocal, RestLocal DEF ConnStep, IInv
    <3> QED
      BY <3>1, <3>2, RoundRequest, RoundWork, RoundRest DEF ConnStep
  <2>3. CASE UNCHANGED vars
    BY <2>3, SameRound DEF vars, dungeonVars
  <2> QED
    BY <2>1, <2>2, <2>3 DEF Next, ConnStep
<1>3. RInv => RoundSound
  BY DEF RInv, RoundInv, Reported, RoundSound
<1> QED
  BY <1>1, <1>2, <1>3, Invariance, PTL DEF Spec

-----------------------------------------------------------------------------
(* Teams: nobody is in another's way. *)

\* Members of the main team: an owned hero by its slot, or a trial hero.
LEMMA MainsApart ==
    ASSUME NEW p \in DOMAIN Owned, NEW g \in AnyGroup, Builds(p, g), ListsOnce(g)
    PROVE Apart(Mains(p, g)) /\ InOrder(p, g)
<1> DEFINE place(i) == Position(g, MainTaken(g), i)
           hero(i) == Member(AsI32(g.heroes[i]), Owned[p][AsI32(g.heroes[i])], place(i))
           trial(t) == Member(t.uid, Trial[t.id], t.pos)
           O == OwnedSlots(g.heroes)
<1>1. Normalizes(g)
  BY DEF Builds
<1>2. \A m \in Mains(p, g) : (\E i \in O : m = hero(i)) \/ (\E t \in MainTrials(g) : m = trial(t))
  BY MainsAre
<1>3. /\ \A i : hero(i).uid = AsI32(g.heroes[i]) /\ hero(i).pos = place(i)
      /\ \A t : trial(t).uid = t.uid
  BY DEF Member
<1>4. /\ O \subseteq Nat
      /\ \A i \in O : AsI32(g.heroes[i]) \in Nat \ {0}
  BY OwnedTyped, HeroNamed
<1>5. \A i, j \in O : i < j => place(i) < place(j)
  BY <1>1, TakenApart, OwnedTyped, SlotsApart
<1>6. \A t \in MainTrials(g) : t.uid \in Int /\ t.uid < 0
  BY <1>1, TrialsTyped, TakenApart
<1>7. \A t, u \in MainTrials(g) : t.uid = u.uid => t = u
  BY <1>1, TrialsTyped, TakenApart
<1>8. \A i, j \in O : AsI32(g.heroes[i]) = AsI32(g.heroes[j]) => i = j
  BY DEF ListsOnce
<1> HIDE DEF place, hero, trial, O
<1>9. \A m, n \in Mains(p, g) : m.uid = n.uid => m = n
  BY <1>2, <1>3, <1>4, <1>6, <1>7, <1>8
<1>10. Apart(Mains(p, g))
  BY <1>9, PlacesApart DEF Apart
<1>11. \A i \in O, m \in Mains(p, g) : m.uid = AsI32(g.heroes[i]) => m = hero(i)
  <2> TAKE i \in O, m \in Mains(p, g)
  <2> HAVE m.uid = AsI32(g.heroes[i])
  <2>1. ASSUME NEW j \in O, m = hero(j) PROVE m = hero(i)
    BY <1>3, <1>8, <2>1
  <2>2. \A t \in MainTrials(g) : m # trial(t)
    BY <1>3, <1>4, <1>6
  <2> QED
    BY <1>2, <2>1, <2>2
<1>12. InOrder(p, g)
  BY <1>3, <1>5, <1>11 DEF InOrder, O
<1> QED
  BY <1>10, <1>12

LEMMA SubsApart ==
    ASSUME NEW p \in DOMAIN Owned, NEW g \in AnyGroup, Builds(p, g)
    PROVE /\ Apart(Subs(p, g))
          /\ \A m \in Mains(p, g), n \in Subs(p, g) : m.uid # n.uid
<1> DEFINE place(i) == Position(g, SubTaken(g), i)
           ord(i) == SubOrdinal(g, i)
           sub(i) == Member(-ord(i), Owned[p][AsI32(g.subs[i])], place(i))
           trial(t) == Member(t.uid, Trial[t.id], -t.pos)
           O == OwnedSlots(g.subs)
<1>1. Normalizes(g)
  BY DEF Builds
<1>2. \A m \in Subs(p, g) : (\E i \in O : m = sub(i)) \/ (\E t \in SubTrials(g) : m = trial(t))
  BY SubsAre
<1>3. /\ \A i : sub(i).uid = -ord(i) /\ sub(i).pos = place(i)
      /\ \A t : trial(t).uid = t.uid /\ trial(t).pos = -t.pos
  BY DEF Member
<1>4. O \subseteq Nat
  BY OwnedTyped
<1>5. /\ \A i, j \in O : i < j => place(i) < place(j)
      /\ \A i \in O : place(i) \in Nat /\ place(i) \notin SubTaken(g)
  BY <1>1, TakenApart, OwnedTyped, SlotsApart
<1>6. /\ \A i \in O : ord(i) \in Nat /\ ord(i) > Reserved(g)
      /\ \A i, j \in O : i < j => ord(i) < ord(j)
  BY <1>1, SubOrdinals
<1>7. /\ Reserved(g) \in Nat
      /\ \A t \in Trials(g) : t.uid \in Int /\ t.uid >= -Reserved(g)
      /\ \A t, u \in Trials(g) : t.uid = u.uid \/ t.pos = u.pos => t = u
  BY <1>1, TrialsTyped
<1>8. /\ \A t \in SubTrials(g) : t \in Trials(g) /\ t.pos \in Int /\ t.pos < 0
      /\ \A t \in MainTrials(g) : t \in Trials(g) /\ t.pos \in Int /\ t.pos > 0
      /\ \A t \in SubTrials(g) : -t.pos \in SubTaken(g)
  BY <1>1, TakenApart DEF SubTaken
<1>9. \A m \in Mains(p, g) :
        \/ m.uid \in Int /\ m.uid > 0
        \/ \E t \in MainTrials(g) : m.uid = t.uid
  BY MainsAre, HeroNamed DEF Member
<1>10. \A m \in Subs(p, g) : m.uid \in Int /\ m.uid < 0
  BY SubsAre
<1> HIDE DEF place, ord, sub, trial, O
<1>11. \A i, j \in O : place(i) = place(j) \/ -ord(i) = -ord(j) => i = j
  BY <1>4, <1>5, <1>6
<1>12. \A t, u \in SubTrials(g) : -t.pos = -u.pos \/ t.uid = u.uid => t = u
  BY <1>7, <1>8
<1>13. \A i \in O, t \in SubTrials(g) : place(i) # -t.pos /\ -ord(i) # t.uid
  BY <1>5, <1>6, <1>7, <1>8
<1>14. Apart(Subs(p, g))
  <2> SUFFICES ASSUME NEW m \in Subs(p, g), NEW n \in Subs(p, g),
                      m.uid = n.uid \/ m.pos = n.pos
               PROVE m = n
    BY DEF Apart
  <2> QED
    BY <1>2, <1>3, <1>11, <1>12, <1>13
<1>15. ASSUME NEW m \in Mains(p, g), NEW n \in Subs(p, g), m.uid = n.uid PROVE FALSE
  <2>1. PICK t \in MainTrials(g) : n.uid = t.uid
    BY <1>9, <1>10, <1>15
  <2>2. ASSUME NEW i \in O, n = sub(i) PROVE FALSE
    BY <1>3, <1>6, <1>7, <1>8, <2>1, <2>2
  <2>3. ASSUME NEW u \in SubTrials(g), n = trial(u) PROVE FALSE
    BY <1>3, <1>7, <1>8, <2>1, <2>3
  <2> QED
    BY <1>2, <2>2, <2>3
<1> QED
  BY <1>14, <1>15

LEMMA FoesApart == Apart(Foes)
<1>1. DOMAIN Monsters \subseteq Nat /\ MaxOrdinal \in Nat
  BY TeamAssumption
<1>2. \A m \in Foes : \E i \in DOMAIN Monsters : m = Member(-(MaxOrdinal + i), Monsters[i].model, i)
  BY FoesAre
<1>3. \A u, model, i : Member(u, model, i).uid = u /\ Member(u, model, i).pos = i
  BY DEF Member
<1> SUFFICES ASSUME NEW m \in Foes, NEW n \in Foes, m.uid = n.uid \/ m.pos = n.pos
             PROVE m = n
  BY DEF Apart
<1>4. PICK i \in DOMAIN Monsters : m = Member(-(MaxOrdinal + i), Monsters[i].model, i)
  BY <1>2
<1>5. PICK j \in DOMAIN Monsters : n = Member(-(MaxOrdinal + j), Monsters[j].model, j)
  BY <1>2
<1>6. i = j
  BY <1>1, <1>3, <1>4, <1>5
<1> QED
  BY <1>4, <1>5, <1>6

LEMMA DealtWithin ==
    ASSUME NEW p \in DOMAIN Owned, NEW g \in AnyGroup
    PROVE DealtFromTeam(p, g)
<1> SUFFICES ASSUME NEW b \in Built(p, g)
             PROVE /\ \A i \in DOMAIN b.deck : \E m \in Mains(p, g) : m.model = b.deck[i].hero
                   /\ \A i \in DOMAIN b.ai : \E m \in Mains(p, g) : m.uid = b.ai[i].to
                   /\ b.points > 0
  BY DEF DealtFromTeam
<1>1. ASSUME NEW i \in DOMAIN b.deck PROVE \E m \in Mains(p, g) : m.model = b.deck[i].hero
  <2>1. b.deck[i] \in TeamCards(p, g)
    BY <1>1, BuiltTyped
  <2> QED
    BY <2>1 DEF TeamCards, Fighters
<1>2. ASSUME NEW i \in DOMAIN b.ai PROVE \E m \in Mains(p, g) : m.uid = b.ai[i].to
  <2>1. b.ai[i] \in AimedCards(p, g)
    BY <1>2, BuiltTyped
  <2> QED
    BY <2>1 DEF AimedCards
<1> QED
  BY <1>1, <1>2, BuiltTyped

LEMMA TeamSound ==
    ASSUME NEW p \in DOMAIN Owned, NEW g \in AnyGroup, Builds(p, g), ListsOnce(g)
    PROVE SoundTeam(p, g)
<1>1. /\ MaxOrdinal \in Nat /\ Reserved(g) \in Nat /\ Reserved(g) <= MaxOrdinal
  BY TrialsTyped, TeamAssumption DEF Builds
<1>2. \A m \in Mains(p, g) : m.uid >= -MaxOrdinal /\ m.uid # Nobody /\ m.pos >= 1
  BY <1>1, MainsAre DEF Nobody
<1>3. \A m \in Subs(p, g) : m.uid >= -MaxOrdinal /\ m.uid # Nobody /\ m.pos >= 1
  BY SubsAre DEF Nobody
<1>4. OwnNamespace(p, g)
  BY <1>2, <1>3, MainsApart, SubsApart, FoesApart DEF OwnNamespace
<1> QED
  BY <1>4, MainsApart, DealtWithin DEF SoundTeam

\* Whatever heroes the player owns, whatever lineup, trial heroes and aids it asks
\* for and whatever is drawn: in a team that is built nobody shares a uid or a
\* position, no attacker takes a uid of the enemies, the heroes keep their order,
\* and the cards of both sides belong to and aim at members of the team.
THEOREM TeamsAreSound == Spec => []TeamsSound
<1>1. Players \subseteq SoundPlayers
  <2>1. Players \subseteq DOMAIN Owned /\ Lineups \subseteq AnyGroup
    BY DungeonAssumption
  <2> QED
    BY <2>1, TeamSound DEF SoundPlayers
<1>2. IInv => TeamsSound
  BY <1>1 DEF IInv, ConnInv, Typed, TeamsSound
<1> QED
  BY <1>2, Invariance, PTL
=============================================================================
