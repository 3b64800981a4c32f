------------------------------ MODULE Dungeon ------------------------------
(***************************************************************************)
(* Dungeons (gameserver/src/handlers/dungeon, handlers/tower,               *)
(* database/src/db/game/{dungeons,battle}.rs) over the connections of       *)
(* Session and the rounds of Fight.  A battle lives in the connection that  *)
(* started it and nowhere else; its result is written to tables that every  *)
(* connection of the player shares, one statement after the other and with  *)
(* no transaction.                                                          *)
(***************************************************************************)
EXTENDS Session, Team

CONSTANTS
  Players,   \* user ids
  Episodes,  \* episodes with a battle
  Stories,   \* episodes without one
  Chapters,  \* chapter ids a client may name
  ChapterOf, \* episode -> the chapter it is configured in
  Named,     \* connection -> chapters its client names
  Groups,    \* connection -> hero groups its client starts battles with
  Lineups,   \* bound: hero groups TeamsSound speaks of
  OperLists, \* operation lists a client may send
  MaxTime    \* bound: milliseconds at which battles start

AllGroups == UNION {Groups[c] : c \in Conns}

\* What a dungeon record keeps of a group: not its trial heroes.
Lineup(g) == [heroes |-> g.heroes, subs |-> g.subs]

ASSUME DungeonAssumption ==
  /\ IsFiniteSet(Conns)
  /\ None \notin Players /\ \A g \in AllGroups : Lineup(g) # None
  /\ Episodes \cap Stories = {} /\ IsFiniteSet(Chapters)
  /\ ChapterOf \in [Episodes \cup Stories -> Chapters]
  /\ \A c \in Conns : Named[c] \subseteq Chapters
  /\ MaxRequests \in [Conns -> Nat] /\ {MaxFaults, MaxTime} \subseteq Nat
  /\ Players \subseteq DOMAIN Owned
  /\ AllGroups \subseteq AnyGroup /\ Lineups \subseteq AnyGroup
  /\ OperLists \subseteq Seq([type : Int, card : Int, to : Int])

VARIABLES
  battle,    \* connection -> active_battle
  job,       \* connection -> locals of the handler it runs
  dungeons,  \* user_dungeons: a row per player, episode and chapter
  replays,   \* battle_replays: battles with a row, per player and episode
  records,   \* dungeon_records: lineup per player and episode
  now,       \* the clock a battle takes its id from
  round,     \* connection -> the round just computed, before it is saved
  torn       \* history: <<player, episode, step>> of handlers cut short

dungeonVars == <<battle, job, dungeons, replays, records, now, round, torn>>
vars == <<sessionVars, dungeonVars>>

tables == <<dungeons, replays, records>>
NoJob == [pc |-> "none"]

\* No row: what an upsert finds in its place.
NoRow == [star |-> 0, count |-> 0, rec |-> FALSE]

\* Every episode has a row in its own chapter.
FirstRow(e) == [star |-> IF e \in Episodes THEN 2 ELSE 1, count |-> 0, rec |-> FALSE]

Init ==
  /\ SessionInit
  /\ battle = [c \in Conns |-> None]
  /\ job = [c \in Conns |-> NoJob]
  /\ dungeons = [p \in Players |-> [e \in Episodes \cup Stories |->
       [h \in Chapters |-> IF h = ChapterOf[e] THEN FirstRow(e) ELSE NoRow]]]
  /\ replays = [p \in Players |-> [e \in Episodes |-> {}]]
  /\ records = [p \in Players |-> [e \in Episodes |-> None]]
  /\ now = 0
  /\ round = [c \in Conns |-> None]
  /\ torn = {}

\* A handler of one step: it answers, or it refuses and the connection closes.
Answer(c, about) == Finish(c, <<Reply(asked'[c], about)>>)

Then(c, j) == job' = [job EXCEPT ![c] = j]

-----------------------------------------------------------------------------
(* The tables. *)

\* save_round_operations: INSERT OR REPLACE on (user, episode, battle, round),
\* where the round number is always 1; what the operations were is left out.
SaveRoundOperations(p, e, id) == replays' = [replays EXCEPT ![p][e] = @ \cup {id}]

\* get_user_dungeon fetches one row: none is an error.
HasRow(p, e, h) == dungeons[p][e][h] # NoRow

\* update_dungeon_progress: one upsert statement.  The chapter is the one the
\* client named, of which nothing is checked: the first upsert for a chapter
\* that is not the episode's own inserts a row.
UpdateDungeonProgress(p, e, h, stars) ==
  dungeons' = [dungeons EXCEPT ![p][e][h] =
    [star |-> IF stars > @.star THEN stars ELSE @.star, count |-> @.count + 1, rec |-> TRUE]]

\* Mutant of ShouldUpdateDungeonRecord: a missing record is never replaced.
UpdateExistingRecord(p, e, g) == records[p][e] \notin {None, Lineup(g)}

\* A lineup without its empty slots.
Filled(g) == LET full(slots) == SelectSeq(slots, LAMBDA u : u # 0)
             IN [heroes |-> full(g.heroes), subs |-> full(g.subs)]

\* should_update_dungeon_record: rounds are all number 1, so no record is
\* beaten; a lineup is compared with its empty slots dropped on one side only.
ShouldUpdateDungeonRecord(p, e, g) ==
  records[p][e] = None \/ records[p][e] # Filled(g)

-----------------------------------------------------------------------------
(* Logging in sets the player of the connection, also of one that has a     *)
(* player and a battle already; the replies wait for the database.          *)

OnLogin(c) == \E p \in Players :
  /\ Read(c)
  /\ player' = [player EXCEPT ![c] = p]
  /\ Then(c, [pc |-> "login"])
  /\ Continue(c, <<>>)
  /\ UNCHANGED <<faults, battle, tables, now, round, torn>>

LoggedIn(c) ==
  /\ job[c].pc = "login"
  /\ Then(c, NoJob)
  /\ Finish(c, <<Reply(asked[c], Nothing)>>)
  /\ UNCHANGED <<player, asked, faults, battle, tables, now, round, torn>>

-----------------------------------------------------------------------------
(* Starting a battle: any battle already active is replaced.  A group that   *)
(* builds no team is refused (BadRequest).                                   *)

Battles == [p \in Players |-> [g \in AllGroups |-> Built(p, g)]]

\* The id of a battle is the time in milliseconds, which two starts may share.
NewBattle(c, e, h, g, isReplay) ==
  \E t \in {now, now + 1}, b \in Battles[player[c]][g] :
    /\ t \in 1..MaxTime
    /\ now' = t
    /\ battle' = [battle EXCEPT ![c] =
         [episode |-> e, chapter |-> h, group |-> g, replay |-> isReplay, id |-> t, set |-> b]]

OnStartDungeon(c) == \E e \in Episodes, h \in Named[c], g \in Groups[c], isReplay \in BOOLEAN :
  /\ Read(c) /\ player[c] # None
  /\ NewBattle(c, e, h, g, isReplay)
  /\ Then(c, [pc |-> "start_row"])
  /\ Continue(c, <<>>)
  /\ UNCHANGED <<player, faults, tables, round, torn>>

\* CardInfoPush, DungeonUpdatePush with the row just read, and the reply; a
\* chapter in which the episode has no row fails, with the battle active.
StartRow(c) ==
  /\ job[c].pc = "start_row"
  /\ Then(c, NoJob)
  /\ IF HasRow(player[c], battle[c].episode, battle[c].chapter)
     THEN Finish(c, <<Reply(asked[c], Nothing)>>) ELSE Refuse(c)
  /\ UNCHANGED <<player, asked, faults, battle, tables, now, round, torn>>

\* handle_story_only_episode: completed by being started, with one star.
OnStartStory(c) == \E e \in Stories, h \in Named[c] :
  /\ Read(c) /\ player[c] # None
  /\ Then(c, [pc |-> "story", player |-> player[c], episode |-> e, chapter |-> h])
  /\ Continue(c, <<>>)
  /\ UNCHANGED <<player, faults, battle, tables, now, round, torn>>

StoryProgress(c) ==
  /\ job[c].pc = "story"
  /\ UpdateDungeonProgress(job[c].player, job[c].episode, job[c].chapter, 1)
  /\ Then(c, [job[c] EXCEPT !.pc = "story_row"])
  /\ UNCHANGED <<sessionVars, battle, replays, records, now, round, torn>>

StoryRow(c) ==
  /\ job[c].pc = "story_row"
  /\ Then(c, NoJob)
  /\ Finish(c, <<Reply(asked[c], [kind |-> "story", player |-> job[c].player,
                                  episode |-> job[c].episode, chapter |-> job[c].chapter])>>)
  /\ UNCHANGED <<player, asked, faults, battle, tables, now, round, torn>>

\* on_start_tower_battle: the push shows zeroes and no row is read; the battle
\* has no episode to show a replay of.
OnStartTowerBattle(c) == \E e \in Episodes, h \in Named[c], g \in Groups[c] :
  /\ Read(c) /\ player[c] # None
  /\ NewBattle(c, e, h, g, FALSE)
  /\ Finish(c, <<Reply(asked'[c], Nothing)>>)
  /\ UNCHANGED <<player, faults, job, tables, round, torn>>

-----------------------------------------------------------------------------
(* A round: simulated from the battle as it was started, because the fight   *)
(* the simulator changes is a clone that is dropped; declared won; saved     *)
(* unless it is a replay.  The reply is queued before anything is saved and  *)
(* the battle stays active.                                                  *)

\* An effect or a card the simulator refuses fails the handler.
PlayRound(c, opers) ==
  /\ Read(c) /\ player[c] # None /\ battle[c] # None
  /\ \E r \in ProcessRound(battle[c].set, opers) :
       \/ /\ r.ok
          /\ round' = [round EXCEPT ![c] = r]
          /\ Then(c, [pc |-> "computed", player |-> player[c], battle |-> battle[c]])
          /\ Continue(c, <<>>)
       \/ /\ ~r.ok
          /\ Refuse(c)
          /\ UNCHANGED <<round, job>>
  /\ UNCHANGED <<player, faults, battle, tables, now, torn>>

OnBeginRound(c) == \E opers \in OperLists : PlayRound(c, opers)

OnAutoRound(c) == battle[c] # None /\ PlayRound(c, AutoOpers(battle[c].set.deck))

RoundReply(j) == [kind |-> "round", player |-> j.player, episode |-> j.battle.episode,
                  chapter |-> j.battle.chapter, battle |-> j.battle.id,
                  replay |-> j.battle.replay]

QueueReply(c) ==
  /\ job[c].pc = "computed"
  /\ round' = [round EXCEPT ![c] = None]
  /\ Then(c, [job[c] EXCEPT !.pc = IF job[c].battle.replay THEN "result" ELSE "save"])
  /\ Continue(c, <<Reply(asked[c], RoundReply(job[c]))>>)
  /\ UNCHANGED <<player, asked, faults, battle, tables, now, torn>>

SaveOperations(c) ==
  /\ job[c].pc = "save"
  /\ LET b == job[c].battle
     IN SaveRoundOperations(job[c].player, b.episode, b.id)
  /\ Then(c, [job[c] EXCEPT !.pc = "progress"])
  /\ UNCHANGED <<sessionVars, battle, dungeons, records, now, round, torn>>

Progress(c) ==
  /\ job[c].pc = "progress"
  /\ LET b == job[c].battle
     IN UpdateDungeonProgress(job[c].player, b.episode, b.chapter, 2)
  /\ Then(c, [job[c] EXCEPT !.pc = "decide"])
  /\ UNCHANGED <<sessionVars, battle, replays, records, now, round, torn>>

Decide(c) ==
  /\ job[c].pc = "decide"
  /\ LET b == job[c].battle
     IN Then(c, [job[c] EXCEPT !.pc =
          IF ShouldUpdateDungeonRecord(job[c].player, b.episode, b.group)
          THEN "record" ELSE "result"])
  /\ UNCHANGED <<sessionVars, battle, tables, now, round, torn>>

SaveRecord(c) ==
  /\ job[c].pc = "record"
  /\ records' = [records EXCEPT ![job[c].player][job[c].battle.episode] =
       Lineup(job[c].battle.group)]
  /\ Then(c, [job[c] EXCEPT !.pc = "result"])
  /\ UNCHANGED <<sessionVars, battle, dungeons, replays, now, round, torn>>

\* EndFightPush, the row as it is now, and the rewards: those of a first clear
\* when the count just read is one, in this chapter.  A replay of a player that
\* logged in after its battle was started may find no row.
Result(c) ==
  /\ job[c].pc = "result"
  /\ LET p == job[c].player  e == job[c].battle.episode  h == job[c].battle.chapter
     IN IF HasRow(p, e, h)
        THEN Finish(c, <<Push([kind |-> "reward", player |-> p, episode |-> e, chapter |-> h,
                               first |-> dungeons[p][e][h].count = 1])>>)
        ELSE Refuse(c)
  /\ Then(c, NoJob)
  /\ UNCHANGED <<player, asked, faults, battle, tables, now, round, torn>>

-----------------------------------------------------------------------------
(* Ending a battle, asking for a replay, a record, or the battle after a     *)
(* reconnection.                                                             *)

\* on_fight_end_fight; on_dungeon_end_dungeon is the same handler under
\* another command.  An abort is pushed first.
EndBattle(c) ==
  /\ Read(c) /\ battle[c] # None
  /\ battle' = [battle EXCEPT ![c] = None]
  /\ Answer(c, Nothing)
  /\ UNCHANGED <<player, faults, job, tables, now, round, torn>>

\* Mutant of OnGetFightOper: no replay, no reply.
QuietFightOper(c) ==
  /\ Read(c) /\ battle[c] # None /\ player[c] # None
  /\ IF battle[c].replay THEN Answer(c, Nothing) ELSE Finish(c, <<>>)
  /\ UNCHANGED <<player, faults, dungeonVars>>

\* on_get_fight_oper: every battle of the episode contributes its round.
OnGetFightOper(c) ==
  /\ Read(c) /\ battle[c] # None /\ player[c] # None
  /\ LET b == battle[c]
     IN Answer(c, [kind |-> "opers", player |-> player[c], episode |-> b.episode,
          records |-> IF b.replay THEN Cardinality(replays[player[c]][b.episode]) ELSE 0])
  /\ UNCHANGED <<player, faults, dungeonVars>>

\* on_get_fight_record_group; a connection with no player is told there is none.
OnGetFightRecordGroup(c) == \E e \in Episodes :
  /\ Read(c)
  /\ Answer(c, IF player[c] = None \/ records[player[c]][e] = None THEN Nothing
               ELSE [kind |-> "record", player |-> player[c], episode |-> e,
                     group |-> records[player[c]][e]])
  /\ UNCHANGED <<player, faults, dungeonVars>>

\* on_reconnect_fight restores nothing: an empty reply.
OnReconnectFight(c) ==
  /\ Read(c)
  /\ Answer(c, Nothing)
  /\ UNCHANGED <<player, faults, dungeonVars>>

\* A request that cannot be dispatched, is missing a field, asks for a battle
\* with a group that builds no team, or needs a player
\* or a battle the connection does not have.
BadRequest(c) ==
  /\ Read(c)
  /\ Refuse(c)
  /\ UNCHANGED <<player, faults, dungeonVars>>

-----------------------------------------------------------------------------
(* Failures. *)

Working(c) == phase[c] = "handling"

Tear(cs) ==
  torn' = torn \cup {<<job[c].player, job[c].battle.episode, job[c].pc>> :
                       c \in {d \in cs : job[d].pc \in {"progress", "decide", "record"}}}

\* A database call of the handler fails.
DatabaseError(c) ==
  /\ Working(c) /\ faults < MaxFaults
  /\ job[c].pc # "computed"
  /\ faults' = faults + 1
  /\ Refuse(c)
  /\ Then(c, NoJob)
  /\ Tear({c})
  /\ UNCHANGED <<player, asked, battle, tables, now, round>>

\* The context dies with the connection, and the battle with it.
Disconnect(c) ==
  /\ Close(c)
  /\ battle' = [battle EXCEPT ![c] = None]
  /\ UNCHANGED <<job, tables, now, round, torn>>

\* The process stops; the tables are all that is left.
Crash ==
  /\ faults < MaxFaults
  /\ faults' = faults + 1
  /\ phase' = [c \in Conns |-> "none"]
  /\ player' = [c \in Conns |-> None]
  /\ queue' = [c \in Conns |-> <<>>]
  /\ battle' = [c \in Conns |-> None]
  /\ job' = [c \in Conns |-> NoJob]
  /\ round' = [c \in Conns |-> None]
  /\ Tear(Conns)
  /\ UNCHANGED <<asked, opened, answers, told, tables, now>>

-----------------------------------------------------------------------------
\* The client: what it sends next is its own affair.
Request(c) ==
  \/ OnLogin(c) \/ OnStartDungeon(c) \/ OnStartStory(c) \/ OnStartTowerBattle(c)
  \/ OnBeginRound(c) \/ OnAutoRound(c) \/ EndBattle(c) \/ OnGetFightOper(c)
  \/ OnGetFightRecordGroup(c) \/ OnReconnectFight(c) \/ BadRequest(c)

\* The task of the connection, once it has a request.
Work(c) ==
  \/ LoggedIn(c) \/ StartRow(c) \/ StoryProgress(c) \/ StoryRow(c)
  \/ QueueReply(c) \/ SaveOperations(c) \/ Progress(c) \/ Decide(c)
  \/ SaveRecord(c) \/ Result(c)

Network(c) == (Accept(c) \/ Leave(c) \/ Flush(c) \/ FlushFails(c)) /\ UNCHANGED dungeonVars

Next ==
  \/ \E c \in Conns :
       Request(c) \/ Work(c) \/ Network(c) \/ DatabaseError(c) \/ Disconnect(c)
  \/ Crash

\* A task that has work goes on with it: the runtime polls it when the
\* database answers, and the socket takes what is written.  Nothing obliges a
\* client to send, and no fault has to happen.
Fairness == \A c \in Conns :
  /\ WF_vars(Work(c))
  /\ WF_vars(Flush(c) /\ UNCHANGED dungeonVars)
  /\ WF_vars(Disconnect(c))

Spec == Init /\ [][Next]_vars /\ Fairness

-----------------------------------------------------------------------------
(* Properties. *)

TypeOK ==
  /\ SessionTypeOK
  /\ \A c \in Conns : (phase[c] = "handling") <=> (job[c] # NoJob)
  /\ \A c \in Conns : battle[c] # None => player[c] # None
  /\ now \in 0..MaxTime

\* The round a connection is about to be told (begin_round.rs,
\* manager/round_mgr.rs): what the reply shows is the state the server holds,
\* the cards gone from the hand are the skills shown, the bloodtithe won is
\* the damage shown, and no entity has more life than its maximum.
RoundSound ==
  \A c \in Conns : round[c] # None =>
    LET b == job[c].battle.set  r == round[c]
    IN /\ ReportsServerState(r)
       /\ HandAccountedFor(b, r)
       /\ DamageAccountedFor(b, r)
       /\ LifeWithinMax(r)

\* Whoever logs in may start a battle with any lineup of its heroes, each once
\* among the main ones, of trial heroes and of aids (trial.rs, fight_builder.rs,
\* cards.rs).  In those that build a team nobody shares a uid or a position,
\* no attacker takes a uid of the enemies, owned heroes keep their order, and
\* the cards of both sides belong to and aim at members of the team.
SoundPlayers ==
  {p \in Players : \A g \in Lineups : Builds(p, g) /\ ListsOnce(g) => SoundTeam(p, g)}

TeamsSound == \A c \in Conns : player[c] # None => player[c] \in SoundPlayers

\* tests/destiny_power.rs, trial_entities_can_cast_cards_and_receive_ai_targets:
\* a trial hero casts the cards that were dealt for it.
DealtCardsPlayable ==
  \A c \in Conns : battle[c] # None =>
    LET b == battle[c].set
    IN \A i \in DOMAIN b.deck : Casters(b.fight, b.deck[i]) # {}

\* An episode is marked as having a record, in whichever chapter.
Marked(p, e) == \E h \in Chapters : dungeons[p][e][h].rec

\* The rounds counted of an episode, in all chapters.
Counted(p, e) == SumFunctionOnSet([h \in Chapters |-> dungeons[p][e][h].count], Chapters)

\* What a packet says is stored: the replay of a round won, the completion of
\* an episode, of a story, of a first clear, the rounds and the record shown.
Saved(t) ==
  LET completed == dungeons[t.player][t.episode][t.chapter].count > 0
  IN /\ t.kind = "round" /\ ~t.replay => t.battle \in replays[t.player][t.episode] /\ completed
     /\ t.kind = "story" => completed
     /\ t.kind = "reward" /\ t.first => completed
     /\ t.kind = "opers" => t.records <= Cardinality(replays[t.player][t.episode])
     /\ t.kind = "record" => Marked(t.player, t.episode)

\* Nothing is announced that is not stored: replies are queued before the
\* tables are written, but sent only after the handler has returned Ok.
ToldIsSaved == \A t \in told : Saved(t)

\* What a client was told stays true of the tables, and it was told so in the
\* order it asked.
AnsweredMeansSaved ==
  /\ TypeOK
  /\ AnswersInOrder
  /\ ToldIsSaved

\* A handler of player p that is between two writes of a round of e.
Between(p, e, pcs) == {c \in Conns : /\ job[c].pc \in pcs
                                     /\ job[c].player = p /\ job[c].battle.episode = e}

\* The three tables a round writes agree once no handler is at work on them
\* and none was cut short: every battle with a replay was counted, in the chapter
\* its client named, an episode said to have a record has one, a record belongs
\* to a counted episode, and a row nobody earned is the episode's own.
TablesAgree ==
  \A p \in Players, e \in Episodes :
    /\ Between(p, e, {"progress"}) = {} /\ <<p, e, "progress">> \notin torn
         => Cardinality(replays[p][e]) <= Counted(p, e)
    /\ Between(p, e, {"decide", "record"}) = {}
         /\ torn \cap {<<p, e, "decide">>, <<p, e, "record">>} = {}
         => (Marked(p, e) => records[p][e] # None)
    /\ records[p][e] # None => \E h \in Chapters : dungeons[p][e][h].count > 0
    /\ \A h \in Chapters : dungeons[p][e][h].star =
         IF h = ChapterOf[e] \/ dungeons[p][e][h].count > 0 THEN 2 ELSE 0

\* Every request a connection reads is answered, or the connection closes.
RequestSettles ==
  \A c \in Conns : []<>(Gone(c) \/ AllAnswered(c))
=============================================================================
