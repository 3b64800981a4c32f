# A verification project for sonetto-rs

sonetto-rs is a server for the client of a mobile game. Two processes share one
SQLite file: `sdkserver` answers the account calls of the launcher over HTTP,
`gameserver` speaks the game's binary protocol over TCP. Both use the crate
`database`, which holds the schema, the queries and the rules that need them;
`common` has the clock and the settings, `lib/config` the tables of the game,
`protocol` the generated messages.

This directory holds TLA+ modules for the parts of it that keep state, runs
that check them with TLC on small instances, and proofs that TLAPS checks for
every instance. Paths below are relative to the repository.

Contents: 1 the system and its hazards, 2 the modules and the code they stand
for, 3 the runs, 4 fairness, 5 the proofs, 6 disagreements found, 7 what is
left out, 8 plan, 9 how to run it.

## 1. The system

### How it works

A TCP connection is a tokio task (`gameserver/src/network/client.rs`): it reads
a packet, runs the handler of its command to the end, flushes the replies the
handler has queued, and reads the next. So a connection is sequential, and
connections interleave at every `await`, which in practice is every SQL
statement. An error of a handler ends the connection. Nothing stops an account
from having several connections. HTTP requests are axum tasks over the same
file, in another process; a request whose client leaves is dropped where it
waits.

Except for Destiny commands, the starter data of a new account and a few
bulk writes, statements run one by one on the pool, each its own transaction.
So a handler that fails, or a process that stops, leaves what it has written,
and between two statements of a handler anything else may happen. That, more
than any data structure, is what makes this code hard to get right, and it is
what the modules model: **one action per statement, or per group of statements
nothing can tell apart**. The battle simulator is the other hard part, for
another reason: it is sequential, but it computes a round from a copy of the
fight and applies the result to the original afterwards.

### Components

| component | state it keeps | operations | what makes it correct | modelled |
|---|---|---|---|---|
| Destiny progression (`database/src/db/game/destiny.rs`, `models/game/destiny.rs`, `gameserver/src/handlers/hero/destiny_*.rs`, `state/battle/destiny`) | destiny columns of `heroes`, `hero_destiny_stone_unlocks`, balances | rank up, level up, unlock a stone, use a stone, each in up to `MAX_TRANSACTION_ATTEMPTS` immediate transactions; resolve a kit for battle | a command takes effect once, with its exact price, or not at all; the answer is true; every stored row can fight | yes, proved |
| Daily login and claims (`db/game/sign_in.rs`, `handlers/system/login.rs`, `handlers/sign_in`, `handlers/events.rs`, `handlers/item/util.rs`, `state/connection.rs`) | `player_state` and each connection's cache of it, sign-in days and count, claims of milestones, month card and activity 101, purchase counters | login with its resets, sign in, claim, push of reset notices, close | each reward once per period, counts agree with days, resets happen | partly |
| Accounts and starter data (`db/user/account.rs`, `db/starter_data.rs`, `sdkserver/src/handlers/account`) | `users`, tokens, the rows each loader writes | mail login, auto login, creation with its 35 loaders, game login, rename | an account never changes hands, is created once and whole | yes, proved |
| Heroes granted (`models/game/heros.rs`) | `heroes` with their part tables, birthdays, collection count | ask whether owned, count a duplicate, create | one whole hero per player and hero, no grant lost | granting, proved |
| Equipment (`db/game/equipment.rs`, `models/game/equipment.rs`, `handlers/equip`) | `equipment` rows with player-shared uids | grant, strengthen, refine, break through, lock | nothing from nothing, rows of others untouched, locked pieces kept | yes, proved in part |
| Store and wallet (`db/game/currencies.rs`, `items.rs`, `handlers/store`) | balances, purchase counts, charges, month card | buy, order | limits and costs hold; what overlapping handlers break is bounded | yes, proved in part |
| Hero growth (`handlers/hero`, `handlers/talent`) | level, rank, skill, talent, styles, skins | pay and raise | paid means raised | mostly |
| Items and expiring power (`handlers/item`) | items, insight items, power items, stamina | use, raise, expire | used means effect, once | yes, proved |
| Mail (`handlers/mail`) | mails, their claimed mark and history | read one, read all | attachments once | yes, proved |
| Summoning (`handlers/gacha.rs`, `db/game/summon.rs`, `state/gacha`) | pity counters, guarantee, discounts, history | single and ten-fold summon, choice of featured heroes | pity holds, a summon paid is granted | yes, proved in part |
| Dungeons and battles (`handlers/dungeon`, `handlers/tower`, `state/battle`) | the connection's `active_battle`; progress, replays, records, stories | start, replay, round, auto round, end, reconnect, records | a round adds up, the tables agree, what is told is stored | mostly, proved in part |
| Connections (`network`, `main.rs`, `state/connection.rs`) | send queue, player of the connection | accept, dispatch, flush, close | replies in order and only of what succeeded | the loop |
| Hero groups and talent layouts (`handlers/hero_group`, `handlers/talent`, `db/game/hero_groups.rs`, `hero_group_snapshots.rs`) | saved teams and common groups with the rows of their members and psychubes; talent cubes, templates, styles worn | save a team, change its psychubes, list; put a cube, load a scheme, switch template, wear a style | a team is one save's, whole; copies agree | yes, proved in part |
| Chat and GM commands (`handlers/chat.rs`, `handlers/gm`) | items, heroes, level | the commands a player types | what is given is what was typed | the commands |
| Towers, weekwalk, rouge, explore, room and other collections, static SDK answers, configuration, messages, clock | see `PROJECT.json` | | | no |

### How they interact

All components meet in the database. Destiny takes from the balances the store,
mails and dungeons add to and take from; these others go on without a
transaction while Destiny's runs (module Destiny's grants and spenders). The
SDK server creates the rows the game server logs in to, and both may insert a
player's `player_state` (Account). Purchases, growth, consumables, mails and
summons work on one stock, each read-check-write over several statements
(Wallet). All of them grant heroes and equipment by the functions modelled in
Roster and Equip, where the players share one sequence of uids. The login
handler triggers the resets of everything that counts per day, week or month.
A battle reads what Destiny stored (Kit) and what hero groups hold (Team), is
played on one connection (Fight, Session), and is recorded in tables all
connections share (Dungeon).

### The hazards

`PROJECT.json` lists them with their lines and the properties that cover them.
They fall into six families.

* *Two handlers between each other's statements*: both check, then both act
  (gifts of activity 101, heroes, milestones, new accounts, uids by `MAX + 1`,
  purchase limits, balances, mails).
* *Half a handler*: a statement fails or the process stops after some of them
  (wipe of a month, creation of a hero or of an account, pay and then raise,
  several costs one by one, strengthen and then eat, a round saved in three
  statements, replies queued and never flushed).
* *Retried transactions*: a busy BEGIN or COMMIT, a timeout of the pool, a
  rollback that fails (Destiny).
* *Stale copies*: the cached `player_state`, a clock read twice, rows read and
  written back as absolute values, the snapshot a round is computed from.
* *Names that must differ*: hashed account ids that collide, freed uids that are
  taken again, uids of trial heroes, aids and enemies in one battle.
* *Boundaries*: 05:00 of a first day of a week or month, the pull that always is
  a six star, the sixth duplicate, the last free place of a team.

## 2. The modules

| module | models | notes |
|---|---|---|
| `DestinyPlan` | `plan_transition` and its helpers: which command is legal on a row, what the row becomes, what it costs | pure; the catalog of the tables is constants |
| `Destiny` | `execute_destiny_command` over SQLite's locks, statement by statement, with readers, grants, other handlers that pay, and crashes | EXTENDS DestinyPlan |
| `DestinyAtomic` | the abstract promise: a command is one step | Destiny implements it by `Atomic == INSTANCE DestinyAtomic WITH ...` |
| `Kit` | the skills, passives and attributes a battle resolves from a stored row | EXTENDS Destiny |
| `Daily` | the login handler with its resets, sign-in, milestones, month card, activity 101 | one account, several connections |
| `Starter` | `load_all_starter_data`: the tables and keys each of the 35 loaders inserts | pure |
| `Account` | requests to the SDK server, connections to the game server, and the creation of accounts | two processes; EXTENDS Starter |
| `Roster` | `has_hero`, `add_hero_duplicate`, `create_hero`, `hero_count` | all players |
| `Equip` | grants of equipment, strengthen, refine, break through, lock | all players |
| `Inventory` | what a player owns, and the statements that change it | base of the next eight |
| `Store`, `Growth`, `Items`, `Mail`, `Summon` | the handlers of one service each, and its tables | Items EXTENDS Growth, the others Inventory |
| `TalentLayouts`, `HeroGroups` | how a player lays out the cubes of a talent, and the teams it saves | EXTEND Growth and Inventory |
| `Gm` | the commands typed to the bot of the chat | EXTENDS Inventory |
| `Wallet` | these eight on one inventory, and what they promise together | composes them |
| `Session` | the loop of a connection: accept, read, queue, flush, close | base of Dungeon |
| `Fight` | one round, a function of battle, operations and drawn targets | pure |
| `Team` | the teams and hands a hero group builds | pure; EXTENDS Fight |
| `Dungeon` | the handlers of dungeons and towers over Session and Team | composes them |
| `Sums` | lemmas about sums over finite sets, least, greatest and k-th elements, sequences, folds and counting | used by the proofs |
| `WalletMoves` | the types of Wallet's state and pending statements, and the kinds of moves its steps are | what the proofs about Wallet are stated with |
| `DestinyProofs` (with Kit), `DailyProofs`, `RosterProofs`, `AccountProofs`, `EquipProofs`, `WalletProofs`, `DungeonProofs` | theorems | TLAPS |
| `MC*` | catalogs, calendars, groups and names for TLC | |

A definition called "Mutant of ..." in a comment is a plausible bug of the
definition named. No next-state relation uses it; replacing the original by it
shows that the property named with it in `PROJECT.json` can fail.

### Destiny

| model | code |
|---|---|
| `pc[s]` = acquire, begin, open, pay, commit, rollback, answer | where the session is in `execute_destiny_command`, `execute_attempt` and the helpers that finish a transaction |
| `writer`, `tx` | SQLite's write lock, and the pages of the transaction that has it, with the row it planned from and what it still has to pay |
| `readers` | shared locks, which make a COMMIT busy |
| `attempt`, `result` | the loop counter, and the answer or what follows the rollback |
| `Acquire`, `AcquireTimesOut`, `BeginImmediate`, `BeginBusy`, `BeginFails` | `pool.acquire` within its time and `BEGIN IMMEDIATE` |
| `PlanAttempt` | read hero and unlocks, `plan_transition` |
| `Deduct(s, m)` | `UPDATE ... SET quantity = quantity - ? WHERE quantity >= ?`, one material at a time |
| `UpdateHero` | the compare-and-set of the hero row, and the unlock |
| `Commit`, `CommitBusy`, `Rollback`, `RollbackFails`, `Answer` | the end of an attempt; the connection is closed in any case, so a rollback that fails still gives up the lock |
| `Grant`, `SpendCheck`, `SpendPay` | `add_*`, `remove_currency`, `remove_item_quantity`: these last read the balance, and take from it in a later statement without looking again |
| `Crash` | the process stops: the transaction is gone, the committed state stays |

SQLite and the pool are external: what they do is taken from how the code calls
them and handles their answers. A hot journal is the reason why a crash within
COMMIT has no third outcome.

`Cost` is the total of each material, as `parse_material_costs` makes it, and at most
`i32::MAX` (`MaxAmount`); a larger total is an invalid command. Levels, ranks
and stones are small numbers.

### Kit

`ResolveKit` follows `destiny/kit.rs` from the row of the character through rank
replacement, ultimate levels, facet and reshaping, `AttributesResolve` and `Bonus` follow
`destiny/attributes.rs` from the slots a hero passed. A hero the tables cannot
resolve refuses the whole battle, so `FightsAsPaid` is a promise between two
crates: what a command may store, a battle can build, out of what was paid for.
The hard-coded passives of heroes 3088 and 3126, activity heroes, the trace and
malformed table strings are left out. The tables have no gaps and every
reshaping level is configured (`CatalogAssumption`, `KitAssumption`); in the instance exchanges of levels do
not chain and base passives differ, as in the data shipped, which is when the
comparison in `KitFollows` is exact.

### Daily

Time is counted in server days, which begin at 05:00 UTC (`common/src/time.rs`);
`Week` and `Month` say where a day belongs. `LoginPlan` lists the statements of
a login with the period each is executed for, so a login goes through the ones
that are due. `process_daily_login` resets the counters once and `on_login` does
so again with the answer it got; the second reset of a month comes after the day
was counted, so the first login of a month shows a count of 0 with one day
recorded. That is why `AddupCountsDays` is an inequality.

`player` is the row of `player_state`, `cache[c]` what connection `c` has of it.
`Save` writes the whole row, at the end of a login, after a claim, at a push of
reset notices and when the connection closes. `Crash` loses the caches. `paid`
and `wiped` are history: how often a reward was paid and how often its claim was
deleted. `overlapped` is history: a login began while another connection was at
work. What the code promises to connections in turn says `~overlapped =>`.

NULL times are 0: sqlx decodes a NULL integer to 0 here and each reader treats
both alike. Which items a reward consists of is left out.

### Account and Starter

A request to the SDK server goes through `find`, `verify`, `update` or `insert`,
`insertState`, `loadStarter`, `present`; a connection of the game server through
`load`, `create`, `reset`, `in`. `generate_user_id` takes a 64-bit hash modulo
the range of ids: `Hash` and `IdRange` are constants, so that two addresses may
have one id. `faults` bounds statements that fail, requests given up and
processes that stop.

Each loader of Starter gives the rows it inserts plainly, those it inserts
whatever is there, and those it needs; a row is a table, an owner and a part.
`Commits` runs them in the order of `load_all_starter_data`, in one transaction. Every
table is keyed by the player or by a number nobody else gets, except critters
(10000000, ...) and buildings (20000000, ...), which are numbered alike for all.
`touched` are the ids with rows that a connection can write before the starter data
does (guides, hero touches). What the rows hold belongs to the modules that start
from them; process counters that make uids are taken never to collide.

### Roster

`heroes` maps uids to rows, `parts` says how far the tables below a row are
filled: "none", "skills" (skills, voices, items, attributes) or "talents" (all).
`create_hero` is `TakeUid` (the largest uid of *all* players plus 1), `InsertHero`,
`InsertParts`, `InsertBirthday`, `InsertTalents`, `CountHero`. `Fail` ends the
grant anywhere: a statement failed, on a key or otherwise, or the client left.
`answered` is history: how often a player's grant of a hero came to its end.

The table has no key on player and hero. What keeps two connections from
completing the same hero twice is the key of `hero_birthday_info`, which is
inserted between the parts and the talents. The row of the loser stays, without
talents; `OneWholeHero` and `GrantsKept` say what survives of this. At most one
player has starter heroes, by `OneAccountStarts` below.

### Equip

A piece is a row of its own, a material one row with a count. Grants take the
player's *own* largest uid plus 1, although uid is the key of all players'
rows, so a grant ends (`Fail`) at a uid another player has. Strengthen and refine
read the target, walk the client's list of what is to be eaten, write the target, and
eat entry by entry with the counts read before. Experience is counted in fresh
pieces, and the levels it takes are caps.

The list is the client's (`picks`): any sequence of uids and numbers. A row named
twice is read twice at its stored count, gives its experience or refinement twice and
is removed once; a number of zero or less passes the test of the count, takes
experience from the target and puts pieces onto the row. Nothing in
`equip_strengthen.rs` or `equip_refine.rs` looks for either. `Proper` is a request with
neither, for a target that is a piece; `strange` is history: the players who ever sent
another. They do get something for nothing, and `NothingFromNothing` leaves them out
for that reason; the other properties of the run hold for them too.

`received` and `left` are history: what a player was granted, and what a handler
that stopped had used and not eaten: the piece is written first, so a handler
that fails after that leaves its food on the table. `NothingFromNothing` admits
that much and no more.

### Inventory, its services, and Wallet

| model | code |
|---|---|
| `job[c]` | the statements the handler of `c` has still to execute: a SELECT puts what follows from its result in front of the rest, an early return empties it |
| `Check`, `Take`, `Pay`, then `Deduct` | `get_*`; `remove_*` by a caller that ignores the answer, and by one that heeds it: a read, and in a later statement a subtraction without a guard |
| `Add` | `add_*`: an upsert, a row each for power and insight items |
| `Refund`, `Withdraw` | the same two statements with a number below one (`Ordered`): a removal that adds, where there is a row, and an upsert that takes |
| `NextUid`, `InsertEquip` | `add_equipments`: own `MAX(uid) + 1`, which another account may have (`OtherUids`) |
| `HasHero`, `CreateHero`, `AddDuplicate`, `RewardDuplicate` | `has_hero`, then `create_hero` or the duplicate and what it gives; one step each, since Roster has the statements |
| `Interrupt` | a statement fails, or the process stops, between any two |
| `bill`, `settled`, `taken`, `dearest` | history: what the request costs and promises; what of it was taken and given; the most one statement was to take |
| `withdrawn` | history: what upserts of numbers below zero took |

*Numbers in requests*: `buy_goods`, `use_item` and `hero_upgrade_skill` multiply what
they check, take and give by a number of the client that nobody checks, and
`items.rs:139` and `currencies.rs:98` look at the balance for a deduction only. The
model takes these numbers from sets with 0 and -1 in them (`Quantity`, `Baskets`,
`Consume`). With such a number every look at a balance passes, `Ordered` makes a removal an
addition (an UPDATE that finds no row where there never was any) and a delivery a
subtraction that looks at nothing, power and insight items get no rows, and a hero
is given all the same. The model follows the code in this and forbids none of it. What
the properties say of such a request is that it settles in full with the signs turned
(`AllOrNothing`), in the same order (`PayBeforeDelivery`), that it lowers the
purchase count, which stays within its limit (`LimitKept`) and pays for no growth (`GrowthPaidFor`), and that a balance
is short by no more than `withdrawn` on top of the bound (`DebtBounded`).

*Store*: `buy_goods` reads the limit, takes cost by cost whether or not the
removal succeeds, raises the count, and delivers item by item; `new_order`
delivers a pack, then overwrites counter, total spent and month card with sums of
what it read. With a number below zero a purchase pays the price back, lowers the
count and takes the goods. A second cost is another good, what the player picks is part of the
pack. A hero among goods gives one hero whatever the quantity
(`buy_goods.rs:310`), and orders give nothing for a hero the player has. The clock
stands still, so a month card is its number of days.

*Growth*: a handler reads the hero once, checks, takes, and overwrites a column, so a
portrayal that consumes less than nothing falls, without a lowest level;
rank 3 of a hero with a skin of its own writes three tables; a talent style takes
item by item and looks at currencies last. *Items*: a request is a list of entries,
and each is checked when its turn comes, after the ones before have been used.
*Mail*: deliver, then mark; `read_mail_batch` answers nothing at all when no mail is
unclaimed (`read_mail_batch.rs:50`), which is no state here. *Summon*: price,
with gems for missing tickets, all pulls in memory on the counters read, heroes one
by one, counters and history last. Rates are a free choice among the rarities they
allow; a count below ten (`Few`) is the price and the pull of one, and is recorded as
the count that was asked for (`SummonFew`); the failure of `increment_summon_count` is a warning in the code and a step that may be left out.

*TalentLayouts*: a hero has templates of cubes and the cubes in force, a copy of
those of the template in use; `put_talent_cube`, `load_talent_scheme` and
`switch_talent_template` change the two one by one, and the template in use is
stored last. *HeroGroups*: `save_hero_group_snapshot` deletes the old team table
by table and inserts the new one row by row, rewrites the order of the teams, and
`sync_snapshot_to_common` copies the team to the common group of the same
number, of which there are four, so a save under another number is stored and
answered with an error. Rows that refer to a row go with it (`ON DELETE
CASCADE`), and a row cannot be inserted for one that is gone. `meant` and
`fielded` are history: what each save was to store, and what the common groups
were last asked to be. Names, clothing and the psychubes of activity 104 in the
common groups, which no save writes, are left out.

*Gm*: `/item`, `/currency`, `/equip`, `/hero` and `/level` run on the connection of
the player who types them; a command that fails is answered with its error
(`chat.rs:230`) and leaves what it wrote. `/item` and `/currency` add a negative amount
by the upsert every grant uses (`Withdraw`). `/equip` of the four psychubes
that are counted in one row is Equip's grant.

*Wallet* lets the services of a behaviour (`services`) work at the same stock.

### Session, Fight, Team, Dungeon

| model | code |
|---|---|
| `phase[c]`, `Read`, `Flush`, `Disconnect` | `handle_client`: one packet at a time, then the queue in order; any of the three failing closes |
| `player[c]`, `battle[c]` | `ConnectionContext`; a battle lives there and nowhere else, so closing loses it |
| `job[c]` | how far the handler is in its statements; for a round: `computed`, `save`, `progress`, `decide`, `record`, `result` |
| `OnStartDungeon`, `OnStartStory`, `OnStartTowerBattle` | `start_dungeon`, `handle_story_only_episode`, `start_tower_battle`; a start replaces any battle |
| `OnBeginRound`, `OnAutoRound` and the steps after them | `begin_round`, `auto_round`: computed on a clone that is dropped, always won, the reply queued before the three tables are written |
| `replays`, `dungeons`, `records` | `save_round_operations` (INSERT OR REPLACE on the battle's id, a time in ms), `update_dungeon_progress`, `save_dungeon_record` |
| `told`, `torn`, `round` | history: what clients have learnt; rounds cut short; the round about to be told |
| `ProcessRound` | `round_mgr.rs`: cards against the snapshot, the enemies against the same, then all effects to the fight |
| `Built(p, g)` | `create_battle`: `trial.rs`, `fight_builder.rs`, `cards.rs` |

A row of `user_dungeons` is keyed by player, episode and *chapter*, and the chapter is
the one the client names: `start_dungeon.rs:21` passes it on, and the upsert of
`dungeons.rs:182-216` inserts a row for it. `Named` are the chapters a client names, one of them not the
episode's own. Where there is no row (`NoRow`), a start fails after the battle has
become active, as does the result of a replay (`HasRow`). So `TablesAgree` sums the counts of an
episode over the chapters (`Counted`). `fight_builder.rs:132` narrows the uid of a hero to
32 bits (`AsI32`), so a group may name a hero by a uid that is a multiple of 2^32 away;
`HalfWord` is half of the word, 8 in the run.

Things the models keep that a reader may take for mistakes: the player is read
from the connection when a round begins, so a second login on it counts the round
for the new player; a round asked for again on the same battle counts again, and
its number is always 1; a story has `has_record` set; the first clear is read as a
count of 1 after the update; rewards are pushed and never granted; healing
"nobody" or dividing life evenly is an error and closes the connection; losing life
sets it to minus the loss; enemies killed in a round still act in it; auto plays
positions 0, 2 and 4 of the hand; cards are dealt from skills of the first rank and
a merged card never merges again; heroes without any skill have nothing to draw from and build no battle; substitutes are in the round and are hit by what
hits all. Buffs are left out since the `BuffMgr` conditions read is created empty
in every round; the passives of the first round, which double-count a loss for two
heroes, and the contents of operations are left out too. Formulas are
numbers. The enemies and `PlayerMax` stand for one episode.

## 3. The runs

Every run finishes in less than five minutes with two workers. "Violation"
runs check one property each that the repository states and the code breaks
(section 6).

| run | asks | states | properties |
|---|---|---|---|
| `destiny_core` | two sessions, one hero with two stones, readers that make COMMIT busy, crashes: is every command atomic and every row sound and fit for battle | 180 370 | `PlanStaysCurrent`, `RowsValid`, `FightsAsPaid`, `ImplementsAtomic`, `PaidMeansAdvanced` |
| `destiny_live` | two heroes at different prices, a pool of one connection, and another handler that pays from the same balance: does the ledger add up and is every command answered | 382 048 | `Ledger`, `NeverOverdraws`, `EveryCommandAnswered` |
| `daily_all` | two connections over days that cross a week's and a month's end | 680 184 | `AddupCountsDays`, `CacheIsStored`, `PaidOncePerClaim`, `ShopResets`, `ClaimedGiftsSettle` |
| `account_collide` | three requests for three addresses, two with one hashed id, and a game connection | 322 270 | `AnswerOwns`, `CreatorAlone`, `OwnerKept`, `FirstHasAll` |
| `roster_all` | two connections of a player and one of another are granted two heroes | 69 455 | `OneWholeHero`, `GrantsKept`, `CountNotAhead`, `RowsKept` |
| `equip_feed` | two players are granted pieces and materials, feed, refine and lock, with lists and numbers of any kind | 964 328 | `NothingFromNothing`, `OthersUntouched`, `LockedStays` |
| `wallet` | two connections of a player use the services that share something in pairs, summons and groups by themselves, with numbers of any sign | 374 801 | `DebtBounded`, `LimitKept`, `AllOrNothing`, `PayBeforeDelivery`, `MailDeliveredOnce`, `RecordsAgree`, `ItemsUsedOnce`, `PityHolds`, `GrowthPaidFor`, `TalentsInStep`, `TeamsKeptWhole` |
| `dungeon` | two connections of a player start, play, record and end battles | 542 696 | `RoundSound`, `AnsweredMeansSaved`, `TablesAgree`, `TeamsSound`, `RequestSettles` |
| `daily_reward` | violation | | `SignRewardPaidOnce` |
| `account_second` | violation | | `UnlockedByDefault` |
| `equip_break` | violation | | `BreakRaises` |
| `team_trial` | violation | | `DealtCardsPlayable` |

The type invariant is a conjunct of one property of the run (`CacheIsStored`,
`NothingFromNothing`, `DebtBounded`, `AnsweredMeansSaved`), since it is seldom what
goes wrong; those of Destiny, Roster and Account are proved (`TypeCorrect`).

### Bounds

| bound | in | why it is enough |
|---|---|---|
| two connections or sessions | all | every race listed needs two handlers; three requests in Account, where a collision and an equal address both matter |
| `MaxFaults` (one) | Account, Wallet, Dungeon | a statement that fails, or a task dropped, at any place; elsewhere faults are not bounded |
| `MaxRequests` | Wallet (2), Dungeon (4 and 3), Equip (4; 3 in `equip_break`) | one to prepare and one to use, or two that overlap; start, play, ask and end of a battle |
| `MaxGrants` (4) | Roster | each of the three connections grants, one of them again |
| `Mixes` | Wallet | summons and groups by themselves, and in pairs those that hand each other something, which includes what each does alone: goods and mail both give equipment, items give heroes to grow and raise them, growth unlocks what talents wear, commands take what a purchase looked at |
| `Quantity`, `Consume` (-1, 0, 1, 2) | Wallet | none, one, more than one, and less than none; -1 stands for every number below zero, with which no test is different |
| `Few` (5) | Wallet | every count below ten has the price and the pull of one; 5 tells what was asked for from what was pulled |
| `Baskets`, `Moves`, `Sculpted`, `FightGroup`, `EquipChange` | Wallet | requests worth telling apart: a second entry that is too dear, entries of none and of less, a cube moved, covered and taken, a team with a gap and a substitute, a common group that does not exist |
| `MaxDay` (3), `MaxLogins` (3), `MaxPaid` (2) | Daily | from the last day of a month to the first of the next, with a week's end on the way; two claims of the same thing |
| `MaxOverlaps` (2), `FirstOverlap` (3) | Daily | how many logins may begin while another connection works, and from which day |
| `MaxUid` (2; 3 in `equip_break`), `MaxEaten` (2) | Equip | two players compete for the next uid; a food list of two: two rows, or one row twice |
| `Lots`, `Takes` (-1, 1, 2) | Equip | one, more than one, and less than none |
| `MaxAttempts` (2), `PoolSize` (1, 2), `MaxBalance` (0, 1) | Destiny | one retry after a busy COMMIT (the code's numbers of attempts differ in how often, not in what follows); a session waits for the pool and does not; the other handler gives and takes |
| `Chapters`, `Named` | Dungeon | one connection names the episode's own chapter, the other one without a row |
| `MaxTime` (2), `Deals`, `Lineups`, `OperLists` | Dungeon | two battles that start in the same or in different milliseconds; the hands, groups and plays that lead to different code |

Deadlock is checked, but in Account, Wallet and Dungeon, where requests are
bounded and afterwards nothing is left to do. Symmetry is over names the models
never compare (connections, addresses with one hash), and never where liveness is
checked.

### One connection at a time

Some promises hold only for a client that uses one connection at a time, and the
models say so with a history variable instead of leaving the overlap out:
`overlapped` in Daily (`AddupCountsDays`, `CacheIsStored`, the card in
`PaidOncePerClaim`, `ShopResets`) and in Wallet (the conjuncts with `Serial` or `Calm`), one
connection a player in `equip_feed` (`NothingFromNothing`, `LockedStays`). Overlapping behaviours are
explored in the same runs, and the properties bound what they can do where there
is a bound: `DebtBounded` by what the other connections were taking, `LimitKept`
by a request for each, `MailDeliveredOnce` by a delivery for each,
`PaidOncePerClaim` and `RowsOwned` not at all.

Four hazards of the list stay out of reach of the properties they name, for this reason: H9
(a cached row saved over another connection's), H11 (a login that crosses 05:00, see
section 6), H24 (a piece locked by a second connection while it is being eaten) and the
piecewise refusals of H32 (a style or a list of consumables refused half-way keeps
what it took, which `AllOrNothing` admits by `Piecewise`). The code does go wrong there;
the properties say what holds besides.

## 4. Fairness

`destiny_live` checks `EveryCommandAnswered` under `FairSpec`: weak fairness of each
session's own steps (`Execute(s)`) and nothing about readers, other
handlers or crashes. The code justifies it: every wait of a session has a limit (50 ms
for a connection of the pool, 25 ms for the lock, pauses of 10 to 40 ms between
attempts), tokio polls a task that is ready, and the number of attempts is bounded.
So an answer comes even if every COMMIT stays busy; it may be an error.

`RequestSettles` in Dungeon assumes weak fairness of a task's own work, of its
flush, and of closing once it has failed, for each connection: what
tokio gives a task that is ready. Nothing is assumed about what clients send.
`AnswersInOrder`, that replies keep the order of the requests, needs no fairness
and is part of `AnsweredMeansSaved`, which is proved.

The other modules promise nothing that must happen.

## 5. The proofs

TLAPS proves what follows for all values of the constants that satisfy the
assumptions named in the modules. Each module has an inductive invariant of its
own, written as a conjunction by stage of the handler, whose first use is
`Invariance == Spec => []IInv`; the properties follow from it. Wallet has one for each
property, on top of its types.

| module | theorem | property |
|---|---|---|
| DestinyProofs | `TypeCorrect`, `PlanNeverStale`, `RowsAlwaysValid`, `NoOverdraft`, `PaidAdvances`, `LedgerHolds`, `Refinement` | `TypeOK`, `PlanStaysCurrent`, `RowsValid`, `NeverOverdraws`, `PaidMeansAdvanced`, `Ledger`, `ImplementsAtomic` |
| DestinyProofs, on Kit | `StagesBeforeStones`, `EveryHeroFights`, `AttributesArePaid` | parts of `FightsAsPaid` |
| DailyProofs | `TypeCorrect`, `GiftsSettle`, `CacheStored`, `CountNeverAhead`, `PaidOnce`, `CountersReset` | `TypeOK`, `ClaimedGiftsSettle`, `CacheIsStored`, `AddupCountsDays`, `PaidOncePerClaim`, `ShopResets` |
| RosterProofs | `TypeCorrect`, `OneHeroWhole`, `AnswersKept`, `CountsBehind`, `RowsStay` | `OneWholeHero`, `GrantsKept`, `CountNotAhead`, `RowsKept` |
| AccountProofs | `TypeCorrect`, `AnswerIsOwner`, `OneCreator`, `OneAccountStarts`, `OwnersStay` | `AnswerOwns`, `CreatorAlone`, `OwnerKept` |
| EquipProofs | `TypeCorrect`, `RowsOfOthersRest`, `LockedNeverEaten`, `NothingSprings` | `TypeOK`, `OthersUntouched`, `LockedStays`, `NothingFromNothing` |
| WalletProofs | `TypeCorrect`, `DebtStaysBounded`, `LimitHolds`, `MailOnce`, `ItemsWorkOnce`, `PityIsKept`, `StylesStayUnlocked`, `TeamsStayOwn` | `TypeOK`, `DebtBounded`, `LimitKept`, `MailDeliveredOnce`, `ItemsUsedOnce`, `PityHolds`, parts of `TalentsInStep` and `TeamsKeptWhole` |
| DungeonProofs | `NothingToldUnsaved`, `AnswersNumbered`, `AnswersAreSound`, `TablesAlwaysAgree`, `RoundsAreSound`, `TeamsAreSound` | `AnsweredMeansSaved`, `TablesAgree`, `RoundSound`, `TeamsSound` |

*Destiny.* The invariant says who may hold the lock at which place, and that the
pages of the one open transaction follow from the committed state: the row it
planned from is the committed row, what it has paid was there, what is still to
pay is the rest of the price. Without that part a step of `Deduct` alone proves
nothing, since the guard of the UPDATE looks at one material only. `Refinement` maps
`Commit` to the atomic command and everything else to stuttering; the answer
pending after a commit is part of the invariant so that a crash between commit
and answer maps too. `LedgerHolds` compares what was ever deducted with what the
stored rows are worth: the nodes a plan charges are exactly those that come onto the
hero's way with it. That needs tables whose slots have no gaps (`SlotsWithoutGaps`, a
part of `CatalogAssumption`) and finitely many of them.

*Sums.* The installed provers cannot use an induction theorem that takes a predicate, so
`OnNaturals` and `OnSubsets` state induction for a *set* of numbers or of subsets. From them
follow that the function a fold over a set is defined by exists and is unique, how
a sum changes when one summand does, and what bounds a sum (`SumAtMost`, `SumOfOthers`); both
ledgers and the bounds of Wallet rest on it. `FoldRuns` does the same for a fold over a
sequence: it has a trace of intermediate results, each the step of the one before,
so an invariant of the steps holds at the end. `Count` is how many elements of a sequence lie in a set.

*Kit.* `RowsValid` is not enough: a battle refuses a hero that wears a stone and has
no stage. `StonesAfterStages` adds the order they come in (a hero of rank 0 has
unlocked no stone), and from both every row a command stores resolves.

*Daily.* The argument has three parts. `Holding` says what a handler holds at each
statement: a cached row, a day no later than the clock, a claim of the kind the
statement is about. `PaidFor` counts, for each milestone and card, the payments
made and the handlers about to pay against the claim row and its deletions; an
INSERT that finds no row is the only way in, so it needs no assumption about
connections. `Orderly` holds until two connections are at work: the caches
that a closing connection may still write back say what is stored, and what the
stored rows and counters say depends on how far the login has come. `CountersReset`
needs a calendar: a later day is in no earlier week or month
(`DailyAssumption`), as `server_week` and `server_month` in `common/src/time.rs`
have it. A logged-in connection holds a row, never `None` (`NoneAssumption`).

*Roster.* Uids are 1 to n without gaps, so `MAX + 1` is fresh when read, and each
grant in progress owns the row it inserted, unless its insert failed. At most one
grant of a hero is past the birthday, and its row is then the oldest whole one.

*Account.* Rows of `users` are only added, under a free id, and keep address and
password; what a request has found stays the account of its address. One request
creates at a time for an id, because the insert of the row decides.

*Equip.* What the only connection of a player holds as food is unlocked: locks
are set by the same connection, which is busy. Strengthening touches only rows
whose owner was compared. `NothingSprings` needs two more things of a player with one
connection: what a handler read is still so when it acts on it (`InHand`), and what the
account was given is what it holds, what the pieces grew by and what handlers have taken but
not yet used (`Balance`). A stack that falls below zero is still part of the sum. All of that is
about players outside `strange`: their lists name no row twice (`ProperList`), so what the
entries give comes to at most what is taken of their rows (`FoodPays`), and the write of the target
adds no more than that (`FieldsWritten`). `TypeCorrect`, `RowsOfOthersRest` and
`LockedNeverEaten` hold for every list.

*Wallet.* Nine modules take part in a step, so the proof goes through their kinds of
steps first: `NextMoves` says that every step of every service is one of fifteen
moves (`Move`), each of which says what happens to the pending statements and to the
variables the properties are about. `Types` is the typing of all columns and of the
pending statements (`Fits`: what a statement can be about). `Lonely` says that at most one
connection has work as long as nothing has overlapped. Each property then needs to know
what pending statements have looked at and not yet done, which the variables
alone do not show. `DebtInv`: the balance less all amounts seen to be there
and still to be deducted is not below the floor; a deduction moves an amount from one to the other.
What an upsert of less than nothing takes moves from the balance to `withdrawn`, so their sum
stays, and only deductions of a positive number are pending (`Ordered`).
`LimitInv`: what is bought and what has passed its limit and is still to be counted is not above the
roof, where a number below zero claims nothing, and a job counts one purchase, of the goods it
checked. `MailInv`: deliveries
are those that failed, the one that is marked, and the connections still to mark.
`StyleInv`: a style about to be worn is unlocked, since no handler locks one
again. `TeamInv`: a team has no more rows of a part than come before those its save is
still to insert (`Room`), no two connections insert under one id, and no id is
given twice.

`ItemsUsedOnce` and `PityHolds` are promises to requests in a row only, so `SoleInv` is about
the one connection that has work, and says what its job has left to do. An insight item
is whole (`Even`), or its hero was raised and the statement that counts it down comes next. Of the
expired power, the rows still to be deleted are among those the job names, and what it
is about to add is at least what they and the deleted ones are worth, so a failure can
lose some and never double it. The counters of a pool are what was rolled from it, less
`Many` for each failure (`Pitied`); during a roll that holds of the ones in memory, and of
the stored ones when the pulls left are added (`RollAt`). Such statements are put into a
job by one request each, and only one statement leads to the next
(`Opens`, `Lends`), which `Ways` reads off the moves; `Works` says that a job does nothing else
before it comes to a given rest.

The invariants assume finite sets of connections, materials and
quantities, and that a hero is no material (`InventoryAssumption`, `StoreAssumption`). Of
the quantities a client sends they assume nothing else but that one of them is positive,
which gives the bound of `LimitKept` its sign.

*Dungeon.* The place of a handler says what it has written: past `save` the
replay is stored, past `progress` the count, past `record` the record. The
queue holds the reply of the round in hand and nothing else that tells of it, and
an episode has at most as many replays as its counts in all chapters and handlers in progress; a
row that nobody earned is the one of the episode's own chapter.

*Rounds.* `RoundOf` is about one round: for every battle that can be played (`Playable`)
and every list of operations, a round that is not refused is sound. Three invariants
of folds make it up. Over the operations (`States`): of each face of a card, the hand
and the skills shown have together as many as were dealt. Over the effects, seen from the
fight the round began with (`Results`): life is at most its maximum, and points and
accumulator of each team are worth what they were and the damage so far; the accumulator
stays below a point unless the pool is full. And every effect a skill can have is of a kind
that keeps this (`Effects`): damage is at least one and hits an entity, a life set is never
above the maximum. `BuiltTyped` shows that what `create_battle` builds can be played, so the
invariant over the connections (`RInv`) only says that a round waits for
the handler that computed it.

*Teams.* `FreePosition` finds a position for the k-th slot that claims one and keeps their
order (`FreeFound`, `FreeInOrder`); slots that do not claim are their own position and hold no trial hero
(`RequestedTyped`). The uids of trial heroes are ordinals above the aids', those of
substitutes are above all of these, those of the enemies below `-MaxOrdinal`. The targets of the enemies
are numbered by position, so the one drawn exists because positions differ (`RankTaken`).
`TeamsSound` speaks of lineups that list an owned hero once in the main list (`ListsOnce`), as
clients do: `fight_builder.rs` does not compare the uids, and with one listed twice two
entities would share it. Assumed of the tables (`FightAssumption`, `TeamAssumption`): the skills, heroes
and monsters they name are there, rates and slot numbers are numbers and no share of life lost is
negative, nobody starts above its maximum and no pool above its own.

*Only model-checked*: liveness and `ENABLED`, which the provers in use do not reach; the rest of
`FightsAsPaid`; and of Wallet what compares whole requests with their bills
(`AllOrNothing`, `PayBeforeDelivery`, `GrowthPaidFor`), two tables with each other
(`RecordsAgree`, the rest of `TeamsKeptWhole` and `TalentsInStep`). Those follow a job of every
kind of request from its first statement to its last, so their invariants would list the
statements of each request in order, with what each has paid, given and recorded so far.

## 6. Disagreements found

Four runs find the code at odds with what the repository says of it
(`findings` in `PROJECT.json` quotes both).

* `daily_reward`: a gift of activity 101 is paid to both of two connections that
  had read it as unclaimed (`events.rs:109`), though the release notes say double
  rewards are gone (`README.md:143`).
* `account_second`: the second account of a server gets none of the starter data,
  since critters are numbered alike for all (`account.rs:219`); `README.md:90` says
  all is unlocked by default.
* `equip_break`: a break-through is charged and answered and stores the level it
  found (`models/game/equipment.rs:118`).
* `team_trial`: a hand deals cards of trial heroes, whose entities have negative
  uids, but a played card looks for its caster among uids above zero
  (`card_mgr.rs:114`, `cards.rs:32-36`), so playing one fails the round, though
  `gameserver/tests/destiny_power.rs:733` expects it to be cast.

And one the models only make visible: a login that crosses 05:00 of the first
day of a week or month checks with the old date what is due and stores the new one
(`sign_in.rs:60`, `login.rs:72-98`), so the shop counters of the old period stay until the next
one, though `README.md:118` says "Shop now resets". `ShopResets` excludes it by
`straddled`.

## 7. Not modelled

* *Protocol messages* (39 679 of the 86 809 lines) are generated; *configuration
  tables* are parsed once and constant, and enter as constants with assumptions.
* *Room, critters, antiques and other collections*, the *static answers of the SDK
  server*, most of *weekwalk, rouge, explore*: rows written at creation and
  only read afterwards, or fixed answers. Their loaders are in Starter.
* *Chat*: friend lists, fixed answers, and the numbers of the messages of one connection.
* *Server clock*: its calendar enters Daily.
* Within modelled parts: formulas of the battle simulator, most hard-coded effects of
  heroes, buffs, the passives of the first round; packet framing; which
  items a daily reward is; the flags of a first charge; favourites, red dots,
  touches, skins worn and the default psychube of a hero; `charge.rs`.
* Numbers wider than a word: a quantity times a cost, a count and an experience total are
  `i32` products and sums in the code and plain integers here, so the wrap-around (or the panic of a debug
  build) of a very large request is left out. `AsI32` and `MaxAmount` are the two places
  where the width enters.
* The four psychubes that are counted in one row are granted in Equip (`Material`); in
  Inventory every psychube is a row of its own.
* Accounts without the starter rows of `user_dungeons` (section 6, `account_second`):
  Dungeon begins with one for each episode in its own chapter.

## 8. Plan

Done, in the order planned: Destiny with its refinement; Roster, Account, Daily, Equip;
the Wallet family; Kit; battles and dungeons; layouts.

What could follow: proofs of the rest of Wallet, which compare a request with its bill or
two tables with each other; the default psychube of a hero,
which may name a uid that was freed; Equip with two connections of one player,
where `LockedStays` fails in the code and should be stated for what remains; the first
charge.

## 9. Running it

In this directory:

    tlc -workers 2 -config MCWallet.cfg MCWallet.tla
    tlapm DungeonProofs.tla

for each run of `PROJECT.json` and each proof module. WalletProofs takes
a quarter of an hour from nothing, DestinyProofs and DungeonProofs some minutes, the others less.
