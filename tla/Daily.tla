-------------------------------- MODULE Daily --------------------------------
(***************************************************************************)
(* A player's day: the login handler of the game server with the resets it *)
(* triggers (handlers/system/login.rs, db/game/sign_in.rs), and the daily  *)
(* rewards: sign-in milestones, the month card and activity 101.           *)
(*                                                                         *)
(* One account, several connections of it.  A connection runs one handler  *)
(* at a time; handlers of two connections interleave statement by          *)
(* statement.  Each connection caches the player_state row it loaded and   *)
(* writes the whole row back, at the end of some handlers and when it      *)
(* closes.  Time is counted in server days, which begin at 05:00 UTC.      *)
(***************************************************************************)
EXTENDS Integers, FiniteSets, FiniteSetsExt, Sequences

CONSTANTS
    Conn,          \* connections that log in as the account
    None,
    MaxDay,        \* bound: the last server day of the clock
    Week, Month,   \* Week[d], Month[d]: the week and month of day d
    Milestone,     \* numbers of sign-ins with a bonus
    Gift,          \* the days of activity 101
    CardUntil,     \* the last day of the month card, 0 without one
    Accounts,      \* bound: what the account claims and buys, and the starter rows
                   \* of activity 101 it has
    Limited,       \* the periods with a counter the account uses
    MaxLogins,     \* bound: login requests served
    MaxOverlaps,   \* bound: the same, once a second connection is open
    FirstOverlap,  \* bound: the first day a second connection is open
    MaxPaid        \* bound: no claim of a gift paid this often

Day == 1..MaxDay
Period == {"day", "week", "month"}

\* 0 stands for NULL: sqlx decodes a NULL integer as 0, and every reader here
\* treats both alike.
Never == 0

ASSUME DailyAssumption ==
    /\ MaxDay \in Nat \ {0}
    /\ Week \in [Day -> Nat] /\ Month \in [Day -> Nat]
    /\ \A d, e \in Day : d <= e => Week[d] <= Week[e] /\ Month[d] <= Month[e]
    /\ Milestone \subseteq Nat
    /\ CardUntil \in Nat
    /\ Accounts \subseteq [offered : SUBSET {"milestone", "card", "gift", "goods"},
                    giftRows : SUBSET Gift]
    /\ Limited \subseteq Period
    /\ MaxLogins \in Nat /\ MaxOverlaps \in Nat /\ FirstOverlap \in Nat /\ MaxPaid \in Nat
    /\ IsFiniteSet(Conn)

\* The columns of player_state that some handler reads.
PlayerState == [signIn : {Never} \cup Day, signInDay : Day,
                dailyReset : {Never} \cup Day, statePush : {Never} \cup Day]

ASSUME NoneAssumption == None \notin PlayerState

\* A reward, and the row that says it was claimed.
MilestoneReward == {"milestone"} \X Milestone
CardReward == {"card"} \X Day
GiftReward == {"gift"} \X Gift
MonthlyReward == MilestoneReward \cup CardReward
Reward == MonthlyReward \cup GiftReward

VARIABLES
    today,     \* the server's clock
    player,    \* the row of player_state, or None
    signDays,  \* rows of user_sign_in_days
    addup,     \* user_sign_in_info.addup_sign_in_day
    claimed,   \* user_sign_in_addup_bonus, user_month_card_days and the claimed
               \* rows of user_activity101_claims
    giftRows,  \* the rows of user_activity101_claims
    used,      \* used[p]: the day the limit counters of period p left zero, or Never
    pc,        \* pc[c]: the next statement of c's handler
    cache,     \* cache[c]: the player_state c holds, or None
    clock,     \* clock[c]: the day c's handler read as `now`
    due,       \* due[c]: the periods c's login found to be over
    claim,     \* claim[c]: the reward c is claiming, or None
    paid,      \* history: how often each reward was paid
    wiped,     \* history: how often the claim of each reward was deleted
    entered,   \* history: the day c's last login read in process_daily_login
    logins,    \* history: login requests so far
    overlapped, \* history: two connections were open at a time
    straddled, \* history: a login crossed the start of a day between its two
               \* reads of the clock
    offered    \* bound: what this account claims and buys

dbVars == <<player, signDays, addup, claimed, giftRows, used>>
connVars == <<pc, cache, clock, due, claim>>
history == <<paid, wiped, entered, logins, overlapped, straddled, offered>>
vars == <<today, dbVars, connVars, history>>

\* Mutant of LoginPlan: the sign-in is marked before the counters are reset.
MarkFirst ==
    << <<"wipeDays", "month">>, <<"wipeCards", "month">>, <<"wipeMilestones", "month">>,
       <<"findDay", "day">>, <<"markSignIn", "always">>,
       <<"resetMonth", "month">>, <<"resetWeek", "week">>, <<"resetDay", "day">>,
       <<"againDay", "day">>, <<"againWeek", "week">>, <<"againMonth", "month">>,
       <<"readClock", "always">>, <<"saveLogin", "always">> >>

\* The statements of a login after it has found out what is due, in order, each
\* with the period it is executed for.
LoginPlan ==
    << <<"wipeDays", "month">>, <<"wipeCards", "month">>, <<"wipeMilestones", "month">>,
       <<"resetMonth", "month">>, <<"resetWeek", "week">>,
       <<"findDay", "day">>, <<"resetDay", "day">>, <<"markSignIn", "always">>,
       <<"againDay", "day">>, <<"againWeek", "week">>, <<"againMonth", "month">>,
       <<"readClock", "always">>, <<"saveLogin", "always">> >>

Stage == {"offline", "idle", "load", "create", "readDay", "check", "addDay", "countDay",
          "findMilestone", "addMilestone", "findCard", "addCard", "saveCard",
          "claimGift", "saveGift", "pay"}
         \cup {LoginPlan[i][1] : i \in DOMAIN LoginPlan}

TypeOK ==
    /\ today \in Day
    /\ player \in PlayerState \cup {None}
    /\ signDays \subseteq Day
    /\ addup \in Nat
    /\ claimed \subseteq Reward
    /\ giftRows \subseteq Gift
    /\ used \in [Period -> {Never} \cup Day]
    /\ pc \in [Conn -> Stage]
    /\ cache \in [Conn -> PlayerState \cup {None}]
    /\ clock \in [Conn -> {Never} \cup Day]
    /\ due \in [Conn -> SUBSET Period]
    /\ claim \in [Conn -> Reward \cup {None}]
    /\ paid \in [Reward -> Nat]
    /\ wiped \in [MonthlyReward -> Nat]
    /\ entered \in [Conn -> {Never} \cup Day]
    /\ logins \in Nat
    /\ overlapped \in BOOLEAN /\ straddled \in BOOLEAN

\* The row create_user inserts, and the one load_player_state makes up when
\* there is none.
CreatedState(d) ==
    [signIn |-> Never, signInDay |-> d, dailyReset |-> Never, statePush |-> Never]
NewState(d) == [CreatedState(d) EXCEPT !.signIn = d]

\* An account as create_user leaves it: whole, or without the starter data, and
\* then possibly without a player_state row.
Init ==
    /\ today = 1
    /\ \E a \in Accounts : offered = a.offered /\ giftRows = a.giftRows
    /\ player \in {CreatedState(1)} \cup (IF giftRows = {} THEN {None} ELSE {})
    /\ signDays = {}
    /\ addup = 0
    /\ claimed = {}
    /\ used = [p \in Period |-> Never]
    /\ pc = [c \in Conn |-> "offline"]
    /\ cache = [c \in Conn |-> None]
    /\ clock = [c \in Conn |-> Never]
    /\ due = [c \in Conn |-> {}]
    /\ claim = [c \in Conn |-> None]
    /\ paid = [r \in Reward |-> 0]
    /\ wiped = [r \in MonthlyReward |-> 0]
    /\ entered = [c \in Conn |-> Never]
    /\ logins = 0
    /\ overlapped = FALSE
    /\ straddled = FALSE

-----------------------------------------------------------------------------
Goto(c, stage) == pc' = [pc EXCEPT ![c] = stage]

\* The handler returns: its local variables are gone.
Return(c) ==
    /\ Goto(c, "idle")
    /\ clock' = [clock EXCEPT ![c] = Never]
    /\ due' = [due EXCEPT ![c] = {}]
    /\ claim' = [claim EXCEPT ![c] = None]

\* The statement of a login that follows the one named, given what is due.
Follow(stage, periods) ==
    LET here == CHOOSE i \in DOMAIN LoginPlan : LoginPlan[i][1] = stage
        left == {i \in DOMAIN LoginPlan :
                    i > here /\ LoginPlan[i][2] \in periods \cup {"always"}}
    IN LoginPlan[Min(left)][1]

Proceed(c) == Goto(c, Follow(pc[c], due[c]))

\* save_player_state: INSERT OR REPLACE of the whole row.
Save(row) == player' = row

-----------------------------------------------------------------------------
(* Logging in.                                                             *)

\* on_login with a valid token reaches load_player_state, which reads the clock; a
\* connection may log in again.
Login(c) ==
    /\ pc[c] \in {"offline", "idle"}
    /\ overlapped' = (overlapped \/ \E d \in Conn \ {c} : pc[d] # "offline")
    /\ overlapped' => today >= FirstOverlap
    /\ logins < IF overlapped' THEN MaxOverlaps ELSE MaxLogins
    /\ logins' = logins + 1
    /\ Goto(c, "load")
    /\ clock' = [clock EXCEPT ![c] = today]
    /\ UNCHANGED <<today, dbVars, cache, due, claim, paid, wiped, entered, straddled, offered>>

\* The row is cached ...
LoadState(c) ==
    /\ pc[c] = "load"
    /\ IF player # None
       THEN cache' = [cache EXCEPT ![c] = player] /\ Goto(c, "readDay")
       ELSE Goto(c, "create") /\ UNCHANGED cache
    /\ UNCHANGED <<today, dbVars, clock, due, claim, history>>

\*    ... or created, if the account has none.
CreateState(c) ==
    /\ pc[c] = "create"
    /\ Save(NewState(clock[c]))
    /\ cache' = [cache EXCEPT ![c] = NewState(clock[c])]
    /\ Goto(c, "readDay")
    /\ UNCHANGED <<today, signDays, addup, claimed, giftRows, used, clock, due, claim, history>>

\* process_daily_login, and later on_login's closure, read the clock anew.
ReadClock(c) ==
    /\ pc[c] \in {"readDay", "readClock"}
    /\ clock' = [clock EXCEPT ![c] = today]
    /\ straddled' = (straddled \/ (pc[c] = "readClock" /\ clock[c] # today))
    /\ Goto(c, IF pc[c] = "readDay" THEN "check" ELSE "saveLogin")
    /\ UNCHANGED <<today, dbVars, cache, due, claim, paid, wiped, entered, logins, overlapped, offered>>

\* What is over since the stored last_sign_in_time.
CheckDue(c) ==
    /\ pc[c] = "check"
    /\ player # None
    /\ LET last == player.signIn
           now  == clock[c]
           over == {p \in Period :
                      \/ last = Never
                      \/ p = "day" /\ last # now
                      \/ p = "week" /\ Week[last] # Week[now]
                      \/ p = "month" /\ Month[last] # Month[now]}
       IN /\ due' = [due EXCEPT ![c] = over]
          /\ Goto(c, IF "month" \in over THEN "wipeDays" ELSE Follow("wipeDays", over))
    /\ entered' = [entered EXCEPT ![c] = clock[c]]
    /\ UNCHANGED <<today, dbVars, cache, clock, claim, paid, wiped, logins, overlapped, straddled, offered>>

\* A new month: the claims of the old one are deleted, table by table.
WipeDays(c) ==
    /\ pc[c] = "wipeDays"
    /\ signDays' = {}
    /\ Proceed(c)
    /\ UNCHANGED <<today, player, addup, claimed, giftRows, used, cache, clock, due, claim, history>>

WipeClaims(c, kind) ==
    /\ claimed' = {r \in claimed : r[1] # kind}
    /\ wiped' = [r \in MonthlyReward |->
                  wiped[r] + (IF r[1] = kind /\ r \in claimed THEN 1 ELSE 0)]
    /\ Proceed(c)
    /\ UNCHANGED <<today, player, signDays, addup, giftRows, used, cache, clock, due, claim,
                   paid, entered, logins, overlapped, straddled, offered>>

WipeCards(c) == pc[c] = "wipeCards" /\ WipeClaims(c, "card")
WipeMilestones(c) == pc[c] = "wipeMilestones" /\ WipeClaims(c, "milestone")

\* Mutant of ResetMonth: the month's goods are reset, the sign-in count is not.
ResetGoodsOnly(c) ==
    /\ pc[c] \in {"resetMonth", "againMonth"}
    /\ used' = [used EXCEPT !["month"] = Never]
    /\ Proceed(c)
    /\ UNCHANGED <<today, player, signDays, addup, claimed, giftRows, cache, clock, due, claim, history>>

\* reset_monthly_counters, reset_weekly_counters, reset_daily_counters: called by
\* process_daily_login, and a second time by on_login once that has returned.
ResetMonth(c) ==
    /\ pc[c] \in {"resetMonth", "againMonth"}
    /\ addup' = 0
    /\ used' = [used EXCEPT !["month"] = Never]
    /\ Proceed(c)
    /\ UNCHANGED <<today, player, signDays, claimed, giftRows, cache, clock, due, claim, history>>

ResetCounters(c, p) ==
    /\ used' = [used EXCEPT ![p] = Never]
    /\ Proceed(c)
    /\ UNCHANGED <<today, player, signDays, addup, claimed, giftRows, cache, clock, due, claim, history>>

ResetWeek(c) == pc[c] \in {"resetWeek", "againWeek"} /\ ResetCounters(c, "week")
ResetDay(c) == pc[c] \in {"resetDay", "againDay"} /\ ResetCounters(c, "day")

\* process_daily_login's last statement: the row now says the player signed in.
MarkSignIn(c) ==
    /\ pc[c] = "markSignIn"
    /\ player # None
    /\ Save([player EXCEPT !.signIn = clock[c]])
    /\ Proceed(c)
    /\ UNCHANGED <<today, signDays, addup, claimed, giftRows, used, cache, clock, due, claim, history>>

\* What on_login's closure makes of the cached row.
LoggedIn(row, now) ==
    IF row.dailyReset # now
    THEN [row EXCEPT !.signIn = now, !.signInDay = now, !.dailyReset = now]
    ELSE [row EXCEPT !.signIn = now]

\* Mutant of SaveLogin: the cached row is updated and not stored.
CacheLogin(c) ==
    /\ pc[c] = "saveLogin"
    /\ cache' = [cache EXCEPT ![c] = LoggedIn(@, clock[c])]
    /\ Return(c)
    /\ UNCHANGED <<today, dbVars, history>>

\* update_and_save_player_state; pushes and the reply follow.
SaveLogin(c) ==
    /\ pc[c] = "saveLogin"
    /\ Save(LoggedIn(cache[c], clock[c]))
    /\ cache' = [cache EXCEPT ![c] = LoggedIn(@, clock[c])]
    /\ Return(c)
    /\ UNCHANGED <<today, signDays, addup, claimed, giftRows, used, history>>

-----------------------------------------------------------------------------
(* Signing in: record_sign_in_day, from a login or from on_sign_in.        *)

\* A connection past its login waits for a request.
Ready(c) == pc[c] = "idle"

Begin(c, stage, reward) ==
    /\ Goto(c, stage)
    /\ clock' = [clock EXCEPT ![c] = today]
    /\ claim' = [claim EXCEPT ![c] = reward]
    /\ UNCHANGED <<today, dbVars, cache, due, history>>

SignIn(c) == Ready(c) /\ Begin(c, "findDay", None)

\* The day is recorded: back to the login, which only comes here when the day
\* is due, or to the client.
Recorded(c) ==
    IF "day" \in due[c]
    THEN Goto(c, Follow("findDay", due[c])) /\ UNCHANGED <<clock, due, claim>>
    ELSE Return(c)

FindDay(c) ==
    /\ pc[c] = "findDay"
    /\ IF clock[c] \in signDays
       THEN Recorded(c)
       ELSE Goto(c, "addDay") /\ UNCHANGED <<clock, due, claim>>
    /\ UNCHANGED <<today, dbVars, cache, history>>

\* INSERT ... ON CONFLICT DO NOTHING
AddDay(c) ==
    /\ pc[c] = "addDay"
    /\ signDays' = signDays \cup {clock[c]}
    /\ Goto(c, "countDay")
    /\ UNCHANGED <<today, player, addup, claimed, giftRows, used, cache, clock, due, claim, history>>

CountDay(c) ==
    /\ pc[c] = "countDay"
    /\ addup' = addup + 1
    /\ Recorded(c)
    /\ UNCHANGED <<today, player, signDays, claimed, giftRows, used, cache, history>>

-----------------------------------------------------------------------------
(* Rewards.                                                                *)

\* on_sign_in_addup: enough days are signed,
ClaimMilestone(c, m) ==
    /\ Ready(c)
    /\ addup >= m
    /\ Begin(c, "findMilestone", <<"milestone", m>>)

\*    the bonus is not claimed yet,
FindMilestone(c) ==
    /\ pc[c] = "findMilestone"
    /\ IF claim[c] \in claimed
       THEN Return(c)
       ELSE Goto(c, "addMilestone") /\ UNCHANGED <<clock, due, claim>>
    /\ UNCHANGED <<today, dbVars, cache, history>>

\* Mutant of AddMilestone: INSERT OR IGNORE, and no look at its result.
AddMilestoneOrIgnore(c) ==
    /\ pc[c] = "addMilestone"
    /\ claimed' = claimed \cup {claim[c]}
    /\ Goto(c, "pay")
    /\ UNCHANGED <<today, player, signDays, addup, giftRows, used, cache, clock, due, claim, history>>

\*    and is claimed by an INSERT, which fails if another connection was first.
AddMilestone(c) ==
    /\ pc[c] = "addMilestone"
    /\ claim[c] \notin claimed
    /\ claimed' = claimed \cup {claim[c]}
    /\ Goto(c, "pay")
    /\ UNCHANGED <<today, player, signDays, addup, giftRows, used, cache, clock, due, claim, history>>

\* can_claim_month_card: a card is active, today is not claimed, and the cached
\* row says that the player logged in today.
ClaimCard(c) ==
    /\ Ready(c)
    /\ today <= CardUntil
    /\ Begin(c, "findCard", <<"card", today>>)

FindCard(c) ==
    /\ pc[c] = "findCard"
    /\ IF claim[c] \in claimed \/ cache[c].signInDay # clock[c]
       THEN Return(c)
       ELSE Goto(c, "addCard") /\ UNCHANGED <<clock, due, claim>>
    /\ UNCHANGED <<today, dbVars, cache, history>>

\* Mutant of AddCard: INSERT OR IGNORE, and its row count is not looked at.
AddCardOrIgnore(c) ==
    /\ pc[c] = "addCard"
    /\ claimed' = claimed \cup {claim[c]}
    /\ Goto(c, "pay")
    /\ UNCHANGED <<today, player, signDays, addup, giftRows, used, cache, clock, due, claim, history>>

\* INSERT OR IGNORE, and its row count decides.
AddCard(c) ==
    /\ pc[c] = "addCard"
    /\ IF claim[c] \in claimed
       THEN Return(c) /\ UNCHANGED claimed
       ELSE /\ claimed' = claimed \cup {claim[c]}
            /\ Goto(c, "pay")
            /\ UNCHANGED <<clock, due, claim>>
    /\ UNCHANGED <<today, player, signDays, addup, giftRows, used, cache, history>>

\* Mutant of ClaimGift: claims without asking whether the gift is claimed.
ClaimGiftAgain(c, g) ==
    /\ Ready(c)
    /\ paid[<<"gift", g>>] < MaxPaid
    /\ Begin(c, "claimGift", <<"gift", g>>)

\* on_get101_bonus: the gift is not claimed yet,
ClaimGift(c, g) ==
    /\ Ready(c)
    /\ <<"gift", g>> \notin claimed
    /\ paid[<<"gift", g>>] < MaxPaid
    /\ Begin(c, "claimGift", <<"gift", g>>)

\*    its row is claimed, if there is one and nobody was first; the handler does
\*    not look at the answer,
MarkGift(c) ==
    /\ pc[c] = "claimGift"
    /\ claimed' = IF claim[c][2] \in giftRows THEN claimed \cup {claim[c]} ELSE claimed
    /\ Goto(c, "saveGift")
    /\ UNCHANGED <<today, player, signDays, addup, giftRows, used, cache, clock, due, claim, history>>

\*    and the cached row is stored.
SaveGift(c) ==
    /\ pc[c] = "saveGift"
    /\ Save(cache[c])
    /\ Goto(c, "pay")
    /\ UNCHANGED <<today, signDays, addup, claimed, giftRows, used, cache, clock, due, claim, history>>

\* The grant.  The handler of the month card stores its cached row afterwards.
Pay(c) ==
    /\ pc[c] = "pay"
    /\ paid' = [paid EXCEPT ![claim[c]] = @ + 1]
    /\ IF claim[c] \in CardReward
       THEN Goto(c, "saveCard") /\ UNCHANGED <<clock, due, claim>>
       ELSE Return(c)
    /\ UNCHANGED <<today, dbVars, cache, wiped, entered, logins, overlapped, straddled, offered>>

SaveCard(c) ==
    /\ pc[c] = "saveCard"
    /\ Save(cache[c])
    /\ Return(c)
    /\ UNCHANGED <<today, signDays, addup, claimed, giftRows, used, cache, history>>

-----------------------------------------------------------------------------
(* Everything else.                                                        *)

\* on_get_assist_bonus: once a day it stores the cached row, marked.
StatePush(c) ==
    /\ Ready(c)
    /\ cache[c].statePush # today
    /\ cache' = [cache EXCEPT ![c].statePush = today]
    /\ Save([cache[c] EXCEPT !.statePush = today])
    /\ UNCHANGED <<today, signDays, addup, claimed, giftRows, used, pc, clock, due, claim, history>>

\* A request counts against a limit: a dungeon pass or a touch per day, goods per
\* week or month.
Use(c, p) ==
    /\ Ready(c)
    /\ used[p] = Never
    /\ used' = [used EXCEPT ![p] = today]
    /\ UNCHANGED <<today, player, signDays, addup, claimed, giftRows, connVars, history>>

\* The connection ends, because the client leaves or a statement of its handler
\* fails; its cached row is stored, unless that fails too.
Close(c) ==
    /\ pc[c] # "offline"
    /\ \/ cache[c] # None /\ Save(cache[c])
       \/ UNCHANGED player
    /\ pc' = [pc EXCEPT ![c] = "offline"]
    /\ cache' = [cache EXCEPT ![c] = None]
    /\ clock' = [clock EXCEPT ![c] = Never]
    /\ due' = [due EXCEPT ![c] = {}]
    /\ claim' = [claim EXCEPT ![c] = None]
    /\ entered' = [entered EXCEPT ![c] = Never]
    /\ UNCHANGED <<today, signDays, addup, claimed, giftRows, used, paid, wiped, logins, overlapped, straddled, offered>>

\* The process stops.
Crash ==
    /\ pc' = [c \in Conn |-> "offline"]
    /\ cache' = [c \in Conn |-> None]
    /\ clock' = [c \in Conn |-> Never]
    /\ due' = [c \in Conn |-> {}]
    /\ claim' = [c \in Conn |-> None]
    /\ entered' = [c \in Conn |-> Never]
    /\ UNCHANGED <<today, dbVars, paid, wiped, logins, overlapped, straddled, offered>>

NextDay ==
    /\ today < MaxDay
    /\ today' = today + 1
    /\ UNCHANGED <<dbVars, connVars, history>>

ServeLogin(c) ==
    \/ Login(c) \/ LoadState(c) \/ CreateState(c) \/ ReadClock(c) \/ CheckDue(c)
    \/ WipeDays(c) \/ WipeCards(c) \/ WipeMilestones(c)
    \/ ResetMonth(c) \/ ResetWeek(c) \/ ResetDay(c)
    \/ MarkSignIn(c) \/ SaveLogin(c)
    \/ FindDay(c) \/ AddDay(c) \/ CountDay(c)

ServeReward(c) ==
    \/ "milestone" \in offered /\ \E m \in Milestone : ClaimMilestone(c, m)
    \/ FindMilestone(c) \/ AddMilestone(c)
    \/ ("card" \in offered /\ ClaimCard(c)) \/ FindCard(c) \/ AddCard(c) \/ SaveCard(c)
    \/ "gift" \in offered /\ \E g \in Gift : ClaimGift(c, g)
    \/ MarkGift(c) \/ SaveGift(c) \/ Pay(c)

Next ==
    \/ \E c \in Conn :
          \/ ServeLogin(c) \/ ServeReward(c)
          \/ SignIn(c) \/ StatePush(c) \/ Close(c)
          \/ "goods" \in offered /\ \E p \in Limited : Use(c, p)
    \/ NextDay
    \/ Crash

Spec == Init /\ [][Next]_vars

-----------------------------------------------------------------------------
(* Properties.                                                             *)

\* The claims of r that have passed their check and are still to be paid.
Paying(r, stages) == Cardinality({c \in Conn : claim[c] = r /\ pc[c] \in stages})

\* A milestone, and a day's month card, is paid at most once between two
\* deletions of its claim, however connections race between the check, the
\* INSERT and the grant, and wherever they fail.  With one connection at a time
\* a day's card is paid once for good: no login of a day on which the card was
\* paid finds a new month, which would delete its claim, whatever fails or stops.
PaidOncePerClaim ==
    /\ \A r \in MonthlyReward :
          paid[r] + Paying(r, {"pay"}) <= wiped[r] + (IF r \in claimed THEN 1 ELSE 0)
    /\ ~overlapped => \A r \in CardReward : paid[r] <= 1

\* Once a gift's row says claimed, only the handlers that had already asked can
\* still pay it.
Unsettled(r) == paid[r] + Paying(r, {"claimGift", "saveGift", "pay"})

ClaimedGiftsSettle ==
    [][\A r \in GiftReward : r \in claimed => Unsettled(r)' <= Unsettled(r)]_vars

\* To a client that talks to the server over one connection at a time, the
\* sign-in count never exceeds the recorded days it is shown with, though days,
\* claims and count are reset statement by statement and may stop half-way.
AddupCountsDays ==
    ~overlapped => \A c \in Conn : Ready(c) => addup <= Cardinality(signDays)

\* With one connection at a time the cached row is the stored one whenever a
\* request starts, so writing it back loses nothing.
CacheIsStored ==
    /\ TypeOK
    /\ ~overlapped => \A c \in Conn : Ready(c) => player = cache[c]

\* To a client that talks over one connection at a time, a login leaves no
\* counter of a week or a month from before the one it fell in, though it
\* resets table by table and may fail after each, unless some login crossed
\* the start of a day: it checks with one reading of the clock what is due,
\* and stores another as the time of the last login.
ShopResets ==
    ~overlapped /\ ~straddled => \A c \in Conn : Ready(c) =>
        /\ used["week"] = Never \/ Week[used["week"]] >= Week[entered[c]]
        /\ used["month"] = Never \/ Month[used["month"]] >= Month[entered[c]]

\* "users no longer get double rewards": a gift of activity 101 is paid once.
SignRewardPaidOnce == \A r \in GiftReward : paid[r] <= 1
=============================================================================
