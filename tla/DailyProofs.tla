----------------------------- MODULE DailyProofs -----------------------------
(***************************************************************************)
(* Theorems about module Daily, for any calendar, any number of connections *)
(* and of logins, and any gifts and milestones.                             *)
(*                                                                         *)
(* The argument has three parts.  The statement a connection executes next  *)
(* says what its handler holds (Holding).  Whatever connections do, a       *)
(* reward that was paid, or is about to be, was claimed since its claim was *)
(* last deleted (PaidFor).  And while only one connection is open, what is  *)
(* stored agrees with the row of player_state, with every copy of that row  *)
(* that may still be written back, and with the place the open connection   *)
(* has reached (Alone, Rows, InStep).                                       *)
(***************************************************************************)
EXTENDS Daily, FiniteSetTheorems, TLAPS

-----------------------------------------------------------------------------
(* The stages of a handler. *)

Loading == {"load", "create"}
Checking == {"readDay", "check"}
Wiping == {"wipeDays", "wipeCards", "wipeMilestones", "resetMonth"}
Recording == {"findDay", "addDay", "countDay"}
Resetting == {"resetWeek", "resetDay", "markSignIn"}
Again == {"againDay", "againWeek", "againMonth"}
Ending == Again \cup {"readClock", "saveLogin"}
ForMilestone == {"findMilestone", "addMilestone"}
ForCard == {"findCard", "addCard", "saveCard"}
ForGift == {"claimGift", "saveGift"}
Claiming == ForMilestone \cup ForCard \cup ForGift \cup {"pay"}

\* c is in a login that has found out what is due.
InLogin(c) ==
    \/ pc[c] \in Wiping \cup Resetting \cup Ending
    \/ pc[c] \in Recording /\ "day" \in due[c]

\* c is logged in, and idle or serving another request than a login.
InGame(c) ==
    \/ pc[c] \in Claiming \cup {"idle"}
    \/ pc[c] \in Recording /\ "day" \notin due[c]

-----------------------------------------------------------------------------
(* What a handler holds at each statement. *)

Holding(c) ==
    /\ pc[c] = "offline" => cache[c] = None
    /\ pc[c] \notin {"offline"} \cup Loading => cache[c] \in PlayerState
    /\ pc[c] \notin {"offline", "idle"} => clock[c] \in Day
    /\ clock[c] <= today
    /\ entered[c] <= today
    /\ pc[c] \notin Wiping \cup Resetting \cup Recording \cup Ending => due[c] = {}
    /\ pc[c] \in Wiping => "month" \in due[c]
    /\ pc[c] \in ForMilestone => claim[c] \in MilestoneReward
    /\ pc[c] \in ForCard => claim[c] \in CardReward
    /\ pc[c] \in ForGift => claim[c] \in GiftReward
    /\ pc[c] = "pay" => claim[c] \in Reward

Types == TypeOK /\ \A c \in Conn : Holding(c)

\* The part of TypeOK about the connections, and the rest.
ConnTypes ==
    /\ pc \in [Conn -> Stage]
    /\ cache \in [Conn -> PlayerState \cup {None}]
    /\ clock \in [Conn -> {Never} \cup Day]
    /\ due \in [Conn -> SUBSET Period]
    /\ claim \in [Conn -> Reward \cup {None}]
    /\ entered \in [Conn -> {Never} \cup Day]
    /\ \A c \in Conn : Holding(c)

StoreTypes ==
    /\ today \in Day
    /\ player \in PlayerState \cup {None}
    /\ signDays \subseteq Day
    /\ addup \in Nat
    /\ claimed \subseteq Reward
    /\ giftRows \subseteq Gift
    /\ used \in [Period -> {Never} \cup Day]
    /\ paid \in [Reward -> Nat]
    /\ wiped \in [MonthlyReward -> Nat]
    /\ logins \in Nat
    /\ overlapped \in BOOLEAN /\ straddled \in BOOLEAN

-----------------------------------------------------------------------------
(* Rewards and their claims. *)

PaidFor(r) == paid[r] + Paying(r, {"pay"}) <= wiped[r] + (IF r \in claimed THEN 1 ELSE 0)

-----------------------------------------------------------------------------
(* What is stored, while only one connection is open. *)

\* At most one connection is open.
Alone == \A c, d \in Conn : pc[c] # "offline" /\ pc[d] # "offline" => c = d

Card(d) == <<"card", d>>

\* The counters of period p are from the day's week or month, or later.
Kept(p, day) ==
    used[p] = Never \/ (IF p = "week" THEN Week[used[p]] >= Week[day] ELSE Month[used[p]] >= Month[day])

\* The sign-in count is right, or day is from before the month of now, so that
\* the next login resets it.
Counted == addup <= Cardinality(signDays)
Outdated(day, now) == day = Never \/ Month[day] < Month[now]

\* What holds of the row of player_state, and of a copy that may replace it.
RowSound(row) ==
    /\ row.signIn <= today
    /\ row.signInDay <= today
    /\ \A d \in Day : Card(d) \in claimed => d <= row.signIn
    /\ Counted \/ Outdated(row.signIn, today)
    /\ ~straddled => row.signIn = Never \/ (Kept("week", row.signIn) /\ Kept("month", row.signIn))

\* An account without the row has done nothing yet.
Untouched ==
    /\ addup = 0
    /\ signDays = {}
    /\ \A d \in Day : Card(d) \notin claimed
    /\ \A p \in Period : used[p] = Never

Rows ==
    /\ \A row \in PlayerState : row = player \/ (\E c \in Conn : row = cache[c]) => RowSound(row)
    /\ player = None => Untouched

\* The claim of a card is deleted on a later day, if at all.
CardsOnce ==
    \A d \in Day :
        /\ wiped[Card(d)] + (IF Card(d) \in claimed THEN 1 ELSE 0) <= 1
        /\ wiped[Card(d)] > 0 => d < today

\* In a login, the count and the counters are right once they have been reset.
LoginStep(c) ==
    /\ cache[c].signIn <= clock[c]
    /\ IF pc[c] \in Wiping THEN Outdated(cache[c].signIn, clock[c]) ELSE Counted
    /\ ~straddled =>
         /\ entered[c] = clock[c]
         /\ pc[c] \in Wiping \/ Kept("month", clock[c])
         /\ (pc[c] \in Wiping \cup {"resetWeek"} /\ "week" \in due[c]) \/ Kept("week", clock[c])

\* After it they still are.
GameStep(c) ==
    /\ Counted
    /\ cache[c].signInDay <= cache[c].signIn
    /\ ~straddled => entered[c] \in Day /\ Kept("month", entered[c]) /\ Kept("week", entered[c])

\* What holds at each statement of the connection that is open.
InStep(c) ==
    /\ pc[c] = "create" => player = None
    /\ pc[c] \notin {"offline"} \cup Loading \cup Ending => player = cache[c]
    /\ pc[c] = "check" => /\ cache[c].signIn <= clock[c]
                          /\ Counted \/ Outdated(cache[c].signIn, clock[c])
    /\ InLogin(c) => LoginStep(c)
    /\ InGame(c) => GameStep(c)
    /\ pc[c] = "addDay" => clock[c] \notin signDays
    /\ pc[c] = "countDay" => addup < Cardinality(signDays)
    /\ pc[c] = "saveLogin" => cache[c].signInDay <= clock[c]
    /\ pc[c] \in {"findCard", "addCard"} => claim[c] = Card(clock[c]) /\ wiped[claim[c]] = 0
    /\ pc[c] = "addCard" => cache[c].signInDay = clock[c]

Orderly == Alone /\ Rows /\ CardsOnce /\ \A c \in Conn : InStep(c)

AllPaidFor == \A r \in MonthlyReward : PaidFor(r)

IInv ==
    /\ Types
    /\ AllPaidFor
    /\ ~overlapped => Orderly

-----------------------------------------------------------------------------
(* The plan of a login. *)

LEMMA PlanSteps ==
    /\ DOMAIN LoginPlan = 1..13
    /\ LoginPlan[1] = <<"wipeDays", "month">> /\ LoginPlan[2] = <<"wipeCards", "month">>
    /\ LoginPlan[3] = <<"wipeMilestones", "month">> /\ LoginPlan[4] = <<"resetMonth", "month">>
    /\ LoginPlan[5] = <<"resetWeek", "week">> /\ LoginPlan[6] = <<"findDay", "day">>
    /\ LoginPlan[7] = <<"resetDay", "day">> /\ LoginPlan[8] = <<"markSignIn", "always">>
    /\ LoginPlan[9] = <<"againDay", "day">> /\ LoginPlan[10] = <<"againWeek", "week">>
    /\ LoginPlan[11] = <<"againMonth", "month">> /\ LoginPlan[12] = <<"readClock", "always">>
    /\ LoginPlan[13] = <<"saveLogin", "always">>
  BY DEF LoginPlan

\* Every stage is there once.
LEMMA PlanOnce ==
    ASSUME NEW i \in 1..13, NEW j \in 1..13, LoginPlan[i][1] = LoginPlan[j][1] PROVE i = j
  BY PlanSteps

\* The next statement is the first that is due after this one.
LEMMA FollowAt ==
    ASSUME NEW k \in 1..12, NEW j \in 1..13, j > k, NEW periods,
           LoginPlan[j][2] \in periods \cup {"always"},
           \A i \in 1..13 : k < i /\ i < j => LoginPlan[i][2] \notin periods \cup {"always"}
    PROVE  Follow(LoginPlan[k][1], periods) = LoginPlan[j][1]
<1> DEFINE stage == LoginPlan[k][1]
           here == CHOOSE i \in DOMAIN LoginPlan : LoginPlan[i][1] = stage
           left == {i \in DOMAIN LoginPlan :
                       i > here /\ LoginPlan[i][2] \in periods \cup {"always"}}
<1>1. DOMAIN LoginPlan = 1..13
  BY PlanSteps
<1>2. here = k
  BY <1>1, PlanOnce
<1>3. j \in left /\ \A i \in left : j <= i
  <2> HIDE DEF here
  <2>1. \A i : i \in left <=> i \in 1..13 /\ i > k /\ LoginPlan[i][2] \in periods \cup {"always"}
    BY <1>1, <1>2
  <2> QED
    BY <2>1
<1>4. Min(left) = j
  <2> HIDE DEF left
  <2>1. left \subseteq Int
    BY <1>1 DEF left
  <2>2. \A x \in left : (\A y \in left : x <= y) <=> x = j
    BY <1>3, <2>1
  <2>3. (CHOOSE x \in left : \A y \in left : x <= y) = j
    BY <1>3, <2>2
  <2> QED
    BY <2>3, Zenon DEF Min
<1>5. Follow(stage, periods) = LoginPlan[Min(left)][1]
  BY Zenon DEF Follow
<1> QED
  BY <1>4, <1>5

\* When each of them is due.
PlanKind(i) ==
    IF i \in 1..4 \cup {11} THEN "month" ELSE IF i \in {5, 10} THEN "week"
    ELSE IF i \in {6, 7, 9} THEN "day" ELSE "always"

LEMMA PlanKinds == ASSUME NEW i \in 1..13 PROVE LoginPlan[i][2] = PlanKind(i)
  BY PlanSteps DEF PlanKind

\* The next statement, from the kinds of those between.
LEMMA FollowKinds ==
    ASSUME NEW D \in SUBSET Period, NEW k \in 1..12, NEW j \in 1..13, j > k,
           PlanKind(j) \in D \cup {"always"},
           \A i \in 1..13 : k < i /\ i < j => PlanKind(i) \notin D \cup {"always"}
    PROVE  Follow(LoginPlan[k][1], D) = LoginPlan[j][1]
<1>1. LoginPlan[j][2] \in D \cup {"always"}
  BY PlanKinds
<1>2. \A i \in 1..13 : k < i /\ i < j => LoginPlan[i][2] \notin D \cup {"always"}
  BY PlanKinds
<1> QED
  BY <1>1, <1>2, FollowAt

\* What follows each statement of a login.
LEMMA Plan ==
    ASSUME NEW D \in SUBSET Period
    PROVE  LET rest == IF "day" \in D THEN "findDay" ELSE "markSignIn"
           IN  /\ "month" \in D =>
                    /\ Follow("wipeDays", D) = "wipeCards"
                    /\ Follow("wipeCards", D) = "wipeMilestones"
                    /\ Follow("wipeMilestones", D) = "resetMonth"
               /\ "month" \notin D =>
                    Follow("wipeDays", D) = IF "week" \in D THEN "resetWeek" ELSE rest
               /\ Follow("resetMonth", D) = IF "week" \in D THEN "resetWeek" ELSE rest
               /\ Follow("resetWeek", D) = rest
               /\ "day" \in D => Follow("findDay", D) = "resetDay"
               /\ Follow("resetDay", D) = "markSignIn"
               /\ \A s \in {"markSignIn"} \cup Again : Follow(s, D) \in Again \cup {"readClock"}
<1>0. "always" \notin D
  BY DEF Period
<1>1. "month" \in D => /\ Follow("wipeDays", D) = "wipeCards"
                       /\ Follow("wipeCards", D) = "wipeMilestones"
                       /\ Follow("wipeMilestones", D) = "resetMonth"
  <2> SUFFICES ASSUME "month" \in D
               PROVE  /\ Follow(LoginPlan[1][1], D) = LoginPlan[2][1]
                      /\ Follow(LoginPlan[2][1], D) = LoginPlan[3][1]
                      /\ Follow(LoginPlan[3][1], D) = LoginPlan[4][1]
    BY PlanSteps
  <2>1. Follow(LoginPlan[1][1], D) = LoginPlan[2][1]
    BY FollowKinds DEF PlanKind
  <2>2. Follow(LoginPlan[2][1], D) = LoginPlan[3][1]
    BY FollowKinds DEF PlanKind
  <2>3. Follow(LoginPlan[3][1], D) = LoginPlan[4][1]
    BY FollowKinds DEF PlanKind
  <2> QED
    BY <2>1, <2>2, <2>3
<1>2. ASSUME NEW k \in 1..4, k = 4 \/ "month" \notin D, "week" \in D
      PROVE  Follow(LoginPlan[k][1], D) = LoginPlan[5][1]
  BY <1>2, FollowKinds DEF PlanKind
<1>3. ASSUME NEW k \in 1..5, k > 3 \/ "month" \notin D, k > 4 \/ "week" \notin D, "day" \in D
      PROVE  Follow(LoginPlan[k][1], D) = LoginPlan[6][1]
  BY <1>3, FollowKinds DEF PlanKind
<1>4. Follow(LoginPlan[6][1], D) = LoginPlan[7][1] \/ "day" \notin D
  BY FollowKinds DEF PlanKind
<1>5. ASSUME NEW k \in 1..7, k > 3 \/ "month" \notin D, k > 4 \/ "week" \notin D,
             k = 7 \/ "day" \notin D
      PROVE  Follow(LoginPlan[k][1], D) = LoginPlan[8][1]
  BY <1>0, <1>5, FollowKinds DEF PlanKind
<1>6. ASSUME NEW k \in 8..11
      PROVE  Follow(LoginPlan[k][1], D) \in Again \cup {"readClock"}
  <2>1. CASE k < 9 /\ "day" \in D
    BY <2>1, FollowKinds, PlanSteps DEF PlanKind, Again
  <2>2. CASE k < 10 /\ "week" \in D /\ ~(k < 9 /\ "day" \in D)
    BY <2>2, FollowKinds, PlanSteps DEF PlanKind, Again
  <2>3. CASE k < 11 /\ "month" \in D /\ ~(k < 9 /\ "day" \in D) /\ ~(k < 10 /\ "week" \in D)
    BY <2>3, FollowKinds, PlanSteps DEF PlanKind, Again
  <2>4. CASE ~(k < 9 /\ "day" \in D) /\ ~(k < 10 /\ "week" \in D) /\ ~(k < 11 /\ "month" \in D)
    BY <1>0, <2>4, FollowKinds, PlanSteps DEF PlanKind, Again
  <2> QED
    BY <2>1, <2>2, <2>3, <2>4
<1> DEFINE rest == IF "day" \in D THEN "findDay" ELSE "markSignIn"
<1> USE PlanSteps
<1>7. "month" \notin D => Follow("wipeDays", D) = IF "week" \in D THEN "resetWeek" ELSE rest
  BY <1>2, <1>3, <1>5
<1>8. Follow("resetMonth", D) = IF "week" \in D THEN "resetWeek" ELSE rest
  BY <1>2, <1>3, <1>5
<1>9. Follow("resetWeek", D) = rest
  BY <1>3, <1>5
<1>10. Follow("resetDay", D) = "markSignIn"
  BY <1>5
<1>11. \A s \in {"markSignIn"} \cup Again : Follow(s, D) \in Again \cup {"readClock"}
  BY <1>6 DEF Again
<1> QED
  BY <1>1, <1>4, <1>7, <1>8, <1>9, <1>10, <1>11

-----------------------------------------------------------------------------
(* Types. *)

LEMMA Days == (\A d \in Day : d \in Nat /\ d # Never) /\ 1 \in Day /\ Never = 0
  BY DailyAssumption DEF Day, Never

LEMMA Rewards ==
    /\ MilestoneReward \subseteq MonthlyReward /\ CardReward \subseteq MonthlyReward
    /\ MonthlyReward \subseteq Reward /\ GiftReward \subseteq Reward
    /\ \A r \in GiftReward : r \notin MonthlyReward /\ r[2] \in Gift
    /\ \A r \in MonthlyReward : r \in CardReward <=> r[1] = "card"
    /\ \A d \in Day : Card(d) \in CardReward
    /\ \A m \in Milestone : <<"milestone", m>> \in MilestoneReward
    /\ \A g \in Gift : <<"gift", g>> \in GiftReward
  BY DEF MilestoneReward, CardReward, MonthlyReward, GiftReward, Reward, Card

LEMMA Stages ==
    Stage = {"offline", "idle"} \cup Loading \cup Checking \cup Wiping \cup Recording
              \cup Resetting \cup Ending \cup Claiming
<1> DEFINE planned == Wiping \cup Resetting \cup Ending \cup {"findDay"}
<1>1. \A i \in 1..13 : LoginPlan[i][1] \in planned
  BY PlanSteps DEF Wiping, Resetting, Ending, Again
<1>2. \A s \in planned : \E i \in 1..13 : LoginPlan[i][1] = s
  BY PlanSteps DEF Wiping, Resetting, Ending, Again
<1>3. {LoginPlan[i][1] : i \in DOMAIN LoginPlan} = planned
  BY <1>1, <1>2, PlanSteps
<1> QED
  BY <1>3 DEF Stage, Loading, Checking, Wiping, Recording, Resetting, Ending, Again, Claiming,
              ForMilestone, ForCard, ForGift

LEMMA TypeParts ==
    /\ Types <=> StoreTypes /\ ConnTypes
    /\ Types' <=> StoreTypes' /\ ConnTypes'
  BY DEF Types, TypeOK, StoreTypes, ConnTypes

LEMMA TypesAtStart == Init => Types
<1> SUFFICES ASSUME Init PROVE Types
  OBVIOUS
<1>1. player \in PlayerState \cup {None}
  BY Days DEF Init, PlayerState, CreatedState
<1>2. giftRows \subseteq Gift
  BY DailyAssumption DEF Init
<1>3. StoreTypes
  BY <1>1, <1>2, Days DEF Init, StoreTypes
<1>4. \A c \in Conn : Holding(c)
  BY Days DEF Init, Holding, Loading, Wiping, Resetting, Recording, Ending, Again,
              ForMilestone, ForCard, ForGift
<1>5. ConnTypes
  BY <1>4, Days, Stages DEF Init, ConnTypes
<1> QED
  BY <1>3, <1>5, TypeParts

\* Nothing but c's handler moves.
OnlyMoves(c) ==
    /\ today' = today
    /\ \A d \in Conn \ {c} :
         /\ pc'[d] = pc[d] /\ cache'[d] = cache[d] /\ clock'[d] = clock[d]
         /\ due'[d] = due[d] /\ claim'[d] = claim[d] /\ entered'[d] = entered[d]

LEMMA OthersHold ==
    ASSUME ConnTypes, NEW c \in Conn, OnlyMoves(c), Holding(c)'
    PROVE  \A d \in Conn : Holding(d)'
<1>1. ASSUME NEW d \in Conn \ {c} PROVE Holding(d)'
  BY DEF ConnTypes, OnlyMoves, Holding
<1> QED
  BY <1>1

\* A step that changes nothing but the statement.
LEMMA AfterGoto ==
    ASSUME ConnTypes, NEW c \in Conn, NEW stage \in Stage, Goto(c, stage),
           UNCHANGED <<today, cache, clock, due, claim, entered>>, Holding(c)'
    PROVE  ConnTypes' /\ OnlyMoves(c) /\ pc'[c] = stage
<1>1. OnlyMoves(c) /\ pc'[c] = stage
  BY DEF OnlyMoves, Goto, ConnTypes
<1> QED
  BY <1>1, OthersHold DEF ConnTypes, Goto

\* A statement of a login that is followed by the next one.
LEMMA AfterProceed ==
    ASSUME ConnTypes, NEW c \in Conn, Proceed(c),
           pc[c] \in Wiping \cup Resetting \cup Again,
           UNCHANGED <<today, cache, clock, due, claim, entered>>
    PROVE  /\ ConnTypes' /\ OnlyMoves(c) /\ pc'[c] = Follow(pc[c], due[c])
           /\ pc'[c] \in Wiping \cup Resetting \cup Again \cup {"findDay", "readClock"}
<1> DEFINE stage == Follow(pc[c], due[c])
<1>0. Holding(c) /\ due[c] \in SUBSET Period
  BY DEF ConnTypes
<1>1. /\ stage \in Wiping \cup Resetting \cup Again \cup {"findDay", "readClock"}
      /\ stage \in Wiping => "month" \in due[c]
  BY <1>0, Plan DEF Holding, Wiping, Resetting, Again
<1>2. pc'[c] = stage
  BY DEF Proceed, Goto, ConnTypes
<1> HIDE DEF stage
<1>3. Holding(c)'
  BY <1>0, <1>1, <1>2 DEF Holding, Loading, Wiping, Resetting, Recording, Ending, Again,
                          ForMilestone, ForCard, ForGift
<1>4. stage \in Stage
  BY <1>1, Stages DEF Recording, Ending
<1> QED
  BY <1>1, <1>2, <1>3, <1>4, AfterGoto DEF Proceed, stage

\* The end of a handler.
LEMMA AfterReturn ==
    ASSUME Types, NEW c \in Conn, Return(c), UNCHANGED <<today, entered>>,
           NEW row \in PlayerState, cache' = [cache EXCEPT ![c] = row]
    PROVE  /\ ConnTypes' /\ OnlyMoves(c)
           /\ pc'[c] = "idle" /\ cache'[c] = row /\ due'[c] = {} /\ claim'[c] = None
<1> ConnTypes /\ today \in Day
  BY TypeParts DEF StoreTypes
<1>1. /\ pc'[c] = "idle" /\ cache'[c] = row /\ clock'[c] = Never /\ due'[c] = {}
      /\ claim'[c] = None /\ entered'[c] = entered[c]
  BY DEF Return, Goto, ConnTypes
<1>2. OnlyMoves(c)
  BY DEF OnlyMoves, Return, Goto, ConnTypes
<1>3. Holding(c) /\ entered[c] <= today /\ Never <= today
  BY Days DEF ConnTypes, Holding
<1>4. Holding(c)'
  BY <1>1, <1>2, <1>3, Days DEF Holding, OnlyMoves, Loading, Wiping, Resetting, Recording, Ending, Again,
                          ForMilestone, ForCard, ForGift
<1> QED
  BY <1>1, <1>2, <1>4, OthersHold, Stages DEF ConnTypes, Return, Goto

\* The start of a request.
LEMMA AfterBegin ==
    ASSUME Types, NEW c \in Conn, Ready(c),
           NEW stage \in Recording \cup Claiming, NEW reward \in Reward \cup {None},
           Begin(c, stage, reward),
           stage \in ForMilestone => reward \in MilestoneReward,
           stage \in ForCard => reward \in CardReward,
           stage \in ForGift => reward \in GiftReward,
           stage # "pay"
    PROVE  /\ ConnTypes' /\ OnlyMoves(c) /\ due[c] = {}
           /\ pc'[c] = stage /\ clock'[c] = today /\ claim'[c] = reward
           /\ UNCHANGED <<cache, due, entered>>
<1>1. /\ pc'[c] = stage /\ clock'[c] = today /\ claim'[c] = reward
      /\ UNCHANGED <<cache, due, entered, today>>
  BY DEF Types, TypeOK, Begin, Goto, history
<1>2. OnlyMoves(c)
  BY DEF OnlyMoves, Begin, Goto, history, Types, TypeOK
<1>3. Holding(c) /\ today \in Day /\ today <= today /\ pc[c] = "idle"
  BY Days DEF Types, TypeOK, Ready
<1>4. Holding(c)'
  BY <1>1, <1>2, <1>3 DEF Holding, Loading, Wiping, Resetting, Recording, Ending, Again,
                          Claiming, ForMilestone, ForCard, ForGift
<1>5. due[c] = {}
  BY <1>3 DEF Holding, Wiping, Resetting, Recording, Ending, Again
<1>6. ConnTypes'
  <2>1. stage \in Stage
    BY Stages
  <2> QED
    BY <1>1, <1>2, <1>3, <1>4, <2>1, TypeParts, OthersHold DEF ConnTypes, Begin, Goto
<1> QED
  BY <1>1, <1>2, <1>5, <1>6

-----------------------------------------------------------------------------
(* Every step keeps the types. *)

LEMMA TypesLogin == ASSUME Types, NEW c \in Conn, Login(c) PROVE Types' /\ OnlyMoves(c)
<1>1. /\ pc'[c] = "load" /\ clock'[c] = today /\ today \in Day /\ today <= today
      /\ UNCHANGED <<today, cache, due, claim, entered>>
  BY Days DEF Login, Goto, Types, TypeOK, dbVars
<1>2. OnlyMoves(c)
  BY DEF OnlyMoves, Login, Goto, Types, TypeOK
<1>3. Holding(c)'
  BY <1>1 DEF Types, Login, Holding, Loading, Wiping, Resetting, Recording, Ending, Again,
              ForMilestone, ForCard, ForGift
<1>4. ConnTypes'
  BY <1>1, <1>2, <1>3, OthersHold, Stages, TypeParts DEF ConnTypes, Login, Goto, Loading
<1>5. StoreTypes'
  BY TypeParts DEF StoreTypes, Login, dbVars
<1> QED
  BY <1>2, <1>4, <1>5, TypeParts

LEMMA TypesLoadState == ASSUME Types, NEW c \in Conn, LoadState(c) PROVE Types' /\ OnlyMoves(c)
<1>1. /\ pc'[c] \in {"create", "readDay"} /\ cache'[c] \in PlayerState \cup {None}
      /\ pc'[c] = "readDay" => cache'[c] \in PlayerState
      /\ UNCHANGED <<today, clock, due, claim, entered>>
  BY DEF LoadState, Goto, Types, TypeOK, history
<1>2. OnlyMoves(c)
  BY DEF OnlyMoves, LoadState, Goto, Types, TypeOK, history
<1>3. Holding(c)'
  BY <1>1 DEF Types, LoadState, Holding, Loading, Wiping, Resetting, Recording, Ending, Again,
              ForMilestone, ForCard, ForGift
<1>4. ConnTypes'
  BY <1>1, <1>2, <1>3, OthersHold, Stages, TypeParts DEF ConnTypes, LoadState, Goto, Loading, Checking, StoreTypes
<1>5. StoreTypes'
  BY TypeParts DEF StoreTypes, LoadState, dbVars, history
<1> QED
  BY <1>2, <1>4, <1>5, TypeParts

LEMMA NewRows ==
    /\ \A d \in Day : NewState(d) \in PlayerState
    /\ \A row \in PlayerState, d \in Day :
         /\ LoggedIn(row, d) \in PlayerState
         /\ [row EXCEPT !.signIn = d] \in PlayerState
         /\ [row EXCEPT !.statePush = d] \in PlayerState
<1>1. ASSUME NEW d \in Day PROVE NewState(d) \in PlayerState
  BY Days DEF PlayerState, NewState, CreatedState
<1>2. ASSUME NEW row \in PlayerState, NEW d \in Day PROVE LoggedIn(row, d) \in PlayerState
  BY DEF PlayerState, LoggedIn
<1>3. ASSUME NEW row \in PlayerState, NEW d \in Day
      PROVE  [row EXCEPT !.signIn = d] \in PlayerState /\ [row EXCEPT !.statePush = d] \in PlayerState
  BY DEF PlayerState
<1> QED
  BY <1>1, <1>2, <1>3

LEMMA TypesCreateState == ASSUME Types, NEW c \in Conn, CreateState(c) PROVE Types' /\ OnlyMoves(c)
<1>0. clock[c] \in Day
  BY DEF Types, Holding, CreateState
<1>1. /\ pc'[c] = "readDay" /\ cache'[c] \in PlayerState /\ player' \in PlayerState
      /\ UNCHANGED <<today, clock, due, claim, entered>>
  BY <1>0, NewRows DEF CreateState, Goto, Save, Types, TypeOK, history
<1>2. OnlyMoves(c)
  BY DEF OnlyMoves, CreateState, Goto, Types, TypeOK, history
<1>3. Holding(c)'
  BY <1>1 DEF Types, CreateState, Holding, Loading, Wiping, Resetting, Recording, Ending, Again,
              ForMilestone, ForCard, ForGift
<1>4. ConnTypes'
  BY <1>1, <1>2, <1>3, OthersHold, Stages, TypeParts DEF ConnTypes, CreateState, Goto, Checking
<1>5. StoreTypes'
  BY <1>1, TypeParts DEF StoreTypes, CreateState, history
<1> QED
  BY <1>2, <1>4, <1>5, TypeParts

LEMMA TypesReadClock == ASSUME Types, NEW c \in Conn, ReadClock(c) PROVE Types' /\ OnlyMoves(c)
<1>1. /\ pc'[c] \in {"check", "saveLogin"} /\ clock'[c] = today /\ today \in Day /\ today <= today
      /\ pc'[c] = "check" => pc[c] = "readDay"
      /\ UNCHANGED <<today, cache, due, claim, entered>>
  BY Days DEF ReadClock, Goto, Types, TypeOK
<1>2. OnlyMoves(c)
  BY DEF OnlyMoves, ReadClock, Goto, Types, TypeOK
<1>0. Holding(c) /\ pc[c] \in {"readDay", "readClock"}
  BY DEF Types, ReadClock
<1>3. Holding(c)'
  BY <1>0, <1>1 DEF Holding, Loading, Wiping, Resetting, Recording, Ending, Again,
              ForMilestone, ForCard, ForGift
<1>4. ConnTypes'
  BY <1>1, <1>2, <1>3, OthersHold, Stages, TypeParts DEF ConnTypes, ReadClock, Goto, Checking, Ending
<1>5. StoreTypes'
  BY TypeParts DEF StoreTypes, ReadClock, dbVars
<1> QED
  BY <1>2, <1>4, <1>5, TypeParts

LEMMA TypesCheckDue == ASSUME Types, NEW c \in Conn, CheckDue(c) PROVE Types' /\ OnlyMoves(c)
<1>0. Holding(c) /\ clock[c] \in Day /\ pc[c] = "check"
  BY DEF Types, Holding, CheckDue
<1>1. PICK over \in SUBSET Period :
        /\ due'[c] = over
        /\ pc'[c] = IF "month" \in over THEN "wipeDays" ELSE Follow("wipeDays", over)
  <2>1. \E over \in SUBSET Period :
          /\ due' = [due EXCEPT ![c] = over]
          /\ Goto(c, IF "month" \in over THEN "wipeDays" ELSE Follow("wipeDays", over))
    BY DEF CheckDue
  <2> QED
    BY <2>1 DEF Goto, Types, TypeOK
<1>2. /\ pc'[c] \in {"wipeDays", "resetWeek", "findDay", "markSignIn"}
      /\ pc'[c] = "wipeDays" => "month" \in due'[c]
  BY <1>1, Plan
<1>3. /\ entered'[c] = clock[c] /\ UNCHANGED <<today, cache, clock, claim>>
  BY DEF CheckDue, Types, TypeOK
<1>4. OnlyMoves(c)
  BY DEF OnlyMoves, CheckDue, Goto, Types, TypeOK
<1>5. Holding(c)'
  BY <1>0, <1>2, <1>3 DEF Holding, Loading, Wiping, Resetting, Recording, Ending, Again,
                          ForMilestone, ForCard, ForGift
<1>6. pc' \in [Conn -> Stage] /\ due' \in [Conn -> SUBSET Period]
  <2>1. pc'[c] \in Stage
    BY <1>2, Stages DEF Wiping, Resetting, Recording
  <2> QED
    BY <1>1, <2>1 DEF CheckDue, Goto, Types, TypeOK
<1>7. ConnTypes'
  BY <1>0, <1>4, <1>5, <1>6, OthersHold, TypeParts DEF ConnTypes, CheckDue
<1>8. StoreTypes'
  BY TypeParts DEF StoreTypes, CheckDue, dbVars
<1> QED
  BY <1>4, <1>7, <1>8, TypeParts

\* The statements of a login that go on to the next one that is due.
Advances(c) ==
    \/ WipeDays(c) \/ WipeCards(c) \/ WipeMilestones(c)
    \/ ResetMonth(c) \/ ResetWeek(c) \/ ResetDay(c) \/ MarkSignIn(c)

LEMMA TypesAdvances ==
    ASSUME Types, NEW c \in Conn, Advances(c)
    PROVE  /\ Types' /\ OnlyMoves(c) /\ pc'[c] = Follow(pc[c], due[c])
           /\ pc'[c] \in Wiping \cup Resetting \cup Again \cup {"findDay", "readClock"}
           /\ UNCHANGED <<cache, clock, due, claim, entered>>
<1>1. /\ Proceed(c) /\ pc[c] \in Wiping \cup Resetting \cup Again
      /\ UNCHANGED <<today, cache, clock, due, claim, entered>>
  BY DEF Advances, WipeDays, WipeCards, WipeMilestones, WipeClaims, ResetMonth, ResetWeek,
         ResetDay, ResetCounters, MarkSignIn, history, Wiping, Resetting, Again
<1>2. /\ ConnTypes' /\ OnlyMoves(c) /\ pc'[c] = Follow(pc[c], due[c])
      /\ pc'[c] \in Wiping \cup Resetting \cup Again \cup {"findDay", "readClock"}
  BY <1>1, AfterProceed, TypeParts
<1>3. StoreTypes'
  <2> USE TypeParts DEF StoreTypes, history
  <2>1. CASE WipeDays(c)
    BY <2>1 DEF WipeDays
  <2>2. ASSUME NEW kind, WipeClaims(c, kind) PROVE StoreTypes'
    BY <2>2 DEF WipeClaims
  <2>3. CASE ResetMonth(c)
    BY <2>3, Days DEF ResetMonth
  <2>4. ASSUME NEW p \in Period, ResetCounters(c, p) PROVE StoreTypes'
    BY <2>4, Days DEF ResetCounters
  <2>5. CASE MarkSignIn(c)
    <3>1. clock[c] \in Day /\ player \in PlayerState
      BY <2>5 DEF MarkSignIn, Types, TypeOK, Holding
    <3> QED
      BY <2>5, <3>1, NewRows DEF MarkSignIn, Save
  <2> QED
    BY <2>1, <2>2, <2>3, <2>4, <2>5
       DEF Advances, WipeCards, WipeMilestones, ResetWeek, ResetDay, Period
<1> QED
  BY <1>1, <1>2, <1>3, TypeParts

LEMMA TypesSaveLogin ==
    ASSUME Types, NEW c \in Conn, SaveLogin(c)
    PROVE  /\ Types' /\ OnlyMoves(c) /\ pc'[c] = "idle" /\ due'[c] = {} /\ claim'[c] = None
           /\ cache'[c] = LoggedIn(cache[c], clock[c])
<1> DEFINE row == LoggedIn(cache[c], clock[c])
<1>1. row \in PlayerState
  BY NewRows DEF SaveLogin, Types, Holding, Loading
<1>2. /\ ConnTypes' /\ OnlyMoves(c) /\ pc'[c] = "idle" /\ due'[c] = {} /\ claim'[c] = None
      /\ cache'[c] = row
  <2> HIDE DEF row
  <2>1. Return(c) /\ UNCHANGED <<today, entered>> /\ cache' = [cache EXCEPT ![c] = row]
    BY DEF SaveLogin, history, row
  <2> QED
    BY <1>1, <2>1, AfterReturn
<1>3. StoreTypes'
  BY <1>1, TypeParts DEF StoreTypes, SaveLogin, Save, history
<1> QED
  BY <1>2, <1>3, TypeParts

LEMMA AfterRecorded ==
    ASSUME Types, NEW c \in Conn, pc[c] \in {"findDay", "countDay"}, Recorded(c),
           UNCHANGED <<today, cache, entered>>
    PROVE  /\ ConnTypes' /\ OnlyMoves(c)
           /\ "day" \in due[c] => pc'[c] = "resetDay" /\ UNCHANGED <<clock, due, claim>>
           /\ "day" \notin due[c] => pc'[c] = "idle" /\ due'[c] = {} /\ claim'[c] = None
<1>0. Holding(c) /\ due[c] \in SUBSET Period /\ ConnTypes /\ cache[c] \in PlayerState
  BY TypeParts DEF Types, TypeOK, Holding, Loading
<1>1. CASE "day" \in due[c]
  <2>1. Goto(c, "resetDay") /\ UNCHANGED <<clock, due, claim>>
    BY <1>0, <1>1, Plan DEF Recorded
  <2>2. pc'[c] = "resetDay"
    BY <2>1 DEF Goto, Types, TypeOK
  <2>3. Holding(c)'
    BY <1>0, <2>1, <2>2 DEF Holding, Loading, Wiping, Resetting, Recording, Ending, Again,
                            ForMilestone, ForCard, ForGift
  <2>4. "resetDay" \in Stage
    BY Stages DEF Resetting
  <2> QED
    BY <1>0, <1>1, <2>1, <2>3, <2>4, AfterGoto
<1>2. CASE "day" \notin due[c]
  <2>1. Return(c) /\ cache' = [cache EXCEPT ![c] = cache[c]]
    BY <1>2 DEF Recorded, Types, TypeOK
  <2> QED
    BY <1>0, <1>2, <2>1, AfterReturn
<1> QED
  BY <1>1, <1>2

LEMMA TypesFindDay == ASSUME Types, NEW c \in Conn, FindDay(c) PROVE Types' /\ OnlyMoves(c)
<1>1. StoreTypes'
  BY TypeParts DEF StoreTypes, FindDay, dbVars, history
<1>2. CASE clock[c] \in signDays
  BY <1>1, <1>2, AfterRecorded, TypeParts DEF FindDay, history
<1>3. CASE clock[c] \notin signDays
  <2>1. /\ Goto(c, "addDay") /\ UNCHANGED <<today, cache, clock, due, claim, entered>>
        /\ pc[c] = "findDay" /\ Holding(c) /\ pc'[c] = "addDay"
    BY <1>3 DEF FindDay, history, Goto, Types, TypeOK
  <2>2. Holding(c)'
    BY <2>1 DEF Holding, Loading, Wiping, Resetting, Recording, Ending, Again,
                ForMilestone, ForCard, ForGift
  <2> QED
    BY <1>1, <2>1, <2>2, AfterGoto, Stages, TypeParts DEF Recording
<1> QED
  BY <1>2, <1>3

LEMMA TypesAddDay == ASSUME Types, NEW c \in Conn, AddDay(c) PROVE Types' /\ OnlyMoves(c)
<1>1. /\ Goto(c, "countDay") /\ UNCHANGED <<today, cache, clock, due, claim, entered>>
      /\ pc[c] = "addDay" /\ Holding(c) /\ pc'[c] = "countDay" /\ clock[c] \in Day
  BY DEF AddDay, history, Goto, Types, TypeOK, Holding
<1>2. Holding(c)'
  BY <1>1 DEF Holding, Loading, Wiping, Resetting, Recording, Ending, Again,
              ForMilestone, ForCard, ForGift
<1>3. StoreTypes'
  BY <1>1, TypeParts DEF StoreTypes, AddDay, history
<1> QED
  BY <1>1, <1>2, <1>3, AfterGoto, Stages, TypeParts DEF Recording

LEMMA TypesCountDay == ASSUME Types, NEW c \in Conn, CountDay(c) PROVE Types' /\ OnlyMoves(c)
<1>1. StoreTypes'
  BY TypeParts DEF StoreTypes, CountDay, history
<1> QED
  BY <1>1, AfterRecorded, TypeParts DEF CountDay, history

\* A request has started.
Begins(c) ==
    \/ SignIn(c) \/ ClaimCard(c)
    \/ (\E m \in Milestone : ClaimMilestone(c, m)) \/ (\E g \in Gift : ClaimGift(c, g))

LEMMA TypesBegins ==
    ASSUME Types, NEW c \in Conn, Begins(c)
    PROVE  /\ Types' /\ OnlyMoves(c) /\ due[c] = {} /\ pc[c] = "idle" /\ clock'[c] = today
           /\ pc'[c] \in {"findDay", "findMilestone", "findCard", "claimGift"}
           /\ UNCHANGED <<dbVars, cache, due, history>>
<1>1. PICK stage \in {"findDay", "findMilestone", "findCard", "claimGift"}, reward \in Reward \cup {None} :
        /\ Ready(c) /\ Begin(c, stage, reward)
        /\ stage \in ForMilestone => reward \in MilestoneReward
        /\ stage \in ForCard => reward \in CardReward
        /\ stage \in ForGift => reward \in GiftReward
  <2> USE DEF Recording, Claiming, ForMilestone, ForCard, ForGift
  <2>1. CASE SignIn(c)
    BY <2>1 DEF SignIn
  <2>2. CASE ClaimCard(c)
    <3>1. <<"card", today>> \in CardReward /\ <<"card", today>> \in Reward
      BY Rewards DEF Types, TypeOK, Card
    <3> QED
      BY <2>2, <3>1 DEF ClaimCard
  <2>3. ASSUME NEW m \in Milestone, ClaimMilestone(c, m)
        PROVE  Ready(c) /\ Begin(c, "findMilestone", <<"milestone", m>>) /\ <<"milestone", m>> \in MilestoneReward \cap Reward
    BY <2>3, Rewards DEF ClaimMilestone
  <2>4. ASSUME NEW g \in Gift, ClaimGift(c, g)
        PROVE  Ready(c) /\ Begin(c, "claimGift", <<"gift", g>>) /\ <<"gift", g>> \in GiftReward \cap Reward
    BY <2>4, Rewards DEF ClaimGift
  <2> QED
    BY <2>1, <2>2, <2>3, <2>4 DEF Begins
<1>2. /\ ConnTypes' /\ OnlyMoves(c) /\ due[c] = {} /\ clock'[c] = today /\ pc'[c] = stage
      /\ UNCHANGED <<dbVars, cache, due, history, today>>
  BY <1>1, AfterBegin DEF Begin, Recording, Claiming, ForMilestone, ForCard, ForGift
<1>3. StoreTypes'
  BY <1>2, TypeParts DEF StoreTypes, dbVars, history
<1> QED
  BY <1>1, <1>2, <1>3, TypeParts DEF Ready

LEMMA AfterClaiming ==
    ASSUME Types, NEW c \in Conn, pc[c] \in Claiming, NEW stage \in Claiming, Goto(c, stage),
           UNCHANGED <<today, cache, clock, due, claim, entered>>,
           stage \in ForMilestone => claim[c] \in MilestoneReward,
           stage \in ForCard => claim[c] \in CardReward,
           stage \in ForGift => claim[c] \in GiftReward,
           stage = "pay" => claim[c] \in Reward
    PROVE  ConnTypes' /\ OnlyMoves(c) /\ pc'[c] = stage
<1>1. Holding(c) /\ pc'[c] = stage
  BY DEF Goto, Types, TypeOK
<1>2. Holding(c)'
  BY <1>1 DEF Holding, Loading, Wiping, Resetting, Recording, Ending, Again,
              Claiming, ForMilestone, ForCard, ForGift
<1> QED
  BY <1>1, <1>2, AfterGoto, Stages, TypeParts

\* A statement of a claim, and of what follows it.
Claims(c) ==
    \/ FindMilestone(c) \/ AddMilestone(c)
    \/ FindCard(c) \/ AddCard(c) \/ SaveCard(c)
    \/ MarkGift(c) \/ SaveGift(c) \/ Pay(c)

\* Where each of them leads, when it does not end the handler.
LeadsTo(c) ==
    CASE pc[c] = "findMilestone" -> "addMilestone"
      [] pc[c] = "findCard" -> "addCard"
      [] pc[c] = "claimGift" -> "saveGift"
      [] pc[c] = "pay" -> "saveCard"
      [] OTHER -> "pay"

LEMMA TypesClaims ==
    ASSUME Types, NEW c \in Conn, Claims(c)
    PROVE  /\ Types' /\ OnlyMoves(c) /\ pc[c] \in Claiming
           /\ UNCHANGED <<cache, entered>>
           /\ \/ pc'[c] = "idle" /\ due'[c] = {} /\ claim'[c] = None
              \/ pc'[c] = LeadsTo(c) /\ pc[c] # "saveCard" /\ UNCHANGED <<clock, due, claim>>
           /\ pc[c] = "pay" /\ pc'[c] # "idle" => claim[c] \in CardReward
<1>1. /\ pc[c] \in Claiming
      /\ UNCHANGED <<today, cache, entered>>
      /\ \/ Return(c)
         \/ Goto(c, LeadsTo(c)) /\ pc[c] # "saveCard" /\ UNCHANGED <<clock, due, claim>>
      /\ pc[c] = "pay" => Return(c) \/ claim[c] \in CardReward
  BY DEF Claims, FindMilestone, AddMilestone, FindCard, AddCard, SaveCard, MarkGift, SaveGift, Pay,
         LeadsTo, Claiming, ForMilestone, ForCard, ForGift, history
<1>2. Holding(c) /\ cache[c] \in PlayerState
  BY <1>1 DEF Types, Holding, Loading, Claiming, ForMilestone, ForCard, ForGift
<1>3. StoreTypes'
  <2>1. player \in PlayerState \cup {None} /\ cache[c] \in PlayerState \cup {None}
    BY <1>2 DEF Types, TypeOK
  <2>2. pc[c] # "findMilestone" /\ pc[c] # "findCard" => claim[c] \in Reward \/ pc[c] = "saveCard"
    BY <1>1, <1>2, Rewards DEF Holding, Claiming, ForMilestone, ForCard, ForGift
  <2>3. paid' \in [Reward -> Nat]
    <3>1. UNCHANGED paid \/ (claim[c] \in Reward /\ paid' = [paid EXCEPT ![claim[c]] = @ + 1])
      BY <1>2 DEF Holding, Claims, FindMilestone, AddMilestone, FindCard, AddCard, SaveCard, MarkGift,
              SaveGift, Pay, history
    <3> QED
      BY <3>1 DEF Types, TypeOK
  <2>4. claimed' \subseteq claimed \cup {claim[c]} /\ (claimed' = claimed \/ claim[c] \in Reward)
    BY <2>2 DEF Claims, FindMilestone, AddMilestone, FindCard, AddCard, SaveCard, MarkGift,
              SaveGift, Pay, dbVars
  <2>5. player' \in PlayerState \cup {None}
    BY <2>1 DEF Claims, FindMilestone, AddMilestone, FindCard, AddCard, SaveCard, MarkGift,
              SaveGift, Pay, dbVars, Save
  <2>6. UNCHANGED <<today, signDays, addup, giftRows, used, wiped, logins, overlapped, straddled>>
    BY DEF Claims, FindMilestone, AddMilestone, FindCard, AddCard, SaveCard, MarkGift,
              SaveGift, Pay, dbVars, history
  <2> QED
    BY <2>3, <2>4, <2>5, <2>6, TypeParts DEF StoreTypes
<1>4. CASE Return(c)
  <2>1. cache' = [cache EXCEPT ![c] = cache[c]]
    BY <1>1 DEF Types, TypeOK
  <2> QED
    BY <1>1, <1>2, <1>3, <1>4, <2>1, AfterReturn, TypeParts
<1>5. CASE ~Return(c)
  <2> DEFINE stage == LeadsTo(c)
  <2>1. /\ stage \in Claiming
        /\ stage \in ForMilestone => claim[c] \in MilestoneReward
        /\ stage \in ForCard => claim[c] \in CardReward
        /\ stage \in ForGift => claim[c] \in GiftReward
        /\ stage = "pay" => claim[c] \in Reward
    BY <1>1, <1>2, <1>5, Rewards DEF Holding, LeadsTo, Claiming, ForMilestone, ForCard, ForGift
  <2> HIDE DEF stage
  <2>2. Goto(c, stage) /\ UNCHANGED <<today, cache, clock, due, claim, entered>> /\ pc[c] # "saveCard"
    BY <1>1, <1>5 DEF stage
  <2>3. ConnTypes' /\ OnlyMoves(c) /\ pc'[c] = stage
    BY <1>1, <2>1, <2>2, AfterClaiming
  <2> QED
    BY <1>1, <1>3, <1>5, <2>2, <2>3, TypeParts DEF stage
<1> QED
  BY <1>4, <1>5

LEMMA TypesStatePush ==
    ASSUME Types, NEW c \in Conn, StatePush(c)
    PROVE  /\ Types' /\ OnlyMoves(c) /\ pc[c] = "idle"
           /\ cache'[c] = [cache[c] EXCEPT !.statePush = today]
           /\ UNCHANGED <<pc, clock, due, claim, entered>>
<1> DEFINE row == [cache[c] EXCEPT !.statePush = today]
<1>1. Holding(c) /\ cache[c] \in PlayerState /\ today \in Day /\ pc[c] = "idle"
  BY DEF Types, TypeOK, Holding, StatePush, Ready, Loading
<1>2. row \in PlayerState
  BY <1>1, NewRows
<1>3. cache' = [cache EXCEPT ![c] = row] /\ cache'[c] = row
  BY DEF StatePush, Types, TypeOK
<1>4. UNCHANGED <<today, pc, clock, due, claim, entered>> /\ player' = row
  BY DEF StatePush, history, Save
<1> HIDE DEF row
<1>5. OnlyMoves(c)
  BY <1>3, <1>4 DEF OnlyMoves, Types, TypeOK
<1>6. Holding(c)'
  BY <1>1, <1>2, <1>3, <1>4 DEF Holding
<1>7. ConnTypes'
  BY <1>2, <1>3, <1>4, <1>5, <1>6, OthersHold, TypeParts DEF ConnTypes
<1>8. StoreTypes'
  BY <1>2, <1>4, TypeParts DEF StoreTypes, StatePush, history
<1> QED
  BY <1>1, <1>3, <1>4, <1>5, <1>7, <1>8, TypeParts DEF row

LEMMA TypesUse ==
    ASSUME Types, NEW c \in Conn, NEW p \in Period, Use(c, p)
    PROVE  Types' /\ OnlyMoves(c)
<1>1. StoreTypes'
  BY TypeParts DEF StoreTypes, Use, history
<1>2. ConnTypes'
  BY TypeParts DEF ConnTypes, Use, Holding, connVars, history
<1>3. OnlyMoves(c)
  BY DEF OnlyMoves, Use, connVars, history
<1> QED
  BY <1>1, <1>2, <1>3, TypeParts

LEMMA TypesClose ==
    ASSUME Types, NEW c \in Conn, Close(c)
    PROVE  /\ Types' /\ OnlyMoves(c) /\ pc'[c] = "offline" /\ cache'[c] = None /\ claim'[c] = None
           /\ player' = player \/ (cache[c] # None /\ player' = cache[c])
<1>1. /\ pc'[c] = "offline" /\ cache'[c] = None /\ clock'[c] = Never /\ due'[c] = {}
      /\ claim'[c] = None /\ entered'[c] = Never /\ UNCHANGED today
  BY DEF Close, Types, TypeOK
<1>2. OnlyMoves(c)
  BY DEF OnlyMoves, Close, Types, TypeOK
<1>3. Never <= today
  BY Days DEF Types, TypeOK
<1>4. Holding(c)'
  BY <1>1, <1>3 DEF Holding, Wiping, ForMilestone, ForCard, ForGift
<1>5. ConnTypes'
  BY <1>1, <1>2, <1>4, OthersHold, Stages, TypeParts DEF ConnTypes, Close
<1>6. StoreTypes'
  BY TypeParts DEF StoreTypes, ConnTypes, Close, Save
<1> QED
  BY <1>1, <1>2, <1>5, <1>6, TypeParts DEF Close, Save

LEMMA TypesCrash == ASSUME Types, Crash PROVE Types'
<1>1. StoreTypes'
  BY TypeParts DEF StoreTypes, Crash, dbVars
<1>2. Never <= today
  BY Days DEF Types, TypeOK
<1>3. ASSUME NEW c \in Conn PROVE Holding(c)'
  BY <1>2 DEF Crash, Holding, Wiping, ForMilestone, ForCard, ForGift
<1>4. ConnTypes'
  BY <1>3, Stages DEF ConnTypes, Crash
<1> QED
  BY <1>1, <1>4, TypeParts

LEMMA TypesNextDay == ASSUME Types, NextDay PROVE Types'
<1>1. today' \in Day /\ today <= today' /\ today \in Nat
  BY DailyAssumption DEF NextDay, Types, TypeOK, Day
<1>2. UNCHANGED <<dbVars, connVars, history>>
  BY DEF NextDay
<1>3. StoreTypes'
  BY <1>1, <1>2, TypeParts DEF StoreTypes, dbVars, history
<1>4. ASSUME NEW c \in Conn PROVE Holding(c)'
  <2>1. Holding(c) /\ clock[c] \in {Never} \cup Day /\ entered[c] \in {Never} \cup Day
    BY DEF Types, TypeOK
  <2>2. clock[c] \in Nat /\ entered[c] \in Nat
    BY <2>1, Days
  <2>3. UNCHANGED <<pc, cache, clock, due, claim, entered>>
    BY <1>2 DEF connVars, history
  <2>4. clock[c] <= today' /\ entered[c] <= today'
    BY <1>1, <2>1, <2>2, Days DEF Holding
  <2> QED
    BY <2>1, <2>3, <2>4 DEF Holding
<1>5. ConnTypes'
  BY <1>2, <1>4, TypeParts DEF ConnTypes, connVars, history
<1> QED
  BY <1>3, <1>5, TypeParts

LEMMA TypesStay == ASSUME Types, UNCHANGED vars PROVE Types'
  BY DEF Types, TypeOK, Holding, vars, dbVars, connVars, history

\* What one connection may do.
Serves(c) ==
    \/ Login(c) \/ LoadState(c) \/ CreateState(c) \/ ReadClock(c) \/ CheckDue(c) \/ Advances(c)
    \/ SaveLogin(c) \/ FindDay(c) \/ AddDay(c) \/ CountDay(c)
    \/ Begins(c) \/ Claims(c) \/ StatePush(c) \/ Close(c) \/ \E p \in Period : Use(c, p)

LEMMA Steps ==
    ASSUME [Next]_vars
    PROVE  (\E c \in Conn : Serves(c)) \/ NextDay \/ Crash \/ UNCHANGED vars
  BY DailyAssumption DEF Next, ServeLogin, ServeReward, Serves, Advances, Begins, Claims

LEMMA TypesServes == ASSUME Types, NEW c \in Conn, Serves(c) PROVE Types' /\ OnlyMoves(c)
  BY TypesLogin, TypesLoadState, TypesCreateState, TypesReadClock, TypesCheckDue, TypesAdvances,
     TypesSaveLogin, TypesFindDay, TypesAddDay, TypesCountDay, TypesBegins, TypesClaims,
     TypesStatePush, TypesClose, TypesUse DEF Serves

LEMMA TypesKept == ASSUME Types, [Next]_vars PROVE Types'
  BY Steps, TypesServes, TypesCrash, TypesNextDay, TypesStay

\* What handlers, rows and counters hold stays in its type, for any calendar and
\* any number of connections.
THEOREM TypeCorrect == Spec => []TypeOK
<1>1. Types => TypeOK
  BY DEF Types
<1> QED
  BY <1>1, TypesAtStart, TypesKept, PTL DEF Spec

-----------------------------------------------------------------------------
(* Counting the handlers that are about to pay. *)

Payers(r, stages) == {c \in Conn : claim[c] = r /\ pc[c] \in stages}

LEMMA PayingCounts ==
    ASSUME NEW r, NEW stages
    PROVE  /\ IsFiniteSet(Payers(r, stages)) /\ IsFiniteSet(Payers(r, stages)')
           /\ Paying(r, stages) = Cardinality(Payers(r, stages)) /\ Paying(r, stages) \in Nat
           /\ Paying(r, stages)' = Cardinality(Payers(r, stages)') /\ Paying(r, stages)' \in Nat
<1>1. IsFiniteSet(Conn) /\ Payers(r, stages) \subseteq Conn /\ Payers(r, stages)' \subseteq Conn
  BY DailyAssumption DEF Payers
<1>2. IsFiniteSet(Payers(r, stages)) /\ IsFiniteSet(Payers(r, stages)')
  BY <1>1, FS_Subset
<1>3. Paying(r, stages) = Cardinality(Payers(r, stages)) /\ Paying(r, stages)' = Cardinality(Payers(r, stages)')
  BY DEF Paying, Payers
<1> QED
  BY <1>2, <1>3, FS_CardinalityType

\* If nobody starts to pay, no more do.
LEMMA NoNewPayer ==
    ASSUME NEW r, NEW stages,
           \A d \in Conn : claim'[d] = r /\ pc'[d] \in stages => claim[d] = r /\ pc[d] \in stages
    PROVE  Paying(r, stages)' <= Paying(r, stages)
<1>1. Payers(r, stages)' \subseteq Payers(r, stages)
  BY DEF Payers
<1> QED
  BY <1>1, PayingCounts, FS_Subset

\* One connection's step adds at most one.
LEMMA OnePayer ==
    ASSUME NEW r, NEW stages, NEW c \in Conn, OnlyMoves(c)
    PROVE  Paying(r, stages)' <= Paying(r, stages) + 1
<1> DEFINE S == Payers(r, stages)
<1>1. Payers(r, stages)' \subseteq S \cup {c}
  BY DEF Payers, OnlyMoves
<1>2. IsFiniteSet(S) /\ Cardinality(S) = Paying(r, stages) /\ Paying(r, stages) \in Nat
  BY PayingCounts
<1> HIDE DEF S
<1>3. IsFiniteSet(S \cup {c}) /\ Cardinality(S \cup {c}) <= Cardinality(S) + 1
  <2>1. /\ IsFiniteSet(S \cup {c})
        /\ Cardinality(S \cup {c}) = IF c \in S THEN Cardinality(S) ELSE Cardinality(S) + 1
    BY <1>2, FS_AddElement, Zenon
  <2> QED
    BY <1>2, <2>1
<1>4. Cardinality(Payers(r, stages)') <= Cardinality(S \cup {c}) /\ Cardinality(S \cup {c}) \in Nat
  BY <1>1, <1>3, FS_Subset, FS_CardinalityType
<1> QED
  BY <1>2, <1>3, <1>4, PayingCounts

\* A connection that stops paying makes it one less.
LEMMA PayerLeaves ==
    ASSUME NEW r, NEW stages, NEW c \in Conn, OnlyMoves(c),
           claim[c] = r /\ pc[c] \in stages, ~(claim'[c] = r /\ pc'[c] \in stages)
    PROVE  Paying(r, stages)' = Paying(r, stages) - 1
<1> DEFINE S == Payers(r, stages)
<1>1. Payers(r, stages)' = S \ {c} /\ c \in S
  BY DEF Payers, OnlyMoves
<1>2. Cardinality(S \ {c}) = Cardinality(S) - 1
  BY <1>1, PayingCounts, FS_RemoveElement
<1> QED
  BY <1>1, <1>2, PayingCounts

-----------------------------------------------------------------------------
(* What was paid was claimed. *)

LEMMA PaidCounts ==
    ASSUME Types, NEW r \in MonthlyReward
    PROVE  paid[r] \in Nat /\ wiped[r] \in Nat
  BY Rewards DEF Types, TypeOK

\* Steps that pay nothing and delete no claim.
LEMMA PaidForStays ==
    ASSUME Types, AllPaidFor, claimed \subseteq claimed', UNCHANGED <<paid, wiped>>,
           \A r \in MonthlyReward, d \in Conn :
             claim'[d] = r /\ pc'[d] = "pay" => claim[d] = r /\ pc[d] = "pay"
    PROVE  AllPaidFor'
<1> SUFFICES ASSUME NEW r \in MonthlyReward PROVE PaidFor(r)'
  BY DEF AllPaidFor
<1>1. Paying(r, {"pay"})' <= Paying(r, {"pay"})
  BY NoNewPayer
<1>2. paid[r] + Paying(r, {"pay"}) <= wiped[r] + (IF r \in claimed THEN 1 ELSE 0)
  BY DEF AllPaidFor, PaidFor
<1>3. r \in claimed => r \in claimed'
  OBVIOUS
<1>4. paid[r] \in Nat /\ wiped[r] \in Nat
  BY PaidCounts
<1>5. paid[r] + Paying(r, {"pay"})' <= wiped[r] + (IF r \in claimed' THEN 1 ELSE 0)
  BY <1>1, <1>2, <1>3, <1>4, PayingCounts
<1> QED
  BY <1>5 DEF PaidFor

LEMMA PaidForWipe ==
    ASSUME Types, AllPaidFor, NEW c \in Conn, NEW kind, WipeClaims(c, kind), OnlyMoves(c), pc'[c] # "pay"
    PROVE  AllPaidFor'
<1> SUFFICES ASSUME NEW r \in MonthlyReward PROVE PaidFor(r)'
  BY DEF AllPaidFor
<1>1. Paying(r, {"pay"})' <= Paying(r, {"pay"})
  BY NoNewPayer DEF OnlyMoves
<1>2. paid[r] + Paying(r, {"pay"}) <= wiped[r] + (IF r \in claimed THEN 1 ELSE 0)
  BY DEF AllPaidFor, PaidFor
<1>3. /\ r \in claimed' <=> r \in claimed /\ r[1] # kind
      /\ wiped'[r] = wiped[r] + (IF r[1] = kind /\ r \in claimed THEN 1 ELSE 0)
      /\ paid'[r] = paid[r]
  BY DEF WipeClaims
<1>4. paid[r] \in Nat /\ wiped[r] \in Nat
  BY PaidCounts
<1>5. paid'[r] + Paying(r, {"pay"})' <= wiped'[r] + (IF r \in claimed' THEN 1 ELSE 0)
  BY <1>1, <1>2, <1>3, <1>4, PayingCounts
<1> QED
  BY <1>5 DEF PaidFor

\* A claim is added before it is paid,
LEMMA PaidForClaim ==
    ASSUME Types, AllPaidFor, NEW c \in Conn, OnlyMoves(c), UNCHANGED <<paid, wiped, claim>>,
           claim[c] \notin claimed, claimed' = claimed \cup {claim[c]}
    PROVE  AllPaidFor'
<1> SUFFICES ASSUME NEW r \in MonthlyReward PROVE PaidFor(r)'
  BY DEF AllPaidFor
<1>1. paid[r] + Paying(r, {"pay"}) <= wiped[r] + (IF r \in claimed THEN 1 ELSE 0)
  BY DEF AllPaidFor, PaidFor
<1>2. paid[r] \in Nat /\ wiped[r] \in Nat
  BY PaidCounts
<1>3. CASE claim[c] = r
  <2>1. Paying(r, {"pay"})' <= Paying(r, {"pay"}) + 1
    BY OnePayer
  <2>2. r \notin claimed /\ r \in claimed'
    BY <1>3
  <2>3. paid'[r] + Paying(r, {"pay"})' <= wiped'[r] + (IF r \in claimed' THEN 1 ELSE 0)
    BY <1>1, <1>2, <2>1, <2>2, PayingCounts
  <2> QED
    BY <2>3 DEF PaidFor
<1>4. CASE claim[c] # r
  <2>1. Paying(r, {"pay"})' <= Paying(r, {"pay"})
    BY <1>4, NoNewPayer DEF OnlyMoves
  <2>2. r \in claimed' <=> r \in claimed
    BY <1>4
  <2>3. paid'[r] + Paying(r, {"pay"})' <= wiped'[r] + (IF r \in claimed' THEN 1 ELSE 0)
    BY <1>1, <1>2, <2>1, <2>2, PayingCounts
  <2> QED
    BY <2>3 DEF PaidFor
<1> QED
  BY <1>3, <1>4

\* and who pays it stops waiting to.
LEMMA PaidForPay ==
    ASSUME Types, AllPaidFor, NEW c \in Conn, Pay(c), OnlyMoves(c), pc'[c] # "pay"
    PROVE  AllPaidFor'
<1> SUFFICES ASSUME NEW r \in MonthlyReward PROVE PaidFor(r)'
  BY DEF AllPaidFor
<1>1. paid[r] + Paying(r, {"pay"}) <= wiped[r] + (IF r \in claimed THEN 1 ELSE 0)
  BY DEF AllPaidFor, PaidFor
<1>2. paid[r] \in Nat /\ wiped[r] \in Nat /\ r \in Reward
  BY PaidCounts, Rewards
<1>3. paid' = [paid EXCEPT ![claim[c]] = @ + 1] /\ UNCHANGED <<wiped, claimed>> /\ pc[c] = "pay"
  BY DEF Pay, dbVars
<1>4. paid'[r] + Paying(r, {"pay"})' <= paid[r] + Paying(r, {"pay"})
  <2>1. CASE claim[c] = r
    <3>1. Paying(r, {"pay"})' = Paying(r, {"pay"}) - 1
      BY <1>3, <2>1, PayerLeaves
    <3>2. paid'[r] = paid[r] + 1
      BY <1>2, <1>3, <2>1 DEF Types, TypeOK
    <3> QED
      BY <1>2, <3>1, <3>2, PayingCounts
  <2>2. CASE claim[c] # r
    <3>1. Paying(r, {"pay"})' <= Paying(r, {"pay"})
      BY NoNewPayer DEF OnlyMoves
    <3>2. paid'[r] = paid[r]
      BY <1>2, <1>3, <2>2 DEF Types, TypeOK
    <3> QED
      BY <1>2, <3>1, <3>2, PayingCounts
  <2> QED
    BY <2>1, <2>2
<1>5. paid'[r] \in Nat
  BY <1>2, <1>3 DEF Types, TypeOK
<1>6. paid'[r] + Paying(r, {"pay"})' <= wiped'[r] + (IF r \in claimed' THEN 1 ELSE 0)
  BY <1>1, <1>2, <1>3, <1>4, <1>5, PayingCounts
<1> QED
  BY <1>6 DEF PaidFor

\* The statements that delete claims.
Wipes(c) == WipeCards(c) \/ WipeMilestones(c)

\* Everything but a claim and a wipe has nothing to do with rewards.
LEMMA QuietSteps ==
    ASSUME Types, NEW c \in Conn, Serves(c), ~Claims(c), ~Wipes(c)
    PROVE  /\ UNCHANGED <<paid, wiped, claimed>>
           /\ pc'[c] \notin {"pay", "saveGift", "addCard"}
           /\ pc'[c] = "claimGift" => Begins(c)
<1>1. UNCHANGED <<paid, wiped, claimed>>
  <2>1. CASE Begins(c)
    BY <2>1, TypesBegins DEF dbVars, history
  <2>2. CASE Advances(c)
    BY <2>2 DEF Wipes, Advances, WipeDays, ResetMonth, ResetWeek, ResetDay, ResetCounters, MarkSignIn, history
  <2> QED
    BY <2>1, <2>2 DEF Serves, Login, LoadState, CreateState, ReadClock, CheckDue,
         SaveLogin, FindDay, AddDay, CountDay, StatePush, Close, Use, dbVars, history
<1>2. pc'[c] \notin {"pay", "saveGift", "addCard"} /\ (pc'[c] = "claimGift" => Begins(c))
  <2> /\ pc \in [Conn -> Stage] /\ due[c] \in SUBSET Period
    BY DEF Types, TypeOK
  <2>1. CASE Login(c) \/ LoadState(c) \/ CreateState(c) \/ ReadClock(c) \/ AddDay(c) \/ Close(c)
    BY <2>1 DEF Login, LoadState, CreateState, ReadClock, AddDay, Close, Goto
  <2>2. CASE CheckDue(c)
    <3>1. PICK over \in SUBSET Period :
            Goto(c, IF "month" \in over THEN "wipeDays" ELSE Follow("wipeDays", over))
      BY <2>2 DEF CheckDue
    <3> QED
      BY <3>1, Plan DEF Goto
  <2>3. CASE Advances(c)
    BY <2>3, TypesAdvances DEF Wiping, Resetting, Again
  <2>4. CASE SaveLogin(c)
    BY <2>4, TypesSaveLogin
  <2>5. CASE FindDay(c) \/ CountDay(c)
    BY <2>5, Plan DEF FindDay, CountDay, Recorded, Return, Goto
  <2>6. CASE Begins(c)
    BY <2>6, TypesBegins
  <2>7. CASE StatePush(c) \/ \E p \in Period : Use(c, p)
    BY <2>7 DEF StatePush, Use, Ready, connVars
  <2> QED
    BY <2>1, <2>2, <2>3, <2>4, <2>5, <2>6, <2>7 DEF Serves
<1> QED
  BY <1>1, <1>2

LEMMA PaidForServes ==
    ASSUME Types, AllPaidFor, NEW c \in Conn, Serves(c)
    PROVE  AllPaidFor'
<1>0. OnlyMoves(c) /\ Holding(c)
  BY TypesServes DEF Types
<1>1. CASE ~Claims(c) /\ ~Wipes(c)
  BY <1>0, <1>1, QuietSteps, PaidForStays DEF OnlyMoves
<1>2. CASE Wipes(c)
  <2>1. pc'[c] # "pay"
    BY <1>2, TypesAdvances DEF Advances, Wipes, Wiping, Resetting, Again
  <2> QED
    BY <1>0, <1>2, <2>1, PaidForWipe DEF Wipes, WipeCards, WipeMilestones
<1>3. ASSUME claimed \subseteq claimed', UNCHANGED <<paid, wiped>>,
             pc'[c] # "pay" \/ claim'[c] \notin MonthlyReward
      PROVE  AllPaidFor'
  BY <1>0, <1>3, PaidForStays DEF OnlyMoves
<1>4. CASE FindMilestone(c) \/ FindCard(c) \/ SaveCard(c) \/ MarkGift(c)
  <2>1. pc'[c] # "pay"
    BY <1>4 DEF FindMilestone, FindCard, SaveCard, MarkGift, Goto, Return, Types, TypeOK
  <2>2. claimed \subseteq claimed' /\ UNCHANGED <<paid, wiped>>
    BY <1>4 DEF FindMilestone, FindCard, SaveCard, MarkGift, dbVars, history
  <2> QED
    BY <1>3, <2>1, <2>2
<1>5. CASE SaveGift(c)
  <2>1. claim'[c] \in GiftReward /\ UNCHANGED <<claimed, paid, wiped>>
    BY <1>0, <1>5 DEF SaveGift, Holding, ForGift, history
  <2> QED
    BY <1>3, <2>1, Rewards
<1>6. CASE AddMilestone(c)
  BY <1>0, <1>6, PaidForClaim DEF AddMilestone, history
<1>7. CASE AddCard(c)
  <2>1. CASE claim[c] \in claimed
    <3>1. pc'[c] # "pay" /\ UNCHANGED <<claimed, paid, wiped>>
      BY <1>7, <2>1 DEF AddCard, Return, Goto, Types, TypeOK, history
    <3> QED
      BY <1>3, <3>1
  <2>2. CASE claim[c] \notin claimed
    BY <1>0, <1>7, <2>2, PaidForClaim DEF AddCard, history
  <2> QED
    BY <2>1, <2>2
<1>8. CASE Pay(c)
  <2>1. pc'[c] # "pay"
    BY <1>8 DEF Pay, Goto, Return, Types, TypeOK
  <2> QED
    BY <1>0, <1>8, <2>1, PaidForPay
<1> QED
  BY <1>1, <1>2, <1>4, <1>5, <1>6, <1>7, <1>8 DEF Claims

LEMMA PaidForAtStart == Init => AllPaidFor
<1> SUFFICES ASSUME Init, NEW r \in MonthlyReward PROVE PaidFor(r)
  BY DEF AllPaidFor
<1>1. Payers(r, {"pay"}) = {}
  BY DEF Init, Payers
<1>2. Paying(r, {"pay"}) = 0
  BY <1>1, PayingCounts, FS_EmptySet
<1> QED
  BY <1>2, Rewards DEF Init, PaidFor

LEMMA PaidForKept == ASSUME Types, AllPaidFor, [Next]_vars PROVE AllPaidFor'
<1>1. CASE NextDay \/ UNCHANGED vars
  BY <1>1, PaidForStays DEF NextDay, vars, dbVars, connVars, history
<1>2. CASE Crash
  BY <1>2, PaidForStays DEF Crash, dbVars
<1> QED
  BY <1>1, <1>2, PaidForServes, Steps

-----------------------------------------------------------------------------
(* Gifts. *)

\* What is left to be paid of a claimed gift, step by step.
LEMMA GiftServes ==
    ASSUME Types, NEW c \in Conn, Serves(c), NEW r \in GiftReward, r \in claimed
    PROVE  Unsettled(r)' <= Unsettled(r)
<1> DEFINE S == {"claimGift", "saveGift", "pay"}
<1>0. OnlyMoves(c) /\ Holding(c)
  BY TypesServes DEF Types
<1>1. paid[r] \in Nat /\ r \in Reward /\ r \notin MonthlyReward
  BY Rewards DEF Types, TypeOK
<1>2. Unsettled(r) = paid[r] + Paying(r, S) /\ Unsettled(r)' = paid'[r] + Paying(r, S)'
  BY DEF Unsettled
<1>3. ASSUME paid'[r] = paid[r],
             claim'[c] = r /\ pc'[c] \in S => claim[c] = r /\ pc[c] \in S
      PROVE  Unsettled(r)' <= Unsettled(r)
  <2>1. Paying(r, S)' <= Paying(r, S)
    BY <1>0, <1>3, NoNewPayer DEF OnlyMoves
  <2> QED
    BY <1>1, <1>2, <1>3, <2>1, PayingCounts
<1>4. CASE Pay(c) /\ claim[c] = r
  <2>1. pc[c] = "pay" /\ pc'[c] \notin S
    BY <1>4 DEF Pay, Goto, Return, Types, TypeOK
  <2>2. Paying(r, S)' = Paying(r, S) - 1
    BY <1>0, <1>4, <2>1, PayerLeaves
  <2>3. paid'[r] = paid[r] + 1
    BY <1>1, <1>4 DEF Pay, Types, TypeOK
  <2> QED
    BY <1>1, <1>2, <2>2, <2>3, PayingCounts
<1>5. CASE Pay(c) /\ claim[c] # r
  <2>1. paid'[r] = paid[r] /\ pc'[c] \notin S
    BY <1>1, <1>5 DEF Pay, Goto, Return, Types, TypeOK
  <2> QED
    BY <1>3, <2>1
<1>6. CASE Claims(c) /\ ~Pay(c)
  <2>1. UNCHANGED paid
    BY <1>6 DEF Claims, FindMilestone, AddMilestone, FindCard, AddCard, SaveCard, MarkGift, SaveGift, history
  <2>2. claim'[c] = r /\ pc'[c] \in S => claim[c] = r /\ pc[c] \in S
    <3>1. pc'[c] \in S => claim'[c] = claim[c] /\ pc'[c] = LeadsTo(c) /\ pc[c] \in Claiming /\ pc[c] # "saveCard"
      BY <1>6, TypesClaims
    <3>2. pc[c] \in Claiming \ S => claim[c] \in MonthlyReward
      BY <1>0, Rewards DEF Holding, Claiming, ForMilestone, ForCard, ForGift
    <3> QED
      BY <1>1, <3>1, <3>2
  <2> QED
    BY <1>3, <2>1, <2>2
<1>7. CASE Begins(c)
  <2>1. UNCHANGED paid
    BY <1>7, TypesBegins DEF history
  <2>2. claim'[c] # r \/ pc'[c] \notin S
    <3>1. CASE \E g \in Gift : ClaimGift(c, g)
      BY <3>1 DEF ClaimGift, Begin, Types, TypeOK
    <3>2. CASE SignIn(c) \/ ClaimCard(c) \/ \E m \in Milestone : ClaimMilestone(c, m)
      BY <3>2 DEF SignIn, ClaimCard, ClaimMilestone, Begin, Goto, Types, TypeOK
    <3> QED
      BY <1>7, <3>1, <3>2 DEF Begins
  <2> QED
    BY <1>3, <2>1, <2>2
<1>8. CASE ~Claims(c) /\ ~Begins(c)
  <2>1. UNCHANGED paid
    BY <1>8, QuietSteps DEF Wipes, WipeCards, WipeMilestones, WipeClaims
  <2>2. pc'[c] \notin S
    BY <1>8, QuietSteps, TypesAdvances DEF Wipes, Advances, Wiping, Resetting, Again
  <2> QED
    BY <1>3, <2>1, <2>2
<1> QED
  BY <1>4, <1>5, <1>6, <1>7, <1>8 DEF Claims

LEMMA GiftsKept ==
    ASSUME Types, [Next]_vars, NEW r \in GiftReward, r \in claimed
    PROVE  Unsettled(r)' <= Unsettled(r)
<1> DEFINE S == {"claimGift", "saveGift", "pay"}
<1>1. CASE NextDay \/ Crash \/ UNCHANGED vars
  <2>1. paid'[r] = paid[r] /\ paid[r] \in Nat
    BY <1>1, Rewards DEF NextDay, Crash, vars, history, Types, TypeOK
  <2>2. Paying(r, S)' <= Paying(r, S)
    BY <1>1, NoNewPayer DEF NextDay, Crash, vars, connVars
  <2>3. Unsettled(r) = paid[r] + Paying(r, S) /\ Unsettled(r)' = paid'[r] + Paying(r, S)'
    BY DEF Unsettled
  <2> QED
    BY <2>1, <2>2, <2>3, PayingCounts
<1> QED
  BY <1>1, GiftServes, Steps

\* Nobody starts to claim a gift whose row says claimed: what is still to be
\* paid of it only shrinks, however many handlers had already asked.
THEOREM GiftsSettle == Spec => ClaimedGiftsSettle
<1>1. Types /\ [Next]_vars =>
        [\A r \in GiftReward : r \in claimed => Unsettled(r)' <= Unsettled(r)]_vars
  BY GiftsKept
<1> QED
  BY <1>1, TypesAtStart, TypesKept, PTL DEF Spec, ClaimedGiftsSettle

-----------------------------------------------------------------------------
(* One connection at a time. *)

\* Only c may be open.
OthersOffline(c) == \A d \in Conn \ {c} : pc[d] = "offline"

LEMMA Lone == ASSUME Orderly, NEW c \in Conn, pc[c] # "offline" PROVE OthersOffline(c)
  BY DEF Orderly, Alone, OthersOffline

LEMMA KnownRows ==
    ASSUME Orderly, NEW c \in Conn
    PROVE  \A row \in PlayerState : row = player \/ row = cache[c] => RowSound(row)
  BY DEF Orderly, Rows

LEMMA OfflineInStep == ASSUME NEW d \in Conn, pc'[d] = "offline" PROVE InStep(d)'
  BY DEF InStep, InLogin, InGame, Loading, Wiping, Resetting, Recording, Ending, Again,
         Claiming, ForMilestone, ForCard, ForGift

\* A step of the open connection.
LEMMA OrderFrame ==
    ASSUME Types', NEW c \in Conn, OnlyMoves(c), OthersOffline(c),
           \A row \in PlayerState : row = player' \/ row = cache'[c] => RowSound(row)',
           player' = None => Untouched',
           CardsOnce', InStep(c)'
    PROVE  Orderly'
<1>1. ASSUME NEW d \in Conn \ {c} PROVE pc'[d] = "offline" /\ cache'[d] = None /\ InStep(d)'
  <2>1. pc'[d] = "offline"
    BY DEF OnlyMoves, OthersOffline
  <2> QED
    BY <2>1, OfflineInStep DEF Types, Holding
<1>2. Alone'
  BY <1>1 DEF Alone
<1>3. Rows'
  BY <1>1, NoneAssumption DEF Rows
<1> QED
  BY <1>1, <1>2, <1>3 DEF Orderly

\* A step that leaves days, counts and claims alone.
LEMMA StoreStays ==
    ASSUME Types', Orderly, NEW c \in Conn, OnlyMoves(c), OthersOffline(c),
           UNCHANGED <<signDays, addup, claimed, used, wiped>>, straddled => straddled',
           \A row \in PlayerState : row = player' \/ row = cache'[c] => RowSound(row),
           player' = None => player = None,
           InStep(c)'
    PROVE  Orderly'
<1>0. UNCHANGED today
  BY DEF OnlyMoves
<1>1. ASSUME NEW row \in PlayerState, RowSound(row) PROVE RowSound(row)'
  BY <1>0, <1>1 DEF RowSound, Counted, Outdated, Kept
<1>2. player' = None => Untouched'
  BY DEF Orderly, Rows, Untouched
<1>3. CardsOnce'
  BY <1>0 DEF Orderly, CardsOnce
<1> QED
  BY <1>1, <1>2, <1>3, OrderFrame

\* A login that has just started, or just read its row.
LEMMA LoadingStep ==
    ASSUME NEW c \in Conn, pc'[c] \in {"load", "readDay"}, pc'[c] = "readDay" => player' = cache'[c]
    PROVE  InStep(c)'
  BY DEF InStep, InLogin, InGame, Loading, Wiping, Resetting, Recording, Ending, Again,
         Claiming, ForMilestone, ForCard, ForGift

LEMMA OrderLogin ==
    ASSUME Types, Orderly, NEW c \in Conn, Login(c), ~overlapped'
    PROVE  Orderly'
<1>1. OthersOffline(c) /\ pc'[c] = "load"
  BY DEF Login, OthersOffline, Goto, Types, TypeOK
<1>2. UNCHANGED <<player, cache, signDays, addup, claimed, used, wiped, straddled>>
  BY DEF Login, dbVars
<1>3. InStep(c)'
  BY <1>1, LoadingStep
<1> QED
  BY <1>1, <1>2, <1>3, TypesLogin, KnownRows, StoreStays

LEMMA OrderLoadState ==
    ASSUME Types, Orderly, NEW c \in Conn, LoadState(c)
    PROVE  Orderly'
<1>1. /\ OthersOffline(c)
      /\ UNCHANGED <<player, signDays, addup, claimed, used, wiped, straddled>>
  BY Lone DEF LoadState, dbVars, history
<1>2. CASE player # None
  <2>1. pc'[c] = "readDay" /\ cache'[c] = player
    BY <1>2 DEF LoadState, Goto, Types, TypeOK
  <2>2. InStep(c)'
    BY <1>1, <2>1, LoadingStep
  <2> QED
    BY <1>1, <2>1, <2>2, TypesLoadState, KnownRows, StoreStays
<1>3. CASE player = None
  <2>1. pc'[c] = "create" /\ cache' = cache
    BY <1>3 DEF LoadState, Goto, Types, TypeOK
  <2>2. InStep(c)'
    BY <1>1, <1>3, <2>1 DEF InStep, InLogin, InGame, Loading, Wiping, Resetting, Recording, Ending,
         Again, Claiming, ForMilestone, ForCard, ForGift
  <2> QED
    BY <1>1, <2>1, <2>2, TypesLoadState, KnownRows, StoreStays
<1> QED
  BY <1>2, <1>3

\* A new row is that of a player who signed in today, on an untouched account.
LEMMA OrderCreateState ==
    ASSUME Types, Orderly, NEW c \in Conn, CreateState(c)
    PROVE  Orderly'
<1>1. /\ OthersOffline(c) /\ player = None /\ Untouched
      /\ UNCHANGED <<signDays, addup, claimed, used, wiped, straddled>>
  BY Lone DEF CreateState, history, Orderly, InStep, Rows
<1>2. clock[c] \in Day /\ clock[c] <= today
  BY DEF CreateState, Types, Holding
<1> DEFINE new == NewState(clock[c])
<1>3. new \in PlayerState /\ new.signIn = clock[c] /\ new.signInDay = clock[c]
  BY <1>2, NewRows DEF NewState, CreatedState
<1>4. player' = new /\ cache'[c] = new /\ pc'[c] = "readDay"
  BY DEF CreateState, Save, Goto, Types, TypeOK
<1> HIDE DEF new
<1>5. RowSound(new)
  <2>1. Cardinality(signDays) = 0
    BY <1>1, FS_EmptySet DEF Untouched
  <2> QED
    BY <1>1, <1>2, <1>3, <2>1 DEF RowSound, Untouched, Counted, Kept, Period
<1>6. InStep(c)'
  BY <1>4, LoadingStep
<1> QED
  BY <1>1, <1>3, <1>4, <1>5, <1>6, NoneAssumption, TypesCreateState, StoreStays

LEMMA OrderReadClock ==
    ASSUME Types, Orderly, NEW c \in Conn, ReadClock(c)
    PROVE  Orderly'
<1>1. /\ OthersOffline(c)
      /\ UNCHANGED <<player, cache, signDays, addup, claimed, used, wiped, due, entered, today>>
      /\ straddled => straddled'
      /\ clock'[c] = today
  BY Lone DEF ReadClock, dbVars, Types, TypeOK
<1>2. cache[c] \in PlayerState /\ RowSound(cache[c])
  <2>1. cache[c] \in PlayerState
    BY DEF ReadClock, Types, Holding, Loading
  <2> QED
    BY <2>1, KnownRows
<1>3. CASE pc[c] = "readDay"
  <2>1. pc'[c] = "check" /\ player = cache[c]
    BY <1>3 DEF ReadClock, Goto, Types, TypeOK, Orderly, InStep, Loading, Ending, Again
  <2>2. InStep(c)'
    BY <1>1, <1>2, <2>1 DEF RowSound, Counted, Outdated, InStep, InLogin, InGame, Loading, Wiping, Resetting,
         Recording, Ending, Again, Claiming, ForMilestone, ForCard, ForGift
  <2> QED
    BY <1>1, <2>2, TypesReadClock, KnownRows, StoreStays
<1>4. CASE pc[c] = "readClock"
  <2>1. /\ pc'[c] = "saveLogin" /\ LoginStep(c)
        /\ straddled' = (straddled \/ clock[c] # today)
    BY <1>4 DEF ReadClock, Goto, Types, TypeOK, Orderly, InStep, InLogin, Ending
  <2>2. LoginStep(c)'
    BY <1>1, <1>2, <1>4, <2>1 DEF LoginStep, RowSound, Counted, Kept, Wiping
  <2>3. cache'[c].signInDay <= clock'[c]
    BY <1>1, <1>2 DEF RowSound
  <2>4. InStep(c)'
    BY <2>1, <2>2, <2>3 DEF InStep, InLogin, InGame, Loading, Wiping, Resetting,
         Recording, Ending, Again, Claiming, ForMilestone, ForCard, ForGift
  <2> QED
    BY <1>1, <2>4, TypesReadClock, KnownRows, StoreStays
<1> QED
  BY <1>3, <1>4 DEF ReadClock

LEMMA Calendar ==
    ASSUME NEW d \in Day, NEW e \in Day, d <= e
    PROVE  /\ Week[d] \in Nat /\ Week[e] \in Nat /\ Week[d] <= Week[e]
           /\ Month[d] \in Nat /\ Month[e] \in Nat /\ Month[d] <= Month[e]
  BY DailyAssumption

LEMMA UsedDays == ASSUME Types, NEW p \in Period PROVE used[p] \in {Never} \cup Day
  BY DEF Types, TypeOK

\* What the login finds to be over, and the row it leaves.
LEMMA OrderCheckDue ==
    ASSUME Types, Orderly, NEW c \in Conn, CheckDue(c)
    PROVE  Orderly'
<1> DEFINE last == player.signIn
           now == clock[c]
<1>1. /\ OthersOffline(c) /\ pc[c] = "check"
      /\ UNCHANGED <<player, cache, clock, signDays, addup, claimed, used, wiped, straddled, today>>
  BY Lone DEF CheckDue, dbVars
<1>2. now \in Day /\ now <= today /\ last \in {Never} \cup Day /\ player \in PlayerState /\ RowSound(player)
  <2>1. player \in PlayerState
    BY DEF CheckDue, Types, TypeOK
  <2> QED
    BY <1>1, <2>1, KnownRows DEF Types, Holding, PlayerState
<1>3. player = cache[c] /\ last <= now /\ (Counted \/ Outdated(last, now))
  BY <1>1 DEF Orderly, InStep, Loading, Ending, Again
<1>4. PICK over \in SUBSET Period :
        /\ due' = [due EXCEPT ![c] = over]
        /\ Goto(c, IF "month" \in over THEN "wipeDays" ELSE Follow("wipeDays", over))
        /\ "week" \in over <=> last = Never \/ Week[last] # Week[now]
        /\ "month" \in over <=> last = Never \/ Month[last] # Month[now]
  <2> DEFINE over == {p \in Period :
                        \/ last = Never
                        \/ p = "day" /\ last # now
                        \/ p = "week" /\ Week[last] # Week[now]
                        \/ p = "month" /\ Month[last] # Month[now]}
  <2>1. /\ due' = [due EXCEPT ![c] = over]
        /\ Goto(c, IF "month" \in over THEN "wipeDays" ELSE Follow("wipeDays", over))
    BY DEF CheckDue
  <2>2. /\ over \in SUBSET Period
        /\ "week" \in over <=> last = Never \/ Week[last] # Week[now]
        /\ "month" \in over <=> last = Never \/ Month[last] # Month[now]
    BY DEF Period
  <2> QED
    BY <2>1, <2>2
<1>5. due'[c] = over /\ entered'[c] = now
  BY <1>4 DEF CheckDue, Types, TypeOK
<1>6. "month" \in over => Outdated(last, now)
  BY <1>2, <1>3, <1>4, Calendar DEF Outdated
<1>7. "month" \notin over => Counted /\ (straddled \/ Kept("month", now))
  BY <1>2, <1>3, <1>4, Calendar DEF Outdated, RowSound, Kept
<1>8. "week" \notin over => straddled \/ Kept("week", now)
  BY <1>2, <1>3, <1>4, Calendar DEF RowSound, Kept
<1>9. /\ "month" \in over => pc'[c] = "wipeDays"
      /\ "month" \notin over /\ "week" \in over => pc'[c] = "resetWeek"
      /\ "month" \notin over /\ "week" \notin over =>
           pc'[c] = "markSignIn" \/ (pc'[c] = "findDay" /\ "day" \in over)
  BY <1>4, Plan DEF Goto, Types, TypeOK
<1>10. UNCHANGED <<Counted, Kept("month", now), Kept("week", now)>>
  BY <1>1 DEF Counted, Kept
<1>11. LoginStep(c)'
  BY <1>1, <1>3, <1>5, <1>6, <1>7, <1>8, <1>9, <1>10 DEF LoginStep, Outdated, Wiping
<1>12. InStep(c)'
  BY <1>1, <1>3, <1>5, <1>9, <1>11 DEF InStep, InLogin, InGame, Loading, Wiping, Resetting,
     Recording, Ending, Again, Claiming, ForMilestone, ForCard, ForGift
<1> QED
  BY <1>1, <1>12, TypesCheckDue, KnownRows, StoreStays

\* A step that leaves the rows alone.
LEMMA RowsStay ==
    ASSUME Types', Orderly, NEW c \in Conn, OnlyMoves(c), OthersOffline(c), UNCHANGED <<player, cache>>,
           \A row \in PlayerState :
             RowSound(row) /\ (row = player \/ row = cache[c]) => RowSound(row)',
           player = None => Untouched',
           CardsOnce', InStep(c)'
    PROVE  Orderly'
  BY KnownRows, OrderFrame

\* What a login has found out when it wipes and resets.
LEMMA Advancing ==
    ASSUME Types, Orderly, NEW c \in Conn, Advances(c)
    PROVE  /\ OthersOffline(c) /\ InLogin(c) /\ LoginStep(c) /\ clock[c] \in Day /\ clock[c] <= today
           /\ cache[c] \in PlayerState /\ IsFiniteSet(signDays)
           /\ due[c] \in SUBSET Period
           /\ pc[c] \in Wiping \cup Resetting => player = cache[c]
<1>1. pc[c] \in Wiping \cup Resetting \cup Again
  BY DEF Advances, WipeDays, WipeCards, WipeMilestones, ResetMonth, ResetWeek, ResetDay, MarkSignIn,
         Wiping, Resetting, Again
<1>2. OthersOffline(c)
  BY <1>1, Lone DEF Wiping, Resetting, Again
<1>3. InLogin(c) /\ LoginStep(c) /\ (pc[c] \in Wiping \cup Resetting => player = cache[c])
  BY <1>1 DEF Orderly, InStep, InLogin, Ending, Again, Wiping, Resetting, Loading
<1>4. clock[c] \in Day /\ clock[c] <= today /\ cache[c] \in PlayerState
  BY <1>1 DEF Types, Holding, Again, Wiping, Resetting, Loading
<1>5. IsFiniteSet(Day)
  BY DailyAssumption, FS_Interval DEF Day
<1>6. IsFiniteSet(signDays) /\ due[c] \in SUBSET Period
  BY <1>5, FS_Subset DEF Types, TypeOK
<1> QED
  BY <1>2, <1>3, <1>4, <1>6

\* The next statement of a login, when its place is one of these.
LEMMA LoginPlaces ==
    ASSUME Types, Types', NEW c \in Conn, LoginStep(c)',
           \/ pc'[c] \in Wiping \cup Resetting
           \/ pc'[c] = "findDay" /\ "day" \in due'[c]
           \/ pc'[c] \in Again \cup {"readClock"},
           pc'[c] \in Wiping \cup Resetting \cup {"findDay"} => player' = cache'[c]
    PROVE  InStep(c)'
  BY DEF InStep, InLogin, InGame, Loading, Wiping, Resetting,
     Recording, Ending, Again, Claiming, ForMilestone, ForCard, ForGift

\* What a wipe deletes is outdated: the cards are from days before this one.
LEMMA OrderWipes ==
    ASSUME Types, Orderly, NEW c \in Conn, WipeDays(c) \/ Wipes(c)
    PROVE  Orderly'
<1> DEFINE last == cache[c].signIn
           now == clock[c]
<1>0. Advances(c)
  BY DEF Advances, Wipes
<1>1. /\ Types' /\ OnlyMoves(c) /\ UNCHANGED <<cache, clock, due, claim, entered>>
      /\ pc'[c] = Follow(pc[c], due[c])
  BY <1>0, TypesAdvances
<1>2. /\ OthersOffline(c) /\ LoginStep(c) /\ due[c] \in SUBSET Period /\ "month" \in due[c]
      /\ now \in Day /\ now <= today /\ pc[c] \in Wiping /\ player = cache[c]
      /\ cache[c] \in PlayerState /\ RowSound(cache[c])
  <2>1. pc[c] \in Wiping
    BY DEF WipeDays, Wipes, WipeCards, WipeMilestones, Wiping
  <2> QED
    BY <1>0, <2>1, Advancing, KnownRows DEF Types, Holding
<1>3. pc'[c] \in Wiping
  BY <1>1, <1>2, Plan DEF WipeDays, Wipes, WipeCards, WipeMilestones, Wiping
<1>4. Outdated(last, now) /\ last <= now /\ last \in {Never} \cup Day
  BY <1>2 DEF LoginStep, PlayerState
<1>5. UNCHANGED <<today, player, addup, used, straddled>>
  BY DEF WipeDays, Wipes, WipeCards, WipeMilestones, WipeClaims, history
<1>6. Outdated(last, today) /\ \A d \in Day : Card(d) \in claimed => d < today
  <2> today \in Day
    BY DEF Types, TypeOK
  <2>1. Outdated(last, today)
    BY <1>2, <1>4, Calendar DEF Outdated
  <2>2. ASSUME NEW d \in Day, Card(d) \in claimed PROVE d < today
    <3>1. d <= last
      BY <1>2, <2>2 DEF RowSound
    <3>2. last < now
      BY <1>2, <1>4, <3>1, Days, Calendar DEF Outdated
    <3> QED
      BY <1>2, <1>4, <3>1, <3>2, Days
  <2> QED
    BY <2>1, <2>2
<1>7. claimed' \subseteq claimed
  BY DEF WipeDays, Wipes, WipeCards, WipeMilestones, WipeClaims
<1>8. ASSUME NEW row \in PlayerState, RowSound(row), row = player \/ row = cache[c]
      PROVE  RowSound(row)'
  BY <1>2, <1>5, <1>6, <1>7, <1>8 DEF RowSound, Outdated, Kept
<1>9. CardsOnce'
  <2>1. ASSUME NEW d \in Day
        PROVE  /\ wiped'[Card(d)] + (IF Card(d) \in claimed' THEN 1 ELSE 0) <= 1
               /\ wiped'[Card(d)] > 0 => d < today
    <3>1. /\ Card(d) \in MonthlyReward /\ Card(d)[1] = "card" /\ wiped[Card(d)] \in Nat
          /\ wiped[Card(d)] + (IF Card(d) \in claimed THEN 1 ELSE 0) <= 1
          /\ wiped[Card(d)] > 0 => d < today
      BY Rewards DEF Orderly, CardsOnce, Types, TypeOK, Card
    <3>2. CASE WipeCards(c)
      <4>1. /\ Card(d) \notin claimed'
            /\ wiped'[Card(d)] = wiped[Card(d)] + (IF Card(d) \in claimed THEN 1 ELSE 0)
        BY <3>1, <3>2 DEF WipeCards, WipeClaims
      <4> QED
        BY <1>6, <3>1, <4>1
    <3>3. CASE WipeMilestones(c)
      <4>1. (Card(d) \in claimed' <=> Card(d) \in claimed) /\ wiped'[Card(d)] = wiped[Card(d)]
        BY <3>1, <3>3 DEF WipeMilestones, WipeClaims
      <4> QED
        BY <3>1, <4>1
    <3>4. CASE WipeDays(c)
      BY <3>1, <3>4 DEF WipeDays, history
    <3> QED
      BY <3>2, <3>3, <3>4 DEF Wipes
  <2> QED
    BY <1>5, <2>1 DEF CardsOnce
<1>10. InStep(c)'
  <2>1. LoginStep(c)'
    BY <1>1, <1>2, <1>3, <1>4, <1>5 DEF LoginStep, Outdated, Kept
  <2> QED
    BY <1>1, <1>2, <1>3, <1>5, <2>1, LoginPlaces
<1> QED
  BY <1>1, <1>2, <1>5, <1>8, <1>9, <1>10, NoneAssumption, RowsStay

\* A reset of a counter leaves nothing of it to be out of date.
LEMMA OrderResets ==
    ASSUME Types, Orderly, NEW c \in Conn, ResetMonth(c) \/ ResetWeek(c) \/ ResetDay(c)
    PROVE  Orderly'
<1> DEFINE now == clock[c]
<1>0. Advances(c)
  BY DEF Advances
<1>1. /\ Types' /\ OnlyMoves(c) /\ UNCHANGED <<cache, clock, due, claim, entered>>
      /\ pc'[c] = Follow(pc[c], due[c])
  BY <1>0, TypesAdvances
<1>2. /\ OthersOffline(c) /\ LoginStep(c) /\ due[c] \in SUBSET Period
      /\ pc[c] \in Wiping \cup Resetting => player = cache[c]
      /\ cache[c] \in PlayerState /\ IsFiniteSet(signDays)
  BY <1>0, Advancing
<1>3. UNCHANGED <<today, player, signDays, claimed, straddled, wiped>>
  BY DEF ResetMonth, ResetWeek, ResetDay, ResetCounters, history
<1>4. Counted => Counted'
  BY <1>2, <1>3, FS_CardinalityType DEF ResetMonth, ResetWeek, ResetDay, ResetCounters, Counted
<1>5. \A p \in Period : used'[p] \in {used[p], Never}
  BY DEF ResetMonth, ResetWeek, ResetDay, ResetCounters, Types, TypeOK
<1>6. \A p \in Period, d \in Day : Kept(p, d) => Kept(p, d)'
  BY <1>5 DEF Kept
<1>7. ASSUME NEW row \in PlayerState, RowSound(row) PROVE RowSound(row)'
  <2>1. row.signIn \in {Never} \cup Day /\ "week" \in Period /\ "month" \in Period
    BY DEF PlayerState, Period
  <2> QED
    BY <1>3, <1>4, <1>6, <1>7, <2>1 DEF RowSound, Outdated
<1>8. player = None => Untouched'
  BY <1>3, <1>5 DEF Orderly, Rows, Untouched, ResetMonth, ResetWeek, ResetDay, ResetCounters
<1>9. CardsOnce'
  BY <1>3 DEF Orderly, CardsOnce
<1>10. InStep(c)'
  <2> now \in Day /\ "week" \in Period /\ "month" \in Period
    BY <1>0, Advancing DEF Period
  <2>1. CASE pc[c] = "resetMonth"
    <3>1. addup' = 0 /\ used'["month"] = Never
      BY <2>1 DEF ResetMonth, ResetWeek, ResetDay, Types, TypeOK, Period
    <3>2. Counted' /\ Kept("month", now)'
      BY <1>2, <1>3, <3>1, FS_CardinalityType DEF Counted, Kept
    <3>3. /\ pc'[c] \in {"resetWeek", "findDay", "markSignIn"}
          /\ "week" \in due[c] => pc'[c] = "resetWeek"
          /\ pc'[c] = "findDay" => "day" \in due[c]
      BY <1>1, <1>2, <2>1, Plan
    <3>4. LoginStep(c)'
      BY <1>1, <1>2, <1>3, <1>6, <3>2, <3>3 DEF LoginStep, Wiping
    <3> QED
      BY <1>1, <1>2, <1>3, <2>1, <3>3, <3>4, LoginPlaces DEF Wiping, Resetting
  <2>2. CASE pc[c] = "resetWeek"
    <3>1. used'["week"] = Never
      BY <2>2 DEF ResetMonth, ResetWeek, ResetDay, ResetCounters, Types, TypeOK, Period
    <3>2. Kept("week", now)'
      BY <3>1 DEF Kept
    <3>3. pc'[c] \in {"findDay", "markSignIn"} /\ (pc'[c] = "findDay" => "day" \in due[c])
      BY <1>1, <1>2, <2>2, Plan
    <3>4. LoginStep(c)'
      BY <1>1, <1>2, <1>3, <1>4, <1>6, <2>2, <3>2, <3>3 DEF LoginStep, Wiping
    <3> QED
      BY <1>1, <1>2, <1>3, <2>2, <3>3, <3>4, LoginPlaces DEF Wiping, Resetting
  <2>3. CASE pc[c] = "resetDay"
    <3>1. pc'[c] = "markSignIn"
      BY <1>1, <1>2, <2>3, Plan
    <3>2. LoginStep(c)'
      BY <1>1, <1>2, <1>3, <1>4, <1>6, <2>3, <3>1 DEF LoginStep, Wiping
    <3> QED
      BY <1>1, <1>2, <1>3, <2>3, <3>1, <3>2, LoginPlaces DEF Wiping, Resetting
  <2>4. CASE pc[c] \in Again
    <3>1. pc'[c] \in Again \cup {"readClock"}
      BY <1>1, <1>2, <2>4, Plan
    <3>2. LoginStep(c)'
      BY <1>1, <1>2, <1>3, <1>4, <1>6, <2>4, <3>1 DEF LoginStep, Wiping, Again
    <3> QED
      BY <1>1, <3>1, <3>2, LoginPlaces DEF Wiping, Resetting, Again
  <2> QED
    BY <2>1, <2>2, <2>3, <2>4 DEF ResetMonth, ResetWeek, ResetDay, Again
<1> QED
  BY <1>1, <1>2, <1>3, <1>7, <1>8, <1>9, <1>10, RowsStay

\* The row is marked: it holds as of now whatever held as of the last login.
LEMMA OrderMarkSignIn ==
    ASSUME Types, Orderly, NEW c \in Conn, MarkSignIn(c)
    PROVE  Orderly'
<1> DEFINE now == clock[c]
           new == [player EXCEPT !.signIn = now]
<1>0. Advances(c) /\ pc[c] = "markSignIn"
  BY DEF Advances, MarkSignIn
<1>1. /\ Types' /\ OnlyMoves(c) /\ UNCHANGED <<cache, clock, due, claim, entered>>
      /\ pc'[c] = Follow(pc[c], due[c])
  BY <1>0, TypesAdvances
<1>2. /\ OthersOffline(c) /\ LoginStep(c) /\ due[c] \in SUBSET Period /\ player = cache[c]
      /\ cache[c] \in PlayerState /\ now \in Day /\ now <= today
  BY <1>0, Advancing DEF Resetting
<1>3. UNCHANGED <<today, signDays, addup, claimed, used, wiped, straddled>> /\ player' = new
  BY DEF MarkSignIn, Save, history
<1>4. RowSound(cache[c]) /\ cache[c].signIn <= now /\ Counted
      /\ (~straddled => Kept("month", now) /\ Kept("week", now))
  BY <1>0, <1>2, KnownRows DEF LoginStep, Wiping
<1>5. /\ new \in PlayerState /\ new.signIn = now /\ new.signInDay = cache[c].signInDay
      /\ cache[c].signIn \in Nat
  <2>1. cache[c].signIn \in {Never} \cup Day
    BY <1>2 DEF PlayerState
  <2> QED
    BY <1>2, <2>1, NewRows, Days DEF PlayerState
<1> HIDE DEF new
<1>6. RowSound(new)
  BY <1>2, <1>4, <1>5, Days DEF RowSound
<1>7. pc'[c] \in Again \cup {"readClock"}
  BY <1>0, <1>1, <1>2, Plan
<1>8. UNCHANGED <<Counted, Kept("month", now), Kept("week", now)>>
  BY <1>1, <1>3 DEF Counted, Kept
<1>9. LoginStep(c)'
  BY <1>0, <1>1, <1>2, <1>3, <1>4, <1>7, <1>8 DEF LoginStep, Wiping, Again
<1>10. InStep(c)'
  BY <1>1, <1>7, <1>9, LoginPlaces DEF Wiping, Resetting, Again
<1> QED
  BY <1>1, <1>2, <1>3, <1>5, <1>6, <1>10, NoneAssumption, KnownRows, StoreStays

LEMMA GamePlaces ==
    ASSUME NEW c \in Conn, GameStep(c)', player' = cache'[c],
           \/ pc'[c] \in (Claiming \cup {"idle"}) \ {"findCard", "addCard"}
           \/ pc'[c] = "findDay" /\ "day" \notin due'[c]
    PROVE  InStep(c)'
  BY DEF InStep, InLogin, InGame, Loading, Wiping, Resetting,
     Recording, Ending, Again, Claiming, ForMilestone, ForCard, ForGift

LEMMA OrderSaveLogin ==
    ASSUME Types, Orderly, NEW c \in Conn, SaveLogin(c)
    PROVE  Orderly'
<1> DEFINE now == clock[c]
           new == LoggedIn(cache[c], now)
<1>1. /\ Types' /\ OnlyMoves(c) /\ pc'[c] = "idle" /\ cache'[c] = new
      /\ player' = new /\ UNCHANGED <<today, signDays, addup, claimed, used, wiped, straddled, entered>>
  BY TypesSaveLogin DEF SaveLogin, Save, history
<1>2. pc[c] = "saveLogin" /\ OthersOffline(c) /\ LoginStep(c) /\ cache[c].signInDay <= now
  BY Lone DEF SaveLogin, Orderly, InStep, InLogin, Ending
<1>3. cache[c] \in PlayerState /\ RowSound(cache[c]) /\ now \in Day /\ now <= today
  <2>1. cache[c] \in PlayerState /\ now \in Day /\ now <= today
    BY <1>2 DEF Types, Holding, Loading
  <2> QED
    BY <2>1, KnownRows
<1>4. /\ cache[c].signIn \in {Never} \cup Day /\ cache[c].signIn <= now /\ Counted
      /\ ~straddled => entered[c] = now /\ Kept("month", now) /\ Kept("week", now)
  BY <1>2, <1>3 DEF LoginStep, Wiping, PlayerState
<1>5. /\ new \in PlayerState /\ new.signIn = now /\ new.signInDay <= now /\ new.signInDay <= today
  <2>1. new.signInDay \in {now, cache[c].signInDay} /\ now <= now
    BY <1>3, Days DEF LoggedIn, PlayerState
  <2> QED
    BY <1>2, <1>3, <2>1, NewRows DEF LoggedIn, PlayerState, RowSound
<1> HIDE DEF new
<1>6. RowSound(new)
  BY <1>3, <1>4, <1>5, Days DEF RowSound
<1>7. Counted'
  BY <1>1, <1>4 DEF Counted
<1>8. GameStep(c)'
  <2>1. ~straddled => entered'[c] \in Day /\ Kept("month", entered[c])' /\ Kept("week", entered[c])'
    BY <1>1, <1>3, <1>4 DEF Kept
  <2> QED
    BY <1>1, <1>4, <1>5, <1>7, <2>1 DEF GameStep
<1>9. InStep(c)'
  BY <1>1, <1>8, GamePlaces
<1> QED
  BY <1>1, <1>2, <1>5, <1>6, <1>9, NoneAssumption, StoreStays

-----------------------------------------------------------------------------
(* One connection at a time: signing in. *)

\* What holds where a day is recorded.
LEMMA AtRecording ==
    ASSUME Types, Orderly, NEW c \in Conn, pc[c] \in Recording
    PROVE  /\ OthersOffline(c) /\ player = cache[c] /\ cache[c] \in PlayerState /\ clock[c] \in Day
           /\ Counted /\ IsFiniteSet(signDays) /\ Cardinality(signDays) \in Nat /\ addup \in Nat
           /\ "day" \in due[c] => LoginStep(c)
           /\ "day" \notin due[c] => GameStep(c)
           /\ pc[c] = "addDay" => clock[c] \notin signDays
           /\ pc[c] = "countDay" => addup < Cardinality(signDays)
<1>1. /\ OthersOffline(c) /\ player = cache[c] /\ InStep(c)
      /\ cache[c] \in PlayerState /\ clock[c] \in Day
  BY Lone DEF Orderly, InStep, Types, Holding, Recording, Loading, Ending, Again
<1>2. /\ "day" \in due[c] => LoginStep(c)
      /\ "day" \notin due[c] => GameStep(c)
      /\ Counted
      /\ pc[c] = "addDay" => clock[c] \notin signDays
      /\ pc[c] = "countDay" => addup < Cardinality(signDays)
  BY <1>1 DEF InStep, InLogin, InGame, LoginStep, GameStep, Recording, Wiping
<1>3. IsFiniteSet(Day)
  BY DailyAssumption, FS_Interval DEF Day
<1>4. IsFiniteSet(signDays) /\ addup \in Nat
  BY <1>3, FS_Subset DEF Types, TypeOK
<1> QED
  BY <1>1, <1>2, <1>4, FS_CardinalityType

\* Back to the login or to the client.
LEMMA RecordedStep ==
    ASSUME Types, Orderly, NEW c \in Conn, pc[c] \in {"findDay", "countDay"}, Recorded(c),
           UNCHANGED <<today, player, cache, entered, used, straddled>>, Counted'
    PROVE  InStep(c)'
<1> USE AtRecording DEF Recording
<1>1. player' = cache'[c]
  OBVIOUS
<1>2. CASE "day" \in due[c]
  <2>1. pc'[c] = "resetDay" /\ UNCHANGED <<clock, due, claim>> /\ Types
    BY <1>2, AfterRecorded
  <2>2. LoginStep(c)'
    BY <1>2, <2>1 DEF LoginStep, Wiping, Kept
  <2> QED
    BY <1>1, <2>1, <2>2 DEF InStep, InLogin, InGame, Loading, Wiping, Resetting,
         Ending, Again, Claiming, ForMilestone, ForCard, ForGift
<1>3. CASE "day" \notin due[c]
  <2>1. pc'[c] = "idle"
    BY <1>3, AfterRecorded
  <2>2. GameStep(c)'
    BY <1>3 DEF GameStep, Kept
  <2> QED
    BY <1>1, <2>1, <2>2, GamePlaces
<1> QED
  BY <1>2, <1>3

LEMMA OrderFindDay ==
    ASSUME Types, Orderly, NEW c \in Conn, FindDay(c)
    PROVE  Orderly'
<1>1. /\ pc[c] = "findDay" /\ OthersOffline(c) /\ player = cache[c] /\ Counted
      /\ UNCHANGED <<today, player, cache, entered, signDays, addup, claimed, used, wiped, straddled>>
  BY AtRecording DEF FindDay, Recording, dbVars, history
<1>2. Counted'
  BY <1>1 DEF Counted
<1>3. InStep(c)'
  <2>1. CASE clock[c] \in signDays
    BY <1>1, <1>2, <2>1, RecordedStep DEF FindDay
  <2>2. CASE clock[c] \notin signDays
    <3>1. pc'[c] = "addDay" /\ UNCHANGED <<clock, due, claim>>
      BY <2>2 DEF FindDay, Goto, Types, TypeOK
    <3>2. "day" \in due[c] => LoginStep(c)'
      BY <1>1, <3>1, AtRecording DEF Recording, LoginStep, Wiping, Counted, Kept
    <3>3. "day" \notin due[c] => GameStep(c)'
      BY <1>1, <3>1, AtRecording DEF Recording, GameStep, Counted, Kept
    <3> QED
      BY <1>1, <2>2, <3>1, <3>2, <3>3 DEF InStep, InLogin, InGame, Loading, Wiping, Resetting,
         Recording, Ending, Again, Claiming, ForMilestone, ForCard, ForGift
  <2> QED
    BY <2>1, <2>2
<1> QED
  BY <1>1, <1>3, TypesFindDay, KnownRows, StoreStays

\* A day more than are counted.
LEMMA OrderAddDay ==
    ASSUME Types, Orderly, NEW c \in Conn, AddDay(c)
    PROVE  Orderly'
<1>1. /\ pc[c] = "addDay" /\ OthersOffline(c) /\ player = cache[c] /\ Counted /\ player # None
      /\ Types' /\ OnlyMoves(c) /\ pc'[c] = "countDay"
      /\ UNCHANGED <<today, player, cache, clock, due, claim, entered, addup, claimed, used, wiped, straddled>>
  BY AtRecording, TypesAddDay, NoneAssumption DEF AddDay, Recording, Goto, history, Types, TypeOK
<1>2. Cardinality(signDays') = Cardinality(signDays) + 1
  BY <1>1, AtRecording, FS_AddElement DEF AddDay, Recording
<1>3. Counted' /\ addup' < Cardinality(signDays')
  BY <1>1, <1>2, AtRecording DEF Counted, Recording
<1>4. ASSUME NEW row \in PlayerState, RowSound(row) PROVE RowSound(row)'
  BY <1>1, <1>3, <1>4 DEF RowSound, Kept
<1>5. CardsOnce'
  BY <1>1 DEF Orderly, CardsOnce
<1>6. InStep(c)'
  <2>1. "day" \in due[c] => LoginStep(c)'
    BY <1>1, <1>3, AtRecording DEF Recording, LoginStep, Wiping, Kept
  <2>2. "day" \notin due[c] => GameStep(c)'
    BY <1>1, <1>3, AtRecording DEF Recording, GameStep, Kept
  <2> QED
    BY <1>1, <1>3, <2>1, <2>2 DEF InStep, InLogin, InGame, Loading, Wiping, Resetting,
         Recording, Ending, Again, Claiming, ForMilestone, ForCard, ForGift
<1> QED
  BY <1>1, <1>4, <1>5, <1>6, RowsStay

\* Only now it is counted.
LEMMA OrderCountDay ==
    ASSUME Types, Orderly, NEW c \in Conn, CountDay(c)
    PROVE  Orderly'
<1>1. /\ pc[c] = "countDay" /\ OthersOffline(c) /\ player = cache[c] /\ player # None
      /\ Types' /\ OnlyMoves(c) /\ addup' = addup + 1
      /\ UNCHANGED <<today, player, cache, entered, signDays, claimed, used, wiped, straddled>>
  BY AtRecording, TypesCountDay, NoneAssumption DEF CountDay, Recording, history
<1>2. Counted'
  BY <1>1, AtRecording DEF Counted, Recording
<1>3. ASSUME NEW row \in PlayerState, RowSound(row) PROVE RowSound(row)'
  BY <1>1, <1>2, <1>3 DEF RowSound, Kept
<1>4. CardsOnce'
  BY <1>1 DEF Orderly, CardsOnce
<1>5. InStep(c)'
  BY <1>1, <1>2, RecordedStep DEF CountDay
<1> QED
  BY <1>1, <1>3, <1>4, <1>5, RowsStay

-----------------------------------------------------------------------------
(* One connection at a time: rewards and the rest. *)

\* What holds when a request starts, and while a reward is claimed.
LEMMA AtClaiming ==
    ASSUME Types, Orderly, NEW c \in Conn, pc[c] \in Claiming \cup {"idle"}
    PROVE  /\ OthersOffline(c) /\ player = cache[c] /\ cache[c] \in PlayerState /\ player # None
           /\ GameStep(c) /\ RowSound(cache[c])
<1>1. OthersOffline(c) /\ player = cache[c] /\ GameStep(c) /\ cache[c] \in PlayerState
  BY Lone DEF Orderly, InStep, InGame, Types, Holding, Loading, Ending, Again,
              Claiming, ForMilestone, ForCard, ForGift
<1> QED
  BY <1>1, KnownRows, NoneAssumption

LEMMA OrderBegins ==
    ASSUME Types, Orderly, NEW c \in Conn, Begins(c)
    PROVE  Orderly'
<1>1. /\ Types' /\ OnlyMoves(c) /\ due'[c] = {} /\ pc[c] = "idle" /\ clock'[c] = today
      /\ pc'[c] \in {"findDay", "findMilestone", "findCard", "claimGift"}
      /\ UNCHANGED <<today, player, cache, entered, signDays, addup, claimed, used, wiped, straddled>>
  BY TypesBegins DEF dbVars, history, OnlyMoves
<1>2. OthersOffline(c) /\ player = cache[c] /\ GameStep(c)
  BY <1>1, AtClaiming
<1>3. GameStep(c)'
  BY <1>1, <1>2 DEF GameStep, Counted, Kept
<1>4. InStep(c)'
  <2>1. CASE pc'[c] # "findCard"
    BY <1>1, <1>2, <1>3, <2>1, GamePlaces DEF Claiming, ForMilestone, ForCard, ForGift
  <2>2. CASE pc'[c] = "findCard"
    <3>1. claim'[c] = Card(today)
      BY <1>1, <2>2 DEF Begins, SignIn, ClaimCard, ClaimMilestone, ClaimGift, Begin, Goto, Types, TypeOK, Card
    <3>2. wiped[Card(today)] = 0
      <4>1. today \in Day /\ wiped[Card(today)] \in Nat
        BY Rewards DEF Types, TypeOK
      <4> QED
        BY <4>1, Days DEF Orderly, CardsOnce
    <3> QED
      BY <1>1, <1>2, <1>3, <2>2, <3>1, <3>2 DEF InStep, InLogin, InGame, Loading, Wiping, Resetting,
         Recording, Ending, Again, Claiming, ForMilestone, ForCard, ForGift
  <2> QED
    BY <2>1, <2>2
<1> QED
  BY <1>1, <1>2, <1>4, KnownRows, StoreStays

\* A claim changes neither days nor counters.
LEMMA ClaimingStep ==
    ASSUME Types, Orderly, NEW c \in Conn, Claims(c)
    PROVE  /\ Types' /\ OnlyMoves(c) /\ pc[c] \in Claiming /\ GameStep(c)'
           /\ player' = cache'[c]
           /\ UNCHANGED <<today, player, cache, signDays, addup, used, wiped, straddled>>
<1>1. /\ Types' /\ OnlyMoves(c) /\ pc[c] \in Claiming
      /\ UNCHANGED <<cache, entered>>
  BY TypesClaims
<1>2. player = cache[c] /\ GameStep(c)
  BY <1>1, AtClaiming
<1>3. UNCHANGED <<today, player, signDays, addup, used, wiped, straddled>>
  BY <1>2 DEF Claims, FindMilestone, AddMilestone, FindCard, AddCard, SaveCard, MarkGift, SaveGift,
         Pay, Save, dbVars, history
<1> QED
  BY <1>1, <1>2, <1>3 DEF GameStep, Counted, Kept

LEMMA OrderClaims ==
    ASSUME Types, Orderly, NEW c \in Conn, Claims(c)
    PROVE  Orderly'
<1>1. /\ Types' /\ OnlyMoves(c) /\ pc[c] \in Claiming /\ GameStep(c)' /\ player' = cache'[c]
      /\ UNCHANGED <<today, player, cache, signDays, addup, used, wiped, straddled>>
  BY ClaimingStep
<1>2. /\ OthersOffline(c) /\ player = cache[c] /\ player # None /\ GameStep(c) /\ Holding(c)
      /\ cache[c] \in PlayerState /\ InStep(c)
  BY <1>1, AtClaiming DEF Types, Orderly
<1>3. InStep(c)'
  <2>1. \/ pc'[c] = "idle"
        \/ pc'[c] = LeadsTo(c) /\ pc[c] # "saveCard" /\ UNCHANGED <<clock, claim>>
    BY TypesClaims
  <2>2. CASE pc'[c] # "addCard"
    <3>1. pc'[c] \in (Claiming \cup {"idle"}) \ {"findCard", "addCard"}
      BY <1>1, <2>1, <2>2 DEF LeadsTo, Claiming, ForMilestone, ForCard, ForGift
    <3> QED
      BY <1>1, <3>1, GamePlaces
  <2>3. CASE pc'[c] = "addCard"
    <3>1. pc[c] = "findCard" /\ UNCHANGED <<clock, claim>>
      BY <1>1, <2>1, <2>3 DEF LeadsTo, Claiming, ForMilestone, ForCard, ForGift
    <3>2. cache[c].signInDay = clock[c]
      BY <2>3, <3>1 DEF Claims, FindMilestone, AddMilestone, FindCard, AddCard, SaveCard, MarkGift,
         SaveGift, Pay, Return, Goto, Types, TypeOK
    <3>3. claim[c] = Card(clock[c]) /\ wiped[claim[c]] = 0
      BY <1>2, <3>1 DEF InStep
    <3> QED
      BY <1>1, <2>3, <3>1, <3>2, <3>3 DEF InStep, InLogin, InGame, Loading, Wiping, Resetting,
         Recording, Ending, Again, Claiming, ForMilestone, ForCard, ForGift
  <2> QED
    BY <2>2, <2>3
<1>4. \/ \A d \in Day : Card(d) \in claimed' <=> Card(d) \in claimed
      \/ /\ AddCard(c) /\ claimed' = claimed \cup {claim[c]} /\ claim[c] \notin claimed
         /\ pc[c] = "addCard"
  <2>1. CASE AddCard(c)
    BY <2>1 DEF AddCard
  <2>2. CASE AddMilestone(c) \/ MarkGift(c)
    <3>1. claimed' \subseteq claimed \cup {claim[c]} /\ claimed \subseteq claimed'
      BY <2>2 DEF AddMilestone, MarkGift
    <3>2. \A d \in Day : Card(d) # claim[c]
      BY <1>2, <2>2 DEF AddMilestone, MarkGift, Holding, ForMilestone, ForGift, Card,
         MilestoneReward, GiftReward
    <3> QED
      BY <3>1, <3>2
  <2>3. CASE ~AddCard(c) /\ ~AddMilestone(c) /\ ~MarkGift(c)
    BY <2>3 DEF Claims, FindMilestone, FindCard, SaveCard, SaveGift, Pay, dbVars
  <2> QED
    BY <2>1, <2>2, <2>3
<1>5. CASE \A d \in Day : Card(d) \in claimed' <=> Card(d) \in claimed
  <2>1. ASSUME NEW row \in PlayerState, RowSound(row) PROVE RowSound(row)'
    BY <1>1, <1>5, <2>1 DEF RowSound, Counted, Kept
  <2>2. CardsOnce'
    BY <1>1, <1>5 DEF Orderly, CardsOnce
  <2> QED
    BY <1>1, <1>2, <1>3, <2>1, <2>2, RowsStay
<1>6. CASE claimed' = claimed \cup {claim[c]} /\ claim[c] \notin claimed /\ pc[c] = "addCard"
  <2> DEFINE now == clock[c]
  <2>1. /\ claim[c] = Card(now) /\ wiped[claim[c]] = 0 /\ cache[c].signInDay = now
        /\ now \in Day /\ now <= cache[c].signIn
    <3>1. claim[c] = Card(now) /\ wiped[claim[c]] = 0 /\ cache[c].signInDay = now /\ now \in Day
      BY <1>2, <1>6 DEF InStep, Holding
    <3> QED
      BY <1>2, <3>1 DEF GameStep
  <2>2. \A d \in Day : Card(d) \in claimed' <=> Card(d) \in claimed \/ d = now
    BY <1>6, <2>1 DEF Card
  <2>3. ASSUME NEW row \in PlayerState, RowSound(row), row = player \/ row = cache[c] PROVE RowSound(row)'
    BY <1>1, <1>2, <2>1, <2>2, <2>3 DEF RowSound, Counted, Kept
  <2>4. CardsOnce'
    <3>1. ASSUME NEW d \in Day
          PROVE  /\ wiped[Card(d)] + (IF Card(d) \in claimed' THEN 1 ELSE 0) <= 1
                 /\ wiped[Card(d)] > 0 => d < today
      BY <2>1, <2>2 DEF Orderly, CardsOnce
    <3> QED
      BY <1>1, <3>1 DEF CardsOnce
  <2> QED
    BY <1>1, <1>2, <1>3, <2>3, <2>4, RowsStay
<1> QED
  BY <1>4, <1>5, <1>6

LEMMA OrderStatePush ==
    ASSUME Types, Orderly, NEW c \in Conn, StatePush(c)
    PROVE  Orderly'
<1> DEFINE new == [cache[c] EXCEPT !.statePush = today]
<1>1. /\ Types' /\ OnlyMoves(c) /\ pc[c] = "idle" /\ pc'[c] = "idle"
      /\ cache'[c] = new /\ player' = new
      /\ UNCHANGED <<today, clock, due, claim, entered, signDays, addup, claimed, used, wiped, straddled>>
  BY TypesStatePush DEF StatePush, Save, history
<1>2. /\ OthersOffline(c) /\ player = cache[c] /\ GameStep(c) /\ RowSound(cache[c])
      /\ cache[c] \in PlayerState /\ today \in Day
  BY <1>1, AtClaiming DEF Types, TypeOK
<1>3. new \in PlayerState /\ new.signIn = cache[c].signIn /\ new.signInDay = cache[c].signInDay
  BY <1>2, NewRows DEF PlayerState
<1> HIDE DEF new
<1>4. RowSound(new)
  BY <1>2, <1>3 DEF RowSound
<1>5. GameStep(c)'
  BY <1>1, <1>2, <1>3 DEF GameStep, Counted, Kept
<1>6. InStep(c)'
  BY <1>1, <1>5, GamePlaces
<1> QED
  BY <1>1, <1>2, <1>3, <1>4, <1>6, NoneAssumption, StoreStays

\* A counter that is used is as new as can be.
LEMMA OrderUse ==
    ASSUME Types, Orderly, NEW c \in Conn, NEW p \in Period, Use(c, p)
    PROVE  Orderly'
<1>1. /\ Types' /\ OnlyMoves(c) /\ pc[c] = "idle" /\ used' = [used EXCEPT ![p] = today]
      /\ UNCHANGED <<today, player, cache, pc, clock, due, claim, entered, signDays, addup, claimed, wiped, straddled>>
  BY TypesUse DEF Use, Ready, connVars, history
<1>2. OthersOffline(c) /\ player = cache[c] /\ player # None /\ GameStep(c) /\ today \in Day
  BY <1>1, AtClaiming DEF Types, TypeOK
<1>3. ASSUME NEW q \in Period, NEW d \in Day, d <= today, Kept(q, d) PROVE Kept(q, d)'
  <2>1. used'[q] = IF q = p THEN today ELSE used[q]
    BY <1>1 DEF Types, TypeOK
  <2> QED
    BY <1>2, <1>3, <2>1, Calendar DEF Kept
<1>4. "week" \in Period /\ "month" \in Period
  BY DEF Period
<1>5. ASSUME NEW row \in PlayerState, RowSound(row) PROVE RowSound(row)'
  <2>1. row.signIn \in {Never} \cup Day
    BY DEF PlayerState
  <2> QED
    BY <1>1, <1>3, <1>4, <1>5, <2>1 DEF RowSound, Counted
<1>6. CardsOnce'
  BY <1>1 DEF Orderly, CardsOnce
<1>7. GameStep(c)'
  <2>1. entered[c] <= today
    BY DEF Types, Holding
  <2> QED
    BY <1>1, <1>2, <1>3, <1>4, <2>1 DEF GameStep, Counted
<1>8. InStep(c)'
  BY <1>1, <1>2, <1>7, GamePlaces
<1> QED
  BY <1>1, <1>2, <1>5, <1>6, <1>8, RowsStay

\* A closing connection stores a copy of the row that is sound.
LEMMA OrderClose ==
    ASSUME Types, Orderly, NEW c \in Conn, Close(c)
    PROVE  Orderly'
<1>1. /\ Types' /\ OnlyMoves(c) /\ pc'[c] = "offline" /\ cache'[c] = None
      /\ player' = player \/ (cache[c] # None /\ player' = cache[c])
      /\ UNCHANGED <<signDays, addup, claimed, used, wiped, straddled>>
  BY TypesClose DEF Close
<1>2. OthersOffline(c)
  BY Lone DEF Close
<1> QED
  BY <1>1, <1>2, OfflineInStep, NoneAssumption, KnownRows, StoreStays

LEMMA OrderCrash == ASSUME Types, Orderly, Crash PROVE Orderly'
<1>1. /\ \A c \in Conn : pc'[c] = "offline" /\ cache'[c] = None
      /\ UNCHANGED <<today, player, signDays, addup, claimed, used, wiped, straddled>>
  BY DEF Crash, dbVars
<1>2. ASSUME NEW row \in PlayerState, RowSound(row) PROVE RowSound(row)'
  BY <1>1, <1>2 DEF RowSound, Counted, Outdated, Kept
<1>3. Rows'
  <2>1. player = None => Untouched'
    BY <1>1 DEF Orderly, Rows, Untouched
  <2> QED
    BY <1>1, <1>2, <2>1, NoneAssumption DEF Orderly, Rows
<1>4. CardsOnce'
  BY <1>1 DEF Orderly, CardsOnce
<1>5. Alone' /\ \A c \in Conn : InStep(c)'
  BY <1>1, OfflineInStep DEF Alone
<1> QED
  BY <1>3, <1>4, <1>5 DEF Orderly

\* Time passing outdates a row at most.
LEMMA OrderNextDay == ASSUME Types, Orderly, NextDay PROVE Orderly'
<1>1. /\ today \in Day /\ today' \in Day /\ today <= today' /\ today \in Nat /\ today' \in Nat
      /\ \A d \in Day : d < today => d < today'
  BY Days, DailyAssumption DEF NextDay, Types, TypeOK, Day
<1>2. UNCHANGED <<player, signDays, addup, claimed, used, pc, cache, clock, due, claim, wiped, entered, straddled>>
  BY DEF NextDay, dbVars, connVars, history
<1>3. ASSUME NEW row \in PlayerState, RowSound(row) PROVE RowSound(row)'
  <2>1. row.signIn \in {Never} \cup Day /\ row.signInDay \in Day
    BY DEF PlayerState
  <2>2. row.signIn \in Nat /\ row.signInDay \in Nat
    BY <2>1, Days
  <2>3. Outdated(row.signIn, today) => Outdated(row.signIn, today')
    <3>1. Month[today] \in Nat /\ Month[today'] \in Nat /\ Month[today] <= Month[today']
      BY <1>1, DailyAssumption
    <3>2. row.signIn \in Day => Month[row.signIn] \in Nat
      BY DailyAssumption
    <3> QED
      BY <2>1, <3>1, <3>2 DEF Outdated
  <2>4. row.signIn <= today' /\ row.signInDay <= today'
    BY <1>1, <1>3, <2>2 DEF RowSound
  <2>5. Outdated(row.signIn, today)' <=> Outdated(row.signIn, today')
    BY DEF Outdated
  <2> QED
    BY <1>2, <1>3, <2>3, <2>4, <2>5 DEF RowSound, Counted, Kept
<1>4. Rows'
  BY <1>2, <1>3 DEF Orderly, Rows, Untouched
<1>5. CardsOnce'
  BY <1>1, <1>2 DEF Orderly, CardsOnce
<1>6. Alone' /\ \A c \in Conn : InStep(c)'
  BY <1>2 DEF Orderly, Alone, InStep, InLogin, InGame, LoginStep, GameStep, Counted, Outdated, Kept
<1> QED
  BY <1>4, <1>5, <1>6 DEF Orderly

LEMMA OrderStay == ASSUME Orderly, UNCHANGED vars PROVE Orderly'
<1>1. UNCHANGED <<today, player, signDays, addup, claimed, used, pc, cache, clock, due, claim, wiped, entered, straddled>>
  BY DEF vars, dbVars, connVars, history
<1>2. Alone' /\ CardsOnce' /\ \A c \in Conn : InStep(c)'
  BY <1>1 DEF Orderly, Alone, CardsOnce, InStep, InLogin, InGame, LoginStep, GameStep, Counted, Outdated, Kept
<1>3. Rows'
  BY <1>1 DEF Orderly, Rows, RowSound, Untouched, Counted, Outdated, Kept
<1> QED
  BY <1>2, <1>3 DEF Orderly

LEMMA OrderAtStart == ASSUME Init PROVE Orderly
<1>1. \A c \in Conn : pc[c] = "offline" /\ cache[c] = None
  BY DEF Init
<1>2. Alone /\ \A c \in Conn : InStep(c)
  BY <1>1 DEF Alone, InStep, InLogin, InGame, Loading, Wiping, Resetting, Recording, Ending, Again,
         Claiming, ForMilestone, ForCard, ForGift
<1>3. CardsOnce
  <2>1. \A d \in Day : wiped[Card(d)] = 0 /\ Card(d) \notin claimed
    BY Rewards DEF Init
  <2> QED
    BY <2>1 DEF CardsOnce
<1>4. Rows
  <2>1. Untouched
    BY DEF Init, Untouched
  <2>2. Cardinality(signDays) = 0
    BY FS_EmptySet DEF Init
  <2>3. ASSUME NEW row \in PlayerState, row = player PROVE RowSound(row)
    <3>1. row.signIn = Never /\ row.signInDay = 1 /\ today = 1
      BY <2>3, NoneAssumption DEF Init, CreatedState
    <3> QED
      BY <2>1, <2>2, <3>1, Days DEF RowSound, Untouched, Counted
  <2> QED
    BY <1>1, <2>1, <2>3, NoneAssumption DEF Rows
<1> QED
  BY <1>2, <1>3, <1>4 DEF Orderly

-----------------------------------------------------------------------------
(* The invariant. *)

\* Once two connections were open, that is remembered.
LEMMA OverlapStays == ASSUME Types, [Next]_vars, overlapped PROVE overlapped'
<1>1. ASSUME NEW c \in Conn, Serves(c) PROVE overlapped'
  <2>1. CASE Begins(c)
    BY <2>1, TypesBegins DEF history
  <2>2. CASE Advances(c)
    BY <2>2 DEF Advances, WipeDays, WipeCards, WipeMilestones, WipeClaims, ResetMonth, ResetWeek,
         ResetDay, ResetCounters, MarkSignIn, history
  <2>3. CASE Claims(c)
    BY <2>3 DEF Claims, FindMilestone, AddMilestone, FindCard, AddCard, SaveCard, MarkGift, SaveGift,
         Pay, history
  <2> QED
    BY <1>1, <2>1, <2>2, <2>3 DEF Serves, Login, LoadState, CreateState, ReadClock, CheckDue,
         SaveLogin, FindDay, AddDay, CountDay, StatePush, Close, Use, history
<1> QED
  BY <1>1, Steps DEF NextDay, Crash, vars, history

LEMMA OrderServes ==
    ASSUME Types, Orderly, ~overlapped', NEW c \in Conn, Serves(c)
    PROVE  Orderly'
  BY OrderLogin, OrderLoadState, OrderCreateState, OrderReadClock, OrderCheckDue, OrderWipes,
     OrderResets, OrderMarkSignIn, OrderSaveLogin, OrderFindDay, OrderAddDay, OrderCountDay,
     OrderBegins, OrderClaims, OrderStatePush, OrderClose, OrderUse DEF Serves, Advances, Wipes

LEMMA InvariantAtStart == Init => IInv
  BY TypesAtStart, PaidForAtStart, OrderAtStart DEF IInv

LEMMA InvariantKept == IInv /\ [Next]_vars => IInv'
<1> SUFFICES ASSUME IInv, [Next]_vars PROVE IInv'
  OBVIOUS
<1>1. Types' /\ AllPaidFor'
  BY TypesKept, PaidForKept DEF IInv
<1>2. ASSUME ~overlapped' PROVE Orderly'
  <2>1. Types /\ Orderly
    BY <1>2, OverlapStays DEF IInv
  <2> QED
    BY <1>2, <2>1, Steps, OrderServes, OrderNextDay, OrderCrash, OrderStay
<1> QED
  BY <1>1, <1>2 DEF IInv

THEOREM Invariance == Spec => []IInv
  BY InvariantAtStart, InvariantKept, PTL DEF Spec

\* With one connection at a time, a request finds the stored row in its cache.
THEOREM CacheStored == Spec => []CacheIsStored
<1>1. IInv => CacheIsStored
  BY DEF IInv, Types, Orderly, InStep, CacheIsStored, Ready, Loading, Ending, Again
<1> QED
  BY <1>1, Invariance, PTL

\* With one connection at a time, the sign-in count is never above the days it
\* is shown with, wherever logins stop between the statements that reset them.
THEOREM CountNeverAhead == Spec => []AddupCountsDays
<1>1. IInv => AddupCountsDays
  <2> SUFFICES ASSUME IInv, ~overlapped, NEW c \in Conn, Ready(c) PROVE addup <= Cardinality(signDays)
    BY DEF AddupCountsDays
  <2>1. GameStep(c)
    BY AtClaiming DEF IInv, Ready
  <2> QED
    BY <2>1 DEF GameStep, Counted
<1> QED
  BY <1>1, Invariance, PTL

\* A milestone or a card is paid once per claim, whatever connections do; with
\* one connection at a time, a day's card is paid once for good.
THEOREM PaidOnce == Spec => []PaidOncePerClaim
<1>1. IInv => PaidOncePerClaim
  <2> SUFFICES ASSUME IInv PROVE PaidOncePerClaim
    OBVIOUS
  <2>1. ASSUME ~overlapped, NEW r \in CardReward PROVE paid[r] <= 1
    <3>1. PICK d \in Day : r = Card(d)
      BY DEF CardReward, Card
    <3>2. /\ wiped[r] + (IF r \in claimed THEN 1 ELSE 0) <= 1
          /\ paid[r] + Paying(r, {"pay"}) <= wiped[r] + (IF r \in claimed THEN 1 ELSE 0)
      BY <2>1, <3>1, Rewards DEF IInv, Orderly, CardsOnce, AllPaidFor, PaidFor
    <3>3. paid[r] \in Nat /\ wiped[r] \in Nat /\ Paying(r, {"pay"}) \in Nat
      BY Rewards, PaidCounts, PayingCounts DEF IInv
    <3> QED
      BY <3>2, <3>3
  <2> QED
    BY <2>1 DEF IInv, AllPaidFor, PaidFor, PaidOncePerClaim
<1> QED
  BY <1>1, Invariance, PTL

\* With one connection at a time, and no login that crosses the start of a day,
\* no counter of a week or month before the login's survives it.
THEOREM CountersReset == Spec => []ShopResets
<1>1. IInv => ShopResets
  <2> SUFFICES ASSUME IInv, ~overlapped, ~straddled, NEW c \in Conn, Ready(c)
               PROVE  /\ used["week"] = Never \/ Week[used["week"]] >= Week[entered[c]]
                      /\ used["month"] = Never \/ Month[used["month"]] >= Month[entered[c]]
    BY DEF ShopResets
  <2>1. GameStep(c)
    BY AtClaiming DEF IInv, Ready
  <2> QED
    BY <2>1 DEF GameStep, Kept
<1> QED
  BY <1>1, Invariance, PTL
=============================================================================
