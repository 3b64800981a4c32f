------------------------------ MODULE WalletMoves ------------------------------
(***************************************************************************)
(* What the theorems about module Wallet are stated with: the types of the *)
(* state and of the statements a handler has still to execute, and the few *)
(* kinds of moves that the steps of its services are.                      *)
(***************************************************************************)
EXTENDS Wallet, Sums

Parcels == Seq(Thing \X Int)

-----------------------------------------------------------------------------
(* Types.  Fits(x) says what statement x may be about.                     *)

Whole(info) == \A part \in Part : IsList(info[part])

CountOps == {"take", "pay", "deduct", "refund", "add", "withdraw", "equip", "saveCard", "saveCharge",
             "saveStats", "readStamina", "saveStamina", "readUp", "count", "levelUp", "saveTalent"}
RankOps == {"saveLevel", "saveRank", "raise"}
HeroWork == HeroOps \cup {"createHero", "duplicate", "buyDupe", "pullDupe", "useDupe", "levelUp",
                          "rankUp", "upgradeSkill", "upgradeOther", "talentUp", "readSkill",
                          "saveLevel", "saveRank", "saveSkill", "saveTalent", "hasSkin", "saveSkin"}
StyleOps == {"unlockStyle", "readBits", "insertStyle", "saveBits"}
PackOps == {"readCard", "saveCard", "readCharge", "saveCharge", "readStats", "saveStats"}
PoolOps == {"readDiscount", "readUp", "load", "pull", "save", "useDiscount", "count", "log", "deleteUp"}
LayoutOps == {"putCube", "removeCube", "insertCube", "syncCubes", "removeActive", "insertActive",
              "loadScheme", "wipeCubes", "wipeActive", "switchTemplate", "useTemplate",
              "wearStyle", "saveWorn"}

Fits(x) ==
    /\ x.n \in Int
    /\ x.op \in CountOps => x.n \in Nat
    /\ x.op \in RankOps => x.n \in Nat \ {0}
    /\ x.op = "saveSkill" => x.n \in Skill
    /\ x.op = "saveSkin" => x.n \in 0..3
    /\ x.op \in HeroWork => x.what \in Hero
    /\ x.op \in StyleOps => x.what[1] \in Hero /\ x.what[2] \in Style
    /\ x.op \in {"limit", "countBuy"} => x.what \in Goods /\ x.n \in Quantity
    /\ x.op \in PackOps => x.what \in Pack
    /\ x.op = "open" => x.what[1] \in Consumable /\ x.what[2] \in DOMAIN Effect[x.what[1]].gives
    /\ x.op \in {"applyInsight", "raise"} => x.what[1] \in InsightRow /\ x.what[2] \in Hero
    /\ x.op \in PoolOps => x.what \in Pool
    /\ x.op \in {"option", "settle"} => /\ x.what[1] \in Pool /\ x.what[2] \in Offer
                                        /\ x.n \in 1..Len(Options[x.what[1]][x.what[2]])
    /\ x.op = "convert" => x.what \in Nat
    /\ x.op = "insertUp" => x.what[1] \in Pool /\ x.what[2] \in Hero
    /\ x.op \in LayoutOps => x.what[1] \in Hero /\ x.what[2] \in Template
    /\ x.op = "loadScheme" => x.what[3] \in DOMAIN Scheme
    /\ x.op \in {"wearStyle", "saveWorn"} => x.what[3] \in Style \cup {NoStyle}
    /\ x.op \in {"findTeam", "newTeam"} => Whole(x.what[3])
    /\ x.op = "findCommon" => Whole(x.what[2])
    /\ x.op = "setEquip" => IsList(x.what[3])
    /\ x.op \in {"readOrder", "insertOrder"} => x.what[1] \in Snapshot
    /\ x.op = "wipeOrder" => x.what \in Snapshot
    /\ x.op = "saveLevelArg" => x.what \in 1..MaxLevel

JobTypes ==
    /\ job = [c \in Conn |-> job[c]]
    /\ \A c \in Conn : IsList(job[c]) /\ \A x \in ToSet(job[c]) : Fits(x)

OwnedTypes ==
    /\ balance \in [Material -> Int] /\ present \in [Material -> BOOLEAN]
    /\ withdrawn \in [Material -> Nat]
    /\ pieces \subseteq Nat /\ IsFiniteSet(pieces)
    /\ heroes \subseteq Hero /\ duplicates \in [Hero -> Nat]

HistoryTypes ==
    /\ outcome \in [Conn -> Outcome]
    /\ bill \in [Conn -> [price : Amounts, product : Amounts]]
    /\ settled \in [Conn -> [price : Amounts, product : Amounts]]
    /\ taken \in [Material -> Nat] /\ dearest \in Nat
    /\ overlapped \in BOOLEAN /\ served \in Nat /\ faults \in Nat

StoreTypes ==
    /\ bought \in [Goods -> Int] /\ charged \in [Pack -> Nat] /\ spent \in Nat
    /\ cardUntil \in [Pack -> Nat] /\ orders \in [Pack -> Nat]

GrowthTypes ==
    /\ grown \in [Hero -> Grown] /\ styles \in [Hero -> SUBSET Style]
    /\ bits \in [Hero -> SUBSET Style] /\ bitsRead \in [Conn -> SUBSET Style]
    /\ skin \in [Hero -> 0..3]

ItemTypes ==
    /\ stamina \in Nat /\ expired \subseteq ExpiredRow /\ left \in [InsightRow -> Int]
    /\ raises \in [InsightRow -> Nat]

MailTypes == claimed \in BOOLEAN /\ claims \in Nat /\ deliveries \in Nat

Memory == [up : SUBSET Hero, pity : 0..HardPity, guaranteed : BOOLEAN, discounted : BOOLEAN]

SummonTypes ==
    /\ pity \in [Pool -> 0..HardPity] /\ guaranteed \in [Pool -> BOOLEAN]
    /\ chosen \in [Pool -> SUBSET Hero] /\ discounts \in [Pool -> Nat]
    /\ counts \in [Pool -> Nat] /\ logged \in [Pool -> Nat] /\ mem \in [Conn -> Memory]
    /\ asked \in [Pool -> Nat] /\ dry \in [Pool -> Nat] /\ lost \in [Pool -> Nat]

LayoutTypes ==
    /\ layouts = [h \in Hero |-> [t \in Template |-> layouts[h][t]]]
    /\ \A h \in Hero, t \in Template : IsList(layouts[h][t])
    /\ inUse \in [Hero -> Template] /\ worn \in [Hero -> [Template -> Style \cup {NoStyle}]]

GroupTypes ==
    /\ lastId \in Nat /\ DOMAIN teams \subseteq 1..lastId /\ DOMAIN meant = DOMAIN teams
    /\ DOMAIN sorted = Snapshot /\ \A s \in Snapshot : IsFiniteSet(DOMAIN sorted[s])
    /\ DOMAIN common = Common

GmTypes == userLevel \in 1..MaxLevel

StateTypes ==
    /\ OwnedTypes /\ HistoryTypes /\ StoreTypes /\ GrowthTypes /\ ItemTypes /\ MailTypes
    /\ SummonTypes /\ LayoutTypes /\ GroupTypes /\ GmTypes

Types == JobTypes /\ StateTypes

-----------------------------------------------------------------------------
(* Moves.  What a step of Next does to the jobs, and with which statement   *)
(* at the head of one it changes what the theorems are about.              *)

\* The statements whose place in a job matters: each is put there by one action.
\* Lone are those of an insight item, of the expired power and of a roll.
Scarce == {"readMail", "listMails", "markMail", "limit", "countBuy", "deduct", "saveWorn",
           "findTeam", "wipePart", "dropTeam", "newTeam", "insertPart"}
Lone == {"applyInsight", "raise", "spendInsight", "findExpired", "deletePower", "readStamina",
         "saveStamina", "load", "pull", "save"}
Rare == {"readMail", "listMails", "markMail", "limit", "countBuy", "deduct", "saveWorn",
         "findTeam", "wipePart", "dropTeam", "newTeam", "insertPart",
         "applyInsight", "raise", "spendInsight", "findExpired", "deletePower", "readStamina",
         "saveStamina", "load", "pull", "save"}

\* Handlers that keep to themselves: that give and no longer decline, that pay for a
\* summon, and that save a team.
GiftWork == {"add", "withdraw", "nextUid", "equip", "mailHero", "createHero", "duplicate", "markMail", "logMail",
             "pullHero", "pullDupe", "hasSkin", "saveSkin"}
CashWork == {"readDiscount", "option", "settle", "convert", "take", "deduct", "refund", "readUp"}
TeamWork == {"findTeam", "wipePart", "dropTeam", "newTeam", "insertPart",
             "readOrder", "wipeOrder", "insertOrder", "findCommon", "wipeCommon", "insertCommon"}

Within(s, W) == \A x \in ToSet(s) : x.op \in W
Fine(s) == IsList(s) /\ \A x \in ToSet(s) : Fits(x)
Plain(s) == Fine(s) /\ \A x \in ToSet(s) : x.op \notin Rare
Tame(s) == Fine(s) /\ \A x \in ToSet(s) : x.op \notin Scarce

HeadOf(c) == Head(job[c]).op
Same == faults' = faults /\ overlapped' = overlapped
Kept == UNCHANGED <<bought, claimed, deliveries, worn, teams, meant, lastId>>
NoLess == \A m \in Material : balance'[m] + withdrawn'[m] >= balance[m] + withdrawn[m]
Onward(c, now) == job[c] # <<>> /\ job' = [job EXCEPT ![c] = now \o Tail(job[c])]

Purchase(s) ==
    \E g \in Goods, n \in Quantity : \E u, w, v :
       /\ Plain(u) /\ Plain(w) /\ Plain(v)
       /\ s = << Stmt("limit", g, n) >> \o u \o w \o << Stmt("countBuy", g, n) >> \o v

SaveOfTeam(s) ==
    \E x, y, z : /\ x.op = "findTeam" /\ y.op = "readOrder" /\ z.op = "findCommon"
                 /\ Fits(x) /\ Fits(y) /\ Fits(z)
                 /\ s = <<x, y, z>>

\* The requests that bring statements of Lone.
Opens(s) ==
    \/ \E r \in InsightRow, h \in Hero : s = << Stmt("applyInsight", <<r, h>>, 0) >>
    \/ s = << Stmt("findExpired", "all", 0) >>
    \/ \E p \in Pool, n \in Few \cup {Many} : \E x :
          /\ x.op \in {"option", "readDiscount"}
          /\ s = << x >> \o RollPlan(p, n)

\* What such a statement brings in its turn, and what it does.
Lends(op, new) ==
    \/ op = "applyInsight" /\ new \in {"raise", "spendInsight"}
    \/ op = "findExpired" /\ new \in {"deletePower", "readStamina"}
    \/ op = "readStamina" /\ new = "saveStamina"

LoneStep(c) ==
    \/ ApplyInsight(c) \/ Raise(c) \/ SpendInsight(c)
    \/ FindExpired(c) \/ DeletePower(c) \/ ReadStamina(c) \/ SaveStamina(c)
    \/ Load(c) \/ PullSix(c) \/ PullLower(c) \/ SaveCounters(c)

Begins(c) ==
    /\ job[c] = <<>>
    /\ faults' = faults /\ overlapped' = (overlapped \/ \E d \in Conn : job[d] # <<>>)
    /\ \E s : /\ job' = [job EXCEPT ![c] = s]
              /\ \/ Plain(s) \/ (Tame(s) /\ Opens(s)) \/ Purchase(s) \/ SaveOfTeam(s)
                 \/ \E op \in {"readMail", "listMails"} : s = << Stmt(op, "mail", 0) >>
    /\ Kept /\ UNCHANGED <<dearest, balance, withdrawn>>

GoesOn(c) ==
    /\ HeadOf(c) \notin Scarce /\ (HeadOf(c) \in Lone => LoneStep(c))
    /\ \E now : /\ Onward(c, now) /\ Tame(now)
                /\ \A x \in ToSet(now) : x.op \in Lone => Lends(HeadOf(c), x.op)
                /\ HeadOf(c) \in GiftWork => Within(now, GiftWork)
                /\ HeadOf(c) \in CashWork => Within(now, CashWork)
                /\ HeadOf(c) \in TeamWork => Within(now, TeamWork)
    /\ Same /\ Kept /\ NoLess /\ UNCHANGED dearest

PutsLast(c) ==
    /\ job[c] # <<>> /\ HeadOf(c) = "buyDupe"
    /\ \E last : Plain(last) /\ job' = [job EXCEPT ![c] = Tail(job[c]) \o last]
    /\ Same /\ Kept /\ UNCHANGED <<dearest, balance, withdrawn>>

Stops(c) ==
    /\ job[c] # <<>> /\ job' = [job EXCEPT ![c] = <<>>]
    /\ \/ faults' = faults + 1
       \/ faults' = faults /\ HeadOf(c) \notin GiftWork /\ (HeadOf(c) \in Lone => HeadOf(c) = "applyInsight")
    /\ overlapped' = overlapped
    /\ Kept /\ UNCHANGED <<dearest, balance, withdrawn>>

Decides(c) ==
    /\ HeadOf(c) \in {"take", "pay"}
    /\ balance[What(c)] >= Amount(c) \/ What(c) \notin Material
    /\ Onward(c, << Stmt("deduct", What(c), Amount(c)) >>)
    /\ dearest' = Max({dearest, Amount(c)})
    /\ Same /\ Kept /\ UNCHANGED <<balance, withdrawn>>

Deducts(c) ==
    /\ HeadOf(c) = "deduct" /\ Onward(c, <<>>)
    /\ balance' = [balance EXCEPT ![What(c)] = @ - Amount(c)]
    /\ Same /\ Kept /\ UNCHANGED <<dearest, withdrawn>>

FindsMail(c) ==
    /\ HeadOf(c) \in {"readMail", "listMails"}
    /\ ~claimed /\ deliveries' = deliveries + 1
    /\ \E now : /\ Onward(c, now) /\ Fine(now) /\ Within(now, GiftWork)
                /\ \E x \in ToSet(now) : x.op = "markMail"
    /\ Same /\ UNCHANGED <<bought, claimed, worn, teams, meant, lastId, dearest, balance, withdrawn>>

MarksMail(c) ==
    /\ HeadOf(c) = "markMail" /\ Onward(c, <<>>) /\ claimed'
    /\ Same /\ UNCHANGED <<bought, deliveries, worn, teams, meant, lastId, dearest, balance, withdrawn>>

PassesLimit(c) ==
    /\ HeadOf(c) = "limit" /\ Onward(c, <<>>)
    /\ BuyLimit[What(c)] > 0 => bought[What(c)] + Amount(c) <= BuyLimit[What(c)]
    /\ Same /\ Kept /\ UNCHANGED <<dearest, balance, withdrawn>>

Counts(c) ==
    /\ HeadOf(c) = "countBuy" /\ Onward(c, <<>>)
    /\ bought' = [bought EXCEPT ![What(c)] = @ + Amount(c)]
    /\ Same
    /\ UNCHANGED <<claimed, deliveries, worn, teams, meant, lastId, dearest, balance, withdrawn>>

Wears(c) ==
    /\ HeadOf(c) = "wearStyle"
    /\ Detail(c) = NoStyle \/ Detail(c) \in styles[HeroOf(c)]
    /\ Onward(c, << On("saveWorn", HeroOf(c), TemplateOf(c), Detail(c)) >>)
    /\ Same /\ Kept /\ UNCHANGED <<dearest, balance, withdrawn>>

SavesWorn(c) ==
    /\ HeadOf(c) = "saveWorn" /\ Onward(c, <<>>)
    /\ worn' = [worn EXCEPT ![HeroOf(c)][TemplateOf(c)] = Detail(c)]
    /\ Same
    /\ UNCHANGED <<bought, claimed, deliveries, teams, meant, lastId, dearest, balance, withdrawn>>

FindsTeam(c) ==
    /\ HeadOf(c) = "findTeam"
    /\ \E now : /\ Onward(c, now) /\ Fine(now)
                /\ Within(now, {"wipePart", "dropTeam", "newTeam"})
    /\ Same /\ Kept /\ UNCHANGED <<dearest, balance, withdrawn>>

ChangesTeam(c) ==
    /\ HeadOf(c) \in {"wipePart", "dropTeam", "insertPart"} /\ Onward(c, <<>>)
    /\ Same /\ (WipePart(c) \/ DropTeam(c) \/ InsertPart(c))
    /\ UNCHANGED <<bought, claimed, deliveries, worn, lastId, dearest, balance, withdrawn>>

MakesTeam(c) ==
    /\ HeadOf(c) = "newTeam" /\ NewTeam(c) /\ Same
    /\ UNCHANGED <<bought, claimed, deliveries, worn, dearest, balance, withdrawn>>

Grows == \A h \in Hero : styles[h] \subseteq styles'[h]

Move(c) ==
    /\ Grows
    /\ \/ Begins(c) \/ GoesOn(c) \/ PutsLast(c) \/ Stops(c)
       \/ Decides(c) \/ Deducts(c)
       \/ FindsMail(c) \/ MarksMail(c)
       \/ PassesLimit(c) \/ Counts(c)
       \/ Wears(c) \/ SavesWorn(c)
       \/ FindsTeam(c) \/ ChangesTeam(c) \/ MakesTeam(c)

\* --- What a step does to the only job there is

InsightOps == {"applyInsight", "raise", "spendInsight"}
PowerOps == {"findExpired", "deletePower", "readStamina", "saveStamina"}
RollOps == {"load", "pull", "save"}

Clear(s, W) == \A x \in ToSet(s) : x.op \notin W

\* The only request being served arrives, goes on, puts a reward last, or ends:
\* by an error, or by a refusal that only some statements may give.
Arrives(c) == job[c] = <<>> /\ faults' = faults /\ (Clear(job'[c], Lone) \/ Opens(job'[c]))

Carries(c, now) ==
    /\ job[c] # <<>> /\ faults' = faults /\ job'[c] = now \o Tail(job[c]) /\ IsList(now)
    /\ HeadOf(c) \in Lone => LoneStep(c)
    /\ \A x \in ToSet(now) : x.op \in Lone => Lends(HeadOf(c), x.op)
    /\ HeadOf(c) \in GiftWork => Within(now, GiftWork)
    /\ HeadOf(c) \in CashWork => Within(now, CashWork)

Appends(c) ==
    /\ job[c] # <<>> /\ faults' = faults /\ HeadOf(c) = "buyDupe"
    /\ \E last : IsList(last) /\ Clear(last, Lone) /\ job'[c] = Tail(job[c]) \o last

Ends(c) ==
    /\ job[c] # <<>> /\ job'[c] = <<>>
    /\ \/ faults' = faults + 1
       \/ faults' = faults /\ HeadOf(c) \notin GiftWork /\ (HeadOf(c) \in Lone => HeadOf(c) = "applyInsight")

-----------------------------------------------------------------------------
(* Purchase limits.                                                        *)

Counting(s) == {x \in ToSet(s) : x.op = "countBuy"}
Limiting(s) == \E x \in ToSet(s) : x.op = "limit"
Once(s) == \A i, k \in 1..Len(s) : s[i].op = "countBuy" /\ s[k].op = "countBuy" => i = k

\* A job counts at most one purchase, and that of the goods whose limit it looks at
\* first.
BuyJob(s) ==
    /\ Once(s) /\ \A x \in Counting(s) : x.n \in Quantity
    /\ s # <<>> => /\ ~Limiting(Tail(s))
                   /\ Head(s).op = "limit" => \A x \in Counting(s) : x.what = Head(s).what /\ x.n = Head(s).n

\* What a job has passed the limit of g for and is still to count; less than
\* nothing claims nothing.
Positive(n) == IF n > 0 THEN n ELSE 0
Claim(s, g) ==
    LET k == {x \in Counting(s) : x.what = g}
    IN IF Limiting(s) \/ k = {} THEN 0 ELSE Positive((CHOOSE x \in k : TRUE).n)
Claims(j, g) == [c \in Conn |-> Claim(j[c], g)]
Claimed(j, g) == SumFunctionOnSet(Claims(j, g), Conn)

Roof(g, lapped) == BuyLimit[g] + (IF lapped THEN (Cardinality(Conn) - 1) * Max(Quantity) ELSE 0)

LimitInv ==
    /\ \A c \in Conn : BuyJob(job[c])
    /\ \A g \in Goods : BuyLimit[g] > 0 => bought[g] + Claimed(job, g) <= Roof(g, overlapped)

\* Statements that neither look at a limit nor count.
Free(s) == IsList(s) /\ Counting(s) = {} /\ ~Limiting(s)
=============================================================================
