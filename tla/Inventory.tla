------------------------------ MODULE Inventory ------------------------------
(***************************************************************************)
(* What a player owns, and the statements the handlers of the game server  *)
(* change it with: UserItemModel, UserCurrencyModel, add_equipments and    *)
(* the grant of a hero.                                                    *)
(*                                                                         *)
(* A handler runs no transaction: every statement commits by itself.  It   *)
(* is modelled by the statements it has still to execute, job[c]; a SELECT *)
(* puts what follows from its result in front of the rest.  One account,   *)
(* on any number of connections; the statements of different connections   *)
(* interleave.  The services (Store, Growth, Items, Mail, Summon) extend   *)
(* this module by their tables, and Wallet composes them.                  *)
(*                                                                         *)
(* The numbers in a request are not checked.  One of zero or less passes    *)
(* every look at a balance, and the statement that should take gives back. *)
(***************************************************************************)
EXTENDS Integers, Sequences, SequencesExt, FiniteSets, FiniteSetsExt

CONSTANTS
    Conn,             \* connections logged in as the account
    Material,         \* items, currencies, power items, insight items, equipment
    Hero,
    Kind,             \* Kind[x]: the tag of x in a reward string
    Opening,          \* Opening[m]: how much of m the account begins with
    OpeningHeroes,    \* the heroes it begins with
    OpeningDuplicates,   \* OpeningDuplicates[h]: duplicates of h counted before
    DupeReward,       \* DupeReward[h]: what a duplicate of h gives, as a bill
    LateDupeReward,   \* the same from the sixth duplicate on
    OtherUids,        \* uids of equipment other accounts hold
    MaxRequests,      \* bound: requests served
    MaxFaults         \* bound: handlers cut short

Thing == Material \cup Hero
KindOrder == {"item", "currency", "equip", "power", "insight", "hero"}

\* A parsed cost or reward string: what, and how much of it.
Bill == Seq(Thing \X (Nat \ {0}))

ASSUME InventoryAssumption ==
    /\ IsFiniteSet(Conn) /\ IsFiniteSet(Material)
    /\ Material \cap Hero = {}
    /\ Kind \in [Thing -> KindOrder] /\ \A x \in Thing : Kind[x] = "hero" <=> x \in Hero
    /\ Opening \in [Material -> Nat]
    /\ OpeningHeroes \subseteq Hero /\ OpeningDuplicates \in [Hero -> Nat]
    /\ DupeReward \in [Hero -> Bill] /\ LateDupeReward \in [Hero -> Bill]
    /\ OtherUids \subseteq Nat
    /\ MaxRequests \in Nat /\ MaxFaults \in Nat

VARIABLES
    balance,     \* balance[m]: items.quantity, currencies.quantity, or rows
    present,     \* present[m]: items or currencies has a row of m
    pieces,      \* uids of the account's equipment, counted from 1
    heroes,      \* heroes owned
    duplicates,  \* duplicates[h]: heroes.duplicate_count
    job,         \* job[c]: the statements c's handler has still to execute
    withdrawn,   \* history: withdrawn[m]: what upserts of less than zero took
    outcome,     \* history: how c's last request went
    bill,        \* history: what c's last request costs and promises
    settled,     \* history: what of it was taken and given
    taken,       \* history: taken[m]: all that was ever taken of m
    dearest,     \* history: the most that one statement was to take
    overlapped,  \* history: two requests were served at a time
    served,      \* history: requests so far
    faults       \* history: handlers cut short so far

stock == <<balance, present, withdrawn>>
owned == <<stock, pieces, heroes, duplicates>>
history == <<outcome, bill, settled, taken, dearest, overlapped, served, faults>>
invVars == <<owned, job, history>>

Outcome == {"none", "running", "done", "refused", "failed"}
Amounts == [Thing -> Int]
Nothing == [x \in Thing |-> 0]

InventoryInit ==
    /\ balance = Opening
    /\ present = [m \in Material |-> Opening[m] > 0]
    /\ withdrawn = [m \in Material |-> 0]
    /\ pieces = {}
    /\ heroes = OpeningHeroes
    /\ duplicates = OpeningDuplicates
    /\ job = [c \in Conn |-> <<>>]
    /\ outcome = [c \in Conn |-> "none"]
    /\ bill = [c \in Conn |-> [price |-> Nothing, product |-> Nothing]]
    /\ settled = [c \in Conn |-> [price |-> Nothing, product |-> Nothing]]
    /\ taken = [m \in Material |-> 0]
    /\ dearest = 0
    /\ overlapped = FALSE
    /\ served = 0
    /\ faults = 0

-----------------------------------------------------------------------------
(* Bills.                                                                  *)

\* The number a bill is multiplied with comes with a request, and may be below
\* zero.  Those is SelectSeq, unfolded so that it can be reasoned about.
Those(s, Test(_)) == FlattenSeq([i \in DOMAIN s |-> IF Test(s[i]) THEN << s[i] >> ELSE <<>>])

OfKind(parcels, kind) == Those(parcels, LAMBDA p : Kind[p[1]] = kind)
Times(parcels, n) == [i \in DOMAIN parcels |-> <<parcels[i][1], n * parcels[i][2]>>]

\* How much of each thing a bill names.
Total(parcels) ==
    [x \in Thing |->
        LET share == [i \in DOMAIN parcels |-> IF parcels[i][1] = x THEN parcels[i][2] ELSE 0]
        IN SumFunctionOnSet(share, DOMAIN parcels)]

-----------------------------------------------------------------------------
(* Statements.                                                             *)

Stmt(op, what, n) == [op |-> op, what |-> what, n |-> n]

\* What is done with a number that is not above zero: update_quantity looks at
\* the balance for a deduction only, and its UPDATE adds what a removal of less
\* than zero asks for; create adds what it is given.
Ordered(op, what, n) ==
    CASE n <= 0 /\ op \in {"take", "pay"} -> Stmt("refund", what, 0 - n)
      [] n <= 0 /\ op = "add" -> Stmt("withdraw", what, 0 - n)
      [] OTHER -> Stmt(op, what, n)

Each(op, parcels) == [i \in DOMAIN parcels |-> Ordered(op, parcels[i][1], parcels[i][2])]

\* The statements that give the parcels of one kind: an upsert of an item or a
\* currency, a row per power or insight item, add_equipments, a hero grant.  For
\* a number below one there are no rows to insert, and a hero is given all the same.
Grants(kind, parcels, heroOp) ==
    LET some == OfKind(parcels, kind)
    IN CASE kind \in {"item", "currency"} -> Each("add", some)
         [] kind \in {"power", "insight"} ->
              FlattenSeq([i \in DOMAIN some |->
                            [j \in 1..some[i][2] |-> Stmt("add", some[i][1], 1)]])
         [] kind = "equip" -> Each("nextUid", some)
         [] kind = "hero" -> Each(heroOp, some)

\* A delivery gives the kinds in the order of the handler.
Deliver(order, parcels, heroOp) ==
    FlattenSeq([i \in DOMAIN order |-> Grants(order[i], parcels, heroOp)])

At(c, op) == job[c] # <<>> /\ Head(job[c]).op = op
What(c) == Head(job[c]).what
Amount(c) == Head(job[c]).n

\* The handler goes on with the statements given, then with the rest.
Proceed(c, now) ==
    LET rest == now \o Tail(job[c])
    IN /\ job' = [job EXCEPT ![c] = rest]
       /\ outcome' = [outcome EXCEPT ![c] = IF rest = <<>> THEN "done" ELSE @]

\* The handler returns before its end.
Return(c, how) ==
    /\ job' = [job EXCEPT ![c] = <<>>]
    /\ outcome' = [outcome EXCEPT ![c] = how]

Note(c, side, what, n) == settled' = [settled EXCEPT ![c][side][what] = @ + n]

\* Most statements change a few variables, and what the handler does next.
Unrecorded == UNCHANGED <<bill, settled, taken, dearest, overlapped, served, faults>>

\* A statement fails: the handler ends, and what it wrote is not undone.
Fail(c) ==
    /\ Return(c, "failed")
    /\ faults' = faults + 1
    /\ UNCHANGED <<bill, settled, taken, dearest, overlapped, served>>

\* A request arrives on an idle connection.
Begin(c, price, product, stmts) ==
    /\ job[c] = <<>>
    /\ served < MaxRequests
    /\ served' = served + 1
    /\ job' = [job EXCEPT ![c] = stmts]
    /\ outcome' = [outcome EXCEPT ![c] = "running"]
    /\ bill' = [bill EXCEPT ![c] = [price |-> price, product |-> product]]
    /\ settled' = [settled EXCEPT ![c] = [price |-> Nothing, product |-> Nothing]]
    /\ overlapped' = (overlapped \/ \E d \in Conn : job[d] # <<>>)
    /\ UNCHANGED <<owned, taken, dearest, faults>>

\* get_item or get_currency, and the early reply when there is too little.
Check(c) ==
    /\ At(c, "check")
    /\ IF balance[What(c)] < Amount(c) THEN Return(c, "refused") ELSE Proceed(c, <<>>)
    /\ UNCHANGED owned /\ Unrecorded

\* There was enough when it was looked at, and the UPDATE is next.
Decide(c) ==
    /\ Proceed(c, << Stmt("deduct", What(c), Amount(c)) >>)
    /\ dearest' = Max({dearest, Amount(c)})
    /\ UNCHANGED <<bill, settled, taken, overlapped, served, faults>>

\* Mutant of Pay: nobody looks whether there is enough.
PayUnchecked(c) ==
    /\ At(c, "pay")
    /\ Decide(c)
    /\ UNCHANGED owned

\* The SELECT of update_quantity.  It returns false when there is too little;
\* "take" is a caller that ignores that, "pay" one that returns.
Take(c) ==
    /\ At(c, "take")
    /\ IF balance[What(c)] < Amount(c) THEN Proceed(c, <<>>) /\ Unrecorded ELSE Decide(c)
    /\ UNCHANGED owned

Pay(c) ==
    /\ At(c, "pay")
    /\ IF balance[What(c)] < Amount(c) THEN Return(c, "refused") /\ Unrecorded ELSE Decide(c)
    /\ UNCHANGED owned

\* The UPDATE of update_quantity, relative to the row.
Deduct(c) ==
    /\ At(c, "deduct")
    /\ balance' = [balance EXCEPT ![What(c)] = @ - Amount(c)]
    /\ taken' = [taken EXCEPT ![What(c)] = @ + Amount(c)]
    /\ Note(c, "price", What(c), Amount(c))
    /\ Proceed(c, <<>>)
    /\ UNCHANGED <<present, withdrawn, pieces, heroes, duplicates>>
    /\ UNCHANGED <<bill, dearest, overlapped, served, faults>>

\* The UPDATE of update_quantity that adds.  It finds no row where the account
\* never had any of it, and its caller goes on as if it had.
Refund(c) ==
    /\ At(c, "refund")
    /\ LET paidBack == IF present[What(c)] THEN Amount(c) ELSE 0
       IN /\ balance' = [balance EXCEPT ![What(c)] = @ + paidBack]
          /\ Note(c, "price", What(c), 0 - paidBack)
    /\ Proceed(c, <<>>)
    /\ UNCHANGED <<present, withdrawn, pieces, heroes, duplicates>>
    /\ UNCHANGED <<bill, taken, dearest, overlapped, served, faults>>

\* create: the upsert of an item or a currency, the INSERT of a row.
Add(c) ==
    /\ At(c, "add")
    /\ balance' = [balance EXCEPT ![What(c)] = @ + Amount(c)]
    /\ present' = [present EXCEPT ![What(c)] = TRUE]
    /\ Note(c, "product", What(c), Amount(c))
    /\ Proceed(c, <<>>)
    /\ UNCHANGED <<withdrawn, pieces, heroes, duplicates>>
    /\ UNCHANGED <<bill, taken, dearest, overlapped, served, faults>>

\* The same upsert of a number below one: nothing looks at what there is.
Withdraw(c) ==
    /\ At(c, "withdraw")
    /\ balance' = [balance EXCEPT ![What(c)] = @ - Amount(c)]
    /\ present' = [present EXCEPT ![What(c)] = TRUE]
    /\ withdrawn' = [withdrawn EXCEPT ![What(c)] = @ + Amount(c)]
    /\ Note(c, "product", What(c), 0 - Amount(c))
    /\ Proceed(c, <<>>)
    /\ UNCHANGED <<pieces, heroes, duplicates, bill, taken, dearest, overlapped, served, faults>>

\* Mutant of NextUid: one piece, however many are given.
NextUidOfOne(c) ==
    /\ At(c, "nextUid")
    /\ Proceed(c, << Stmt("equip", What(c), Max(pieces \cup {0}) + 1) >>)
    /\ UNCHANGED owned /\ Unrecorded

\* add_equipment: the first uid after the account's own, then an INSERT a piece.
NextUid(c) ==
    /\ At(c, "nextUid")
    /\ LET first == Max(pieces \cup {0}) + 1
       IN Proceed(c, [i \in 1..Amount(c) |-> Stmt("equip", What(c), first + i - 1)])
    /\ UNCHANGED owned /\ Unrecorded

\* uid is the key of the equipment of all accounts.
InsertEquip(c) ==
    /\ At(c, "equip")
    /\ IF Amount(c) \in pieces \cup OtherUids
       THEN Fail(c) /\ UNCHANGED pieces
       ELSE /\ pieces' = pieces \cup {Amount(c)}
            /\ Note(c, "product", What(c), 1)
            /\ Proceed(c, <<>>)
            /\ UNCHANGED <<bill, taken, dearest, overlapped, served, faults>>
    /\ UNCHANGED <<stock, heroes, duplicates>>

\* The ways handlers grant a hero the player may own: a purchase, a pull and a
\* consumable reward a duplicate, a mail only counts it, an order gives nothing.
HeroOps == {"buyHero", "pullHero", "useHero", "mailHero", "orderHero"}

\* has_hero.
HasHero(c) ==
    /\ job[c] # <<>> /\ Head(job[c]).op \in HeroOps
    /\ LET h == What(c)  op == Head(job[c]).op
       IN Proceed(c, IF h \notin heroes THEN << Stmt("createHero", h, 1) >>
                     ELSE CASE op = "orderHero" -> <<>>
                            [] op = "mailHero" -> << Stmt("duplicate", h, 0) >>
                            [] op = "buyHero" -> << Stmt("duplicate", h, 1), Stmt("buyDupe", h, 1) >>
                            [] op = "pullHero" -> << Stmt("duplicate", h, 1), Stmt("pullDupe", h, 1) >>
                            [] op = "useHero" -> << Stmt("duplicate", h, 1), Stmt("useDupe", h, 1) >>)
    /\ UNCHANGED owned /\ Unrecorded

\* create_hero, whose statements are the subject of Roster.
CreateHero(c) ==
    /\ At(c, "createHero")
    /\ heroes' = heroes \cup {What(c)}
    /\ Note(c, "product", What(c), 1)
    /\ Proceed(c, <<>>)
    /\ UNCHANGED <<stock, pieces, duplicates, bill, taken, dearest, overlapped, served, faults>>

\* The UPDATE of add_hero_duplicate.
AddDuplicate(c) ==
    /\ At(c, "duplicate")
    /\ duplicates' = [duplicates EXCEPT ![What(c)] = @ + 1]
    /\ Note(c, "product", What(c), 1)
    /\ Proceed(c, <<>>)
    /\ UNCHANGED <<stock, pieces, heroes, bill, taken, dearest, overlapped, served, faults>>

\* Its SELECT and grant_dupe_rewards.
RewardOf(h) == IF duplicates[h] > 5 THEN LateDupeReward[h] ELSE DupeReward[h]

\* A pull gives the reward at once, a purchase after all that was bought, a
\* consumable with all it collected.
RewardDuplicate(c) ==
    /\ \/ At(c, "pullDupe") /\ Proceed(c, Each("add", RewardOf(What(c))))
       \/ At(c, "useDupe") /\ Proceed(c, <<>>)
       \/ /\ At(c, "buyDupe")
          /\ job' = [job EXCEPT ![c] = Tail(@) \o Each("add", RewardOf(What(c)))]
          /\ outcome' = [outcome EXCEPT ![c] = IF job'[c] = <<>> THEN "done" ELSE @]
    /\ bill' = [bill EXCEPT ![c].product =
                  [x \in Thing |-> @[x] + Total(RewardOf(What(c)))[x]]]
    /\ UNCHANGED <<owned, settled, taken, dearest, overlapped, served, faults>>

\* A statement fails for a reason outside the model, or the server stops.
Interrupt(c) ==
    /\ job[c] # <<>>
    /\ faults < MaxFaults
    /\ Fail(c)
    /\ UNCHANGED owned

InventoryStep(c) ==
    \/ Check(c) \/ Take(c) \/ Pay(c) \/ Deduct(c) \/ Refund(c) \/ Add(c) \/ Withdraw(c)
    \/ NextUid(c) \/ InsertEquip(c)
    \/ HasHero(c) \/ CreateHero(c) \/ AddDuplicate(c) \/ RewardDuplicate(c)
    \/ Interrupt(c)
=============================================================================
