------------------------------ MODULE WalletProofs ------------------------------
(***************************************************************************)
(* Theorems about module Wallet, for any goods, packs, heroes, consumables, *)
(* pools, layouts and teams, any number of connections, and any mix of the *)
(* services, whose handlers interleave statement by statement.             *)
(*                                                                         *)
(* Every step of a service is one of a few kinds of moves (Move): it begins *)
(* a job, goes on with one, ends one, or executes one of the statements    *)
(* the theorems are about.  The types (Types) say what a pending statement *)
(* may be about (Fits).  On the moves rest the invariants, each a count of *)
(* what the pending statements have seen and are still to do:              *)
(*   MailInv    a delivery whose claim is still to be marked,              *)
(*   DebtInv    an amount that was there and is still to be deducted,      *)
(*   LimitInv   a purchase that passed its limit and is still to be        *)
(*              counted,                                                   *)
(*   StyleInv   a style that was seen unlocked and is still to be worn,    *)
(*   TeamInv    a row of a team that is still to be inserted.              *)
(* Lonely says that at most one connection has such a job as long as       *)
(* nothing has overlapped.  On it rests, for the services that are only    *)
(* right then,                                                             *)
(*   SoleInv    what the job being served has left to do for its insight   *)
(*              item, for the expired power and for its pulls.             *)
(***************************************************************************)
EXTENDS WalletMoves

LEMMA KindTyped ==
    ASSUME NEW A, NEW p \in Seq(A), NEW k
    PROVE OfKind(p, k) \in Seq({x \in A : Kind[x[1]] = k})
<1> DEFINE B == {x \in A : Kind[x[1]] = k}
           ss == [i \in 1..Len(p) |-> IF Kind[p[i][1]] = k THEN << p[i] >> ELSE <<>>]
<1>1. DOMAIN p = 1..Len(p) /\ Len(p) \in Nat /\ \A i \in 1..Len(p) : p[i] \in A
  OBVIOUS
<1>2. OfKind(p, k) = FlattenSeq(ss)
  BY <1>1 DEF OfKind, Those
<1>3. \A i \in 1..Len(p) : ss[i] \in Seq(B)
  <2> TAKE i \in 1..Len(p)
  <2>1. Kind[p[i][1]] = k => p[i] \in B
    BY <1>1
  <2>2. \A x \in B : <<x>> \in Seq(B)
    OBVIOUS
  <2>3. <<>> \in Seq(B)
    OBVIOUS
  <2> QED
    BY <2>1, <2>2, <2>3
<1> HIDE DEF ss, B
<1>4. ss = [i \in 1..Len(p) |-> ss[i]]
  BY DEF ss
<1>5. FlattenSeq(ss) \in Seq(B)
  BY <1>1, <1>3, <1>4, FlatMade
<1> QED
  BY <1>2, <1>5 DEF B

LEMMA EachTyped ==
    ASSUME NEW A, NEW p \in Seq(A), NEW op
    PROVE Each(op, p) \in Seq({Ordered(op, x[1], x[2]) : x \in A})
<1> DEFINE B == {Ordered(op, x[1], x[2]) : x \in A}
<1>1. DOMAIN p = 1..Len(p) /\ Len(p) \in Nat /\ \A i \in 1..Len(p) : p[i] \in A
  OBVIOUS
<1>2. Each(op, p) \in [1..Len(p) -> B]
  BY <1>1 DEF Each
<1>3. \A n \in Nat : \A g \in [1..n -> B] : g \in Seq(B)
  OBVIOUS
<1> QED
  BY <1>1, <1>2, <1>3

LEMMA SubParcels ==
    /\ Bill \subseteq Parcels
    /\ \A p \in Parcels : \A k : OfKind(p, k) \in Parcels
    /\ \A p \in Parcels, n \in Int : Times(p, n) \in Parcels
<1>1. Bill \subseteq Parcels
  <2> SUFFICES ASSUME NEW p \in Bill PROVE p \in Parcels
    OBVIOUS
  <2>1. p \in [1..Len(p) -> Thing \X (Nat \ {0})] /\ Len(p) \in Nat
    BY DEF Bill
  <2>2. p \in [1..Len(p) -> Thing \X Int]
    BY <2>1
  <2>3. \A n \in Nat : \A f \in [1..n -> Thing \X Int] : f \in Seq(Thing \X Int)
    OBVIOUS
  <2> QED
    BY <2>1, <2>2, <2>3 DEF Parcels
<1>2. ASSUME NEW p \in Parcels, NEW k PROVE OfKind(p, k) \in Parcels
  <2>1. OfKind(p, k) \in Seq({x \in Thing \X Int : Kind[x[1]] = k})
    BY KindTyped DEF Parcels
  <2> QED
    BY <2>1, SeqMade, SeqSub DEF Parcels
<1>3. ASSUME NEW p \in Parcels, NEW n \in Int PROVE Times(p, n) \in Parcels
  <2>1. DOMAIN p = 1..Len(p) /\ Len(p) \in Nat /\ \A i \in 1..Len(p) : p[i] \in Thing \X Int
    BY DEF Parcels
  <2>2. \A k \in Int : n * k \in Int
    OBVIOUS
  <2>3. Times(p, n) \in [1..Len(p) -> Thing \X Int]
    BY <2>1, <2>2 DEF Times
  <2>4. \A k \in Nat : \A f \in [1..k -> Thing \X Int] : f \in Seq(Thing \X Int)
    OBVIOUS
  <2> QED
    BY <2>1, <2>3, <2>4 DEF Parcels
<1> QED
  BY <1>1, <1>2, <1>3

GiftStmt(heroOp) ==
    [op : {"add", "withdraw"}, what : Thing, n : Nat] \cup [op : {"nextUid"}, what : Thing, n : Int]
    \cup [op : {heroOp}, what : Hero, n : Int]

\* What a number that is not above zero makes of a statement.
LEMMA OrderedIs ==
    ASSUME NEW op, NEW x, NEW n \in Int
    PROVE \/ Ordered(op, x, n) = Stmt(op, x, n) /\ (n \in Nat \/ op \notin {"take", "pay", "add"})
          \/ op \in {"take", "pay"} /\ Ordered(op, x, n) = Stmt("refund", x, 0 - n) /\ 0 - n \in Nat
          \/ op = "add" /\ Ordered(op, x, n) = Stmt("withdraw", x, 0 - n) /\ 0 - n \in Nat
<1>1. CASE n <= 0 /\ op \in {"take", "pay"}
  BY <1>1 DEF Ordered
<1>2. CASE n <= 0 /\ op = "add"
  BY <1>2 DEF Ordered
<1>3. CASE ~(n <= 0 /\ op \in {"take", "pay", "add"})
  <2>1. Ordered(op, x, n) = Stmt(op, x, n)
    BY <1>3 DEF Ordered
  <2> QED
    BY <1>3, <2>1
<1> QED
  BY <1>1, <1>2, <1>3

LEMMA EachGift ==
    ASSUME NEW p \in Parcels, NEW k, NEW op, NEW heroOp \in HeroOps,
           op \in {"add", "nextUid"} \/ (op = heroOp /\ k = "hero")
    PROVE Each(op, OfKind(p, k)) \in Seq(GiftStmt(heroOp))
<1> DEFINE A == {x \in Thing \X Int : Kind[x[1]] = k}
<1>1. OfKind(p, k) \in Seq(A)
  BY KindTyped DEF Parcels
<1>2. Each(op, OfKind(p, k)) \in Seq({Ordered(op, x[1], x[2]) : x \in A})
  BY <1>1, EachTyped
<1>3. ASSUME NEW x \in A PROVE Ordered(op, x[1], x[2]) \in GiftStmt(heroOp)
  <2>1. x[1] \in Thing /\ x[2] \in Int /\ (k = "hero" => x[1] \in Hero)
    BY InventoryAssumption
  <2>2. op \notin {"take", "pay"} /\ (op = "add" => op # heroOp)
    BY DEF HeroOps
  <2> QED
    BY <2>1, <2>2, OrderedIs DEF GiftStmt, Stmt
<1>4. {Ordered(op, x[1], x[2]) : x \in A} \subseteq GiftStmt(heroOp)
  BY <1>3
<1> QED
  BY <1>2, <1>4, SeqMade, SeqSub

LEMMA GrantsTyped ==
    ASSUME NEW p \in Parcels, NEW kind \in KindOrder, NEW heroOp \in HeroOps
    PROVE Grants(kind, p, heroOp) \in Seq(GiftStmt(heroOp))
<1>1. CASE kind \in {"item", "currency"}
  BY <1>1, EachGift DEF Grants
<1>2. CASE kind = "equip"
  BY <1>2, EachGift DEF Grants
<1>3. CASE kind = "hero"
  BY <1>3, EachGift DEF Grants
<1>4. CASE kind \in {"power", "insight"}
  <2> DEFINE some == OfKind(p, kind)
             ss == [i \in 1..Len(some) |-> [j \in 1..some[i][2] |-> Stmt("add", some[i][1], 1)]]
  <2>1. some \in Parcels
    BY SubParcels
  <2>2. DOMAIN some = 1..Len(some) /\ Len(some) \in Nat
        /\ \A i \in 1..Len(some) : some[i] \in Thing \X Int
    BY <2>1 DEF Parcels
  <2>3. Grants(kind, p, heroOp) = FlattenSeq(ss)
    BY <1>4, <2>2 DEF Grants
  <2>4. ASSUME NEW i \in 1..Len(some) PROVE ss[i] \in Seq(GiftStmt(heroOp))
    <3>1. some[i][1] \in Thing /\ some[i][2] \in Int
      BY <2>2
    <3>2. Stmt("add", some[i][1], 1) \in GiftStmt(heroOp)
      BY <3>1 DEF Stmt, GiftStmt
    <3>3. ss[i] \in [1..some[i][2] -> GiftStmt(heroOp)]
      BY <3>2
    <3> HIDE DEF ss, some
    <3> QED
      BY <3>1, <3>3, UpTo
  <2>5. ss = [i \in 1..Len(some) |-> ss[i]]
    OBVIOUS
  <2> HIDE DEF ss, some
  <2> QED
    BY <2>2, <2>3, <2>4, <2>5, FlatMade
<1> QED
  BY <1>1, <1>2, <1>3, <1>4 DEF KindOrder

LEMMA DeliverTyped ==
    ASSUME NEW p \in Parcels, NEW order \in Seq(KindOrder), NEW heroOp \in HeroOps
    PROVE Deliver(order, p, heroOp) \in Seq(GiftStmt(heroOp))
<1> DEFINE ss == [i \in 1..Len(order) |-> Grants(order[i], p, heroOp)]
<1>1. DOMAIN order = 1..Len(order) /\ Len(order) \in Nat
      /\ \A i \in 1..Len(order) : order[i] \in KindOrder
  OBVIOUS
<1>2. Deliver(order, p, heroOp) = FlattenSeq(ss)
  BY <1>1 DEF Deliver
<1>3. \A i \in 1..Len(order) : ss[i] \in Seq(GiftStmt(heroOp))
  BY <1>1, GrantsTyped
<1>4. ss = [i \in 1..Len(order) |-> ss[i]]
  OBVIOUS
<1> HIDE DEF ss
<1> QED
  BY <1>1, <1>2, <1>3, <1>4, FlatMade

LEMMA TotalTyped == \A p \in Parcels : Total(p) \in Amounts
<1> SUFFICES ASSUME NEW p \in Parcels PROVE Total(p) \in Amounts
  OBVIOUS
<1>1. DOMAIN p = 1..Len(p) /\ Len(p) \in Nat /\ \A i \in 1..Len(p) : p[i] \in Thing \X Int
  BY DEF Parcels
<1>2. IsFiniteSet(1..Len(p))
  BY <1>1, FS_Interval
<1>3. ASSUME NEW x \in Thing PROVE Total(p)[x] \in Int
  <2> DEFINE share == [i \in 1..Len(p) |-> IF p[i][1] = x THEN p[i][2] ELSE 0]
  <2>1. \A i \in 1..Len(p) : share[i] \in Int
    BY <1>1
  <2>2. Total(p)[x] = SumFunctionOnSet(share, 1..Len(p))
    BY <1>1 DEF Total
  <2> HIDE DEF share
  <2> QED
    BY <1>2, <2>1, <2>2, SumFacts
<1> QED
  BY <1>3 DEF Total, Amounts

-----------------------------------------------------------------------------
(* Moves of each service.                                                  *)

LEMMA Nothing2Do ==
    Plain(<<>>) /\ Tame(<<>>) /\ Fine(<<>>) /\ ToSet(<<>>) = {} /\ \A W : Within(<<>>, W)
BY Tuples DEF Plain, Tame, Fine, Within

LEMMA RareIsBoth == Rare = Scarce \cup Lone
BY DEF Rare, Scarce, Lone

LEMMA PlainIsTame == \A s : Plain(s) => Tame(s) /\ \A x \in ToSet(s) : x.op \notin Lone
BY DEF Plain, Tame, Rare, Scarce, Lone

LEMMA HeadFits ==
    ASSUME JobTypes, NEW c \in Conn, job[c] # <<>>
    PROVE Fits(Head(job[c])) /\ Head(job[c]) \in ToSet(job[c]) /\ Fine(Tail(job[c]))
          /\ ToSet(Tail(job[c])) \subseteq ToSet(job[c])
BY TailSet DEF JobTypes, Fine

LEMMA JustGoesOn ==
    ASSUME NEW c \in Conn, job[c] # <<>>, Proceed(c, <<>>), HeadOf(c) \notin Rare,
           Same, Kept, NoLess, UNCHANGED dearest
    PROVE GoesOn(c)
BY Nothing2Do, RareIsBoth DEF GoesOn, Onward, Proceed

LEMMA LoneGoesOn ==
    ASSUME NEW c \in Conn, NEW now, job[c] # <<>>, Proceed(c, now), HeadOf(c) \in Lone, LoneStep(c),
           Tame(now), \A x \in ToSet(now) : x.op \in Lone => Lends(HeadOf(c), x.op),
           Same, Kept, NoLess, UNCHANGED dearest
    PROVE GoesOn(c)
<1>1. HeadOf(c) \notin Scarce /\ HeadOf(c) \notin GiftWork /\ HeadOf(c) \notin CashWork
      /\ HeadOf(c) \notin TeamWork
  BY DEF Lone, Scarce, GiftWork, CashWork, TeamWork
<1> QED
  BY <1>1 DEF GoesOn, Onward, Proceed

LEMMA GoesOnWith ==
    ASSUME NEW c \in Conn, NEW now, job[c] # <<>>, Proceed(c, now), HeadOf(c) \notin Rare, Plain(now),
           HeadOf(c) \in GiftWork => Within(now, GiftWork),
           HeadOf(c) \in CashWork => Within(now, CashWork),
           HeadOf(c) \in TeamWork => Within(now, TeamWork),
           Same, Kept, NoLess, UNCHANGED dearest
    PROVE GoesOn(c)
BY PlainIsTame, RareIsBoth DEF GoesOn, Onward, Proceed

LEMMA NoLossAtAll ==
    ASSUME OwnedTypes, UNCHANGED <<balance, withdrawn>> PROVE NoLess
BY DEF NoLess, OwnedTypes

\* Sequences of one to three statements.
LEMMA PlainFew ==
    /\ \A x : Fits(x) /\ x.op \notin Rare => Plain(<<x>>)
    /\ \A x, y : Fits(x) /\ x.op \notin Rare /\ Fits(y) /\ y.op \notin Rare => Plain(<<x, y>>)
    /\ \A x, y, z : Fits(x) /\ x.op \notin Rare /\ Fits(y) /\ y.op \notin Rare
                    /\ Fits(z) /\ z.op \notin Rare => Plain(<<x, y, z>>)
    /\ \A w, x, y, z : Fits(w) /\ w.op \notin Rare /\ Fits(x) /\ x.op \notin Rare
                       /\ Fits(y) /\ y.op \notin Rare /\ Fits(z) /\ z.op \notin Rare
                       => Plain(<<w, x, y, z>>)
<1>1. \A x : Fits(x) /\ x.op \notin Rare => Plain(<<x>>)
  <2> TAKE x
  <2> HAVE Fits(x) /\ x.op \notin Rare
  <2>1. IsList(<<x>>) /\ ToSet(<<x>>) = {x}
    BY Tuples
  <2> QED
    BY <2>1 DEF Plain, Fine
<1>2. \A x, y : Fits(x) /\ x.op \notin Rare /\ Fits(y) /\ y.op \notin Rare => Plain(<<x, y>>)
  <2> TAKE x, y
  <2> HAVE Fits(x) /\ x.op \notin Rare /\ Fits(y) /\ y.op \notin Rare
  <2>1. IsList(<<x, y>>) /\ ToSet(<<x, y>>) = {x, y}
    BY Tuples
  <2> QED
    BY <2>1 DEF Plain, Fine
<1>3. \A x, y, z : Fits(x) /\ x.op \notin Rare /\ Fits(y) /\ y.op \notin Rare
                  /\ Fits(z) /\ z.op \notin Rare => Plain(<<x, y, z>>)
  <2> TAKE x, y, z
  <2> HAVE Fits(x) /\ x.op \notin Rare /\ Fits(y) /\ y.op \notin Rare
           /\ Fits(z) /\ z.op \notin Rare
  <2>1. IsList(<<x, y, z>>) /\ ToSet(<<x, y, z>>) = {x, y, z}
    BY Tuples
  <2> QED
    BY <2>1 DEF Plain, Fine
<1>4. \A w, x, y, z : Fits(w) /\ w.op \notin Rare /\ Fits(x) /\ x.op \notin Rare
                      /\ Fits(y) /\ y.op \notin Rare /\ Fits(z) /\ z.op \notin Rare
                      => Plain(<<w, x, y, z>>)
  <2> TAKE w, x, y, z
  <2> HAVE Fits(w) /\ w.op \notin Rare /\ Fits(x) /\ x.op \notin Rare
           /\ Fits(y) /\ y.op \notin Rare /\ Fits(z) /\ z.op \notin Rare
  <2>1. IsList(<<w, x, y, z>>) /\ ToSet(<<w, x, y, z>>) = {w, x, y, z}
    BY Tuples
  <2> QED
    BY <2>1 DEF Plain, Fine
<1> QED
  BY <1>1, <1>2, <1>3, <1>4

LEMMA TameOne == \A x : Fits(x) /\ x.op \notin Scarce => Tame(<<x>>) /\ ToSet(<<x>>) = {x}
<1> TAKE x
<1> HAVE Fits(x) /\ x.op \notin Scarce
<1>1. IsList(<<x>>) /\ ToSet(<<x>>) = {x}
  BY Tuples
<1> QED
  BY <1>1 DEF Tame, Fine

LEMMA FineJoin ==
    /\ \A s, t : Fine(s) /\ Fine(t) => Fine(s \o t)
    /\ \A s, t : Plain(s) /\ Plain(t) => Plain(s \o t)
    /\ \A s, t : Tame(s) /\ Tame(t) => Tame(s \o t)
    /\ \A s, t, W : IsList(s) /\ IsList(t) /\ Within(s, W) /\ Within(t, W) => Within(s \o t, W)
    /\ \A s, t : IsList(s) /\ IsList(t) => IsList(s \o t) /\ ToSet(s \o t) = ToSet(s) \cup ToSet(t)
BY Joined DEF Fine, Plain, Tame, Within

\* What is given is plain.
LEMMA GiftsPlain ==
    ASSUME NEW heroOp \in HeroOps, NEW s \in Seq(GiftStmt(heroOp))
    PROVE Plain(s)
<1>1. IsList(s) /\ ToSet(s) \subseteq GiftStmt(heroOp)
  BY SeqMade
<1>2. ASSUME NEW x \in GiftStmt(heroOp) PROVE Fits(x) /\ x.op \notin Rare
  <2>1. CASE x \in [op : {"add", "withdraw"}, what : Thing, n : Nat] \cup [op : {"nextUid"}, what : Thing, n : Int]
    BY <2>1 DEF Fits, Rare, CountOps, RankOps, HeroWork, HeroOps, StyleOps, PackOps, PoolOps, LayoutOps
  <2>2. CASE x \in [op : {heroOp}, what : Hero, n : Int]
    BY <2>2 DEF Fits, Rare, CountOps, RankOps, HeroWork, HeroOps, StyleOps, PackOps, PoolOps, LayoutOps
  <2> QED
    BY <2>1, <2>2 DEF GiftStmt
<1> QED
  BY <1>1, <1>2 DEF Plain, Fine

LEMMA DeliverPlain ==
    ASSUME NEW p \in Parcels, NEW order \in Seq(KindOrder), NEW heroOp \in HeroOps
    PROVE Plain(Deliver(order, p, heroOp))
BY DeliverTyped, GiftsPlain

\* A mail and a hero's duplicates give no more than the mail's own statements.
LEMMA DeliverWithin ==
    ASSUME NEW p \in Parcels, NEW order \in Seq(KindOrder)
    PROVE Within(Deliver(order, p, "mailHero"), GiftWork)
<1>1. ToSet(Deliver(order, p, "mailHero")) \subseteq GiftStmt("mailHero")
  BY DeliverTyped, SeqMade DEF HeroOps
<1>2. \A x \in GiftStmt("mailHero") : x.op \in GiftWork
  BY DEF GiftStmt, GiftWork
<1> QED
  BY <1>1, <1>2 DEF Within

\* Statements of one kind about the parcels of a bill.
LEMMA OrderedPlain ==
    ASSUME NEW op \in {"check", "take", "pay", "add"}, NEW x \in Thing, NEW n \in Int
    PROVE Fits(Ordered(op, x, n)) /\ Ordered(op, x, n).op \notin Rare
<1>1. CASE Ordered(op, x, n) = Stmt(op, x, n) /\ (n \in Nat \/ op \notin {"take", "pay", "add"})
  BY <1>1 DEF Stmt, Fits, Rare, CountOps, RankOps, HeroWork, HeroOps, StyleOps, PackOps, PoolOps, LayoutOps
<1>2. CASE Ordered(op, x, n) = Stmt("refund", x, 0 - n) /\ 0 - n \in Nat
  BY <1>2 DEF Stmt, Fits, Rare, CountOps, RankOps, HeroWork, HeroOps, StyleOps, PackOps, PoolOps, LayoutOps
<1>3. CASE Ordered(op, x, n) = Stmt("withdraw", x, 0 - n) /\ 0 - n \in Nat
  BY <1>3 DEF Stmt, Fits, Rare, CountOps, RankOps, HeroWork, HeroOps, StyleOps, PackOps, PoolOps, LayoutOps
<1> QED
  BY <1>1, <1>2, <1>3, OrderedIs

LEMMA EachPlain ==
    ASSUME NEW p \in Parcels, NEW op \in {"check", "take", "pay", "add"}
    PROVE Plain(Each(op, p))
<1>1. Each(op, p) \in Seq({Ordered(op, x[1], x[2]) : x \in Thing \X Int})
  BY EachTyped DEF Parcels
<1>2. IsList(Each(op, p)) /\ ToSet(Each(op, p)) \subseteq {Ordered(op, x[1], x[2]) : x \in Thing \X Int}
  BY <1>1, SeqMade
<1> QED
  BY <1>2, OrderedPlain DEF Plain, Fine

LEMMA EachWithin ==
    ASSUME NEW p \in Parcels, NEW op, NEW W, op \in W,
           op \in {"take", "pay"} => "refund" \in W, op = "add" => "withdraw" \in W
    PROVE Within(Each(op, p), W)
<1>1. Each(op, p) \in Seq({Ordered(op, x[1], x[2]) : x \in Thing \X Int})
  BY EachTyped DEF Parcels
<1>2. ToSet(Each(op, p)) \subseteq {Ordered(op, x[1], x[2]) : x \in Thing \X Int}
  BY <1>1, SeqMade
<1>3. ASSUME NEW x \in Thing \X Int PROVE Ordered(op, x[1], x[2]).op \in W
  BY OrderedIs DEF Stmt
<1> QED
  BY <1>2, <1>3 DEF Within

\* --- Inventory moves

\* What a step keeps when no statement of the services acts.
LEMMA InventoryFrame ==
    ASSUME OwnedTypes, GmTypes, GrowthTypes, NEW c \in Conn, InventoryNext(c)
    PROVE Kept /\ Grows /\ InventoryStep(c)
BY DEF InventoryNext, Kept, Grows, storeVars, growthVars, itemVars, mailVars, summonVars, layOut,
       layoutVars, groupVars, gmVars

LEMMA InventoryMoves ==
    ASSUME JobTypes, OwnedTypes, GmTypes, GrowthTypes, NEW c \in Conn, InventoryNext(c)
    PROVE Move(c)
<1>0. Kept /\ Grows /\ InventoryStep(c)
  BY InventoryFrame
<1> USE <1>0
<1>q. GoesOn(c) \/ PutsLast(c) \/ Stops(c) \/ Decides(c) \/ Deducts(c) => Move(c)
  BY DEF Move
<1>n. UNCHANGED <<balance, withdrawn>> => NoLess
  BY NoLossAtAll
<1>f. Return(c, "failed") /\ faults' = faults + 1 /\ overlapped' = overlapped /\ UNCHANGED <<balance, withdrawn, dearest>>
         /\ job[c] # <<>> => Stops(c)
  BY DEF Stops, Return
<1>r. Return(c, "refused") /\ Same /\ UNCHANGED <<balance, withdrawn, dearest>> /\ job[c] # <<>>
         /\ HeadOf(c) \notin GiftWork /\ HeadOf(c) \notin Lone => Stops(c)
  BY DEF Stops, Return, Same
<1>1. CASE Check(c)
  <2>1. /\ job[c] # <<>> /\ HeadOf(c) = "check" /\ Same /\ UNCHANGED <<balance, withdrawn, dearest>>
        /\ Return(c, "refused") \/ Proceed(c, <<>>)
    BY <1>1 DEF Check, At, HeadOf, What, Amount, Same, Unrecorded, owned, stock, invVars, history
  <2> QED
    BY <2>1, <1>q, <1>n, <1>r, JustGoesOn DEF Rare, GiftWork, Lone
<1>2. ASSUME Decide(c), UNCHANGED owned, At(c, "take") \/ At(c, "pay"), balance[What(c)] >= Amount(c) \/ What(c) \notin Material
      PROVE Move(c)
  <2>1. /\ HeadOf(c) \in {"take", "pay"} /\ Same /\ UNCHANGED <<balance, withdrawn>>
        /\ dearest' = Max({dearest, Amount(c)})
        /\ Onward(c, << Stmt("deduct", What(c), Amount(c)) >>)
    BY <1>2 DEF Decide, At, HeadOf, Same, owned, stock, Onward, Proceed
  <2> QED
    BY <2>1, <1>2, <1>q DEF Decides
<1>h. At(c, "take") \/ At(c, "pay") => Fits(Head(job[c])) /\ Amount(c) \in Nat
  BY HeadFits DEF At, Fits, CountOps, Amount
<1>m. ASSUME At(c, "take") \/ At(c, "pay"), ~(balance[What(c)] < Amount(c))
      PROVE balance[What(c)] >= Amount(c) \/ What(c) \notin Material
  BY <1>m, <1>h DEF OwnedTypes
<1>3. CASE Take(c)
  <2>1. CASE balance[What(c)] < Amount(c)
    <3>1. job[c] # <<>> /\ HeadOf(c) = "take" /\ Same /\ UNCHANGED <<balance, withdrawn, dearest>> /\ Proceed(c, <<>>)
      BY <1>3, <2>1 DEF Take, At, HeadOf, What, Amount, Same, Unrecorded, owned, stock, invVars, history
    <3> QED
      BY <3>1, <1>q, <1>n, JustGoesOn DEF Rare
  <2>2. CASE ~(balance[What(c)] < Amount(c))
    BY <1>2, <1>3, <1>m, <2>2 DEF Take
  <2> QED
    BY <2>1, <2>2
<1>4. CASE Pay(c)
  <2>1. CASE balance[What(c)] < Amount(c)
    <3>1. job[c] # <<>> /\ HeadOf(c) = "pay" /\ Same /\ UNCHANGED <<balance, withdrawn, dearest>> /\ Return(c, "refused")
      BY <1>4, <2>1 DEF Pay, At, HeadOf, What, Amount, Same, Unrecorded, owned, stock, invVars, history
    <3> QED
      BY <3>1, <1>q, <1>r DEF GiftWork, Lone
  <2>2. CASE ~(balance[What(c)] < Amount(c))
    BY <1>2, <1>4, <1>m, <2>2 DEF Pay
  <2> QED
    BY <2>1, <2>2
<1>5. CASE Deduct(c)
  <2>1. /\ HeadOf(c) = "deduct" /\ Same /\ UNCHANGED <<dearest, withdrawn>> /\ Onward(c, <<>>)
        /\ balance' = [balance EXCEPT ![What(c)] = @ - Amount(c)]
    BY <1>5 DEF Deduct, At, HeadOf, Same, Onward, Proceed
  <2> QED
    BY <2>1, <1>q DEF Deducts
<1>6. CASE Add(c)
  <2>1. /\ job[c] # <<>> /\ HeadOf(c) = "add" /\ Same /\ UNCHANGED <<dearest, withdrawn>> /\ Proceed(c, <<>>)
        /\ balance' = [balance EXCEPT ![What(c)] = @ + Amount(c)]
    BY <1>6 DEF Add, At, HeadOf, Same
  <2>2. Amount(c) \in Nat
    BY <2>1, HeadFits DEF HeadOf, Fits, CountOps, Amount
  <2>3. NoLess
    BY <2>1, <2>2 DEF NoLess, OwnedTypes
  <2> QED
    BY <2>1, <2>3, <1>q, JustGoesOn DEF Rare
<1>13. CASE Refund(c)
  <2> DEFINE paidBack == IF present[What(c)] THEN Amount(c) ELSE 0
  <2>1. /\ job[c] # <<>> /\ HeadOf(c) = "refund" /\ Same /\ UNCHANGED <<dearest, withdrawn>> /\ Proceed(c, <<>>)
        /\ balance' = [balance EXCEPT ![What(c)] = @ + paidBack]
    BY <1>13 DEF Refund, At, HeadOf, Same
  <2>2. paidBack \in Nat
    BY <2>1, HeadFits DEF HeadOf, Fits, CountOps, Amount
  <2> HIDE DEF paidBack
  <2>3. NoLess
    BY <2>1, <2>2 DEF NoLess, OwnedTypes
  <2> QED
    BY <2>1, <2>3, <1>q, JustGoesOn DEF Rare
<1>14. CASE Withdraw(c)
  <2>1. /\ job[c] # <<>> /\ HeadOf(c) = "withdraw" /\ Same /\ UNCHANGED dearest /\ Proceed(c, <<>>)
        /\ balance' = [balance EXCEPT ![What(c)] = @ - Amount(c)]
        /\ withdrawn' = [withdrawn EXCEPT ![What(c)] = @ + Amount(c)]
    BY <1>14 DEF Withdraw, At, HeadOf, Same
  <2>2. Amount(c) \in Nat
    BY <2>1, HeadFits DEF HeadOf, Fits, CountOps, Amount
  <2>3. NoLess
    BY <2>1, <2>2 DEF NoLess, OwnedTypes
  <2> QED
    BY <2>1, <2>3, <1>q, JustGoesOn DEF Rare
<1>7. CASE NextUid(c)
  <2> DEFINE first == Max(pieces \cup {0}) + 1
             now == [i \in 1..Amount(c) |-> Stmt("equip", What(c), first + i - 1)]
  <2>1. job[c] # <<>> /\ HeadOf(c) = "nextUid" /\ Same /\ UNCHANGED <<balance, withdrawn, dearest>> /\ Proceed(c, now)
    BY <1>7 DEF NextUid, At, HeadOf, What, Amount, Same, Unrecorded, owned, stock, invVars, history
  <2>2. Amount(c) \in Int
    BY <2>1, HeadFits DEF HeadOf, Fits, Amount
  <2>3. first \in Nat
    <3>1. IsFiniteSet(pieces \cup {0}) /\ pieces \cup {0} \subseteq Nat
      BY FS_AddElement DEF OwnedTypes
    <3> QED
      BY <3>1, MaxIsGreatest
  <2> HIDE DEF first
  <2>4. ASSUME NEW i \in 1..Amount(c) PROVE Fits(now[i]) /\ now[i].op = "equip"
    <3>1. first + i - 1 \in Nat /\ now[i] = Stmt("equip", What(c), first + i - 1)
      BY <2>2, <2>3
    <3> QED
      BY <3>1 DEF Stmt, Fits, Rare, GiftWork, TeamWork, CountOps, RankOps, HeroWork, HeroOps, StyleOps, PackOps, PoolOps, LayoutOps
  <2>5. now = [i \in 1..Amount(c) |-> now[i]]
    OBVIOUS
  <2> HIDE DEF now
  <2>6. IsList(now) /\ DOMAIN now = 1..Amount(c)
    <3>1. CASE Amount(c) \in Nat
      BY <2>5, <3>1, MadeSeq
    <3>2. CASE Amount(c) \notin Nat
      <4>1. 1..Amount(c) = {}
        BY <2>2, <3>2
      <4>2. now = <<>>
        BY <2>5, <4>1
      <4> QED
        BY <4>1, <4>2, Tuples
    <3> QED
      BY <3>1, <3>2
  <2>7. \A x \in ToSet(now) : Fits(x) /\ x.op = "equip"
    BY <2>4, <2>6 DEF ToSet
  <2>8. Plain(now) /\ Within(now, GiftWork) /\ HeadOf(c) \notin TeamWork /\ HeadOf(c) \notin CashWork
        /\ HeadOf(c) \notin Rare
    BY <2>1, <2>6, <2>7 DEF Plain, Fine, Within, Rare, GiftWork, CashWork, TeamWork
  <2> QED
    BY <2>1, <2>8, <1>n, <1>q, GoesOnWith
<1>8. CASE InsertEquip(c)
  <2>1. CASE Amount(c) \in pieces \cup OtherUids
    <3>1. /\ job[c] # <<>> /\ Return(c, "failed") /\ faults' = faults + 1 /\ overlapped' = overlapped
          /\ UNCHANGED <<balance, withdrawn, dearest>>
      BY <1>8, <2>1 DEF InsertEquip, Fail, At, stock
    <3> QED
      BY <3>1, <1>f, <1>q
  <2>2. CASE Amount(c) \notin pieces \cup OtherUids
    <3>1. job[c] # <<>> /\ HeadOf(c) = "equip" /\ Same /\ UNCHANGED <<balance, withdrawn, dearest>> /\ Proceed(c, <<>>)
      BY <1>8, <2>2 DEF InsertEquip, At, HeadOf, What, Amount, Same, Unrecorded, owned, stock, invVars, history
    <3> QED
      BY <3>1, <1>q, <1>n, JustGoesOn DEF Rare
  <2> QED
    BY <2>1, <2>2
<1>9. CASE HasHero(c)
  <2> DEFINE h == What(c)  op == HeadOf(c)
  <2>1. PICK now : /\ Proceed(c, now)
                   /\ \/ now = << Stmt("createHero", h, 1) >>
                      \/ op = "orderHero" /\ now = <<>>
                      \/ op = "mailHero" /\ now = << Stmt("duplicate", h, 0) >>
                      \/ op = "buyHero" /\ now = << Stmt("duplicate", h, 1), Stmt("buyDupe", h, 1) >>
                      \/ op = "pullHero" /\ now = << Stmt("duplicate", h, 1), Stmt("pullDupe", h, 1) >>
                      \/ op = "useHero" /\ now = << Stmt("duplicate", h, 1), Stmt("useDupe", h, 1) >>
    BY <1>9 DEF HasHero, HeadOf, What, HeroOps
  <2>2. job[c] # <<>> /\ op \in HeroOps /\ Same /\ UNCHANGED <<balance, withdrawn, dearest>>
    BY <1>9 DEF HasHero, At, HeadOf, What, Amount, Same, Unrecorded, owned, stock, invVars, history
  <2>3. h \in Hero
    BY <2>2, HeadFits DEF HeadOf, Fits, HeroWork, What
  <2>4. \A o \in {"createHero", "duplicate", "buyDupe", "pullDupe", "useDupe"}, n \in {0, 1} :
           Fits(Stmt(o, h, n)) /\ Stmt(o, h, n).op \notin Rare /\ Stmt(o, h, n).op = o
    BY <2>3 DEF Stmt, Fits, Rare, GiftWork, TeamWork, CountOps, RankOps, HeroWork, HeroOps, StyleOps, PackOps, PoolOps, LayoutOps
  <2>5. Plain(now)
    BY <2>1, <2>4, PlainFew, Nothing2Do
  <2>6. op \in GiftWork => Within(now, GiftWork)
    <3>1. op \in GiftWork => op \in {"mailHero", "pullHero"}
      BY <2>2 DEF GiftWork, HeroOps
    <3>2. (\A x : ToSet(<<x>>) = {x}) /\ \A x, y : ToSet(<<x, y>>) = {x, y}
      BY Tuples
    <3> QED
      BY <2>1, <2>4, <3>1, <3>2 DEF Within, GiftWork
  <2>7. op \notin Rare /\ op \notin CashWork /\ op \notin TeamWork
    BY <2>2 DEF Rare, CashWork, TeamWork, HeroOps
  <2> QED
    BY <2>1, <2>2, <2>5, <2>6, <2>7, <1>n, <1>q, GoesOnWith
<1>10. CASE CreateHero(c) \/ AddDuplicate(c)
  <2>1. job[c] # <<>> /\ HeadOf(c) \in {"createHero", "duplicate"} /\ Same /\ UNCHANGED <<balance, withdrawn, dearest>> /\ Proceed(c, <<>>)
    BY <1>10 DEF CreateHero, AddDuplicate, At, HeadOf, What, Amount, Same, Unrecorded, owned, stock, invVars, history
  <2> QED
    BY <2>1, <1>q, <1>n, JustGoesOn DEF Rare
<1>11. CASE RewardDuplicate(c)
  <2>1. job[c] # <<>> /\ HeadOf(c) \in {"pullDupe", "useDupe", "buyDupe"} /\ Same /\ UNCHANGED <<balance, withdrawn, dearest>>
    BY <1>11 DEF RewardDuplicate, At, HeadOf, What, Amount, Same, Unrecorded, owned, stock, invVars, history
  <2>2. What(c) \in Hero
    BY <2>1, HeadFits DEF HeadOf, Fits, HeroWork, What
  <2>3. RewardOf(What(c)) \in Parcels
    BY <2>2, SubParcels, InventoryAssumption DEF RewardOf
  <2> DEFINE now == Each("add", RewardOf(What(c)))
  <2>4. Plain(now) /\ Within(now, GiftWork)
    BY <2>3, EachPlain, EachWithin DEF GiftWork
  <2>5. HeadOf(c) \notin Rare /\ HeadOf(c) \notin CashWork /\ HeadOf(c) \notin TeamWork
    BY <2>1 DEF Rare, CashWork, TeamWork
  <2>6. CASE At(c, "pullDupe") /\ Proceed(c, now)
    BY <2>1, <2>4, <2>5, <2>6, <1>n, <1>q, GoesOnWith
  <2>7. CASE Proceed(c, <<>>)
    BY <2>1, <2>5, <2>7, <1>n, <1>q, JustGoesOn
  <2>8. CASE At(c, "buyDupe") /\ job' = [job EXCEPT ![c] = Tail(@) \o now]
    <3>1. HeadOf(c) = "buyDupe" /\ job' = [job EXCEPT ![c] = Tail(job[c]) \o now]
      BY <2>8 DEF At, HeadOf
    <3> QED
      BY <2>1, <2>4, <3>1, <1>q DEF PutsLast
  <2> QED
    BY <1>11, <2>6, <2>7, <2>8 DEF RewardDuplicate
<1>12. CASE Interrupt(c)
  <2>1. /\ job[c] # <<>> /\ Return(c, "failed") /\ faults' = faults + 1 /\ overlapped' = overlapped
        /\ UNCHANGED <<balance, withdrawn, dearest>>
    BY <1>12 DEF Interrupt, Fail, owned, stock
  <2> QED
    BY <2>1, <1>f, <1>q
<1> QED
  BY <1>1, <1>3, <1>4, <1>5, <1>6, <1>7, <1>8, <1>9, <1>10, <1>11, <1>12, <1>13, <1>14
  DEF InventoryStep

\* --- Moves of a service in general

LEMMA QuietMoves ==
    ASSUME OwnedTypes, GmTypes, NEW c \in Conn, job[c] # <<>>,
           HeadOf(c) \notin Rare, HeadOf(c) \notin TeamWork,
           Kept, Grows, Same, UNCHANGED <<balance, withdrawn, dearest>>,
           \/ HeadOf(c) \notin GiftWork /\ (Return(c, "refused") \/ Return(c, "failed"))
           \/ \E now : /\ Plain(now) /\ Proceed(c, now)
                       /\ HeadOf(c) \in GiftWork => Within(now, GiftWork)
                       /\ HeadOf(c) \in CashWork => Within(now, CashWork)
    PROVE Move(c)
<1>1. CASE HeadOf(c) \notin GiftWork /\ (Return(c, "refused") \/ Return(c, "failed"))
  <2>1. Stops(c)
    BY <1>1, RareIsBoth DEF Stops, Return, Same
  <2> QED
    BY <2>1 DEF Move
<1>2. ASSUME NEW now, Plain(now), Proceed(c, now),
             HeadOf(c) \in GiftWork => Within(now, GiftWork),
             HeadOf(c) \in CashWork => Within(now, CashWork)
      PROVE Move(c)
  <2>1. NoLess
    BY NoLossAtAll
  <2>2. GoesOn(c)
    BY <1>2, <2>1, GoesOnWith
  <2> QED
    BY <2>2 DEF Move
<1> QED
  BY <1>1, <1>2

LEMMA FailMoves ==
    ASSUME NEW c \in Conn, job[c] # <<>>, Kept, Grows, Fail(c), UNCHANGED <<balance, withdrawn>>
    PROVE Move(c)
BY DEF Fail, Return, Stops, Move

LEMMA BeginMoves ==
    ASSUME NEW c \in Conn, NEW price, NEW product, NEW s, Begin(c, price, product, s),
           Kept, Grows,
           \/ Plain(s) \/ Purchase(s) \/ SaveOfTeam(s)
           \/ \E op \in {"readMail", "listMails"} : s = << Stmt(op, "mail", 0) >>
    PROVE Move(c)
<1>1. /\ job[c] = <<>> /\ job' = [job EXCEPT ![c] = s]
      /\ faults' = faults /\ overlapped' = (overlapped \/ \E d \in Conn : job[d] # <<>>)
      /\ UNCHANGED <<dearest, balance, withdrawn>>
  BY DEF Begin, owned, stock
<1>2. \E t : /\ job' = [job EXCEPT ![c] = t]
             /\ \/ Plain(t) \/ (Tame(t) /\ Opens(t)) \/ Purchase(t) \/ SaveOfTeam(t)
                \/ \E op \in {"readMail", "listMails"} : t = << Stmt(op, "mail", 0) >>
  <2> WITNESS s
  <2> QED
    BY <1>1, Zenon
<1>3. Begins(c)
  BY <1>1, <1>2, Zenon DEF Begins
<1> QED
  BY <1>3 DEF Move

LEMMA OpenMoves ==
    ASSUME NEW c \in Conn, NEW price, NEW product, NEW s, Begin(c, price, product, s),
           Kept, Grows, Tame(s), Opens(s)
    PROVE Move(c)
<1>1. /\ job[c] = <<>> /\ job' = [job EXCEPT ![c] = s]
      /\ faults' = faults /\ overlapped' = (overlapped \/ \E d \in Conn : job[d] # <<>>)
      /\ UNCHANGED <<dearest, balance, withdrawn>>
  BY DEF Begin, owned, stock
<1>2. \E t : job' = [job EXCEPT ![c] = t] /\ Tame(t) /\ Opens(t)
  BY <1>1
<1>3. Begins(c)
  BY <1>1, <1>2 DEF Begins
<1> QED
  BY <1>3 DEF Move

\* What the statement at the head of a job is about.
LEMMA Head2Do ==
    ASSUME JobTypes, NEW c \in Conn, NEW op, At(c, op)
    PROVE /\ job[c] # <<>> /\ HeadOf(c) = op
          /\ Amount(c) \in Int
          /\ op \in CountOps => Amount(c) \in Nat
          /\ op \in RankOps => Amount(c) \in Nat \ {0}
          /\ op = "saveSkill" => Amount(c) \in Skill
          /\ op = "saveSkin" => Amount(c) \in 0..3
          /\ op \in HeroWork => What(c) \in Hero
          /\ op \in StyleOps => What(c)[1] \in Hero /\ What(c)[2] \in Style
          /\ op \in {"limit", "countBuy"} => What(c) \in Goods /\ Amount(c) \in Quantity
          /\ op \in PackOps => What(c) \in Pack
          /\ op = "open" => What(c)[1] \in Consumable /\ What(c)[2] \in DOMAIN Effect[What(c)[1]].gives
          /\ op \in {"applyInsight", "raise"} => What(c)[1] \in InsightRow /\ What(c)[2] \in Hero
          /\ op \in PoolOps => What(c) \in Pool
          /\ op \in {"option", "settle"} =>
                /\ What(c)[1] \in Pool /\ What(c)[2] \in Offer
                /\ Amount(c) \in 1..Len(Options[What(c)[1]][What(c)[2]])
          /\ op = "convert" => What(c) \in Nat
          /\ op = "insertUp" => What(c)[1] \in Pool /\ What(c)[2] \in Hero
          /\ op \in LayoutOps => HeroOf(c) \in Hero /\ TemplateOf(c) \in Template
          /\ op = "loadScheme" => Detail(c) \in DOMAIN Scheme
          /\ op \in {"wearStyle", "saveWorn"} => Detail(c) \in Style \cup {NoStyle}
          /\ op \in {"findTeam", "newTeam"} => Whole(What(c)[3])
          /\ op = "findCommon" => Whole(What(c)[2])
          /\ op = "setEquip" => IsList(What(c)[3])
          /\ op \in {"readOrder", "insertOrder"} => What(c)[1] \in Snapshot
          /\ op = "wipeOrder" => What(c) \in Snapshot
          /\ op = "saveLevelArg" => What(c) \in 1..MaxLevel
<1>1. job[c] # <<>> /\ Head(job[c]).op = op
  BY DEF At
<1>2. Fits(Head(job[c]))
  BY <1>1, HeadFits
<1> DEFINE x == Head(job[c])
<1>3. /\ HeadOf(c) = op /\ Amount(c) = x.n /\ What(c) = x.what /\ HeroOf(c) = x.what[1]
      /\ TemplateOf(c) = x.what[2] /\ Detail(c) = x.what[3]
  BY <1>1 DEF HeadOf, What, Amount, HeroOf, TemplateOf, Detail
<1>4. x.op = op /\ Fits(x)
  BY <1>1, <1>2
<1> HIDE DEF x
<1> QED
  BY <1>1, <1>3, <1>4 DEF Fits

\* --- Store moves

LEMMA CostInPlain ==
    ASSUME NEW p \in Parcels, NEW op \in {"check", "take"}
    PROVE Plain(CostIn(op, p))
<1> DEFINE S == {Ordered(op, x[1], x[2]) : x \in Thing \X Int}
           ss == [i \in 1..2 |-> Each(op, OfKind(p, Payable[i]))]
<1>1. DOMAIN Payable = 1..2
  BY DEF Payable
<1>2. CostIn(op, p) = FlattenSeq(ss)
  BY <1>1 DEF CostIn
<1>3. \A i \in 1..2 : ss[i] \in Seq(S)
  <2> TAKE i \in 1..2
  <2>1. OfKind(p, Payable[i]) \in Seq(Thing \X Int)
    BY SubParcels DEF Parcels
  <2>2. Each(op, OfKind(p, Payable[i])) \in Seq(S)
    BY <2>1, EachTyped
  <2> QED
    BY <2>2
<1>4. ss = [i \in 1..2 |-> ss[i]]
  OBVIOUS
<1>5. \A y \in S : Fits(y) /\ y.op \notin Rare
  BY OrderedPlain
<1> HIDE DEF S, ss
<1>6. CostIn(op, p) \in Seq(S)
  BY <1>2, <1>3, <1>4, FlatMade
<1>7. IsList(CostIn(op, p)) /\ ToSet(CostIn(op, p)) \subseteq S
  BY <1>6, SeqMade
<1> QED
  BY <1>5, <1>7 DEF Plain, Fine

LEMMA StoreStmts ==
    \A p \in Pack, n \in Nat, op \in PackOps : Plain(<< Stmt(op, p, n) >>)
<1> SUFFICES ASSUME NEW p \in Pack, NEW n \in Nat, NEW op \in PackOps
             PROVE Plain(<< Stmt(op, p, n) >>)
  OBVIOUS
<1>1. Fits(Stmt(op, p, n)) /\ Stmt(op, p, n).op \notin Rare
  BY DEF Stmt, Fits, Rare, GiftWork, TeamWork, CountOps, RankOps, HeroWork, HeroOps, StyleOps, PackOps, PoolOps, LayoutOps
<1> QED
  BY <1>1, PlainFew

LEMMA StoreFrame ==
    ASSUME NEW c \in Conn, StoreNext(c)
    PROVE /\ UNCHANGED <<claimed, deliveries, worn, teams, meant, lastId>>
          /\ Grows
          /\ StoreRequest(c) \/ StoreStep(c)
BY DEF StoreNext, Grows, growthVars, itemVars, mailVars, summonVars, layOut, layoutVars, groupVars, gmVars

LEMMA StoreMoves ==
    ASSUME JobTypes, StateTypes, NEW c \in Conn, StoreNext(c)
    PROVE Move(c)
<1>0. /\ UNCHANGED <<claimed, deliveries, worn, teams, meant, lastId>>
      /\ Grows
      /\ StoreRequest(c) \/ StoreStep(c)
  BY StoreFrame
<1>t. OwnedTypes /\ GmTypes /\ StoreTypes
  BY DEF StateTypes
<1> USE <1>0, <1>t
<1>k. UNCHANGED bought => Kept
  BY DEF Kept
<1>1. ASSUME NEW g \in Goods, NEW n \in Quantity, BuyGoods(c, g, n) PROVE Move(c)
  <2> DEFINE u == CostIn("check", Times(Cost[g], n))
             w == CostIn("take", Times(Cost[g], n))
             v == Deliver(BuyOrder, Times(Product[g], n), "buyHero")
             s == << Stmt("limit", g, n) >> \o u \o w \o << Stmt("countBuy", g, n) >> \o v
  <2>1. Cost[g] \in Parcels /\ Product[g] \in Parcels /\ n \in Int
    BY SubParcels, StoreAssumption
  <2>2. Times(Cost[g], n) \in Parcels /\ Times(Product[g], n) \in Parcels
    BY <2>1, SubParcels
  <2>3. BuyOrder \in Seq(KindOrder) /\ "buyHero" \in HeroOps
    BY DEF BuyOrder, KindOrder, HeroOps
  <2>4. Plain(u) /\ Plain(w) /\ Plain(v)
    BY <2>2, <2>3, CostInPlain, DeliverPlain
  <2>5. Kept /\ Begin(c, Total(Times(Cost[g], n)), Promise(Product[g], n), s)
    BY <1>1, <1>k DEF BuyGoods, storeVars
  <2> HIDE DEF u, w, v
  <2>6. Purchase(s)
    BY <2>4 DEF Purchase
  <2> QED
    BY <2>5, <2>6, BeginMoves
<1>2. ASSUME NEW p \in Pack, NewOrder(c, p) PROVE Move(c)
  <2> DEFINE u == IF CardDays[p] > 0 THEN << Stmt("readCard", p, 0) >> ELSE <<>>
             w == Deliver(PackOrder, PackItems[p], "orderHero")
             v == << Stmt("readCharge", p, 0), Stmt("readStats", p, 0) >>
  <2>1. PackItems[p] \in Parcels
    BY SubParcels, StoreAssumption
  <2>2. PackOrder \in Seq(KindOrder) /\ "orderHero" \in HeroOps
    BY DEF PackOrder, KindOrder, HeroOps
  <2>3. Plain(u)
    BY StoreStmts, Nothing2Do DEF PackOps
  <2>4. Plain(w)
    BY <2>1, <2>2, DeliverPlain
  <2>5. Plain(v)
    <3>1. \A op \in {"readCharge", "readStats"} : Fits(Stmt(op, p, 0)) /\ Stmt(op, p, 0).op \notin Rare
      BY DEF Stmt, Fits, Rare, GiftWork, TeamWork, CountOps, RankOps, HeroWork, HeroOps, StyleOps, PackOps, PoolOps, LayoutOps
    <3> QED
      BY <3>1, PlainFew
  <2>6. Kept /\ Begin(c, Nothing, Total(PackItems[p]), u \o w \o v)
    BY <1>2, <1>k DEF NewOrder, storeVars
  <2> HIDE DEF u, w, v
  <2>7. Plain(u \o w \o v)
    BY <2>3, <2>4, <2>5, FineJoin
  <2> QED
    BY <2>6, <2>7, BeginMoves
<1>3. CASE CheckLimit(c)
  <2>1. /\ job[c] # <<>> /\ HeadOf(c) = "limit" /\ Amount(c) \in Quantity /\ What(c) \in Goods
    BY <1>3, Head2Do DEF CheckLimit
  <2>2. Same /\ Kept /\ UNCHANGED <<dearest, balance, withdrawn>>
    BY <1>3, <1>k DEF CheckLimit, Same, Unrecorded, owned, stock, storeVars
  <2>3. CASE BuyLimit[What(c)] > 0 /\ bought[What(c)] + Amount(c) > BuyLimit[What(c)]
    <3>1. Return(c, "refused")
      BY <1>3, <2>3 DEF CheckLimit
    <3>2. Stops(c)
      BY <2>1, <2>2, <3>1 DEF Stops, Return, Same, GiftWork, Lone
    <3> QED
      BY <3>2 DEF Move
  <2>4. CASE ~(BuyLimit[What(c)] > 0 /\ bought[What(c)] + Amount(c) > BuyLimit[What(c)])
    <3>1. Onward(c, <<>>)
      BY <1>3, <2>1, <2>4 DEF CheckLimit, Onward, Proceed
    <3>2. BuyLimit[What(c)] \in Nat /\ bought[What(c)] \in Int /\ Amount(c) \in Int
      BY <2>1, StoreAssumption DEF StoreTypes
    <3>3. BuyLimit[What(c)] > 0 => bought[What(c)] + Amount(c) <= BuyLimit[What(c)]
      BY <2>4, <3>2
    <3>4. PassesLimit(c)
      BY <2>1, <2>2, <3>1, <3>3 DEF PassesLimit
    <3> QED
      BY <3>4 DEF Move
  <2> QED
    BY <2>3, <2>4
<1>4. CASE CountBuy(c)
  <2>1. HeadOf(c) = "countBuy" /\ job[c] # <<>>
    BY <1>4, Head2Do DEF CountBuy
  <2>2. Counts(c)
    BY <1>4, <2>1 DEF CountBuy, Counts, Same, Unrecorded, owned, stock, Onward, Proceed
  <2> QED
    BY <2>2 DEF Move
<1>q. ASSUME NEW op \in PackOps, At(c, op), UNCHANGED <<owned, bought>>, Unrecorded,
             \E now : Plain(now) /\ Proceed(c, now)
      PROVE Move(c)
  <2>1. job[c] # <<>> /\ HeadOf(c) = op
    BY <1>q, Head2Do
  <2>2. HeadOf(c) \notin Rare /\ HeadOf(c) \notin GiftWork /\ HeadOf(c) \notin CashWork /\ HeadOf(c) \notin TeamWork
    BY <2>1 DEF PackOps, Rare, GiftWork, CashWork, TeamWork
  <2>3. Same /\ Kept /\ UNCHANGED <<dearest, balance, withdrawn>>
    BY <1>q, <1>k DEF Same, Unrecorded, owned, stock
  <2> QED
    BY <1>q, <2>1, <2>2, <2>3, QuietMoves
<1>5. CASE ReadCard(c)
  <2>1. At(c, "readCard") /\ What(c) \in Pack /\ cardUntil[What(c)] + CardDays[What(c)] \in Nat
    <3>1. At(c, "readCard") /\ What(c) \in Pack
      BY <1>5, Head2Do DEF ReadCard, PackOps
    <3>2. cardUntil[What(c)] \in Nat /\ CardDays[What(c)] \in Nat
      BY <3>1, StoreAssumption DEF StoreTypes
    <3> QED
      BY <3>1, <3>2
  <2>2. Plain(<< Stmt("saveCard", What(c), cardUntil[What(c)] + CardDays[What(c)]) >>)
    BY <2>1, StoreStmts DEF PackOps
  <2>3. UNCHANGED <<owned, bought>> /\ Unrecorded
        /\ Proceed(c, << Stmt("saveCard", What(c), cardUntil[What(c)] + CardDays[What(c)]) >>)
    BY <1>5 DEF ReadCard, storeVars
  <2> QED
    BY <2>1, <2>2, <2>3, <1>q DEF PackOps
<1>6. CASE ReadCharge(c)
  <2>1. At(c, "readCharge") /\ What(c) \in Pack /\ charged[What(c)] + 1 \in Nat
    <3>1. At(c, "readCharge") /\ What(c) \in Pack
      BY <1>6, Head2Do DEF ReadCharge, PackOps
    <3>2. charged[What(c)] \in Nat
      BY <3>1 DEF StoreTypes
    <3> QED
      BY <3>1, <3>2
  <2>2. Plain(<< Stmt("saveCharge", What(c), charged[What(c)] + 1) >>)
    BY <2>1, StoreStmts DEF PackOps
  <2>3. UNCHANGED <<owned, bought>> /\ Unrecorded
        /\ Proceed(c, << Stmt("saveCharge", What(c), charged[What(c)] + 1) >>)
    BY <1>6 DEF ReadCharge, storeVars
  <2> QED
    BY <2>1, <2>2, <2>3, <1>q DEF PackOps
<1>7. CASE ReadStats(c)
  <2>1. At(c, "readStats") /\ What(c) \in Pack /\ spent + PackPrice[What(c)] \in Nat
    <3>1. At(c, "readStats") /\ What(c) \in Pack
      BY <1>7, Head2Do DEF ReadStats, PackOps
    <3>2. spent \in Nat /\ PackPrice[What(c)] \in Nat
      BY <3>1, StoreAssumption DEF StoreTypes
    <3> QED
      BY <3>1, <3>2
  <2>2. Plain(<< Stmt("saveStats", What(c), spent + PackPrice[What(c)]) >>)
    BY <2>1, StoreStmts DEF PackOps
  <2>3. UNCHANGED <<owned, bought>> /\ Unrecorded
        /\ Proceed(c, << Stmt("saveStats", What(c), spent + PackPrice[What(c)]) >>)
    BY <1>7 DEF ReadStats, storeVars
  <2> QED
    BY <2>1, <2>2, <2>3, <1>q DEF PackOps
<1>8. CASE SaveCard(c)
  BY <1>8, <1>q, Nothing2Do DEF SaveCard, PackOps
<1>9. CASE SaveCharge(c)
  BY <1>9, <1>q, Nothing2Do DEF SaveCharge, PackOps
<1>10. CASE SaveStats(c)
  BY <1>10, <1>q, Nothing2Do DEF SaveStats, PackOps
<1> QED
  BY <1>1, <1>2, <1>3, <1>4, <1>5, <1>6, <1>7, <1>8, <1>9, <1>10 DEF StoreRequest, StoreStep

\* --- Mail moves

LEMMA MailFrame ==
    ASSUME NEW c \in Conn, MailNext(c)
    PROVE /\ UNCHANGED <<bought, worn, teams, meant, lastId>>
          /\ Grows
          /\ MailRequest(c) \/ MailStep(c)
BY DEF MailNext, Grows, storeVars, growthVars, itemVars, summonVars, layOut, layoutVars, groupVars, gmVars

LEMMA MailMoves ==
    ASSUME JobTypes, StateTypes, NEW c \in Conn, MailNext(c)
    PROVE Move(c)
<1>0. /\ UNCHANGED <<bought, worn, teams, meant, lastId>>
      /\ Grows
      /\ MailRequest(c) \/ MailStep(c)
  BY MailFrame
<1>t. OwnedTypes /\ GmTypes /\ MailTypes
  BY DEF StateTypes
<1> USE <1>0, <1>t
<1>k. UNCHANGED mailVars => Kept
  BY DEF Kept, mailVars
<1>1. ASSUME NEW op \in {"readMail", "listMails"}, AskMail(c, op) PROVE Move(c)
  <2>1. Kept /\ Begin(c, Nothing, Total(Attachment), << Stmt(op, "mail", 0) >>)
    BY <1>1, <1>k DEF AskMail
  <2> QED
    BY <2>1, BeginMoves
<1>2. CASE FindMail(c)
  <2>1. job[c] # <<>> /\ HeadOf(c) \in {"readMail", "listMails"}
        /\ Same /\ UNCHANGED <<dearest, balance, withdrawn>>
    BY <1>2 DEF FindMail, At, HeadOf, Same, Unrecorded, owned, stock
  <2>2. CASE claimed
    <3>1. Return(c, "refused") /\ Kept
      BY <1>2, <2>2, <1>k DEF FindMail
    <3>2. Stops(c)
      BY <2>1, <3>1 DEF Stops, Return, Same, GiftWork, Lone
    <3> QED
      BY <3>2 DEF Move
  <2>3. CASE ~claimed
    <3> DEFINE gifts == Deliver(MailOrder, Attachment, "mailHero")
               records == << Stmt("markMail", "mail", 0), Stmt("logMail", "mail", 0) >>
    <3>1. Proceed(c, gifts \o records) /\ deliveries' = deliveries + 1 /\ UNCHANGED claimed
      BY <1>2, <2>3 DEF FindMail
    <3>2. Attachment \in Parcels /\ MailOrder \in Seq(KindOrder) /\ "mailHero" \in HeroOps
      BY SubParcels, MailAssumption DEF MailOrder, KindOrder, HeroOps
    <3>3. Plain(gifts) /\ Within(gifts, GiftWork)
      BY <3>2, DeliverPlain, DeliverWithin
    <3>4. Fine(records) /\ Within(records, GiftWork)
      <4>1. \A op \in {"markMail", "logMail"} : Fits(Stmt(op, "mail", 0)) /\ Stmt(op, "mail", 0).op \in GiftWork
        BY DEF Stmt, Fits, Rare, GiftWork, TeamWork, CountOps, RankOps, HeroWork, HeroOps, StyleOps, PackOps, PoolOps, LayoutOps
      <4>2. \A x, y : IsList(<<x, y>>) /\ ToSet(<<x, y>>) = {x, y}
        BY Tuples
      <4> QED
        BY <4>1, <4>2 DEF Fine, Within
    <3>8. \E x \in ToSet(records) : x.op = "markMail"
      <4>1. \A x, y : ToSet(<<x, y>>) = {x, y}
        BY Tuples
      <4> QED
        BY <4>1 DEF Stmt
    <3> HIDE DEF gifts, records
    <3>5. Fine(gifts \o records) /\ Within(gifts \o records, GiftWork)
          /\ \E x \in ToSet(gifts \o records) : x.op = "markMail"
      BY <3>3, <3>4, <3>8, FineJoin DEF Plain, Fine
    <3>6. Onward(c, gifts \o records)
      BY <2>1, <3>1 DEF Onward, Proceed
    <3>7. FindsMail(c)
      BY <2>1, <2>3, <3>1, <3>5, <3>6 DEF FindsMail
    <3> QED
      BY <3>7 DEF Move
  <2> QED
    BY <2>2, <2>3
<1>3. CASE MarkMail(c)
  <2>1. HeadOf(c) = "markMail" /\ job[c] # <<>>
    BY <1>3 DEF MarkMail, At, HeadOf
  <2>2. MarksMail(c)
    BY <1>3, <2>1 DEF MarkMail, MarksMail, Same, Unrecorded, owned, stock, Onward, Proceed
  <2> QED
    BY <2>2 DEF Move
<1>4. CASE LogMail(c)
  <2>1. HeadOf(c) = "logMail" /\ job[c] # <<>> /\ Proceed(c, <<>>)
    BY <1>4 DEF LogMail, At, HeadOf
  <2>2. Same /\ Kept /\ UNCHANGED <<dearest, balance, withdrawn>>
    BY <1>4 DEF LogMail, Same, Kept, Unrecorded, owned, stock
  <2>3. GoesOn(c)
    BY <2>1, <2>2, NoLossAtAll, JustGoesOn DEF Rare
  <2> QED
    BY <2>3 DEF Move
<1> QED
  BY <1>1, <1>2, <1>3, <1>4 DEF MailRequest, MailStep

\* --- Moves of the commands

LEMMA GmFrame ==
    ASSUME NEW c \in Conn, GmNext(c)
    PROVE Kept /\ Grows /\ (GmRequest(c) \/ GmStep(c))
BY DEF GmNext, Kept, Grows, storeVars, growthVars, itemVars, mailVars, summonVars, layOut,
       layoutVars, groupVars

LEMMA GmMoves ==
    ASSUME JobTypes, StateTypes, NEW c \in Conn, GmNext(c)
    PROVE Move(c)
<1>0. Kept /\ Grows /\ (GmRequest(c) \/ GmStep(c))
  BY GmFrame
<1>t. OwnedTypes /\ GmTypes
  BY DEF StateTypes
<1> USE <1>0, <1>t
<1>1. ASSUME NEW g \in Gifts, Give(c, g[1], g[2]) PROVE Move(c)
  <2> DEFINE x == g[1]  n == g[2]
             s == Grants(Kind[x], << <<x, n>> >>, "orderHero")
  <2>1. x \in Thing /\ n \in Int /\ Kind[x] \in KindOrder
    BY <1>1, GmAssumption DEF Give, KindOrder
  <2>2. << <<x, n>> >> \in Parcels
    BY <2>1 DEF Parcels
  <2>3. s \in Seq(GiftStmt("orderHero"))
    BY <2>1, <2>2, GrantsTyped DEF HeroOps
  <2>4. Plain(s)
    BY <2>3, GiftsPlain DEF HeroOps
  <2>5. Begin(c, Nothing, Total(<< <<x, n>> >>), s)
    BY <1>1 DEF Give, gmVars
  <2> HIDE DEF s
  <2> QED
    BY <2>4, <2>5, BeginMoves
<1>2. ASSUME NEW level \in LevelArgs, SetLevel(c, level) PROVE Move(c)
  <2> DEFINE s == IF level \in 1..MaxLevel THEN << Stmt("saveLevelArg", level, 0) >>
                  ELSE << Stmt("usage", level, 0) >>
  <2>1. level \in 1..MaxLevel =>
           Fits(Stmt("saveLevelArg", level, 0)) /\ Stmt("saveLevelArg", level, 0).op \notin Rare
    BY DEF Stmt, Fits, Rare, GiftWork, TeamWork, CountOps, RankOps, HeroWork, HeroOps, StyleOps, PackOps, PoolOps, LayoutOps
  <2>2. Fits(Stmt("usage", level, 0)) /\ Stmt("usage", level, 0).op \notin Rare
    BY DEF Stmt, Fits, Rare, GiftWork, TeamWork, CountOps, RankOps, HeroWork, HeroOps, StyleOps, PackOps, PoolOps, LayoutOps
  <2>3. Plain(s)
    BY <2>1, <2>2, PlainFew
  <2>4. Begin(c, Nothing, Nothing, s)
    BY <1>2 DEF SetLevel, gmVars
  <2> HIDE DEF s
  <2> QED
    BY <2>3, <2>4, BeginMoves
<1>3. CASE Usage(c)
  <2>1. HeadOf(c) = "usage" /\ job[c] # <<>> /\ Return(c, "refused")
    BY <1>3 DEF Usage, At, HeadOf
  <2>2. Same /\ UNCHANGED <<balance, withdrawn, dearest>>
    BY <1>3 DEF Usage, Same, Unrecorded, owned, stock, gmVars
  <2> QED
    BY <2>1, <2>2, QuietMoves DEF Rare, GiftWork, CashWork, TeamWork
<1>4. CASE SaveLevelArg(c)
  <2>1. HeadOf(c) = "saveLevelArg" /\ job[c] # <<>> /\ Proceed(c, <<>>)
    BY <1>4 DEF SaveLevelArg, At, HeadOf
  <2>2. Same /\ UNCHANGED <<balance, withdrawn, dearest>>
    BY <1>4 DEF SaveLevelArg, Same, Unrecorded, owned, stock
  <2> QED
    BY <2>1, <2>2, QuietMoves, Nothing2Do DEF Rare, GiftWork, CashWork, TeamWork
<1> QED
  BY <1>1, <1>2, <1>3, <1>4 DEF GmRequest, GmStep

\* --- Growth moves

GrowthWork == {"levelUp", "rankUp", "upgradeSkill", "upgradeOther", "talentUp", "readSkill",
               "saveLevel", "saveRank", "saveSkill", "saveTalent", "hasSkin", "saveSkin"}

LEMMA GrowthStmts ==
    /\ \A h \in Hero, op \in GrowthWork \ {"saveLevel", "saveRank", "saveSkill", "saveSkin"} :
          \A n \in Nat : Plain(<< Stmt(op, h, n) >>)
    /\ \A h \in Hero, op \in {"saveLevel", "saveRank"} :
          \A n \in Nat \ {0} : Plain(<< Stmt(op, h, n) >>)
    /\ \A h \in Hero, op \in {"upgradeSkill", "upgradeOther", "readSkill"} :
          \A n \in Int : Plain(<< Stmt(op, h, n) >>)
    /\ \A h \in Hero : \A n \in Skill : Plain(<< Stmt("saveSkill", h, n) >>)
    /\ \A h \in Hero, s \in Style : Plain(<< Stmt("unlockStyle", <<h, s>>, 0) >>)
<1>p. \A x : Fits(x) /\ x.op \notin Rare => Plain(<<x>>)
  BY PlainFew
<1>1. ASSUME NEW h \in Hero, NEW op \in GrowthWork \ {"saveLevel", "saveRank", "saveSkill", "saveSkin"},
             NEW n \in Nat
      PROVE Plain(<< Stmt(op, h, n) >>)
  <2>1. Fits(Stmt(op, h, n)) /\ Stmt(op, h, n).op \notin Rare
    BY DEF GrowthWork, Stmt, Fits, Rare, GiftWork, TeamWork, CountOps, RankOps, HeroWork, HeroOps, StyleOps, PackOps, PoolOps, LayoutOps
  <2> QED
    BY <2>1, <1>p
<1>2. ASSUME NEW h \in Hero, NEW op \in {"saveLevel", "saveRank"}, NEW n \in Nat \ {0}
      PROVE Plain(<< Stmt(op, h, n) >>)
  <2>1. Fits(Stmt(op, h, n)) /\ Stmt(op, h, n).op \notin Rare
    BY DEF Stmt, Fits, Rare, GiftWork, TeamWork, CountOps, RankOps, HeroWork, HeroOps, StyleOps, PackOps, PoolOps, LayoutOps
  <2> QED
    BY <2>1, <1>p
<1>3. ASSUME NEW h \in Hero, NEW n \in Skill PROVE Plain(<< Stmt("saveSkill", h, n) >>)
  <2>1. Fits(Stmt("saveSkill", h, n)) /\ Stmt("saveSkill", h, n).op \notin Rare
    BY DEF Skill, MaxSkill, Stmt, Fits, Rare, GiftWork, TeamWork, CountOps, RankOps, HeroWork, HeroOps, StyleOps, PackOps, PoolOps, LayoutOps
  <2> QED
    BY <2>1, <1>p
<1>4. ASSUME NEW h \in Hero, NEW s \in Style PROVE Plain(<< Stmt("unlockStyle", <<h, s>>, 0) >>)
  <2>1. Fits(Stmt("unlockStyle", <<h, s>>, 0)) /\ Stmt("unlockStyle", <<h, s>>, 0).op \notin Rare
    BY DEF Stmt, Fits, Rare, GiftWork, TeamWork, CountOps, RankOps, HeroWork, HeroOps, StyleOps, PackOps, PoolOps, LayoutOps
  <2> QED
    BY <2>1, <1>p
<1>5. ASSUME NEW h \in Hero, NEW op \in {"upgradeSkill", "upgradeOther", "readSkill"}, NEW n \in Int
      PROVE Plain(<< Stmt(op, h, n) >>)
  <2>1. Fits(Stmt(op, h, n)) /\ Stmt(op, h, n).op \notin Rare
    BY DEF Stmt, Fits, Rare, GiftWork, TeamWork, CountOps, RankOps, HeroWork, HeroOps, StyleOps, PackOps, PoolOps, LayoutOps
  <2> QED
    BY <2>1, <1>p
<1> QED
  BY <1>1, <1>2, <1>3, <1>4, <1>5

LEMMA CheckAndTakePlain ==
    ASSUME NEW p \in Parcels PROVE Plain(CheckAndTake(p))
BY EachPlain, FineJoin DEF CheckAndTake

\* The parcels of some of the materials.
LEMMA Bagged ==
    ASSUME NEW all \in Amounts, NEW M \in SUBSET Material
    PROVE LET S == {<<m, all[m]>> : m \in M}
          IN IsFiniteSet(S) /\ S \subseteq Thing \X Int
<1> DEFINE S == {<<m, all[m]>> : m \in M}
           f == [m \in M |-> <<m, all[m]>>]
<1>1. IsFiniteSet(M)
  BY InventoryAssumption, FS_Subset
<1>2. S \subseteq Thing \X Int
  BY DEF Amounts, Thing
<1>3. f \in Surjection(M, S)
  BY DEF Surjection
<1>4. IsFiniteSet(S)
  <2> HIDE DEF S, f
  <2> QED
    BY <1>1, <1>3, FS_Surjection
<1> QED
  BY <1>2, <1>4

LEMMA CurrencyParcels ==
    ASSUME NEW h \in Hero, NEW old \in Nat, NEW new \in DOMAIN LevelCost[h],
           NEW p \in ByCurrency(h, old, new)
    PROVE p \in Parcels
<1> DEFINE ss == [i \in 1..(new - old) |-> OfKind(LevelCost[h][old + i], "currency")]
           all == Total(FlattenSeq(ss))
           S == {<<m, all[m]>> : m \in {n \in Material : all[n] > 0}}
<1>1. new \in Nat /\ 1..new \subseteq DOMAIN LevelCost[h]
      /\ \A l \in DOMAIN LevelCost[h] : LevelCost[h][l] \in Parcels
  BY GrowthAssumption, SubParcels
<1>2. FlattenSeq(ss) \in Parcels
  <2>1. CASE new <= old
    <3>1. ss = <<>>
      BY <2>1, <1>1
    <3>2. FlattenSeq(<<>>) = <<>>
      BY DEF FlattenSeq
    <3>3. <<>> \in Parcels
      BY DEF Parcels
    <3> HIDE DEF ss
    <3> QED
      BY <3>1, <3>2, <3>3
  <2>2. CASE new > old
    <3>1. new - old \in Nat
      BY <2>2, <1>1
    <3>2. \A i \in 1..(new - old) : ss[i] \in Seq(Thing \X Int)
      <4> TAKE i \in 1..(new - old)
      <4>1. old + i \in 1..new
        BY <1>1, <3>1
      <4>2. LevelCost[h][old + i] \in Parcels
        BY <4>1, <1>1
      <4> QED
        BY <4>2, SubParcels DEF Parcels
    <3>3. ss = [i \in 1..(new - old) |-> ss[i]]
      OBVIOUS
    <3> HIDE DEF ss
    <3> QED
      BY <3>1, <3>2, <3>3, FlatMade DEF Parcels
  <2> QED
    BY <2>1, <2>2, <1>1
<1>3. all \in Amounts
  BY <1>2, TotalTyped
<1>4. S \subseteq Thing \X Int /\ IsFiniteSet(S)
  <2> HIDE DEF all
  <2> QED
    BY <1>3, Bagged
<1>6. Cardinality(S) \in Nat
  BY <1>4, FS_CardinalityType
<1>7. p \in [1..Cardinality(S) -> S]
  BY DEF ByCurrency, SetToSeqs
<1> HIDE DEF S
<1>8. \A n \in Nat : \A g \in [1..n -> Thing \X Int] : g \in Seq(Thing \X Int)
  OBVIOUS
<1>9. p \in [1..Cardinality(S) -> Thing \X Int]
  BY <1>4, <1>7
<1> QED
  BY <1>6, <1>8, <1>9 DEF Parcels

LEMMA SkinPlain ==
    ASSUME NEW h \in Hero, NEW rank PROVE Plain(SkinOf(h, rank))
BY GrowthStmts, Nothing2Do DEF SkinOf, GrowthWork

LEMMA GrowthFrame ==
    ASSUME NEW c \in Conn, GrowthNext(c)
    PROVE Kept /\ (GrowthRequest(c) \/ GrowthStep(c))
BY DEF GrowthNext, Kept, storeVars, itemVars, mailVars, summonVars, layOut, layoutVars, groupVars, gmVars

LEMMA GrowthMoves ==
    ASSUME JobTypes, StateTypes, NEW c \in Conn, GrowthNext(c)
    PROVE Move(c)
<1>0. Kept /\ (GrowthRequest(c) \/ GrowthStep(c))
  BY GrowthFrame
<1>t. OwnedTypes /\ GmTypes /\ GrowthTypes
  BY DEF StateTypes
<1> USE <1>0, <1>t
<1>g. UNCHANGED styles => Grows
  BY DEF Grows, GrowthTypes
<1>a. ASSUME NEW op, NEW what, NEW n, Ask(c, op, what, n), Plain(<< Stmt(op, what, n) >>) PROVE Move(c)
  <2>1. Begin(c, Nothing, Nothing, << Stmt(op, what, n) >>) /\ Grows
    BY <1>a, <1>g DEF Ask, growthVars
  <2> QED
    BY <2>1, <1>a, BeginMoves
<1>1. CASE GrowthRequest(c)
  <2>1. PICK h \in Hero :
          \/ \E l \in DOMAIN LevelCost[h] : Ask(c, "levelUp", h, l)
          \/ Ask(c, "rankUp", h, 0)
          \/ \E n \in Consume, op \in {"upgradeSkill", "upgradeOther"} : Ask(c, op, h, n)
          \/ Ask(c, "talentUp", h, 0)
          \/ \E s \in Style : Ask(c, "unlockStyle", <<h, s>>, 0)
    BY <1>1 DEF GrowthRequest
  <2>2. \A op \in {"levelUp", "rankUp", "talentUp"} :
          \A n \in Nat : Plain(<< Stmt(op, h, n) >>)
    BY GrowthStmts DEF GrowthWork
  <2>3. \A l \in DOMAIN LevelCost[h] : l \in Nat
    BY GrowthAssumption
  <2>4. CASE \E l \in DOMAIN LevelCost[h] : Ask(c, "levelUp", h, l)
    BY <2>2, <2>3, <2>4, <1>a
  <2>5. CASE Ask(c, "rankUp", h, 0) \/ Ask(c, "talentUp", h, 0)
    BY <2>2, <2>5, <1>a
  <2>6. CASE \E n \in Consume, op \in {"upgradeSkill", "upgradeOther"} : Ask(c, op, h, n)
    <3>1. \A n \in Consume : n \in Int
      BY GrowthAssumption
    <3> QED
      BY <2>6, <3>1, <1>a, GrowthStmts
  <2>7. CASE \E s \in Style : Ask(c, "unlockStyle", <<h, s>>, 0)
    BY <2>7, <1>a, GrowthStmts
  <2> QED
    BY <2>1, <2>4, <2>5, <2>6, <2>7
<1>q. ASSUME NEW op \in GrowthWork \cup StyleOps, At(c, op), UNCHANGED owned,
             faults' = faults /\ overlapped' = overlapped /\ dearest' = dearest, Grows,
             \/ op \notin {"hasSkin", "saveSkin"} /\ Return(c, "refused")
             \/ \E now : /\ Plain(now) /\ Proceed(c, now)
                         /\ op \in {"hasSkin", "saveSkin"} => Within(now, GiftWork)
      PROVE Move(c)
  <2>1. job[c] # <<>> /\ HeadOf(c) = op
    BY <1>q, Head2Do
  <2>2. /\ HeadOf(c) \notin Rare /\ HeadOf(c) \notin CashWork /\ HeadOf(c) \notin TeamWork
        /\ HeadOf(c) \in GiftWork => op \in {"hasSkin", "saveSkin"}
    BY <2>1 DEF GrowthWork, StyleOps, Rare, GiftWork, CashWork, TeamWork
  <2>3. Same /\ Kept /\ UNCHANGED <<dearest, balance, withdrawn>>
    BY <1>q DEF Same, owned, stock
  <2> QED
    BY <1>q, <2>1, <2>2, <2>3, QuietMoves
<1>d. ASSUME NEW op \in (GrowthWork \cup StyleOps) \ {"hasSkin", "saveSkin"}, At(c, op), UNCHANGED <<owned, styles>>, Decline(c)
      PROVE Move(c)
  <2>1. Grows /\ faults' = faults /\ overlapped' = overlapped /\ dearest' = dearest /\ Return(c, "refused")
    BY <1>d, <1>g DEF Decline, Unrecorded
  <2> QED
    BY <2>1, <1>d, <1>q
<1>u. ASSUME NEW op \in GrowthWork \cup StyleOps, At(c, op), UNCHANGED <<owned, styles>>,
             NEW now, Plain(now), Proceed(c, now), Unrecorded \/ \E b : Quote(c, b),
             op \in {"hasSkin", "saveSkin"} => Within(now, GiftWork)
      PROVE Move(c)
  <2>1. Grows /\ faults' = faults /\ overlapped' = overlapped /\ dearest' = dearest
    BY <1>u, <1>g DEF Unrecorded, Quote
  <2> QED
    BY <2>1, <1>u, <1>q
<1>v. "hasSkin" \in GrowthWork /\ "saveSkin" \in GrowthWork
  BY DEF GrowthWork
<1>2. CASE LevelUp(c)
  <2> DEFINE h == What(c)  old == grown[h].level  new == Amount(c)
  <2>1. At(c, "levelUp") /\ h \in Hero /\ new \in Nat
    BY <1>2, Head2Do DEF LevelUp, HeroWork, CountOps
  <2>2. old \in Nat \ {0} /\ UNCHANGED <<owned, styles>>
    BY <1>2, <2>1 DEF GrowthTypes, Grown, LevelUp, growthVars
  <2>3. CASE h \notin heroes \/ new <= old \/ new \notin DOMAIN LevelCost[h]
    BY <1>2, <2>1, <2>2, <2>3, <1>d DEF LevelUp, GrowthWork
  <2>4. CASE ~(h \notin heroes \/ new <= old \/ new \notin DOMAIN LevelCost[h])
    <3>1. PICK parcels \in ByCurrency(h, old, new) :
             /\ Proceed(c, CheckAndTake(parcels) \o << Stmt("saveLevel", h, new) >>)
             /\ Quote(c, parcels)
      BY <1>2, <2>4 DEF LevelUp
    <3>2. parcels \in Parcels
      BY <2>1, <2>2, <2>4, CurrencyParcels
    <3>3. new \in Nat \ {0}
      BY <2>1, <2>2, <2>4
    <3>4. Plain(CheckAndTake(parcels)) /\ Plain(<< Stmt("saveLevel", h, new) >>)
      BY <2>1, <3>2, <3>3, CheckAndTakePlain, GrowthStmts
    <3>5. Plain(CheckAndTake(parcels) \o << Stmt("saveLevel", h, new) >>)
      BY <3>4, FineJoin
    <3> QED
      BY <2>1, <2>2, <3>1, <3>5, <1>u DEF GrowthWork
  <2> QED
    BY <2>3, <2>4
<1>3. ASSUME NEW op \in {"saveLevel", "saveSkill", "saveTalent"}, At(c, op), NEW column, Save(c, column)
      PROVE Move(c)
  <2>1. Proceed(c, <<>>) /\ UNCHANGED <<owned, styles>> /\ Unrecorded
    BY <1>3 DEF Save
  <2>2. op \in GrowthWork
    BY DEF GrowthWork
  <2> QED
    BY <1>3, <2>1, <2>2, <1>u, Nothing2Do
<1>4. CASE RankUp(c)
  <2> DEFINE h == What(c)  target == grown[h].rank + 1
  <2>1. At(c, "rankUp") /\ h \in Hero
    BY <1>4, Head2Do DEF RankUp, HeroWork
  <2>2. grown[h].rank \in Nat \ {0} /\ UNCHANGED <<owned, styles>>
    BY <1>4, <2>1 DEF GrowthTypes, Grown, RankUp, growthVars
  <2>3. CASE Decline(c)
    BY <2>1, <2>2, <2>3, <1>d DEF GrowthWork
  <2>4. CASE /\ target \in DOMAIN RankCost[h]
             /\ Proceed(c, CheckAndTake(ItemsFirst(RankCost[h][target])) \o << Stmt("saveRank", h, target) >>)
             /\ Quote(c, RankCost[h][target])
    <3>1. RankCost[h][target] \in Parcels
      BY <2>1, <2>4, SubParcels, GrowthAssumption
    <3>2. OfKind(RankCost[h][target], "item") \in Parcels /\ OfKind(RankCost[h][target], "currency") \in Parcels
      BY <3>1, SubParcels
    <3>3. ItemsFirst(RankCost[h][target]) \in Parcels
      BY <3>2, JoinTyped DEF ItemsFirst, Parcels
    <3>4. target \in Nat \ {0}
      BY <2>2
    <3>5. Plain(CheckAndTake(ItemsFirst(RankCost[h][target]))) /\ Plain(<< Stmt("saveRank", h, target) >>)
      BY <2>1, <3>3, <3>4, CheckAndTakePlain, GrowthStmts
    <3>6. Plain(CheckAndTake(ItemsFirst(RankCost[h][target])) \o << Stmt("saveRank", h, target) >>)
      BY <3>5, FineJoin
    <3> QED
      BY <2>1, <2>2, <2>4, <3>6, <1>u DEF GrowthWork
  <2> QED
    BY <1>4, <2>3, <2>4 DEF RankUp
<1>5. CASE SaveRank(c)
  <2>1. At(c, "saveRank") /\ What(c) \in Hero
    BY <1>5, Head2Do DEF SaveRank, HeroWork
  <2>2. UNCHANGED <<owned, styles>> /\ Unrecorded /\ Proceed(c, SkinOf(What(c), Amount(c)))
    BY <1>5 DEF SaveRank
  <2> QED
    BY <2>1, <2>2, <1>u, SkinPlain DEF GrowthWork
<1>6. CASE HasSkin(c)
  <2> DEFINE h == What(c)  three == [i \in 1..3 |-> Stmt("saveSkin", h, i)]
  <2>1. At(c, "hasSkin") /\ h \in Hero
    BY <1>6, Head2Do DEF HasSkin, HeroWork
  <2>2. UNCHANGED <<owned, styles>> /\ Unrecorded /\ (Proceed(c, <<>>) \/ Proceed(c, three))
    BY <1>6 DEF HasSkin, growthVars
  <2>3. \A i \in 1..3 : Fits(three[i]) /\ three[i].op \notin Rare
    BY <2>1 DEF Stmt, Fits, Rare, GiftWork, TeamWork, CountOps, RankOps, HeroWork, HeroOps, StyleOps, PackOps, PoolOps, LayoutOps
  <2>w. \A i \in 1..3 : three[i].op \in GiftWork
    BY DEF Stmt, GiftWork
  <2>4. three = [i \in 1..3 |-> three[i]]
    OBVIOUS
  <2> HIDE DEF three
  <2>5. IsList(three) /\ DOMAIN three = 1..3
    BY <2>4, MadeSeq
  <2>6. Plain(three) /\ Within(three, GiftWork)
    BY <2>3, <2>w, <2>5 DEF Plain, Fine, Within, ToSet
  <2> QED
    BY <2>1, <2>2, <2>6, <1>u, <1>v, Nothing2Do
<1>7. CASE SaveSkin(c)
  <2>1. At(c, "saveSkin") /\ UNCHANGED <<owned, styles>>
    BY <1>7 DEF SaveSkin
  <2>2. CASE Fail(c)
    <3>1. job[c] # <<>> /\ UNCHANGED <<balance, withdrawn>>
      BY <2>1 DEF At, owned, stock
    <3> QED
      BY <2>1, <2>2, <3>1, <1>g, FailMoves
  <2>3. CASE Proceed(c, <<>>) /\ Unrecorded
    BY <2>1, <2>3, <1>u, <1>v, Nothing2Do
  <2> QED
    BY <1>7, <2>2, <2>3 DEF SaveSkin
<1>8. CASE UpgradeSkill(c)
  <2> DEFINE h == What(c)  n == Amount(c)
             pays == << Ordered("pay", SkillItem[h], n) >>
             more == IF At(c, "upgradeSkill") THEN << Stmt("readSkill", h, n) >> ELSE <<>>
  <2>1. PICK op \in {"upgradeSkill", "upgradeOther"} : At(c, op)
    BY <1>8 DEF UpgradeSkill
  <2>2. h \in Hero /\ n \in Int /\ op \in GrowthWork
    BY <2>1, Head2Do DEF HeroWork, GrowthWork
  <2>3. Plain(pays) /\ Plain(more)
    <3>1. SkillItem[h] \in Thing
      BY <2>2, GrowthAssumption DEF Thing
    <3>2. Plain(pays)
      BY <2>2, <3>1, OrderedPlain, PlainFew
    <3> QED
      BY <2>2, <3>2, GrowthStmts, Nothing2Do
  <2>4. UNCHANGED <<owned, styles>> /\ Proceed(c, pays \o more) /\ Quote(c, << <<SkillItem[h], n>> >>)
    BY <1>8 DEF UpgradeSkill, growthVars
  <2> HIDE DEF pays, more
  <2>5. Plain(pays \o more)
    BY <2>3, FineJoin
  <2> QED
    BY <2>1, <2>2, <2>4, <2>5, <1>u
<1>9. CASE UpgradeSkillDeclined(c)
  <2>1. PICK op \in {"upgradeSkill", "upgradeOther"} : At(c, op)
    BY <1>9 DEF UpgradeSkillDeclined
  <2>2. UNCHANGED <<owned, styles>> /\ Decline(c)
    BY <1>9 DEF UpgradeSkillDeclined, growthVars
  <2> QED
    BY <2>1, <2>2, <1>d DEF GrowthWork
<1>10. CASE ReadSkill(c)
  <2> DEFINE n == Min({grown[What(c)].skill + Amount(c), MaxSkill})
  <2>1. At(c, "readSkill") /\ What(c) \in Hero /\ Amount(c) \in Int
    BY <1>10, Head2Do DEF ReadSkill, HeroWork
  <2>2. grown[What(c)].skill \in Skill
    BY <2>1 DEF GrowthTypes, Grown
  <2>3. n \in Skill
    <3> DEFINE k == grown[What(c)].skill + Amount(c)
    <3>1. k \in Int
      BY <2>1, <2>2 DEF Skill
    <3> HIDE DEF k
    <3>2. Min({k, 5}) = IF k <= 5 THEN k ELSE 5
      BY <3>1 DEF Min
    <3> QED
      BY <3>1, <3>2 DEF MaxSkill, Skill, k
  <2>4. UNCHANGED <<owned, styles>> /\ Unrecorded /\ Proceed(c, << Stmt("saveSkill", What(c), n) >>)
    BY <1>10 DEF ReadSkill, growthVars
  <2> HIDE DEF n
  <2>5. Plain(<< Stmt("saveSkill", What(c), n) >>)
    BY <2>1, <2>3, GrowthStmts
  <2> QED
    BY <2>1, <2>4, <2>5, <1>u DEF GrowthWork
<1>11. CASE TalentUp(c)
  <2> DEFINE h == What(c)  new == grown[h].talent + 1
             price == OfKind(TalentCost[h][new], "item")
  <2>1. At(c, "talentUp") /\ h \in Hero
    BY <1>11, Head2Do DEF TalentUp, HeroWork
  <2>2. grown[h].talent \in Nat /\ UNCHANGED <<owned, styles>>
    BY <1>11, <2>1 DEF GrowthTypes, Grown, TalentUp, growthVars
  <2>3. CASE Decline(c)
    BY <2>1, <2>2, <2>3, <1>d DEF GrowthWork
  <2>4. CASE /\ new \in DOMAIN TalentCost[h]
             /\ Proceed(c, CheckAndTake(price) \o << Stmt("saveTalent", h, new) >>)
             /\ Quote(c, price)
    <3>1. TalentCost[h][new] \in Parcels
      BY <2>1, <2>4, SubParcels, GrowthAssumption
    <3>2. price \in Parcels
      BY <3>1, SubParcels
    <3>3. Plain(CheckAndTake(price)) /\ Plain(<< Stmt("saveTalent", h, new) >>)
      BY <2>1, <2>2, <3>2, CheckAndTakePlain, GrowthStmts DEF GrowthWork
    <3>4. Plain(CheckAndTake(price) \o << Stmt("saveTalent", h, new) >>)
      BY <3>3, FineJoin
    <3> QED
      BY <2>1, <2>2, <2>4, <3>4, <1>u DEF GrowthWork
  <2> QED
    BY <1>11, <2>3, <2>4 DEF TalentUp
<1>12. CASE UnlockStyle(c)
  <2> DEFINE h == What(c)[1]  s == What(c)[2]
             items == Each("pay", OfKind(StyleCost[s], "item"))
             coins == CheckAndTake(OfKind(StyleCost[s], "currency"))
             saves == << Stmt("readBits", What(c), 0), Stmt("insertStyle", What(c), 0),
                         Stmt("saveBits", What(c), 0) >>
  <2>1. At(c, "unlockStyle") /\ h \in Hero /\ s \in Style
    BY <1>12, Head2Do DEF UnlockStyle, StyleOps
  <2>2. UNCHANGED <<owned, styles>>
    BY <1>12 DEF UnlockStyle, growthVars
  <2>3. CASE Decline(c)
    BY <2>1, <2>2, <2>3, <1>d DEF StyleOps
  <2>4. CASE Proceed(c, items \o coins \o saves) /\ Quote(c, StyleCost[s])
    <3>1. OfKind(StyleCost[s], "item") \in Parcels /\ OfKind(StyleCost[s], "currency") \in Parcels
      BY <2>1, SubParcels, GrowthAssumption
    <3>2. Plain(items) /\ Plain(coins)
      BY <3>1, EachPlain, CheckAndTakePlain
    <3>3. \A op \in {"readBits", "insertStyle", "saveBits"} :
             Fits(Stmt(op, What(c), 0)) /\ Stmt(op, What(c), 0).op \notin Rare
      BY <2>1 DEF Stmt, Fits, Rare, GiftWork, TeamWork, CountOps, RankOps, HeroWork, HeroOps, StyleOps, PackOps, PoolOps, LayoutOps
    <3>4. Plain(saves)
      BY <3>3, PlainFew
    <3> HIDE DEF items, coins, saves
    <3>5. Plain(items \o coins \o saves)
      BY <3>2, <3>4, FineJoin
    <3> QED
      BY <2>1, <2>2, <2>4, <3>5, <1>u DEF StyleOps
  <2> QED
    BY <1>12, <2>3, <2>4 DEF UnlockStyle
<1>13. CASE ReadBits(c) \/ SaveBits(c)
  <2>1. \E op \in {"readBits", "saveBits"} : At(c, op)
    BY <1>13 DEF ReadBits, SaveBits
  <2>2. UNCHANGED <<owned, styles>> /\ Unrecorded /\ Proceed(c, <<>>)
    BY <1>13 DEF ReadBits, SaveBits
  <2> QED
    BY <2>1, <2>2, <1>u, Nothing2Do DEF StyleOps
<1>14. CASE InsertStyle(c)
  <2> DEFINE h == What(c)[1]  s == What(c)[2]
  <2>1. At(c, "insertStyle") /\ h \in Hero /\ UNCHANGED owned
    BY <1>14, Head2Do DEF InsertStyle, StyleOps
  <2>2. CASE s \in styles[h]
    <3>1. job[c] # <<>> /\ UNCHANGED <<balance, withdrawn, styles>> /\ Fail(c)
      BY <1>14, <2>1, <2>2 DEF At, owned, stock, InsertStyle
    <3> QED
      BY <3>1, <1>g, FailMoves
  <2>3. CASE s \notin styles[h]
    <3>1. Proceed(c, <<>>) /\ Unrecorded /\ styles' = [styles EXCEPT ![h] = @ \cup {s}]
      BY <1>14, <2>3 DEF InsertStyle
    <3>2. Grows
      BY <2>1, <3>1 DEF Grows, GrowthTypes
    <3>3. faults' = faults /\ overlapped' = overlapped /\ dearest' = dearest
      BY <3>1 DEF Unrecorded
    <3> QED
      BY <2>1, <3>1, <3>2, <3>3, <1>q, Nothing2Do DEF StyleOps
  <2> QED
    BY <2>2, <2>3
<1>15. CASE SaveLevel(c) \/ SaveSkill(c) \/ SaveTalent(c)
  BY <1>15, <1>3 DEF SaveLevel, SaveSkill, SaveTalent
<1> QED
  BY <1>1, <1>2, <1>4, <1>5, <1>6, <1>7, <1>8, <1>9, <1>10, <1>11, <1>12, <1>13, <1>14, <1>15
     DEF GrowthStep

\* --- Items moves

LEMMA MadePlain ==
    ASSUME NEW n \in Nat, NEW s, s = [i \in 1..n |-> s[i]],
           \A i \in 1..n : Fits(s[i]) /\ s[i].op \notin Rare
    PROVE Plain(s)
<1>1. IsList(s) /\ DOMAIN s = 1..n
  BY MadeSeq
<1>2. \A x \in ToSet(s) : \E i \in 1..n : x = s[i]
  BY <1>1 DEF ToSet
<1> QED
  BY <1>1, <1>2 DEF Plain, Fine

LEMMA UsePlain ==
    ASSUME NEW entries \in Baskets
    PROVE Plain(FlattenSeq([i \in DOMAIN entries |->
                << Ordered("pay", entries[i][1], entries[i][2]),
                   Stmt("open", <<entries[i][1], entries[i][3]>>, entries[i][2]) >>])
                \o << Stmt("handOut", "all", 0) >>)
<1> DEFINE ss == [i \in 1..Len(entries) |->
                << Ordered("pay", entries[i][1], entries[i][2]),
                   Stmt("open", <<entries[i][1], entries[i][3]>>, entries[i][2]) >>]
<1>1. DOMAIN entries = 1..Len(entries) /\ Len(entries) \in Nat
  BY ItemsAssumption
<1>2. \A i \in 1..Len(entries) :
         entries[i] \in Consumable \X Int \X DOMAIN Effect[entries[i][1]].gives
  <2> TAKE i \in 1..Len(entries)
  <2>1. entries \in Seq(Consumable \X Int \X Nat)
    BY ItemsAssumption
  <2>2. entries[i] \in Consumable \X Int \X Nat
    BY <2>1
  <2>3. entries[i][3] \in DOMAIN Effect[entries[i][1]].gives
    BY <1>1, ItemsAssumption
  <2> QED
    BY <2>2, <2>3
<1>3. ASSUME NEW i \in 1..Len(entries) PROVE Plain(ss[i])
  <2>1. entries[i][1] \in Consumable /\ entries[i][1] \in Thing /\ entries[i][2] \in Int
        /\ entries[i][3] \in DOMAIN Effect[entries[i][1]].gives
    BY <1>2, ItemsAssumption DEF Thing
  <2>2. /\ Fits(Ordered("pay", entries[i][1], entries[i][2]))
        /\ Ordered("pay", entries[i][1], entries[i][2]).op \notin Rare
    BY <2>1, OrderedPlain
  <2>3. /\ Fits(Stmt("open", <<entries[i][1], entries[i][3]>>, entries[i][2]))
        /\ Stmt("open", <<entries[i][1], entries[i][3]>>, entries[i][2]).op \notin Rare
    BY <2>1 DEF Stmt, Fits, Rare, GiftWork, TeamWork, CountOps, RankOps, HeroWork, HeroOps, StyleOps, PackOps, PoolOps, LayoutOps
  <2> QED
    BY <2>2, <2>3, PlainFew
<1>4. ss = [i \in 1..Len(entries) |-> ss[i]]
  OBVIOUS
<1>5. Fits(Stmt("handOut", "all", 0)) /\ Stmt("handOut", "all", 0).op \notin Rare
  BY DEF Stmt, Fits, Rare, GiftWork, TeamWork, CountOps, RankOps, HeroWork, HeroOps, StyleOps, PackOps, PoolOps, LayoutOps
<1>6. Plain(<< Stmt("handOut", "all", 0) >>)
  BY <1>5, PlainFew
<1>c. ss = [i \in DOMAIN entries |->
                << Ordered("pay", entries[i][1], entries[i][2]),
                   Stmt("open", <<entries[i][1], entries[i][3]>>, entries[i][2]) >>]
  BY <1>1
<1> HIDE DEF ss
<1>7. \A i \in 1..Len(entries) : IsList(ss[i]) /\ \A x \in ToSet(ss[i]) : Fits(x) /\ x.op \notin Rare
  BY <1>3 DEF Plain, Fine
<1>8. Plain(FlattenSeq(ss))
  BY <1>1, <1>4, <1>7, FlatAll DEF Plain, Fine
<1>9. Plain(FlattenSeq(ss) \o << Stmt("handOut", "all", 0) >>)
  BY <1>6, <1>8, FineJoin
<1> QED
  BY <1>9, <1>c

LEMMA ItemsFrame ==
    ASSUME NEW c \in Conn, ItemsNext(c)
    PROVE Kept /\ (ItemsRequest(c) \/ ItemsStep(c))
BY DEF ItemsNext, Kept, storeVars, mailVars, summonVars, layOut, layoutVars, groupVars, gmVars

LEMMA ItemsMoves ==
    ASSUME JobTypes, StateTypes, NEW c \in Conn, ItemsNext(c)
    PROVE Move(c)
<1>0. Kept /\ (ItemsRequest(c) \/ ItemsStep(c))
  BY ItemsFrame
<1>t. OwnedTypes /\ GmTypes /\ GrowthTypes /\ HistoryTypes /\ ItemTypes
  BY DEF StateTypes
<1> USE <1>0, <1>t
<1>g. UNCHANGED styles => Grows
  BY DEF Grows, GrowthTypes
<1>b. ASSUME NEW price, NEW s, Begin(c, price, Nothing, s), UNCHANGED growthVars, Plain(s) PROVE Move(c)
  <2>1. Grows
    BY <1>b, <1>g DEF growthVars
  <2> QED
    BY <2>1, <1>b, BeginMoves
<1>o. ASSUME NEW s, Begin(c, Nothing, Nothing, s), UNCHANGED growthVars, Tame(s), Opens(s) PROVE Move(c)
  <2>1. Grows
    BY <1>o, <1>g DEF growthVars
  <2> QED
    BY <2>1, <1>o, OpenMoves
<1>q. ASSUME NEW op \in {"open", "handOut"}, At(c, op), UNCHANGED <<owned, styles>>,
             Unrecorded \/ \E b : Reward(c, b),
             Return(c, "refused") \/ \E now : Plain(now) /\ Proceed(c, now)
      PROVE Move(c)
  <2>1. job[c] # <<>> /\ HeadOf(c) = op
    BY <1>q, Head2Do
  <2>2. HeadOf(c) \notin Rare /\ HeadOf(c) \notin GiftWork /\ HeadOf(c) \notin CashWork /\ HeadOf(c) \notin TeamWork
    BY <2>1 DEF Rare, GiftWork, CashWork, TeamWork
  <2>3. Same /\ Kept /\ UNCHANGED <<dearest, balance, withdrawn>> /\ Grows
    BY <1>q, <1>g DEF Same, owned, stock, Unrecorded, Reward
  <2> QED
    BY <1>q, <2>1, <2>2, <2>3, QuietMoves
<1>l. ASSUME NEW op \in Lone, At(c, op), LoneStep(c), UNCHANGED <<owned, styles>>, Unrecorded,
             NEW now, Tame(now), \A x \in ToSet(now) : x.op \in Lone => Lends(op, x.op), Proceed(c, now)
      PROVE Move(c)
  <2>1. job[c] # <<>> /\ HeadOf(c) = op
    BY <1>l, Head2Do
  <2>2. Same /\ Kept /\ UNCHANGED <<dearest, balance, withdrawn>> /\ Grows
    BY <1>l, <1>g DEF Same, owned, stock, Unrecorded
  <2>3. NoLess
    BY <2>2, NoLossAtAll
  <2>4. GoesOn(c)
    BY <1>l, <2>1, <2>2, <2>3, LoneGoesOn
  <2> QED
    BY <2>2, <2>4 DEF Move
<1>1. ASSUME NEW entries \in Baskets, UseItem(c, entries) PROVE Move(c)
  <2>1. \E price, s : Begin(c, price, Nothing, s) /\ Plain(s)
    BY <1>1, UsePlain DEF UseItem
  <2> QED
    BY <1>1, <2>1, <1>b DEF UseItem
<1>2. ASSUME NEW r \in InsightRow, NEW h \in Hero, UseInsight(c, r, h) PROVE Move(c)
  <2>1. Fits(Stmt("applyInsight", <<r, h>>, 0)) /\ Stmt("applyInsight", <<r, h>>, 0).op \notin Scarce
    BY DEF Stmt, Fits, Scarce, CountOps, RankOps, HeroWork, HeroOps, StyleOps, PackOps, PoolOps, LayoutOps
  <2>2. Tame(<< Stmt("applyInsight", <<r, h>>, 0) >>) /\ Opens(<< Stmt("applyInsight", <<r, h>>, 0) >>)
    BY <2>1, TameOne DEF Opens
  <2> QED
    BY <1>2, <2>2, <1>o DEF UseInsight
<1>3. CASE AutoUse(c)
  <2>1. Fits(Stmt("findExpired", "all", 0)) /\ Stmt("findExpired", "all", 0).op \notin Scarce
    BY DEF Stmt, Fits, Scarce, CountOps, RankOps, HeroWork, HeroOps, StyleOps, PackOps, PoolOps, LayoutOps
  <2>2. Tame(<< Stmt("findExpired", "all", 0) >>) /\ Opens(<< Stmt("findExpired", "all", 0) >>)
    BY <2>1, TameOne DEF Opens
  <2> QED
    BY <1>3, <2>2, <1>o DEF AutoUse
<1>4. CASE Open(c)
  <2> DEFINE i == What(c)[1]  gives == Effect[i].gives  choice == What(c)[2]
  <2>1. At(c, "open") /\ i \in Consumable /\ choice \in DOMAIN gives
    BY <1>4, Head2Do DEF Open
  <2>2. UNCHANGED <<owned, styles>>
    BY <1>4 DEF Open, growthVars
  <2>3. Effect[i].kind \in {"fixed", "random", "chosen", "hero"}
    BY <2>1, ItemsAssumption DEF EffectKind
  <2>4. CASE Effect[i].kind \in {"fixed", "random", "chosen"}
    <3>1. Proceed(c, <<>>) /\ \E b : Reward(c, b)
      BY <1>4, <2>4 DEF Open
    <3> QED
      BY <2>1, <2>2, <3>1, <1>q, Nothing2Do
  <2>5. CASE Effect[i].kind = "hero"
    <3>1. gives[choice][1] \in Hero
      BY <2>1, <2>5, ItemsAssumption
    <3>2. \A h \in Hero : Fits(Stmt("useHero", h, 1)) /\ Stmt("useHero", h, 1).op \notin Rare
      BY DEF Stmt, Fits, Rare, GiftWork, TeamWork, CountOps, RankOps, HeroWork, HeroOps, StyleOps, PackOps, PoolOps, LayoutOps
    <3>3. Plain(<< Stmt("useHero", gives[choice][1], 1) >>)
      BY <3>1, <3>2, PlainFew
    <3>4. Proceed(c, << Stmt("useHero", gives[choice][1], 1) >>) /\ \E b : Reward(c, b)
      BY <1>4, <2>5 DEF Open
    <3> QED
      BY <2>1, <2>2, <3>3, <3>4, <1>q
  <2> QED
    BY <2>3, <2>4, <2>5
<1>5. CASE HandOut(c)
  <2> DEFINE due == bill[c].product
             S == {<<m, due[m]>> : m \in {n \in Material : due[n] # 0}}
  <2>1. due \in Amounts
    BY DEF HistoryTypes
  <2>2. IsFiniteSet(S) /\ S \subseteq Thing \X Int
    BY <2>1, Bagged
  <2> HIDE DEF S
  <2>3. SetToSeq(S) \in Parcels
    BY <2>2, Listed, SeqSub DEF Parcels
  <2>4. UseOrder \in Seq(KindOrder) /\ "useHero" \in HeroOps
    BY DEF UseOrder, KindOrder, HeroOps
  <2>5. Plain(Deliver(UseOrder, SetToSeq(S), "useHero"))
    BY <2>3, <2>4, DeliverPlain
  <2>6. At(c, "handOut") /\ UNCHANGED <<owned, styles>> /\ Unrecorded
        /\ Proceed(c, Deliver(UseOrder, SetToSeq(S), "useHero"))
    BY <1>5 DEF HandOut, growthVars, S
  <2> QED
    BY <2>5, <2>6, <1>q
<1>6. CASE ApplyInsight(c)
  <2> DEFINE r == What(c)[1]  h == What(c)[2]  rank == InsightRank[r] + 1
             raising == << Stmt("raise", <<r, h>>, rank) >>
             spending == << Stmt("spendInsight", r, 1) >>
  <2>1. At(c, "applyInsight") /\ r \in InsightRow /\ h \in Hero
    BY <1>6, Head2Do DEF ApplyInsight
  <2>2. UNCHANGED <<owned, styles>>
    BY <1>6 DEF ApplyInsight, growthVars
  <2>3. CASE Decline(c)
    <3>1. Return(c, "refused") /\ Unrecorded
      BY <2>3 DEF Decline
    <3>2. job[c] # <<>> /\ HeadOf(c) = "applyInsight"
      BY <2>1, Head2Do
    <3>3. HeadOf(c) \notin GiftWork /\ UNCHANGED <<dearest, balance, withdrawn>> /\ Same /\ Grows
      BY <2>2, <3>1, <3>2, <1>g DEF GiftWork, owned, stock, Unrecorded, Same
    <3>4. Stops(c)
      BY <3>1, <3>2, <3>3 DEF Stops, Return, Same
    <3> QED
      BY <3>3, <3>4 DEF Move
  <2>4. CASE Proceed(c, raising \o SkinOf(h, rank) \o spending) /\ Unrecorded
    <3>1. rank \in Nat \ {0}
      BY <2>1, ItemsAssumption
    <3>2. Fits(Stmt("raise", <<r, h>>, rank)) /\ Stmt("raise", <<r, h>>, rank).op \notin Scarce
      <4> HIDE DEF rank
      <4> QED
        BY <2>1, <3>1 DEF Stmt, Fits, Scarce, CountOps, RankOps, HeroWork, HeroOps, StyleOps, PackOps, PoolOps, LayoutOps
    <3>3. Fits(Stmt("spendInsight", r, 1)) /\ Stmt("spendInsight", r, 1).op \notin Scarce
      BY DEF Stmt, Fits, Scarce, CountOps, RankOps, HeroWork, HeroOps, StyleOps, PackOps, PoolOps, LayoutOps
    <3>4. /\ Tame(raising) /\ Tame(SkinOf(h, rank)) /\ Tame(spending)
          /\ \A x \in ToSet(raising) \cup ToSet(SkinOf(h, rank)) \cup ToSet(spending) :
                x.op \in Lone => x.op \in {"raise", "spendInsight"}
      <4>1. Stmt("raise", <<r, h>>, rank).op = "raise" /\ Stmt("spendInsight", r, 1).op = "spendInsight"
        BY DEF Stmt
      <4>2. Plain(SkinOf(h, rank))
        BY <2>1, SkinPlain
      <4> QED
        BY <3>2, <3>3, <4>1, <4>2, TameOne, PlainIsTame
    <3> HIDE DEF raising, spending
    <3> DEFINE now == raising \o SkinOf(h, rank) \o spending
    <3>5. Tame(now) /\ ToSet(now) = ToSet(raising) \cup ToSet(SkinOf(h, rank)) \cup ToSet(spending)
      BY <3>4, FineJoin DEF Tame, Fine
    <3>6. Tame(now) /\ \A x \in ToSet(now) : x.op \in Lone => Lends("applyInsight", x.op)
      BY <3>4, <3>5 DEF Lends
    <3>7. "applyInsight" \in Lone /\ LoneStep(c)
      BY <1>6 DEF Lone, LoneStep
    <3> HIDE DEF now
    <3> QED
      BY <2>1, <2>2, <2>4, <3>6, <3>7, <1>l DEF now
  <2> QED
    BY <1>6, <2>3, <2>4 DEF ApplyInsight
<1>7. CASE FindExpired(c)
  <2> DEFINE rows == SetToSeq(expired)
             total == SumFunctionOnSet(StaminaOf, expired)
             wipes == [i \in DOMAIN rows |-> Stmt("deletePower", rows[i], 0)]
             more == IF rows = <<>> THEN <<>> ELSE << Stmt("readStamina", "all", total) >>
  <2>1. IsFiniteSet(expired)
    BY ItemsAssumption, FS_Subset DEF ItemTypes
  <2>2. rows \in Seq(expired)
    BY <2>1, Listed
  <2>3. DOMAIN rows = 1..Len(rows) /\ Len(rows) \in Nat
    BY <2>2
  <2>4. total \in Nat
    BY <2>1, SumAtLeast, ItemsAssumption DEF ItemTypes
  <2> HIDE DEF rows, total
  <2>5. Tame(wipes) /\ \A x \in ToSet(wipes) : x.op = "deletePower"
    <3>1. wipes = [i \in 1..Len(rows) |-> wipes[i]]
      BY <2>3
    <3>2. ASSUME NEW i \in 1..Len(rows) PROVE Fits(wipes[i]) /\ wipes[i].op = "deletePower"
      <4>1. wipes[i] = Stmt("deletePower", rows[i], 0)
        BY <2>3
      <4> HIDE DEF wipes
      <4> QED
        BY <4>1 DEF Stmt, Fits, CountOps, RankOps, HeroWork, HeroOps, StyleOps, PackOps, PoolOps, LayoutOps
    <3> HIDE DEF wipes
    <3>3. IsList(wipes) /\ DOMAIN wipes = 1..Len(rows)
      BY <2>3, <3>1, MadeSeq
    <3>4. \A x \in ToSet(wipes) : Fits(x) /\ x.op = "deletePower"
      BY <3>2, <3>3 DEF ToSet
    <3> QED
      BY <3>3, <3>4 DEF Tame, Fine, Scarce
  <2>6. Tame(more) /\ \A x \in ToSet(more) : x.op = "readStamina"
    <3>1. Fits(Stmt("readStamina", "all", total)) /\ Stmt("readStamina", "all", total).op \notin Scarce
          /\ Stmt("readStamina", "all", total).op = "readStamina"
      BY <2>4 DEF Stmt, Fits, Scarce, CountOps, RankOps, HeroWork, HeroOps, StyleOps, PackOps, PoolOps, LayoutOps
    <3> QED
      BY <3>1, TameOne, Nothing2Do
  <2>7. At(c, "findExpired") /\ UNCHANGED <<owned, styles>> /\ Unrecorded /\ Proceed(c, wipes \o more)
    BY <1>7 DEF FindExpired, growthVars, rows, total
  <2> HIDE DEF wipes, more
  <2>8. Tame(wipes \o more) /\ ToSet(wipes \o more) = ToSet(wipes) \cup ToSet(more)
    BY <2>5, <2>6, FineJoin DEF Tame, Fine
  <2>9. \A x \in ToSet(wipes \o more) : Lends("findExpired", x.op)
    BY <2>5, <2>6, <2>8 DEF Lends
  <2>10. "findExpired" \in Lone /\ LoneStep(c)
    BY <1>7 DEF Lone, LoneStep
  <2> QED
    BY <2>7, <2>8, <2>9, <2>10, <1>l
<1>8. CASE ReadStamina(c)
  <2> DEFINE n == stamina + Amount(c)
  <2>1. At(c, "readStamina") /\ n \in Nat
    BY <1>8, Head2Do DEF ReadStamina, CountOps, ItemTypes
  <2>2. UNCHANGED <<owned, styles>> /\ Unrecorded /\ Proceed(c, << Stmt("saveStamina", "all", n) >>)
    BY <1>8 DEF ReadStamina, growthVars
  <2> HIDE DEF n
  <2>3. Fits(Stmt("saveStamina", "all", n)) /\ Stmt("saveStamina", "all", n).op = "saveStamina"
    BY <2>1 DEF Stmt, Fits, CountOps, RankOps, HeroWork, HeroOps, StyleOps, PackOps, PoolOps, LayoutOps
  <2>4. /\ Tame(<< Stmt("saveStamina", "all", n) >>)
        /\ \A x \in ToSet(<< Stmt("saveStamina", "all", n) >>) : Lends("readStamina", x.op)
    BY <2>3, TameOne DEF Scarce, Lends
  <2>5. "readStamina" \in Lone /\ LoneStep(c)
    BY <1>8 DEF Lone, LoneStep
  <2> QED
    BY <2>1, <2>2, <2>4, <2>5, <1>l
<1>9. CASE Raise(c) \/ SpendInsight(c) \/ DeletePower(c) \/ SaveStamina(c)
  <2>1. (\E op \in Lone : At(c, op)) /\ LoneStep(c)
    BY <1>9 DEF Raise, SpendInsight, DeletePower, SaveStamina, Lone, LoneStep
  <2>2. UNCHANGED <<owned, styles>> /\ Unrecorded /\ Proceed(c, <<>>)
    BY <1>9 DEF Raise, SpendInsight, DeletePower, SaveStamina, growthVars
  <2> QED
    BY <2>1, <2>2, <1>l, Nothing2Do
<1> QED
  BY <1>1, <1>2, <1>3, <1>4, <1>5, <1>6, <1>7, <1>8, <1>9 DEF ItemsRequest, ItemsStep

\* --- Summon moves

LEMMA PoolStmts ==
    /\ \A p \in Pool, op \in PoolOps : \A n \in Nat :
          Fits(Stmt(op, p, n)) /\ op \notin Scarce /\ (op \notin {"load", "pull", "save"} => op \notin Rare)
    /\ \A p \in Pool, o \in Offer : \A op \in {"option", "settle"} :
          \A n \in 1..Len(Options[p][o]) : Plain(<< Stmt(op, <<p, o>>, n) >>)
    /\ \A p \in Pool, h \in Hero : Fits(Stmt("insertUp", <<p, h>>, 0)) /\ "insertUp" \notin Rare
    /\ \A h \in Hero : Plain(<< Stmt("pullHero", h, 1) >>)
<1>1. ASSUME NEW p \in Pool, NEW op \in PoolOps, NEW n \in Nat
      PROVE Fits(Stmt(op, p, n)) /\ op \notin Scarce /\ (op \notin {"load", "pull", "save"} => op \notin Rare)
  BY DEF Stmt, Fits, Rare, Scarce, GiftWork, TeamWork, CountOps, RankOps, HeroWork, HeroOps, StyleOps, PackOps, PoolOps, LayoutOps
<1>2. ASSUME NEW p \in Pool, NEW o \in Offer, NEW op \in {"option", "settle"},
             NEW n \in 1..Len(Options[p][o])
      PROVE Plain(<< Stmt(op, <<p, o>>, n) >>)
  <2>0. n \in Nat
    <3>1. Len(Options[p][o]) \in Nat
      BY SummonAssumption DEF Bill
    <3> QED
      BY <3>1
  <2>1. Fits(Stmt(op, <<p, o>>, n)) /\ Stmt(op, <<p, o>>, n).op \notin Rare
    BY <2>0 DEF Stmt, Fits, Rare, GiftWork, TeamWork, CountOps, RankOps, HeroWork, HeroOps, StyleOps, PackOps, PoolOps, LayoutOps
  <2> QED
    BY <2>1, PlainFew
<1>3. ASSUME NEW p \in Pool, NEW h \in Hero
      PROVE Fits(Stmt("insertUp", <<p, h>>, 0)) /\ "insertUp" \notin Rare
  BY DEF Stmt, Fits, Rare, GiftWork, TeamWork, CountOps, RankOps, HeroWork, HeroOps, StyleOps, PackOps, PoolOps, LayoutOps
<1>4. ASSUME NEW h \in Hero PROVE Plain(<< Stmt("pullHero", h, 1) >>)
  <2>1. Fits(Stmt("pullHero", h, 1)) /\ Stmt("pullHero", h, 1).op \notin Rare
    BY DEF Stmt, Fits, Rare, GiftWork, TeamWork, CountOps, RankOps, HeroWork, HeroOps, StyleOps, PackOps, PoolOps, LayoutOps
  <2> QED
    BY <2>1, PlainFew
<1> QED
  BY <1>1, <1>2, <1>3, <1>4

LEMMA RollTame ==
    ASSUME NEW p \in Pool, NEW n \in Nat PROVE Tame(RollPlan(p, n))
<1> DEFINE draws == [i \in 1..Pulls(n) |-> Stmt("pull", p, IF n = Many /\ i = 1 THEN 1 ELSE 0)]
           reads == << Stmt("readUp", p, n), Stmt("load", p, 0) >>
           saves == << Stmt("save", p, 0), Stmt("useDiscount", p, 0), Stmt("count", p, n),
                       Stmt("log", p, 0) >>
<1>1. \A op \in PoolOps : \A k \in Nat : Fits(Stmt(op, p, k)) /\ Stmt(op, p, k).op \notin Scarce
  <2>1. \A op \in PoolOps : \A k \in Nat : Stmt(op, p, k).op = op
    BY DEF Stmt
  <2> QED
    BY <2>1, PoolStmts
<1>2. Tame(reads)
  <2>1. \A x, y : IsList(<<x, y>>) /\ ToSet(<<x, y>>) = {x, y}
    BY Tuples
  <2> QED
    BY <1>1, <2>1 DEF PoolOps, Tame, Fine
<1>3. Tame(saves)
  <2>1. /\ IsList(saves)
        /\ ToSet(saves) = {Stmt("save", p, 0), Stmt("useDiscount", p, 0), Stmt("count", p, n), Stmt("log", p, 0)}
    BY Tuples
  <2> HIDE DEF saves
  <2> QED
    BY <1>1, <2>1 DEF PoolOps, Tame, Fine
<1>4. Tame(draws)
  <2>1. draws = [i \in 1..Pulls(n) |-> draws[i]] /\ Pulls(n) \in Nat
    BY SummonAssumption DEF Pulls
  <2>2. ASSUME NEW i \in 1..Pulls(n) PROVE Fits(draws[i]) /\ draws[i].op \notin Scarce
    <3>1. \E k \in {0, 1} : draws[i] = Stmt("pull", p, k)
      OBVIOUS
    <3> HIDE DEF draws
    <3> QED
      BY <1>1, <3>1 DEF PoolOps
  <2> HIDE DEF draws
  <2>3. IsList(draws) /\ DOMAIN draws = 1..Pulls(n)
    BY <2>1, MadeSeq
  <2> QED
    BY <2>2, <2>3 DEF Tame, Fine, ToSet
<1>5. RollPlan(p, n) = reads \o draws \o saves
  BY DEF RollPlan
<1> HIDE DEF draws, reads, saves
<1> QED
  BY <1>2, <1>3, <1>4, <1>5, FineJoin

LEMMA SummonFrame ==
    ASSUME NEW c \in Conn, SummonNext(c)
    PROVE Kept /\ Grows /\ (SummonRequest(c) \/ SummonStep(c))
BY DEF SummonNext, Kept, Grows, storeVars, growthVars, itemVars, mailVars, layOut, layoutVars,
       groupVars, gmVars

SummonWork == {"readDiscount", "readUp", "useDiscount", "count", "log", "deleteUp",
               "option", "settle", "convert", "insertUp"}

LEMMA SummonMoves ==
    ASSUME JobTypes, StateTypes, NEW c \in Conn, SummonNext(c)
    PROVE Move(c)
<1>0. Kept /\ Grows /\ (SummonRequest(c) \/ SummonStep(c))
  BY SummonFrame
<1>t. OwnedTypes /\ GmTypes /\ SummonTypes
  BY DEF StateTypes
<1> USE <1>0, <1>t
<1>q. ASSUME NEW op \in SummonWork, At(c, op), UNCHANGED owned,
             faults' = faults /\ overlapped' = overlapped /\ dearest' = dearest,
             \/ op \notin GiftWork /\ Return(c, "refused")
             \/ \E now : /\ Plain(now) /\ Proceed(c, now)
                         /\ op \in GiftWork => Within(now, GiftWork)
                         /\ op \in CashWork => Within(now, CashWork)
      PROVE Move(c)
  <2>1. job[c] # <<>> /\ HeadOf(c) = op
    BY <1>q, Head2Do
  <2>2. HeadOf(c) \notin Rare /\ HeadOf(c) \notin TeamWork
    BY <2>1 DEF SummonWork, PoolOps, Rare, TeamWork
  <2>3. Same /\ UNCHANGED <<dearest, balance, withdrawn>>
    BY <1>q DEF Same, owned, stock
  <2> QED
    BY <1>q, <2>1, <2>2, <2>3, QuietMoves
<1>s. Still => UNCHANGED owned /\ faults' = faults /\ overlapped' = overlapped /\ dearest' = dearest
  BY DEF Still, Unrecorded
<1>p. ASSUME NEW p \in Parcels, Price(c, p)
      PROVE faults' = faults /\ overlapped' = overlapped /\ dearest' = dearest
            /\ \E now : Plain(now) /\ Proceed(c, now) /\ Within(now, CashWork)
  BY <1>p, EachPlain, EachWithin DEF Price, CashWork
<1>o. ASSUME NEW op \in {"option", "settle", "convert"}, NEW what, NEW n,
             Plain(<< Stmt(op, what, n) >>)
      PROVE Within(<< Stmt(op, what, n) >>, CashWork)
  <2>1. Stmt(op, what, n).op = op /\ \A x : ToSet(<<x>>) = {x}
    BY Tuples DEF Stmt
  <2> QED
    BY <2>1 DEF Within, CashWork
<1>l. ASSUME NEW op \in Lone, At(c, op), LoneStep(c), UNCHANGED owned,
             faults' = faults /\ overlapped' = overlapped /\ dearest' = dearest,
             NEW now, Plain(now), Proceed(c, now)
      PROVE Move(c)
  <2>1. job[c] # <<>> /\ HeadOf(c) = op
    BY <1>l, Head2Do
  <2>2. Same /\ Kept /\ UNCHANGED <<dearest, balance, withdrawn>>
    BY <1>l DEF Same, owned, stock
  <2>3. NoLess
    BY <2>2, NoLossAtAll
  <2>4. GoesOn(c)
    BY <1>l, <2>1, <2>2, <2>3, LoneGoesOn, PlainIsTame
  <2> QED
    BY <2>4 DEF Move
<1>1. ASSUME NEW p \in Pool, NEW n \in Few, SummonFew(c, p, n) PROVE Move(c)
  <2> DEFINE first == << Stmt("option", <<p, "one">>, 1) >>
  <2>1. 1 \in 1..Len(Options[p]["one"]) /\ "one" \in Offer
    <3>1. Options[p]["one"] \in Seq(Thing \X (Nat \ {0})) /\ Options[p]["one"] # <<>>
      BY SummonAssumption DEF Bill, Offer
    <3> QED
      BY <3>1 DEF Offer
  <2>2. Tame(first) /\ Tame(RollPlan(p, n))
    BY <2>1, PoolStmts, RollTame, PlainIsTame, SummonAssumption
  <2>3. Begin(c, Nothing, Nothing, first \o RollPlan(p, n))
    BY <1>1 DEF SummonFew
  <2>o. Opens(first \o RollPlan(p, n))
    <3>2. \E x : x.op \in {"option", "readDiscount"} /\ first \o RollPlan(p, n) = << x >> \o RollPlan(p, n)
      <4>1. Stmt("option", <<p, "one">>, 1).op = "option"
        BY DEF Stmt
      <4> QED
        BY <4>1
    <3> HIDE DEF first
    <3> QED
      BY <3>2 DEF Opens
  <2> HIDE DEF first
  <2>4. Tame(first \o RollPlan(p, n)) /\ Opens(first \o RollPlan(p, n))
    BY <2>2, <2>o, FineJoin
  <2> QED
    BY <2>3, <2>4, OpenMoves
<1>2. ASSUME NEW p \in Pool, SummonTen(c, p) PROVE Move(c)
  <2> DEFINE first == << Stmt("readDiscount", p, 0) >>
  <2>1. Fits(Stmt("readDiscount", p, 0)) /\ Stmt("readDiscount", p, 0).op \notin Rare
    BY DEF Stmt, Fits, Rare, GiftWork, TeamWork, CountOps, RankOps, HeroWork, HeroOps, StyleOps, PackOps, PoolOps, LayoutOps
  <2>2. Tame(first) /\ Tame(RollPlan(p, Many))
    BY <2>1, PlainFew, RollTame, PlainIsTame, SummonAssumption
  <2>3. Begin(c, Nothing, Nothing, first \o RollPlan(p, Many))
    BY <1>2 DEF SummonTen
  <2>o. Opens(first \o RollPlan(p, Many))
    <3>2. \E x : /\ x.op \in {"option", "readDiscount"}
                 /\ first \o RollPlan(p, Many) = << x >> \o RollPlan(p, Many)
      <4>1. Stmt("readDiscount", p, 0).op = "readDiscount"
        BY DEF Stmt
      <4> QED
        BY <4>1
    <3> HIDE DEF first
    <3> QED
      BY <3>2 DEF Opens
  <2> HIDE DEF first
  <2>4. Tame(first \o RollPlan(p, Many)) /\ Opens(first \o RollPlan(p, Many))
    BY <2>2, <2>o, FineJoin
  <2> QED
    BY <2>3, <2>4, OpenMoves
<1>3. ASSUME NEW p \in Pool, NEW h \in SixStar[p], ChooseHero(c, p, h) PROVE Move(c)
  <2> DEFINE s == << Stmt("deleteUp", p, 0), Stmt("insertUp", <<p, h>>, 0) >>
  <2>1. h \in Hero
    BY SummonAssumption
  <2>2. /\ Fits(Stmt("deleteUp", p, 0)) /\ Stmt("deleteUp", p, 0).op \notin Rare
        /\ Fits(Stmt("insertUp", <<p, h>>, 0)) /\ Stmt("insertUp", <<p, h>>, 0).op \notin Rare
    BY <2>1 DEF Stmt, Fits, Rare, GiftWork, TeamWork, CountOps, RankOps, HeroWork, HeroOps, StyleOps, PackOps, PoolOps, LayoutOps
  <2>3. Plain(s)
    BY <2>2, PlainFew
  <2>4. Begin(c, Nothing, Nothing, s)
    BY <1>3 DEF ChooseHero
  <2> HIDE DEF s
  <2> QED
    BY <2>3, <2>4, BeginMoves
<1>4. CASE ReadDiscount(c)
  <2> DEFINE p == What(c)
  <2>1. At(c, "readDiscount") /\ p \in Pool /\ Still
    BY <1>4, Head2Do DEF ReadDiscount, PoolOps
  <2>2. PICK offer \in Offer : /\ Options[p][offer] # <<>>
                               /\ Proceed(c, << Stmt("option", <<p, offer>>, 1) >>)
    <3>1. Options[p]["ten"] # <<>>
      BY <2>1, SummonAssumption
    <3> QED
      BY <1>4, <3>1 DEF ReadDiscount, Offer
  <2>3. 1 \in 1..Len(Options[p][offer])
    <3>1. Options[p][offer] \in Seq(Thing \X (Nat \ {0}))
      BY <2>1, SummonAssumption DEF Bill
    <3> QED
      BY <2>2, <3>1
  <2>4. Plain(<< Stmt("option", <<p, offer>>, 1) >>)
    BY <2>1, <2>3, PoolStmts
  <2>5. Within(<< Stmt("option", <<p, offer>>, 1) >>, CashWork)
    BY <2>4, <1>o
  <2> QED
    BY <2>1, <2>2, <2>4, <2>5, <1>s, <1>q DEF SummonWork, GiftWork
<1>5. CASE TryOption(c)
  <2> DEFINE p == What(c)[1]  o == What(c)[2]  i == Amount(c)
  <2>1. At(c, "option") /\ p \in Pool /\ o \in Offer /\ i \in 1..Len(Options[p][o]) /\ Still
    BY <1>5, Head2Do DEF TryOption
  <2>2. Len(Options[p][o]) \in Nat
    BY <2>1, SummonAssumption DEF Bill
  <2>3. \E op \in {"option", "settle"}, k \in 1..Len(Options[p][o]) : Proceed(c, << Stmt(op, What(c), k) >>)
    <3> DEFINE here == balance[Options[p][o][i][1]] >= Options[p][o][i][2]
    <3>1. Proceed(c, << Stmt(IF here \/ i = Len(Options[p][o]) THEN "settle" ELSE "option",
                             What(c), IF here \/ i = Len(Options[p][o]) THEN i ELSE i + 1) >>)
      BY <1>5 DEF TryOption
    <3>2. i # Len(Options[p][o]) => i + 1 \in 1..Len(Options[p][o])
      BY <2>1, <2>2
    <3> HIDE DEF here
    <3>3. CASE here \/ i = Len(Options[p][o])
      BY <3>1, <3>3, <2>1
    <3>4. CASE ~(here \/ i = Len(Options[p][o]))
      BY <3>1, <3>2, <3>4, <2>1
    <3> QED
      BY <3>3, <3>4
  <2>4. ASSUME NEW op \in {"option", "settle"}, NEW k \in 1..Len(Options[p][o])
        PROVE Plain(<< Stmt(op, What(c), k) >>)
    <3>1. k \in Nat
      BY <2>2
    <3>2. Fits(Stmt(op, What(c), k)) /\ Stmt(op, What(c), k).op \notin Rare
      BY <2>1, <3>1 DEF Stmt, Fits, Rare, GiftWork, TeamWork, CountOps, RankOps, HeroWork, HeroOps, StyleOps, PackOps, PoolOps, LayoutOps
    <3> QED
      BY <3>2, PlainFew
  <2>5. \E now : Plain(now) /\ Within(now, CashWork) /\ Proceed(c, now)
    BY <2>3, <2>4, <1>o
  <2> QED
    BY <2>1, <2>5, <1>s, <1>q DEF SummonWork, GiftWork
<1>6. CASE Settle(c)
  <2> DEFINE p == What(c)[1]  o == What(c)[2]
             parcel == Options[p][o][Amount(c)]
             current == balance[parcel[1]]
  <2>1. At(c, "settle") /\ p \in Pool /\ o \in Offer /\ Amount(c) \in 1..Len(Options[p][o])
    BY <1>6, Head2Do DEF Settle
  <2>2. UNCHANGED owned
    BY <1>6 DEF Settle
  <2>3. parcel \in Thing \X Nat
    <3>1. Options[p][o] \in Seq(Thing \X (Nat \ {0}))
      BY <2>1, SummonAssumption DEF Bill
    <3>2. parcel \in Thing \X (Nat \ {0})
      BY <2>1, <3>1
    <3> QED
      BY <3>2
  <2>4. CASE Price(c, << parcel >>)
    <3>1. << parcel >> \in Parcels
      BY <2>3 DEF Parcels
    <3> QED
      BY <2>1, <2>2, <2>4, <3>1, <1>p, <1>q DEF SummonWork, GiftWork
  <2>5. CASE /\ current < parcel[2] /\ parcel[1] = Ticket
             /\ Proceed(c, << Stmt("convert", parcel[2] - current, current) >>) /\ Unrecorded
    <3>1. current \in Int /\ parcel[2] \in Nat
      BY <2>3, <2>5, SummonAssumption DEF OwnedTypes
    <3>2. parcel[2] - current \in Nat
      BY <2>5, <3>1
    <3> DEFINE shortage == parcel[2] - current
    <3> HIDE DEF shortage
    <3>3. Fits(Stmt("convert", shortage, current)) /\ Stmt("convert", shortage, current).op \notin Rare
      <4> HIDE DEF current
      <4> QED
        BY <3>1, <3>2 DEF shortage, Stmt, Fits, Rare, GiftWork, TeamWork, CountOps, RankOps, HeroWork, HeroOps, StyleOps, PackOps, PoolOps, LayoutOps
    <3>4. Plain(<< Stmt("convert", shortage, current) >>)
          /\ Within(<< Stmt("convert", shortage, current) >>, CashWork)
      BY <3>3, PlainFew, <1>o
    <3>5. faults' = faults /\ overlapped' = overlapped /\ dearest' = dearest
          /\ Proceed(c, << Stmt("convert", shortage, current) >>)
      BY <2>5 DEF Unrecorded, shortage
    <3> QED
      BY <2>1, <2>2, <3>4, <3>5, <1>q DEF SummonWork, GiftWork
  <2>6. CASE Return(c, "refused") /\ Unrecorded
    <3>1. faults' = faults /\ overlapped' = overlapped /\ dearest' = dearest
      BY <2>6 DEF Unrecorded
    <3> QED
      BY <2>1, <2>2, <2>6, <3>1, <1>q DEF SummonWork, GiftWork
  <2> QED
    BY <1>6, <2>4, <2>5, <2>6 DEF Settle
<1>7. CASE Convert(c)
  <2> DEFINE gems == What(c) * TicketPrice
             tickets == IF Amount(c) > 0 THEN << <<Ticket, Amount(c)>> >> ELSE <<>>
             parcels == tickets \o << <<Gem, gems>> >>
  <2>1. At(c, "convert") /\ What(c) \in Nat /\ Amount(c) \in Int /\ UNCHANGED owned
    BY <1>7, Head2Do DEF Convert
  <2>2. CASE Return(c, "refused") /\ Unrecorded
    <3>1. faults' = faults /\ overlapped' = overlapped /\ dearest' = dearest
      BY <2>2 DEF Unrecorded
    <3> QED
      BY <2>1, <2>2, <3>1, <1>q DEF SummonWork, GiftWork
  <2>3. CASE Price(c, parcels)
    <3>1. gems \in Nat
      BY <2>1, SummonAssumption
    <3>2. Ticket \in Thing /\ Gem \in Thing
      BY SummonAssumption DEF Thing
    <3>3. tickets \in Seq(Thing \X Int)
      <4>1. <<>> \in Seq(Thing \X Int) /\ << <<Ticket, Amount(c)>> >> \in Seq(Thing \X Int)
        BY <2>1, <3>2
      <4> QED
        BY <4>1
    <3> HIDE DEF gems, tickets
    <3>4. << <<Gem, gems>> >> \in Seq(Thing \X Int)
      BY <3>1, <3>2
    <3>5. parcels \in Parcels
      BY <3>3, <3>4, JoinTyped DEF Parcels
    <3> QED
      BY <2>1, <2>3, <3>5, <1>p, <1>q DEF SummonWork, GiftWork
  <2> QED
    BY <1>7, <2>2, <2>3 DEF Convert
<1>8. CASE ReadUp(c) \/ UseDiscount(c) \/ CountSummons(c) \/ AddHistory(c) \/ DeleteUp(c)
  <2>1. \E op \in SummonWork : At(c, op)
    BY <1>8 DEF ReadUp, UseDiscount, CountSummons, AddHistory, DeleteUp, SummonWork
  <2>2. Still /\ Proceed(c, <<>>)
    BY <1>8 DEF ReadUp, UseDiscount, CountSummons, AddHistory, DeleteUp
  <2> QED
    BY <2>1, <2>2, <1>s, <1>q, Nothing2Do
<1>13. CASE Load(c) \/ SaveCounters(c)
  <2>1. (\E op \in Lone : At(c, op)) /\ LoneStep(c)
    BY <1>13 DEF Load, SaveCounters, Lone, LoneStep
  <2>2. Still /\ Proceed(c, <<>>)
    BY <1>13 DEF Load, SaveCounters
  <2> QED
    BY <2>1, <2>2, <1>s, <1>l, Nothing2Do
<1>9. ASSUME NEW h \in Hero, PullSix(c) \/ PullLower(c), Drawn(c, h) PROVE Move(c)
  <2>1. UNCHANGED owned /\ faults' = faults /\ overlapped' = overlapped /\ dearest' = dearest
        /\ Proceed(c, << Stmt("pullHero", h, 1) >>)
    BY <1>9 DEF Drawn
  <2>2. Plain(<< Stmt("pullHero", h, 1) >>)
    BY PoolStmts
  <2>3. At(c, "pull") /\ "pull" \in Lone /\ LoneStep(c)
    BY <1>9 DEF PullSix, PullLower, Lone, LoneStep
  <2> QED
    BY <2>1, <2>2, <2>3, <1>l
<1>10. CASE PullSix(c)
  <2>1. At(c, "pull") /\ What(c) \in Pool
    BY <1>10, Head2Do DEF PullSix, PoolOps
  <2>2. mem[c].up \subseteq Hero /\ SixStar[What(c)] \subseteq Hero
    BY <2>1, SummonAssumption DEF SummonTypes, Memory
  <2>3. \E h \in mem[c].up \cup (SixStar[What(c)] \ mem[c].up) : Drawn(c, h)
    BY <1>10 DEF PullSix
  <2> QED
    BY <1>10, <2>2, <2>3, <1>9
<1>11. CASE PullLower(c)
  <2>1. At(c, "pull") /\ What(c) \in Pool
    BY <1>11, Head2Do DEF PullLower, PoolOps
  <2>2. FiveStar[What(c)] \subseteq Hero /\ Lower[What(c)] \subseteq Hero
    BY <2>1, SummonAssumption
  <2>3. \E h \in FiveStar[What(c)] \cup Lower[What(c)] : Drawn(c, h)
    BY <1>11 DEF PullLower
  <2> QED
    BY <1>11, <2>2, <2>3, <1>9
<1>12. CASE InsertUp(c)
  <2>1. At(c, "insertUp") /\ UNCHANGED owned
    BY <1>12 DEF InsertUp
  <2>2. CASE Fail(c)
    <3>1. job[c] # <<>> /\ UNCHANGED <<balance, withdrawn>>
      BY <2>1 DEF At, owned, stock
    <3> QED
      BY <2>2, <3>1, FailMoves
  <2>3. CASE Proceed(c, <<>>) /\ Unrecorded
    <3>1. faults' = faults /\ overlapped' = overlapped /\ dearest' = dearest
      BY <2>3 DEF Unrecorded
    <3> QED
      BY <2>1, <2>3, <3>1, <1>q, Nothing2Do DEF SummonWork
  <2> QED
    BY <1>12, <2>2, <2>3 DEF InsertUp
<1> QED
  BY <1>1, <1>2, <1>3, <1>4, <1>5, <1>6, <1>7, <1>8, <1>10, <1>11, <1>12, <1>13 DEF SummonRequest, SummonStep

\* --- Layout moves

LEMMA OnStmts ==
    /\ \A h \in Hero, t \in Template : \A x :
          \A op \in LayoutOps \ {"loadScheme", "wearStyle", "saveWorn"} :
             Fits(On(op, h, t, x)) /\ On(op, h, t, x).op \notin Rare
    /\ \A h \in Hero, t \in Template : \A k \in DOMAIN Scheme : Plain(<< On("loadScheme", h, t, k) >>)
    /\ \A h \in Hero, t \in Template : \A s \in Style \cup {NoStyle} : Plain(<< On("wearStyle", h, t, s) >>)
    /\ \A h \in Hero, t \in Template : \A s \in Style \cup {NoStyle} : Fits(On("saveWorn", h, t, s))
<1>1. ASSUME NEW h \in Hero, NEW t \in Template, NEW x,
             NEW op \in LayoutOps \ {"loadScheme", "wearStyle", "saveWorn"}
      PROVE Fits(On(op, h, t, x)) /\ On(op, h, t, x).op \notin Rare
  BY DEF On, Stmt, Fits, Rare, GiftWork, TeamWork, CountOps, RankOps, HeroWork, HeroOps, StyleOps, PackOps, PoolOps, LayoutOps
<1>2. ASSUME NEW h \in Hero, NEW t \in Template, NEW k \in DOMAIN Scheme
      PROVE Plain(<< On("loadScheme", h, t, k) >>)
  <2>1. Fits(On("loadScheme", h, t, k)) /\ On("loadScheme", h, t, k).op \notin Rare
    BY DEF On, Stmt, Fits, Rare, GiftWork, TeamWork, CountOps, RankOps, HeroWork, HeroOps, StyleOps, PackOps, PoolOps, LayoutOps
  <2> QED
    BY <2>1, PlainFew
<1>3. ASSUME NEW h \in Hero, NEW t \in Template, NEW s \in Style \cup {NoStyle}
      PROVE Plain(<< On("wearStyle", h, t, s) >>)
  <2>1. Fits(On("wearStyle", h, t, s)) /\ On("wearStyle", h, t, s).op \notin Rare
    BY DEF On, Stmt, Fits, Rare, GiftWork, TeamWork, CountOps, RankOps, HeroWork, HeroOps, StyleOps, PackOps, PoolOps, LayoutOps
  <2> QED
    BY <2>1, PlainFew
<1>4. ASSUME NEW h \in Hero, NEW t \in Template, NEW s \in Style \cup {NoStyle}
      PROVE Fits(On("saveWorn", h, t, s))
  BY DEF On, Stmt, Fits, Rare, GiftWork, TeamWork, CountOps, RankOps, HeroWork, HeroOps, StyleOps, PackOps, PoolOps, LayoutOps
<1> QED
  BY <1>1, <1>2, <1>3, <1>4

LEMMA ActivePlain ==
    ASSUME NEW h \in Hero, NEW t \in Template, NEW move,
           NEW remove \in {"removeCube", "removeActive"}, NEW insert \in {"insertCube", "insertActive"}
    PROVE /\ Plain(TakeUp(move.take, remove, h, t))
          /\ Plain(Put(move.put, remove, insert, h, t))
<1>1. \A x : Fits(On(remove, h, t, x)) /\ On(remove, h, t, x).op \notin Rare
  BY OnStmts DEF LayoutOps
<1>2. \A x : Fits(On(insert, h, t, x)) /\ On(insert, h, t, x).op \notin Rare
  BY OnStmts DEF LayoutOps
<1>3. Plain(<< On(remove, h, t, move.take) >>)
  BY <1>1, PlainFew
<1>4. Plain(<< On(remove, h, t, move.put.at), On(insert, h, t, move.put) >>)
  BY <1>1, <1>2, PlainFew
<1> QED
  BY <1>3, <1>4, Nothing2Do DEF TakeUp, Put

LEMMA EachCubePlain ==
    ASSUME NEW h \in Hero, NEW t \in Template, NEW cubes, IsList(cubes),
           NEW op \in {"insertCube", "insertActive"}
    PROVE Plain(InsertEach(op, h, t, cubes))
<1>1. DOMAIN cubes = 1..Len(cubes) /\ Len(cubes) \in Nat
  BY DEF IsList
<1> DEFINE s == InsertEach(op, h, t, cubes)
<1>2. s = [i \in 1..Len(cubes) |-> s[i]]
  BY <1>1 DEF InsertEach
<1>3. ASSUME NEW i \in 1..Len(cubes) PROVE Fits(s[i]) /\ s[i].op \notin Rare
  <2>1. s[i] = On(op, h, t, cubes[i])
    BY <1>1 DEF InsertEach
  <2>2. op \in LayoutOps \ {"loadScheme", "wearStyle", "saveWorn"}
    BY DEF LayoutOps
  <2> HIDE DEF s
  <2> QED
    BY <2>1, <2>2, OnStmts
<1> HIDE DEF s
<1>4. Plain(s)
  BY <1>1, <1>2, <1>3, MadePlain
<1> QED
  BY <1>4 DEF s

LEMMA ReplacePlain ==
    ASSUME NEW h \in Hero, NEW t \in Template, NEW cubes, IsList(cubes)
    PROVE Plain(ReplaceActive(h, t, cubes))
<1>1. Fits(On("wipeActive", h, t, Nowhere)) /\ On("wipeActive", h, t, Nowhere).op \notin Rare
  BY OnStmts DEF LayoutOps
<1>2. Plain(<< On("wipeActive", h, t, Nowhere) >>)
  BY <1>1, PlainFew
<1>3. Plain(InsertEach("insertActive", h, t, cubes))
  BY EachCubePlain
<1> QED
  BY <1>2, <1>3, FineJoin DEF ReplaceActive

LEMMA LayoutFrame ==
    ASSUME NEW c \in Conn, LayoutNext(c)
    PROVE /\ UNCHANGED <<bought, claimed, deliveries, teams, meant, lastId>>
          /\ (LayoutRequest(c) \/ LayoutStep(c))
BY DEF LayoutNext, storeVars, itemVars, mailVars, summonVars, groupVars, gmVars

LEMMA LayoutMoves ==
    ASSUME JobTypes, StateTypes, NEW c \in Conn, LayoutNext(c)
    PROVE Move(c)
<1>0. /\ UNCHANGED <<bought, claimed, deliveries, teams, meant, lastId>>
      /\ (LayoutRequest(c) \/ LayoutStep(c))
  BY LayoutFrame
<1>t. OwnedTypes /\ GmTypes /\ GrowthTypes /\ LayoutTypes
  BY DEF StateTypes
<1> USE <1>0, <1>t
<1>g. UNCHANGED growthVars => Grows
  BY DEF Grows, GrowthTypes, growthVars
<1>k. UNCHANGED worn => Kept
  BY DEF Kept
<1>b. ASSUME NEW x, AskLayout(c, x), Plain(<< x >>) PROVE Move(c)
  <2>1. Begin(c, Nothing, Nothing, << x >>) /\ Grows /\ Kept
    BY <1>b, <1>g, <1>k DEF AskLayout, layoutVars
  <2> QED
    BY <2>1, <1>b, BeginMoves
<1>q. ASSUME NEW op \in LayoutOps \ {"saveWorn"}, At(c, op), UNCHANGED <<owned, growthVars, worn>>,
             Unrecorded, Return(c, "refused") \/ \E now : Plain(now) /\ Proceed(c, now)
      PROVE Move(c)
  <2>1. job[c] # <<>> /\ HeadOf(c) = op
    BY <1>q, Head2Do
  <2>2. HeadOf(c) \notin Rare /\ HeadOf(c) \notin GiftWork /\ HeadOf(c) \notin CashWork /\ HeadOf(c) \notin TeamWork
    BY <2>1 DEF LayoutOps, Rare, GiftWork, CashWork, TeamWork
  <2>3. Same /\ UNCHANGED <<dearest, balance, withdrawn>> /\ Kept /\ Grows
    BY <1>q, <1>g, <1>k DEF Same, owned, stock, Unrecorded
  <2> QED
    BY <1>q, <2>1, <2>2, <2>3, QuietMoves
<1>1. CASE LayoutRequest(c)
  <2>1. PICK h \in Sculpted, t \in Template :
          \/ \E move \in Moves : AskLayout(c, On("putCube", h, t, move))
          \/ \E k \in DOMAIN Scheme : AskLayout(c, On("loadScheme", h, t, k))
          \/ AskLayout(c, On("switchTemplate", h, t, Nowhere))
          \/ \E s \in Style \cup {NoStyle} : AskLayout(c, On("wearStyle", h, t, s))
    BY <1>1 DEF LayoutRequest
  <2>2. h \in Hero
    BY LayoutAssumption
  <2>3. \A op \in {"putCube", "switchTemplate"} : \A x : Plain(<< On(op, h, t, x) >>)
    <3>1. \A op \in {"putCube", "switchTemplate"} : \A x : Fits(On(op, h, t, x)) /\ On(op, h, t, x).op \notin Rare
      BY <2>2, OnStmts DEF LayoutOps
    <3> QED
      BY <3>1, PlainFew
  <2>4. CASE \E move \in Moves : AskLayout(c, On("putCube", h, t, move))
    BY <2>3, <2>4, <1>b
  <2>5. CASE \E k \in DOMAIN Scheme : AskLayout(c, On("loadScheme", h, t, k))
    BY <2>2, <2>5, <1>b, OnStmts
  <2>6. CASE AskLayout(c, On("switchTemplate", h, t, Nowhere))
    BY <2>3, <2>6, <1>b
  <2>7. CASE \E s \in Style \cup {NoStyle} : AskLayout(c, On("wearStyle", h, t, s))
    BY <2>2, <2>7, <1>b, OnStmts
  <2> QED
    BY <2>1, <2>4, <2>5, <2>6, <2>7
<1>d. ASSUME NEW op \in LayoutOps \ {"saveWorn"}, At(c, op), UNCHANGED <<owned, growthVars, worn>>, Decline(c)
      PROVE Move(c)
  BY <1>d, <1>q DEF Decline
<1>2. CASE PutCube(c)
  <2> DEFINE h == HeroOf(c)  t == TemplateOf(c)  move == Detail(c)
             up == TakeUp(move.take, "removeCube", h, t)
             down == Put(move.put, "removeCube", "insertCube", h, t)
             sync == << On("syncCubes", h, t, move) >>
  <2>1. At(c, "putCube") /\ h \in Hero /\ t \in Template
    BY <1>2, Head2Do DEF PutCube, LayoutOps
  <2>2. UNCHANGED <<owned, growthVars, worn>>
    BY <1>2 DEF PutCube, layoutVars
  <2>3. CASE Decline(c)
    BY <2>1, <2>2, <2>3, <1>d DEF LayoutOps
  <2>4. CASE Proceed(c, up \o down \o sync) /\ Unrecorded
    <3>1. Plain(up) /\ Plain(down)
      BY <2>1, ActivePlain
    <3>2. Fits(On("syncCubes", h, t, move)) /\ On("syncCubes", h, t, move).op \notin Rare
      BY <2>1, OnStmts DEF LayoutOps
    <3>3. Plain(sync)
      BY <3>2, PlainFew
    <3> HIDE DEF up, down, sync
    <3>4. Plain(up \o down \o sync)
      BY <3>1, <3>3, FineJoin
    <3> QED
      BY <2>1, <2>2, <2>4, <3>4, <1>q DEF LayoutOps
  <2> QED
    BY <1>2, <2>3, <2>4 DEF PutCube
<1>3. CASE RemoveCube(c) \/ InsertCube(c) \/ RemoveActive(c) \/ InsertActive(c) \/ WipeCubes(c)
           \/ WipeActive(c) \/ UseTemplate(c)
  <2>1. \E op \in LayoutOps \ {"saveWorn"} : At(c, op)
    BY <1>3 DEF RemoveCube, InsertCube, RemoveActive, InsertActive, WipeCubes, WipeActive, UseTemplate, LayoutOps
  <2>2. UNCHANGED <<owned, growthVars, worn>> /\ Unrecorded /\ Proceed(c, <<>>)
    BY <1>3 DEF RemoveCube, InsertCube, RemoveActive, InsertActive, WipeCubes, WipeActive, UseTemplate, Frame
  <2> QED
    BY <2>1, <2>2, <1>q, Nothing2Do
<1>4. CASE SyncCubes(c)
  <2> DEFINE changes == ActiveChanges(HeroOf(c), TemplateOf(c), Detail(c))
  <2>1. At(c, "syncCubes") /\ HeroOf(c) \in Hero /\ TemplateOf(c) \in Template
    BY <1>4, Head2Do DEF SyncCubes, LayoutOps
  <2>2. UNCHANGED <<owned, growthVars, worn>> /\ Unrecorded
        /\ (Proceed(c, <<>>) \/ Proceed(c, changes))
    BY <1>4 DEF SyncCubes, layoutVars, Frame
  <2>3. Plain(changes)
    BY <2>1, ActivePlain, FineJoin DEF ActiveChanges
  <2> QED
    BY <2>1, <2>2, <2>3, <1>q, Nothing2Do DEF LayoutOps
<1>5. CASE LoadScheme(c)
  <2> DEFINE h == HeroOf(c)  t == TemplateOf(c)  cubes == Scheme[Detail(c)]
             wipe == << On("wipeCubes", h, t, Nowhere) >>
             fill == InsertEach("insertCube", h, t, cubes)
             copy == IF inUse[h] = t THEN ReplaceActive(h, t, cubes) ELSE <<>>
  <2>1. At(c, "loadScheme") /\ h \in Hero /\ t \in Template /\ Detail(c) \in DOMAIN Scheme
    BY <1>5, Head2Do DEF LoadScheme, LayoutOps
  <2>2. UNCHANGED <<owned, growthVars, worn>>
    BY <1>5 DEF LoadScheme, layoutVars
  <2>3. CASE Decline(c)
    BY <2>1, <2>2, <2>3, <1>d DEF LayoutOps
  <2>4. CASE Proceed(c, wipe \o fill \o copy) /\ Unrecorded
    <3>1. IsList(cubes)
      BY <2>1, LayoutAssumption, SeqMade
    <3>2. Fits(On("wipeCubes", h, t, Nowhere)) /\ On("wipeCubes", h, t, Nowhere).op \notin Rare
      BY <2>1, OnStmts DEF LayoutOps
    <3>3. Plain(wipe) /\ Plain(fill) /\ Plain(copy)
      BY <2>1, <3>1, <3>2, PlainFew, EachCubePlain, ReplacePlain, Nothing2Do
    <3> HIDE DEF wipe, fill, copy
    <3>4. Plain(wipe \o fill \o copy)
      BY <3>3, FineJoin
    <3> QED
      BY <2>1, <2>2, <2>4, <3>4, <1>q DEF LayoutOps
  <2> QED
    BY <1>5, <2>3, <2>4 DEF LoadScheme
<1>6. CASE SwitchTemplate(c)
  <2> DEFINE h == HeroOf(c)  t == TemplateOf(c)
             copy == ReplaceActive(h, t, layouts[h][t])
             use == << On("useTemplate", h, t, Nowhere) >>
  <2>1. At(c, "switchTemplate") /\ h \in Hero /\ t \in Template
    BY <1>6, Head2Do DEF SwitchTemplate, LayoutOps
  <2>2. UNCHANGED <<owned, growthVars, worn>>
    BY <1>6 DEF SwitchTemplate, layoutVars
  <2>3. CASE Decline(c)
    BY <2>1, <2>2, <2>3, <1>d DEF LayoutOps
  <2>4. CASE Proceed(c, copy \o use) /\ Unrecorded
    <3>1. IsList(layouts[h][t])
      BY <2>1 DEF LayoutTypes
    <3>2. Fits(On("useTemplate", h, t, Nowhere)) /\ On("useTemplate", h, t, Nowhere).op \notin Rare
      BY <2>1, OnStmts DEF LayoutOps
    <3>3. Plain(copy) /\ Plain(use)
      BY <2>1, <3>1, <3>2, PlainFew, ReplacePlain
    <3> HIDE DEF copy, use
    <3>4. Plain(copy \o use)
      BY <3>3, FineJoin
    <3> QED
      BY <2>1, <2>2, <2>4, <3>4, <1>q DEF LayoutOps
  <2> QED
    BY <1>6, <2>3, <2>4 DEF SwitchTemplate
<1>7. CASE WearStyle(c)
  <2> DEFINE h == HeroOf(c)  s == Detail(c)
  <2>1. At(c, "wearStyle") /\ job[c] # <<>> /\ HeadOf(c) = "wearStyle"
    BY <1>7, Head2Do DEF WearStyle
  <2>2. UNCHANGED <<owned, growthVars, worn>>
    BY <1>7 DEF WearStyle, layoutVars
  <2>3. CASE h \notin heroes \/ (s # NoStyle /\ s \notin styles[h])
    <3>1. Decline(c)
      BY <1>7, <2>3 DEF WearStyle
    <3> QED
      BY <2>1, <2>2, <3>1, <1>d DEF LayoutOps
  <2>4. CASE ~(h \notin heroes \/ (s # NoStyle /\ s \notin styles[h]))
    <3>1. Proceed(c, << On("saveWorn", h, TemplateOf(c), s) >>) /\ Unrecorded
      BY <1>7, <2>4 DEF WearStyle
    <3>2. Wears(c)
      BY <2>1, <2>2, <2>4, <3>1, <1>k DEF Wears, Onward, Proceed, Same, Unrecorded, owned, stock
    <3> QED
      BY <3>2, <2>2, <1>g DEF Move
  <2> QED
    BY <2>3, <2>4
<1>8. CASE SaveWorn(c)
  <2>1. job[c] # <<>> /\ HeadOf(c) = "saveWorn"
    BY <1>8, Head2Do DEF SaveWorn
  <2>2. SavesWorn(c) /\ Grows
    BY <1>8, <2>1, <1>g DEF SaveWorn, SavesWorn, Onward, Proceed, Same, Frame, Unrecorded, owned, stock
  <2> QED
    BY <2>2 DEF Move
<1> QED
  BY <1>1, <1>2, <1>3, <1>4, <1>5, <1>6, <1>7, <1>8 DEF LayoutStep

\* --- Group moves

LEMMA FilledMade ==
    ASSUME NEW A, NEW slots \in Seq(A) PROVE IsList(Filled(slots))
<1> DEFINE ss == [i \in 1..Len(slots) |-> IF slots[i] # 0 THEN << slots[i] >> ELSE <<>>]
<1>1. DOMAIN slots = 1..Len(slots) /\ Len(slots) \in Nat
  OBVIOUS
<1>2. Filled(slots) = FlattenSeq(ss)
  BY <1>1 DEF Filled, Those
<1>3. \A i \in 1..Len(slots) : IsList(ss[i])
  BY Tuples
<1>4. ss = [i \in 1..Len(slots) |-> ss[i]]
  OBVIOUS
<1> HIDE DEF ss
<1> QED
  BY <1>1, <1>2, <1>3, <1>4, FlatAll

LEMMA ElementOf ==
    ASSUME NEW A, NEW s \in Seq(A), NEW i \in 1..Len(s)
    PROVE s[i] \in A
OBVIOUS

LEMMA EquipsMade ==
    ASSUME NEW slots \in Seq([hero : Int, uids : Seq(Int)]) PROVE IsList(Equips(slots))
<1> DEFINE ss == [i \in 1..Len(slots) |->
                   IF slots[i].hero = 0 THEN <<>>
                   ELSE [j \in DOMAIN Filled(slots[i].uids) |-> <<i - 1, Filled(slots[i].uids)[j]>>]]
<1>1. DOMAIN slots = 1..Len(slots) /\ Len(slots) \in Nat
  OBVIOUS
<1>2. Equips(slots) = FlattenSeq(ss)
  BY <1>1 DEF Equips
<1>3. ASSUME NEW i \in 1..Len(slots) PROVE IsList(ss[i])
  <2> DEFINE uids == Filled(slots[i].uids)
             rows == [j \in DOMAIN uids |-> <<i - 1, uids[j]>>]
  <2>1. slots[i].uids \in Seq(Int)
    <3>1. slots[i] \in [hero : Int, uids : Seq(Int)]
      BY ElementOf
    <3> QED
      BY <3>1
  <2>2. IsList(uids)
    BY <2>1, FilledMade
  <2> HIDE DEF uids
  <2>3. DOMAIN uids = 1..Len(uids) /\ Len(uids) \in Nat
    BY <2>2 DEF IsList
  <2>4. rows = [j \in 1..Len(uids) |-> rows[j]]
    BY <2>3
  <2>5. ss[i] = <<>> \/ ss[i] = rows
    BY DEF uids
  <2> HIDE DEF rows, ss
  <2>6. IsList(rows)
    BY <2>3, <2>4, MadeSeq
  <2> QED
    BY <2>5, <2>6, Tuples
<1>4. ss = [i \in 1..Len(slots) |-> ss[i]]
  OBVIOUS
<1> HIDE DEF ss
<1> QED
  BY <1>1, <1>2, <1>3, <1>4, FlatAll

LEMMA InfoWhole ==
    ASSUME NEW f \in FightGroup PROVE Whole(GroupInfo(f))
<1>1. /\ f.heroes \in Seq(Int) /\ f.subs \in Seq(Int)
      /\ f.equips \in Seq([hero : Int, uids : Seq(Int)])
      /\ f.activity \in Seq([hero : Int, uids : Seq(Int)])
  BY HeroGroupsAssumption
<1>2. IsList(Filled(f.heroes) \o Filled(f.subs))
  BY <1>1, FilledMade, FineJoin
<1>3. IsList(Equips(f.equips)) /\ IsList(Equips(f.activity))
  BY <1>1, EquipsMade
<1>4. /\ GroupInfo(f)["members"] = Filled(f.heroes) \o Filled(f.subs)
      /\ GroupInfo(f)["equips"] = Equips(f.equips)
      /\ GroupInfo(f)["activity"] = Equips(f.activity)
  BY DEF GroupInfo
<1> QED
  BY <1>2, <1>3, <1>4 DEF Whole, Part

\* Statements on the rows of a sequence.
LEMMA RowsPlain ==
    ASSUME NEW rows, IsList(rows), NEW s, s = [i \in DOMAIN rows |-> s[i]],
           NEW W, \A i \in DOMAIN rows : Fits(s[i]) /\ s[i].op \notin Rare /\ s[i].op \in W
    PROVE Plain(s) /\ Within(s, W)
<1>1. DOMAIN rows = 1..Len(rows) /\ Len(rows) \in Nat
  BY DEF IsList
<1>2. Plain(s)
  BY <1>1, MadePlain
<1>3. DOMAIN s = DOMAIN rows
  OBVIOUS
<1> QED
  BY <1>2, <1>3 DEF Within, ToSet

LEMMA ReplaceWithin ==
    ASSUME NEW g, NEW part, NEW rows, IsList(rows)
    PROVE Plain(Replace(g, part, rows)) /\ Within(Replace(g, part, rows), TeamWork)
<1> DEFINE wipe == << Stmt("wipeCommon", <<g, part>>, 0) >>
           fill == [i \in DOMAIN rows |-> Stmt("insertCommon", <<g, part, rows[i]>>, 0)]
<1>1. \A w : Fits(Stmt("wipeCommon", w, 0)) /\ Stmt("wipeCommon", w, 0).op \notin Rare
             /\ Stmt("wipeCommon", w, 0).op \in TeamWork
  BY DEF Stmt, Fits, Rare, GiftWork, TeamWork, CountOps, RankOps, HeroWork, HeroOps, StyleOps, PackOps, PoolOps, LayoutOps
<1>2. \A w : Fits(Stmt("insertCommon", w, 0)) /\ Stmt("insertCommon", w, 0).op \notin Rare
             /\ Stmt("insertCommon", w, 0).op \in TeamWork
  BY DEF Stmt, Fits, Rare, GiftWork, TeamWork, CountOps, RankOps, HeroWork, HeroOps, StyleOps, PackOps, PoolOps, LayoutOps
<1>3. Plain(wipe) /\ Within(wipe, TeamWork)
  <2>1. \A x : ToSet(<<x>>) = {x}
    BY Tuples
  <2> QED
    BY <1>1, <2>1, PlainFew DEF Within
<1>4. Plain(fill) /\ Within(fill, TeamWork)
  <2>1. fill = [i \in DOMAIN rows |-> fill[i]]
    OBVIOUS
  <2>2. \A i \in DOMAIN rows : fill[i] = Stmt("insertCommon", <<g, part, rows[i]>>, 0)
    OBVIOUS
  <2> HIDE DEF fill
  <2>3. \A i \in DOMAIN rows : Fits(fill[i]) /\ fill[i].op \notin Rare /\ fill[i].op \in TeamWork
    BY <1>2, <2>2
  <2> QED
    BY <2>1, <2>3, RowsPlain
<1>5. Replace(g, part, rows) = wipe \o fill
  BY DEF Replace
<1> HIDE DEF wipe, fill
<1> QED
  BY <1>3, <1>4, <1>5, FineJoin DEF Plain, Fine

LEMMA GroupsFrame ==
    ASSUME NEW c \in Conn, GroupsNext(c)
    PROVE /\ UNCHANGED <<bought, claimed, deliveries, worn>>
          /\ Grows /\ (GroupsRequest(c) \/ GroupsStep(c))
BY DEF GroupsNext, Grows, storeVars, growthVars, itemVars, mailVars, summonVars, layoutVars, gmVars

LEMMA GroupsMoves ==
    ASSUME JobTypes, StateTypes, NEW c \in Conn, GroupsNext(c)
    PROVE Move(c)
<1>0. /\ UNCHANGED <<bought, claimed, deliveries, worn>>
      /\ Grows /\ (GroupsRequest(c) \/ GroupsStep(c))
  BY GroupsFrame
<1>t. OwnedTypes /\ GmTypes /\ GroupTypes
  BY DEF StateTypes
<1> USE <1>0, <1>t
<1>k. UNCHANGED <<teams, meant, lastId>> => Kept
  BY DEF Kept
\* The statements of a save that the theorems do not look at.
<1>w. ASSUME NEW op \in TeamWork \ Rare, At(c, op), UNCHANGED <<owned, teams, meant, lastId>>, Unrecorded,
             NEW now, Plain(now), Within(now, TeamWork), Proceed(c, now)
      PROVE Move(c)
  <2>1. job[c] # <<>> /\ HeadOf(c) = op
    BY <1>w, Head2Do
  <2>2. HeadOf(c) \notin Rare /\ HeadOf(c) \notin GiftWork /\ HeadOf(c) \notin CashWork
    BY <2>1 DEF TeamWork, Rare, GiftWork, CashWork
  <2>3. Same /\ Kept /\ UNCHANGED <<dearest, balance, withdrawn>>
    BY <1>w, <1>k DEF Same, owned, stock, Unrecorded
  <2>4. GoesOn(c)
    BY <1>w, <2>1, <2>2, <2>3, NoLossAtAll, GoesOnWith
  <2> QED
    BY <2>4 DEF Move
<1>r. ASSUME NEW op \in TeamWork \ Rare, At(c, op), UNCHANGED <<owned, teams, meant, lastId>>, Unrecorded,
             Return(c, "failed")
      PROVE Move(c)
  <2>1. job[c] # <<>> /\ HeadOf(c) = op
    BY <1>r, Head2Do
  <2>2. HeadOf(c) \notin GiftWork /\ HeadOf(c) \notin Lone
    BY <2>1 DEF TeamWork, Rare, GiftWork, Lone
  <2>3. Same /\ Kept /\ UNCHANGED <<dearest, balance, withdrawn>>
    BY <1>r, <1>k DEF Same, owned, stock, Unrecorded
  <2>4. Stops(c)
    BY <1>r, <2>1, <2>2, <2>3 DEF Stops, Return, Same
  <2> QED
    BY <2>4 DEF Move
<1>q. ASSUME NEW op \in {"setEquip", "wipeSlot", "listTeams", "readTeam"}, At(c, op),
             UNCHANGED <<owned, teams, meant, lastId>>, Unrecorded,
             Return(c, "failed") \/ \E now : Plain(now) /\ Proceed(c, now)
      PROVE Move(c)
  <2>1. job[c] # <<>> /\ HeadOf(c) = op
    BY <1>q, Head2Do
  <2>2. HeadOf(c) \notin Rare /\ HeadOf(c) \notin GiftWork /\ HeadOf(c) \notin CashWork /\ HeadOf(c) \notin TeamWork
    BY <2>1 DEF Rare, GiftWork, CashWork, TeamWork
  <2>3. Same /\ Kept /\ UNCHANGED <<dearest, balance, withdrawn>>
    BY <1>q, <1>k DEF Same, owned, stock, Unrecorded
  <2> QED
    BY <1>q, <2>1, <2>2, <2>3, QuietMoves
<1>1. ASSUME NEW s \in Snapshot, NEW g \in Sub, NEW f \in FightGroup, AskSave(c, s, g, f) PROVE Move(c)
  <2> DEFINE x == Stmt("findTeam", <<s, g, GroupInfo(f)>>, 0)
             y == Stmt("readOrder", <<s, g>>, 0)
             z == Stmt("findCommon", <<g, GroupInfo(f)>>, 0)
  <2>1. Whole(GroupInfo(f))
    BY InfoWhole
  <2>2. Fits(x) /\ Fits(y) /\ Fits(z)
    <3> DEFINE info == GroupInfo(f)
    <3> HIDE DEF info
    <3>1. Whole(info)
      BY <2>1 DEF info
    <3>2. Fits(Stmt("findTeam", <<s, g, info>>, 0)) /\ Fits(Stmt("readOrder", <<s, g>>, 0))
          /\ Fits(Stmt("findCommon", <<g, info>>, 0))
      BY <3>1 DEF Stmt, Fits, Rare, GiftWork, TeamWork, CountOps, RankOps, HeroWork, HeroOps, StyleOps, PackOps, PoolOps, LayoutOps
    <3> QED
      BY <3>2 DEF info
  <2>3. x.op = "findTeam" /\ y.op = "readOrder" /\ z.op = "findCommon"
    BY DEF Stmt
  <2>4. Kept /\ Begin(c, Nothing, Nothing, <<x, y, z>>)
    BY <1>1, <1>k DEF AskSave
  <2> HIDE DEF x, y, z
  <2>5. SaveOfTeam(<<x, y, z>>)
    BY <2>2, <2>3 DEF SaveOfTeam
  <2> QED
    BY <2>4, <2>5, BeginMoves
<1>2. ASSUME NEW e \in EquipChange, AskEquip(c, e[1], e[2], e[3]) PROVE Move(c)
  <2> DEFINE x == Stmt("setEquip", <<e[1], e[2], e[3]>>, 0)
  <2>1. IsList(e[3])
    BY HeroGroupsAssumption, SeqMade
  <2>2. Fits(x) /\ x.op \notin Rare
    BY <2>1 DEF Stmt, Fits, Rare, GiftWork, TeamWork, CountOps, RankOps, HeroWork, HeroOps, StyleOps, PackOps, PoolOps, LayoutOps
  <2>3. Kept /\ Begin(c, Nothing, Nothing, << x >>)
    BY <1>2, <1>k DEF AskEquip
  <2> HIDE DEF x
  <2>4. Plain(<< x >>)
    BY <2>2, PlainFew
  <2> QED
    BY <2>3, <2>4, BeginMoves
<1>3. ASSUME NEW which, AskList(c, which) PROVE Move(c)
  <2>1. Fits(Stmt("listTeams", which, 0)) /\ Stmt("listTeams", which, 0).op \notin Rare
    BY DEF Stmt, Fits, Rare, GiftWork, TeamWork, CountOps, RankOps, HeroWork, HeroOps, StyleOps, PackOps, PoolOps, LayoutOps
  <2>2. Plain(<< Stmt("listTeams", which, 0) >>)
    BY <2>1, PlainFew
  <2>3. Kept /\ Begin(c, Nothing, Nothing, << Stmt("listTeams", which, 0) >>)
    BY <1>3, <1>k DEF AskList, groupVars
  <2> QED
    BY <2>2, <2>3, BeginMoves
<1>4. CASE FindTeam(c)
  <2> DEFINE s == What(c)[1]  g == What(c)[2]  info == What(c)[3]
             old == IF Held(s, g) = {} THEN <<>> ELSE << Min(Held(s, g)) >>
             ss == [i \in DOMAIN old |->
                     << Stmt("wipePart", <<old[i], "members">>, 0),
                        Stmt("wipePart", <<old[i], "equips">>, 0),
                        Stmt("wipePart", <<old[i], "activity">>, 0),
                        Stmt("dropTeam", old[i], 0) >>]
             new == << Stmt("newTeam", <<s, g, info>>, 0) >>
             W == {"wipePart", "dropTeam", "newTeam"}
  <2>1. job[c] # <<>> /\ HeadOf(c) = "findTeam" /\ Whole(info)
    BY <1>4, Head2Do DEF FindTeam
  <2>2. Same /\ Kept /\ UNCHANGED <<dearest, balance, withdrawn>>
    BY <1>4, <1>k DEF FindTeam, Same, Unrecorded, owned, stock, groupVars
  <2>3. Proceed(c, FlattenSeq(ss) \o new)
    BY <1>4 DEF FindTeam
  <2>4. IsList(old)
    BY Tuples
  <2> HIDE DEF old, info, s, g
  <2>5. DOMAIN old = 1..Len(old) /\ Len(old) \in Nat
    BY <2>4 DEF IsList
  <2>6. \A w : Fits(Stmt("wipePart", w, 0)) /\ Stmt("wipePart", w, 0).op = "wipePart"
    BY DEF Stmt, Fits, Rare, GiftWork, TeamWork, CountOps, RankOps, HeroWork, HeroOps, StyleOps, PackOps, PoolOps, LayoutOps
  <2>7. \A w : Fits(Stmt("dropTeam", w, 0)) /\ Stmt("dropTeam", w, 0).op = "dropTeam"
    BY DEF Stmt, Fits, Rare, GiftWork, TeamWork, CountOps, RankOps, HeroWork, HeroOps, StyleOps, PackOps, PoolOps, LayoutOps
  <2>8. Fits(Stmt("newTeam", <<s, g, info>>, 0)) /\ Stmt("newTeam", <<s, g, info>>, 0).op = "newTeam"
    BY <2>1 DEF Stmt, Fits, Rare, GiftWork, TeamWork, CountOps, RankOps, HeroWork, HeroOps, StyleOps, PackOps, PoolOps, LayoutOps
  <2>9. Fine(new) /\ Within(new, W)
    <3>1. \A x : IsList(<<x>>) /\ ToSet(<<x>>) = {x}
      BY Tuples
    <3> QED
      BY <2>8, <3>1 DEF Fine, Within
  <2>10. ASSUME NEW i \in 1..Len(old)
         PROVE IsList(ss[i]) /\ \A x \in ToSet(ss[i]) : Fits(x) /\ x.op \in W
    <3>1. ss[i] = << Stmt("wipePart", <<old[i], "members">>, 0),
                     Stmt("wipePart", <<old[i], "equips">>, 0),
                     Stmt("wipePart", <<old[i], "activity">>, 0),
                     Stmt("dropTeam", old[i], 0) >>
      BY <2>5
    <3>2. IsList(ss[i]) /\ ToSet(ss[i]) = {Stmt("wipePart", <<old[i], "members">>, 0),
                     Stmt("wipePart", <<old[i], "equips">>, 0),
                     Stmt("wipePart", <<old[i], "activity">>, 0),
                     Stmt("dropTeam", old[i], 0)}
      <4> HIDE DEF ss, new, W
      <4> QED
        BY ONLY <3>1, Tuples
    <3> HIDE DEF ss
    <3> QED
      BY <2>6, <2>7, <3>2
  <2>11. ss = [i \in 1..Len(old) |-> ss[i]]
    BY <2>5
  <2> HIDE DEF ss, new, W
  <2>12. Fine(FlattenSeq(ss)) /\ Within(FlattenSeq(ss), W)
    BY <2>5, <2>10, <2>11, FlatAll DEF Fine, Within
  <2>13. Fine(FlattenSeq(ss) \o new) /\ Within(FlattenSeq(ss) \o new, W)
    BY <2>9, <2>12, FineJoin DEF Fine
  <2>14. Onward(c, FlattenSeq(ss) \o new)
    BY <2>1, <2>3 DEF Onward, Proceed
  <2>15. FindsTeam(c)
    BY <2>1, <2>2, <2>13, <2>14 DEF FindsTeam, W
  <2> QED
    BY <2>15 DEF Move
<1>5. CASE WipePart(c) \/ DropTeam(c)
  <2>1. job[c] # <<>> /\ HeadOf(c) \in {"wipePart", "dropTeam"}
    BY <1>5 DEF WipePart, DropTeam, At, HeadOf
  <2>2. Onward(c, <<>>) /\ Same /\ UNCHANGED <<lastId, dearest, balance, withdrawn>>
    BY <1>5, <2>1 DEF WipePart, DropTeam, Onward, Proceed, Same, Unrecorded, owned, stock
  <2>3. ChangesTeam(c)
    BY <1>5, <2>1, <2>2 DEF ChangesTeam
  <2> QED
    BY <2>3 DEF Move
<1>6. CASE InsertPart(c)
  <2>1. job[c] # <<>> /\ HeadOf(c) = "insertPart" /\ UNCHANGED <<owned, lastId, meant>>
    BY <1>6 DEF InsertPart, At, HeadOf
  <2>2. CASE What(c)[1] \notin DOMAIN teams
    <3>1. Fail(c) /\ Kept /\ UNCHANGED <<balance, withdrawn>>
      BY <1>6, <2>1, <2>2, <1>k DEF InsertPart, owned, stock
    <3> QED
      BY <2>1, <3>1, FailMoves
  <2>3. CASE What(c)[1] \in DOMAIN teams
    <3>1. Onward(c, <<>>) /\ Same /\ UNCHANGED <<lastId, dearest, balance, withdrawn>>
      BY <1>6, <2>1, <2>3 DEF InsertPart, Onward, Proceed, Same, Unrecorded, owned, stock
    <3>2. ChangesTeam(c)
      BY <1>6, <2>1, <3>1 DEF ChangesTeam
    <3> QED
      BY <3>2 DEF Move
  <2> QED
    BY <2>2, <2>3
<1>7. CASE NewTeam(c)
  <2>1. job[c] # <<>> /\ HeadOf(c) = "newTeam"
    BY <1>7 DEF NewTeam, At, HeadOf
  <2>2. Same /\ UNCHANGED <<dearest, balance, withdrawn>>
    BY <1>7 DEF NewTeam, InsertTeam, Same, Unrecorded, owned, stock
  <2>3. MakesTeam(c)
    BY <1>7, <2>1, <2>2 DEF MakesTeam
  <2> QED
    BY <2>3 DEF Move
<1>8. CASE ReadOrder(c)
  <2> DEFINE s == What(c)[1]  g == What(c)[2]
             old == InOrder(sorted[s])
             merged == IF g \in DOMAIN sorted[s] THEN old ELSE Append(old, g)
             wipe == << Stmt("wipeOrder", s, 0) >>
             fill == [i \in DOMAIN merged |-> Stmt("insertOrder", <<s, merged[i]>>, i - 1)]
  <2>1. At(c, "readOrder") /\ s \in Snapshot
    BY <1>8, Head2Do DEF ReadOrder
  <2>2. UNCHANGED <<owned, teams, meant, lastId>> /\ Unrecorded /\ Proceed(c, wipe \o fill)
    BY <1>8 DEF ReadOrder, groupVars
  <2>3. IsList(old)
    <3> DEFINE n == Cardinality(DOMAIN sorted[s])
    <3>1. n \in Nat
      BY <2>1, FS_CardinalityType DEF GroupTypes
    <3>2. old = [i \in 1..n |-> old[i]]
      BY DEF InOrder
    <3> HIDE DEF n, old
    <3> QED
      BY <3>1, <3>2, MadeSeq
  <2>4. IsList(merged)
    <3> HIDE DEF old, s, g
    <3>1. old \in Seq(ToSet(old) \cup {g})
      BY <2>3, SeqSub
    <3>2. Append(old, g) \in Seq(ToSet(old) \cup {g})
      <4> DEFINE A == ToSet(old) \cup {g}
      <4>1. g \in A /\ old \in Seq(A)
        BY <3>1
      <4> HIDE DEF A
      <4>2. Append(old, g) \in Seq(A)
        BY <4>1
      <4> QED
        BY <4>2 DEF A
    <3>3. IsList(Append(old, g))
      BY <3>2, SeqMade
    <3> QED
      BY <2>3, <3>3
  <2> HIDE DEF old, merged
  <2>5. Fits(Stmt("wipeOrder", s, 0)) /\ Stmt("wipeOrder", s, 0).op \notin Rare
        /\ Stmt("wipeOrder", s, 0).op \in TeamWork
    <3> HIDE DEF s
    <3> QED
      BY <2>1 DEF Stmt, Fits, Rare, GiftWork, TeamWork, CountOps, RankOps, HeroWork, HeroOps, StyleOps, PackOps, PoolOps, LayoutOps
  <2>6. ASSUME NEW x, NEW n \in Int
        PROVE /\ Fits(Stmt("insertOrder", <<s, x>>, n)) /\ Stmt("insertOrder", <<s, x>>, n).op \notin Rare
              /\ Stmt("insertOrder", <<s, x>>, n).op \in TeamWork
    <3> HIDE DEF s
    <3> QED
      BY <2>1 DEF Stmt, Fits, Rare, GiftWork, TeamWork, CountOps, RankOps, HeroWork, HeroOps, StyleOps, PackOps, PoolOps, LayoutOps
  <2>7. DOMAIN merged = 1..Len(merged) /\ Len(merged) \in Nat
    BY <2>4 DEF IsList
  <2>8. \A i \in DOMAIN merged : fill[i] = Stmt("insertOrder", <<s, merged[i]>>, i - 1) /\ i - 1 \in Int
    <3> HIDE DEF s
    <3> QED
      BY <2>7
  <2>9. fill = [i \in DOMAIN merged |-> fill[i]]
    OBVIOUS
  <2> HIDE DEF fill, s
  <2>10. Plain(fill) /\ Within(fill, TeamWork)
    <3>1. \A i \in DOMAIN merged : Fits(fill[i]) /\ fill[i].op \notin Rare /\ fill[i].op \in TeamWork
      BY <2>6, <2>8
    <3> QED
      BY <2>4, <2>9, <3>1, RowsPlain
  <2>11. Plain(wipe) /\ Within(wipe, TeamWork)
    <3>1. \A x : ToSet(<<x>>) = {x}
      BY Tuples
    <3> QED
      BY <2>5, <3>1, PlainFew DEF Within
  <2> HIDE DEF wipe
  <2>12. Plain(wipe \o fill) /\ Within(wipe \o fill, TeamWork)
    BY <2>10, <2>11, FineJoin DEF Plain, Fine
  <2>13. "readOrder" \in TeamWork \ Rare
    BY DEF TeamWork, Rare
  <2> QED
    BY <2>1, <2>2, <2>12, <2>13, <1>w
<1>9. CASE WipeOrder(c) \/ WipeCommon(c) \/ InsertCommon(c)
  <2>1. \E op \in TeamWork \ Rare : At(c, op)
    BY <1>9 DEF WipeOrder, WipeCommon, InsertCommon, TeamWork, Rare
  <2>2. UNCHANGED <<owned, teams, meant, lastId>> /\ Unrecorded /\ Proceed(c, <<>>)
    BY <1>9 DEF WipeOrder, WipeCommon, InsertCommon
  <2> QED
    BY <2>1, <2>2, <1>w, Nothing2Do
<1>10. CASE InsertOrder(c)
  <2>1. At(c, "insertOrder") /\ UNCHANGED <<owned, teams, meant, lastId>>
    BY <1>10 DEF InsertOrder
  <2>2. CASE Fail(c)
    <3>1. job[c] # <<>> /\ Kept /\ UNCHANGED <<balance, withdrawn>>
      BY <2>1, <1>k DEF At, owned, stock
    <3> QED
      BY <2>2, <3>1, FailMoves
  <2>3. CASE Proceed(c, <<>>) /\ Unrecorded
    <3>1. "insertOrder" \in TeamWork \ Rare
      BY DEF TeamWork, Rare
    <3> QED
      BY <2>1, <2>3, <3>1, <1>w, Nothing2Do
  <2> QED
    BY <1>10, <2>2, <2>3 DEF InsertOrder
<1>11. CASE FindCommon(c)
  <2> DEFINE g == What(c)[1]  info == What(c)[2]
             first == Replace(g, "members", info.members)
             second == Replace(g, "equips", info.equips)
  <2>1. At(c, "findCommon") /\ Whole(info)
    BY <1>11, Head2Do DEF FindCommon
  <2>2. UNCHANGED <<owned, teams, meant, lastId>> /\ Unrecorded
        /\ (Return(c, "failed") \/ Proceed(c, first \o second))
    BY <1>11 DEF FindCommon, groupVars
  <2>3. IsList(info.members) /\ IsList(info.equips)
    BY <2>1 DEF Whole, Part
  <2>4. Plain(first) /\ Within(first, TeamWork) /\ Plain(second) /\ Within(second, TeamWork)
    BY <2>3, ReplaceWithin
  <2> HIDE DEF first, second
  <2>5. Plain(first \o second) /\ Within(first \o second, TeamWork)
    BY <2>4, FineJoin DEF Plain, Fine
  <2>6. "findCommon" \in TeamWork \ Rare
    BY DEF TeamWork, Rare
  <2> QED
    BY <2>1, <2>2, <2>5, <2>6, <1>w, <1>r
<1>12. CASE SetEquip(c)
  <2> DEFINE g == What(c)[1]  index == What(c)[2]  uids == What(c)[3]
             rows == InSlot(index, uids)
             wipe == << Stmt("wipeSlot", <<g, index>>, 0) >>
             fill == [i \in DOMAIN rows |-> Stmt("insertCommon", <<g, "equips", rows[i]>>, 0)]
  <2>1. At(c, "setEquip") /\ IsList(uids)
    BY <1>12, Head2Do DEF SetEquip
  <2>2. UNCHANGED <<owned, teams, meant, lastId>> /\ Unrecorded
        /\ (Return(c, "failed") \/ Proceed(c, wipe \o fill))
    BY <1>12 DEF SetEquip, groupVars
  <2> HIDE DEF uids
  <2>3. IsList(rows)
    <3>1. DOMAIN uids = 1..Len(uids) /\ Len(uids) \in Nat
      BY <2>1 DEF IsList
    <3>2. rows = [i \in 1..Len(uids) |-> rows[i]]
      BY <3>1 DEF InSlot
    <3> HIDE DEF rows
    <3> QED
      BY <3>1, <3>2, MadeSeq
  <2> HIDE DEF rows
  <2>4. \A w : Fits(Stmt("wipeSlot", w, 0)) /\ Stmt("wipeSlot", w, 0).op \notin Rare
    BY DEF Stmt, Fits, Rare, GiftWork, TeamWork, CountOps, RankOps, HeroWork, HeroOps, StyleOps, PackOps, PoolOps, LayoutOps
  <2>5. \A w : Fits(Stmt("insertCommon", w, 0)) /\ Stmt("insertCommon", w, 0).op \notin Rare
    BY DEF Stmt, Fits, Rare, GiftWork, TeamWork, CountOps, RankOps, HeroWork, HeroOps, StyleOps, PackOps, PoolOps, LayoutOps
  <2>6. Plain(wipe)
    BY <2>4, PlainFew
  <2>7. fill = [i \in DOMAIN rows |-> fill[i]]
        /\ \A i \in DOMAIN rows : fill[i] = Stmt("insertCommon", <<g, "equips", rows[i]>>, 0)
    OBVIOUS
  <2> HIDE DEF fill, wipe
  <2>8. Plain(fill)
    <3>1. \A i \in DOMAIN rows : Fits(fill[i]) /\ fill[i].op \notin Rare
      BY <2>5, <2>7
    <3>2. DOMAIN rows = 1..Len(rows) /\ Len(rows) \in Nat
      BY <2>3 DEF IsList
    <3> QED
      BY <2>7, <3>1, <3>2, MadePlain
  <2>9. Plain(wipe \o fill)
    BY <2>6, <2>8, FineJoin
  <2> QED
    BY <2>1, <2>2, <2>9, <1>q
<1>13. CASE WipeSlot(c)
  <2>1. At(c, "wipeSlot") /\ UNCHANGED <<owned, teams, meant, lastId>> /\ Unrecorded /\ Proceed(c, <<>>)
    BY <1>13 DEF WipeSlot
  <2> QED
    BY <2>1, <1>q, Nothing2Do
<1>14. CASE ListTeams(c)
  <2> DEFINE S == {id \in DOMAIN teams : teams[id].snapshot \in What(c)}
             listed == SetToSeq(S)
             reads == [i \in DOMAIN listed |-> Stmt("readTeam", listed[i], 0)]
  <2>1. IsFiniteSet(S)
    <3>1. lastId \in Nat /\ S \subseteq 1..lastId
      BY DEF GroupTypes
    <3>2. lastId \in Int /\ 1 \in Int
      BY <3>1
    <3>3. IsFiniteSet(1..lastId)
      BY <3>2, FS_Interval
    <3> HIDE DEF S
    <3> QED
      BY <3>1, <3>3, FS_Subset
  <2>2. At(c, "listTeams") /\ UNCHANGED <<owned, teams, meant, lastId>> /\ Unrecorded /\ Proceed(c, reads)
    BY <1>14 DEF ListTeams, groupVars
  <2> HIDE DEF S
  <2>3. IsList(listed)
    BY <2>1, Listed
  <2> HIDE DEF listed
  <2>4. reads = [i \in DOMAIN listed |-> reads[i]]
        /\ \A i \in DOMAIN listed : reads[i] = Stmt("readTeam", listed[i], 0)
    OBVIOUS
  <2>5. \A w : Fits(Stmt("readTeam", w, 0)) /\ Stmt("readTeam", w, 0).op \notin Rare
    BY DEF Stmt, Fits, Rare, GiftWork, TeamWork, CountOps, RankOps, HeroWork, HeroOps, StyleOps, PackOps, PoolOps, LayoutOps
  <2>6. DOMAIN listed = 1..Len(listed) /\ Len(listed) \in Nat
    BY <2>3 DEF IsList
  <2> HIDE DEF reads
  <2>7. \A i \in DOMAIN listed : Fits(reads[i]) /\ reads[i].op \notin Rare
    BY <2>4, <2>5
  <2>8. Plain(reads)
    BY <2>4, <2>6, <2>7, MadePlain
  <2> QED
    BY <2>2, <2>8, <1>q
<1>15. CASE ReadTeam(c)
  <2>1. At(c, "readTeam") /\ UNCHANGED <<owned, teams, meant, lastId>> /\ Unrecorded
        /\ (Proceed(c, <<>>) \/ Return(c, "failed"))
    BY <1>15 DEF ReadTeam, groupVars
  <2> QED
    BY <2>1, <1>q, Nothing2Do
<1> QED
  BY <1>1, <1>2, <1>3, <1>4, <1>5, <1>6, <1>7, <1>8, <1>9, <1>10, <1>11, <1>12, <1>13, <1>14, <1>15
     DEF GroupsRequest, GroupsStep

\* --- Every step is a move

Acts(c) ==
    \/ InventoryNext(c) \/ StoreNext(c) \/ GrowthNext(c) \/ ItemsNext(c)
    \/ MailNext(c) \/ SummonNext(c) \/ LayoutNext(c) \/ GroupsNext(c)
    \/ GmNext(c)

LEMMA Actor == Next => \E c \in Conn : Acts(c)
BY DEF Next, Acts

LEMMA ActsMove ==
    ASSUME Types, NEW c \in Conn, Acts(c)
    PROVE Move(c)
<1>t. JobTypes /\ StateTypes /\ OwnedTypes /\ GmTypes /\ GrowthTypes
  BY DEF Types, StateTypes
<1>1. CASE InventoryNext(c)
  BY ONLY <1>t, <1>1, InventoryMoves
<1>2. CASE StoreNext(c)
  BY ONLY <1>t, <1>2, StoreMoves
<1>3. CASE GrowthNext(c)
  BY ONLY <1>t, <1>3, GrowthMoves
<1>4. CASE ItemsNext(c)
  BY ONLY <1>t, <1>4, ItemsMoves
<1>5. CASE MailNext(c)
  BY ONLY <1>t, <1>5, MailMoves
<1>6. CASE SummonNext(c)
  BY ONLY <1>t, <1>6, SummonMoves
<1>7. CASE LayoutNext(c)
  BY ONLY <1>t, <1>7, LayoutMoves
<1>8. CASE GroupsNext(c)
  BY ONLY <1>t, <1>8, GroupsMoves
<1>9. CASE GmNext(c)
  BY ONLY <1>t, <1>9, GmMoves
<1> QED
  BY <1>1, <1>2, <1>3, <1>4, <1>5, <1>6, <1>7, <1>8, <1>9 DEF Acts

-----------------------------------------------------------------------------
(* The jobs keep their types.                                              *)

LEMMA JobSet ==
    ASSUME JobTypes, NEW c \in Conn, NEW s, job' = [job EXCEPT ![c] = s], Fine(s)
    PROVE JobTypes'
<1>1. \A d \in Conn : job'[d] = IF d = c THEN s ELSE job[d]
  BY DEF JobTypes
<1>2. job' = [d \in Conn |-> job'[d]]
  BY DEF JobTypes
<1>3. \A d \in Conn : IsList(job'[d]) /\ \A x \in ToSet(job'[d]) : Fits(x)
  BY <1>1 DEF JobTypes, Fine
<1> QED
  BY <1>2, <1>3 DEF JobTypes

LEMMA OnwardTyped ==
    ASSUME JobTypes, NEW c \in Conn, NEW now, Onward(c, now), Fine(now)
    PROVE JobTypes'
<1>1. Fine(Tail(job[c]))
  BY HeadFits DEF Onward
<1>2. Fine(now \o Tail(job[c]))
  BY <1>1, FineJoin
<1> QED
  BY <1>2, JobSet DEF Onward

LEMMA OneFine == \A x : Fits(x) => Fine(<< x >>)
<1> SUFFICES ASSUME NEW x, Fits(x) PROVE Fine(<< x >>)
  OBVIOUS
<1>1. IsList(<< x >>) /\ ToSet(<< x >>) = {x}
  BY Tuples
<1> QED
  BY <1>1 DEF Fine

LEMMA PurchaseFine ==
    ASSUME NEW s, Purchase(s) PROVE Fine(s)
<1>1. PICK g \in Goods, n \in Quantity : \E u, w, v :
       /\ Plain(u) /\ Plain(w) /\ Plain(v)
       /\ s = << Stmt("limit", g, n) >> \o u \o w \o << Stmt("countBuy", g, n) >> \o v
  BY PlainIsTame DEF Purchase
<1>2. PICK u, w, v :
       /\ Plain(u) /\ Plain(w) /\ Plain(v)
       /\ s = << Stmt("limit", g, n) >> \o u \o w \o << Stmt("countBuy", g, n) >> \o v
  BY <1>1
<1>3. n \in Int
  BY StoreAssumption
<1>4. Fits(Stmt("limit", g, n)) /\ Fits(Stmt("countBuy", g, n))
  BY <1>3 DEF Stmt, Fits, Rare, GiftWork, TeamWork, CountOps, RankOps, HeroWork, HeroOps, StyleOps, PackOps, PoolOps, LayoutOps
<1>5. Fine(<< Stmt("limit", g, n) >>) /\ Fine(<< Stmt("countBuy", g, n) >>)
  BY <1>4, OneFine
<1>6. Fine(u) /\ Fine(w) /\ Fine(v)
  BY <1>2 DEF Plain
<1> DEFINE a == << Stmt("limit", g, n) >>  b == << Stmt("countBuy", g, n) >>
<1> HIDE DEF a, b
<1>7. Fine(a \o u)
  BY <1>5, <1>6, FineJoin DEF a
<1>8. Fine((a \o u) \o w)
  BY <1>7, <1>6, FineJoin
<1>9. Fine(((a \o u) \o w) \o b)
  BY <1>8, <1>5, FineJoin DEF b
<1>10. Fine((((a \o u) \o w) \o b) \o v)
  BY <1>9, <1>6, FineJoin
<1> QED
  BY <1>2, <1>10 DEF a, b

LEMMA SaveFine ==
    ASSUME NEW s, SaveOfTeam(s) PROVE Fine(s)
<1>1. PICK x, y, z : Fits(x) /\ Fits(y) /\ Fits(z) /\ s = <<x, y, z>>
  BY DEF SaveOfTeam
<1>2. IsList(<<x, y, z>>) /\ ToSet(<<x, y, z>>) = {x, y, z}
  BY Tuples
<1> QED
  BY <1>1, <1>2 DEF Fine

\* What NewTeam is to insert for a part.
Rows(id, info, part) == [i \in DOMAIN info[part] |-> Stmt("insertPart", <<id, part, info[part][i]>>, 0)]

LEMMA RowsFine ==
    ASSUME NEW id, NEW info, NEW part \in Part, Whole(info)
    PROVE /\ Fine(Rows(id, info, part)) /\ Len(Rows(id, info, part)) = Len(info[part])
          /\ ToSet(Rows(id, info, part)) =
                {Stmt("insertPart", <<id, part, e>>, 0) : e \in ToSet(info[part])}
<1> DEFINE rows == info[part]  s == [i \in DOMAIN rows |-> Stmt("insertPart", <<id, part, rows[i]>>, 0)]
<1>1. IsList(rows)
  BY DEF Whole
<1> HIDE DEF rows
<1>2. DOMAIN rows = 1..Len(rows) /\ Len(rows) \in Nat
  BY <1>1 DEF IsList
<1>3. \A w : Fits(Stmt("insertPart", w, 0))
  BY DEF Stmt, Fits, Rare, GiftWork, TeamWork, CountOps, RankOps, HeroWork, HeroOps, StyleOps, PackOps, PoolOps, LayoutOps
<1>4. s = [i \in 1..Len(rows) |-> s[i]] /\ DOMAIN s = DOMAIN rows
      /\ \A i \in DOMAIN rows : s[i] = Stmt("insertPart", <<id, part, rows[i]>>, 0)
  BY <1>2
<1> HIDE DEF s
<1>5. IsList(s)
  BY <1>2, <1>4, MadeSeq
<1>6. ToSet(s) = {Stmt("insertPart", <<id, part, e>>, 0) : e \in ToSet(rows)}
  BY <1>4 DEF ToSet
<1>7. Len(s) = Len(rows)
  BY <1>2, <1>4, <1>5 DEF IsList
<1>8. \A x \in ToSet(s) : Fits(x)
  BY <1>3, <1>6
<1>9. Rows(id, info, part) = s
  BY DEF Rows, s, rows
<1> QED
  BY <1>5, <1>6, <1>7, <1>8, <1>9 DEF Fine, rows

LEMMA NewTeamRows ==
    ASSUME NEW c \in Conn, NewTeam(c)
    PROVE /\ job[c] # <<>> /\ HeadOf(c) = "newTeam"
          /\ LET id == lastId + 1  info == What(c)[3]
             IN Onward(c, Rows(id, info, "members") \o Rows(id, info, "equips") \o Rows(id, info, "activity"))
BY DEF NewTeam, InsertTeam, At, HeadOf, Onward, Proceed, Rows

LEMMA NewTeamFine ==
    ASSUME NEW id, NEW info, Whole(info)
    PROVE Fine(Rows(id, info, "members") \o Rows(id, info, "equips") \o Rows(id, info, "activity"))
<1>1. Fine(Rows(id, info, "members")) /\ Fine(Rows(id, info, "equips")) /\ Fine(Rows(id, info, "activity"))
  BY RowsFine DEF Part
<1>2. Fine(Rows(id, info, "members") \o Rows(id, info, "equips"))
  BY <1>1, FineJoin
<1> QED
  BY <1>1, <1>2, FineJoin

LEMMA TameBegins ==
    ASSUME NEW c \in Conn, Begins(c)
    PROVE \E s : /\ job' = [job EXCEPT ![c] = s]
                 /\ \/ Tame(s) \/ Purchase(s) \/ SaveOfTeam(s)
                    \/ \E op \in {"readMail", "listMails"} : s = << Stmt(op, "mail", 0) >>
<1>1. PICK s : /\ job' = [job EXCEPT ![c] = s]
               /\ \/ Plain(s) \/ (Tame(s) /\ Opens(s)) \/ Purchase(s) \/ SaveOfTeam(s)
                  \/ \E op \in {"readMail", "listMails"} : s = << Stmt(op, "mail", 0) >>
  BY DEF Begins
<1> QED
  BY <1>1, PlainIsTame

LEMMA JobsTyped ==
    ASSUME JobTypes, GrowthTypes, LayoutTypes, NEW c \in Conn, Move(c)
    PROVE JobTypes'
<1>0. Fine(<<>>)
  BY Nothing2Do
<1>1. CASE Begins(c)
  <2>1. PICK s : /\ job' = [job EXCEPT ![c] = s]
                 /\ \/ Tame(s) \/ Purchase(s) \/ SaveOfTeam(s)
                    \/ \E op \in {"readMail", "listMails"} : s = << Stmt(op, "mail", 0) >>
    BY <1>1, TameBegins
  <2>2. \A op \in {"readMail", "listMails"} : Fits(Stmt(op, "mail", 0))
    BY DEF Stmt, Fits, Rare, GiftWork, TeamWork, CountOps, RankOps, HeroWork, HeroOps, StyleOps, PackOps, PoolOps, LayoutOps
  <2>3. Fine(s)
    BY <2>1, <2>2, OneFine, PurchaseFine, SaveFine DEF Tame
  <2> QED
    BY <2>1, <2>3, JobSet
<1>2. CASE GoesOn(c)
  <2>1. PICK now : Onward(c, now) /\ Fine(now)
    BY <1>2 DEF GoesOn, Tame
  <2> QED
    BY <2>1, OnwardTyped
<1>3. CASE PutsLast(c)
  <2>1. PICK last : Fine(last) /\ job' = [job EXCEPT ![c] = Tail(job[c]) \o last]
    BY <1>3 DEF PutsLast, Plain
  <2>2. Fine(Tail(job[c]))
    BY <1>3, HeadFits DEF PutsLast
  <2>3. Fine(Tail(job[c]) \o last)
    BY <2>1, <2>2, FineJoin
  <2> QED
    BY <2>1, <2>3, JobSet
<1>4. CASE Stops(c)
  BY <1>0, <1>4, JobSet DEF Stops
<1>5. CASE Decides(c)
  <2>1. Fits(Head(job[c])) /\ HeadOf(c) \in {"take", "pay"}
    BY <1>5, HeadFits DEF Decides, Onward
  <2>2. Amount(c) \in Nat
    BY <2>1 DEF Fits, CountOps, HeadOf, Amount
  <2>3. Fits(Stmt("deduct", What(c), Amount(c)))
    <3> DEFINE w == What(c)  n == Amount(c)
    <3> HIDE DEF w, n
    <3>1. n \in Nat => Fits(Stmt("deduct", w, n))
      BY DEF Stmt, Fits, Rare, GiftWork, TeamWork, CountOps, RankOps, HeroWork, HeroOps, StyleOps, PackOps, PoolOps, LayoutOps
    <3> QED
      BY <2>2, <3>1 DEF w, n
  <2> QED
    BY <1>5, <2>3, OneFine, OnwardTyped DEF Decides
<1>6. CASE FindsMail(c)
  <2>1. PICK now : Onward(c, now) /\ Fine(now)
    BY <1>6 DEF FindsMail
  <2> QED
    BY <2>1, OnwardTyped
<1>7. CASE Onward(c, <<>>)
  BY <1>0, <1>7, OnwardTyped
<1>8. CASE Wears(c)
  <2>1. Fits(Head(job[c])) /\ HeadOf(c) = "wearStyle"
    BY <1>8, HeadFits DEF Wears, Onward
  <2>2. HeroOf(c) \in Hero /\ TemplateOf(c) \in Template /\ Detail(c) \in Style \cup {NoStyle}
    BY <2>1 DEF Fits, LayoutOps, HeadOf, HeroOf, TemplateOf, Detail, What
  <2>3. Fits(On("saveWorn", HeroOf(c), TemplateOf(c), Detail(c)))
    <3> DEFINE h == HeroOf(c)  k == TemplateOf(c)  x == Detail(c)
    <3> HIDE DEF h, k, x
    <3>1. h \in Hero /\ k \in Template /\ x \in Style \cup {NoStyle} => Fits(On("saveWorn", h, k, x))
      BY DEF On, Stmt, Fits, Rare, GiftWork, TeamWork, CountOps, RankOps, HeroWork, HeroOps, StyleOps, PackOps, PoolOps, LayoutOps
    <3> QED
      BY <2>2, <3>1 DEF h, k, x
  <2> QED
    BY <1>8, <2>3, OneFine, OnwardTyped DEF Wears
<1>9. CASE FindsTeam(c)
  <2>1. PICK now : Onward(c, now) /\ Fine(now)
    BY <1>9 DEF FindsTeam
  <2> QED
    BY <2>1, OnwardTyped
<1>10. CASE MakesTeam(c)
  <2>1. NewTeam(c)
    BY <1>10 DEF MakesTeam
  <2>2. Fits(Head(job[c])) /\ HeadOf(c) = "newTeam"
    BY <2>1, NewTeamRows, HeadFits
  <2>3. Whole(What(c)[3])
    BY <2>2 DEF Fits, HeadOf, What
  <2> QED
    BY <2>1, <2>3, NewTeamRows, NewTeamFine, OnwardTyped
<1> QED
  BY <1>1, <1>2, <1>3, <1>4, <1>5, <1>6, <1>7, <1>8, <1>9, <1>10
     DEF Move, Deducts, MarksMail, PassesLimit, Counts, SavesWorn, ChangesTeam

\* --- What is owned and recorded keeps its types

LEMMA Changed ==
    /\ \A S : \A f \in [S -> Nat] : \A w : \A n \in Nat : [f EXCEPT ![w] = @ + n] \in [S -> Nat]
    /\ \A S : \A f \in [S -> Int] : \A w : \A n \in Int : [f EXCEPT ![w] = @ + n] \in [S -> Int]
    /\ \A S : \A f \in [S -> Int] : \A w : \A n \in Int : [f EXCEPT ![w] = @ - n] \in [S -> Int]
<1>1. ASSUME NEW S, NEW w, NEW n \in Nat, NEW f \in [S -> Nat] PROVE [f EXCEPT ![w] = @ + n] \in [S -> Nat]
  <2>1. CASE w \in S
    <3>1. f[w] \in Nat
      BY <2>1
    <3>2. f[w] + n \in Nat
      BY <3>1
    <3> QED
      BY <3>2
  <2>2. CASE w \notin S
    <3>1. [f EXCEPT ![w] = @ + n] = f
      BY <2>2
    <3> QED
      BY <3>1
  <2> QED
    BY <2>1, <2>2
<1>2. ASSUME NEW S, NEW w, NEW n \in Int, NEW f \in [S -> Int]
      PROVE [f EXCEPT ![w] = @ + n] \in [S -> Int] /\ [f EXCEPT ![w] = @ - n] \in [S -> Int]
  <2>1. CASE w \in S
    <3>1. f[w] \in Int
      BY <2>1
    <3>2. f[w] + n \in Int /\ f[w] - n \in Int
      BY <3>1
    <3> QED
      BY <3>2
  <2>2. CASE w \notin S
    <3>1. [f EXCEPT ![w] = @ + n] = f /\ [f EXCEPT ![w] = @ - n] = f
      BY <2>2
    <3> QED
      BY <3>1
  <2> QED
    BY <2>1, <2>2
<1> QED
  BY <1>1, <1>2

LEMMA Answers ==
    ASSUME HistoryTypes, NEW c \in Conn
    PROVE /\ \A now : Proceed(c, now) => outcome' \in [Conn -> Outcome]
          /\ \A how \in Outcome : Return(c, how) => outcome' \in [Conn -> Outcome]
<1>1. "done" \in Outcome
  BY DEF Outcome
<1>2. \A now : Proceed(c, now) => outcome' \in [Conn -> Outcome]
  <2> SUFFICES ASSUME NEW now, Proceed(c, now) PROVE outcome' \in [Conn -> Outcome]
    OBVIOUS
  <2>1. outcome' = [outcome EXCEPT ![c] = IF now \o Tail(job[c]) = <<>> THEN "done" ELSE @]
    BY DEF Proceed
  <2> QED
    BY <1>1, <2>1 DEF HistoryTypes
<1>3. \A how \in Outcome : Return(c, how) => outcome' \in [Conn -> Outcome]
  BY DEF Return, HistoryTypes
<1> QED
  BY <1>2, <1>3

LEMMA Replies ==
    ASSUME HistoryTypes, NEW c \in Conn,
           (\E now : Proceed(c, now)) \/ Return(c, "refused") \/ Return(c, "failed")
    PROVE outcome' \in [Conn -> Outcome]
BY Answers DEF Outcome

\* A statement that is only about other tables.
LEMMA Quietly ==
    ASSUME OwnedTypes, HistoryTypes, NEW c \in Conn, UNCHANGED owned, Unrecorded,
           (\E now : Proceed(c, now)) \/ Return(c, "refused") \/ Return(c, "failed")
    PROVE OwnedTypes' /\ HistoryTypes'
<1>1. outcome' \in [Conn -> Outcome]
  BY Replies
<1> QED
  BY <1>1 DEF OwnedTypes, HistoryTypes, owned, stock, Unrecorded

LEMMA Failing ==
    ASSUME OwnedTypes, HistoryTypes, NEW c \in Conn, UNCHANGED owned, Fail(c)
    PROVE OwnedTypes' /\ HistoryTypes'
<1>1. outcome' \in [Conn -> Outcome]
  BY Answers DEF Fail, Outcome
<1> QED
  BY <1>1 DEF OwnedTypes, HistoryTypes, owned, stock, Fail

\* What a request costs or promises is known only now.
LEMMA Billing ==
    ASSUME OwnedTypes, HistoryTypes, NEW c \in Conn, UNCHANGED owned,
           UNCHANGED <<settled, taken, dearest, overlapped, served, faults>>,
           \E side \in {"price", "product"}, all \in Amounts : bill' = [bill EXCEPT ![c][side] = all],
           (\E now : Proceed(c, now)) \/ outcome' \in [Conn -> Outcome]
    PROVE OwnedTypes' /\ HistoryTypes'
<1>1. outcome' \in [Conn -> Outcome]
  BY Replies
<1>2. bill' \in [Conn -> [price : Amounts, product : Amounts]]
  BY DEF HistoryTypes
<1> QED
  BY <1>1, <1>2 DEF OwnedTypes, HistoryTypes, owned, stock

LEMMA Noted ==
    ASSUME HistoryTypes, NEW c \in Conn, NEW side \in {"price", "product"}, NEW what, NEW n \in Int,
           Note(c, side, what, n)
    PROVE settled' \in [Conn -> [price : Amounts, product : Amounts]]
<1> DEFINE old == settled[c][side]
           new == [old EXCEPT ![what] = @ + n]
           row == [settled[c] EXCEPT ![side] = new]
<1>1. settled[c] \in [price : Amounts, product : Amounts] /\ old \in Amounts
  BY DEF HistoryTypes
<1>2. new \in Amounts
  <2> HIDE DEF old
  <2> QED
    BY <1>1, Changed DEF Amounts
<1>3. settled' = [settled EXCEPT ![c] = row]
  BY DEF Note
<1> HIDE DEF new
<1>4. row \in [price : Amounts, product : Amounts]
  BY <1>1, <1>2
<1> HIDE DEF row
<1> QED
  BY <1>3, <1>4 DEF HistoryTypes

LEMMA BeginTyped ==
    ASSUME OwnedTypes, HistoryTypes, NEW c \in Conn, NEW price \in Amounts, NEW product \in Amounts,
           NEW s, Begin(c, price, product, s)
    PROVE OwnedTypes' /\ HistoryTypes'
<1>1. "running" \in Outcome /\ Nothing \in Amounts
  BY DEF Outcome, Nothing, Amounts
<1>2. OwnedTypes'
  BY DEF Begin, owned, stock, OwnedTypes
<1>3. outcome' \in [Conn -> Outcome]
  BY <1>1 DEF Begin, HistoryTypes
<1>4. bill' \in [Conn -> [price : Amounts, product : Amounts]]
      /\ settled' \in [Conn -> [price : Amounts, product : Amounts]]
  BY <1>1 DEF Begin, HistoryTypes
<1>5. taken' \in [Material -> Nat] /\ dearest' \in Nat /\ served' \in Nat /\ faults' \in Nat
  BY DEF Begin, HistoryTypes
<1>6. overlapped' \in BOOLEAN
  <2>1. overlapped' = (overlapped \/ \E d \in Conn : job[d] # <<>>)
    BY DEF Begin
  <2> QED
    BY <2>1
<1> QED
  BY <1>2, <1>3, <1>4, <1>5, <1>6 DEF HistoryTypes

LEMMA BillTotal == \A b \in Bill : Total(b) \in Amounts
BY SubParcels, TotalTyped

LEMMA NothingTyped == Nothing \in Amounts
BY DEF Nothing, Amounts

\* Amounts can be added.
LEMMA Added ==
    ASSUME HistoryTypes, NEW c \in Conn, NEW all \in Amounts,
           bill' = [bill EXCEPT ![c].product = [x \in Thing |-> @[x] + all[x]]]
    PROVE \E sum \in Amounts : bill' = [bill EXCEPT ![c]["product"] = sum]
<1> DEFINE sum == [x \in Thing |-> bill[c].product[x] + all[x]]
<1>1. bill[c].product \in Amounts
  BY DEF HistoryTypes
<1>2. sum \in Amounts
  BY <1>1 DEF Amounts
<1>3. bill' = [bill EXCEPT ![c]["product"] = sum]
  BY DEF HistoryTypes
<1> HIDE DEF sum
<1> QED
  BY <1>2, <1>3

\* What one statement leaves alone keeps its type.
LEMMA Unmoved ==
    /\ StoreTypes /\ UNCHANGED storeVars => StoreTypes'
    /\ GrowthTypes /\ UNCHANGED growthVars => GrowthTypes'
    /\ ItemTypes /\ UNCHANGED itemVars => ItemTypes'
    /\ MailTypes /\ UNCHANGED mailVars => MailTypes'
    /\ SummonTypes /\ UNCHANGED summonVars => SummonTypes'
    /\ LayoutTypes /\ UNCHANGED layoutVars => LayoutTypes'
    /\ GroupTypes /\ UNCHANGED groupVars => GroupTypes'
    /\ GmTypes /\ UNCHANGED gmVars => GmTypes'
<1>1. StoreTypes /\ UNCHANGED storeVars => StoreTypes'
  BY DEF StoreTypes, storeVars
<1>2. GrowthTypes /\ UNCHANGED growthVars => GrowthTypes'
  BY DEF GrowthTypes, growthVars
<1>3. ItemTypes /\ UNCHANGED itemVars => ItemTypes'
  BY DEF ItemTypes, itemVars
<1>4. MailTypes /\ UNCHANGED mailVars => MailTypes'
  BY DEF MailTypes, mailVars
<1>5. SummonTypes /\ UNCHANGED summonVars => SummonTypes'
  BY DEF SummonTypes, summonVars, tables, rolls
<1>6. LayoutTypes /\ UNCHANGED layoutVars => LayoutTypes'
  BY DEF LayoutTypes, layoutVars
<1>7. GroupTypes /\ UNCHANGED groupVars => GroupTypes'
  BY DEF GroupTypes, groupVars
<1>8. GmTypes /\ UNCHANGED gmVars => GmTypes'
  BY DEF GmTypes, gmVars
<1> QED
  BY <1>1, <1>2, <1>3, <1>4, <1>5, <1>6, <1>7, <1>8

LEMMA InventoryTyped ==
    ASSUME JobTypes, StateTypes, NEW c \in Conn, InventoryStep(c)
    PROVE OwnedTypes' /\ HistoryTypes'
<1>t. OwnedTypes /\ HistoryTypes
  BY DEF StateTypes
<1> USE <1>t
<1>1. CASE Check(c) \/ NextUid(c)
  <2>1. UNCHANGED owned /\ Unrecorded /\ (Return(c, "refused") \/ \E now : Proceed(c, now))
    BY <1>1 DEF Check, NextUid
  <2> QED
    BY <2>1, Quietly
<1>2. ASSUME At(c, "take") \/ At(c, "pay"), Decide(c), UNCHANGED owned PROVE OwnedTypes' /\ HistoryTypes'
  <2>1. Amount(c) \in Nat
    BY <1>2, Head2Do DEF CountOps
  <2>2. outcome' \in [Conn -> Outcome]
    BY <1>2, Replies DEF Decide
  <2>3. dearest' \in Nat
    <3>0. IsFiniteSet({dearest})
      BY FS_Singleton
    <3>3. IsFiniteSet({dearest} \cup {Amount(c)}) /\ {dearest, Amount(c)} = {dearest} \cup {Amount(c)}
      BY <3>0, FS_AddElement
    <3>1. IsFiniteSet({dearest, Amount(c)}) /\ {dearest, Amount(c)} \subseteq Nat
      BY <2>1, <3>3 DEF HistoryTypes
    <3>2. Max({dearest, Amount(c)}) \in {dearest, Amount(c)}
      BY <3>1, MaxIsGreatest
    <3> QED
      BY <1>2, <3>1, <3>2 DEF Decide
  <2> QED
    BY <1>2, <2>2, <2>3 DEF Decide, OwnedTypes, HistoryTypes, owned, stock
<1>3. CASE Take(c)
  <2>1. UNCHANGED owned /\ At(c, "take") /\ (Decide(c) \/ (Unrecorded /\ Proceed(c, <<>>)))
    BY <1>3 DEF Take
  <2> QED
    BY <2>1, <1>2, Quietly
<1>4. CASE Pay(c)
  <2>1. UNCHANGED owned /\ At(c, "pay") /\ (Decide(c) \/ (Unrecorded /\ Return(c, "refused")))
    BY <1>4 DEF Pay
  <2> QED
    BY <2>1, <1>2, Quietly
<1>5. CASE Deduct(c)
  <2>1. Amount(c) \in Nat
    BY <1>5, Head2Do DEF CountOps, Deduct
  <2>2. outcome' \in [Conn -> Outcome]
    BY <1>5, Replies DEF Deduct
  <2>3. settled' \in [Conn -> [price : Amounts, product : Amounts]]
    BY <1>5, <2>1, Noted DEF Deduct
  <2>4. balance' \in [Material -> Int] /\ taken' \in [Material -> Nat]
    <3>1. balance' = [balance EXCEPT ![What(c)] = @ - Amount(c)]
          /\ taken' = [taken EXCEPT ![What(c)] = @ + Amount(c)]
      BY <1>5 DEF Deduct
    <3>2. balance \in [Material -> Int] /\ taken \in [Material -> Nat] /\ Amount(c) \in Int
      BY <2>1 DEF OwnedTypes, HistoryTypes
    <3> QED
      BY <2>1, <3>1, <3>2, Changed
  <2> QED
    BY <1>5, <2>2, <2>3, <2>4 DEF Deduct, OwnedTypes, HistoryTypes
<1>6. CASE Add(c)
  <2>1. Amount(c) \in Nat
    BY <1>6, Head2Do DEF CountOps, Add
  <2>2. outcome' \in [Conn -> Outcome]
    BY <1>6, Replies DEF Add
  <2>3. settled' \in [Conn -> [price : Amounts, product : Amounts]]
    BY <1>6, <2>1, Noted DEF Add
  <2>4. balance' \in [Material -> Int] /\ present' \in [Material -> BOOLEAN]
    <3>1. balance' = [balance EXCEPT ![What(c)] = @ + Amount(c)]
          /\ present' = [present EXCEPT ![What(c)] = TRUE]
      BY <1>6 DEF Add
    <3>2. balance \in [Material -> Int] /\ Amount(c) \in Int
      BY <2>1 DEF OwnedTypes
    <3> QED
      BY <3>1, <3>2, Changed DEF OwnedTypes
  <2> QED
    BY <1>6, <2>2, <2>3, <2>4 DEF Add, OwnedTypes, HistoryTypes
<1>13. CASE Refund(c)
  <2> DEFINE paidBack == IF present[What(c)] THEN Amount(c) ELSE 0
  <2>1. paidBack \in Int /\ 0 - paidBack \in Int
    BY <1>13, Head2Do DEF Refund
  <2>2. balance' = [balance EXCEPT ![What(c)] = @ + paidBack] /\ Note(c, "price", What(c), 0 - paidBack)
    BY <1>13 DEF Refund
  <2> HIDE DEF paidBack
  <2>3. outcome' \in [Conn -> Outcome]
    BY <1>13, Replies DEF Refund
  <2>4. settled' \in [Conn -> [price : Amounts, product : Amounts]]
    BY <2>1, <2>2, Noted
  <2>5. balance' \in [Material -> Int]
    BY <2>1, <2>2, Changed DEF OwnedTypes
  <2> QED
    BY <1>13, <2>3, <2>4, <2>5 DEF Refund, OwnedTypes, HistoryTypes
<1>14. CASE Withdraw(c)
  <2>1. Amount(c) \in Nat /\ 0 - Amount(c) \in Int
    BY <1>14, Head2Do DEF CountOps, Withdraw
  <2>2. outcome' \in [Conn -> Outcome]
    BY <1>14, Replies DEF Withdraw
  <2>3. settled' \in [Conn -> [price : Amounts, product : Amounts]]
    BY <1>14, <2>1, Noted DEF Withdraw
  <2>4. /\ balance' \in [Material -> Int] /\ withdrawn' \in [Material -> Nat]
        /\ present' \in [Material -> BOOLEAN]
    <3>1. /\ balance' = [balance EXCEPT ![What(c)] = @ - Amount(c)]
          /\ withdrawn' = [withdrawn EXCEPT ![What(c)] = @ + Amount(c)]
          /\ present' = [present EXCEPT ![What(c)] = TRUE]
      BY <1>14 DEF Withdraw
    <3>2. balance \in [Material -> Int] /\ withdrawn \in [Material -> Nat] /\ Amount(c) \in Int
      BY <2>1 DEF OwnedTypes
    <3> QED
      BY <2>1, <3>1, <3>2, Changed DEF OwnedTypes
  <2> QED
    BY <1>14, <2>2, <2>3, <2>4 DEF Withdraw, OwnedTypes, HistoryTypes
<1>7. CASE InsertEquip(c)
  <2>1. CASE Amount(c) \in pieces \cup OtherUids
    BY <1>7, <2>1, Failing DEF InsertEquip, owned, stock
  <2>2. CASE Amount(c) \notin pieces \cup OtherUids
    <3>1. Amount(c) \in Nat
      BY <1>7, Head2Do DEF CountOps, InsertEquip
    <3>2. pieces' = pieces \cup {Amount(c)} /\ Proceed(c, <<>>) /\ Note(c, "product", What(c), 1)
      BY <1>7, <2>2 DEF InsertEquip
    <3>3. outcome' \in [Conn -> Outcome]
      BY <3>2, Replies
    <3>4. settled' \in [Conn -> [price : Amounts, product : Amounts]]
      BY <3>2, Noted
    <3>5. pieces' \subseteq Nat /\ IsFiniteSet(pieces')
      BY <3>1, <3>2, FS_AddElement DEF OwnedTypes
    <3> QED
      BY <1>7, <2>2, <3>3, <3>4, <3>5 DEF InsertEquip, OwnedTypes, HistoryTypes, stock
  <2> QED
    BY <2>1, <2>2
<1>8. CASE HasHero(c)
  <2>1. UNCHANGED owned /\ Unrecorded /\ \E now : Proceed(c, now)
    BY <1>8 DEF HasHero
  <2> QED
    BY <2>1, Quietly
<1>9. CASE CreateHero(c)
  <2>1. What(c) \in Hero
    BY <1>9, Head2Do DEF HeroWork, CreateHero
  <2>2. outcome' \in [Conn -> Outcome]
    BY <1>9, Replies DEF CreateHero
  <2>3. settled' \in [Conn -> [price : Amounts, product : Amounts]]
    BY <1>9, Noted DEF CreateHero
  <2> QED
    BY <1>9, <2>1, <2>2, <2>3 DEF CreateHero, OwnedTypes, HistoryTypes, stock
<1>10. CASE AddDuplicate(c)
  <2>2. outcome' \in [Conn -> Outcome]
    BY <1>10, Replies DEF AddDuplicate
  <2>3. settled' \in [Conn -> [price : Amounts, product : Amounts]]
    BY <1>10, Noted DEF AddDuplicate
  <2>4. duplicates' \in [Hero -> Nat]
    <3>1. duplicates' = [duplicates EXCEPT ![What(c)] = @ + 1]
      BY <1>10 DEF AddDuplicate
    <3>2. duplicates \in [Hero -> Nat] /\ 1 \in Nat
      BY DEF OwnedTypes
    <3> QED
      BY <3>1, <3>2, Changed
  <2> QED
    BY <1>10, <2>2, <2>3, <2>4 DEF AddDuplicate, OwnedTypes, HistoryTypes, stock
<1>11. CASE RewardDuplicate(c)
  <2>1. PICK op \in {"pullDupe", "useDupe", "buyDupe"} : At(c, op)
    BY <1>11 DEF RewardDuplicate
  <2>2. What(c) \in Hero
    BY <2>1, Head2Do DEF HeroWork
  <2> DEFINE all == Total(RewardOf(What(c)))
  <2>3. all \in Amounts
    BY <2>2, BillTotal, InventoryAssumption DEF RewardOf
  <2>4. bill' = [bill EXCEPT ![c].product = [x \in Thing |-> @[x] + all[x]]]
    BY <1>11 DEF RewardDuplicate
  <2> HIDE DEF all
  <2>5. \E sum \in Amounts : bill' = [bill EXCEPT ![c]["product"] = sum]
    BY <2>3, <2>4, Added
  <2>6. outcome' \in [Conn -> Outcome]
    <3>1. CASE \E now : Proceed(c, now)
      BY <3>1, Replies
    <3>2. CASE outcome' = [outcome EXCEPT ![c] = IF job'[c] = <<>> THEN "done" ELSE @]
      <4>1. "done" \in Outcome
        BY DEF Outcome
      <4> QED
        BY <3>2, <4>1 DEF HistoryTypes
    <3> QED
      BY <1>11, <3>1, <3>2 DEF RewardDuplicate
  <2>7. UNCHANGED owned /\ UNCHANGED <<settled, taken, dearest, overlapped, served, faults>>
    BY <1>11 DEF RewardDuplicate, owned, stock
  <2> QED
    BY <2>5, <2>6, <2>7, Billing
<1>12. CASE Interrupt(c)
  BY <1>12, Failing DEF Interrupt
<1> QED
  BY <1>1, <1>3, <1>4, <1>5, <1>6, <1>7, <1>8, <1>9, <1>10, <1>11, <1>12, <1>13, <1>14
  DEF InventoryStep

LEMMA MaxOfTwo ==
    \A a, b \in Nat : Max({a, b}) \in {a, b} /\ a <= Max({a, b}) /\ b <= Max({a, b})
<1> SUFFICES ASSUME NEW a \in Nat, NEW b \in Nat
             PROVE Max({a, b}) \in {a, b} /\ a <= Max({a, b}) /\ b <= Max({a, b})
  OBVIOUS
<1>1. IsFiniteSet({a} \cup {b}) /\ {a, b} = {a} \cup {b}
  BY FS_Singleton, FS_AddElement
<1>2. IsFiniteSet({a, b}) /\ {a, b} \subseteq Int /\ {a, b} # {}
  BY <1>1
<1> QED
  BY <1>2, MaxIsGreatest

LEMMA StoreTyped ==
    ASSUME JobTypes, StateTypes, NEW c \in Conn, StoreNext(c)
    PROVE StateTypes'
<1>t. OwnedTypes /\ HistoryTypes /\ StoreTypes
  BY DEF StateTypes
<1>u. GrowthTypes' /\ ItemTypes' /\ MailTypes' /\ SummonTypes' /\ LayoutTypes' /\ GroupTypes' /\ GmTypes'
  BY Unmoved DEF StoreNext, StateTypes, layOut
<1> USE <1>t
<1>g. OwnedTypes' /\ HistoryTypes' /\ StoreTypes' => StateTypes'
  BY <1>u DEF StateTypes
<1>q. ASSUME UNCHANGED owned, Unrecorded, (\E now : Proceed(c, now)) \/ Return(c, "refused"), StoreTypes'
      PROVE StateTypes'
  BY <1>g, <1>q, Quietly
<1>n. 1 \in Nat
  OBVIOUS
<1>1. ASSUME NEW g \in Goods, NEW n \in Quantity, BuyGoods(c, g, n) PROVE StateTypes'
  <2>1. n \in Int /\ Cost[g] \in Parcels /\ Product[g] \in Parcels
    BY SubParcels, StoreAssumption
  <2>2. Total(Times(Cost[g], n)) \in Amounts /\ Total(Product[g]) \in Amounts
    BY <2>1, SubParcels, TotalTyped
  <2>3. \A x \in Thing : Total(Product[g])[x] \in Int /\ n * Total(Product[g])[x] \in Int
    <3>1. \A k \in Int : n * k \in Int
      BY <2>1
    <3> QED
      BY <2>2, <3>1 DEF Amounts
  <2>4. Promise(Product[g], n) \in Amounts
    BY <2>3 DEF Promise, Amounts
  <2>5. \E s : Begin(c, Total(Times(Cost[g], n)), Promise(Product[g], n), s)
    BY <1>1 DEF BuyGoods
  <2>6. OwnedTypes' /\ HistoryTypes'
    BY <2>2, <2>4, <2>5, BeginTyped
  <2> QED
    BY <1>1, <1>g, <2>6, Unmoved DEF BuyGoods
<1>2. ASSUME NEW o \in Pack, NewOrder(c, o) PROVE StateTypes'
  <2>1. Total(PackItems[o]) \in Amounts
    BY BillTotal, StoreAssumption
  <2>2. \E s : Begin(c, Nothing, Total(PackItems[o]), s)
    BY <1>2 DEF NewOrder
  <2>3. OwnedTypes' /\ HistoryTypes'
    BY <2>1, <2>2, NothingTyped, BeginTyped
  <2> QED
    BY <1>2, <1>g, <2>3, Unmoved DEF NewOrder
<1>3. CASE CheckLimit(c) \/ ReadCard(c) \/ ReadCharge(c) \/ ReadStats(c)
  <2>1. UNCHANGED owned /\ Unrecorded /\ UNCHANGED storeVars
        /\ ((\E now : Proceed(c, now)) \/ Return(c, "refused"))
    BY <1>3 DEF CheckLimit, ReadCard, ReadCharge, ReadStats
  <2> QED
    BY <2>1, <1>q, Unmoved
<1>4. CASE CountBuy(c)
  <2>1. bought' \in [Goods -> Int]
    <3>1. Amount(c) \in Int
      BY <1>4, Head2Do DEF CountBuy
    <3>2. bought' = [bought EXCEPT ![What(c)] = @ + Amount(c)]
      BY <1>4 DEF CountBuy
    <3> QED
      BY <3>1, <3>2, Changed DEF StoreTypes
  <2>2. StoreTypes'
    BY <1>4, <2>1 DEF CountBuy, StoreTypes
  <2> QED
    BY <1>4, <2>2, <1>q DEF CountBuy
<1>5. CASE SaveCard(c)
  <2>1. Amount(c) \in Nat /\ What(c) \in Pack
    BY <1>5, Head2Do DEF CountOps, PackOps, SaveCard
  <2>2. cardUntil[What(c)] \in Nat
    BY <2>1 DEF StoreTypes
  <2>3. Max({cardUntil[What(c)], Amount(c)}) \in Nat
    BY <2>1, <2>2, MaxOfTwo
  <2>4. cardUntil' = [cardUntil EXCEPT ![What(c)] =
                        IF Amount(c) = CardDays[What(c)] THEN Max({cardUntil[What(c)], Amount(c)}) ELSE Amount(c)]
    BY <1>5 DEF SaveCard
  <2>5. cardUntil' \in [Pack -> Nat]
    BY <2>1, <2>3, <2>4 DEF StoreTypes
  <2>6. StoreTypes'
    BY <1>5, <2>5 DEF SaveCard, StoreTypes
  <2> QED
    BY <1>5, <2>6, <1>q DEF SaveCard
<1>6. CASE SaveCharge(c)
  <2>1. Amount(c) \in Nat
    BY <1>6, Head2Do DEF CountOps, SaveCharge
  <2>2. StoreTypes'
    BY <1>6, <2>1 DEF SaveCharge, StoreTypes
  <2> QED
    BY <1>6, <2>2, <1>q DEF SaveCharge
<1>7. CASE SaveStats(c)
  <2>1. Amount(c) \in Nat
    BY <1>7, Head2Do DEF CountOps, SaveStats
  <2>2. orders' \in [Pack -> Nat]
    <3>1. orders' = [orders EXCEPT ![What(c)] = @ + 1]
      BY <1>7 DEF SaveStats
    <3> QED
      BY <1>n, <3>1, Changed DEF StoreTypes
  <2>3. StoreTypes'
    BY <1>7, <2>1, <2>2 DEF SaveStats, StoreTypes
  <2> QED
    BY <1>7, <2>3, <1>q DEF SaveStats
<1> QED
  BY <1>1, <1>2, <1>3, <1>4, <1>5, <1>6, <1>7 DEF StoreNext, StoreRequest, StoreStep

LEMMA MailTyped ==
    ASSUME JobTypes, StateTypes, NEW c \in Conn, MailNext(c)
    PROVE StateTypes'
<1>t. OwnedTypes /\ HistoryTypes /\ MailTypes
  BY DEF StateTypes
<1>u. StoreTypes' /\ GrowthTypes' /\ ItemTypes' /\ SummonTypes' /\ LayoutTypes' /\ GroupTypes' /\ GmTypes'
  BY Unmoved DEF MailNext, StateTypes, layOut
<1> USE <1>t
<1>g. OwnedTypes' /\ HistoryTypes' /\ MailTypes' => StateTypes'
  BY <1>u DEF StateTypes
<1>q. ASSUME UNCHANGED owned, Unrecorded, (\E now : Proceed(c, now)) \/ Return(c, "refused"), MailTypes'
      PROVE StateTypes'
  BY <1>g, <1>q, Quietly
<1>1. ASSUME NEW op, AskMail(c, op) PROVE StateTypes'
  <2>1. Total(Attachment) \in Amounts
    BY BillTotal, MailAssumption
  <2>2. \E s : Begin(c, Nothing, Total(Attachment), s)
    BY <1>1 DEF AskMail
  <2>3. OwnedTypes' /\ HistoryTypes'
    BY <2>1, <2>2, NothingTyped, BeginTyped
  <2> QED
    BY <1>1, <1>g, <2>3, Unmoved DEF AskMail
<1>2. CASE FindMail(c)
  <2>1. UNCHANGED owned /\ Unrecorded /\ ((\E now : Proceed(c, now)) \/ Return(c, "refused"))
        /\ (UNCHANGED mailVars \/ (deliveries' = deliveries + 1 /\ UNCHANGED <<claimed, claims>>))
    BY <1>2 DEF FindMail
  <2>2. MailTypes'
    BY <2>1, Unmoved DEF MailTypes
  <2> QED
    BY <2>1, <2>2, <1>q
<1>3. CASE MarkMail(c)
  <2>2. MailTypes'
    BY <1>3 DEF MarkMail, MailTypes
  <2> QED
    BY <1>3, <2>2, <1>q DEF MarkMail
<1>4. CASE LogMail(c)
  <2>2. MailTypes'
    BY <1>4 DEF LogMail, MailTypes
  <2> QED
    BY <1>4, <2>2, <1>q DEF LogMail
<1> QED
  BY <1>1, <1>2, <1>3, <1>4 DEF MailNext, MailRequest, MailStep

LEMMA GmTyped ==
    ASSUME JobTypes, StateTypes, NEW c \in Conn, GmNext(c)
    PROVE StateTypes'
<1>t. OwnedTypes /\ HistoryTypes /\ GmTypes
  BY DEF StateTypes
<1>u. StoreTypes' /\ GrowthTypes' /\ ItemTypes' /\ MailTypes' /\ SummonTypes' /\ LayoutTypes' /\ GroupTypes'
  BY Unmoved DEF GmNext, StateTypes, layOut
<1> USE <1>t
<1>g. OwnedTypes' /\ HistoryTypes' /\ GmTypes' => StateTypes'
  BY <1>u DEF StateTypes
<1>b. ASSUME NEW x \in Thing, NEW n \in Int PROVE Total(<< <<x, n>> >>) \in Amounts
  <2>1. << <<x, n>> >> \in Parcels
    BY DEF Parcels
  <2> QED
    BY <2>1, TotalTyped
<1>1. ASSUME NEW g \in Gifts, Give(c, g[1], g[2]) PROVE StateTypes'
  <2>1. g[1] \in Thing /\ g[2] \in Int
    BY <1>1, GmAssumption DEF Give
  <2>2. \E s : Begin(c, Nothing, Total(<< <<g[1], g[2]>> >>), s)
    BY <1>1 DEF Give
  <2>3. OwnedTypes' /\ HistoryTypes'
    BY <2>1, <2>2, <1>b, NothingTyped, BeginTyped
  <2> QED
    BY <1>1, <1>g, <2>3, Unmoved DEF Give
<1>2. ASSUME NEW level, SetLevel(c, level) PROVE StateTypes'
  <2>2. \E s : Begin(c, Nothing, Nothing, s)
    BY <1>2 DEF SetLevel
  <2>3. OwnedTypes' /\ HistoryTypes'
    BY <2>2, NothingTyped, BeginTyped
  <2> QED
    BY <1>2, <1>g, <2>3, Unmoved DEF SetLevel
<1>3. CASE Usage(c)
  <2>1. OwnedTypes' /\ HistoryTypes'
    BY <1>3, Quietly DEF Usage, owned, stock
  <2> QED
    BY <1>3, <2>1, <1>g, Unmoved DEF Usage
<1>4. CASE SaveLevelArg(c)
  <2>1. OwnedTypes' /\ HistoryTypes'
    BY <1>4, Quietly DEF SaveLevelArg, owned, stock
  <2>2. What(c) \in 1..MaxLevel
    BY <1>4, Head2Do DEF SaveLevelArg
  <2>3. GmTypes'
    BY <1>4, <2>2 DEF SaveLevelArg, GmTypes
  <2> QED
    BY <2>1, <2>3, <1>g
<1> QED
  BY <1>1, <1>2, <1>3, <1>4 DEF GmNext, GmRequest, GmStep

LEMMA Quoted ==
    ASSUME OwnedTypes, HistoryTypes, NEW c \in Conn, UNCHANGED owned, NEW parcels \in Parcels,
           Quote(c, parcels), \E now : Proceed(c, now)
    PROVE OwnedTypes' /\ HistoryTypes'
<1> DEFINE all == Total(parcels)
<1>1. all \in Amounts
  BY TotalTyped
<1>2. bill' = [bill EXCEPT ![c]["price"] = all]
  BY DEF Quote
<1> HIDE DEF all
<1>3. \E side \in {"price", "product"}, x \in Amounts : bill' = [bill EXCEPT ![c][side] = x]
  BY <1>1, <1>2
<1>4. UNCHANGED <<settled, taken, dearest, overlapped, served, faults>>
  BY DEF Quote
<1> QED
  BY <1>3, <1>4, Billing

\* One column of a hero.
LEMMA GrownSet ==
    ASSUME GrowthTypes, NEW h \in Hero
    PROVE /\ \A n \in Nat \ {0} : [grown EXCEPT ![h]["level"] = n] \in [Hero -> Grown]
          /\ \A n \in Nat : [grown EXCEPT ![h]["talent"] = n] \in [Hero -> Grown]
          /\ \A n \in Skill : [grown EXCEPT ![h]["skill"] = n] \in [Hero -> Grown]
          /\ \A n, l \in Nat \ {0} : [grown EXCEPT ![h].rank = n, ![h].level = l] \in [Hero -> Grown]
<1>1. grown[h] \in Grown /\ grown \in [Hero -> Grown]
  BY DEF GrowthTypes
<1>2. \A n \in Nat \ {0} : [grown EXCEPT ![h]["level"] = n] \in [Hero -> Grown]
  <2> TAKE n \in Nat \ {0}
  <2>1. [grown[h] EXCEPT !["level"] = n] \in Grown
    BY <1>1 DEF Grown
  <2> QED
    BY <1>1, <2>1
<1>3. \A n \in Nat : [grown EXCEPT ![h]["talent"] = n] \in [Hero -> Grown]
  <2> TAKE n \in Nat
  <2>1. [grown[h] EXCEPT !["talent"] = n] \in Grown
    BY <1>1 DEF Grown
  <2> QED
    BY <1>1, <2>1
<1>4. \A n \in Skill : [grown EXCEPT ![h]["skill"] = n] \in [Hero -> Grown]
  <2> TAKE n \in Skill
  <2>1. [grown[h] EXCEPT !["skill"] = n] \in Grown
    BY <1>1 DEF Grown
  <2> QED
    BY <1>1, <2>1
<1>5. \A n, l \in Nat \ {0} : [grown EXCEPT ![h].rank = n, ![h].level = l] \in [Hero -> Grown]
  <2> TAKE n, l \in Nat \ {0}
  <2>1. [[grown[h] EXCEPT !.rank = n] EXCEPT !.level = l] \in Grown
    BY <1>1 DEF Grown
  <2>2. [grown EXCEPT ![h].rank = n, ![h].level = l]
        = [grown EXCEPT ![h] = [[grown[h] EXCEPT !.rank = n] EXCEPT !.level = l]]
    BY <1>1
  <2> QED
    BY <1>1, <2>1, <2>2
<1> QED
  BY <1>2, <1>3, <1>4, <1>5

LEMMA GrowthTyped ==
    ASSUME JobTypes, StateTypes, NEW c \in Conn, GrowthNext(c)
    PROVE StateTypes'
<1>t. OwnedTypes /\ HistoryTypes /\ GrowthTypes
  BY DEF StateTypes
<1>u. StoreTypes' /\ ItemTypes' /\ MailTypes' /\ SummonTypes' /\ LayoutTypes' /\ GroupTypes' /\ GmTypes'
  BY Unmoved DEF GrowthNext, StateTypes, layOut
<1> USE <1>t
<1>g. OwnedTypes' /\ HistoryTypes' /\ GrowthTypes' => StateTypes'
  BY <1>u DEF StateTypes
<1>q. ASSUME UNCHANGED owned, Unrecorded, (\E now : Proceed(c, now)) \/ Return(c, "refused"), GrowthTypes'
      PROVE StateTypes'
  BY <1>g, <1>q, Quietly
<1>d. ASSUME UNCHANGED owned, UNCHANGED growthVars, Decline(c) PROVE StateTypes'
  BY <1>d, <1>q, Unmoved DEF Decline
<1>p. ASSUME UNCHANGED owned, UNCHANGED growthVars, NEW parcels \in Parcels, Quote(c, parcels),
             \E now : Proceed(c, now)
      PROVE StateTypes'
  BY <1>g, <1>p, Quoted, Unmoved
<1>b. \A x \in Thing : \A n \in Int : << <<x, n>> >> \in Parcels
  BY DEF Parcels
<1>1. ASSUME NEW op, NEW what, NEW n, Ask(c, op, what, n) PROVE StateTypes'
  <2>2. \E s : Begin(c, Nothing, Nothing, s)
    BY <1>1 DEF Ask
  <2>3. OwnedTypes' /\ HistoryTypes'
    BY <2>2, NothingTyped, BeginTyped
  <2> QED
    BY <1>1, <1>g, <2>3, Unmoved DEF Ask
<1>2. CASE LevelUp(c)
  <2>1. What(c) \in Hero
    BY <1>2, Head2Do DEF HeroWork, LevelUp
  <2>2. grown[What(c)].level \in Nat
    BY <2>1 DEF GrowthTypes, Grown
  <2>3. \/ Decline(c)
        \/ /\ Amount(c) \in DOMAIN LevelCost[What(c)]
           /\ \E parcels \in ByCurrency(What(c), grown[What(c)].level, Amount(c)) :
                 Quote(c, parcels) /\ \E now : Proceed(c, now)
    BY <1>2 DEF LevelUp
  <2>4. UNCHANGED owned /\ UNCHANGED growthVars
    BY <1>2 DEF LevelUp, owned, stock, growthVars
  <2> QED
    BY <2>1, <2>2, <2>3, <2>4, <1>d, <1>p, CurrencyParcels
<1>3. CASE SaveLevel(c)
  <2>1. What(c) \in Hero /\ Amount(c) \in Nat \ {0}
    BY <1>3, Head2Do DEF HeroWork, RankOps, SaveLevel
  <2>2. Save(c, "level")
    BY <1>3 DEF SaveLevel
  <2>3. GrowthTypes'
    BY <2>1, <2>2, GrownSet DEF Save, GrowthTypes
  <2> QED
    BY <2>2, <2>3, <1>q DEF Save
<1>4. CASE RankUp(c)
  <2>1. What(c) \in Hero
    BY <1>4, Head2Do DEF HeroWork, RankUp
  <2> DEFINE target == grown[What(c)].rank + 1
  <2>2. \/ Decline(c)
        \/ /\ target \in DOMAIN RankCost[What(c)]
           /\ Quote(c, RankCost[What(c)][target]) /\ \E now : Proceed(c, now)
    BY <1>4 DEF RankUp
  <2> HIDE DEF target
  <2>3. target \in DOMAIN RankCost[What(c)] => RankCost[What(c)][target] \in Parcels
    BY <2>1, SubParcels, GrowthAssumption
  <2>4. UNCHANGED owned /\ UNCHANGED growthVars
    BY <1>4 DEF RankUp, owned, stock, growthVars
  <2> QED
    BY <2>2, <2>3, <2>4, <1>d, <1>p
<1>5. CASE SaveRank(c)
  <2>1. What(c) \in Hero /\ Amount(c) \in Nat \ {0} /\ 1 \in Nat \ {0}
    BY <1>5, Head2Do DEF HeroWork, RankOps, SaveRank
  <2>2. grown' = [grown EXCEPT ![What(c)].rank = Amount(c), ![What(c)].level = 1]
    BY <1>5 DEF SaveRank
  <2>3. grown' \in [Hero -> Grown]
    BY <2>1, <2>2, GrownSet
  <2>4. GrowthTypes'
    BY <1>5, <2>3 DEF SaveRank, GrowthTypes
  <2> QED
    BY <1>5, <2>4, <1>q DEF SaveRank
<1>6. CASE HasSkin(c) \/ ReadSkill(c)
  <2>1. UNCHANGED owned /\ Unrecorded /\ UNCHANGED growthVars /\ \E now : Proceed(c, now)
    BY <1>6 DEF HasSkin, ReadSkill
  <2> QED
    BY <2>1, <1>q, Unmoved
<1>7. CASE SaveSkin(c)
  <2>1. CASE Fail(c) /\ UNCHANGED skin
    <3>1. UNCHANGED owned /\ UNCHANGED growthVars
      BY <1>7, <2>1 DEF SaveSkin, growthVars
    <3> QED
      BY <2>1, <3>1, <1>g, Failing, Unmoved
  <2>2. CASE /\ Proceed(c, <<>>) /\ Unrecorded
             /\ skin' = [skin EXCEPT ![What(c)] = Amount(c)]
    <3>1. Amount(c) \in 0..3
      BY <1>7, Head2Do DEF SaveSkin
    <3>2. skin' \in [Hero -> 0..3]
      BY <2>2, <3>1 DEF GrowthTypes
    <3>3. GrowthTypes'
      BY <1>7, <3>2 DEF SaveSkin, GrowthTypes
    <3> QED
      BY <1>7, <2>2, <3>3, <1>q DEF SaveSkin
  <2> QED
    BY <1>7, <2>1, <2>2 DEF SaveSkin
<1>8. CASE UpgradeSkill(c)
  <2>1. PICK op \in {"upgradeSkill", "upgradeOther"} : At(c, op)
    BY <1>8 DEF UpgradeSkill
  <2>2. What(c) \in Hero /\ Amount(c) \in Int
    BY <2>1, Head2Do DEF HeroWork
  <2>3. SkillItem[What(c)] \in Thing
    BY <2>2, GrowthAssumption DEF Thing
  <2>4. << <<SkillItem[What(c)], Amount(c)>> >> \in Parcels
    BY <2>2, <2>3, <1>b
  <2>5. Quote(c, << <<SkillItem[What(c)], Amount(c)>> >>) /\ UNCHANGED owned /\ UNCHANGED growthVars
        /\ \E now : Proceed(c, now)
    BY <1>8 DEF UpgradeSkill, owned, stock, growthVars
  <2> QED
    BY <2>4, <2>5, <1>p
<1>9. CASE UpgradeSkillDeclined(c)
  BY <1>9, <1>d DEF UpgradeSkillDeclined, owned, stock, growthVars
<1>10. CASE SaveSkill(c)
  <2>1. At(c, "saveSkill")
    BY <1>10 DEF SaveSkill
  <2>2. What(c) \in Hero /\ Amount(c) \in Skill
    BY <2>1, Head2Do DEF HeroWork
  <2>3. Save(c, "skill")
    BY <1>10 DEF SaveSkill
  <2>4. GrowthTypes'
    BY <2>2, <2>3, GrownSet DEF Save, GrowthTypes
  <2> QED
    BY <2>3, <2>4, <1>q DEF Save
<1>11. CASE TalentUp(c)
  <2>1. What(c) \in Hero
    BY <1>11, Head2Do DEF HeroWork, TalentUp
  <2> DEFINE new == grown[What(c)].talent + 1
  <2>2. \/ Decline(c)
        \/ /\ new \in DOMAIN TalentCost[What(c)]
           /\ Quote(c, OfKind(TalentCost[What(c)][new], "item")) /\ \E now : Proceed(c, now)
    BY <1>11 DEF TalentUp
  <2> HIDE DEF new
  <2>3. new \in DOMAIN TalentCost[What(c)] => OfKind(TalentCost[What(c)][new], "item") \in Parcels
    BY <2>1, SubParcels, GrowthAssumption
  <2>4. UNCHANGED owned /\ UNCHANGED growthVars
    BY <1>11 DEF TalentUp, owned, stock, growthVars
  <2> QED
    BY <2>2, <2>3, <2>4, <1>d, <1>p
<1>12. CASE SaveTalent(c)
  <2>1. What(c) \in Hero /\ Amount(c) \in Nat
    BY <1>12, Head2Do DEF HeroWork, CountOps, SaveTalent
  <2>2. Save(c, "talent")
    BY <1>12 DEF SaveTalent
  <2>3. GrowthTypes'
    BY <2>1, <2>2, GrownSet DEF Save, GrowthTypes
  <2> QED
    BY <2>2, <2>3, <1>q DEF Save
<1>13. CASE UnlockStyle(c)
  <2>1. What(c)[2] \in Style
    BY <1>13, Head2Do DEF StyleOps, UnlockStyle
  <2>2. StyleCost[What(c)[2]] \in Parcels
    BY <2>1, SubParcels, GrowthAssumption
  <2>3. Decline(c) \/ (Quote(c, StyleCost[What(c)[2]]) /\ \E now : Proceed(c, now))
    BY <1>13 DEF UnlockStyle
  <2>4. UNCHANGED owned /\ UNCHANGED growthVars
    BY <1>13 DEF UnlockStyle, owned, stock, growthVars
  <2> QED
    BY <2>2, <2>3, <2>4, <1>d, <1>p
<1>14. CASE ReadBits(c)
  <2>1. What(c)[1] \in Hero
    BY <1>14, Head2Do DEF StyleOps, ReadBits
  <2>2. bits[What(c)[1]] \in SUBSET Style
    BY <2>1 DEF GrowthTypes
  <2>3. bitsRead' \in [Conn -> SUBSET Style]
    BY <1>14, <2>2 DEF ReadBits, GrowthTypes
  <2>4. GrowthTypes'
    BY <1>14, <2>3 DEF ReadBits, GrowthTypes
  <2> QED
    BY <1>14, <2>4, <1>q DEF ReadBits
<1>15. CASE InsertStyle(c)
  <2>1. CASE Fail(c) /\ UNCHANGED styles
    <3>1. UNCHANGED owned /\ UNCHANGED growthVars
      BY <1>15, <2>1 DEF InsertStyle, growthVars
    <3> QED
      BY <2>1, <3>1, <1>g, Failing, Unmoved
  <2>2. CASE /\ Proceed(c, <<>>) /\ Unrecorded
             /\ styles' = [styles EXCEPT ![What(c)[1]] = @ \cup {What(c)[2]}]
    <3>1. What(c)[1] \in Hero /\ What(c)[2] \in Style
      BY <1>15, Head2Do DEF StyleOps, InsertStyle
    <3>2. styles' \in [Hero -> SUBSET Style]
      BY <2>2, <3>1 DEF GrowthTypes
    <3>3. GrowthTypes'
      BY <1>15, <3>2 DEF InsertStyle, GrowthTypes
    <3> QED
      BY <1>15, <2>2, <3>3, <1>q DEF InsertStyle
  <2> QED
    BY <1>15, <2>1, <2>2 DEF InsertStyle
<1>16. CASE SaveBits(c)
  <2>1. What(c)[2] \in Style
    BY <1>16, Head2Do DEF StyleOps, SaveBits
  <2>2. bitsRead[c] \cup {What(c)[2]} \in SUBSET Style
    BY <2>1 DEF GrowthTypes
  <2>3. bits' \in [Hero -> SUBSET Style] /\ bitsRead' \in [Conn -> SUBSET Style]
    BY <1>16, <2>2 DEF SaveBits, GrowthTypes
  <2>4. GrowthTypes'
    BY <1>16, <2>3 DEF SaveBits, GrowthTypes
  <2> QED
    BY <1>16, <2>4, <1>q DEF SaveBits
<1>r. CASE GrowthRequest(c)
  BY <1>r, <1>1 DEF GrowthRequest
<1>s. CASE GrowthStep(c)
  BY <1>s, <1>2, <1>3, <1>4, <1>5, <1>6, <1>7, <1>8, <1>9, <1>10, <1>11, <1>12, <1>13, <1>14, <1>15, <1>16
     DEF GrowthStep
<1> QED
  BY <1>r, <1>s DEF GrowthNext

LEMMA ItemsTyped ==
    ASSUME JobTypes, StateTypes, NEW c \in Conn, ItemsNext(c)
    PROVE StateTypes'
<1>t. OwnedTypes /\ HistoryTypes /\ GrowthTypes /\ ItemTypes
  BY DEF StateTypes
<1>u. StoreTypes' /\ MailTypes' /\ SummonTypes' /\ LayoutTypes' /\ GroupTypes' /\ GmTypes'
  BY Unmoved DEF ItemsNext, StateTypes, layOut
<1> USE <1>t
<1>g. OwnedTypes' /\ HistoryTypes' /\ GrowthTypes' /\ ItemTypes' => StateTypes'
  BY <1>u DEF StateTypes
<1>k. UNCHANGED <<growthVars, itemVars>> => GrowthTypes' /\ ItemTypes'
  BY Unmoved
<1>v. UNCHANGED growthVars => GrowthTypes'
  BY Unmoved
<1>q. ASSUME UNCHANGED owned, Unrecorded, (\E now : Proceed(c, now)) \/ Return(c, "refused"),
             GrowthTypes', ItemTypes'
      PROVE StateTypes'
  BY <1>g, <1>q, Quietly
<1>1. ASSUME NEW entries \in Baskets, UseItem(c, entries) PROVE StateTypes'
  <2> DEFINE cost == [i \in DOMAIN entries |-> <<entries[i][1], entries[i][2]>>]
  <2>1. entries \in Seq(Consumable \X Int \X Nat)
    BY ItemsAssumption
  <2>2. DOMAIN entries = 1..Len(entries) /\ Len(entries) \in Nat
        /\ \A i \in DOMAIN entries : entries[i] \in Consumable \X Int \X Nat
    BY <2>1
  <2>3. \A i \in DOMAIN entries : <<entries[i][1], entries[i][2]>> \in Thing \X Int
    BY <2>2, ItemsAssumption DEF Thing
  <2>4. cost \in [1..Len(entries) -> Thing \X Int]
    BY <2>2, <2>3
  <2>5. \A n \in Nat : \A f \in [1..n -> Thing \X Int] : f \in Seq(Thing \X Int)
    OBVIOUS
  <2>6. Total(cost) \in Amounts
    <3>1. cost \in Parcels
      BY <2>2, <2>4, <2>5 DEF Parcels
    <3> QED
      BY <3>1, TotalTyped
  <2>7. \E s : Begin(c, Total(cost), Nothing, s)
    BY <1>1 DEF UseItem
  <2> HIDE DEF cost
  <2>8. OwnedTypes' /\ HistoryTypes'
    BY <2>6, <2>7, NothingTyped, BeginTyped
  <2> QED
    BY <1>1, <1>g, <1>k, <2>8 DEF UseItem
<1>2. ASSUME NEW r \in InsightRow, NEW h \in Hero, UseInsight(c, r, h) PROVE StateTypes'
  <2>2. \E s : Begin(c, Nothing, Nothing, s)
    BY <1>2 DEF UseInsight
  <2>3. OwnedTypes' /\ HistoryTypes'
    BY <2>2, NothingTyped, BeginTyped
  <2> QED
    BY <1>2, <1>g, <1>k, <2>3 DEF UseInsight
<1>3. CASE AutoUse(c)
  <2>2. \E s : Begin(c, Nothing, Nothing, s)
    BY <1>3 DEF AutoUse
  <2>3. OwnedTypes' /\ HistoryTypes'
    BY <2>2, NothingTyped, BeginTyped
  <2> QED
    BY <1>3, <1>g, <1>k, <2>3 DEF AutoUse
<1>4. CASE Open(c)
  <2> DEFINE i == What(c)[1]  gives == Effect[i].gives  choice == What(c)[2]  n == Amount(c)
  <2>1. i \in Consumable /\ choice \in DOMAIN gives /\ n \in Int
    BY <1>4, Head2Do DEF Open
  <2>2. gives \in Parcels /\ Effect[i].kind \in EffectKind
    BY <2>1, SubParcels, ItemsAssumption
  <2>3. UNCHANGED owned /\ UNCHANGED <<growthVars, itemVars>>
    BY <1>4 DEF Open, owned, stock, growthVars, itemVars
  <2>4. ASSUME NEW now, NEW p \in Parcels, Proceed(c, now), Reward(c, Total(p)) PROVE StateTypes'
    <3> DEFINE all == Total(p)
    <3>1. all \in Amounts
      BY TotalTyped
    <3>2. bill' = [bill EXCEPT ![c].product = [x \in Thing |-> @[x] + all[x]]]
      BY <2>4 DEF Reward
    <3> HIDE DEF all
    <3>3. \E sum \in Amounts : bill' = [bill EXCEPT ![c]["product"] = sum]
      BY <3>1, <3>2, Added
    <3>4. UNCHANGED <<settled, taken, dearest, overlapped, served, faults>>
      BY <2>4 DEF Reward
    <3>5. OwnedTypes' /\ HistoryTypes'
      BY <2>3, <2>4, <3>3, <3>4, Billing
    <3> QED
      BY <2>3, <3>5, <1>g, <1>k
  <2>5. /\ DOMAIN gives = 1..Len(gives) /\ Len(gives) \in Nat
        /\ \A j \in DOMAIN gives : gives[j] \in Thing \X Int
    BY <2>2 DEF Parcels
  <2>6. \A x \in Thing \X Int : << x >> \in Parcels
    BY DEF Parcels
  <2>7. << gives[choice] >> \in Parcels
    BY <2>1, <2>5, <2>6
  <2>8. Times(gives, n) \in Parcels
    BY <2>1, <2>2, SubParcels
  <2>9. \A p \in Parcels : \A m \in Int : Times(p, m) \in Parcels
    BY SubParcels
  <2>10. Times(<< gives[choice] >>, n) \in Parcels
    BY <2>1, <2>7, <2>9
  <2>11. \A picks \in [1..n -> DOMAIN gives] : [j \in 1..n |-> gives[picks[j]]] \in Parcels
    <3> TAKE picks \in [1..n -> DOMAIN gives]
    <3>1. [j \in 1..n |-> gives[picks[j]]] \in [1..n -> Thing \X Int]
      BY <2>5
    <3> QED
      BY <2>1, <3>1, UpTo DEF Parcels
  <2>12. \E now : Proceed(c, now) /\ \E p \in Parcels : Reward(c, Total(p))
    <3>1. \/ Proceed(c, <<>>) /\ Reward(c, Total(Times(gives, n)))
          \/ Proceed(c, <<>>) /\ Reward(c, Total(Times(<< gives[choice] >>, n)))
          \/ \E picks \in [1..n -> DOMAIN gives] :
                Proceed(c, <<>>) /\ Reward(c, Total([j \in 1..n |-> gives[picks[j]]]))
          \/ /\ Proceed(c, << Stmt("useHero", gives[choice][1], 1) >>)
             /\ Reward(c, Total(<< gives[choice] >>))
      <4>1. Effect[i].kind \in {"fixed", "random", "chosen", "hero"}
        BY <2>2 DEF EffectKind
      <4> QED
        BY <1>4, <4>1 DEF Open
    <3> HIDE DEF gives, n, choice
    <3> QED
      BY <3>1, <2>7, <2>8, <2>10, <2>11
  <2> HIDE DEF gives, n, choice, i
  <2> QED
    BY <2>4, <2>12
<1>5. CASE HandOut(c) \/ FindExpired(c) \/ ReadStamina(c)
  <2>1. UNCHANGED owned /\ Unrecorded /\ UNCHANGED <<growthVars, itemVars>> /\ \E now : Proceed(c, now)
    BY <1>5 DEF HandOut, FindExpired, ReadStamina
  <2> QED
    BY <2>1, <1>k, <1>q
<1>6. CASE ApplyInsight(c)
  <2>1. UNCHANGED owned /\ Unrecorded /\ UNCHANGED <<growthVars, itemVars>>
        /\ ((\E now : Proceed(c, now)) \/ Return(c, "refused"))
    BY <1>6 DEF ApplyInsight, Decline
  <2> QED
    BY <2>1, <1>k, <1>q
<1>7. CASE Raise(c)
  <2>1. What(c)[1] \in InsightRow /\ What(c)[2] \in Hero /\ Amount(c) \in Nat \ {0}
    BY <1>7, Head2Do DEF RankOps, Raise
  <2>2. InsightLevel[What(c)[1]] \in Nat \ {0}
    BY <2>1, ItemsAssumption
  <2>3. grown' = [grown EXCEPT ![What(c)[2]].rank = Amount(c), ![What(c)[2]].level = InsightLevel[What(c)[1]]]
        /\ raises' = [raises EXCEPT ![What(c)[1]] = @ + 1]
    BY <1>7 DEF Raise
  <2>4. grown' \in [Hero -> Grown]
    BY <2>1, <2>2, <2>3, GrownSet
  <2>5. raises' \in [InsightRow -> Nat]
    <3>1. 1 \in Nat
      OBVIOUS
    <3> QED
      BY <2>3, <3>1, Changed DEF ItemTypes
  <2>6. GrowthTypes' /\ ItemTypes'
    BY <1>7, <2>4, <2>5 DEF Raise, GrowthTypes, ItemTypes
  <2> QED
    BY <1>7, <2>6, <1>q DEF Raise
<1>8. CASE SpendInsight(c)
  <2>1. left' \in [InsightRow -> Int]
    <3>1. 1 \in Int
      OBVIOUS
    <3>2. left' = [left EXCEPT ![What(c)] = @ - 1]
      BY <1>8 DEF SpendInsight
    <3> QED
      BY <3>1, <3>2, Changed DEF ItemTypes
  <2>2. ItemTypes'
    BY <1>8, <2>1 DEF SpendInsight, ItemTypes
  <2> QED
    BY <1>8, <2>2, <1>v, <1>q DEF SpendInsight
<1>9. CASE DeletePower(c)
  <2>2. ItemTypes'
    BY <1>9 DEF DeletePower, ItemTypes
  <2> QED
    BY <1>9, <2>2, <1>v, <1>q DEF DeletePower
<1>10. CASE SaveStamina(c)
  <2>1. Amount(c) \in Nat
    BY <1>10, Head2Do DEF CountOps, SaveStamina
  <2>2. ItemTypes'
    BY <1>10, <2>1 DEF SaveStamina, ItemTypes
  <2> QED
    BY <1>10, <2>2, <1>v, <1>q DEF SaveStamina
<1> QED
  BY <1>1, <1>2, <1>3, <1>4, <1>5, <1>6, <1>7, <1>8, <1>9, <1>10 DEF ItemsNext, ItemsRequest, ItemsStep

\* What a summon remembers.
LEMMA MemSet ==
    ASSUME SummonTypes, NEW c \in Conn
    PROVE /\ [mem EXCEPT ![c] = Blank] \in [Conn -> Memory]
          /\ \A b \in BOOLEAN : [mem EXCEPT ![c].discounted = b] \in [Conn -> Memory]
          /\ \A up \in SUBSET Hero : [mem EXCEPT ![c].up = up] \in [Conn -> Memory]
          /\ \A n \in 0..HardPity : [mem EXCEPT ![c].pity = n] \in [Conn -> Memory]
          /\ \A n \in 0..HardPity : \A b \in BOOLEAN :
                [mem EXCEPT ![c].pity = n, ![c].guaranteed = b] \in [Conn -> Memory]
<1>1. mem[c] \in Memory /\ mem \in [Conn -> Memory]
  BY DEF SummonTypes
<1>2. [mem EXCEPT ![c] = Blank] \in [Conn -> Memory]
  <2>1. Blank \in Memory
    BY SummonAssumption DEF Blank, Memory
  <2> QED
    BY <1>1, <2>1
<1>3. \A b \in BOOLEAN : [mem EXCEPT ![c].discounted = b] \in [Conn -> Memory]
  <2> TAKE b \in BOOLEAN
  <2>1. [mem[c] EXCEPT !.discounted = b] \in Memory
    BY <1>1 DEF Memory
  <2> QED
    BY <1>1, <2>1
<1>4. \A up \in SUBSET Hero : [mem EXCEPT ![c].up = up] \in [Conn -> Memory]
  <2> TAKE up \in SUBSET Hero
  <2>1. [mem[c] EXCEPT !.up = up] \in Memory
    BY <1>1 DEF Memory
  <2> QED
    BY <1>1, <2>1
<1>5. \A n \in 0..HardPity : [mem EXCEPT ![c].pity = n] \in [Conn -> Memory]
  <2> TAKE n \in 0..HardPity
  <2>1. [mem[c] EXCEPT !.pity = n] \in Memory
    BY <1>1 DEF Memory
  <2> QED
    BY <1>1, <2>1
<1>6. \A n \in 0..HardPity : \A b \in BOOLEAN :
         [mem EXCEPT ![c].pity = n, ![c].guaranteed = b] \in [Conn -> Memory]
  <2> TAKE n \in 0..HardPity
  <2> TAKE b \in BOOLEAN
  <2>1. [[mem[c] EXCEPT !.pity = n] EXCEPT !.guaranteed = b] \in Memory
    BY <1>1 DEF Memory
  <2>2. [mem EXCEPT ![c].pity = n, ![c].guaranteed = b]
        = [mem EXCEPT ![c] = [[mem[c] EXCEPT !.pity = n] EXCEPT !.guaranteed = b]]
    BY <1>1
  <2> QED
    BY <1>1, <2>1, <2>2
<1> QED
  BY <1>2, <1>3, <1>4, <1>5, <1>6

LEMMA DrawnTyped ==
    ASSUME OwnedTypes, HistoryTypes, SummonTypes, NEW c \in Conn, NEW h \in Hero, Drawn(c, h)
    PROVE OwnedTypes' /\ HistoryTypes' /\ asked' = asked
<1> DEFINE old == bill[c].product
           sum == [old EXCEPT ![h] = @ + 1]
<1>1. old \in Amounts /\ 1 \in Nat
  BY DEF HistoryTypes
<1>2. sum \in Amounts
  <2> HIDE DEF old
  <2> QED
    BY <1>1, Changed DEF Amounts
<1>3. bill' = [bill EXCEPT ![c]["product"] = sum]
  BY DEF Drawn, HistoryTypes
<1> HIDE DEF sum
<1>4. \E all \in Amounts : bill' = [bill EXCEPT ![c]["product"] = all]
  BY <1>2, <1>3
<1>5. UNCHANGED owned /\ UNCHANGED <<settled, taken, dearest, overlapped, served, faults>>
      /\ (\E now : Proceed(c, now)) /\ asked' = asked
  BY DEF Drawn, owned, stock
<1>7. OwnedTypes' /\ HistoryTypes'
  BY <1>4, <1>5, Billing
<1> QED
  BY <1>5, <1>7

LEMMA SummonTyped ==
    ASSUME JobTypes, StateTypes, NEW c \in Conn, SummonNext(c)
    PROVE StateTypes'
<1>t. OwnedTypes /\ HistoryTypes /\ SummonTypes
  BY DEF StateTypes
<1>u. StoreTypes' /\ GrowthTypes' /\ ItemTypes' /\ MailTypes' /\ LayoutTypes' /\ GroupTypes' /\ GmTypes'
  BY Unmoved DEF SummonNext, StateTypes, layOut
<1> USE <1>t
<1>g. OwnedTypes' /\ HistoryTypes' /\ SummonTypes' => StateTypes'
  BY <1>u DEF StateTypes
<1>q. ASSUME UNCHANGED owned, Unrecorded, (\E now : Proceed(c, now)) \/ Return(c, "refused"), SummonTypes'
      PROVE StateTypes'
  BY <1>g, <1>q, Quietly
<1>p. ASSUME UNCHANGED owned, UNCHANGED summonVars, NEW parcels \in Parcels, Price(c, parcels)
      PROVE StateTypes'
  <2> DEFINE all == Total(parcels)
  <2>1. all \in Amounts
    BY TotalTyped
  <2>2. bill' = [bill EXCEPT ![c]["price"] = all]
    BY <1>p DEF Price
  <2> HIDE DEF all
  <2>3. \E side \in {"price", "product"}, x \in Amounts : bill' = [bill EXCEPT ![c][side] = x]
    BY <2>1, <2>2
  <2>4. UNCHANGED <<settled, taken, dearest, overlapped, served, faults>> /\ \E now : Proceed(c, now)
    BY <1>p DEF Price
  <2>5. OwnedTypes' /\ HistoryTypes'
    BY <1>p, <2>3, <2>4, Billing
  <2> QED
    BY <1>p, <1>g, <2>5, Unmoved
<1>m. mem' \in [Conn -> Memory] /\ UNCHANGED <<tables, rolls>> => SummonTypes'
  BY DEF SummonTypes, tables, rolls
<1>1. ASSUME NEW p \in Pool, (\E n \in Few : SummonFew(c, p, n)) \/ SummonTen(c, p) PROVE StateTypes'
  <2>1. \E s : Begin(c, Nothing, Nothing, s)
    BY <1>1 DEF SummonFew, SummonTen
  <2>2. OwnedTypes' /\ HistoryTypes'
    BY <2>1, NothingTyped, BeginTyped
  <2>3. mem' = [mem EXCEPT ![c] = Blank] /\ UNCHANGED <<tables, rolls>>
    BY <1>1 DEF SummonFew, SummonTen
  <2> QED
    BY <1>g, <1>m, <2>2, <2>3, MemSet
<1>2. ASSUME NEW p \in Pool, NEW h \in SixStar[p], ChooseHero(c, p, h) PROVE StateTypes'
  <2>1. \E s : Begin(c, Nothing, Nothing, s)
    BY <1>2 DEF ChooseHero
  <2>2. OwnedTypes' /\ HistoryTypes'
    BY <2>1, NothingTyped, BeginTyped
  <2> QED
    BY <1>2, <1>g, <2>2, Unmoved DEF ChooseHero
<1>3. CASE ReadDiscount(c)
  <2> DEFINE b == discounts[What(c)] > 0
  <2>1. mem' = [mem EXCEPT ![c].discounted = b] /\ UNCHANGED <<tables, rolls>>
    BY <1>3 DEF ReadDiscount
  <2>2. b \in BOOLEAN
    OBVIOUS
  <2> HIDE DEF b
  <2>3. SummonTypes'
    BY <1>m, <2>1, <2>2, MemSet
  <2> QED
    BY <1>3, <2>3, <1>q DEF ReadDiscount, Still
<1>4. CASE TryOption(c)
  BY <1>4, <1>q, Unmoved DEF TryOption, Still
<1>5. CASE Settle(c)
  <2> DEFINE options == Options[What(c)[1]][What(c)[2]]
             parcel == options[Amount(c)]
  <2>1. What(c)[1] \in Pool /\ What(c)[2] \in Offer /\ Amount(c) \in 1..Len(options)
    BY <1>5, Head2Do DEF Settle
  <2>2. options \in Bill
    BY <2>1, SummonAssumption
  <2>3. parcel \in Thing \X (Nat \ {0})
    <3> HIDE DEF options
    <3> QED
      BY <2>1, <2>2, ElementOf DEF Bill
  <2>4. << parcel >> \in Parcels
    <3> HIDE DEF parcel
    <3>1. parcel \in Thing \X Int
      BY <2>3
    <3>2. \A x \in Thing \X Int : <<x>> \in Parcels
      BY DEF Parcels
    <3> QED
      BY <3>1, <3>2
  <2>5. UNCHANGED owned /\ UNCHANGED summonVars
    BY <1>5 DEF Settle, owned, stock, summonVars
  <2>6. Price(c, << parcel >>) \/ (Unrecorded /\ ((\E now : Proceed(c, now)) \/ Return(c, "refused")))
    BY <1>5 DEF Settle
  <2> HIDE DEF parcel
  <2> QED
    BY <2>4, <2>5, <2>6, <1>p, <1>q, Unmoved
<1>6. CASE Convert(c)
  <2> DEFINE gems == What(c) * TicketPrice
             tickets == IF Amount(c) > 0 THEN << <<Ticket, Amount(c)>> >> ELSE <<>>
             parcels == tickets \o << <<Gem, gems>> >>
  <2>1. What(c) \in Nat /\ Amount(c) \in Int
    BY <1>6, Head2Do DEF Convert
  <2>2. Ticket \in Thing /\ Gem \in Thing /\ gems \in Nat
    <3>1. \A a, b \in Nat : a * b \in Nat
      OBVIOUS
    <3> QED
      BY <2>1, <3>1, SummonAssumption DEF Thing
  <2>3. tickets \in Parcels
    <3>1. <<>> \in Parcels
      BY DEF Parcels
    <3>2. \A x \in Thing \X Int : <<x>> \in Parcels
      BY DEF Parcels
    <3>3. Amount(c) > 0 => <<Ticket, Amount(c)>> \in Thing \X Int
      BY <2>1, <2>2
    <3> QED
      BY <3>1, <3>2, <3>3
  <2>4. << <<Gem, gems>> >> \in Parcels
    <3> HIDE DEF gems
    <3> QED
      BY <2>2 DEF Parcels
  <2> HIDE DEF tickets, gems
  <2>5. parcels \in Parcels
    BY <2>3, <2>4, JoinTyped DEF Parcels
  <2>6. UNCHANGED owned /\ UNCHANGED summonVars
    BY <1>6 DEF Convert, owned, stock, summonVars
  <2>7. Price(c, parcels) \/ (Unrecorded /\ Return(c, "refused"))
    BY <1>6 DEF Convert, gems, tickets
  <2> HIDE DEF parcels
  <2> QED
    BY <2>5, <2>6, <2>7, <1>p, <1>q, Unmoved
<1>7. CASE ReadUp(c)
  <2> DEFINE up == IF What(c) \in Selectable THEN chosen[What(c)] ELSE Featured[What(c)]
  <2>1. What(c) \in Pool
    BY <1>7, Head2Do DEF PoolOps, ReadUp
  <2>2. up \in SUBSET Hero
    BY <2>1, SummonAssumption DEF SummonTypes
  <2>3. mem' = [mem EXCEPT ![c].up = up] /\ UNCHANGED <<tables, dry, lost>>
        /\ asked' = [asked EXCEPT ![What(c)] = @ + Amount(c)]
    BY <1>7 DEF ReadUp
  <2> HIDE DEF up
  <2>5. Amount(c) \in Nat
    BY <1>7, Head2Do DEF CountOps, ReadUp
  <2>4. SummonTypes'
    BY <2>1, <2>2, <2>3, <2>5, MemSet, Changed DEF SummonTypes, tables
  <2> QED
    BY <1>7, <2>4, <1>q DEF ReadUp, Still
<1>8. CASE Load(c)
  <2>1. What(c) \in Pool
    BY <1>8, Head2Do DEF PoolOps, Load
  <2>2. pity[What(c)] \in 0..HardPity /\ guaranteed[What(c)] \in BOOLEAN
    BY <2>1 DEF SummonTypes
  <2>3. mem' = [mem EXCEPT ![c].pity = pity[What(c)], ![c].guaranteed = guaranteed[What(c)]]
        /\ UNCHANGED <<tables, rolls>>
    BY <1>8 DEF Load
  <2>4. SummonTypes'
    BY <1>m, <2>2, <2>3, MemSet
  <2> QED
    BY <1>8, <2>4, <1>q DEF Load, Still
<1>9. CASE PullSix(c)
  <2> DEFINE p == What(c)  up == mem[c].up
  <2>1. p \in Pool
    BY <1>9, Head2Do DEF PoolOps, PullSix
  <2>2. up \subseteq Hero /\ SixStar[p] \subseteq Hero
    BY <2>1, SummonAssumption DEF SummonTypes, Memory
  <2>3. PICK featured \in BOOLEAN :
           /\ mem' = [mem EXCEPT ![c].pity = 0, ![c].guaranteed = up # {} /\ ~featured]
           /\ lost' = [lost EXCEPT ![p] = IF up # {} /\ ~featured THEN @ + 1 ELSE 0]
           /\ dry' = [dry EXCEPT ![p] = 0]
           /\ \E h \in (IF featured THEN up ELSE SixStar[p] \ up) : Drawn(c, h)
    BY <1>9 DEF PullSix
  <2>4. PICK h \in Hero : Drawn(c, h)
    BY <2>2, <2>3
  <2>5. OwnedTypes' /\ HistoryTypes' /\ asked' = asked /\ UNCHANGED tables
    BY <2>4, DrawnTyped DEF Drawn, tables
  <2> DEFINE b == up # {} /\ ~featured
  <2>6. b \in BOOLEAN /\ 0 \in 0..HardPity
    BY SummonAssumption
  <2>7. mem' = [mem EXCEPT ![c].pity = 0, ![c].guaranteed = b]
    BY <2>3
  <2>8. mem' \in [Conn -> Memory]
    <3> HIDE DEF b
    <3> QED
      BY <2>6, <2>7, MemSet
  <2>9. lost' \in [Pool -> Nat] /\ dry' \in [Pool -> Nat]
    <3>1. lost[p] \in Nat
      BY <2>1 DEF SummonTypes
    <3>2. \E n \in Nat : lost' = [lost EXCEPT ![p] = n]
      BY <2>3, <3>1
    <3> HIDE DEF p
    <3> QED
      BY <2>3, <3>2 DEF SummonTypes, p
  <2>10. SummonTypes'
    BY <2>5, <2>8, <2>9 DEF SummonTypes, tables
  <2> QED
    BY <2>5, <2>10, <1>g
<1>10. CASE PullLower(c)
  <2> DEFINE p == What(c)
  <2>1. p \in Pool
    BY <1>10, Head2Do DEF PoolOps, PullLower
  <2>2. FiveStar[p] \subseteq Hero /\ Lower[p] \subseteq Hero
    BY <2>1, SummonAssumption
  <2>3. /\ mem[c].pity + 1 < HardPity
        /\ mem' = [mem EXCEPT ![c].pity = @ + 1]
        /\ dry' = [dry EXCEPT ![p] = @ + 1]
        /\ UNCHANGED lost
        /\ \E h \in FiveStar[p] \cup (IF Amount(c) = 1 THEN {} ELSE Lower[p]) : Drawn(c, h)
    BY <1>10 DEF PullLower
  <2>4. PICK h \in Hero : Drawn(c, h)
    BY <2>2, <2>3
  <2>5. OwnedTypes' /\ HistoryTypes' /\ asked' = asked /\ UNCHANGED tables
    BY <2>4, DrawnTyped DEF Drawn, tables
  <2> DEFINE n == mem[c].pity + 1
  <2>6. n \in 0..HardPity
    BY <2>3, SummonAssumption DEF SummonTypes, Memory
  <2>7. mem' = [mem EXCEPT ![c].pity = n]
    BY <2>3 DEF SummonTypes
  <2>8. mem' \in [Conn -> Memory]
    <3> HIDE DEF n
    <3> QED
      BY <2>6, <2>7, MemSet
  <2>9. dry' \in [Pool -> Nat]
    <3>1. 1 \in Nat
      OBVIOUS
    <3> QED
      BY <2>3, <3>1, Changed DEF SummonTypes
  <2>10. SummonTypes'
    BY <2>3, <2>5, <2>8, <2>9 DEF SummonTypes, tables
  <2> QED
    BY <2>5, <2>10, <1>g
<1>11. CASE SaveCounters(c)
  <2>1. mem[c].pity \in 0..HardPity /\ mem[c].guaranteed \in BOOLEAN
    BY DEF SummonTypes, Memory
  <2>2. pity' \in [Pool -> 0..HardPity] /\ guaranteed' \in [Pool -> BOOLEAN]
    BY <1>11, <2>1 DEF SaveCounters, SummonTypes
  <2>3. SummonTypes'
    BY <1>11, <2>2 DEF SaveCounters, SummonTypes, rolls
  <2> QED
    BY <1>11, <2>3, <1>q DEF SaveCounters, Still
<1>12. CASE UseDiscount(c)
  <2>1. What(c) \in Pool
    BY <1>12, Head2Do DEF PoolOps, UseDiscount
  <2>2. discounts[What(c)] \in Nat
    BY <2>1 DEF SummonTypes
  <2>3. discounts' = discounts \/ (discounts[What(c)] > 0 /\ discounts' = [discounts EXCEPT ![What(c)] = @ - 1])
    BY <1>12 DEF UseDiscount
  <2>4. discounts' \in [Pool -> Nat]
    BY <2>1, <2>2, <2>3 DEF SummonTypes
  <2>5. SummonTypes'
    BY <1>12, <2>4 DEF UseDiscount, SummonTypes, rolls
  <2> QED
    BY <1>12, <2>5, <1>q DEF UseDiscount, Still
<1>13. CASE CountSummons(c)
  <2>1. Amount(c) \in Nat
    BY <1>13, Head2Do DEF CountOps, CountSummons
  <2>2. counts' \in [Pool -> Nat]
    BY <1>13, <2>1 DEF CountSummons, SummonTypes
  <2>5. SummonTypes'
    BY <1>13, <2>2 DEF CountSummons, SummonTypes, rolls
  <2> QED
    BY <1>13, <2>5, <1>q DEF CountSummons, Still
<1>14. CASE AddHistory(c)
  <2>1. logged' \in [Pool -> Nat]
    <3>1. 1 \in Nat /\ logged' = [logged EXCEPT ![What(c)] = @ + 1]
      BY <1>14 DEF AddHistory
    <3> QED
      BY <3>1, Changed DEF SummonTypes
  <2>2. mem' \in [Conn -> Memory]
    BY <1>14, MemSet DEF AddHistory
  <2>5. SummonTypes'
    BY <1>14, <2>1, <2>2 DEF AddHistory, SummonTypes, rolls
  <2> QED
    BY <1>14, <2>5, <1>q DEF AddHistory, Still
<1>15. CASE DeleteUp(c)
  <2>1. chosen' \in [Pool -> SUBSET Hero]
    BY <1>15 DEF DeleteUp, SummonTypes
  <2>5. SummonTypes'
    BY <1>15, <2>1 DEF DeleteUp, SummonTypes, rolls
  <2> QED
    BY <1>15, <2>5, <1>q DEF DeleteUp, Still
<1>16. CASE InsertUp(c)
  <2>1. CASE Fail(c) /\ UNCHANGED chosen
    <3>1. UNCHANGED owned /\ UNCHANGED summonVars
      BY <1>16, <2>1 DEF InsertUp, summonVars, tables, owned, stock
    <3> QED
      BY <2>1, <3>1, <1>g, Failing, Unmoved
  <2>2. CASE /\ Proceed(c, <<>>) /\ Unrecorded
             /\ chosen' = [chosen EXCEPT ![What(c)[1]] = @ \cup {What(c)[2]}]
    <3>1. What(c)[1] \in Pool /\ What(c)[2] \in Hero
      BY <1>16, Head2Do DEF InsertUp
    <3>2. chosen' \in [Pool -> SUBSET Hero]
      BY <2>2, <3>1 DEF SummonTypes
    <3>3. SummonTypes'
      BY <1>16, <3>2 DEF InsertUp, SummonTypes, rolls
    <3>4. UNCHANGED owned
      BY <1>16 DEF InsertUp, owned, stock
    <3> QED
      BY <2>2, <3>3, <3>4, <1>q
  <2> QED
    BY <1>16, <2>1, <2>2 DEF InsertUp
<1>r. CASE SummonRequest(c)
  BY <1>r, <1>1, <1>2 DEF SummonRequest
<1>s. CASE SummonStep(c)
  BY <1>s, <1>3, <1>4, <1>5, <1>6, <1>7, <1>8, <1>9, <1>10, <1>11, <1>12, <1>13, <1>14, <1>15, <1>16
     DEF SummonStep
<1> QED
  BY <1>r, <1>s DEF SummonNext

LEMMA WithoutMade ==
    ASSUME NEW cubes, IsList(cubes), NEW at PROVE IsList(Without(cubes, at))
<1> DEFINE ss == [i \in 1..Len(cubes) |-> IF cubes[i].at # at THEN << cubes[i] >> ELSE <<>>]
<1>1. DOMAIN cubes = 1..Len(cubes) /\ Len(cubes) \in Nat
  BY DEF IsList
<1>2. Without(cubes, at) = FlattenSeq(ss)
  BY <1>1 DEF Without, Those
<1>3. \A i \in 1..Len(cubes) : IsList(ss[i])
  BY Tuples
<1>4. ss = [i \in 1..Len(cubes) |-> ss[i]]
  OBVIOUS
<1> HIDE DEF ss
<1> QED
  BY <1>1, <1>2, <1>3, <1>4, FlatAll

\* One template is laid out anew.
LEMMA LaidOut ==
    ASSUME LayoutTypes, NEW h \in Hero, NEW t \in Template, NEW cubes, IsList(cubes),
           layouts' = [layouts EXCEPT ![h][t] = cubes], UNCHANGED <<inUse, worn>>
    PROVE LayoutTypes'
<1>1. layouts = [g \in Hero |-> [u \in Template |-> layouts[g][u]]]
  BY DEF LayoutTypes
<1>2. \A g \in Hero : DOMAIN layouts[g] = Template
  BY <1>1
<1>3. DOMAIN layouts' = Hero /\ layouts' = [g \in Hero |-> layouts'[g]]
      /\ \A g \in Hero : layouts'[g] = IF g = h THEN [layouts[h] EXCEPT ![t] = cubes] ELSE layouts[g]
  <2>1. layouts' = [layouts EXCEPT ![h] = [layouts[h] EXCEPT ![t] = cubes]] /\ DOMAIN layouts = Hero
    BY <1>1
  <2> QED
    BY <2>1
<1>4. \A g \in Hero : layouts'[g] = [u \in Template |-> layouts'[g][u]]
  <2> TAKE g \in Hero
  <2>1. layouts[g] = [u \in Template |-> layouts[g][u]] /\ layouts[h] = [u \in Template |-> layouts[h][u]]
    BY <1>1
  <2> QED
    BY <1>3, <2>1
<1>5. \A g \in Hero, u \in Template : layouts'[g][u] = IF g = h /\ u = t THEN cubes ELSE layouts[g][u]
  BY <1>2, <1>3
<1>6. layouts' = [g \in Hero |-> [u \in Template |-> layouts'[g][u]]]
  BY <1>3, <1>4
<1>7. \A g \in Hero, u \in Template : IsList(layouts'[g][u])
  BY <1>5 DEF LayoutTypes
<1> QED
  BY <1>6, <1>7 DEF LayoutTypes

LEMMA LayoutTyped ==
    ASSUME JobTypes, StateTypes, NEW c \in Conn, LayoutNext(c)
    PROVE StateTypes'
<1>t. OwnedTypes /\ HistoryTypes /\ LayoutTypes
  BY DEF StateTypes
<1>u. UNCHANGED growthVars => StoreTypes' /\ GrowthTypes' /\ ItemTypes' /\ MailTypes' /\ SummonTypes'
                              /\ GroupTypes' /\ GmTypes'
  BY Unmoved DEF LayoutNext, StateTypes
<1> USE <1>t
<1>g. UNCHANGED growthVars /\ OwnedTypes' /\ HistoryTypes' /\ LayoutTypes' => StateTypes'
  BY <1>u DEF StateTypes
<1>q. ASSUME UNCHANGED <<owned, growthVars>>, Unrecorded, (\E now : Proceed(c, now)) \/ Return(c, "refused"),
             LayoutTypes'
      PROVE StateTypes'
  BY <1>g, <1>q, Quietly
<1>1. ASSUME NEW stmt, AskLayout(c, stmt) PROVE StateTypes'
  <2>1. Begin(c, Nothing, Nothing, << stmt >>) /\ UNCHANGED <<growthVars, layoutVars>>
    BY <1>1 DEF AskLayout
  <2>2. OwnedTypes' /\ HistoryTypes'
    BY <2>1, NothingTyped, BeginTyped
  <2> QED
    BY <2>1, <2>2, <1>g, Unmoved
<1>2. CASE PutCube(c) \/ LoadScheme(c) \/ SwitchTemplate(c) \/ WearStyle(c)
  <2>1. UNCHANGED <<owned, growthVars, layoutVars>> /\ Unrecorded
        /\ ((\E now : Proceed(c, now)) \/ Return(c, "refused"))
    BY <1>2 DEF PutCube, LoadScheme, SwitchTemplate, WearStyle, Decline
  <2> QED
    BY <2>1, <1>q, Unmoved
<1>3. CASE SyncCubes(c)
  <2>1. UNCHANGED <<owned, growthVars, layoutVars>> /\ Unrecorded /\ \E now : Proceed(c, now)
    BY <1>3 DEF SyncCubes, Frame
  <2> QED
    BY <2>1, <1>q, Unmoved
<1>f. Frame => UNCHANGED <<owned, growthVars>> /\ Unrecorded
  BY DEF Frame
<1>4. CASE RemoveActive(c) \/ InsertActive(c) \/ WipeActive(c)
  <2>1. Frame /\ Proceed(c, <<>>) /\ UNCHANGED <<layouts, inUse, worn>>
    BY <1>4 DEF RemoveActive, InsertActive, WipeActive
  <2>2. LayoutTypes'
    BY <2>1 DEF LayoutTypes
  <2> QED
    BY <2>1, <2>2, <1>f, <1>q
<1>s. ASSUME NEW h \in Hero, NEW k \in Template PROVE IsList(layouts[h][k])
  BY <1>s DEF LayoutTypes
<1>5. CASE RemoveCube(c) \/ InsertCube(c) \/ WipeCubes(c)
  <2>1. HeroOf(c) \in Hero /\ TemplateOf(c) \in Template
    BY <1>5, Head2Do DEF LayoutOps, RemoveCube, InsertCube, WipeCubes
  <2>2. Frame /\ Proceed(c, <<>>) /\ UNCHANGED <<inUse, worn>>
    BY <1>5 DEF RemoveCube, InsertCube, WipeCubes
  <2> DEFINE h == HeroOf(c)  k == TemplateOf(c)  old == layouts[h][k]
  <2>3. \/ layouts' = [layouts EXCEPT ![h][k] = Without(old, Detail(c))]
        \/ layouts' = [layouts EXCEPT ![h][k] = Append(old, Detail(c))]
        \/ layouts' = [layouts EXCEPT ![h][k] = <<>>]
    <3>1. layouts = [g \in Hero |-> [u \in Template |-> layouts[g][u]]]
      BY DEF LayoutTypes
    <3> QED
      BY <1>5, <2>1, <3>1 DEF RemoveCube, InsertCube, WipeCubes
  <2>4. IsList(old)
    BY <2>1, <1>s
  <2> HIDE DEF old
  <2>5. IsList(Without(old, Detail(c))) /\ IsList(Append(old, Detail(c))) /\ IsList(<<>>)
    BY <2>4, WithoutMade, AppendMade, Tuples
  <2> HIDE DEF h, k
  <2>6. \E cubes : IsList(cubes) /\ layouts' = [layouts EXCEPT ![h][k] = cubes]
    BY <2>3, <2>5
  <2>7. h \in Hero /\ k \in Template
    BY <2>1 DEF h, k
  <2>8. LayoutTypes'
    BY <2>2, <2>6, <2>7, LaidOut
  <2> QED
    BY <2>2, <2>8, <1>f, <1>q
<1>6. CASE UseTemplate(c)
  <2>1. HeroOf(c) \in Hero /\ TemplateOf(c) \in Template
    BY <1>6, Head2Do DEF LayoutOps, UseTemplate
  <2>2. Frame /\ Proceed(c, <<>>) /\ UNCHANGED <<layouts, worn>>
        /\ inUse' = [inUse EXCEPT ![HeroOf(c)] = TemplateOf(c)]
    BY <1>6 DEF UseTemplate
  <2>3. LayoutTypes'
    BY <2>1, <2>2 DEF LayoutTypes
  <2> QED
    BY <2>2, <2>3, <1>f, <1>q
<1>7. CASE SaveWorn(c)
  <2>1. HeroOf(c) \in Hero /\ TemplateOf(c) \in Template /\ Detail(c) \in Style \cup {NoStyle}
    BY <1>7, Head2Do DEF LayoutOps, SaveWorn
  <2>2. Frame /\ Proceed(c, <<>>) /\ UNCHANGED <<layouts, inUse>>
        /\ worn' = [worn EXCEPT ![HeroOf(c)][TemplateOf(c)] = Detail(c)]
    BY <1>7 DEF SaveWorn
  <2>3. LayoutTypes'
    BY <2>1, <2>2 DEF LayoutTypes
  <2> QED
    BY <2>2, <2>3, <1>f, <1>q
<1> QED
  BY <1>1, <1>2, <1>3, <1>4, <1>5, <1>6, <1>7 DEF LayoutNext, LayoutRequest, LayoutStep

LEMMA GroupsTyped ==
    ASSUME JobTypes, StateTypes, NEW c \in Conn, GroupsNext(c)
    PROVE StateTypes'
<1>t. OwnedTypes /\ HistoryTypes /\ GroupTypes
  BY DEF StateTypes
<1>u. StoreTypes' /\ GrowthTypes' /\ ItemTypes' /\ MailTypes' /\ SummonTypes' /\ LayoutTypes' /\ GmTypes'
  BY Unmoved DEF GroupsNext, StateTypes
<1> USE <1>t
<1>g. OwnedTypes' /\ HistoryTypes' /\ GroupTypes' => StateTypes'
  BY <1>u DEF StateTypes
<1>q. ASSUME UNCHANGED owned, Unrecorded, (\E now : Proceed(c, now)) \/ Return(c, "failed"), GroupTypes'
      PROVE StateTypes'
  BY <1>g, <1>q, Quietly
<1>b. ASSUME NEW s, Begin(c, Nothing, Nothing, s), UNCHANGED <<teams, lastId, sorted, common, meant>>
      PROVE StateTypes'
  <2>1. OwnedTypes' /\ HistoryTypes'
    BY <1>b, NothingTyped, BeginTyped
  <2>2. GroupTypes'
    BY <1>b DEF GroupTypes
  <2> QED
    BY <2>1, <2>2, <1>g
<1>1. CASE GroupsRequest(c)
  BY <1>1, <1>b DEF GroupsRequest, AskSave, AskEquip, AskList, groupVars
<1>2. CASE FindTeam(c) \/ ReadOrder(c) \/ FindCommon(c) \/ SetEquip(c) \/ ListTeams(c) \/ ReadTeam(c)
  <2>1. UNCHANGED <<owned, groupVars>> /\ Unrecorded /\ ((\E now : Proceed(c, now)) \/ Return(c, "failed"))
    BY <1>2 DEF FindTeam, ReadOrder, FindCommon, SetEquip, ListTeams, ReadTeam
  <2> QED
    BY <2>1, <1>q, Unmoved
<1>3. CASE WipePart(c) \/ DropTeam(c)
  <2>1. UNCHANGED <<owned, lastId, sorted, common>> /\ Unrecorded /\ Proceed(c, <<>>)
    BY <1>3 DEF WipePart, DropTeam
  <2>2. DOMAIN teams' \subseteq DOMAIN teams /\ DOMAIN meant' = DOMAIN teams'
    <3>1. DOMAIN meant = DOMAIN teams
      BY DEF GroupTypes
    <3> QED
      BY <1>3, <3>1 DEF WipePart, DropTeam
  <2>3. GroupTypes'
    BY <2>1, <2>2 DEF GroupTypes
  <2> QED
    BY <2>1, <2>3, <1>q
<1>4. CASE NewTeam(c)
  <2>1. UNCHANGED <<owned, sorted, common>> /\ Unrecorded /\ lastId' = lastId + 1 /\ \E now : Proceed(c, now)
    BY <1>4 DEF NewTeam, InsertTeam
  <2>2. DOMAIN teams' = DOMAIN teams \cup {lastId + 1} /\ DOMAIN meant' = DOMAIN meant \cup {lastId + 1}
    BY <1>4 DEF NewTeam, InsertTeam, With
  <2>3. GroupTypes'
    <3>1. lastId + 1 \in Nat /\ 1..lastId \cup {lastId + 1} \subseteq 1..(lastId + 1)
      BY DEF GroupTypes
    <3> QED
      BY <2>1, <2>2, <3>1 DEF GroupTypes
  <2> QED
    BY <2>1, <2>3, <1>q
<1>5. CASE InsertPart(c)
  <2>1. UNCHANGED <<owned, lastId, sorted, common, meant>> /\ DOMAIN teams' = DOMAIN teams
        /\ (Fail(c) \/ (Unrecorded /\ Proceed(c, <<>>)))
    BY <1>5 DEF InsertPart
  <2>2. GroupTypes'
    BY <2>1 DEF GroupTypes
  <2> QED
    BY <2>1, <2>2, <1>g, <1>q, Failing
<1>6. CASE WipeOrder(c)
  <2>1. What(c) \in Snapshot
    BY <1>6, Head2Do DEF WipeOrder
  <2>2. UNCHANGED <<owned, teams, lastId, common, meant>> /\ Unrecorded /\ Proceed(c, <<>>)
        /\ sorted' = [sorted EXCEPT ![What(c)] = <<>>]
    BY <1>6 DEF WipeOrder
  <2>3. IsFiniteSet(DOMAIN <<>>)
    <3>1. DOMAIN <<>> = {}
      OBVIOUS
    <3> QED
      BY <3>1, FS_EmptySet
  <2>4. DOMAIN sorted' = Snapshot
        /\ \A s \in Snapshot : sorted'[s] = IF s = What(c) THEN <<>> ELSE sorted[s]
    BY <2>1, <2>2 DEF GroupTypes
  <2>5. \A s \in Snapshot : IsFiniteSet(DOMAIN sorted'[s])
    BY <2>3, <2>4 DEF GroupTypes
  <2>6. GroupTypes'
    BY <2>2, <2>4, <2>5 DEF GroupTypes
  <2> QED
    BY <2>2, <2>6, <1>q
<1>7. CASE InsertOrder(c)
  <2> DEFINE s == What(c)[1]  g == What(c)[2]  new == With(sorted[s], g, Amount(c))
  <2>1. s \in Snapshot
    BY <1>7, Head2Do DEF InsertOrder
  <2>2. CASE Fail(c) /\ UNCHANGED sorted
    <3>1. UNCHANGED <<owned, teams, lastId, common, meant>>
      BY <1>7 DEF InsertOrder
    <3>2. GroupTypes'
      BY <2>2, <3>1 DEF GroupTypes
    <3> QED
      BY <2>2, <3>1, <3>2, <1>g, Failing
  <2>3. CASE sorted' = [sorted EXCEPT ![s] = new] /\ Proceed(c, <<>>) /\ Unrecorded
    <3>1. UNCHANGED <<owned, teams, lastId, common, meant>>
      BY <1>7 DEF InsertOrder
    <3>2. DOMAIN new = DOMAIN sorted[s] \cup {g}
      BY DEF With
    <3>3. IsFiniteSet(DOMAIN new)
      <4>1. IsFiniteSet(DOMAIN sorted[s])
        BY <2>1 DEF GroupTypes
      <4> QED
        BY <3>2, <4>1, FS_AddElement
    <3> HIDE DEF new, s
    <3>4. DOMAIN sorted' = Snapshot
          /\ \A r \in Snapshot : sorted'[r] = IF r = s THEN new ELSE sorted[r]
      BY <2>1, <2>3 DEF GroupTypes
    <3>5. \A r \in Snapshot : IsFiniteSet(DOMAIN sorted'[r])
      BY <3>3, <3>4 DEF GroupTypes
    <3>6. GroupTypes'
      BY <3>1, <3>4, <3>5 DEF GroupTypes
    <3> QED
      BY <2>3, <3>1, <3>6, <1>q
  <2>4. \/ Fail(c) /\ UNCHANGED sorted
        \/ sorted' = [sorted EXCEPT ![s] = new] /\ Proceed(c, <<>>) /\ Unrecorded
    BY <1>7, <2>1 DEF InsertOrder, GroupTypes
  <2> QED
    BY <2>2, <2>3, <2>4
<1>8. CASE WipeCommon(c) \/ InsertCommon(c) \/ WipeSlot(c)
  <2>1. UNCHANGED <<owned, teams, lastId, sorted, meant>> /\ Unrecorded /\ Proceed(c, <<>>)
        /\ DOMAIN common' = DOMAIN common
    BY <1>8 DEF WipeCommon, InsertCommon, WipeSlot
  <2>2. GroupTypes'
    BY <2>1 DEF GroupTypes
  <2> QED
    BY <2>1, <2>2, <1>q
<1> QED
  BY <1>1, <1>2, <1>3, <1>4, <1>5, <1>6, <1>7, <1>8 DEF GroupsNext, GroupsStep

LEMMA InventoryNextTyped ==
    ASSUME JobTypes, StateTypes, NEW c \in Conn, InventoryNext(c)
    PROVE StateTypes'
<1>1. OwnedTypes' /\ HistoryTypes'
  BY InventoryTyped DEF InventoryNext
<1> QED
  BY <1>1, Unmoved DEF InventoryNext, StateTypes, layOut

\* --- Types is an invariant

LEMMA TypesStart == Init => Types
<1> SUFFICES ASSUME Init PROVE Types
  OBVIOUS
<1>a. /\ InventoryInit /\ StoreInit /\ GrowthInit /\ ItemsInit /\ MailInit /\ SummonInit
      /\ LayoutInit /\ GroupsInit /\ GmInit
  BY DEF Init
<1>1. JobTypes
  <2>1. \A c \in Conn : job[c] = <<>>
    BY <1>a DEF InventoryInit
  <2>2. job = [c \in Conn |-> job[c]]
    BY <1>a DEF InventoryInit
  <2> QED
    BY <2>1, <2>2, Tuples DEF JobTypes
<1>2. OwnedTypes
  <2>1. \A m \in Material : Opening[m] \in Int
    BY InventoryAssumption
  <2>2. balance \in [Material -> Int]
    BY <1>a, <2>1, InventoryAssumption DEF InventoryInit
  <2> QED
    BY <1>a, <2>2, InventoryAssumption, FS_EmptySet DEF InventoryInit, OwnedTypes
<1>3. HistoryTypes
  BY <1>a, NothingTyped DEF InventoryInit, HistoryTypes, Outcome
<1>4. StoreTypes
  BY <1>a DEF StoreInit, StoreTypes
<1>5. GrowthTypes
  BY <1>a, GrowthAssumption DEF GrowthInit, GrowthTypes
<1>6. ItemTypes
  BY <1>a DEF ItemsInit, ItemTypes
<1>7. MailTypes
  BY <1>a DEF MailInit, MailTypes
<1>8. SummonTypes
  <2>1. HardPity \in Nat /\ 0 \in 0..HardPity /\ Blank \in Memory
    BY SummonAssumption DEF Blank, Memory
  <2> QED
    BY <1>a, <2>1, SummonAssumption DEF SummonInit, SummonTypes
<1>9. LayoutTypes
  <2>1. \A h \in Hero, t \in Template : layouts[h][t] = OpeningCubes[h] \/ layouts[h][t] = <<>>
    BY <1>a DEF LayoutInit
  <2>2. \A h \in Hero : IsList(OpeningCubes[h])
    BY LayoutAssumption, SeqMade
  <2>3. \A h \in Hero, t \in Template : IsList(layouts[h][t])
    BY <2>1, <2>2, Tuples
  <2>4. layouts = [h \in Hero |-> [t \in Template |-> layouts[h][t]]]
    BY <1>a DEF LayoutInit
  <2> QED
    BY <1>a, <2>3, <2>4, LayoutAssumption DEF LayoutInit, LayoutTypes
<1>10. GroupTypes
  <2>1. IsList(Numbered)
    BY HeroGroupsAssumption, Listed DEF Numbered
  <2>2. Len(Numbered) \in Nat /\ DOMAIN Numbered = 1..Len(Numbered)
    BY <2>1 DEF IsList
  <2>3. \A s \in Snapshot : IsFiniteSet(SavedSubs(s))
    <3> TAKE s \in Snapshot
    <3> DEFINE S == {y \in Saved : y[1] = s}
    <3>1. IsFiniteSet(S)
      BY HeroGroupsAssumption, FS_Subset
    <3> HIDE DEF S
    <3> DEFINE T == {x[2] : x \in S}  f == [x \in S |-> x[2]]
    <3>2. f \in [S -> T] /\ \A k \in T : \E x \in S : f[x] = k
      OBVIOUS
    <3> HIDE DEF f, T
    <3>3. f \in Surjection(S, T)
      BY <3>2 DEF Surjection
    <3>4. IsFiniteSet(T)
      BY <3>1, <3>3, FS_Surjection
    <3> QED
      BY <3>4 DEF SavedSubs, S, T
  <2>4. DOMAIN teams = 1..Len(Numbered) /\ lastId = Len(Numbered) /\ meant = teams
    BY <1>a, <2>2 DEF GroupsInit
  <2>5. DOMAIN sorted = Snapshot /\ \A s \in Snapshot : DOMAIN sorted[s] = SavedSubs(s)
    BY <1>a DEF GroupsInit
  <2>6. DOMAIN common = Common
    BY <1>a DEF GroupsInit
  <2> QED
    BY <2>2, <2>3, <2>4, <2>5, <2>6 DEF GroupTypes
<1>11. GmTypes
  BY <1>a, GmAssumption DEF GmInit, GmTypes, MaxLevel
<1> QED
  BY <1>1, <1>2, <1>3, <1>4, <1>5, <1>6, <1>7, <1>8, <1>9, <1>10, <1>11 DEF Types, StateTypes

LEMMA StateKept ==
    ASSUME Types, NEW c \in Conn, Acts(c)
    PROVE StateTypes'
<1>t. JobTypes /\ StateTypes
  BY DEF Types
<1>1. CASE InventoryNext(c)
  BY ONLY <1>t, <1>1, InventoryNextTyped
<1>2. CASE StoreNext(c)
  BY ONLY <1>t, <1>2, StoreTyped
<1>3. CASE GrowthNext(c)
  BY ONLY <1>t, <1>3, GrowthTyped
<1>4. CASE ItemsNext(c)
  BY ONLY <1>t, <1>4, ItemsTyped
<1>5. CASE MailNext(c)
  BY ONLY <1>t, <1>5, MailTyped
<1>6. CASE SummonNext(c)
  BY ONLY <1>t, <1>6, SummonTyped
<1>7. CASE LayoutNext(c)
  BY ONLY <1>t, <1>7, LayoutTyped
<1>8. CASE GroupsNext(c)
  BY ONLY <1>t, <1>8, GroupsTyped
<1>9. CASE GmNext(c)
  BY ONLY <1>t, <1>9, GmTyped
<1> QED
  BY <1>1, <1>2, <1>3, <1>4, <1>5, <1>6, <1>7, <1>8, <1>9 DEF Acts

LEMMA Stays == UNCHANGED vars => (Types => Types')
<1> SUFFICES ASSUME UNCHANGED vars, Types PROVE Types'
  OBVIOUS
<1>1. JobTypes' /\ OwnedTypes' /\ HistoryTypes'
  BY DEF vars, invVars, owned, stock, history, Types, StateTypes, JobTypes, OwnedTypes, HistoryTypes
<1>2. /\ UNCHANGED storeVars /\ UNCHANGED growthVars /\ UNCHANGED itemVars /\ UNCHANGED mailVars
      /\ UNCHANGED summonVars /\ UNCHANGED layoutVars /\ UNCHANGED groupVars /\ UNCHANGED gmVars
  BY DEF vars, layOut
<1> QED
  BY <1>1, <1>2, Unmoved DEF Types, StateTypes

LEMMA TypesStep == Types /\ [Next]_vars => Types'
<1> SUFFICES ASSUME Types, [Next]_vars PROVE Types'
  OBVIOUS
<1>1. CASE Next
  <2>1. PICK c \in Conn : Acts(c)
    BY <1>1, Actor
  <2>2. Move(c)
    BY ONLY Types, <2>1, ActsMove
  <2>3. JobTypes /\ GrowthTypes /\ LayoutTypes
    BY DEF Types, StateTypes
  <2>4. JobTypes'
    BY ONLY <2>2, <2>3, JobsTyped
  <2>5. StateTypes'
    BY ONLY Types, <2>1, StateKept
  <2> QED
    BY <2>4, <2>5 DEF Types
<1>2. CASE UNCHANGED vars
  BY <1>2, Stays
<1> QED
  BY <1>1, <1>2

LEMMA TypesMeanTypeOK == Types => TypeOK
<1> SUFFICES ASSUME Types PROVE TypeOK
  OBVIOUS
<1>1. \A c \in Conn : \A i \in DOMAIN job[c] : job[c][i].n \in Int
  BY DEF Types, JobTypes, ToSet, Fits
<1> QED
  BY <1>1 DEF TypeOK, Types, StateTypes, OwnedTypes, HistoryTypes, StoreTypes, GrowthTypes, ItemTypes,
              MailTypes, SummonTypes, LayoutTypes, GroupTypes, GmTypes

\* Whatever is asked for, in numbers above, at or below zero, and however the
\* statements interleave, every column and every pending statement has its type:
\* only what gives and only what takes is Nat, for Ordered turns the rest round.
THEOREM TypeCorrect == Spec => []TypeOK
<1>1. Types /\ [Next]_vars => Types'
  BY TypesStep
<1>2. Init => Types
  BY TypesStart
<1>3. Types => TypeOK
  BY TypesMeanTypeOK
<1> QED
  BY <1>1, <1>2, <1>3, PTL DEF Spec

-----------------------------------------------------------------------------
(* What every move does to the jobs.                                       *)

\* The rare statements that a move can put into the job of its connection.
Brings(c, op) ==
    \/ Begins(c) /\ op \in {"limit", "countBuy", "findTeam", "readMail", "listMails"}
    \/ Decides(c) /\ op = "deduct"
    \/ FindsMail(c) /\ op = "markMail"
    \/ Wears(c) /\ op = "saveWorn"
    \/ FindsTeam(c) /\ op \in {"wipePart", "dropTeam", "newTeam"}
    \/ MakesTeam(c) /\ op = "insertPart"

LEMMA PurchaseOps ==
    ASSUME NEW s, Purchase(s), NEW x \in ToSet(s)
    PROVE /\ x.op \notin Scarce \/ x.op \in {"limit", "countBuy"}
          /\ x.op \notin Lone
<1>1. PICK g \in Goods, n \in Quantity : \E u, w, v :
       /\ Plain(u) /\ Plain(w) /\ Plain(v)
       /\ s = << Stmt("limit", g, n) >> \o u \o w \o << Stmt("countBuy", g, n) >> \o v
  BY DEF Purchase
<1>2. PICK u, w, v :
       /\ Plain(u) /\ Plain(w) /\ Plain(v)
       /\ s = << Stmt("limit", g, n) >> \o u \o w \o << Stmt("countBuy", g, n) >> \o v
  BY <1>1
<1> DEFINE a == << Stmt("limit", g, n) >>  b == << Stmt("countBuy", g, n) >>
<1>3. IsList(a) /\ ToSet(a) = {Stmt("limit", g, n)} /\ IsList(b) /\ ToSet(b) = {Stmt("countBuy", g, n)}
  BY Tuples
<1> HIDE DEF a, b
<1>4. IsList(u) /\ IsList(w) /\ IsList(v)
  BY <1>2 DEF Plain, Fine
<1>5. IsList(a \o u) /\ ToSet(a \o u) = ToSet(a) \cup ToSet(u)
  BY <1>3, <1>4, FineJoin
<1>6. IsList((a \o u) \o w) /\ ToSet((a \o u) \o w) = ToSet(a) \cup ToSet(u) \cup ToSet(w)
  BY <1>4, <1>5, FineJoin
<1>7. IsList(((a \o u) \o w) \o b)
      /\ ToSet(((a \o u) \o w) \o b) = ToSet(a) \cup ToSet(u) \cup ToSet(w) \cup ToSet(b)
  BY <1>3, <1>6, FineJoin
<1>8. ToSet((((a \o u) \o w) \o b) \o v)
        = ToSet(a) \cup ToSet(u) \cup ToSet(w) \cup ToSet(b) \cup ToSet(v)
  BY <1>4, <1>7, FineJoin
<1>9. x \in ToSet(a) \cup ToSet(u) \cup ToSet(w) \cup ToSet(b) \cup ToSet(v)
  BY <1>2, <1>8 DEF a, b
<1>10. Stmt("limit", g, n).op = "limit" /\ Stmt("countBuy", g, n).op = "countBuy"
  BY DEF Stmt
<1>11. \A y \in ToSet(u) \cup ToSet(w) \cup ToSet(v) : y.op \notin Scarce /\ y.op \notin Lone
  BY <1>2, PlainIsTame DEF Tame
<1> QED
  BY <1>3, <1>9, <1>10, <1>11 DEF Lone

\* What the statements that go on with now are.
LEMMA OnwardSet ==
    ASSUME JobTypes, NEW c \in Conn, NEW now, Onward(c, now), IsList(now)
    PROVE /\ job[c] # <<>> /\ job'[c] = now \o Tail(job[c])
          /\ \A d \in Conn \ {c} : job'[d] = job[d]
          /\ IsList(job'[c]) /\ IsList(Tail(job[c]))
          /\ ToSet(job'[c]) = ToSet(now) \cup ToSet(Tail(job[c]))
<1>1. job[c] # <<>> /\ job'[c] = now \o Tail(job[c]) /\ \A d \in Conn \ {c} : job'[d] = job[d]
  BY DEF Onward, JobTypes
<1>2. IsList(Tail(job[c]))
  BY <1>1, HeadFits DEF Fine
<1> QED
  BY <1>1, <1>2, FineJoin

\* The statements of a new team.
LEMMA TeamRows ==
    ASSUME JobTypes, NEW c \in Conn, MakesTeam(c)
    PROVE \E now : Onward(c, now) /\ IsList(now) /\ \A x \in ToSet(now) : x.op = "insertPart"
<1> DEFINE id == lastId + 1  info == What(c)[3]
           now == Rows(id, info, "members") \o Rows(id, info, "equips") \o Rows(id, info, "activity")
<1>1. NewTeam(c)
  BY DEF MakesTeam
<1>2. Onward(c, now) /\ job[c] # <<>> /\ HeadOf(c) = "newTeam"
  BY <1>1, NewTeamRows
<1>3. Whole(info)
  BY <1>2, HeadFits DEF Fits, HeadOf, What
<1> HIDE DEF id, info
<1>4. \A part \in Part : /\ IsList(Rows(id, info, part))
                         /\ \A x \in ToSet(Rows(id, info, part)) : x.op = "insertPart"
  <2> TAKE part \in Part
  <2>1. /\ Fine(Rows(id, info, part))
        /\ ToSet(Rows(id, info, part)) = {Stmt("insertPart", <<id, part, e>>, 0) : e \in ToSet(info[part])}
    BY <1>3, RowsFine
  <2> QED
    BY <2>1 DEF Fine, Stmt
<1> DEFINE a == Rows(id, info, "members")  b == Rows(id, info, "equips")  f == Rows(id, info, "activity")
<1>5. IsList(a) /\ IsList(b) /\ IsList(f) /\ \A x \in ToSet(a) \cup ToSet(b) \cup ToSet(f) : x.op = "insertPart"
  BY <1>4 DEF Part
<1> HIDE DEF a, b, f
<1>6. IsList((a \o b) \o f) /\ ToSet((a \o b) \o f) = ToSet(a) \cup ToSet(b) \cup ToSet(f)
  BY <1>5, FineJoin
<1>7. IsList(now) /\ \A x \in ToSet(now) : x.op = "insertPart"
  BY <1>5, <1>6 DEF a, b, f
<1> HIDE DEF now
<1> QED
  BY <1>2, <1>7

\* The move of each connection: its new job, what is kept of the old one, and
\* which rare statements are new.
LEMMA Newcomers ==
    ASSUME JobTypes, NEW c \in Conn, Move(c)
    PROVE /\ \A d \in Conn \ {c} : job'[d] = job[d]
          /\ job[c] # <<>> /\ ~Stops(c) => ToSet(Tail(job[c])) \subseteq ToSet(job'[c])
          /\ \A x \in ToSet(job'[c]) :
                \/ job[c] # <<>> /\ x \in ToSet(Tail(job[c]))
                \/ x.op \notin Scarce
                \/ Brings(c, x.op)
<1> DEFINE Goal == /\ \A d \in Conn \ {c} : job'[d] = job[d]
                   /\ job[c] # <<>> /\ ~Stops(c) => ToSet(Tail(job[c])) \subseteq ToSet(job'[c])
                   /\ \A x \in ToSet(job'[c]) :
                         \/ job[c] # <<>> /\ x \in ToSet(Tail(job[c]))
                         \/ x.op \notin Scarce
                         \/ Brings(c, x.op)
<1>s. \A s : job' = [job EXCEPT ![c] = s] => job'[c] = s /\ \A d \in Conn \ {c} : job'[d] = job[d]
  BY DEF JobTypes
<1>o. ASSUME NEW now, Onward(c, now), IsList(now), \A x \in ToSet(now) : x.op \notin Scarce \/ Brings(c, x.op)
      PROVE Goal
  <2>1. /\ job[c] # <<>> /\ \A d \in Conn \ {c} : job'[d] = job[d]
        /\ ToSet(job'[c]) = ToSet(now) \cup ToSet(Tail(job[c]))
    BY <1>o, OnwardSet
  <2> QED
    BY <1>o, <2>1
<1>e. Onward(c, <<>>) => Goal
  BY <1>o, Tuples
<1>1. CASE Begins(c)
  <2>1. PICK s : /\ job' = [job EXCEPT ![c] = s]
                 /\ \/ Tame(s) \/ Purchase(s) \/ SaveOfTeam(s)
                    \/ \E op \in {"readMail", "listMails"} : s = << Stmt(op, "mail", 0) >>
    BY <1>1, TameBegins
  <2>2. job'[c] = s /\ \A d \in Conn \ {c} : job'[d] = job[d]
    BY <2>1, <1>s
  <2>3. ASSUME NEW x \in ToSet(s) PROVE x.op \notin Scarce \/ Brings(c, x.op)
    <3>1. CASE Tame(s)
      BY <3>1 DEF Tame
    <3>2. CASE Purchase(s)
      BY <1>1, <3>2, PurchaseOps DEF Brings
    <3>3. CASE SaveOfTeam(s)
      <4>1. x.op \in {"findTeam", "readOrder", "findCommon"}
        <5>1. \A u, v, w : ToSet(<<u, v, w>>) = {u, v, w}
          BY Tuples
        <5> QED
          BY <3>3, <5>1 DEF SaveOfTeam
      <4> QED
        BY <1>1, <4>1 DEF Brings, Scarce
    <3>4. CASE \E op \in {"readMail", "listMails"} : s = << Stmt(op, "mail", 0) >>
      <4>1. x.op \in {"readMail", "listMails"}
        <5>1. \A u : ToSet(<<u>>) = {u}
          BY Tuples
        <5> QED
          BY <3>4, <5>1 DEF Stmt
      <4> QED
        BY <1>1, <4>1 DEF Brings
    <3> QED
      BY <2>1, <3>1, <3>2, <3>3, <3>4
  <2>4. job[c] = <<>>
    BY <1>1 DEF Begins
  <2> QED
    BY <2>2, <2>3, <2>4
<1>2. CASE GoesOn(c)
  BY <1>2, <1>o DEF GoesOn, Tame, Fine
<1>3. CASE PutsLast(c)
  <2>1. PICK last : Tame(last) /\ job' = [job EXCEPT ![c] = Tail(job[c]) \o last]
    BY <1>3, PlainIsTame DEF PutsLast
  <2>2. job[c] # <<>> /\ job'[c] = Tail(job[c]) \o last /\ \A d \in Conn \ {c} : job'[d] = job[d]
    BY <1>3, <2>1, <1>s DEF PutsLast
  <2>3. IsList(Tail(job[c])) /\ IsList(last)
    BY <2>1, <2>2, HeadFits DEF Tame, Fine
  <2>4. ToSet(job'[c]) = ToSet(Tail(job[c])) \cup ToSet(last)
    BY <2>2, <2>3, FineJoin
  <2> QED
    BY <2>1, <2>2, <2>4 DEF Tame
<1>4. CASE Stops(c)
  <2>1. job'[c] = <<>> /\ \A d \in Conn \ {c} : job'[d] = job[d]
    BY <1>4, <1>s DEF Stops
  <2> QED
    BY <1>4, <2>1, Tuples
<1>5. CASE Decides(c)
  <2> DEFINE new == Stmt("deduct", What(c), Amount(c))
  <2>1. IsList(<< new >>) /\ ToSet(<< new >>) = {new} /\ new.op = "deduct"
    BY Tuples DEF Stmt
  <2> QED
    BY <1>5, <2>1, <1>o DEF Decides, Brings
<1>6. CASE FindsMail(c)
  <2>1. PICK now : Onward(c, now) /\ Fine(now) /\ Within(now, GiftWork)
    BY <1>6 DEF FindsMail
  <2>2. \A x \in ToSet(now) : x.op \notin Scarce \/ x.op = "markMail"
    BY <2>1 DEF Within, GiftWork, Scarce
  <2> QED
    BY <1>6, <2>1, <2>2, <1>o DEF Brings, Fine
<1>7. CASE Wears(c)
  <2> DEFINE new == On("saveWorn", HeroOf(c), TemplateOf(c), Detail(c))
  <2>1. IsList(<< new >>) /\ ToSet(<< new >>) = {new} /\ new.op = "saveWorn"
    BY Tuples DEF On, Stmt
  <2> QED
    BY <1>7, <2>1, <1>o DEF Wears, Brings
<1>8. CASE FindsTeam(c)
  <2>1. PICK now : Onward(c, now) /\ Fine(now) /\ Within(now, {"wipePart", "dropTeam", "newTeam"})
    BY <1>8 DEF FindsTeam
  <2> QED
    BY <1>8, <2>1, <1>o DEF Brings, Fine, Within
<1>9. CASE MakesTeam(c)
  <2>1. PICK now : Onward(c, now) /\ IsList(now) /\ \A x \in ToSet(now) : x.op = "insertPart"
    BY <1>9, TeamRows
  <2> QED
    BY <1>9, <2>1, <1>o DEF Brings
<1> QED
  BY <1>1, <1>2, <1>3, <1>4, <1>5, <1>6, <1>7, <1>8, <1>9, <1>e
     DEF Move, Deducts, MarksMail, PassesLimit, Counts, SavesWorn, ChangesTeam

\* Faults are counted up and overlaps remembered; a request that finds another
\* one being served overlaps it.
LEMMA Counters ==
    ASSUME JobTypes, HistoryTypes, NEW c \in Conn, Move(c)
    PROVE /\ faults' \in Nat /\ faults <= faults' /\ overlapped' \in BOOLEAN
          /\ overlapped => overlapped'
          /\ ~overlapped' /\ job[c] = <<>> => \A d \in Conn : job[d] = <<>>
<1>1. \/ faults' = faults + 1 /\ overlapped' = overlapped /\ job[c] # <<>>
      \/ faults' = faults /\ overlapped' = overlapped /\ job[c] # <<>>
      \/ faults' = faults /\ overlapped' = (overlapped \/ \E d \in Conn : job[d] # <<>>)
  BY DEF Move, Begins, GoesOn, PutsLast, Stops, Decides, Deducts, FindsMail, MarksMail, PassesLimit, Counts,
         Wears, SavesWorn, FindsTeam, ChangesTeam, MakesTeam, Same, Onward, NewTeam, At, GiftWork
<1>2. faults \in Nat /\ overlapped \in BOOLEAN
  BY DEF HistoryTypes
<1>3. faults' \in Nat /\ faults <= faults'
  BY <1>1, <1>2
<1>4. overlapped' \in BOOLEAN /\ (overlapped => overlapped')
  BY <1>1, <1>2, Zenon
<1>5. ~overlapped' /\ job[c] = <<>> => \A d \in Conn : job[d] = <<>>
  BY <1>1, Zenon
<1> QED
  BY <1>3, <1>4, <1>5

\* As long as nothing overlaps, one request is served at a time.
Lonely == ~overlapped => \A c, d \in Conn : job[c] # <<>> /\ job[d] # <<>> => c = d

LEMMA LonelyStep ==
    ASSUME JobTypes, HistoryTypes, NEW c \in Conn, Move(c), Lonely
    PROVE Lonely'
<1> SUFFICES ASSUME ~overlapped' PROVE \A a, b \in Conn : job'[a] # <<>> /\ job'[b] # <<>> => a = b
  BY DEF Lonely
<1>1. ~overlapped /\ (job[c] = <<>> => \A d \in Conn : job[d] = <<>>)
  BY Counters
<1>2. \A d \in Conn \ {c} : job'[d] = job[d]
  BY Newcomers
<1>3. \A d \in Conn \ {c} : job[d] = <<>>
  BY <1>1 DEF Lonely
<1> QED
  BY <1>2, <1>3

-----------------------------------------------------------------------------
(* Mail.                                                                   *)

\* A job that finds a mail does nothing else until it has found it, and then only
\* what a mail does; the other jobs neither find nor mark one.
Asks(s) == \E op \in {"readMail", "listMails"} : s = << Stmt(op, "mail", 0) >>
Apart(s) == \A x \in ToSet(s) : x.op \notin {"readMail", "listMails", "markMail"}
MailJob(s) == Asks(s) \/ Within(s, GiftWork) \/ Apart(s)

\* The connections that have delivered the mail and are still to mark it.
Marking == {c \in Conn : \E x \in ToSet(job[c]) : x.op = "markMail"}

Deliveries ==
    deliveries <= faults + (IF claimed THEN (IF overlapped THEN Cardinality(Conn) ELSE 1)
                            ELSE Cardinality(Marking))

MailInv == (\A c \in Conn : MailJob(job[c])) /\ Deliveries

\* No more than all of them mark it, and only one as long as nothing overlaps.
LEMMA FewMark ==
    ASSUME Lonely, NEW c \in Conn
    PROVE /\ IsFiniteSet(Marking) /\ Cardinality(Marking) \in Nat /\ Cardinality(Conn) \in Nat
          /\ Cardinality(Marking) <= IF overlapped THEN Cardinality(Conn) ELSE 1
          /\ 1 <= Cardinality(Conn)
<1>1. IsFiniteSet(Conn) /\ Marking \subseteq Conn
  BY InventoryAssumption DEF Marking
<1>2. IsFiniteSet(Marking) /\ Cardinality(Marking) \in Nat /\ Cardinality(Conn) \in Nat
      /\ Cardinality(Marking) <= Cardinality(Conn)
  BY <1>1, FS_Subset, FS_CardinalityType
<1>3. IsFiniteSet({c}) /\ Cardinality({c}) = 1
  BY FS_Singleton
<1>4. 1 <= Cardinality(Conn)
  <2>1. {c} \subseteq Conn
    OBVIOUS
  <2>2. Cardinality({c}) <= Cardinality(Conn)
    BY <1>1, <2>1, FS_Subset
  <2> QED
    BY <1>3, <2>2
<1>5. ~overlapped => Cardinality(Marking) <= 1
  <2> SUFFICES ASSUME ~overlapped PROVE Cardinality(Marking) <= 1
    OBVIOUS
  <2>1. \A a, b \in Marking : a = b
    <3>1. \A a \in Marking : a \in Conn /\ job[a] # <<>>
      BY Tuples DEF Marking
    <3> QED
      BY <3>1 DEF Lonely
  <2>2. CASE Marking = {}
    BY <2>2, FS_EmptySet
  <2>3. CASE Marking # {}
    <3>1. PICK a \in Marking : TRUE
      BY <2>3
    <3>2. Marking = {a}
      BY <2>1, <3>1
    <3> QED
      BY <3>2, FS_Singleton
  <2> QED
    BY <2>2, <2>3
<1> QED
  BY <1>2, <1>4, <1>5

LEMMA MailJobKept ==
    ASSUME JobTypes, NEW c \in Conn, Move(c), MailJob(job[c])
    PROVE MailJob(job'[c])
<1>n. \A x \in ToSet(job'[c]) : \/ job[c] # <<>> /\ x \in ToSet(Tail(job[c]))
                                \/ x.op \notin Scarce
                                \/ Brings(c, x.op)
  BY Newcomers
<1>h. job[c] # <<>> => Head(job[c]) \in ToSet(job[c]) /\ ToSet(Tail(job[c])) \subseteq ToSet(job[c])
  BY HeadFits
<1>a. job[c] # <<>> /\ Asks(job[c]) => ToSet(Tail(job[c])) = {} /\ HeadOf(c) \in {"readMail", "listMails"}
  <2>1. \A x : Tail(<<x>>) = <<>> /\ Head(<<x>>) = x
    OBVIOUS
  <2> QED
    BY <2>1, Tuples DEF Asks, Stmt, HeadOf
<1>1. CASE Begins(c)
  <2>1. PICK s : /\ job' = [job EXCEPT ![c] = s]
                 /\ \/ Tame(s) \/ Purchase(s) \/ SaveOfTeam(s)
                    \/ \E op \in {"readMail", "listMails"} : s = << Stmt(op, "mail", 0) >>
    BY <1>1, TameBegins
  <2>2. job'[c] = s
    BY <2>1 DEF JobTypes
  <2>3. Tame(s) => Apart(s)
    BY DEF Tame, Apart, Scarce
  <2>4. Purchase(s) => Apart(s)
    BY PurchaseOps DEF Apart, Scarce
  <2>5. SaveOfTeam(s) => Apart(s)
    <3>1. \A u, v, w : ToSet(<<u, v, w>>) = {u, v, w}
      BY Tuples
    <3> QED
      BY <3>1 DEF SaveOfTeam, Apart
  <2> QED
    BY <2>1, <2>2, <2>3, <2>4, <2>5 DEF MailJob, Asks
<1>2. CASE FindsMail(c)
  <2>1. PICK now : Onward(c, now) /\ Fine(now) /\ Within(now, GiftWork)
    BY <1>2 DEF FindsMail
  <2>2. job[c] # <<>> /\ ToSet(job'[c]) = ToSet(now) \cup ToSet(Tail(job[c]))
    BY <2>1, OnwardSet DEF Fine
  <2>3. Asks(job[c])
    BY <1>2, <1>h, <2>2 DEF FindsMail, HeadOf, MailJob, Within, GiftWork, Apart
  <2>4. Within(job'[c], GiftWork)
    BY <1>a, <2>1, <2>2, <2>3 DEF Within
  <2> QED
    BY <2>4 DEF MailJob
<1>3. CASE Stops(c)
  <2>1. job'[c] = <<>>
    BY <1>3 DEF Stops, JobTypes
  <2> QED
    BY <2>1, Tuples DEF MailJob, Apart
<1>4. CASE ~Begins(c) /\ ~FindsMail(c) /\ ~Stops(c)
  <2>0. job[c] # <<>>
    BY <1>4 DEF Move, GoesOn, PutsLast, Decides, Deducts, MarksMail, PassesLimit, Counts,
                Wears, SavesWorn, FindsTeam, ChangesTeam, MakesTeam, Onward, NewTeam, At
  <2>1. CASE Asks(job[c])
    <3>1. MarksMail(c) \/ Counts(c) \/ Deducts(c) \/ Decides(c) \/ PassesLimit(c) \/ GoesOn(c) \/ PutsLast(c)
          \/ Wears(c) \/ SavesWorn(c) \/ FindsTeam(c) \/ ChangesTeam(c) \/ MakesTeam(c)
      BY <1>4 DEF Move
    <3>2. HeadOf(c) = "newTeam" \/ ~MakesTeam(c)
      BY DEF MakesTeam
    <3> QED
      BY <2>0, <2>1, <3>1, <3>2, <1>a DEF MarksMail, Counts, Deducts, Decides, PassesLimit, GoesOn, PutsLast,
         Wears, SavesWorn, FindsTeam, ChangesTeam, Scarce
  <2>2. CASE Apart(job[c])
    <3>1. \A x \in ToSet(job'[c]) : x.op \notin {"readMail", "listMails", "markMail"}
      BY <1>4, <1>n, <1>h, <2>2 DEF Apart, Brings, Scarce
    <3> QED
      BY <3>1 DEF MailJob, Apart
  <2>3. CASE Within(job[c], GiftWork)
    <3>1. HeadOf(c) \in GiftWork
      BY <2>0, <2>3, <1>h DEF Within, HeadOf
    <3>2. \E now : Onward(c, now) /\ IsList(now) /\ Within(now, GiftWork)
      <4>1. CASE GoesOn(c)
        BY <3>1, <4>1 DEF GoesOn, Tame, Fine
      <4>2. CASE Onward(c, <<>>)
        BY <4>2, Tuples, Nothing2Do
      <4>3. ~PutsLast(c) /\ ~Decides(c) /\ ~Wears(c) /\ ~FindsTeam(c) /\ ~MakesTeam(c)
        BY <3>1 DEF PutsLast, Decides, Wears, FindsTeam, MakesTeam, GiftWork
      <4> QED
        BY <1>4, <4>1, <4>2, <4>3 DEF Move, Deducts, MarksMail, PassesLimit, Counts, SavesWorn, ChangesTeam
    <3>3. Within(job'[c], GiftWork)
      BY <3>2, <2>3, <1>h, OnwardSet DEF Within
    <3> QED
      BY <3>3 DEF MailJob
  <2> QED
    BY <2>1, <2>2, <2>3 DEF MailJob
<1> QED
  BY <1>1, <1>2, <1>3, <1>4

\* Who marks the mail after a move.
LEMMA MarkingNext ==
    ASSUME JobTypes, NEW c \in Conn, Move(c), MailJob(job[c])
    PROVE /\ Marking \ {c} = Marking' \ {c}
          /\ FindsMail(c) => c \notin Marking /\ c \in Marking'
          /\ Stops(c) => c \notin Marking' /\ (c \in Marking => HeadOf(c) \in GiftWork)
          /\ ~FindsMail(c) /\ ~Stops(c) /\ ~MarksMail(c) => Marking' = Marking
<1>1. \A d \in Conn \ {c} : job'[d] = job[d]
  BY Newcomers
<1>2. Marking \ {c} = Marking' \ {c}
  BY <1>1 DEF Marking
<1>3. ASSUME FindsMail(c) PROVE c \notin Marking /\ c \in Marking'
  <2>1. PICK now : Onward(c, now) /\ Fine(now) /\ \E x \in ToSet(now) : x.op = "markMail"
    BY <1>3 DEF FindsMail
  <2>2. job[c] # <<>> /\ ToSet(now) \subseteq ToSet(job'[c])
    BY <2>1, OnwardSet DEF Fine
  <2>3. Head(job[c]) \in ToSet(job[c]) /\ HeadOf(c) \in {"readMail", "listMails"}
    BY <1>3, <2>2, HeadFits DEF FindsMail
  <2>4. Asks(job[c])
    BY <2>3 DEF HeadOf, MailJob, Within, GiftWork, Apart
  <2>5. \A x \in ToSet(job[c]) : x.op # "markMail"
    BY <2>4, Tuples DEF Asks, Stmt
  <2> QED
    BY <2>1, <2>2, <2>5 DEF Marking
<1>4. ASSUME Stops(c) PROVE c \notin Marking' /\ (c \in Marking => HeadOf(c) \in GiftWork)
  <2>1. job[c] # <<>> /\ job'[c] = <<>> /\ Head(job[c]) \in ToSet(job[c])
    BY <1>4, HeadFits DEF Stops, JobTypes
  <2>2. c \notin Marking'
    BY <2>1, Tuples DEF Marking
  <2>3. c \in Marking => Within(job[c], GiftWork)
    <3>1. Asks(job[c]) => \A x \in ToSet(job[c]) : x.op # "markMail"
      <4>1. \A x : ToSet(<<x>>) = {x}
        BY Tuples
      <4> QED
        BY <4>1 DEF Asks, Stmt
    <3>2. Apart(job[c]) => \A x \in ToSet(job[c]) : x.op # "markMail"
      BY DEF Apart
    <3> QED
      BY <3>1, <3>2 DEF Marking, MailJob
  <2> QED
    BY <2>1, <2>2, <2>3 DEF Within, HeadOf
<1>5. ASSUME ~FindsMail(c), ~Stops(c), ~MarksMail(c) PROVE c \in Marking <=> c \in Marking'
  <2>1. \A x \in ToSet(job'[c]) : x.op = "markMail" => job[c] # <<>> /\ x \in ToSet(Tail(job[c]))
    BY <1>5, Newcomers DEF Brings, Scarce
  <2>2. c \in Marking' => c \in Marking
    BY <2>1, HeadFits DEF Marking
  <2>3. ASSUME c \in Marking PROVE c \in Marking'
    <3>1. PICK x \in ToSet(job[c]) : x.op = "markMail"
      BY <2>3 DEF Marking
    <3>2. job[c] # <<>> /\ job[c] \in Seq(ToSet(job[c]))
      BY <3>1, Tuples DEF JobTypes, IsList
    <3>3. x = Head(job[c]) \/ x \in ToSet(Tail(job[c]))
      BY <3>1, <3>2, HeadOrTail DEF IsList
    <3>4. HeadOf(c) # "markMail"
      <4>1. HeadOf(c) = "markMail" => ~Begins(c) /\ ~GoesOn(c) /\ ~PutsLast(c) /\ ~Decides(c) /\ ~Deducts(c)
               /\ ~PassesLimit(c) /\ ~Counts(c) /\ ~Wears(c) /\ ~SavesWorn(c) /\ ~FindsTeam(c) /\ ~ChangesTeam(c)
               /\ ~MakesTeam(c)
        BY <3>2 DEF Begins, GoesOn, PutsLast, Decides, Deducts, PassesLimit, Counts, Wears, SavesWorn,
           FindsTeam, ChangesTeam, MakesTeam, Scarce
      <4> QED
        BY <1>5, <4>1 DEF Move
    <3>5. x \in ToSet(Tail(job[c]))
      BY <3>1, <3>3, <3>4 DEF HeadOf
    <3>6. x \in ToSet(job'[c])
      BY <1>5, <3>2, <3>5, Newcomers
    <3> QED
      BY <3>1, <3>6 DEF Marking
  <2> QED
    BY <2>2, <2>3
<1>6. ~FindsMail(c) /\ ~Stops(c) /\ ~MarksMail(c) => Marking' = Marking
  BY <1>2, <1>5
<1> QED
  BY <1>2, <1>3, <1>4, <1>6

\* A bound stays one when it grows.
LEMMA Bounded ==
    /\ \A d, f, g, n, m \in Nat : d <= f + n /\ f <= g /\ n <= m => d <= g + m
    /\ \A d, f, g, n, m \in Nat : d <= f + n /\ f <= g /\ m = n + 1 => d + 1 <= g + m
    /\ \A d, f, g, n, m \in Nat : d <= f + n /\ g = f + 1 /\ n <= m + 1 => d <= g + m
OBVIOUS

LEMMA MailStepKept ==
    ASSUME JobTypes, HistoryTypes, MailTypes, JobTypes', HistoryTypes', Lonely, MailInv, NEW c \in Conn, Move(c)
    PROVE MailInv'
<1>1. \A d \in Conn : MailJob(job'[d])
  <2>1. \A d \in Conn \ {c} : job'[d] = job[d]
    BY Newcomers
  <2>2. MailJob(job'[c])
    BY MailJobKept DEF MailInv
  <2> QED
    BY <2>1, <2>2 DEF MailInv
<1> DEFINE n == Cardinality(Marking)  np == Cardinality(Marking')
           k == Cardinality(Conn)
           lim == IF overlapped THEN k ELSE 1
           limp == IF overlapped' THEN k ELSE 1
<1>2. n \in Nat /\ k \in Nat /\ IsFiniteSet(Marking) /\ n <= lim /\ 1 <= k
  BY FewMark
<1>3. np \in Nat /\ IsFiniteSet(Marking')
  <2>1. Lonely'
    BY LonelyStep
  <2>2. IsFiniteSet(Conn) /\ Marking' \subseteq Conn
    BY InventoryAssumption DEF Marking
  <2> QED
    BY <2>2, FS_Subset, FS_CardinalityType
<1>4. faults \in Nat /\ faults' \in Nat /\ faults <= faults' /\ lim <= limp /\ deliveries \in Nat
  <2>1. faults' \in Nat /\ faults <= faults' /\ (overlapped => overlapped')
    BY Counters
  <2> HIDE DEF k
  <2>2. lim <= limp
    BY <1>2, <2>1
  <2> QED
    BY <2>1, <2>2 DEF HistoryTypes, MailTypes
<1>5. MailJob(job[c])
  BY DEF MailInv
<1>6. deliveries <= faults + (IF claimed THEN lim ELSE n)
  BY DEF MailInv, Deliveries
<1>g. deliveries' <= faults' + (IF claimed' THEN limp ELSE np) => MailInv'
  BY <1>1 DEF MailInv, Deliveries
<1>h. lim \in Nat /\ limp \in Nat
  <2> HIDE DEF k
  <2> QED
    BY <1>2
<1> HIDE DEF n, np, k, lim, limp
<1>i. n \in Nat /\ np \in Nat
  BY <1>2, <1>3
<1>j. faults \in Nat /\ faults' \in Nat /\ faults <= faults' /\ deliveries \in Nat
  BY <1>4
<1>k. lim \in Nat /\ limp \in Nat /\ lim <= limp /\ n <= lim
  BY <1>2, <1>4, <1>h
<1>7. CASE FindsMail(c)
  <2>1. c \notin Marking /\ Marking' = Marking \cup {c}
    BY <1>5, <1>7, MarkingNext
  <2>2. np = n + 1
    BY <1>2, <2>1, FS_AddElement DEF n, np
  <2>3. ~claimed /\ claimed' = claimed /\ deliveries' = deliveries + 1
    BY <1>7 DEF FindsMail
  <2>4. deliveries <= faults + n /\ deliveries' <= faults' + np => MailInv'
    BY <1>6, <1>g, <2>3
  <2>5. deliveries <= faults + n
    BY <1>6, <2>3
  <2>b. deliveries' = deliveries + 1
    BY <2>3
  <2>6. deliveries' <= faults' + np
    BY <1>i, <1>j, <2>b, <2>2, <2>5, Bounded
  <2> QED
    BY <2>4, <2>5, <2>6
<1>8. CASE Stops(c)
  <2>1. deliveries' = deliveries /\ claimed' = claimed
    BY <1>8 DEF Stops, Kept
  <2>b. deliveries' = deliveries
    BY <2>1
  <2>2. c \notin Marking' /\ (c \in Marking => HeadOf(c) \in GiftWork) /\ Marking \ {c} = Marking' \ {c}
    BY <1>5, <1>8, MarkingNext
  <2>3. Marking' = Marking \ {c}
    BY <2>2
  <2>4. np = IF c \in Marking THEN n - 1 ELSE n
    BY <1>2, <2>3, FS_RemoveElement DEF n, np
  <2>5. c \in Marking => faults' = faults + 1
    BY <1>8, <2>2 DEF Stops
  <2>6. CASE claimed
    <3>0. deliveries <= faults + lim
      BY <1>6, <2>6
    <3>1. deliveries' <= faults' + limp => MailInv'
      BY <1>g, <2>1, <2>6
    <3>2. deliveries' <= faults' + limp
      BY <1>j, <1>k, <2>b, <3>0, Bounded
    <3> QED
      BY <3>1, <3>2
  <2>7. CASE ~claimed
    <3>0. deliveries <= faults + n
      BY <1>6, <2>7
    <3>1. deliveries' <= faults' + np => MailInv'
      BY <1>g, <2>1, <2>7
    <3>2. deliveries' <= faults' + np
      <4>1. CASE c \in Marking
        <5>1. n <= np + 1
          BY <1>i, <2>4, <4>1
        <5> QED
          BY <1>i, <1>j, <2>b, <2>5, <3>0, <4>1, <5>1, Bounded
      <4>2. CASE c \notin Marking
        <5>1. n <= np
          BY <1>i, <2>4, <4>2
        <5> QED
          BY <1>i, <1>j, <2>b, <3>0, <5>1, Bounded
      <4> QED
        BY <4>1, <4>2
    <3> QED
      BY <3>1, <3>2
  <2> QED
    BY <2>6, <2>7
<1>9. CASE MarksMail(c)
  <2>1. deliveries' = deliveries /\ claimed'
    BY <1>9 DEF MarksMail
  <2>b. deliveries' = deliveries
    BY <2>1
  <2>2. deliveries <= faults + lim
    <3>1. claimed => deliveries <= faults + lim
      BY <1>6
    <3>2. ~claimed => deliveries <= faults + n
      BY <1>6
    <3>3. deliveries <= faults + n => deliveries <= faults + lim
      BY <1>i, <1>j, <1>k
    <3> QED
      BY <3>1, <3>2, <3>3
  <2>3. deliveries' <= faults' + limp
    BY <1>j, <1>k, <2>b, <2>2, Bounded
  <2> QED
    BY <1>g, <2>1, <2>3
<1>10. CASE ~FindsMail(c) /\ ~Stops(c) /\ ~MarksMail(c)
  <2>1. np = n
    BY <1>5, <1>10, MarkingNext DEF n, np
  <2>2. deliveries' = deliveries /\ claimed' = claimed
    BY <1>10 DEF Move, Begins, GoesOn, PutsLast, Decides, Deducts, PassesLimit, Counts,
                 Wears, SavesWorn, FindsTeam, ChangesTeam, MakesTeam, Kept
  <2>b. deliveries' = deliveries
    BY <2>2
  <2>6. CASE claimed
    <3>0. deliveries <= faults + lim
      BY <1>6, <2>6
    <3>1. deliveries' <= faults' + limp => MailInv'
      BY <1>g, <2>2, <2>6
    <3>2. deliveries' <= faults' + limp
      BY <1>j, <1>k, <2>b, <3>0, Bounded
    <3> QED
      BY <3>1, <3>2
  <2>7. CASE ~claimed
    <3>0. deliveries <= faults + n
      BY <1>6, <2>7
    <3>1. deliveries' <= faults' + np => MailInv'
      BY <1>g, <2>2, <2>7
    <3>2. deliveries' <= faults' + np
      <4>1. n <= np
        BY <1>i, <2>1
      <4> QED
        BY <1>i, <1>j, <2>b, <3>0, <4>1, Bounded
    <3> QED
      BY <3>1, <3>2
  <2> QED
    BY <2>6, <2>7
<1> QED
  BY <1>7, <1>8, <1>9, <1>10

LEMMA MailInvMeans ==
    ASSUME MailInv, Lonely, HistoryTypes, MailTypes
    PROVE MailDeliveredOnce
<1>0. faults \in Nat /\ deliveries \in Nat /\ Cardinality(Conn) \in Nat
  BY InventoryAssumption, FS_CardinalityType DEF HistoryTypes, MailTypes
<1>1. CASE Conn = {}
  <2>1. Marking = {} /\ Cardinality({}) = 0
    BY <1>1, FS_EmptySet DEF Marking
  <2>2. deliveries <= faults + (IF claimed THEN (IF overlapped THEN Cardinality(Conn) ELSE 1) ELSE 0)
    BY <2>1 DEF MailInv, Deliveries
  <2>3. Cardinality(Conn) = 0
    BY <1>1, <2>1
  <2> QED
    BY <1>0, <2>2, <2>3 DEF MailDeliveredOnce
<1>2. CASE Conn # {}
  <2>1. PICK c \in Conn : TRUE
    BY <1>2
  <2>2. Cardinality(Marking) \in Nat /\ Cardinality(Marking) <= IF overlapped THEN Cardinality(Conn) ELSE 1
    BY FewMark
  <2> QED
    BY <1>0, <2>2 DEF MailInv, Deliveries, MailDeliveredOnce
<1> QED
  BY <1>1, <1>2

MailSafe == Types /\ Lonely /\ MailInv

LEMMA MailStarts == Init => MailSafe
<1> SUFFICES ASSUME Init PROVE MailSafe
  OBVIOUS
<1>1. Types
  BY TypesStart
<1>2. \A c \in Conn : job[c] = <<>>
  BY DEF Init, InventoryInit
<1>3. Lonely
  BY <1>2 DEF Lonely
<1>4. \A c \in Conn : MailJob(job[c])
  BY <1>2, Tuples DEF MailJob, Apart
<1>5. Marking = {} /\ Cardinality({}) = 0
  BY <1>2, Tuples, FS_EmptySet DEF Marking
<1>6. deliveries = 0 /\ faults = 0 /\ claimed = FALSE
  BY DEF Init, InventoryInit, MailInit
<1>7. Deliveries
  <2>1. deliveries <= faults + Cardinality(Marking) => Deliveries
    BY <1>6 DEF Deliveries
  <2>2. deliveries <= faults + Cardinality(Marking)
    BY <1>5, <1>6
  <2> QED
    BY <2>1, <2>2
<1> QED
  BY <1>1, <1>3, <1>4, <1>7 DEF MailSafe, MailInv

LEMMA NextMoves ==
    ASSUME Types, Next
    PROVE \E c \in Conn : Move(c)
<1>1. PICK c \in Conn : Acts(c)
  BY Actor
<1>2. Move(c)
  BY ONLY Types, <1>1, ActsMove
<1> QED
  BY <1>2

LEMMA MailSteps == MailSafe /\ [Next]_vars => MailSafe'
<1> SUFFICES ASSUME MailSafe, [Next]_vars PROVE MailSafe'
  OBVIOUS
<1>1. Types /\ Types'
  BY TypesStep DEF MailSafe
<1>2. Lonely' /\ MailInv'
  <2>1. CASE Next
    <3>1. PICK c \in Conn : Move(c)
      BY <1>1, <2>1, NextMoves
    <3> QED
      BY <1>1, <3>1, LonelyStep, MailStepKept DEF MailSafe, Types, StateTypes
  <2>2. CASE UNCHANGED vars
    <3>1. job' = job /\ overlapped' = overlapped /\ faults' = faults /\ claimed' = claimed /\ deliveries' = deliveries
      BY <2>2 DEF vars, invVars, history, mailVars
    <3>2. Lonely'
      BY <3>1 DEF MailSafe, Lonely
    <3>3. Marking' = Marking
      BY <3>1 DEF Marking
    <3> QED
      BY <3>1, <3>2, <3>3 DEF MailSafe, MailInv, Deliveries
  <2> QED
    BY <2>1, <2>2
<1> QED
  BY <1>1, <1>2 DEF MailSafe

\* A mail reaches the player once, and again only for each reading that failed
\* before it marked the mail and each connection that had read it as unclaimed
\* (mail.rs): whoever delivered it and is still to mark it is counted among them.
THEOREM MailOnce == Spec => []MailDeliveredOnce
<1>1. MailSafe => MailDeliveredOnce
  BY MailInvMeans DEF MailSafe, Types, StateTypes
<1>2. MailSafe /\ [Next]_vars => MailSafe'
  BY MailSteps
<1>3. Init => MailSafe
  BY MailStarts
<1> QED
  BY <1>1, <1>2, <1>3, PTL DEF Spec

-----------------------------------------------------------------------------
(* Debt.                                                                   *)

NoDeduct(s) == \A x \in ToSet(s) : x.op # "deduct"
AboutTo(s) == s # <<>> /\ Head(s).op = "deduct"

\* Of the jobs j, none deducts but with its next statement, and then no more than d.
Orderly(j, d) ==
    \A c \in Conn : j[c] # <<>> => /\ NoDeduct(Tail(j[c]))
                                   /\ AboutTo(j[c]) => Head(j[c]).n \in Nat /\ Head(j[c]).n <= d

\* What the connections are about to deduct of m: each saw that there was enough.
Due(j, m) == [c \in Conn |-> IF AboutTo(j[c]) /\ Head(j[c]).what = m THEN Head(j[c]).n ELSE 0]
Debt(j, m) == SumFunctionOnSet(Due(j, m), Conn)

Floor(lapped, d) == IF lapped THEN 0 - (Cardinality(Conn) - 1) * d ELSE 0
Backed(m) == balance[m] + withdrawn[m]

DebtInv ==
    /\ Orderly(job, dearest)
    /\ \A m \in Material : Backed(m) - Debt(job, m) >= Floor(overlapped, dearest)

LEMMA DueFacts ==
    ASSUME NEW j, NEW d \in Nat, Orderly(j, d), NEW m
    PROVE /\ \A c \in Conn : Due(j, m)[c] \in Nat /\ Due(j, m)[c] <= d
          /\ Debt(j, m) \in Nat
<1>1. \A c \in Conn : Due(j, m)[c] \in Nat /\ Due(j, m)[c] <= d
  <2> TAKE c \in Conn
  <2>1. Due(j, m)[c] = IF AboutTo(j[c]) /\ Head(j[c]).what = m THEN Head(j[c]).n ELSE 0
    BY DEF Due
  <2>2. AboutTo(j[c]) => Head(j[c]).n \in Nat /\ Head(j[c]).n <= d
    BY DEF Orderly, AboutTo
  <2> QED
    BY <2>1, <2>2
<1>2. IsFiniteSet(Conn)
  BY InventoryAssumption
<1> QED
  BY <1>1, <1>2, SumAtLeast DEF Debt

LEMMA LessOf == \A k, a, b \in Nat : a <= b => k * a <= k * b
<1> SUFFICES ASSUME NEW k \in Nat, NEW a \in Nat, NEW b \in Nat, a <= b PROVE k * a <= k * b
  OBVIOUS
<1>1. b - a \in Nat /\ b = a + (b - a)
  OBVIOUS
<1>2. k * (a + (b - a)) = k * a + k * (b - a)
  BY <1>1
<1>3. k * a \in Nat /\ k * (b - a) \in Nat
  BY <1>1
<1> QED
  BY <1>1, <1>2, <1>3

\* The floor only falls.
LEMMA FloorFalls ==
    ASSUME NEW c \in Conn, NEW d \in Nat, NEW e \in Nat, d <= e, NEW o, NEW p, o => p
    PROVE Floor(o, d) \in Int /\ Floor(p, e) \in Int /\ Floor(p, e) <= Floor(o, d)
<1> DEFINE k == Cardinality(Conn) - 1
<1>1. k \in Nat
  <2>1. IsFiniteSet(Conn) /\ IsFiniteSet({c}) /\ {c} \subseteq Conn
    BY InventoryAssumption, FS_Singleton
  <2>2. Cardinality(Conn) \in Nat /\ Cardinality({c}) = 1 /\ Cardinality({c}) <= Cardinality(Conn)
    BY <2>1, FS_Subset, FS_CardinalityType, FS_Singleton
  <2> QED
    BY <2>2
<1>2. Floor(o, d) = (IF o THEN 0 - k * d ELSE 0) /\ Floor(p, e) = (IF p THEN 0 - k * e ELSE 0)
  BY DEF Floor
<1> HIDE DEF k
<1>3. k * d \in Nat /\ k * e \in Nat /\ k * d <= k * e
  BY <1>1, LessOf
<1> QED
  BY <1>2, <1>3

LEMMA Unshifted ==
    \A x, T, s : s \in Seq(T) => Head(<<x>> \o s) = x /\ Tail(<<x>> \o s) = s /\ <<x>> \o s # <<>>
OBVIOUS

\* A move leaves the jobs ordered: but for the connection that decides, the one
\* that moves is not about to deduct.
LEMMA OrderedKept ==
    ASSUME JobTypes, HistoryTypes, JobTypes', NEW c \in Conn, Move(c), Orderly(job, dearest)
    PROVE /\ Orderly(job', dearest') /\ dearest' \in Nat /\ dearest <= dearest'
          /\ \A d \in Conn \ {c} : job'[d] = job[d]
          /\ ~Decides(c) => ~AboutTo(job'[c]) /\ dearest' = dearest
<1>1. \A d \in Conn \ {c} : job'[d] = job[d]
  BY Newcomers
<1>2. dearest \in Nat
  BY DEF HistoryTypes
<1>g. ASSUME dearest' \in Nat, dearest <= dearest',
             job'[c] # <<>> => /\ NoDeduct(Tail(job'[c]))
                               /\ AboutTo(job'[c]) => Head(job'[c]).n \in Nat /\ Head(job'[c]).n <= dearest'
      PROVE Orderly(job', dearest')
  <2> SUFFICES ASSUME NEW d \in Conn, d # c, job'[d] # <<>>
               PROVE /\ NoDeduct(Tail(job'[d]))
                     /\ AboutTo(job'[d]) => Head(job'[d]).n \in Nat /\ Head(job'[d]).n <= dearest'
    BY <1>g DEF Orderly
  <2>1. job'[d] = job[d]
    BY <1>1
  <2>2. NoDeduct(Tail(job[d])) /\ (AboutTo(job[d]) => Head(job[d]).n \in Nat /\ Head(job[d]).n <= dearest)
    BY <2>1 DEF Orderly
  <2>3. \A n, a, b \in Nat : n <= a /\ a <= b => n <= b
    OBVIOUS
  <2> QED
    BY <1>2, <1>g, <2>1, <2>2, <2>3
<1>3. CASE Decides(c)
  <2> DEFINE new == Stmt("deduct", What(c), Amount(c))
  <2>1. job[c] # <<>> /\ job'[c] = << new >> \o Tail(job[c])
    BY <1>3 DEF Decides, Onward, JobTypes
  <2>2. Amount(c) \in Nat
    BY <1>3, <2>1, HeadFits DEF Decides, HeadOf, Fits, CountOps, Amount
  <2>3. dearest' = Max({dearest, Amount(c)})
    BY <1>3 DEF Decides
  <2>4. dearest' \in Nat /\ dearest <= dearest' /\ Amount(c) <= dearest'
    <3>1. Max({dearest, Amount(c)}) \in Nat /\ dearest <= Max({dearest, Amount(c)})
          /\ Amount(c) <= Max({dearest, Amount(c)})
      BY <1>2, <2>2, MaxOfTwo
    <3> QED
      BY <2>3, <3>1
  <2>5. Head(job'[c]) = new /\ Tail(job'[c]) = Tail(job[c])
    <3>1. Tail(job[c]) \in Seq(ToSet(Tail(job[c])))
      BY <2>1, HeadFits DEF Fine, IsList
    <3>2. \A x, T, s : s \in Seq(T) => Head(<<x>> \o s) = x /\ Tail(<<x>> \o s) = s
      BY Unshifted
    <3> QED
      BY <2>1, <3>1, <3>2
  <2>6. NoDeduct(Tail(job[c])) /\ new.n = Amount(c)
    BY <2>1 DEF Orderly, Stmt
  <2>7. Orderly(job', dearest')
    BY <1>g, <2>2, <2>4, <2>5, <2>6
  <2> QED
    BY <1>1, <1>3, <2>4, <2>7
<1>4. CASE ~Decides(c)
  <2>1. dearest' = dearest
    BY <1>4 DEF Move, Begins, GoesOn, PutsLast, Stops, Deducts, FindsMail, MarksMail, PassesLimit, Counts,
                Wears, SavesWorn, FindsTeam, ChangesTeam, MakesTeam, NewTeam
  <2>2. \A x \in ToSet(job'[c]) : (job[c] # <<>> /\ x \in ToSet(Tail(job[c]))) \/ x.op # "deduct"
    BY <1>4, Newcomers DEF Brings, Scarce
  <2>3. NoDeduct(job'[c])
    BY <2>2 DEF Orderly, NoDeduct
  <2>4. job'[c] # <<>> => Head(job'[c]) \in ToSet(job'[c]) /\ ToSet(Tail(job'[c])) \subseteq ToSet(job'[c])
    BY TailSet DEF JobTypes
  <2>5. ~AboutTo(job'[c]) /\ (job'[c] # <<>> => NoDeduct(Tail(job'[c])))
    BY <2>3, <2>4 DEF NoDeduct, AboutTo
  <2>6. dearest' \in Nat /\ dearest <= dearest'
    <3>1. dearest <= dearest
      BY <1>2
    <3> QED
      BY <1>2, <2>1, <3>1
  <2>7. Orderly(job', dearest')
    BY <1>g, <2>5, <2>6
  <2> QED
    BY <1>1, <1>4, <2>1, <2>5, <2>6, <2>7
<1> QED
  BY <1>3, <1>4

\* What is backed and owed, before and after.
LEMMA StillBacked ==
    /\ \A b, bn, s, sn, f, fn \in Int : b - s >= f /\ b <= bn /\ sn <= s /\ fn <= f => bn - sn >= fn
    /\ \A b, w, sn, a, fn \in Int : b >= a /\ w >= 0 /\ sn - a <= 0 - fn => (b + w) - sn >= fn
OBVIOUS

LEMMA DebtStep ==
    ASSUME JobTypes, StateTypes, JobTypes', StateTypes', Lonely, Lonely', DebtInv, NEW c \in Conn, Move(c)
    PROVE DebtInv'
<1>t. HistoryTypes /\ OwnedTypes /\ GmTypes /\ HistoryTypes' /\ OwnedTypes' /\ GmTypes'
  BY DEF StateTypes
<1>o. Orderly(job, dearest)
  BY DEF DebtInv
<1>1. /\ Orderly(job', dearest') /\ dearest' \in Nat /\ dearest <= dearest'
      /\ \A d \in Conn \ {c} : job'[d] = job[d]
      /\ ~Decides(c) => ~AboutTo(job'[c]) /\ dearest' = dearest
  BY <1>t, <1>o, OrderedKept
<1>2. dearest \in Nat /\ (overlapped => overlapped')
  BY <1>t, Counters DEF HistoryTypes
<1> SUFFICES ASSUME NEW m \in Material
             PROVE Backed(m)' - Debt(job', m) >= Floor(overlapped', dearest')
  BY <1>1 DEF DebtInv
<1>3. Floor(overlapped, dearest) \in Int /\ Floor(overlapped', dearest') \in Int
      /\ Floor(overlapped', dearest') <= Floor(overlapped, dearest)
  BY <1>1, <1>2, FloorFalls
<1>4. Backed(m) - Debt(job, m) >= Floor(overlapped, dearest)
  BY DEF DebtInv
<1> DEFINE old == Due(job, m)  new == Due(job', m)
<1>5. \A d \in Conn : old[d] \in Nat /\ old[d] <= dearest
  BY <1>2, <1>o, DueFacts
<1>6. \A d \in Conn : new[d] \in Nat /\ new[d] <= dearest'
  BY <1>1, DueFacts
<1>7. \A d \in Conn \ {c} : new[d] = old[d]
  BY <1>1 DEF Due
<1>8. /\ Debt(job', m) = Debt(job, m) - old[c] + new[c]
      /\ Debt(job, m) \in Int /\ Debt(job', m) \in Int
  <2>1. \A d \in Conn : old[d] \in Int /\ new[d] \in Int
    BY <1>5, <1>6
  <2>2. IsFiniteSet(Conn)
    BY InventoryAssumption
  <2> HIDE DEF old, new
  <2>3. /\ SumFunctionOnSet(new, Conn) = SumFunctionOnSet(old, Conn) - old[c] + new[c]
        /\ SumFunctionOnSet(old, Conn) \in Int /\ SumFunctionOnSet(new, Conn) \in Int
    BY <1>7, <2>1, <2>2, SumChange
  <2> QED
    BY <2>3 DEF Debt, old, new
<1>9. old[c] = (IF AboutTo(job[c]) /\ What(c) = m THEN Amount(c) ELSE 0)
      /\ new[c] = (IF AboutTo(job'[c]) /\ Head(job'[c]).what = m THEN Head(job'[c]).n ELSE 0)
  BY DEF Due, What, Amount
<1>10. balance[m] \in Int /\ withdrawn[m] \in Nat /\ Backed(m) \in Int /\ Backed(m)' \in Int
  <2>1. balance[m] \in Int /\ withdrawn[m] \in Nat /\ balance'[m] \in Int /\ withdrawn'[m] \in Nat
    BY <1>t DEF OwnedTypes, GmTypes
  <2>2. \A a \in Int, b \in Nat : a + b \in Int
    OBVIOUS
  <2> QED
    BY <2>1, <2>2 DEF Backed
<1>11. old[c] \in Nat /\ new[c] \in Nat
  BY <1>5, <1>6
<1>12. CASE ~Decides(c) /\ ~Deducts(c)
  <2>1. new[c] = 0
    BY <1>1, <1>9, <1>12
  <2>2. Debt(job', m) <= Debt(job, m)
    <3> HIDE DEF old, new
    <3>1. Debt(job', m) = Debt(job, m) - old[c] + 0
      BY <1>8, <2>1
    <3>2. \A a \in Int, b \in Nat : a - b + 0 <= a
      OBVIOUS
    <3> QED
      BY <1>8, <1>11, <3>1, <3>2
  <2>3. Backed(m) <= Backed(m)'
    <3>1. CASE NoLess
      <4>1. balance'[m] + withdrawn'[m] >= balance[m] + withdrawn[m]
        BY <3>1 DEF NoLess
      <4> QED
        BY <1>10, <4>1 DEF Backed
    <3>2. CASE UNCHANGED <<balance, withdrawn>>
      <4>1. Backed(m)' = Backed(m)
        BY <3>2 DEF Backed
      <4>2. \A a \in Int : a <= a
        OBVIOUS
      <4> QED
        BY <1>10, <4>1, <4>2
    <3> QED
      BY <1>12, <3>1, <3>2
         DEF Move, Begins, GoesOn, PutsLast, Stops, FindsMail, MarksMail, PassesLimit, Counts,
             Wears, SavesWorn, FindsTeam, ChangesTeam, MakesTeam
  <2> HIDE DEF old, new
  <2> QED
    BY <1>3, <1>4, <1>8, <1>10, <2>2, <2>3, StillBacked
<1>13. CASE Deducts(c)
  <2>1. ~Decides(c) /\ AboutTo(job[c])
    BY <1>13 DEF Deducts, Decides, AboutTo, HeadOf, Onward
  <2>2. new[c] = 0 /\ old[c] = IF What(c) = m THEN Amount(c) ELSE 0
    BY <1>1, <1>9, <2>1
  <2>3. balance' = [balance EXCEPT ![What(c)] = @ - Amount(c)]
    BY <1>13 DEF Deducts
  <2>4. balance'[m] = balance[m] - old[c]
    <3>1. DOMAIN balance = Material
      BY <1>t DEF OwnedTypes
    <3>2. balance'[m] = IF What(c) = m THEN balance[m] - Amount(c) ELSE balance[m]
      BY <2>3, <3>1
    <3> QED
      BY <1>10, <2>2, <3>2
  <2> HIDE DEF old, new
  <2>5. Backed(m)' = Backed(m) - old[c]
    <3>1. Backed(m)' = (balance[m] - old[c]) + withdrawn[m]
      BY <1>13, <2>4 DEF Backed, Deducts
    <3> QED
      BY <1>10, <1>11, <3>1 DEF Backed
  <2>6. Debt(job', m) = Debt(job, m) - old[c]
    BY <1>8, <1>11, <2>2
  <2>7. \A b, bn, s, sn, f, fn \in Int, a \in Nat :
           b - s >= f /\ bn = b - a /\ sn = s - a /\ fn <= f => bn - sn >= fn
    OBVIOUS
  <2> QED
    BY <1>3, <1>4, <1>8, <1>10, <1>11, <2>5, <2>6, <2>7
<1>14. CASE Decides(c)
  <2>1. /\ job[c] # <<>> /\ HeadOf(c) \in {"take", "pay"}
        /\ balance[What(c)] >= Amount(c) \/ What(c) \notin Material
        /\ job'[c] = << Stmt("deduct", What(c), Amount(c)) >> \o Tail(job[c])
        /\ UNCHANGED <<balance, withdrawn>>
    BY <1>14 DEF Decides, Onward, JobTypes
  <2>2. Head(job'[c]) = Stmt("deduct", What(c), Amount(c))
    <3>1. Tail(job[c]) \in Seq(ToSet(Tail(job[c])))
      BY <2>1, HeadFits DEF Fine, IsList
    <3> QED
      BY <2>1, <3>1, Unshifted
  <2>3. old[c] = 0 /\ new[c] \in {0, Amount(c)} /\ (new[c] # 0 => What(c) = m /\ new[c] = Amount(c))
    BY <1>9, <2>1, <2>2 DEF AboutTo, HeadOf, Stmt
  <2>4. Backed(m)' = Backed(m)
    BY <2>1 DEF Backed
  <2>5. CASE new[c] = 0
    <3> HIDE DEF old, new
    <3>1. Debt(job', m) <= Debt(job, m) /\ Backed(m) <= Backed(m)'
      <4>1. Debt(job', m) = Debt(job, m) - 0 + 0
        BY <1>8, <2>3, <2>5
      <4>2. \A a \in Int : a - 0 + 0 <= a /\ a <= a
        OBVIOUS
      <4> QED
        BY <1>8, <1>10, <2>4, <4>1, <4>2
    <3> QED
      BY <1>3, <1>4, <1>8, <1>10, <3>1, StillBacked
  <2>6. CASE new[c] # 0
    <3>1. balance[m] >= new[c]
      BY <2>1, <2>3, <2>6
    <3>2. Debt(job', m) - new[c] <= 0 - Floor(overlapped', dearest')
      <4>1. IsFiniteSet(Conn)
        BY InventoryAssumption
      <4>2. /\ Debt(job', m) - new[c] <= (Cardinality(Conn) - 1) * dearest'
            /\ (\A d \in Conn \ {c} : new[d] = 0) => Debt(job', m) = new[c]
        <5> HIDE DEF new
        <5>1. PICK K \in Nat : K = dearest'
          BY <1>1
        <5>2. /\ SumFunctionOnSet(new, Conn) - new[c] <= (Cardinality(Conn) - 1) * K
              /\ (\A d \in Conn \ {c} : new[d] = 0) => SumFunctionOnSet(new, Conn) = new[c]
          BY <1>6, <4>1, <5>1, SumOfOthers
        <5> QED
          BY <5>1, <5>2 DEF Debt, new
      <4>3. CASE overlapped'
        <5>1. Floor(overlapped', dearest') = 0 - (Cardinality(Conn) - 1) * dearest'
          BY <4>3 DEF Floor
        <5>2. PICK K \in Nat : K = dearest'
          BY <1>1
        <5>3. Cardinality(Conn) \in Nat
          BY <4>1, FS_CardinalityType
        <5>4. (Cardinality(Conn) - 1) * K = 0 - (0 - (Cardinality(Conn) - 1) * K)
          BY <5>2, <5>3
        <5> QED
          BY <4>2, <5>1, <5>2, <5>4
      <4>4. CASE ~overlapped'
        <5>1. Floor(overlapped', dearest') = 0
          BY <4>4 DEF Floor
        <5>2. job'[c] # <<>>
          <6>1. Tail(job[c]) \in Seq(ToSet(Tail(job[c])))
            BY <2>1, HeadFits DEF Fine, IsList
          <6> QED
            BY <2>1, <6>1, Unshifted
        <5>3. \A d \in Conn \ {c} : job'[d] = <<>>
          BY <4>4, <5>2 DEF Lonely
        <5>4. \A d \in Conn \ {c} : new[d] = 0
          BY <5>3 DEF Due, AboutTo
        <5> HIDE DEF new
        <5>5. Debt(job', m) = new[c]
          BY <4>2, <5>4
        <5> QED
          BY <1>11, <5>1, <5>5
      <4> QED
        BY <4>3, <4>4
    <3> HIDE DEF old, new
    <3>3. (balance[m] + withdrawn[m]) - Debt(job', m) >= Floor(overlapped', dearest')
      BY <1>3, <1>8, <1>10, <1>11, <3>1, <3>2, StillBacked
    <3> QED
      BY <2>4, <3>3 DEF Backed
  <2> QED
    BY <2>5, <2>6
<1> QED
  BY <1>12, <1>13, <1>14

LEMMA DebtStarts == Init => DebtInv
<1> SUFFICES ASSUME Init PROVE DebtInv
  OBVIOUS
<1>1. \A c \in Conn : job[c] = <<>>
  BY DEF Init, InventoryInit
<1>2. Orderly(job, dearest)
  BY <1>1 DEF Orderly
<1>3. dearest = 0 /\ overlapped = FALSE /\ balance = Opening /\ withdrawn = [m \in Material |-> 0]
  BY DEF Init, InventoryInit, GmInit
<1>4. ASSUME NEW m \in Material PROVE Backed(m) - Debt(job, m) >= Floor(overlapped, dearest)
  <2>1. \A c \in Conn : Due(job, m)[c] = 0
    BY <1>1 DEF Due, AboutTo
  <2>2. Debt(job, m) = 0
    BY <2>1, InventoryAssumption, SumZero DEF Debt
  <2>3. Backed(m) \in Nat
    BY <1>3, InventoryAssumption DEF Backed
  <2>4. Floor(overlapped, dearest) = 0
    BY <1>3 DEF Floor
  <2> QED
    BY <2>2, <2>3, <2>4
<1> QED
  BY <1>2, <1>4 DEF DebtInv

DebtSafe == Types /\ Lonely /\ DebtInv

LEMMA LonelyStays ==
    ASSUME Types, Lonely, [Next]_vars PROVE Lonely'
<1>1. CASE Next
  BY <1>1, NextMoves, LonelyStep DEF Types, StateTypes
<1>2. CASE UNCHANGED vars
  BY <1>2 DEF vars, invVars, history, Lonely
<1> QED
  BY <1>1, <1>2

LEMMA DebtSteps == DebtSafe /\ [Next]_vars => DebtSafe'
<1> SUFFICES ASSUME DebtSafe, [Next]_vars PROVE DebtSafe'
  OBVIOUS
<1>1. Types /\ Types' /\ Lonely /\ Lonely'
  BY TypesStep, LonelyStays DEF DebtSafe
<1>2. JobTypes /\ StateTypes /\ JobTypes' /\ StateTypes' /\ DebtInv
  BY <1>1 DEF Types, DebtSafe
<1>3. CASE Next
  <2>1. PICK c \in Conn : Move(c)
    BY <1>1, <1>3, NextMoves
  <2> QED
    BY <1>1, <1>2, <2>1, DebtStep DEF DebtSafe
<1>4. CASE UNCHANGED vars
  <2>1. job' = job /\ dearest' = dearest /\ overlapped' = overlapped /\ balance' = balance
        /\ withdrawn' = withdrawn
    BY <1>4 DEF vars, invVars, owned, stock, history, gmVars
  <2>2. DebtInv'
    BY <1>2, <2>1 DEF DebtInv, Backed
  <2> QED
    BY <1>1, <2>2 DEF DebtSafe
<1> QED
  BY <1>3, <1>4

LEMMA DebtSafeMeans == DebtSafe => DebtBounded
<1> SUFFICES ASSUME DebtSafe PROVE DebtBounded
  OBVIOUS
<1>1. TypeOK
  BY TypesMeanTypeOK DEF DebtSafe
<1>2. ASSUME NEW m \in Material PROVE balance[m] + withdrawn[m] >= Floor(overlapped, dearest)
  <2>1. dearest \in Nat /\ balance[m] \in Int /\ withdrawn[m] \in Nat
    BY DEF DebtSafe, Types, StateTypes, HistoryTypes, OwnedTypes, GmTypes
  <2>2. Debt(job, m) \in Nat /\ Backed(m) - Debt(job, m) >= Floor(overlapped, dearest)
    BY <2>1, DueFacts DEF DebtSafe, DebtInv
  <2>3. Floor(overlapped, dearest) \in Int
    <3>1. Cardinality(Conn) \in Nat
      BY InventoryAssumption, FS_CardinalityType
    <3> QED
      BY <2>1, <3>1 DEF Floor
  <2> QED
    BY <2>1, <2>2, <2>3 DEF Backed
<1> QED
  BY <1>1, <1>2 DEF DebtBounded, Floor

\* Apart from what upserts of numbers below zero withdrew, no balance falls below
\* zero as long as the requests come one after the other, and otherwise by no more
\* than what the other connections may be taking: every statement that deducts
\* follows one that saw there was enough (update_quantity), and what is still to be
\* deducted is counted against the balance.
THEOREM DebtStaysBounded == Spec => []DebtBounded
<1>1. Init => DebtSafe
  <2>1. Init => Lonely
    BY DEF Init, InventoryInit, Lonely
  <2> QED
    BY <2>1, TypesStart, DebtStarts DEF DebtSafe
<1>2. DebtSafe /\ [Next]_vars => DebtSafe'
  BY DebtSteps
<1>3. DebtSafe => DebtBounded
  BY DebtSafeMeans
<1> QED
  BY <1>1, <1>2, <1>3, PTL DEF Spec

-----------------------------------------------------------------------------
(* Purchase limits.                                                        *)

LEMMA MostBought ==
    /\ Max(Quantity) \in Nat
    /\ \A n \in Quantity : n \in Int /\ Positive(n) \in Nat /\ Positive(n) <= Max(Quantity)
<1>1. IsFiniteSet(Quantity) /\ Quantity # {} /\ Quantity \subseteq Int /\ \E n \in Quantity : n > 0
  BY StoreAssumption
<1>2. Max(Quantity) \in Quantity /\ \A n \in Quantity : n <= Max(Quantity)
  BY <1>1, MaxIsGreatest
<1> DEFINE most == Max(Quantity)
<1> HIDE DEF most
<1>3. most \in Nat
  <2>1. most \in Int /\ \A n \in Quantity : n <= most
    BY <1>1, <1>2 DEF most
  <2>2. PICK n \in Quantity : n > 0
    BY <1>1
  <2> QED
    BY <1>1, <2>1, <2>2
<1>4. \A n \in Int, k \in Nat : n <= k => Positive(n) \in Nat /\ Positive(n) <= k
  BY DEF Positive
<1> QED
  BY <1>1, <1>2, <1>3, <1>4 DEF most

LEMMA OnceAtMost ==
    ASSUME NEW s, IsList(s), Once(s)
    PROVE \A x, y \in Counting(s) : x = y
<1> SUFFICES ASSUME NEW x \in Counting(s), NEW y \in Counting(s) PROVE x = y
  OBVIOUS
<1>1. DOMAIN s = 1..Len(s)
  BY DEF IsList
<1>2. PICK i \in 1..Len(s) : x = s[i]
  BY <1>1 DEF Counting, ToSet
<1>3. PICK k \in 1..Len(s) : y = s[k]
  BY <1>1 DEF Counting, ToSet
<1> QED
  BY <1>2, <1>3 DEF Once, Counting

\* The rest of a job counts once as well, and not at all once the head has counted.
LEMMA OnceTail ==
    ASSUME NEW s, IsList(s), s # <<>>, Once(s)
    PROVE /\ Once(Tail(s)) /\ Counting(Tail(s)) \subseteq Counting(s)
          /\ Head(s).op = "countBuy" => Counting(Tail(s)) = {}
          /\ Head(s).op # "countBuy" => Counting(Tail(s)) = Counting(s)
<1>1. s \in Seq(ToSet(s)) /\ ToSet(s) = {Head(s)} \cup ToSet(Tail(s))
  BY HeadOrTail DEF IsList
<1>2. /\ Len(Tail(s)) = Len(s) - 1 /\ DOMAIN Tail(s) = 1..Len(Tail(s)) /\ Len(s) \in Nat /\ Len(s) > 0
      /\ \A i \in 1..Len(Tail(s)) : i + 1 \in 1..Len(s) /\ Tail(s)[i] = s[i + 1]
      /\ Head(s) = s[1]
  BY <1>1
<1>3. Once(Tail(s))
  <2> SUFFICES ASSUME NEW i \in 1..Len(Tail(s)), NEW k \in 1..Len(Tail(s)),
                      Tail(s)[i].op = "countBuy", Tail(s)[k].op = "countBuy"
               PROVE i = k
    BY DEF Once
  <2>1. i + 1 = k + 1
    BY <1>2 DEF Once
  <2> QED
    BY <1>2, <2>1
<1>4. ASSUME Head(s).op = "countBuy" PROVE Counting(Tail(s)) = {}
  <2> SUFFICES ASSUME NEW x \in ToSet(Tail(s)), x.op = "countBuy" PROVE FALSE
    BY DEF Counting
  <2>1. PICK i \in 1..Len(Tail(s)) : x = Tail(s)[i]
    BY <1>2 DEF ToSet
  <2>2. 1 \in 1..Len(s) /\ i + 1 \in 1..Len(s) /\ s[i + 1].op = "countBuy" /\ s[1].op = "countBuy"
    BY <1>2, <1>4, <2>1
  <2>3. i + 1 = 1
    BY <2>2 DEF Once
  <2> QED
    BY <1>2, <2>3
<1> QED
  BY <1>1, <1>3, <1>4 DEF Counting

LEMMA OnceJoined ==
    ASSUME NEW s, NEW t, IsList(s), IsList(t), Once(s), Once(t), Counting(s) = {} \/ Counting(t) = {}
    PROVE /\ Once(s \o t) /\ IsList(s \o t)
          /\ Counting(s \o t) = Counting(s) \cup Counting(t)
          /\ Limiting(s \o t) <=> Limiting(s) \/ Limiting(t)
<1>1. s \in Seq(ToSet(s)) /\ t \in Seq(ToSet(t)) /\ IsList(s \o t) /\ ToSet(s \o t) = ToSet(s) \cup ToSet(t)
  BY FineJoin DEF IsList
<1>2. /\ Len(s) \in Nat /\ Len(t) \in Nat /\ Len(s \o t) = Len(s) + Len(t)
      /\ \A i \in 1..Len(s \o t) : (s \o t)[i] = IF i <= Len(s) THEN s[i] ELSE t[i - Len(s)]
      /\ \A i \in 1..Len(s) : s[i] \in ToSet(s)
      /\ \A i \in 1..Len(t) : t[i] \in ToSet(t)
  BY <1>1
<1>3. Once(s \o t)
  <2> SUFFICES ASSUME NEW i \in 1..Len(s \o t), NEW k \in 1..Len(s \o t),
                      (s \o t)[i].op = "countBuy", (s \o t)[k].op = "countBuy"
               PROVE i = k
    BY DEF Once
  <2>1. CASE Counting(s) = {}
    <3>1. \A a \in 1..Len(s) : s[a].op # "countBuy"
      BY <1>2, <2>1 DEF Counting
    <3>2. ~(i <= Len(s)) /\ ~(k <= Len(s))
      BY <1>2, <3>1
    <3>3. i - Len(s) \in 1..Len(t) /\ k - Len(s) \in 1..Len(t)
          /\ t[i - Len(s)].op = "countBuy" /\ t[k - Len(s)].op = "countBuy"
      BY <1>2, <3>2
    <3>4. i - Len(s) = k - Len(s)
      BY <3>3 DEF Once
    <3> QED
      BY <1>2, <3>4
  <2>2. CASE Counting(t) = {}
    <3>1. \A a \in 1..Len(t) : t[a].op # "countBuy"
      BY <1>2, <2>2 DEF Counting
    <3>2. i <= Len(s) /\ k <= Len(s)
      BY <1>2, <3>1
    <3>3. i \in 1..Len(s) /\ k \in 1..Len(s) /\ s[i].op = "countBuy" /\ s[k].op = "countBuy"
      BY <1>2, <3>2
    <3> QED
      BY <3>3 DEF Once
  <2> QED
    BY <2>1, <2>2
<1> QED
  BY <1>1, <1>3 DEF Counting, Limiting

LEMMA FreeOnce == ASSUME NEW s, Free(s) PROVE Once(s)
<1>1. s \in Seq(ToSet(s)) /\ \A i \in 1..Len(s) : s[i] \in ToSet(s)
  BY DEF Free, IsList
<1> QED
  BY <1>1 DEF Free, Once, Counting

LEMMA FreeBuys == ASSUME NEW s, Free(s) PROVE BuyJob(s) /\ \A g : Claim(s, g) = 0
<1>1. s # <<>> => Head(s).op # "limit" /\ ~Limiting(Tail(s))
  BY TailSet DEF Free, Limiting
<1>2. Once(s)
  BY FreeOnce
<1> QED
  BY <1>1, <1>2 DEF Free, BuyJob, Claim

LEMMA TameFree == ASSUME NEW s, Tame(s) PROVE Free(s)
BY DEF Tame, Fine, Free, Counting, Limiting, Scarce

\* What a job claims of its goods is a quantity, or nothing.
LEMMA ClaimTyped ==
    ASSUME NEW s, BuyJob(s), NEW g
    PROVE Claim(s, g) \in Nat /\ Claim(s, g) <= Max(Quantity)
<1> DEFINE k == {x \in Counting(s) : x.what = g}
<1>1. Claim(s, g) = IF Limiting(s) \/ k = {} THEN 0 ELSE Positive((CHOOSE x \in k : TRUE).n)
  BY DEF Claim
<1>2. k # {} => (CHOOSE x \in k : TRUE) \in k
  OBVIOUS
<1>3. k # {} => (CHOOSE x \in k : TRUE).n \in Quantity
  BY <1>2 DEF BuyJob
<1> QED
  BY <1>1, <1>3, MostBought

LEMMA ClaimSame ==
    ASSUME NEW s, NEW t, Counting(s) = Counting(t), Limiting(s) <=> Limiting(t), NEW g
    PROVE Claim(s, g) = Claim(t, g)
BY DEF Claim

\* A purchase, before it has looked at the limit.
LEMMA PurchaseBuys ==
    ASSUME NEW s, Purchase(s)
    PROVE BuyJob(s) /\ \A g : Claim(s, g) = 0
<1>1. PICK g \in Goods, n \in Quantity : \E u, w, v :
       /\ Tame(u) /\ Tame(w) /\ Tame(v)
       /\ s = << Stmt("limit", g, n) >> \o u \o w \o << Stmt("countBuy", g, n) >> \o v
  BY PlainIsTame DEF Purchase
<1>2. PICK u, w, v :
       /\ Tame(u) /\ Tame(w) /\ Tame(v)
       /\ s = << Stmt("limit", g, n) >> \o u \o w \o << Stmt("countBuy", g, n) >> \o v
  BY <1>1
<1> DEFINE look == Stmt("limit", g, n)  count == Stmt("countBuy", g, n)  a == << look >>  b == << count >>
<1>3. /\ IsList(a) /\ ToSet(a) = {look} /\ IsList(b) /\ ToSet(b) = {count} /\ Len(b) = 1
      /\ look.op = "limit" /\ count.op = "countBuy" /\ count.what = g /\ count.n = n
      /\ look.what = g /\ look.n = n
  BY Tuples DEF Stmt
<1> HIDE DEF look, count
<1>4. Counting(a) = {} /\ Limiting(a) /\ Counting(b) = {count} /\ ~Limiting(b)
  BY <1>3 DEF Counting, Limiting
<1> HIDE DEF a, b
<1>5. Free(u) /\ Free(w) /\ Free(v) /\ Once(u) /\ Once(w) /\ Once(v)
  BY <1>2, TameFree, FreeOnce
<1>6. Once(a) /\ Once(b)
  <2>1. \A i, k \in 1..Len(b) : i = k
    BY <1>3
  <2>2. \A i \in 1..Len(a) : a[i] \in ToSet(a)
    BY <1>3 DEF IsList
  <2> QED
    BY <1>4, <2>1, <2>2 DEF Once, Counting
<1>7. IsList(u) /\ IsList(w) /\ IsList(v) /\ Counting(u) = {} /\ Counting(w) = {} /\ Counting(v) = {}
      /\ ~Limiting(u) /\ ~Limiting(w) /\ ~Limiting(v)
  BY <1>5 DEF Free
<1> DEFINE r == ((u \o w) \o b) \o v
<1>8. IsList(u \o w) /\ Once(u \o w) /\ Counting(u \o w) = {} /\ ~Limiting(u \o w)
  BY <1>5, <1>7, OnceJoined
<1>9. IsList((u \o w) \o b) /\ Once((u \o w) \o b) /\ Counting((u \o w) \o b) = {count} /\ ~Limiting((u \o w) \o b)
  BY <1>3, <1>4, <1>6, <1>8, OnceJoined
<1>10. IsList(r) /\ Once(r) /\ Counting(r) = {count} /\ ~Limiting(r)
  BY <1>5, <1>7, <1>9, OnceJoined
<1>11. s = a \o r
  <2>1. s = (((a \o u) \o w) \o b) \o v
    BY <1>2 DEF a, b, look, count
  <2>2. (a \o u) \o w = a \o (u \o w)
    BY <1>3, <1>7, Associates
  <2>3. (a \o (u \o w)) \o b = a \o ((u \o w) \o b)
    BY <1>3, <1>8, Associates
  <2>4. (a \o ((u \o w) \o b)) \o v = a \o (((u \o w) \o b) \o v)
    <3>1. IsList(a) /\ IsList((u \o w) \o b) /\ IsList(v)
      BY <1>3, <1>7, <1>9
    <3> QED
      BY ONLY <3>1, Associates
  <2> QED
    BY <2>1, <2>2, <2>3, <2>4
<1> HIDE DEF r
<1>12. Once(s) /\ Counting(s) = {count} /\ Limiting(s)
  BY <1>3, <1>4, <1>6, <1>10, <1>11, OnceJoined
<1>13. Head(s) = look /\ Tail(s) = r
  BY <1>10, <1>11, Unshifted DEF a, IsList
<1> QED
  BY <1>1, <1>3, <1>10, <1>12, <1>13 DEF BuyJob, Claim

\* How a job that is not begun, stopped or counted goes on.
LEMMA GoesFreely ==
    ASSUME JobTypes, NEW c \in Conn, Move(c), ~Begins(c), ~Stops(c)
    PROVE \/ \E now : Onward(c, now) /\ Free(now)
          \/ PutsLast(c)
<1>1. ASSUME NEW x, x.op = "deduct" \/ x.op = "saveWorn" PROVE Free(<<x>>)
  <2>1. IsList(<<x>>) /\ ToSet(<<x>>) = {x}
    BY Tuples
  <2> QED
    BY <1>1, <2>1 DEF Free, Counting, Limiting
<1>2. Free(<<>>)
  BY Tuples DEF Free, Counting, Limiting
<1>3. CASE GoesOn(c)
  BY <1>3, TameFree DEF GoesOn
<1>4. CASE Decides(c)
  <2>1. Stmt("deduct", What(c), Amount(c)).op = "deduct"
    BY DEF Stmt
  <2> QED
    BY <1>1, <1>4, <2>1 DEF Decides
<1>5. CASE Wears(c)
  <2>1. On("saveWorn", HeroOf(c), TemplateOf(c), Detail(c)).op = "saveWorn"
    BY DEF On, Stmt
  <2> QED
    BY <1>1, <1>5, <2>1 DEF Wears
<1>6. CASE FindsMail(c)
  <2>1. PICK now : Onward(c, now) /\ Fine(now) /\ Within(now, GiftWork)
    BY <1>6 DEF FindsMail
  <2>2. Free(now)
    BY <2>1 DEF Fine, Within, Free, Counting, Limiting, GiftWork
  <2> QED
    BY <2>1, <2>2
<1>7. CASE FindsTeam(c)
  <2>1. PICK now : Onward(c, now) /\ Fine(now) /\ Within(now, {"wipePart", "dropTeam", "newTeam"})
    BY <1>7 DEF FindsTeam
  <2>2. Free(now)
    BY <2>1 DEF Fine, Within, Free, Counting, Limiting
  <2> QED
    BY <2>1, <2>2
<1>8. CASE MakesTeam(c)
  <2>1. PICK now : Onward(c, now) /\ IsList(now) /\ \A x \in ToSet(now) : x.op = "insertPart"
    BY <1>8, TeamRows
  <2>2. Free(now)
    BY <2>1 DEF Free, Counting, Limiting
  <2> QED
    BY <2>1, <2>2
<1>9. CASE Onward(c, <<>>)
  BY <1>2, <1>9
<1> QED
  BY <1>3, <1>4, <1>5, <1>6, <1>7, <1>8, <1>9
     DEF Move, Deducts, MarksMail, PassesLimit, Counts, SavesWorn, ChangesTeam

\* What becomes of a job: it keeps its form, and what it counts is what the rest
\* counted before.
LEMMA BuyJobKept ==
    ASSUME JobTypes, NEW c \in Conn, Move(c), BuyJob(job[c])
    PROVE /\ BuyJob(job'[c])
          /\ Begins(c) \/ Stops(c) => \A g : Claim(job'[c], g) = 0
          /\ ~Begins(c) /\ ~Stops(c) =>
                /\ job[c] # <<>> /\ ~Limiting(job'[c])
                /\ Counting(job'[c]) = Counting(Tail(job[c]))
<1>s. \A s : job' = [job EXCEPT ![c] = s] => job'[c] = s
  BY DEF JobTypes
<1>1. CASE Begins(c)
  <2>1. PICK s : /\ job' = [job EXCEPT ![c] = s]
                 /\ \/ Tame(s) \/ Purchase(s) \/ SaveOfTeam(s)
                    \/ \E op \in {"readMail", "listMails"} : s = << Stmt(op, "mail", 0) >>
    BY <1>1, TameBegins
  <2>2. SaveOfTeam(s) => Free(s)
    <3>1. SUFFICES ASSUME NEW x, NEW y, NEW z, s = <<x, y, z>>, x.op = "findTeam", y.op = "readOrder",
                          z.op = "findCommon"
                   PROVE Free(s)
      BY DEF SaveOfTeam
    <3>2. IsList(<<x, y, z>>) /\ ToSet(<<x, y, z>>) = {x, y, z}
      BY Tuples
    <3> QED
      BY <3>1, <3>2 DEF Free, Counting, Limiting
  <2>3. (\E op \in {"readMail", "listMails"} : s = << Stmt(op, "mail", 0) >>) => Free(s)
    <3>1. \A u : IsList(<<u>>) /\ ToSet(<<u>>) = {u}
      BY Tuples
    <3> QED
      BY <3>1 DEF Stmt, Free, Counting, Limiting
  <2>4. BuyJob(s) /\ \A g : Claim(s, g) = 0
    BY <2>1, <2>2, <2>3, TameFree, FreeBuys, PurchaseBuys
  <2> QED
    BY <1>1, <1>s, <2>1, <2>4
<1>2. CASE Stops(c)
  <2>1. job'[c] = <<>>
    BY <1>2, <1>s DEF Stops
  <2>2. Free(<<>>)
    BY Tuples DEF Free, Counting, Limiting
  <2> QED
    BY <1>2, <2>1, <2>2, FreeBuys
<1>3. CASE ~Begins(c) /\ ~Stops(c)
  <2>1. \E a, b : /\ job[c] # <<>> /\ job'[c] = a \o b
                  /\ \/ Free(a) /\ b = Tail(job[c])
                     \/ a = Tail(job[c]) /\ Free(b)
    <3>1. CASE \E now : Onward(c, now) /\ Free(now)
      BY <1>s, <3>1 DEF Onward
    <3>2. CASE PutsLast(c)
      BY <1>s, <3>2, TameFree, PlainIsTame DEF PutsLast
    <3> QED
      BY <1>3, <3>1, <3>2, GoesFreely
  <2>2. PICK a, b : /\ job[c] # <<>> /\ job'[c] = a \o b
                    /\ \/ Free(a) /\ b = Tail(job[c])
                       \/ a = Tail(job[c]) /\ Free(b)
    BY <2>1
  <2>3. IsList(job[c]) /\ IsList(Tail(job[c]))
    BY <2>2, TailSet DEF JobTypes
  <2>4. /\ Once(Tail(job[c])) /\ Counting(Tail(job[c])) \subseteq Counting(job[c])
        /\ ~Limiting(Tail(job[c]))
    BY <2>2, <2>3, OnceTail DEF BuyJob
  <2>5. IsList(a) /\ IsList(b) /\ Once(a) /\ Once(b) /\ (Counting(a) = {} \/ Counting(b) = {})
        /\ ~Limiting(a) /\ ~Limiting(b) /\ Counting(a) \cup Counting(b) = Counting(Tail(job[c]))
    BY <2>2, <2>3, <2>4, FreeOnce DEF Free
  <2>6. IsList(job'[c]) /\ Once(job'[c]) /\ ~Limiting(job'[c]) /\ Counting(job'[c]) = Counting(Tail(job[c]))
    <3>1. /\ Once(a \o b) /\ IsList(a \o b) /\ Counting(a \o b) = Counting(a) \cup Counting(b)
          /\ Limiting(a \o b) <=> Limiting(a) \/ Limiting(b)
      BY ONLY <2>5, OnceJoined
    <3> QED
      BY <2>2, <2>5, <3>1
  <2>7. job'[c] # <<>> => ~Limiting(Tail(job'[c])) /\ Head(job'[c]).op # "limit"
    BY <2>6, TailSet DEF Limiting
  <2>8. \A x \in Counting(job'[c]) : x.n \in Quantity
    BY <2>4, <2>6 DEF BuyJob
  <2>9. BuyJob(job'[c])
    BY <2>6, <2>7, <2>8 DEF BuyJob
  <2> QED
    BY <1>3, <2>2, <2>6, <2>9
<1> QED
  BY <1>1, <1>2, <1>3

\* The claim of the connection that moves: only one that passes a limit gains one,
\* and one that counts gives up its own.
LEMMA ClaimMoves ==
    ASSUME JobTypes, NEW c \in Conn, Move(c), BuyJob(job[c]), NEW g
    PROVE /\ ~PassesLimit(c) /\ ~Counts(c) => Claim(job'[c], g) \in {0, Claim(job[c], g)}
          /\ PassesLimit(c) => /\ Claim(job[c], g) = 0
                               /\ Claim(job'[c], g) \in {0, Positive(Amount(c))}
                               /\ g # What(c) => Claim(job'[c], g) = 0
          /\ Counts(c) => /\ Claim(job'[c], g) = 0
                          /\ Claim(job[c], g) = IF What(c) = g THEN Positive(Amount(c)) ELSE 0
<1> DEFINE old == {x \in Counting(job[c]) : x.what = g}  new == {x \in Counting(job'[c]) : x.what = g}
<1>1. /\ Begins(c) \/ Stops(c) => Claim(job'[c], g) = 0
      /\ ~Begins(c) /\ ~Stops(c) =>
            /\ job[c] # <<>> /\ ~Limiting(job'[c])
            /\ Counting(job'[c]) = Counting(Tail(job[c]))
  BY BuyJobKept
<1>2. job[c] # <<>> =>
        /\ IsList(job[c]) /\ ToSet(job[c]) = {Head(job[c])} \cup ToSet(Tail(job[c])) /\ Once(job[c])
        /\ Head(job[c]).op = "countBuy" => Counting(Tail(job[c])) = {}
        /\ Head(job[c]).op # "countBuy" => Counting(Tail(job[c])) = Counting(job[c])
        /\ ~Limiting(Tail(job[c]))
        /\ Limiting(job[c]) => Head(job[c]).op = "limit"
  <2> SUFFICES ASSUME job[c] # <<>>
               PROVE /\ IsList(job[c]) /\ ToSet(job[c]) = {Head(job[c])} \cup ToSet(Tail(job[c])) /\ Once(job[c])
                     /\ Head(job[c]).op = "countBuy" => Counting(Tail(job[c])) = {}
                     /\ Head(job[c]).op # "countBuy" => Counting(Tail(job[c])) = Counting(job[c])
                     /\ ~Limiting(Tail(job[c]))
                     /\ Limiting(job[c]) => Head(job[c]).op = "limit"
    OBVIOUS
  <2>1. IsList(job[c])
    BY DEF JobTypes
  <2>2. Once(job[c]) /\ ~Limiting(Tail(job[c]))
    BY DEF BuyJob
  <2>3. ToSet(job[c]) = {Head(job[c])} \cup ToSet(Tail(job[c]))
    BY <2>1, HeadOrTail
  <2>4. Limiting(job[c]) => Head(job[c]).op = "limit"
    BY <2>2, <2>3 DEF Limiting
  <2> QED
    BY <2>1, <2>2, <2>3, <2>4, OnceTail
<1>3. /\ Claim(job[c], g) = IF Limiting(job[c]) \/ old = {} THEN 0 ELSE Positive((CHOOSE x \in old : TRUE).n)
      /\ Claim(job'[c], g) = IF Limiting(job'[c]) \/ new = {} THEN 0 ELSE Positive((CHOOSE x \in new : TRUE).n)
  BY DEF Claim
<1>4. ASSUME PassesLimit(c) PROVE Head(job[c]).op = "limit" /\ job[c] # <<>> /\ Limiting(job[c]) /\ Claim(job[c], g) = 0
  <2>1. Head(job[c]).op = "limit" /\ job[c] # <<>>
    BY <1>4 DEF PassesLimit, HeadOf, Onward
  <2>2. Limiting(job[c])
    BY <1>2, <2>1 DEF Limiting
  <2> QED
    BY <1>3, <2>1, <2>2
<1>5. ASSUME Counts(c)
      PROVE /\ Head(job[c]).op = "countBuy" /\ job[c] # <<>>
            /\ Claim(job[c], g) = IF What(c) = g THEN Positive(Amount(c)) ELSE 0
  <2>1. Head(job[c]).op = "countBuy" /\ job[c] # <<>>
    BY <1>5 DEF Counts, HeadOf, Onward
  <2>2. ~Limiting(job[c]) /\ Counting(job[c]) = {Head(job[c])}
    BY <1>2, <2>1 DEF Counting
  <2>3. CASE What(c) = g
    <3>1. old = {Head(job[c])}
      BY <2>2, <2>3 DEF What
    <3>2. (CHOOSE x \in old : TRUE) \in old
      BY <3>1
    <3>3. (CHOOSE x \in old : TRUE) = Head(job[c])
      BY <3>1, <3>2
    <3> QED
      BY <1>3, <2>1, <2>2, <2>3, <3>1, <3>3 DEF Amount
  <2>4. CASE What(c) # g
    <3>1. old = {}
      BY <2>2, <2>4 DEF What
    <3> QED
      BY <1>3, <2>1, <2>4, <3>1
  <2> QED
    BY <2>3, <2>4
<1>6. CASE Begins(c) \/ Stops(c)
  BY <1>1, <1>4, <1>5, <1>6
<1>7. CASE ~Begins(c) /\ ~Stops(c)
  <2>1. /\ job[c] # <<>> /\ ~Limiting(job'[c])
        /\ Counting(job'[c]) = Counting(Tail(job[c]))
    BY <1>1, <1>7
  <2>2. CASE PassesLimit(c)
    <3>1. Head(job[c]).op = "limit" /\ ~Counts(c)
      BY <1>4, <2>2 DEF Counts, HeadOf
    <3>2. Counting(job'[c]) = Counting(job[c])
      BY <1>2, <2>1, <3>1
    <3>3. \A x \in Counting(job[c]) : x.what = What(c) /\ x.n = Amount(c)
      BY <2>1, <3>1 DEF BuyJob, What, Amount
    <3>4. new # {} => (CHOOSE x \in new : TRUE) \in new
      OBVIOUS
    <3>5. new # {} => (CHOOSE x \in new : TRUE).n = Amount(c)
      BY <3>2, <3>3, <3>4
    <3>6. g # What(c) => new = {}
      BY <3>2, <3>3
    <3>7. Claim(job[c], g) = 0
      BY <1>4, <2>2
    <3>8. Claim(job'[c], g) \in {0, Positive(Amount(c))} /\ (g # What(c) => Claim(job'[c], g) = 0)
      BY <1>3, <3>5, <3>6
    <3> QED
      BY <2>2, <3>1, <3>7, <3>8
  <2>3. CASE Counts(c)
    <3>1. Head(job[c]).op = "countBuy" /\ ~PassesLimit(c)
      BY <1>5, <2>3 DEF PassesLimit, HeadOf
    <3>2. Counting(job'[c]) = {}
      BY <1>2, <2>1, <3>1
    <3>3. Claim(job'[c], g) = 0
      BY <1>3, <3>2
    <3> QED
      BY <1>5, <2>3, <3>1, <3>3
  <2>4. CASE ~PassesLimit(c) /\ ~Counts(c)
    <3>1. Head(job[c]).op \notin {"limit", "countBuy"}
      <4>1. /\ Head(job[c]).op = "limit" => HeadOf(c) \in Scarce
            /\ Head(job[c]).op = "countBuy" => HeadOf(c) \in Scarce
        BY DEF HeadOf, Scarce
      <4> QED
        BY <1>7, <2>4, <4>1 DEF Move, GoesOn, PutsLast, Decides, Deducts, FindsMail, MarksMail,
           Wears, SavesWorn, FindsTeam, ChangesTeam, MakesTeam, HeadOf
    <3>2. Counting(job'[c]) = Counting(job[c]) /\ ~Limiting(job[c])
      BY <1>2, <2>1, <3>1
    <3>3. Claim(job'[c], g) = Claim(job[c], g)
      BY <2>1, <3>2, ClaimSame
    <3> QED
      BY <2>4, <3>3
  <2> QED
    BY <2>2, <2>3, <2>4
<1> QED
  BY <1>6, <1>7

LEMMA RoofRises ==
    ASSUME NEW c \in Conn, NEW g \in Goods, NEW o, NEW p, o => p
    PROVE Roof(g, o) \in Int /\ Roof(g, p) \in Int /\ Roof(g, o) <= Roof(g, p)
<1> DEFINE more == (Cardinality(Conn) - 1) * Max(Quantity)
<1>1. more \in Nat
  <2>1. IsFiniteSet(Conn) /\ IsFiniteSet({c}) /\ {c} \subseteq Conn
    BY InventoryAssumption, FS_Singleton
  <2>2. Cardinality(Conn) \in Nat /\ Cardinality({c}) = 1 /\ Cardinality({c}) <= Cardinality(Conn)
    BY <2>1, FS_Subset, FS_CardinalityType, FS_Singleton
  <2>3. Cardinality(Conn) - 1 \in Nat
    BY <2>2
  <2> QED
    BY <2>3, MostBought
<1>2. BuyLimit[g] \in Nat
  BY StoreAssumption
<1>3. Roof(g, o) = BuyLimit[g] + (IF o THEN more ELSE 0) /\ Roof(g, p) = BuyLimit[g] + (IF p THEN more ELSE 0)
  BY DEF Roof
<1> HIDE DEF more
<1> QED
  BY <1>1, <1>2, <1>3

LEMMA BelowRoof ==
    /\ \A b, s, sn, f, fn \in Int : b + s <= f /\ sn <= s /\ f <= fn => b + sn <= fn
    /\ \A b, bn, s, sn, f, fn, a \in Int :
          b + s <= f /\ bn <= b + a /\ sn = s - a /\ f <= fn => bn + sn <= fn
    /\ \A b, a, l, sn, r \in Int : b + a <= l /\ sn - a <= r => b + sn <= l + r
OBVIOUS

LEMMA LimitStep ==
    ASSUME JobTypes, StateTypes, StateTypes', Lonely, Lonely', LimitInv, NEW c \in Conn, Move(c)
    PROVE LimitInv'
<1>t. HistoryTypes /\ StoreTypes /\ StoreTypes'
  BY DEF StateTypes
<1>1. \A d \in Conn \ {c} : job'[d] = job[d]
  BY Newcomers
<1>2. \A d \in Conn : BuyJob(job[d]) /\ BuyJob(job'[d])
  <2>1. BuyJob(job[c]) /\ BuyJob(job'[c])
    BY BuyJobKept DEF LimitInv
  <2> QED
    BY <1>1, <2>1 DEF LimitInv
<1> SUFFICES ASSUME NEW g \in Goods, BuyLimit[g] > 0
             PROVE bought'[g] + Claimed(job', g) <= Roof(g, overlapped')
  BY <1>2 DEF LimitInv
<1>3. bought[g] + Claimed(job, g) <= Roof(g, overlapped)
  BY DEF LimitInv
<1>4. Roof(g, overlapped) \in Int /\ Roof(g, overlapped') \in Int
      /\ Roof(g, overlapped) <= Roof(g, overlapped')
  BY <1>t, Counters, RoofRises
<1> DEFINE old == Claims(job, g)  new == Claims(job', g)
<1>5. \A d \in Conn : old[d] = Claim(job[d], g) /\ new[d] = Claim(job'[d], g)
  BY DEF Claims
<1>6. /\ \A d \in Conn : old[d] \in Nat /\ new[d] \in Nat /\ new[d] <= Max(Quantity)
      /\ \A d \in Conn \ {c} : new[d] = old[d]
  <2> HIDE DEF old, new
  <2> QED
    BY <1>1, <1>2, <1>5, ClaimTyped
<1>7. Max(Quantity) \in Nat /\ IsFiniteSet(Conn)
  BY MostBought, InventoryAssumption
<1>8. Claimed(job, g) = SumFunctionOnSet(old, Conn) /\ Claimed(job', g) = SumFunctionOnSet(new, Conn)
  BY DEF Claimed
<1>9. /\ ~PassesLimit(c) /\ ~Counts(c) => new[c] \in {0, old[c]}
      /\ PassesLimit(c) => old[c] = 0 /\ new[c] \in {0, Positive(Amount(c))} /\ (g # What(c) => new[c] = 0)
      /\ Counts(c) => new[c] = 0 /\ old[c] = IF What(c) = g THEN Positive(Amount(c)) ELSE 0
  BY <1>2, <1>5, ClaimMoves
<1> HIDE DEF old, new
<1>10. /\ Claimed(job', g) = Claimed(job, g) - old[c] + new[c]
       /\ Claimed(job, g) \in Int /\ Claimed(job', g) \in Int
  <2>1. \A d \in Conn : old[d] \in Int /\ new[d] \in Int
    BY <1>6
  <2> QED
    BY <1>6, <1>7, <1>8, <2>1, SumChange
<1>11. bought[g] \in Int /\ bought'[g] \in Int /\ bought \in [Goods -> Int]
  BY <1>t DEF StoreTypes
<1>12. ASSUME bought' = bought, new[c] <= old[c] PROVE bought'[g] + Claimed(job', g) <= Roof(g, overlapped')
  <2>1. Claimed(job', g) <= Claimed(job, g)
    <3>1. \A s \in Int, a, b \in Nat : b <= a => s - a + b <= s
      OBVIOUS
    <3> QED
      BY <1>6, <1>10, <1>12, <3>1
  <2> QED
    BY <1>3, <1>4, <1>10, <1>11, <1>12, <2>1, BelowRoof
<1>13. CASE ~PassesLimit(c) /\ ~Counts(c)
  <2>1. bought' = bought
    BY <1>13 DEF Move, Begins, GoesOn, PutsLast, Stops, Decides, Deducts, FindsMail, MarksMail,
                 Wears, SavesWorn, FindsTeam, ChangesTeam, MakesTeam, Kept
  <2>2. new[c] <= old[c]
    BY <1>6, <1>9, <1>13
  <2> QED
    BY <1>12, <2>1, <2>2
<1>14. CASE Counts(c)
  <2>1. bought' = [bought EXCEPT ![What(c)] = @ + Amount(c)]
    BY <1>14 DEF Counts
  <2>2. new[c] = 0 /\ old[c] = IF What(c) = g THEN Positive(Amount(c)) ELSE 0
    BY <1>9, <1>14
  <2>3. bought'[g] <= bought[g] + old[c]
    <3>1. bought'[g] = IF What(c) = g THEN bought[g] + Amount(c) ELSE bought[g]
      BY <1>11, <2>1
    <3>2. Amount(c) \in Int
      BY <1>14, HeadFits DEF Counts, Onward, Fits, Amount
    <3>3. Amount(c) <= Positive(Amount(c)) /\ Positive(Amount(c)) \in Int
      BY <3>2 DEF Positive
    <3> QED
      BY <1>11, <2>2, <3>1, <3>2, <3>3
  <2>4. Claimed(job', g) = Claimed(job, g) - old[c] /\ old[c] \in Int
    BY <1>6, <1>10, <2>2
  <2> QED
    BY <1>3, <1>4, <1>10, <1>11, <2>3, <2>4, BelowRoof
<1>15. CASE PassesLimit(c)
  <2>1. /\ bought' = bought /\ job[c] # <<>> /\ HeadOf(c) = "limit"
        /\ BuyLimit[What(c)] > 0 => bought[What(c)] + Amount(c) <= BuyLimit[What(c)]
    BY <1>15 DEF PassesLimit, Kept, Onward
  <2>2. CASE new[c] = 0
    <3>1. new[c] <= old[c]
      BY <1>6, <2>2
    <3> QED
      BY <1>12, <2>1, <3>1
  <2>3. CASE new[c] # 0
    <3>1. What(c) = g /\ new[c] = Amount(c) /\ bought[g] + new[c] <= BuyLimit[g]
      BY <1>9, <1>15, <2>1, <2>3 DEF Positive
    <3>2. /\ Claimed(job', g) - new[c] <= (Cardinality(Conn) - 1) * Max(Quantity)
          /\ (\A d \in Conn \ {c} : new[d] = 0) => Claimed(job', g) = new[c]
      BY <1>6, <1>7, <1>8, SumOfOthers
    <3>3. BuyLimit[g] \in Int /\ (Cardinality(Conn) - 1) * Max(Quantity) \in Int
      <4>1. Cardinality(Conn) - 1 \in Int
        BY <1>7, FS_CardinalityType
      <4> QED
        BY <1>7, <4>1, StoreAssumption
    <3>4. CASE overlapped'
      <4>1. Roof(g, overlapped') = BuyLimit[g] + (Cardinality(Conn) - 1) * Max(Quantity)
        BY <3>4 DEF Roof
      <4> DEFINE more == (Cardinality(Conn) - 1) * Max(Quantity)
      <4>2. Claimed(job', g) - new[c] <= more /\ more \in Int /\ Roof(g, overlapped') = BuyLimit[g] + more
        BY <3>2, <3>3, <4>1
      <4> HIDE DEF more
      <4>3. bought[g] + Claimed(job', g) <= BuyLimit[g] + more
        BY <1>6, <1>10, <1>11, <3>1, <3>3, <4>2, BelowRoof
      <4> QED
        BY <2>1, <4>2, <4>3
    <3>5. CASE ~overlapped'
      <4>1. Roof(g, overlapped') = BuyLimit[g] + 0
        BY <3>5 DEF Roof
      <4>2. job'[c] # <<>>
        <5>1. job'[c] = <<>> => Claim(job'[c], g) = 0
          BY Tuples DEF Claim, Counting
        <5> QED
          BY <1>5, <2>3, <5>1
      <4>3. \A d \in Conn \ {c} : job'[d] = <<>>
        BY <3>5, <4>2 DEF Lonely
      <4>4. \A d \in Conn \ {c} : new[d] = 0
        <5>1. \A d \in Conn \ {c} : Claim(job'[d], g) = 0
          BY <4>3, Tuples DEF Claim, Counting
        <5> QED
          BY <1>5, <5>1
      <4>5. Claimed(job', g) = new[c]
        BY <3>2, <4>4
      <4> QED
        BY <1>6, <1>11, <2>1, <3>1, <3>3, <4>1, <4>5
    <3> QED
      BY <3>4, <3>5
  <2> QED
    BY <2>2, <2>3
<1> QED
  BY <1>13, <1>14, <1>15

LEMMA LimitStarts == Init => LimitInv
<1> SUFFICES ASSUME Init PROVE LimitInv
  OBVIOUS
<1>1. \A c \in Conn : job[c] = <<>>
  BY DEF Init, InventoryInit
<1>2. Free(<<>>)
  BY Tuples DEF Free, Counting, Limiting
<1>3. \A c \in Conn : BuyJob(job[c]) /\ \A g : Claim(job[c], g) = 0
  BY <1>1, <1>2, FreeBuys
<1>4. overlapped = FALSE /\ bought = [g \in Goods |-> 0]
  BY DEF Init, InventoryInit, StoreInit
<1>5. ASSUME NEW g \in Goods, BuyLimit[g] > 0 PROVE bought[g] + Claimed(job, g) <= Roof(g, overlapped)
  <2>1. \A c \in Conn : Claims(job, g)[c] = 0
    BY <1>3 DEF Claims
  <2>2. Claimed(job, g) = 0
    BY <2>1, InventoryAssumption, SumZero DEF Claimed
  <2>3. Roof(g, overlapped) = BuyLimit[g] + 0 /\ BuyLimit[g] \in Nat /\ bought[g] = 0
    BY <1>4, StoreAssumption DEF Roof
  <2> QED
    BY <2>2, <2>3
<1> QED
  BY <1>3, <1>5 DEF LimitInv

LimitSafe == Types /\ Lonely /\ LimitInv

LEMMA LimitSteps == LimitSafe /\ [Next]_vars => LimitSafe'
<1> SUFFICES ASSUME LimitSafe, [Next]_vars PROVE LimitSafe'
  OBVIOUS
<1>1. Types /\ Types' /\ Lonely /\ Lonely'
  BY TypesStep, LonelyStays DEF LimitSafe
<1>2. JobTypes /\ StateTypes /\ StateTypes' /\ LimitInv
  BY <1>1 DEF Types, LimitSafe
<1>3. CASE Next
  <2>1. PICK c \in Conn : Move(c)
    BY <1>1, <1>3, NextMoves
  <2> QED
    BY <1>1, <1>2, <2>1, LimitStep DEF LimitSafe
<1>4. CASE UNCHANGED vars
  <2>1. job' = job /\ bought' = bought /\ overlapped' = overlapped
    BY <1>4 DEF vars, invVars, history, storeVars
  <2>2. LimitInv'
    BY <1>2, <2>1 DEF LimitInv
  <2> QED
    BY <1>1, <2>2 DEF LimitSafe
<1> QED
  BY <1>3, <1>4

LEMMA LimitSafeMeans == LimitSafe => LimitKept
<1> SUFFICES ASSUME LimitSafe, NEW g \in Goods, BuyLimit[g] > 0
             PROVE bought[g] <= Roof(g, overlapped)
  BY DEF LimitKept, Roof
<1>1. bought[g] \in Int /\ overlapped \in BOOLEAN
  BY DEF LimitSafe, Types, StateTypes, StoreTypes, HistoryTypes
<1>2. Claimed(job, g) \in Nat /\ bought[g] + Claimed(job, g) <= Roof(g, overlapped)
  <2>1. \A c \in Conn : Claims(job, g)[c] \in Nat
    BY ClaimTyped DEF Claims, LimitSafe, LimitInv
  <2> QED
    BY <2>1, InventoryAssumption, SumAtLeast DEF Claimed, LimitSafe, LimitInv
<1>3. Roof(g, overlapped) \in Int
  <2>1. Cardinality(Conn) - 1 \in Int
    BY InventoryAssumption, FS_CardinalityType
  <2>2. (Cardinality(Conn) - 1) * Max(Quantity) \in Int
    BY <2>1, MostBought
  <2> QED
    BY <2>2, StoreAssumption DEF Roof
<1> QED
  BY <1>1, <1>2, <1>3

\* A purchase limit holds for requests in a row, and overlapping ones get past it
\* by at most a request for each other connection (buy_goods.rs): the purchases
\* that passed the limit and are still to be counted are kept within it.
THEOREM LimitHolds == Spec => []LimitKept
<1>1. Init => LimitSafe
  <2>1. Init => Lonely
    BY DEF Init, InventoryInit, Lonely
  <2> QED
    BY <2>1, TypesStart, LimitStarts DEF LimitSafe
<1>2. LimitSafe /\ [Next]_vars => LimitSafe'
  BY LimitSteps
<1>3. LimitSafe => LimitKept
  BY LimitSafeMeans
<1> QED
  BY <1>1, <1>2, <1>3, PTL DEF Spec

-----------------------------------------------------------------------------
(* Talent styles.                                                          *)

\* A style that is to be worn was seen to be unlocked, and none is locked again.
Allowed(x, unlocked) == x.what[3] = NoStyle \/ x.what[3] \in unlocked[x.what[1]]

StyleInv ==
    /\ StylesUnlocked
    /\ \A c \in Conn : \A x \in ToSet(job[c]) : x.op = "saveWorn" => Allowed(x, styles)

LEMMA StyleStep ==
    ASSUME JobTypes, LayoutTypes, StyleInv, NEW c \in Conn, Move(c)
    PROVE StyleInv'
<1>1. \A h \in Hero : styles[h] \subseteq styles'[h]
  BY DEF Move, Grows
<1>2. \A d \in Conn : \A x \in ToSet(job[d]) : x.op = "saveWorn" => x.what[1] \in Hero /\ Allowed(x, styles)
  BY DEF StyleInv, JobTypes, Fits, LayoutOps
<1>3. \A d \in Conn : \A x \in ToSet(job[d]) : x.op = "saveWorn" => Allowed(x, styles')
  BY <1>1, <1>2 DEF Allowed
<1>4. \A x \in ToSet(job'[c]) : x.op = "saveWorn" => Allowed(x, styles')
  <2>1. CASE Wears(c)
    <3> DEFINE new == On("saveWorn", HeroOf(c), TemplateOf(c), Detail(c))
    <3>1. /\ HeadOf(c) = "wearStyle" /\ Onward(c, << new >>)
          /\ Detail(c) = NoStyle \/ Detail(c) \in styles[HeroOf(c)]
      BY <2>1 DEF Wears
    <3>2. IsList(<< new >>) /\ ToSet(<< new >>) = {new}
      BY Tuples
    <3>3. job[c] # <<>> /\ ToSet(job'[c]) = {new} \cup ToSet(Tail(job[c]))
      BY <3>1, <3>2, OnwardSet
    <3>4. HeroOf(c) \in Hero
      <4>1. At(c, "wearStyle")
        BY <3>1, <3>3 DEF At, HeadOf
      <4> QED
        BY <4>1, Head2Do DEF LayoutOps
    <3>5. new.what[1] = HeroOf(c) /\ new.what[3] = Detail(c)
      BY DEF On, Stmt
    <3>6. Allowed(new, styles')
      BY <1>1, <3>1, <3>4, <3>5 DEF Allowed
    <3>7. ToSet(Tail(job[c])) \subseteq ToSet(job[c])
      BY <3>3, HeadFits
    <3> QED
      BY <1>3, <3>3, <3>6, <3>7
  <2>2. CASE ~Wears(c)
    <3>1. \A x \in ToSet(job'[c]) : x.op = "saveWorn" => job[c] # <<>> /\ x \in ToSet(Tail(job[c]))
      BY <2>2, Newcomers DEF Brings, Scarce
    <3>2. job[c] # <<>> => ToSet(Tail(job[c])) \subseteq ToSet(job[c])
      BY HeadFits
    <3> QED
      BY <1>3, <3>1, <3>2
  <2> QED
    BY <2>1, <2>2
<1>5. \A d \in Conn : \A x \in ToSet(job'[d]) : x.op = "saveWorn" => Allowed(x, styles')
  <2>1. \A d \in Conn \ {c} : job'[d] = job[d]
    BY Newcomers
  <2> QED
    BY <1>3, <1>4, <2>1
<1>6. StylesUnlocked'
  <2> SUFFICES ASSUME NEW h \in Hero, NEW t \in Template, worn'[h][t] # NoStyle
               PROVE worn'[h][t] \in styles'[h]
    BY DEF StylesUnlocked
  <2>1. CASE SavesWorn(c)
    <3>1. worn' = [worn EXCEPT ![HeroOf(c)][TemplateOf(c)] = Detail(c)] /\ HeadOf(c) = "saveWorn" /\ job[c] # <<>>
      BY <2>1 DEF SavesWorn, Onward
    <3>2. Head(job[c]) \in ToSet(job[c]) /\ Head(job[c]).op = "saveWorn"
      BY <3>1, HeadFits DEF HeadOf
    <3>3. Detail(c) = NoStyle \/ Detail(c) \in styles'[HeroOf(c)]
      BY <1>3, <3>2 DEF Allowed, Detail, HeroOf, What
    <3>4. worn \in [Hero -> [Template -> Style \cup {NoStyle}]]
      BY DEF LayoutTypes
    <3>5. CASE h = HeroOf(c) /\ t = TemplateOf(c)
      <4>1. worn'[h][t] = Detail(c)
        BY <3>1, <3>4, <3>5
      <4> QED
        BY <3>3, <3>5, <4>1
    <3>6. CASE ~(h = HeroOf(c) /\ t = TemplateOf(c))
      <4>1. worn'[h][t] = worn[h][t]
        BY <3>1, <3>4, <3>6
      <4> QED
        BY <1>1, <4>1 DEF StyleInv, StylesUnlocked
    <3> QED
      BY <3>5, <3>6
  <2>2. CASE ~SavesWorn(c)
    <3>1. worn' = worn
      BY <2>2 DEF Move, Begins, GoesOn, PutsLast, Stops, Decides, Deducts, FindsMail, MarksMail, PassesLimit,
                  Counts, Wears, FindsTeam, ChangesTeam, MakesTeam, Kept
    <3> QED
      BY <1>1, <3>1 DEF StyleInv, StylesUnlocked
  <2> QED
    BY <2>1, <2>2
<1> QED
  BY <1>5, <1>6 DEF StyleInv

\* Whatever overlaps, a hero wears only styles it has unlocked (apply_talent_style):
\* the check and the UPDATE are statements of their own, and no handler locks a
\* style again between them.
THEOREM StylesStayUnlocked == Spec => []StylesUnlocked
<1> DEFINE Safe == Types /\ StyleInv
<1>1. Init => Safe
  <2> SUFFICES ASSUME Init PROVE Safe
    OBVIOUS
  <2>1. Types
    BY TypesStart
  <2>2. job = [c \in Conn |-> <<>>] /\ worn = [h \in Hero |-> [t \in Template |-> NoStyle]]
    BY DEF Init, InventoryInit, LayoutInit
  <2>3. StyleInv
    BY <2>2, Tuples DEF StyleInv, StylesUnlocked
  <2> QED
    BY <2>1, <2>3
<1>2. Safe /\ [Next]_vars => Safe'
  <2> SUFFICES ASSUME Safe, [Next]_vars PROVE Safe'
    OBVIOUS
  <2>1. Types' /\ JobTypes /\ LayoutTypes
    BY TypesStep DEF Types, StateTypes
  <2>2. CASE Next
    <3>1. PICK c \in Conn : Move(c)
      BY <2>2, NextMoves
    <3> QED
      BY <2>1, <3>1, StyleStep
  <2>3. CASE UNCHANGED vars
    <3>1. job' = job /\ worn' = worn /\ styles' = styles
      BY <2>3 DEF vars, invVars, growthVars, layOut, layoutVars
    <3> QED
      BY <2>1, <3>1 DEF StyleInv, StylesUnlocked, Allowed
  <2> QED
    BY <2>2, <2>3
<1>3. Safe => StylesUnlocked
  BY DEF StyleInv
<1> HIDE DEF Safe
<1> QED
  BY <1>1, <1>2, <1>3, PTL DEF Spec

-----------------------------------------------------------------------------
(* Saved teams.                                                            *)

Ins(x, id, part) == x.op = "insertPart" /\ x.what[1] = id /\ x.what[2] = part
NoIns(s, id, part) == \A x \in ToSet(s) : ~Ins(x, id, part)

\* What a job s is still to insert into a part of team id are the rows of m past
\* the first k, one after the other.
Remains(s, id, part, m, k) ==
    /\ k \in 0..Len(m)
    /\ \E p \in Nat :
          /\ p + (Len(m) - k) <= Len(s)
          /\ \A i \in 1..Len(s) : Ins(s[i], id, part) <=> (p < i /\ i <= p + (Len(m) - k))
          /\ \A i \in 1..Len(s) : Ins(s[i], id, part) => s[i].what[3] = m[k + (i - p)]

\* There are no more rows than those before.
Room(s, rows, id, part, m) == \E k : Len(rows) <= k /\ Remains(s, id, part, m, k)

LEMMA RoomNone ==
    ASSUME NEW s, NEW rows, NEW id, NEW part, NEW m, IsList(s), IsList(rows), IsList(m),
           Len(rows) <= Len(m), NoIns(s, id, part)
    PROVE Room(s, rows, id, part, m)
<1>1. Len(s) \in Nat /\ DOMAIN s = 1..Len(s) /\ Len(m) \in Nat
  BY DEF IsList
<1>2. \A i \in 1..Len(s) : ~Ins(s[i], id, part)
  BY <1>1 DEF NoIns, ToSet
<1>3. Remains(s, id, part, m, Len(m))
  <2>1. /\ 0 + (Len(m) - Len(m)) <= Len(s)
        /\ \A i \in 1..Len(s) : ~(0 < i /\ i <= 0 + (Len(m) - Len(m)))
    BY <1>1
  <2>2. Len(m) \in 0..Len(m)
    BY <1>1
  <2> QED
    BY <1>2, <2>1, <2>2 DEF Remains
<1> QED
  BY <1>3 DEF Room

LEMMA RoomLess ==
    ASSUME NEW s, NEW rows, NEW fewer, NEW id, NEW part, NEW m, IsList(rows), IsList(fewer), IsList(m),
           Len(fewer) <= Len(rows), Room(s, rows, id, part, m)
    PROVE Room(s, fewer, id, part, m)
<1>1. PICK k : Len(rows) <= k /\ Remains(s, id, part, m, k)
  BY DEF Room
<1>2. Len(rows) \in Nat /\ Len(fewer) \in Nat /\ Len(m) \in Nat
  BY DEF IsList
<1>3. k \in 0..Len(m)
  BY <1>1 DEF Remains
<1>4. Len(fewer) <= k
  BY <1>1, <1>2, <1>3
<1> QED
  BY <1>1, <1>4 DEF Room

LEMMA RoomMeans ==
    ASSUME NEW s, NEW rows, NEW id, NEW part, NEW m, IsList(rows), IsList(m), Room(s, rows, id, part, m)
    PROVE Len(rows) <= Len(m)
<1>1. PICK k : Len(rows) <= k /\ k \in 0..Len(m)
  BY DEF Room, Remains
<1>2. Len(rows) \in Nat /\ Len(m) \in Nat
  BY DEF IsList
<1> QED
  BY <1>1, <1>2

\* Statements about other things come and go around those that are left.
LEMMA RemainsTail ==
    ASSUME NEW s, NEW id, NEW part, NEW m, NEW k, IsList(s), s # <<>>, IsList(m),
           ~Ins(Head(s), id, part), Remains(s, id, part, m, k)
    PROVE Remains(Tail(s), id, part, m, k)
<1>1. /\ Len(s) \in Nat /\ Len(s) > 0 /\ Len(m) \in Nat /\ k \in 0..Len(m)
      /\ Len(Tail(s)) = Len(s) - 1 /\ Head(s) = s[1]
      /\ \A i \in 1..Len(Tail(s)) : Tail(s)[i] = s[i + 1] /\ i + 1 \in 1..Len(s)
  BY DEF IsList, Remains
<1>2. PICK p \in Nat :
          /\ p + (Len(m) - k) <= Len(s)
          /\ \A i \in 1..Len(s) : Ins(s[i], id, part) <=> (p < i /\ i <= p + (Len(m) - k))
          /\ \A i \in 1..Len(s) : Ins(s[i], id, part) => s[i].what[3] = m[k + (i - p)]
  BY DEF Remains
<1>3. CASE k = Len(m)
  <2>1. \A i \in 1..Len(Tail(s)) : ~Ins(Tail(s)[i], id, part)
    <3> TAKE i \in 1..Len(Tail(s))
    <3>1. ~(p < i + 1 /\ i + 1 <= p + (Len(m) - k))
      BY <1>1, <1>3
    <3> QED
      BY <1>1, <1>2, <3>1
  <2>2. 0 + (Len(m) - k) <= Len(Tail(s)) /\ \A i \in 1..Len(Tail(s)) : ~(0 < i /\ i <= 0 + (Len(m) - k))
    BY <1>1, <1>3
  <2> QED
    BY <1>1, <2>1, <2>2 DEF Remains
<1>4. CASE k # Len(m)
  <2>1. p - 1 \in Nat
    <3>1. ~(p < 1 /\ 1 <= p + (Len(m) - k))
      BY <1>1, <1>2
    <3>2. Len(m) - k >= 1
      BY <1>1, <1>4
    <3> QED
      BY <3>1, <3>2, <1>1
  <2>2. (p - 1) + (Len(m) - k) <= Len(Tail(s))
    BY <1>1, <1>2
  <2>3. ASSUME NEW i \in 1..Len(Tail(s))
        PROVE /\ Ins(Tail(s)[i], id, part) <=> (p - 1 < i /\ i <= (p - 1) + (Len(m) - k))
              /\ Ins(Tail(s)[i], id, part) => Tail(s)[i].what[3] = m[k + (i - (p - 1))]
    <3>1. Tail(s)[i] = s[i + 1] /\ i + 1 \in 1..Len(s)
      BY <1>1
    <3>2. (p < i + 1 /\ i + 1 <= p + (Len(m) - k)) <=> (p - 1 < i /\ i <= (p - 1) + (Len(m) - k))
      BY <1>1
    <3>3. k + ((i + 1) - p) = k + (i - (p - 1))
      BY <1>1
    <3> QED
      BY <1>2, <3>1, <3>2, <3>3
  <2> QED
    BY <1>1, <2>1, <2>2, <2>3 DEF Remains
<1> QED
  BY <1>3, <1>4

LEMMA RemainsAfter ==
    ASSUME NEW now, NEW s, NEW id, NEW part, NEW m, NEW k, IsList(now), IsList(s), IsList(m),
           NoIns(now, id, part), Remains(s, id, part, m, k)
    PROVE Remains(now \o s, id, part, m, k)
<1> DEFINE n == Len(now)  all == now \o s
<1>1. /\ n \in Nat /\ Len(s) \in Nat /\ Len(m) \in Nat /\ k \in 0..Len(m)
      /\ DOMAIN now = 1..n
      /\ Len(all) = n + Len(s)
      /\ \A i \in 1..n : all[i] = now[i]
      /\ \A i \in (n + 1)..Len(all) : all[i] = s[i - n] /\ i - n \in 1..Len(s)
  BY DEF IsList, Remains
<1>2. PICK p \in Nat :
          /\ p + (Len(m) - k) <= Len(s)
          /\ \A i \in 1..Len(s) : Ins(s[i], id, part) <=> (p < i /\ i <= p + (Len(m) - k))
          /\ \A i \in 1..Len(s) : Ins(s[i], id, part) => s[i].what[3] = m[k + (i - p)]
  BY DEF Remains
<1>3. \A i \in 1..n : ~Ins(now[i], id, part)
  BY <1>1 DEF NoIns, ToSet
<1> HIDE DEF n, all
<1>4. n + p \in Nat /\ (n + p) + (Len(m) - k) <= Len(all)
  BY <1>1, <1>2
<1>5. ASSUME NEW i \in 1..Len(all)
      PROVE /\ Ins(all[i], id, part) <=> (n + p < i /\ i <= (n + p) + (Len(m) - k))
            /\ Ins(all[i], id, part) => all[i].what[3] = m[k + (i - (n + p))]
  <2>1. CASE i <= n
    <3>1. ~(n + p < i)
      BY <1>1, <2>1
    <3>2. i \in 1..n
      BY <1>1, <2>1
    <3> QED
      BY <1>1, <1>3, <3>1, <3>2
  <2>2. CASE ~(i <= n)
    <3>1. i \in (n + 1)..Len(all)
      BY <1>1, <2>2
    <3>2. all[i] = s[i - n] /\ i - n \in 1..Len(s)
      BY <1>1, <3>1
    <3>3. (p < i - n /\ i - n <= p + (Len(m) - k)) <=> (n + p < i /\ i <= (n + p) + (Len(m) - k))
      BY <1>1
    <3>4. k + ((i - n) - p) = k + (i - (n + p))
      BY <1>1
    <3> QED
      BY <1>2, <3>2, <3>3, <3>4
  <2> QED
    BY <2>1, <2>2
<1> QED
  BY <1>1, <1>4, <1>5 DEF Remains, all

LEMMA RemainsBefore ==
    ASSUME NEW s, NEW last, NEW id, NEW part, NEW m, NEW k, IsList(s), IsList(last), IsList(m),
           NoIns(last, id, part), Remains(s, id, part, m, k)
    PROVE Remains(s \o last, id, part, m, k)
<1> DEFINE n == Len(s)  all == s \o last
<1>1. /\ n \in Nat /\ Len(last) \in Nat /\ Len(m) \in Nat /\ k \in 0..Len(m)
      /\ DOMAIN last = 1..Len(last)
      /\ Len(all) = n + Len(last)
      /\ \A i \in 1..n : all[i] = s[i]
      /\ \A i \in (n + 1)..Len(all) : all[i] = last[i - n] /\ i - n \in 1..Len(last)
  BY DEF IsList, Remains
<1>2. PICK p \in Nat :
          /\ p + (Len(m) - k) <= n
          /\ \A i \in 1..n : Ins(s[i], id, part) <=> (p < i /\ i <= p + (Len(m) - k))
          /\ \A i \in 1..n : Ins(s[i], id, part) => s[i].what[3] = m[k + (i - p)]
  BY DEF Remains
<1>3. \A i \in 1..Len(last) : ~Ins(last[i], id, part)
  BY <1>1 DEF NoIns, ToSet
<1> HIDE DEF n, all
<1>4. p + (Len(m) - k) <= Len(all)
  BY <1>1, <1>2
<1>5. ASSUME NEW i \in 1..Len(all)
      PROVE /\ Ins(all[i], id, part) <=> (p < i /\ i <= p + (Len(m) - k))
            /\ Ins(all[i], id, part) => all[i].what[3] = m[k + (i - p)]
  <2>1. CASE i <= n
    <3>1. i \in 1..n
      BY <1>1, <2>1
    <3> QED
      BY <1>1, <1>2, <3>1
  <2>2. CASE ~(i <= n)
    <3>1. i \in (n + 1)..Len(all) /\ ~(i <= p + (Len(m) - k))
      BY <1>1, <1>2, <2>2
    <3> QED
      BY <1>1, <1>3, <3>1
  <2> QED
    BY <2>1, <2>2
<1> QED
  BY <1>1, <1>4, <1>5 DEF Remains, all

\* The next row is inserted.
LEMMA RemainsHead ==
    ASSUME NEW s, NEW id, NEW part, NEW m, NEW k, IsList(s), s # <<>>, IsList(m),
           Ins(Head(s), id, part), Remains(s, id, part, m, k)
    PROVE /\ k + 1 \in 1..Len(m) /\ Head(s).what[3] = m[k + 1]
          /\ Remains(Tail(s), id, part, m, k + 1)
<1>1. /\ Len(s) \in Nat /\ Len(s) > 0 /\ Len(m) \in Nat /\ k \in 0..Len(m)
      /\ Len(Tail(s)) = Len(s) - 1 /\ Head(s) = s[1]
      /\ \A i \in 1..Len(Tail(s)) : Tail(s)[i] = s[i + 1] /\ i + 1 \in 1..Len(s)
  BY DEF IsList, Remains
<1>2. PICK p \in Nat :
          /\ p + (Len(m) - k) <= Len(s)
          /\ \A i \in 1..Len(s) : Ins(s[i], id, part) <=> (p < i /\ i <= p + (Len(m) - k))
          /\ \A i \in 1..Len(s) : Ins(s[i], id, part) => s[i].what[3] = m[k + (i - p)]
  BY DEF Remains
<1>3. 1 \in 1..Len(s) /\ Ins(s[1], id, part)
  BY <1>1
<1>4. p < 1 /\ 1 <= p + (Len(m) - k) /\ s[1].what[3] = m[k + (1 - p)]
  BY <1>2, <1>3
<1>5. p = 0 /\ k + 1 \in 1..Len(m) /\ k + (1 - p) = k + 1
  BY <1>1, <1>4
<1>6. 0 + (Len(m) - (k + 1)) <= Len(Tail(s)) /\ k + 1 \in 0..Len(m)
  BY <1>1, <1>2, <1>5
<1>7. ASSUME NEW i \in 1..Len(Tail(s))
      PROVE /\ Ins(Tail(s)[i], id, part) <=> (0 < i /\ i <= 0 + (Len(m) - (k + 1)))
            /\ Ins(Tail(s)[i], id, part) => Tail(s)[i].what[3] = m[(k + 1) + (i - 0)]
  <2>1. Tail(s)[i] = s[i + 1] /\ i + 1 \in 1..Len(s)
    BY <1>1
  <2>2. (p < i + 1 /\ i + 1 <= p + (Len(m) - k)) <=> (0 < i /\ i <= 0 + (Len(m) - (k + 1)))
    BY <1>1, <1>5
  <2>3. k + ((i + 1) - p) = (k + 1) + (i - 0)
    BY <1>1, <1>5
  <2> QED
    BY <1>2, <2>1, <2>2, <2>3
<1>8. Remains(Tail(s), id, part, m, k + 1)
  BY <1>6, <1>7 DEF Remains
<1> QED
  BY <1>1, <1>4, <1>5, <1>8

LEMMA RoomOnward ==
    ASSUME NEW now, NEW s, NEW rows, NEW id, NEW part, NEW m, IsList(now), IsList(s), s # <<>>, IsList(m),
           ~Ins(Head(s), id, part), NoIns(now, id, part), Room(s, rows, id, part, m)
    PROVE Room(now \o Tail(s), rows, id, part, m)
<1>1. PICK k : Len(rows) <= k /\ Remains(s, id, part, m, k)
  BY DEF Room
<1>2. IsList(Tail(s)) /\ Remains(Tail(s), id, part, m, k)
  BY <1>1, RemainsTail, TailSet
<1>3. Remains(now \o Tail(s), id, part, m, k)
  BY <1>2, RemainsAfter
<1> QED
  BY <1>1, <1>3 DEF Room

LEMMA RoomPut ==
    ASSUME NEW last, NEW s, NEW rows, NEW id, NEW part, NEW m, IsList(last), IsList(s), s # <<>>, IsList(m),
           ~Ins(Head(s), id, part), NoIns(last, id, part), Room(s, rows, id, part, m)
    PROVE Room(Tail(s) \o last, rows, id, part, m)
<1>1. PICK k : Len(rows) <= k /\ Remains(s, id, part, m, k)
  BY DEF Room
<1>2. IsList(Tail(s)) /\ Remains(Tail(s), id, part, m, k)
  BY <1>1, RemainsTail, TailSet
<1>3. Remains(Tail(s) \o last, id, part, m, k)
  BY <1>2, RemainsBefore
<1> QED
  BY <1>1, <1>3 DEF Room

LEMMA RoomHead ==
    ASSUME NEW s, NEW rows, NEW id, NEW part, NEW m, IsList(s), s # <<>>, IsList(rows), IsList(m),
           Ins(Head(s), id, part), Room(s, rows, id, part, m)
    PROVE LET e == Head(s).what[3]
          IN /\ e \in ToSet(m) /\ Len(rows) + 1 <= Len(m)
             /\ IsList(Append(rows, e)) /\ ToSet(Append(rows, e)) = ToSet(rows) \cup {e}
             /\ Len(Append(rows, e)) = Len(rows) + 1
             /\ Room(Tail(s), Append(rows, e), id, part, m)
<1> DEFINE e == Head(s).what[3]  more == Append(rows, e)
<1>1. PICK k : Len(rows) <= k /\ Remains(s, id, part, m, k)
  BY DEF Room
<1>2. k + 1 \in 1..Len(m) /\ e = m[k + 1] /\ Remains(Tail(s), id, part, m, k + 1)
  BY <1>1, RemainsHead
<1>3. Len(rows) \in Nat /\ Len(m) \in Nat /\ DOMAIN m = 1..Len(m) /\ k \in 0..Len(m)
  BY <1>1 DEF IsList, Remains
<1>4. e \in ToSet(m)
  BY <1>2, <1>3 DEF ToSet
<1>5. rows \in Seq(ToSet(rows))
  BY DEF IsList
<1> HIDE DEF e
<1>6. /\ rows \in Seq(ToSet(rows) \cup {e}) /\ Len(more) = Len(rows) + 1
      /\ more = [i \in 1..(Len(rows) + 1) |-> more[i]]
      /\ \A i \in 1..Len(rows) : more[i] = rows[i]
      /\ more[Len(rows) + 1] = e
  <2> DEFINE A == ToSet(rows) \cup {e}
  <2>1. rows \in [1..Len(rows) -> ToSet(rows)]
    BY <1>5
  <2>2. rows \in [1..Len(rows) -> A]
    BY <2>1
  <2>3. rows \in Seq(A) /\ e \in A
    BY <1>3, <2>2
  <2> HIDE DEF A
  <2>4. more \in Seq(A) /\ Len(more) = Len(rows) + 1
        /\ (\A i \in 1..Len(rows) : more[i] = rows[i]) /\ more[Len(rows) + 1] = e
    BY <2>3
  <2>5. more = [i \in 1..Len(more) |-> more[i]]
    <3>1. \A q \in Seq(A) : q = [i \in 1..Len(q) |-> q[i]]
      OBVIOUS
    <3> QED
      BY <2>4, <3>1
  <2> QED
    BY <2>3, <2>4, <2>5 DEF A
<1> HIDE DEF more
<1>7. IsList(more)
  <2>1. Len(rows) + 1 \in Nat
    BY <1>3
  <2> QED
    BY <1>6, <2>1, MadeSeq
<1>8. ToSet(more) = ToSet(rows) \cup {e}
  <2>1. DOMAIN more = 1..(Len(rows) + 1) /\ DOMAIN rows = 1..Len(rows)
    BY <1>5, <1>6
  <2>2. \A i \in 1..(Len(rows) + 1) : i \in 1..Len(rows) \/ i = Len(rows) + 1
    BY <1>3
  <2>3. \A i \in 1..Len(rows) : i \in 1..(Len(rows) + 1)
    BY <1>3
  <2>4. Len(rows) + 1 \in 1..(Len(rows) + 1)
    BY <1>3
  <2> QED
    BY <1>6, <2>1, <2>2, <2>3, <2>4 DEF ToSet
<1>9. Len(more) <= k + 1 /\ Len(rows) + 1 <= Len(m)
  BY <1>1, <1>2, <1>3, <1>6
<1>10. Room(Tail(s), more, id, part, m)
  BY <1>2, <1>9 DEF Room
<1> QED
  BY <1>4, <1>6, <1>7, <1>8, <1>9, <1>10 DEF more, e

RowSeqs ==
    \A id \in DOMAIN teams, part \in Part :
       part \in DOMAIN teams[id] /\ IsList(teams[id][part]) /\ IsList(meant[id][part])

\* What is still to be inserted is for ids given already, and each id is filled by
\* one connection.
Numbering ==
    \A c \in Conn : \A x \in ToSet(job[c]) :
       x.op = "insertPart" => x.what[1] \in Nat /\ x.what[1] <= lastId
OneMaker ==
    \A c, d \in Conn : c # d =>
       \A x \in ToSet(job[c]), y \in ToSet(job[d]) :
          x.op = "insertPart" /\ y.op = "insertPart" => x.what[1] # y.what[1]

\* No team has more rows than were to be inserted before those that are left.
Rooms ==
    \A c \in Conn : \A id \in DOMAIN teams, part \in Part :
       Room(job[c], teams[id][part], id, part, meant[id][part])

TeamInv == RowsOwned /\ RowSeqs /\ Numbering /\ OneMaker /\ Rooms

LEMMA EmptyRows ==
    IsList(<<>>) /\ ToSet(<<>>) = {} /\ Len(<<>>) = 0
BY Tuples

LEMMA TeamStarts == Init => TeamInv
<1> SUFFICES ASSUME Init PROVE TeamInv
  OBVIOUS
<1>1. /\ \A c \in Conn : job[c] = <<>>
      /\ teams = [i \in DOMAIN Numbered |->
                    WithParts(Numbered[i][1], Numbered[i][2], GroupInfo(Numbered[i][3]))]
      /\ meant = teams
  BY DEF Init, InventoryInit, GroupsInit
<1>2. \A i \in DOMAIN Numbered : Whole(GroupInfo(Numbered[i][3]))
  <2>1. IsFiniteSet(Saved) /\ \A x \in Saved : x[3] \in FightGroup
    BY HeroGroupsAssumption
  <2>2. \A i \in DOMAIN Numbered : Numbered[i] \in Saved
    <3>1. ToSet(Numbered) \subseteq Saved
      BY <2>1, Listed DEF Numbered
    <3> QED
      BY <3>1 DEF ToSet
  <2> QED
    BY <2>1, <2>2, InfoWhole
<1>3. ASSUME NEW id \in DOMAIN teams, NEW part \in Part
      PROVE part \in DOMAIN teams[id] /\ IsList(meant[id][part]) /\ teams[id][part] = meant[id][part]
  <2> DEFINE info == GroupInfo(Numbered[id][3])
  <2>1. id \in DOMAIN Numbered /\ teams[id] = WithParts(Numbered[id][1], Numbered[id][2], info) /\ meant[id] = teams[id]
    BY <1>1, <1>3
  <2>2. Whole(info)
    BY <1>2, <2>1
  <2> HIDE DEF info
  <2>3. \A s, g : WithParts(s, g, info)[part] = info[part] /\ part \in DOMAIN WithParts(s, g, info)
    BY DEF WithParts, Row, Part
  <2> QED
    BY <2>1, <2>2, <2>3 DEF Whole
<1>4. RowSeqs
  BY <1>3 DEF RowSeqs
<1>5. RowsOwned
  <2> SUFFICES ASSUME NEW id \in DOMAIN teams, NEW part \in Part
               PROVE /\ ToSet(teams[id][part]) \subseteq ToSet(meant[id][part])
                     /\ Len(teams[id][part]) <= Len(meant[id][part])
    BY DEF RowsOwned, OwnRows
  <2>1. Len(meant[id][part]) \in Nat
    BY <1>3 DEF IsList
  <2> QED
    BY <1>3, <2>1
<1>6. \A c \in Conn : ToSet(job[c]) = {} /\ IsList(job[c])
  BY <1>1, EmptyRows
<1>7. Rooms
  <2> SUFFICES ASSUME NEW c \in Conn, NEW id \in DOMAIN teams, NEW part \in Part
               PROVE Room(job[c], teams[id][part], id, part, meant[id][part])
    BY DEF Rooms
  <2>1. IsList(meant[id][part]) /\ teams[id][part] = meant[id][part]
    BY <1>3
  <2>2. Len(meant[id][part]) \in Nat
    BY <2>1 DEF IsList
  <2>3. NoIns(job[c], id, part) /\ IsList(job[c])
    BY <1>6 DEF NoIns
  <2>4. Len(meant[id][part]) <= Len(meant[id][part])
    BY <2>2
  <2> QED
    BY <2>1, <2>3, <2>4, RoomNone
<1> QED
  BY <1>4, <1>5, <1>6, <1>7 DEF TeamInv, Numbering, OneMaker

\* Only a new team brings rows to insert.
LEMMA InsStay ==
    ASSUME JobTypes, NEW c \in Conn, Move(c), ~MakesTeam(c)
    PROVE \A x \in ToSet(job'[c]) :
             x.op = "insertPart" => job[c] # <<>> /\ x \in ToSet(Tail(job[c])) /\ x \in ToSet(job[c])
<1>1. \A x \in ToSet(job'[c]) : x.op = "insertPart" => job[c] # <<>> /\ x \in ToSet(Tail(job[c]))
  <2>1. ~Brings(c, "insertPart")
    BY DEF Brings
  <2>2. "insertPart" \in Scarce
    BY DEF Scarce
  <2> QED
    BY <2>1, <2>2, Newcomers
<1>2. job[c] # <<>> => ToSet(Tail(job[c])) \subseteq ToSet(job[c])
  BY HeadFits
<1> QED
  BY <1>1, <1>2

LEMMA RoomKept ==
    ASSUME JobTypes, NEW c \in Conn, Move(c), ~ChangesTeam(c), ~MakesTeam(c),
           NEW rows, NEW id, NEW part, NEW m, IsList(rows), IsList(m), Len(rows) <= Len(m),
           Room(job[c], rows, id, part, m)
    PROVE Room(job'[c], rows, id, part, m)
<1>j. IsList(job[c])
  BY DEF JobTypes
<1>s. \A s : job' = [job EXCEPT ![c] = s] => job'[c] = s
  BY DEF JobTypes
<1>o. ASSUME NEW now, Onward(c, now), IsList(now), \A x \in ToSet(now) : x.op # "insertPart",
             HeadOf(c) # "insertPart"
      PROVE Room(job'[c], rows, id, part, m)
  <2>1. job[c] # <<>> /\ job'[c] = now \o Tail(job[c])
    BY <1>o, OnwardSet
  <2>2. NoIns(now, id, part) /\ ~Ins(Head(job[c]), id, part)
    BY <1>o DEF NoIns, Ins, HeadOf
  <2>3. Room(now \o Tail(job[c]), rows, id, part, m)
    BY <1>o, <1>j, <2>1, <2>2, RoomOnward
  <2> QED
    BY <2>1, <2>3
<1>e. Onward(c, <<>>) /\ HeadOf(c) # "insertPart" => Room(job'[c], rows, id, part, m)
  BY <1>o, Tuples
<1>b. CASE job[c] = <<>>
  <2>1. \A x \in ToSet(job'[c]) : x.op # "insertPart"
    BY <1>b, InsStay
  <2>2. NoIns(job'[c], id, part)
    BY <2>1 DEF NoIns, Ins
  <2>3. IsList(job'[c])
    <3>1. Begins(c)
      BY <1>b DEF Move, GoesOn, PutsLast, Stops, Decides, Deducts, FindsMail, MarksMail, PassesLimit,
                  Counts, Wears, SavesWorn, FindsTeam, ChangesTeam, MakesTeam, Onward, NewTeam, At
    <3>2. PICK s : /\ job' = [job EXCEPT ![c] = s]
                   /\ \/ Tame(s) \/ Purchase(s) \/ SaveOfTeam(s)
                      \/ \E op \in {"readMail", "listMails"} : s = << Stmt(op, "mail", 0) >>
      BY <3>1, TameBegins
    <3>3. Purchase(s) => IsList(s)
      BY PurchaseFine DEF Fine
    <3>4. IsList(s)
      BY <3>2, <3>3, Tuples DEF Tame, Fine, SaveOfTeam
    <3> QED
      BY <3>2, <3>4, <1>s
  <2> QED
    BY <2>2, <2>3, RoomNone
<1>4. CASE Stops(c)
  <2>1. job'[c] = <<>>
    BY <1>4, <1>s DEF Stops
  <2>2. NoIns(<<>>, id, part) /\ IsList(<<>>)
    BY Tuples DEF NoIns
  <2> QED
    BY <2>1, <2>2, RoomNone
<1>3. CASE PutsLast(c)
  <2>1. PICK last : Tame(last) /\ job' = [job EXCEPT ![c] = Tail(job[c]) \o last]
    BY <1>3, PlainIsTame DEF PutsLast
  <2>2. job[c] # <<>> /\ job'[c] = Tail(job[c]) \o last /\ HeadOf(c) = "buyDupe"
    BY <1>3, <2>1, <1>s DEF PutsLast
  <2>3. IsList(last) /\ NoIns(last, id, part)
    BY <2>1 DEF Tame, Fine, NoIns, Ins, Scarce
  <2>4. ~Ins(Head(job[c]), id, part)
    BY <2>2 DEF Ins, HeadOf
  <2>5. Room(Tail(job[c]) \o last, rows, id, part, m)
    BY <1>j, <2>2, <2>3, <2>4, RoomPut
  <2> QED
    BY <2>2, <2>5
<1>2. CASE GoesOn(c)
  <2>1. PICK now : Onward(c, now) /\ Tame(now)
    BY <1>2 DEF GoesOn
  <2>2. HeadOf(c) # "insertPart" /\ IsList(now) /\ \A x \in ToSet(now) : x.op # "insertPart"
    BY <1>2, <2>1 DEF GoesOn, Tame, Fine, Scarce
  <2> QED
    BY <2>1, <2>2, <1>o
<1>5. CASE Decides(c)
  <2> DEFINE new == Stmt("deduct", What(c), Amount(c))
  <2>1. IsList(<< new >>) /\ ToSet(<< new >>) = {new} /\ new.op = "deduct"
    BY Tuples DEF Stmt
  <2> QED
    BY <1>5, <2>1, <1>o DEF Decides
<1>6. CASE FindsMail(c)
  <2>1. PICK now : Onward(c, now) /\ Fine(now) /\ Within(now, GiftWork)
    BY <1>6 DEF FindsMail
  <2>2. HeadOf(c) # "insertPart" /\ IsList(now) /\ \A x \in ToSet(now) : x.op # "insertPart"
    BY <1>6, <2>1 DEF FindsMail, Fine, Within, GiftWork
  <2> QED
    BY <2>1, <2>2, <1>o
<1>7. CASE Wears(c)
  <2> DEFINE new == On("saveWorn", HeroOf(c), TemplateOf(c), Detail(c))
  <2>1. IsList(<< new >>) /\ ToSet(<< new >>) = {new} /\ new.op = "saveWorn"
    BY Tuples DEF On, Stmt
  <2> QED
    BY <1>7, <2>1, <1>o DEF Wears
<1>8. CASE FindsTeam(c)
  <2>1. PICK now : Onward(c, now) /\ Fine(now) /\ Within(now, {"wipePart", "dropTeam", "newTeam"})
    BY <1>8 DEF FindsTeam
  <2>2. HeadOf(c) # "insertPart" /\ IsList(now) /\ \A x \in ToSet(now) : x.op # "insertPart"
    BY <1>8, <2>1 DEF FindsTeam, Fine, Within
  <2> QED
    BY <2>1, <2>2, <1>o
<1>9. CASE Deducts(c) \/ MarksMail(c) \/ PassesLimit(c) \/ Counts(c) \/ SavesWorn(c)
  BY <1>9, <1>e DEF Deducts, MarksMail, PassesLimit, Counts, SavesWorn
<1>10. CASE Begins(c)
  BY <1>10, <1>b DEF Begins
<1> QED
  BY <1>2, <1>3, <1>4, <1>5, <1>6, <1>7, <1>8, <1>9, <1>10 DEF Move

\* A statement that changes a team shortens a part of it or adds what is at hand.
LEMMA RowsOf ==
    ASSUME JobTypes, GroupTypes, RowSeqs, NEW c \in Conn, ChangesTeam(c)
    PROVE /\ job[c] # <<>> /\ job'[c] = Tail(job[c])
          /\ lastId' = lastId /\ DOMAIN teams' \subseteq DOMAIN teams
          /\ \A id \in DOMAIN teams', part \in Part :
                LET r == teams[id][part]  more == teams'[id][part]  h == Head(job[c])
                IN /\ meant'[id][part] = meant[id][part] /\ part \in DOMAIN teams'[id]
                   /\ \/ ~Ins(h, id, part) /\ more \in {r, <<>>}
                      \/ Ins(h, id, part) /\ more \in {r, Append(r, h.what[3])}
<1>1. /\ job[c] # <<>> /\ job'[c] = Tail(job[c]) /\ lastId' = lastId
      /\ HeadOf(c) \in {"wipePart", "dropTeam", "insertPart"}
  <2>1. Onward(c, <<>>) /\ lastId' = lastId /\ HeadOf(c) \in {"wipePart", "dropTeam", "insertPart"}
    BY DEF ChangesTeam
  <2>2. job[c] # <<>> /\ job'[c] = <<>> \o Tail(job[c])
    BY <2>1, OnwardSet, Tuples
  <2>3. IsList(Tail(job[c]))
    BY <2>2, HeadFits DEF Fine
  <2>4. <<>> \o Tail(job[c]) = Tail(job[c])
    BY <2>3 DEF IsList
  <2> QED
    BY <2>1, <2>2, <2>4
<1>2. WipePart(c) \/ DropTeam(c) \/ InsertPart(c)
  BY DEF ChangesTeam
<1>3. What(c) = Head(job[c]).what /\ HeadOf(c) = Head(job[c]).op
  BY DEF What, HeadOf
<1>4. DOMAIN meant = DOMAIN teams /\ \A id \in DOMAIN teams, part \in Part : part \in DOMAIN teams[id]
  BY DEF GroupTypes, RowSeqs
<1>5. CASE WipePart(c)
  <2>1. HeadOf(c) = "wipePart" /\ meant' = meant
        /\ teams' = [id \in DOMAIN teams |->
                       IF id = What(c)[1] THEN [teams[id] EXCEPT ![What(c)[2]] = <<>>] ELSE teams[id]]
    BY <1>5 DEF WipePart, At, HeadOf
  <2>2. DOMAIN teams' = DOMAIN teams
    BY <2>1
  <2>3. ASSUME NEW id \in DOMAIN teams', NEW part \in Part
        PROVE /\ ~Ins(Head(job[c]), id, part) /\ teams'[id][part] \in {teams[id][part], <<>>}
              /\ part \in DOMAIN teams'[id]
    <3>1. teams'[id] = teams[id] \/ teams'[id] = [teams[id] EXCEPT ![What(c)[2]] = <<>>]
      BY <2>1, <2>2
    <3>2. part \in DOMAIN teams[id]
      BY <1>4, <2>2
    <3>3. teams'[id][part] \in {teams[id][part], <<>>} /\ part \in DOMAIN teams'[id]
      BY <3>1, <3>2
    <3> QED
      BY <2>1, <3>3, <1>3 DEF Ins
  <2> QED
    BY <1>1, <2>1, <2>2, <2>3
<1>6. CASE DropTeam(c)
  <2>1. /\ HeadOf(c) = "dropTeam"
        /\ teams' = [id \in DOMAIN teams \ {What(c)} |-> teams[id]]
        /\ meant' = [id \in DOMAIN teams \ {What(c)} |-> meant[id]]
    BY <1>6 DEF DropTeam, At, HeadOf
  <2>2. DOMAIN teams' \subseteq DOMAIN teams
        /\ \A id \in DOMAIN teams' : teams'[id] = teams[id] /\ meant'[id] = meant[id]
    BY <2>1
  <2>3. \A id, part : ~Ins(Head(job[c]), id, part)
    BY <2>1, <1>3 DEF Ins
  <2>4. \A id \in DOMAIN teams', part \in Part : part \in DOMAIN teams'[id]
    BY <2>2, <1>4
  <2> QED
    BY <1>1, <2>2, <2>3, <2>4
<1>7. CASE InsertPart(c)
  <2> DEFINE i == What(c)[1]  q == What(c)[2]  x == What(c)[3]
  <2>1. HeadOf(c) = "insertPart" /\ meant' = meant
        /\ (i \notin DOMAIN teams => teams' = teams)
        /\ (i \in DOMAIN teams => teams' = [teams EXCEPT ![i][q] = Append(@, x)])
    BY <1>7 DEF InsertPart, At, HeadOf
  <2>2. DOMAIN teams' = DOMAIN teams
    BY <2>1
  <2>3. \A id, part : Ins(Head(job[c]), id, part) <=> (i = id /\ q = part)
    BY <2>1, <1>3 DEF Ins
  <2>4. x = Head(job[c]).what[3]
    BY <1>3
  <2>5. ASSUME NEW id \in DOMAIN teams', NEW part \in Part
        PROVE /\ part \in DOMAIN teams'[id]
              /\ \/ ~(i = id /\ q = part) /\ teams'[id][part] = teams[id][part]
                 \/ (i = id /\ q = part) /\ teams'[id][part] \in {teams[id][part], Append(teams[id][part], x)}
    <3> HIDE DEF i, q, x
    <3>p. id \in DOMAIN teams /\ part \in DOMAIN teams[id]
      BY <1>4, <2>2
    <3>1. CASE i \notin DOMAIN teams
      <4>1. teams' = teams
        BY <2>1, <3>1
      <4>2. teams'[id][part] = teams[id][part] /\ part \in DOMAIN teams'[id]
        BY <4>1, <3>p
      <4>3. ~(i = id /\ q = part)
        BY <3>1, <3>p
      <4> QED
        BY <4>2, <4>3
    <3>2. CASE i \in DOMAIN teams
      <4>1. teams' = [teams EXCEPT ![i] = [teams[i] EXCEPT ![q] = Append(teams[i][q], x)]]
        BY <2>1, <3>2
      <4>2. id # i => teams'[id] = teams[id]
        BY <4>1, <2>2
      <4>3. id = i => teams'[id] = [teams[i] EXCEPT ![q] = Append(teams[i][q], x)]
        BY <4>1, <2>2
      <4>4. q # part /\ id = i => teams'[id][part] = teams[id][part]
        BY <4>3, <3>p
      <4>5. q = part /\ id = i => teams'[id][part] = Append(teams[id][part], x)
        BY <4>3, <3>p
      <4>6. part \in DOMAIN teams'[id]
        BY <4>2, <4>3, <3>p
      <4> QED
        BY <4>2, <4>4, <4>5, <4>6
    <3> QED
      BY <3>1, <3>2
  <2> QED
    BY <1>1, <2>1, <2>2, <2>3, <2>4, <2>5
<1> QED
  BY <1>2, <1>5, <1>6, <1>7

\* What a new team is to get, in the order of the parts.
LEMMA RowsRemain ==
    ASSUME NEW id, NEW info, Whole(info), NEW part \in Part
    PROVE /\ IsList(Rows(id, info, part)) /\ IsList(info[part])
          /\ Remains(Rows(id, info, part), id, part, info[part], 0)
          /\ \A i, q : i # id \/ q # part => NoIns(Rows(id, info, part), i, q)
<1> DEFINE s == Rows(id, info, part)  m == info[part]
<1>1. /\ IsList(s) /\ Len(s) = Len(m) /\ IsList(m)
      /\ \A x \in ToSet(s) : x.op = "insertPart" /\ x.what[1] = id /\ x.what[2] = part
  <2>1. \A e : LET x == Stmt("insertPart", <<id, part, e>>, 0)
               IN x.op = "insertPart" /\ x.what[1] = id /\ x.what[2] = part
    BY DEF Stmt
  <2>2. Fine(s) /\ Len(s) = Len(m) /\ ToSet(s) = {Stmt("insertPart", <<id, part, e>>, 0) : e \in ToSet(m)}
    BY RowsFine
  <2>3. \A x \in ToSet(s) : \E e : x = Stmt("insertPart", <<id, part, e>>, 0)
    BY <2>2
  <2>4. \A x \in ToSet(s) : x.op = "insertPart" /\ x.what[1] = id /\ x.what[2] = part
    <3> TAKE x \in ToSet(s)
    <3>1. PICK e : x = Stmt("insertPart", <<id, part, e>>, 0)
      BY <2>3
    <3> QED
      BY <3>1, <2>1
  <2>5. IsList(m)
    BY DEF Whole
  <2> QED
    BY <2>2, <2>4, <2>5 DEF Fine
<1>2. Len(m) \in Nat /\ DOMAIN m = 1..Len(m) /\ DOMAIN s = 1..Len(s)
  BY <1>1 DEF IsList
<1>3. \A i \in 1..Len(m) : s[i] = Stmt("insertPart", <<id, part, m[i]>>, 0)
  BY <1>2 DEF Rows
<1>4. \A i \in 1..Len(s) : Ins(s[i], id, part) /\ s[i].what[3] = m[i]
  <2>1. \A e : LET x == Stmt("insertPart", <<id, part, e>>, 0)
               IN x.op = "insertPart" /\ x.what[1] = id /\ x.what[2] = part /\ x.what[3] = e
    BY DEF Stmt
  <2> TAKE i \in 1..Len(s)
  <2>2. s[i] = Stmt("insertPart", <<id, part, m[i]>>, 0)
    BY <1>1, <1>3
  <2> QED
    BY <2>1, <2>2 DEF Ins
<1> HIDE DEF s, m
<1>5. Remains(s, id, part, m, 0)
  <2>1. 0 \in 0..Len(m) /\ 0 + (Len(m) - 0) <= Len(s)
    BY <1>1, <1>2
  <2>2. \A i \in 1..Len(s) : (0 < i /\ i <= 0 + (Len(m) - 0)) /\ 0 + (i - 0) = i
    BY <1>1, <1>2
  <2> QED
    BY <2>1, <2>2, <1>4 DEF Remains
<1>6. \A i, q : i # id \/ q # part => NoIns(s, i, q)
  BY <1>1 DEF NoIns, Ins
<1> QED
  BY <1>1, <1>5, <1>6 DEF s, m

LEMMA NewRoom ==
    ASSUME NEW id, NEW info, Whole(info), NEW t, IsList(t), \A q : NoIns(t, id, q)
    PROVE LET now == Rows(id, info, "members") \o Rows(id, info, "equips") \o Rows(id, info, "activity")
          IN /\ IsList(now) /\ \A x \in ToSet(now) : x.op = "insertPart" /\ x.what[1] = id
             /\ \A part \in Part : Room(now \o t, <<>>, id, part, info[part])
<1> DEFINE a == Rows(id, info, "members")  b == Rows(id, info, "equips")  f == Rows(id, info, "activity")
<1>p. "members" \in Part /\ "equips" \in Part /\ "activity" \in Part
      /\ \A part \in Part : part = "members" \/ part = "equips" \/ part = "activity"
  BY DEF Part
<1>1. /\ IsList(a) /\ IsList(info["members"]) /\ Remains(a, id, "members", info["members"], 0)
      /\ NoIns(a, id, "equips") /\ NoIns(a, id, "activity")
  BY <1>p, RowsRemain
<1>2. /\ IsList(b) /\ IsList(info["equips"]) /\ Remains(b, id, "equips", info["equips"], 0)
      /\ NoIns(b, id, "members") /\ NoIns(b, id, "activity")
  BY <1>p, RowsRemain
<1>3. /\ IsList(f) /\ IsList(info["activity"]) /\ Remains(f, id, "activity", info["activity"], 0)
      /\ NoIns(f, id, "members") /\ NoIns(f, id, "equips")
  BY <1>p, RowsRemain
<1>i. \A x \in ToSet(a) \cup ToSet(b) \cup ToSet(f) : x.op = "insertPart" /\ x.what[1] = id
  <2>1. \A e, q : LET x == Stmt("insertPart", <<id, q, e>>, 0) IN x.op = "insertPart" /\ x.what[1] = id
    BY DEF Stmt
  <2>2. ASSUME NEW part \in Part, NEW x \in ToSet(Rows(id, info, part))
        PROVE x.op = "insertPart" /\ x.what[1] = id
    <3>1. ToSet(Rows(id, info, part)) = {Stmt("insertPart", <<id, part, e>>, 0) : e \in ToSet(info[part])}
      BY RowsFine
    <3>2. PICK e : x = Stmt("insertPart", <<id, part, e>>, 0)
      BY <3>1
    <3> QED
      BY <2>1, <3>2
  <2> QED
    BY <2>2, <1>p
<1> HIDE DEF a, b, f
<1>4. IsList(a \o b) /\ ToSet(a \o b) = ToSet(a) \cup ToSet(b)
  BY <1>1, <1>2, FineJoin
<1>5. IsList((a \o b) \o f) /\ ToSet((a \o b) \o f) = ToSet(a) \cup ToSet(b) \cup ToSet(f)
  BY <1>3, <1>4, FineJoin
<1>6. Remains(((a \o b) \o f) \o t, id, "members", info["members"], 0)
  <2>1. Remains(a \o b, id, "members", info["members"], 0)
    BY <1>1, <1>2, RemainsBefore
  <2>2. Remains((a \o b) \o f, id, "members", info["members"], 0)
    BY <1>1, <1>3, <1>4, <2>1, RemainsBefore
  <2> QED
    BY <1>1, <1>5, <2>2, RemainsBefore
<1>7. Remains(((a \o b) \o f) \o t, id, "equips", info["equips"], 0)
  <2>1. Remains(a \o b, id, "equips", info["equips"], 0)
    BY <1>1, <1>2, RemainsAfter
  <2>2. Remains((a \o b) \o f, id, "equips", info["equips"], 0)
    BY <1>2, <1>3, <1>4, <2>1, RemainsBefore
  <2> QED
    BY <1>2, <1>5, <2>2, RemainsBefore
<1>8. Remains(((a \o b) \o f) \o t, id, "activity", info["activity"], 0)
  <2>1. NoIns(a \o b, id, "activity")
    BY <1>1, <1>2, <1>4 DEF NoIns
  <2>2. Remains((a \o b) \o f, id, "activity", info["activity"], 0)
    BY <1>3, <1>4, <2>1, RemainsAfter
  <2> QED
    BY <1>3, <1>5, <2>2, RemainsBefore
<1>9. \A part \in Part : Room(((a \o b) \o f) \o t, <<>>, id, part, info[part])
  <2>1. \A s, part, m : Remains(s, id, part, m, 0) => Room(s, <<>>, id, part, m)
    <3>1. Len(<<>>) <= 0
      BY EmptyRows
    <3> QED
      BY <3>1 DEF Room
  <2> QED
    BY <1>6, <1>7, <1>8, <1>p, <2>1
<1> QED
  BY <1>5, <1>9, <1>i DEF a, b, f

\* The rows a part has keep within what was meant for it as a statement adds one.
LEMMA TeamsElsewhere ==
    ASSUME Types, TeamInv, NEW c \in Conn, Move(c), ~ChangesTeam(c), ~MakesTeam(c), JobTypes'
    PROVE TeamInv'
<1>1. teams' = teams /\ meant' = meant /\ lastId' = lastId
  BY DEF Move, Begins, GoesOn, PutsLast, Stops, Decides, Deducts, FindsMail, MarksMail, PassesLimit,
         Counts, Wears, SavesWorn, FindsTeam, Kept
<1>2. \A d \in Conn \ {c} : job'[d] = job[d]
  BY Newcomers DEF Types
<1>3. \A d \in Conn : \A x \in ToSet(job'[d]) : x.op = "insertPart" => x \in ToSet(job[d])
  BY <1>2, InsStay DEF Types
<1>4. RowsOwned' /\ RowSeqs'
  BY <1>1 DEF TeamInv, RowsOwned, OwnRows, RowSeqs
<1>5. Numbering'
  BY <1>1, <1>3 DEF TeamInv, Numbering
<1>6. OneMaker'
  BY <1>3 DEF TeamInv, OneMaker
<1>7. ASSUME NEW d \in Conn, NEW id \in DOMAIN teams, NEW part \in Part
      PROVE Room(job'[d], teams[id][part], id, part, meant[id][part])
  <2>1. Room(job[d], teams[id][part], id, part, meant[id][part])
    BY DEF TeamInv, Rooms
  <2>2. IsList(teams[id][part]) /\ IsList(meant[id][part])
    BY DEF TeamInv, RowSeqs
  <2>3. Len(teams[id][part]) <= Len(meant[id][part])
    BY <2>1, <2>2, RoomMeans
  <2>4. CASE d = c
    BY <2>1, <2>2, <2>3, <2>4, RoomKept DEF Types
  <2> QED
    BY <1>2, <2>1, <2>4
<1>8. Rooms'
  BY <1>1, <1>7 DEF Rooms
<1> QED
  BY <1>4, <1>5, <1>6, <1>8 DEF TeamInv

LEMMA TeamChanged ==
    ASSUME Types, TeamInv, NEW c \in Conn, Move(c), ChangesTeam(c)
    PROVE TeamInv'
<1> DEFINE h == Head(job[c])
<1>t. JobTypes /\ GroupTypes /\ RowSeqs
  BY DEF Types, StateTypes, TeamInv
<1>r. /\ job[c] # <<>> /\ job'[c] = Tail(job[c])
      /\ lastId' = lastId /\ DOMAIN teams' \subseteq DOMAIN teams
      /\ \A id \in DOMAIN teams', part \in Part :
            LET r == teams[id][part]  more == teams'[id][part]
            IN /\ meant'[id][part] = meant[id][part] /\ part \in DOMAIN teams'[id]
               /\ \/ ~Ins(h, id, part) /\ more \in {r, <<>>}
                  \/ Ins(h, id, part) /\ more \in {r, Append(r, h.what[3])}
  BY <1>t, RowsOf
<1>2. \A d \in Conn \ {c} : job'[d] = job[d]
  BY <1>t, Newcomers
<1>m. ~MakesTeam(c)
  BY DEF MakesTeam, ChangesTeam
<1>3. \A d \in Conn : \A x \in ToSet(job'[d]) : x.op = "insertPart" => x \in ToSet(job[d])
  BY <1>2, <1>t, <1>m, InsStay
<1>h. h \in ToSet(job[c]) /\ IsList(Tail(job[c]))
  BY <1>r, <1>t, HeadFits DEF Fine
<1>j. \A d \in Conn : IsList(job[d])
  BY <1>t DEF JobTypes
<1>4. Numbering'
  BY <1>r, <1>3 DEF TeamInv, Numbering
<1>5. OneMaker'
  BY <1>3 DEF TeamInv, OneMaker
<1> HIDE DEF h
<1>6. ASSUME NEW id \in DOMAIN teams', NEW part \in Part
      PROVE /\ IsList(teams'[id][part]) /\ IsList(meant'[id][part])
            /\ ToSet(teams'[id][part]) \subseteq ToSet(meant'[id][part])
            /\ Len(teams'[id][part]) <= Len(meant'[id][part])
            /\ \A d \in Conn : Room(job'[d], teams'[id][part], id, part, meant'[id][part])
  <2>1. PICK r, m, more : r = teams[id][part] /\ m = meant[id][part] /\ more = teams'[id][part]
    OBVIOUS
  <2>2. /\ meant'[id][part] = m
        /\ \/ ~Ins(h, id, part) /\ more \in {r, <<>>}
           \/ Ins(h, id, part) /\ more \in {r, Append(r, h.what[3])}
    BY <1>r, <1>6, <2>1
  <2>3. /\ IsList(r) /\ IsList(m) /\ ToSet(r) \subseteq ToSet(m) /\ Len(r) <= Len(m)
        /\ \A d \in Conn : Room(job[d], r, id, part, m)
    BY <1>r, <1>6, <2>1 DEF TeamInv, RowSeqs, RowsOwned, OwnRows, Rooms
  <2>4. Len(r) \in Nat /\ Len(m) \in Nat
    BY <2>3 DEF IsList
  <2>5. /\ IsList(more) /\ ToSet(more) \subseteq ToSet(m) /\ Len(more) <= Len(m)
        /\ \A d \in Conn : Room(job'[d], more, id, part, m)
    <3>1. CASE ~Ins(h, id, part)
      <4>1. IsList(more) /\ ToSet(more) \subseteq ToSet(m) /\ Len(more) <= Len(r)
        BY <2>2, <2>3, <2>4, <3>1, EmptyRows
      <4>2. Len(more) \in Nat
        BY <4>1 DEF IsList
      <4>3. ASSUME NEW d \in Conn PROVE Room(job[d], more, id, part, m)
        BY <2>3, <4>1, RoomLess
      <4>4. Room(Tail(job[c]), more, id, part, m)
        <5>1. Room(<<>> \o Tail(job[c]), more, id, part, m)
          <6>1. IsList(<<>>) /\ NoIns(<<>>, id, part)
            BY Tuples DEF NoIns
          <6> QED
            BY <1>j, <1>r, <2>3, <3>1, <4>3, <6>1, RoomOnward DEF h
        <5>2. <<>> \o Tail(job[c]) = Tail(job[c])
          BY <1>h DEF IsList
        <5> QED
          BY <5>1, <5>2
      <4>5. \A d \in Conn : Room(job'[d], more, id, part, m)
        BY <1>r, <1>2, <4>3, <4>4
      <4>6. Len(more) <= Len(m)
        BY <4>1, <4>2, <2>3, <2>4
      <4> QED
        BY <4>1, <4>5, <4>6
    <3>2. CASE Ins(h, id, part)
      <4> DEFINE e == h.what[3]  all == Append(r, e)
      <4>1. /\ e \in ToSet(m) /\ Len(r) + 1 <= Len(m) /\ IsList(all) /\ ToSet(all) = ToSet(r) \cup {e}
            /\ Len(all) = Len(r) + 1 /\ Room(Tail(job[c]), all, id, part, m)
        BY <1>j, <1>r, <2>3, <3>2, RoomHead DEF h
      <4> HIDE DEF e, all
      <4>2. more \in {r, all}
        BY <2>2, <3>2 DEF all, e
      <4>3. IsList(more) /\ ToSet(more) \subseteq ToSet(m) /\ Len(more) <= Len(m) /\ Len(more) <= Len(all)
        BY <4>1, <4>2, <2>3, <2>4
      <4>4. Room(Tail(job[c]), more, id, part, m)
        BY <4>1, <4>3, <2>3, RoomLess
      <4>5. ASSUME NEW d \in Conn \ {c} PROVE Room(job[d], more, id, part, m)
        <5>1. NoIns(job[d], id, part)
          BY <1>h, <3>2 DEF TeamInv, OneMaker, NoIns, Ins
        <5> QED
          BY <5>1, <1>j, <2>3, <4>3, RoomNone
      <4> QED
        BY <1>r, <1>2, <4>3, <4>4, <4>5
    <3> QED
      BY <3>1, <3>2
  <2> QED
    BY <2>1, <2>2, <2>3, <2>5
<1>7. RowsOwned' /\ RowSeqs' /\ Rooms'
  BY <1>6, <1>r DEF RowsOwned, OwnRows, RowSeqs, Rooms
<1> QED
  BY <1>4, <1>5, <1>7 DEF TeamInv

\* A new team takes an id of its own, so nothing is about to go into it but its rows.
LEMMA TeamMade ==
    ASSUME Types, TeamInv, NEW c \in Conn, Move(c), MakesTeam(c)
    PROVE TeamInv'
<1> DEFINE new == lastId + 1  info == What(c)[3]
           now == Rows(new, info, "members") \o Rows(new, info, "equips") \o Rows(new, info, "activity")
<1>t. JobTypes /\ GroupTypes
  BY DEF Types, StateTypes
<1>n. lastId \in Nat /\ DOMAIN teams \subseteq 1..lastId /\ DOMAIN meant = DOMAIN teams
  BY <1>t DEF GroupTypes
<1>1. NewTeam(c) /\ job[c] # <<>> /\ HeadOf(c) = "newTeam" /\ Onward(c, now)
  BY NewTeamRows DEF MakesTeam
<1>2. Whole(info)
  BY <1>1, <1>t, HeadFits DEF Fits, HeadOf, What
<1>3. PICK s, g : /\ teams' = With(teams, new, Row(s, g))
                  /\ meant' = With(meant, new, WithParts(s, g, info))
                  /\ lastId' = new
  BY <1>1 DEF NewTeam, InsertTeam
<1>4. new \in Nat /\ new \notin DOMAIN teams /\ lastId <= new /\ \A i \in Nat : i <= lastId => i <= new /\ i # new
  BY <1>n
<1>o. \A d \in Conn : IsList(job[d])
        /\ \A x \in ToSet(job[d]) : x.op = "insertPart" => x.what[1] \in Nat /\ x.what[1] <= new /\ x.what[1] # new
  BY <1>t, <1>4 DEF JobTypes, TeamInv, Numbering
<1>5. \A d \in Conn : \A q : NoIns(job[d], new, q)
  BY <1>o DEF NoIns, Ins
<1> HIDE DEF new, info
<1>6. IsList(Tail(job[c])) /\ ToSet(Tail(job[c])) \subseteq ToSet(job[c])
  BY <1>1, <1>t, HeadFits DEF Fine
<1>7. \A q : NoIns(Tail(job[c]), new, q)
  BY <1>5, <1>6 DEF NoIns
<1>8. /\ IsList(now) /\ \A x \in ToSet(now) : x.op = "insertPart" /\ x.what[1] = new
      /\ \A part \in Part : Room(now \o Tail(job[c]), <<>>, new, part, info[part])
  BY <1>2, <1>6, <1>7, NewRoom
<1> HIDE DEF now
<1>9. /\ job'[c] = now \o Tail(job[c]) /\ ToSet(job'[c]) = ToSet(now) \cup ToSet(Tail(job[c]))
      /\ \A d \in Conn \ {c} : job'[d] = job[d]
  BY <1>1, <1>8, <1>t, OnwardSet
<1>10. /\ DOMAIN teams' = DOMAIN teams \cup {new}
       /\ \A id \in DOMAIN teams : teams'[id] = teams[id] /\ meant'[id] = meant[id]
       /\ teams'[new] = Row(s, g) /\ meant'[new] = WithParts(s, g, info)
  BY <1>3, <1>4, <1>n DEF With
<1>11. Numbering'
  <2>1. ASSUME NEW d \in Conn, NEW x \in ToSet(job'[d]), x.op = "insertPart"
        PROVE x.what[1] \in Nat /\ x.what[1] <= new
    <3>1. new <= new
      BY <1>4
    <3>2. x \in ToSet(job[d]) \/ x \in ToSet(now)
      BY <1>9, <1>6
    <3> QED
      BY <2>1, <3>1, <3>2, <1>o, <1>8, <1>4
  <2> QED
    BY <2>1, <1>3 DEF Numbering
<1>12. OneMaker'
  <2>1. ASSUME NEW a \in Conn, NEW b \in Conn, a # b, NEW x \in ToSet(job'[a]), NEW y \in ToSet(job'[b]),
               x.op = "insertPart", y.op = "insertPart"
        PROVE x.what[1] # y.what[1]
    <3>1. x \in ToSet(job[a]) \/ (a = c /\ x.what[1] = new)
      BY <1>9, <1>6, <1>8
    <3>2. y \in ToSet(job[b]) \/ (b = c /\ y.what[1] = new)
      BY <1>9, <1>6, <1>8
    <3>3. x \in ToSet(job[a]) /\ y \in ToSet(job[b]) => x.what[1] # y.what[1]
      BY <2>1 DEF TeamInv, OneMaker
    <3>4. x \in ToSet(job[a]) => x.what[1] # new
      BY <2>1, <1>o
    <3>5. y \in ToSet(job[b]) => y.what[1] # new
      BY <2>1, <1>o
    <3> QED
      BY <2>1, <3>1, <3>2, <3>3, <3>4, <3>5
  <2> QED
    BY <2>1 DEF OneMaker
<1>13. ASSUME NEW part \in Part
       PROVE /\ part \in DOMAIN teams'[new] /\ teams'[new][part] = <<>> /\ meant'[new][part] = info[part]
             /\ IsList(info[part]) /\ Len(info[part]) \in Nat
  <2>1. Row(s, g)[part] = <<>> /\ WithParts(s, g, info)[part] = info[part] /\ part \in DOMAIN Row(s, g)
    <3>1. part \in DOMAIN Row(s, g) /\ Row(s, g)[part] = <<>>
      BY DEF Row, Part
    <3>2. \A u, v, z : WithParts(u, v, z)[part] = z[part]
      BY DEF WithParts, Row, Part
    <3> QED
      BY <3>1, <3>2
  <2>2. IsList(info[part])
    BY <1>2 DEF Whole
  <2>3. Len(info[part]) \in Nat
    BY <2>2 DEF IsList
  <2> QED
    BY <1>10, <2>1, <2>2, <2>3
<1>14. RowSeqs'
  BY <1>10, <1>13, EmptyRows DEF TeamInv, RowSeqs
<1>15. RowsOwned'
  <2>1. ASSUME NEW part \in Part
        PROVE ToSet(teams'[new][part]) \subseteq ToSet(meant'[new][part]) /\ Len(teams'[new][part]) <= Len(meant'[new][part])
    <3>1. 0 <= Len(info[part])
      BY <1>13
    <3> QED
      BY <1>13, <3>1, EmptyRows
  <2> QED
    BY <2>1, <1>10 DEF TeamInv, RowsOwned, OwnRows
<1>16. ASSUME NEW d \in Conn, NEW id \in DOMAIN teams, NEW part \in Part
       PROVE Room(job'[d], teams[id][part], id, part, meant[id][part])
  <2>1. Room(job[d], teams[id][part], id, part, meant[id][part]) /\ IsList(meant[id][part])
    BY DEF TeamInv, Rooms, RowSeqs
  <2>2. CASE d = c
    <3>1. ~Ins(Head(job[c]), id, part)
      BY <1>1 DEF Ins, HeadOf
    <3>2. NoIns(now, id, part)
      BY <1>4, <1>8 DEF NoIns, Ins
    <3>3. Room(now \o Tail(job[c]), teams[id][part], id, part, meant[id][part])
      BY <1>1, <1>8, <1>o, <2>1, <2>2, <3>1, <3>2, RoomOnward
    <3> QED
      BY <1>9, <2>2, <3>3
  <2> QED
    BY <1>9, <2>1, <2>2
<1>17. ASSUME NEW d \in Conn, NEW part \in Part
       PROVE Room(job'[d], <<>>, new, part, info[part])
  <2>1. CASE d = c
    BY <1>8, <1>9, <2>1
  <2>2. CASE d # c
    <3>1. IsList(info[part]) /\ Len(<<>>) <= Len(info[part])
      BY <1>13, EmptyRows
    <3>2. Room(job[d], <<>>, new, part, info[part])
      BY <1>5, <1>o, <3>1, EmptyRows, RoomNone
    <3> QED
      BY <1>9, <2>2, <3>2
  <2> QED
    BY <2>1, <2>2
<1>18. Rooms'
  BY <1>10, <1>13, <1>16, <1>17 DEF Rooms
<1> QED
  BY <1>11, <1>12, <1>14, <1>15, <1>18 DEF TeamInv

TeamSafe == Types /\ TeamInv

LEMMA TeamSteps == TeamSafe /\ [Next]_vars => TeamSafe'
<1> SUFFICES ASSUME TeamSafe, [Next]_vars PROVE TeamSafe'
  OBVIOUS
<1>1. Types' /\ JobTypes'
  BY TypesStep DEF TeamSafe, Types
<1>2. CASE Next
  <2>1. PICK c \in Conn : Move(c)
    BY <1>2, NextMoves DEF TeamSafe
  <2>2. TeamInv'
    BY <1>1, <2>1, TeamsElsewhere, TeamChanged, TeamMade DEF TeamSafe
  <2> QED
    BY <1>1, <2>2 DEF TeamSafe
<1>3. CASE UNCHANGED vars
  <2>1. job' = job /\ teams' = teams /\ meant' = meant /\ lastId' = lastId
    BY <1>3 DEF vars, invVars, layOut, groupVars
  <2>2. TeamInv'
    BY <2>1 DEF TeamSafe, TeamInv, RowsOwned, OwnRows, RowSeqs, Numbering, OneMaker, Rooms
  <2> QED
    BY <1>1, <2>2 DEF TeamSafe
<1> QED
  BY <1>2, <1>3

\* Whatever overlaps or fails, a saved team holds rows of its own save only, and no
\* more than it was to get (save_hero_group_snapshot): a save deletes the team before
\* and inserts its own row by row, under an id that is never given again, so the
\* rows of a save that another one overtook find no team to go into.
THEOREM TeamsStayOwn == Spec => []RowsOwned
<1>1. Init => TeamSafe
  BY TypesStart, TeamStarts DEF TeamSafe
<1>2. TeamSafe /\ [Next]_vars => TeamSafe'
  BY TeamSteps
<1>3. TeamSafe => RowsOwned
  BY DEF TeamSafe, TeamInv
<1> QED
  BY <1>1, <1>2, <1>3, PTL DEF Spec

-----------------------------------------------------------------------------
(* Insight items, expired power and summons: what holds as long as nothing  *)
(* overlaps, so that one request is served at a time.                       *)

LEMMA Ways ==
    ASSUME JobTypes, NEW c \in Conn, Move(c)
    PROVE Arrives(c) \/ (\E now : Carries(c, now)) \/ Appends(c) \/ Ends(c)
<1>s. \A s : job' = [job EXCEPT ![c] = s] => job'[c] = s
  BY DEF JobTypes
<1>o. ASSUME NEW now, Onward(c, now), IsList(now), faults' = faults, HeadOf(c) \notin Lone,
             Clear(now, Lone),
             HeadOf(c) \in GiftWork => Within(now, GiftWork),
             HeadOf(c) \in CashWork => Within(now, CashWork)
      PROVE \E new : Carries(c, new)
  <2>1. job[c] # <<>> /\ job'[c] = now \o Tail(job[c])
    BY <1>o, <1>s DEF Onward
  <2>2. Carries(c, now)
    BY <1>o, <2>1 DEF Carries, Clear
  <2> QED
    BY <2>2
<1>e. Onward(c, <<>>) /\ faults' = faults /\ HeadOf(c) \notin Lone => \E new : Carries(c, new)
  <2>1. IsList(<<>>) /\ Clear(<<>>, Lone) /\ \A W : Within(<<>>, W)
    BY Nothing2Do, Tuples DEF Clear
  <2> QED
    BY <1>o, <2>1
<1>1. CASE Begins(c)
  <2>1. PICK s : /\ job' = [job EXCEPT ![c] = s]
                 /\ \/ Plain(s) \/ Opens(s) \/ Purchase(s) \/ SaveOfTeam(s)
                    \/ \E op \in {"readMail", "listMails"} : s = << Stmt(op, "mail", 0) >>
    BY <1>1, Zenon DEF Begins
  <2>2. job'[c] = s /\ job[c] = <<>> /\ faults' = faults
    BY <1>1, <2>1, <1>s DEF Begins
  <2>3. Plain(s) \/ Purchase(s) => Clear(s, Lone)
    BY PlainIsTame, PurchaseOps DEF Clear
  <2>4. SaveOfTeam(s) => Clear(s, Lone)
    <3>1. \A x, y, z : ToSet(<<x, y, z>>) = {x, y, z}
      BY Tuples
    <3> QED
      BY <3>1 DEF SaveOfTeam, Clear, Lone
  <2>5. ASSUME NEW op \in {"readMail", "listMails"}, s = << Stmt(op, "mail", 0) >> PROVE Clear(s, Lone)
    <3>1. \A x : ToSet(<<x>>) = {x}
      BY Tuples
    <3> QED
      BY <2>5, <3>1 DEF Stmt, Clear, Lone
  <2>6. Clear(s, Lone) \/ Opens(s)
    BY <2>1, <2>3, <2>4, <2>5
  <2> QED
    BY <2>2, <2>6 DEF Arrives
<1>2. CASE GoesOn(c)
  <2>1. PICK now : /\ Onward(c, now) /\ Tame(now)
                   /\ \A x \in ToSet(now) : x.op \in Lone => Lends(HeadOf(c), x.op)
                   /\ HeadOf(c) \in GiftWork => Within(now, GiftWork)
                   /\ HeadOf(c) \in CashWork => Within(now, CashWork)
    BY <1>2 DEF GoesOn
  <2>2. job[c] # <<>> /\ job'[c] = now \o Tail(job[c]) /\ IsList(now)
    BY <2>1, <1>s DEF Onward, Tame, Fine
  <2>3. faults' = faults /\ (HeadOf(c) \in Lone => LoneStep(c))
    BY <1>2 DEF GoesOn, Same
  <2>4. Carries(c, now)
    BY <2>1, <2>2, <2>3 DEF Carries
  <2> QED
    BY <2>4
<1>3. CASE PutsLast(c)
  <2>1. PICK last : Plain(last) /\ job' = [job EXCEPT ![c] = Tail(job[c]) \o last]
    BY <1>3 DEF PutsLast
  <2>2. IsList(last) /\ Clear(last, Lone) /\ job'[c] = Tail(job[c]) \o last
    BY <2>1, <1>s, PlainIsTame DEF Plain, Fine, Clear
  <2>3. Appends(c)
    BY <1>3, <2>2 DEF PutsLast, Same, Appends
  <2> QED
    BY <2>3
<1>4. CASE Stops(c)
  <2>1. Ends(c)
    BY <1>4, <1>s DEF Stops, Ends
  <2> QED
    BY <2>1
<1>5. CASE Decides(c)
  <2> DEFINE new == Stmt("deduct", What(c), Amount(c))
  <2>1. IsList(<< new >>) /\ ToSet(<< new >>) = {new} /\ new.op = "deduct"
    BY Tuples DEF Stmt
  <2>2. Onward(c, << new >>) /\ faults' = faults /\ HeadOf(c) \in {"take", "pay"}
    BY <1>5 DEF Decides, Same
  <2>3. Clear(<< new >>, Lone) /\ Within(<< new >>, CashWork) /\ HeadOf(c) \notin Lone
        /\ HeadOf(c) \notin GiftWork
    BY <2>1, <2>2 DEF Clear, Within, Lone, CashWork, GiftWork
  <2> HIDE DEF new
  <2> QED
    BY <2>1, <2>2, <2>3, <1>o
<1>6. CASE FindsMail(c)
  <2>1. PICK now : Onward(c, now) /\ Fine(now) /\ Within(now, GiftWork)
    BY <1>6 DEF FindsMail
  <2>2. HeadOf(c) \in {"readMail", "listMails"} /\ faults' = faults
    BY <1>6 DEF FindsMail, Same
  <2>3. HeadOf(c) \notin Lone /\ HeadOf(c) \notin CashWork /\ IsList(now) /\ Clear(now, Lone)
    BY <2>1, <2>2 DEF Lone, CashWork, Fine, Within, Clear, GiftWork
  <2> QED
    BY <2>1, <2>2, <2>3, <1>o
<1>7. CASE Wears(c)
  <2> DEFINE new == On("saveWorn", HeroOf(c), TemplateOf(c), Detail(c))
  <2>1. IsList(<< new >>) /\ ToSet(<< new >>) = {new} /\ new.op = "saveWorn"
    BY Tuples DEF On, Stmt
  <2>2. Onward(c, << new >>) /\ faults' = faults /\ HeadOf(c) = "wearStyle"
    BY <1>7 DEF Wears, Same
  <2>3. Clear(<< new >>, Lone) /\ HeadOf(c) \notin Lone /\ HeadOf(c) \notin GiftWork
        /\ HeadOf(c) \notin CashWork
    BY <2>1, <2>2 DEF Clear, Lone, CashWork, GiftWork
  <2> HIDE DEF new
  <2> QED
    BY <2>1, <2>2, <2>3, <1>o
<1>8. CASE FindsTeam(c) \/ MakesTeam(c)
  <2>1. \E now : /\ Onward(c, now) /\ IsList(now)
                 /\ Within(now, {"wipePart", "dropTeam", "newTeam", "insertPart"})
    <3>1. FindsTeam(c) => \E now : /\ Onward(c, now) /\ Fine(now)
                                   /\ Within(now, {"wipePart", "dropTeam", "newTeam"})
      BY DEF FindsTeam
    <3>2. MakesTeam(c) => \E now : Onward(c, now) /\ IsList(now) /\ \A x \in ToSet(now) : x.op = "insertPart"
      BY TeamRows
    <3> QED
      BY <1>8, <3>1, <3>2 DEF Fine, Within
  <2>2. PICK now : /\ Onward(c, now) /\ IsList(now)
                   /\ Within(now, {"wipePart", "dropTeam", "newTeam", "insertPart"})
    BY <2>1
  <2>3. HeadOf(c) \in {"findTeam", "newTeam"} /\ faults' = faults
    BY <1>8 DEF FindsTeam, MakesTeam, Same
  <2>4. Clear(now, Lone) /\ HeadOf(c) \notin Lone /\ HeadOf(c) \notin GiftWork /\ HeadOf(c) \notin CashWork
    BY <2>2, <2>3 DEF Clear, Within, Lone, CashWork, GiftWork
  <2> QED
    BY <2>2, <2>3, <2>4, <1>o
<1>9. CASE Deducts(c) \/ MarksMail(c) \/ PassesLimit(c) \/ Counts(c) \/ SavesWorn(c) \/ ChangesTeam(c)
  <2>1. Onward(c, <<>>) /\ faults' = faults
        /\ HeadOf(c) \in {"deduct", "markMail", "limit", "countBuy", "saveWorn", "wipePart", "dropTeam", "insertPart"}
    BY <1>9 DEF Deducts, MarksMail, PassesLimit, Counts, SavesWorn, ChangesTeam, Same
  <2>2. HeadOf(c) \notin Lone
    BY <2>1 DEF Lone
  <2> QED
    BY <2>1, <2>2, <1>e
<1> QED
  BY <1>1, <1>2, <1>3, <1>4, <1>5, <1>6, <1>7, <1>8, <1>9 DEF Move

LEMMA Alone ==
    ASSUME JobTypes, HistoryTypes, Lonely, NEW c \in Conn, Move(c), ~overlapped'
    PROVE ~overlapped /\ \A d \in Conn \ {c} : job[d] = <<>> /\ job'[d] = <<>>
<1>1. ~overlapped /\ (job[c] = <<>> => \A d \in Conn : job[d] = <<>>)
  BY Counters
<1>2. \A d \in Conn \ {c} : job'[d] = job[d]
  BY Newcomers
<1>3. \A d \in Conn \ {c} : job[d] = <<>>
  BY <1>1 DEF Lonely
<1> QED
  BY <1>1, <1>2, <1>3

\* Which statement a step of these services executes.
LEMMA LoneHeads ==
    ASSUME NEW c \in Conn, LoneStep(c)
    PROVE /\ HeadOf(c) = "applyInsight" => ApplyInsight(c)
          /\ HeadOf(c) = "raise" => Raise(c)
          /\ HeadOf(c) = "spendInsight" => SpendInsight(c)
          /\ HeadOf(c) = "findExpired" => FindExpired(c)
          /\ HeadOf(c) = "deletePower" => DeletePower(c)
          /\ HeadOf(c) = "readStamina" => ReadStamina(c)
          /\ HeadOf(c) = "saveStamina" => SaveStamina(c)
          /\ HeadOf(c) = "load" => Load(c)
          /\ HeadOf(c) = "pull" => PullSix(c) \/ PullLower(c)
          /\ HeadOf(c) = "save" => SaveCounters(c)
<1>1. ApplyInsight(c) => HeadOf(c) = "applyInsight"
  BY DEF ApplyInsight, At, HeadOf
<1>2. Raise(c) => HeadOf(c) = "raise"
  BY DEF Raise, At, HeadOf
<1>3. SpendInsight(c) => HeadOf(c) = "spendInsight"
  BY DEF SpendInsight, At, HeadOf
<1>4. FindExpired(c) => HeadOf(c) = "findExpired"
  BY DEF FindExpired, At, HeadOf
<1>5. DeletePower(c) => HeadOf(c) = "deletePower"
  BY DEF DeletePower, At, HeadOf
<1>6. ReadStamina(c) => HeadOf(c) = "readStamina"
  BY DEF ReadStamina, At, HeadOf
<1>7. SaveStamina(c) => HeadOf(c) = "saveStamina"
  BY DEF SaveStamina, At, HeadOf
<1>8. Load(c) => HeadOf(c) = "load"
  BY DEF Load, At, HeadOf
<1>9. PullSix(c) \/ PullLower(c) => HeadOf(c) = "pull"
  BY DEF PullSix, PullLower, At, HeadOf
<1>10. SaveCounters(c) => HeadOf(c) = "save"
  BY DEF SaveCounters, At, HeadOf
<1> QED
  BY <1>1, <1>2, <1>3, <1>4, <1>5, <1>6, <1>7, <1>8, <1>9, <1>10 DEF LoneStep

\* A job whose statements are of W until it comes to v.
Works(s, W, v) == \E u : IsList(u) /\ Within(u, W) /\ s = u \o v

LEMMA WorksOn ==
    ASSUME NEW s, NEW W, NEW v, IsList(v), Works(s, W, v)
    PROVE \/ s = v
          \/ /\ s # <<>> /\ Head(s).op \in W
             /\ \A now : IsList(now) /\ Within(now, W) => Works(now \o Tail(s), W, v)
<1>1. PICK u : IsList(u) /\ Within(u, W) /\ s = u \o v
  BY DEF Works
<1>2. CASE u = <<>>
  BY <1>1, <1>2 DEF IsList
<1>3. CASE u # <<>>
  <2>1. s # <<>> /\ Head(s) = Head(u) /\ Tail(s) = Tail(u) \o v
    BY <1>1, <1>3 DEF IsList
  <2>2. Head(u) \in ToSet(u) /\ IsList(Tail(u)) /\ ToSet(Tail(u)) \subseteq ToSet(u)
    BY <1>1, <1>3, TailSet
  <2>3. ASSUME NEW now, IsList(now), Within(now, W) PROVE Works(now \o Tail(s), W, v)
    <3> DEFINE t == Tail(u)
    <3>0. IsList(t)
      BY <2>2
    <3> HIDE DEF t
    <3>1. (now \o t) \o v = now \o (t \o v)
      BY <2>3, <3>0, Associates
    <3>2. IsList(now \o Tail(u)) /\ Within(now \o Tail(u), W)
      BY <1>1, <2>2, <2>3, FineJoin DEF Within
    <3> QED
      BY <2>1, <3>1, <3>2 DEF Works, t
  <2> QED
    BY <1>1, <2>1, <2>2, <2>3 DEF Within
<1> QED
  BY <1>2, <1>3

LEMMA WorksStart ==
    ASSUME NEW v, IsList(v), NEW W
    PROVE /\ Works(v, W, v)
          /\ \A u : IsList(u) /\ Within(u, W) => Works(u \o v, W, v)
<1>1. v = <<>> \o v /\ IsList(<<>>) /\ Within(<<>>, W)
  BY Tuples, Nothing2Do DEF IsList
<1> QED
  BY <1>1 DEF Works

\* A job that has nothing of a service brings none of it, unless by a request.
LEMMA StaysClear ==
    ASSUME JobTypes, NEW c \in Conn, NEW W \in {InsightOps, PowerOps, RollOps}, Clear(job[c], W),
           Arrives(c) \/ (\E now : Carries(c, now)) \/ Appends(c) \/ Ends(c)
    PROVE Clear(job'[c], W) \/ Opens(job'[c])
<1>1. W \subseteq Lone
  BY DEF InsightOps, PowerOps, RollOps, Lone
<1>2. CASE Arrives(c)
  BY <1>1, <1>2 DEF Arrives, Clear
<1>3. ASSUME NEW now, Carries(c, now) PROVE Clear(job'[c], W)
  <2>1. /\ IsList(Tail(job[c])) /\ ToSet(Tail(job[c])) \subseteq ToSet(job[c])
        /\ Head(job[c]) \in ToSet(job[c])
    BY <1>3, TailSet DEF JobTypes, Carries
  <2>2. ToSet(job'[c]) = ToSet(now) \cup ToSet(Tail(job[c]))
    BY <1>3, <2>1, FineJoin DEF Carries
  <2>3. HeadOf(c) \notin W
    BY <2>1 DEF Clear, HeadOf
  <2>4. \A op : op \in W /\ Lends(HeadOf(c), op) => HeadOf(c) \in W
    BY DEF Lends, InsightOps, PowerOps, RollOps
  <2>5. \A x \in ToSet(now) : x.op \notin W
    BY <1>1, <1>3, <2>3, <2>4 DEF Carries
  <2> QED
    BY <2>1, <2>2, <2>5 DEF Clear
<1>4. CASE Appends(c)
  <2>1. PICK last : IsList(last) /\ Clear(last, Lone) /\ job'[c] = Tail(job[c]) \o last
    BY <1>4 DEF Appends
  <2>2. IsList(Tail(job[c])) /\ ToSet(Tail(job[c])) \subseteq ToSet(job[c])
    BY <1>4, TailSet DEF JobTypes, Appends
  <2>3. ToSet(job'[c]) = ToSet(last) \cup ToSet(Tail(job[c]))
    BY <2>1, <2>2, FineJoin
  <2> QED
    BY <1>1, <2>1, <2>2, <2>3 DEF Clear
<1>5. CASE Ends(c)
  BY <1>5, Tuples DEF Ends, Clear
<1> QED
  BY <1>2, <1>3, <1>4, <1>5

\* A roll that has read the counters: k pulls are left, then it is recorded.
Draws(d, p) == IsList(d) /\ \A x \in ToSet(d) : x.op = "pull" /\ x.what = p
Records(p, n) == << Stmt("save", p, 0), Stmt("useDiscount", p, 0), Stmt("count", p, n), Stmt("log", p, 0) >>
Rolling(t, p, k) == \E d, n : Draws(d, p) /\ Len(d) = k /\ t = d \o Records(p, n)

LEMMA RollingNext ==
    ASSUME NEW t, NEW p, NEW k, Rolling(t, p, k)
    PROVE /\ k \in Nat /\ IsList(t) /\ t # <<>>
          /\ Clear(t, InsightOps) /\ Clear(t, PowerOps)
          /\ k = 0 => Head(t) = Stmt("save", p, 0) /\ Clear(Tail(t), RollOps)
          /\ k > 0 => Head(t).op = "pull" /\ Head(t).what = p /\ Rolling(Tail(t), p, k - 1)
<1>1. PICK d, n : Draws(d, p) /\ Len(d) = k /\ t = d \o Records(p, n)
  BY DEF Rolling
<1> DEFINE r == Records(p, n)
<1>2. /\ IsList(r) /\ r # <<>> /\ Head(r) = Stmt("save", p, 0)
      /\ Tail(r) = << Stmt("useDiscount", p, 0), Stmt("count", p, n), Stmt("log", p, 0) >>
  BY Tuples DEF Records
<1>3. Clear(Tail(r), RollOps)
  <2>1. \A x, y, z : ToSet(<<x, y, z>>) = {x, y, z}
    BY Tuples
  <2>2. ToSet(Tail(r)) = {Stmt("useDiscount", p, 0), Stmt("count", p, n), Stmt("log", p, 0)}
    BY <1>2, <2>1
  <2> HIDE DEF r
  <2> QED
    BY <2>2 DEF Clear, Stmt, RollOps
<1>4. Clear(r, InsightOps) /\ Clear(r, PowerOps)
  <2>1. \A w, x, y, z : ToSet(<<w, x, y, z>>) = {w, x, y, z}
    BY Tuples
  <2> QED
    BY <2>1 DEF Records, Clear, Stmt, InsightOps, PowerOps
<1> HIDE DEF r
<1>5. IsList(d) /\ Clear(d, InsightOps) /\ Clear(d, PowerOps)
  BY <1>1 DEF Draws, Clear, InsightOps, PowerOps
<1>6. IsList(t) /\ ToSet(t) = ToSet(d) \cup ToSet(r)
  BY <1>1, <1>2, <1>5, FineJoin DEF r
<1>7. k \in Nat
  BY <1>1, <1>5 DEF IsList
<1>8. CASE d = <<>>
  <2>1. t = r /\ k = 0
    BY <1>1, <1>2, <1>8 DEF IsList, r
  <2> QED
    BY <1>2, <1>3, <1>4, <1>6, <1>7, <2>1
<1>9. CASE d # <<>>
  <2>1. /\ t # <<>> /\ Head(t) = Head(d) /\ Tail(t) = Tail(d) \o r /\ k > 0 /\ Len(Tail(d)) = k - 1
    BY <1>1, <1>2, <1>5, <1>9 DEF IsList, r
  <2>2. Head(d) \in ToSet(d) /\ IsList(Tail(d)) /\ ToSet(Tail(d)) \subseteq ToSet(d)
    BY <1>5, <1>9, TailSet
  <2>3. Draws(Tail(d), p) /\ Head(t).op = "pull" /\ Head(t).what = p
    BY <1>1, <2>1, <2>2 DEF Draws
  <2>4. Rolling(Tail(t), p, k - 1)
    BY <2>1, <2>3 DEF Rolling, r
  <2> QED
    BY <1>4, <1>5, <1>6, <1>7, <2>1, <2>3, <2>4 DEF Clear
<1> QED
  BY <1>8, <1>9

\* What a request that brings statements of Lone looks like to each service.
LEMMA OpensOne ==
    ASSUME NEW s, Opens(s)
    PROVE /\ \/ Clear(s, InsightOps)
             \/ \E r \in InsightRow, h \in Hero : s = << Stmt("applyInsight", <<r, h>>, 0) >>
          /\ Clear(s, PowerOps) \/ s = << Stmt("findExpired", "all", 0) >>
          /\ \/ Clear(s, RollOps)
             \/ \E p \in Pool, k \in 0..Many : \E t :
                   Rolling(t, p, k) /\ Works(s, CashWork, << Stmt("load", p, 0) >> \o t)
<1>t. \A x : IsList(<<x>>) /\ ToSet(<<x>>) = {x}
  BY Tuples
<1>1. ASSUME NEW r \in InsightRow, NEW h \in Hero, s = << Stmt("applyInsight", <<r, h>>, 0) >>
      PROVE Clear(s, PowerOps) /\ Clear(s, RollOps)
  BY <1>1, <1>t DEF Clear, Stmt, PowerOps, RollOps
<1>2. s = << Stmt("findExpired", "all", 0) >> => Clear(s, InsightOps) /\ Clear(s, RollOps)
  BY <1>t DEF Clear, Stmt, InsightOps, RollOps
<1>3. ASSUME NEW p \in Pool, NEW n \in Few \cup {Many}, NEW x,
             x.op \in {"option", "readDiscount"}, s = << x >> \o RollPlan(p, n)
      PROVE /\ Clear(s, InsightOps) /\ Clear(s, PowerOps)
            /\ \E k \in 0..Many : \E t :
                  Rolling(t, p, k) /\ Works(s, CashWork, << Stmt("load", p, 0) >> \o t)
  <2> DEFINE d == [i \in 1..Pulls(n) |-> Stmt("pull", p, IF n = Many /\ i = 1 THEN 1 ELSE 0)]
             a == << Stmt("readUp", p, n) >>
             l == << Stmt("load", p, 0) >>
             t == d \o Records(p, n)
  <2>n. Pulls(n) \in Nat /\ Pulls(n) \in 0..Many
    BY SummonAssumption DEF Pulls
  <2>1. IsList(d) /\ Len(d) = Pulls(n)
    <3>1. d = [i \in 1..Pulls(n) |-> d[i]]
      OBVIOUS
    <3> HIDE DEF d
    <3> QED
      BY <2>n, <3>1, MadeSeq
  <2>2. Draws(d, p)
    <3>1. \A i \in 1..Pulls(n) : d[i].op = "pull" /\ d[i].what = p
      BY DEF Stmt
    <3>2. DOMAIN d = 1..Pulls(n)
      OBVIOUS
    <3> HIDE DEF d
    <3> QED
      BY <2>1, <3>1, <3>2 DEF Draws, ToSet
  <2> HIDE DEF d
  <2>3. Rolling(t, p, Pulls(n))
    BY <2>1, <2>2 DEF Rolling
  <2>4. IsList(t) /\ Clear(t, InsightOps) /\ Clear(t, PowerOps)
    BY <2>3, RollingNext
  <2>5. IsList(Records(p, n)) /\ RollPlan(p, n) = (<< Stmt("readUp", p, n), Stmt("load", p, 0) >> \o d) \o Records(p, n)
    BY Tuples DEF Records, RollPlan, d
  <2> HIDE DEF t
  <2>6. IsList(a) /\ IsList(l) /\ ToSet(a) = {Stmt("readUp", p, n)} /\ ToSet(l) = {Stmt("load", p, 0)}
        /\ << Stmt("readUp", p, n), Stmt("load", p, 0) >> = a \o l
    BY <1>t
  <2>7. RollPlan(p, n) = a \o (l \o t)
    <3> HIDE DEF a, l
    <3>1. IsList(a \o l)
      BY <2>6, FineJoin
    <3>2. ((a \o l) \o d) \o Records(p, n) = (a \o l) \o t
      <4> DEFINE al == a \o l  r == Records(p, n)
      <4>1. IsList(al) /\ IsList(r) /\ t = d \o r
        BY <2>5, <3>1 DEF t
      <4> HIDE DEF al, r
      <4>2. (al \o d) \o r = al \o (d \o r)
        BY <2>1, <4>1, Associates
      <4>3. (al \o d) \o r = al \o t
        BY <4>1, <4>2, Zenon
      <4> QED
        BY <4>3 DEF al, r
    <3>3. (a \o l) \o t = a \o (l \o t)
      BY <2>4, <2>6, Associates
    <3> QED
      BY <2>5, <2>6, <3>2, <3>3
  <2>8. IsList(<<x>>) /\ ToSet(<<x>>) = {x}
    BY <1>t
  <2> DEFINE b == << x >>
  <2>9. IsList(b) /\ ToSet(b) = {x} /\ s = b \o RollPlan(p, n)
    BY <1>3, <2>8
  <2> HIDE DEF a, l, b
  <2>10. IsList(l \o t) /\ ToSet(l \o t) = {Stmt("load", p, 0)} \cup ToSet(t)
    BY <2>4, <2>6, FineJoin
  <2>11. IsList(b \o a) /\ ToSet(b \o a) = {x, Stmt("readUp", p, n)}
    <3> DEFINE r == Stmt("readUp", p, n)
    <3>1. IsList(a) /\ IsList(b) /\ ToSet(a) = {r} /\ ToSet(b) = {x}
      BY <2>6, <2>9
    <3> HIDE DEF r
    <3>2. IsList(b \o a) /\ ToSet(b \o a) = {x} \cup {r}
      BY <3>1, FineJoin
    <3> QED
      BY <3>2 DEF r
  <2>12. s = (b \o a) \o (l \o t)
    <3>1. (b \o a) \o (l \o t) = b \o (a \o (l \o t))
      <4> DEFINE lt == l \o t
      <4>1. IsList(lt) /\ IsList(a) /\ IsList(b)
        BY <2>6, <2>9, <2>10
      <4> HIDE DEF lt
      <4>2. (b \o a) \o lt = b \o (a \o lt)
        BY <4>1, Associates
      <4> QED
        BY <4>2 DEF lt
    <3> QED
      BY <2>7, <2>9, <3>1
  <2>13. Within(b \o a, CashWork)
    BY <1>3, <2>11 DEF Within, CashWork, Stmt
  <2>14. Works(s, CashWork, l \o t)
    BY <2>11, <2>12, <2>13 DEF Works
  <2>15. ToSet(s) = {x, Stmt("readUp", p, n), Stmt("load", p, 0)} \cup ToSet(t)
    BY <2>10, <2>11, <2>12, FineJoin
  <2>16. Clear(s, InsightOps) /\ Clear(s, PowerOps)
    <3>1. Stmt("readUp", p, n).op = "readUp" /\ Stmt("load", p, 0).op = "load"
      BY DEF Stmt
    <3>2. \A y \in ToSet(s) : y.op \in {"option", "readDiscount", "readUp", "load"} \/ y \in ToSet(t)
      BY <1>3, <2>15, <3>1
    <3> QED
      BY <2>4, <3>2 DEF Clear, InsightOps, PowerOps
  <2> QED
    BY <2>n, <2>3, <2>14, <2>16 DEF l
<1>4. \/ \E r \in InsightRow, h \in Hero : s = << Stmt("applyInsight", <<r, h>>, 0) >>
      \/ s = << Stmt("findExpired", "all", 0) >>
      \/ \E p \in Pool, n \in Few \cup {Many} : \E x :
            x.op \in {"option", "readDiscount"} /\ s = << x >> \o RollPlan(p, n)
  BY DEF Opens
<1>5. CASE \E r \in InsightRow, h \in Hero : s = << Stmt("applyInsight", <<r, h>>, 0) >>
  BY <1>1, <1>5
<1>6. CASE s = << Stmt("findExpired", "all", 0) >>
  BY <1>2, <1>6
<1>7. CASE \E p \in Pool, n \in Few \cup {Many} : \E x :
            x.op \in {"option", "readDiscount"} /\ s = << x >> \o RollPlan(p, n)
  <2>1. PICK p \in Pool, n \in Few \cup {Many} : \E x :
            x.op \in {"option", "readDiscount"} /\ s = << x >> \o RollPlan(p, n)
    BY <1>7
  <2>2. PICK x : x.op \in {"option", "readDiscount"} /\ s = << x >> \o RollPlan(p, n)
    BY <2>1
  <2>3. /\ Clear(s, InsightOps) /\ Clear(s, PowerOps)
        /\ \E k \in 0..Many : \E t :
              Rolling(t, p, k) /\ Works(s, CashWork, << Stmt("load", p, 0) >> \o t)
    BY <1>3, <2>2
  <2> QED
    BY <2>3
<1> QED
  BY <1>4, <1>5, <1>6, <1>7

\* --- Insight items

\* A row gives a rank for each time it is counted down, and for each failure; it
\* is counted down once the hero is raised.
Even(r) == left[r] \in Nat /\ raises[r] + left[r] <= 1 + faults
InsightRest == \A r \in InsightRow : Even(r)

Spending(q) == << Stmt("spendInsight", q, 1) >>

InsightAt(c) ==
    \/ /\ InsightRest
       /\ \/ Clear(job[c], InsightOps)
          \/ \E r \in InsightRow, h \in Hero : job[c] = << Stmt("applyInsight", <<r, h>>, 0) >>
    \/ \E q \in InsightRow :
          /\ left[q] >= 1 /\ \A r \in InsightRow \ {q} : Even(r)
          /\ \/ /\ Even(q) /\ job[c] # <<>> /\ HeadOf(c) = "raise" /\ What(c)[1] = q
                /\ Works(Tail(job[c]), GiftWork, Spending(q))
             \/ raises[q] + left[q] <= 2 + faults /\ Works(job[c], GiftWork, Spending(q))

LEMMA InsightFixed ==
    ASSUME NEW c \in Conn, Acts(c)
    PROVE UNCHANGED <<left, raises>> \/ Raise(c) \/ SpendInsight(c)
<1>1. CASE InventoryNext(c) \/ StoreNext(c) \/ GrowthNext(c) \/ MailNext(c) \/ SummonNext(c)
           \/ LayoutNext(c) \/ GroupsNext(c) \/ GmNext(c)
  BY <1>1 DEF InventoryNext, StoreNext, GrowthNext, MailNext, SummonNext, LayoutNext, GroupsNext, GmNext,
              itemVars
<1>2. CASE ItemsNext(c)
  BY <1>2 DEF ItemsNext, ItemsRequest, ItemsStep, UseItem, UseInsight, AutoUse, Open, HandOut, ApplyInsight,
              FindExpired, DeletePower, ReadStamina, SaveStamina, itemVars
<1> QED
  BY <1>1, <1>2 DEF Acts

LEMMA InsightStep ==
    ASSUME Types, NEW c \in Conn, Acts(c), InsightAt(c)
    PROVE InsightAt(c)'
<1>1. JobTypes /\ HistoryTypes /\ ItemTypes /\ Move(c)
  BY ActsMove DEF Types, StateTypes
<1>2. Arrives(c) \/ (\E now : Carries(c, now)) \/ Appends(c) \/ Ends(c)
  BY <1>1, Ways
<1>3. faults \in Nat /\ faults' \in Nat /\ faults <= faults'
  BY <1>1, Counters DEF HistoryTypes
<1>4. UNCHANGED <<left, raises>> \/ Raise(c) \/ SpendInsight(c)
  BY InsightFixed
<1>5. Raise(c) \/ SpendInsight(c) => /\ job[c] # <<>> /\ HeadOf(c) \in {"raise", "spendInsight"}
                                     /\ faults' = faults
  BY DEF Raise, SpendInsight, At, HeadOf, Unrecorded
<1>6. \A r \in InsightRow : UNCHANGED <<left, raises>> /\ Even(r) => Even(r)'
  BY <1>1, <1>3 DEF Even, ItemTypes
<1>7. \A s : job' = [job EXCEPT ![c] = s] => job'[c] = s
  BY <1>1 DEF JobTypes
<1>8. IsList(job[c])
  BY <1>1 DEF JobTypes
<1>9. job'[c] = <<>> => Clear(job[c], InsightOps)'
  BY Tuples DEF Clear
<1>10. CASE InsightRest /\ Clear(job[c], InsightOps)
  <2>1. UNCHANGED <<left, raises>>
    <3>1. job[c] # <<>> => HeadOf(c) \notin InsightOps
      BY <1>8, <1>10, TailSet DEF Clear, HeadOf
    <3> QED
      BY <1>4, <1>5, <3>1 DEF InsightOps
  <2>2. InsightRest'
    BY <1>6, <1>10, <2>1 DEF InsightRest
  <2>3. Clear(job'[c], InsightOps) \/ Opens(job'[c])
    BY <1>1, <1>2, <1>10, StaysClear
  <2>4. Clear(job'[c], InsightOps)
        \/ \E r \in InsightRow, h \in Hero : job'[c] = << Stmt("applyInsight", <<r, h>>, 0) >>
    BY <2>3, OpensOne
  <2> QED
    BY <2>2, <2>4 DEF InsightAt, Clear
<1>11. ASSUME InsightRest, NEW r \in InsightRow, NEW h \in Hero,
              job[c] = << Stmt("applyInsight", <<r, h>>, 0) >>
       PROVE InsightAt(c)'
  <2>1. /\ job[c] # <<>> /\ Tail(job[c]) = <<>> /\ HeadOf(c) = "applyInsight" /\ What(c)[1] = r /\ What(c)[2] = h
    BY <1>11 DEF HeadOf, What, Stmt
  <2>2. UNCHANGED <<left, raises>>
    BY <1>4, <1>5, <2>1
  <2>3. InsightRest'
    BY <1>6, <1>11, <2>2 DEF InsightRest
  <2>4. job'[c] = <<>> => InsightAt(c)'
    BY <1>9, <2>3 DEF InsightAt
  <2>5. CASE Ends(c)
    BY <2>4, <2>5 DEF Ends
  <2>6. ASSUME NEW new, Carries(c, new) PROVE InsightAt(c)'
    <3>1. ApplyInsight(c)
      BY <2>1, <2>6, LoneHeads DEF Carries, Lone
    <3>2. CASE left[r] <= 0 \/ h \notin heroes
      <4>1. job'[c] = <<>>
        BY <1>7, <2>1, <3>1, <3>2 DEF ApplyInsight, Decline, Return
      <4> QED
        BY <2>4, <4>1
    <3>3. CASE ~(left[r] <= 0 \/ h \notin heroes)
      <4> DEFINE a == << Stmt("raise", <<r, h>>, InsightRank[r] + 1) >>
                 b == SkinOf(h, InsightRank[r] + 1)
                 e == Spending(r)
      <4>1. Proceed(c, a \o b \o e)
        BY <2>1, <3>1, <3>3 DEF ApplyInsight, Spending
      <4> DEFINE y == Stmt("raise", <<r, h>>, InsightRank[r] + 1)
      <4>2. a = <<y>> /\ IsList(a) /\ IsList(e) /\ y.op = "raise" /\ y.what[1] = r
        BY Tuples DEF Stmt, Spending
      <4>3. IsList(b) /\ Within(b, GiftWork)
        <5>1. \A x : IsList(<<x>>) /\ ToSet(<<x>>) = {x}
          BY Tuples
        <5> QED
          BY <5>1, Tuples, Nothing2Do DEF SkinOf, Within, GiftWork, Stmt
      <4> HIDE DEF a, b, e, y
      <4>4. (a \o b) \o e = a \o (b \o e) /\ IsList(b \o e)
        BY <4>2, <4>3, Associates, FineJoin
      <4>5. job'[c] = (a \o (b \o e)) \o <<>>
        BY <1>7, <2>1, <4>1, <4>4 DEF Proceed
      <4>6. job'[c] # <<>> /\ Head(job'[c]) = y /\ Tail(job'[c]) = b \o e
        BY <4>2, <4>4, <4>5, Leading
      <4>7. Works(Tail(job'[c]), GiftWork, Spending(r))
        BY <4>2, <4>3, <4>6, WorksStart DEF e
      <4>8. left'[r] >= 1
        BY <1>1, <2>2, <3>3 DEF ItemTypes
      <4> QED
        BY <2>3, <4>2, <4>6, <4>7, <4>8 DEF InsightAt, InsightRest, HeadOf, What
    <3> QED
      BY <3>2, <3>3
  <2> QED
    BY <1>2, <2>1, <2>5, <2>6 DEF Arrives, Appends
<1>12. ASSUME NEW q \in InsightRow, left[q] >= 1, \A r \in InsightRow \ {q} : Even(r)
       PROVE /\ raises[q] + left[q] <= 2 + faults /\ UNCHANGED <<left, raises>> /\ Ends(c)
                   /\ HeadOf(c) \in GiftWork \cup {"raise", "spendInsight"} => InsightAt(c)'
  <2> SUFFICES ASSUME raises[q] + left[q] <= 2 + faults, UNCHANGED <<left, raises>>, Ends(c),
                      HeadOf(c) \in GiftWork \cup {"raise", "spendInsight"}
               PROVE InsightAt(c)'
    OBVIOUS
  <2>1. job'[c] = <<>> /\ faults' = faults + 1
    BY DEF Ends, Lone
  <2>2. Even(q)'
    BY <1>1, <1>3, <1>12, <2>1 DEF Even, ItemTypes
  <2>3. InsightRest'
    BY <1>6, <1>12, <2>2 DEF InsightRest
  <2> QED
    BY <1>9, <2>1, <2>3 DEF InsightAt
<1>13. ASSUME NEW q \in InsightRow, left[q] >= 1, \A r \in InsightRow \ {q} : Even(r),
              Even(q), job[c] # <<>>, HeadOf(c) = "raise", What(c)[1] = q,
              Works(Tail(job[c]), GiftWork, Spending(q))
       PROVE InsightAt(c)'
  <2>1. CASE Ends(c)
    <3>1. UNCHANGED <<left, raises>>
      <4>1. faults' = faults + 1
        BY <1>13, <2>1 DEF Ends, Lone
      <4> QED
        BY <1>3, <1>4, <1>5, <4>1
    <3>2. raises[q] + left[q] <= 2 + faults
      BY <1>1, <1>3, <1>13 DEF Even, ItemTypes
    <3> QED
      BY <1>12, <1>13, <2>1, <3>1, <3>2
  <2>2. ASSUME NEW now, Carries(c, now) PROVE InsightAt(c)'
    <3>1. Raise(c)
      BY <1>13, <2>2, LoneHeads DEF Carries, Lone
    <3>2. job'[c] = Tail(job[c])
      <4>1. job'[c] = <<>> \o Tail(job[c])
        BY <1>7, <3>1 DEF Raise, Proceed
      <4>2. IsList(Tail(job[c]))
        BY <1>8, <1>13, TailSet
      <4> QED
        BY <4>1, <4>2 DEF IsList
    <3>3. raises' = [raises EXCEPT ![q] = @ + 1] /\ left' = left /\ faults' = faults
      BY <1>13, <3>1 DEF Raise, Unrecorded
    <3>4. raises'[q] + left'[q] <= 2 + faults' /\ left'[q] >= 1
      BY <1>1, <1>3, <1>13, <3>3 DEF ItemTypes, Even
    <3>5. \A r \in InsightRow \ {q} : Even(r)'
      BY <1>1, <1>3, <1>13, <3>3 DEF ItemTypes, Even
    <3> QED
      BY <1>13, <3>2, <3>4, <3>5 DEF InsightAt
  <2> QED
    BY <1>2, <1>13, <2>1, <2>2 DEF Arrives, Appends
<1>14. ASSUME NEW q \in InsightRow, left[q] >= 1, \A r \in InsightRow \ {q} : Even(r),
              raises[q] + left[q] <= 2 + faults, Works(job[c], GiftWork, Spending(q))
       PROVE InsightAt(c)'
  <2>1. IsList(Spending(q)) /\ Spending(q) # <<>> /\ Head(Spending(q)) = Stmt("spendInsight", q, 1)
        /\ Tail(Spending(q)) = <<>>
    BY Tuples DEF Spending
  <2>2. CASE job[c] = Spending(q)
    <3>1. job[c] # <<>> /\ HeadOf(c) = "spendInsight" /\ What(c) = q /\ Tail(job[c]) = <<>>
      BY <2>1, <2>2 DEF HeadOf, What, Stmt
    <3>2. CASE Ends(c)
      <4>1. UNCHANGED <<left, raises>>
        <5>1. faults' = faults + 1
          BY <3>1, <3>2 DEF Ends, Lone
        <5> QED
          BY <1>3, <1>4, <1>5, <5>1
      <4> QED
        BY <1>12, <1>14, <3>1, <3>2, <4>1
    <3>3. ASSUME NEW now, Carries(c, now) PROVE InsightAt(c)'
      <4>1. SpendInsight(c)
        BY <3>1, <3>3, LoneHeads DEF Carries, Lone
      <4>2. job'[c] = <<>>
        <5>1. job'[c] = <<>> \o Tail(job[c])
          BY <1>7, <4>1 DEF SpendInsight, Proceed
        <5> QED
          BY <3>1, <5>1
      <4>3. left' = [left EXCEPT ![q] = @ - 1] /\ raises' = raises /\ faults' = faults
        BY <3>1, <4>1 DEF SpendInsight, Unrecorded
      <4>4. Even(q)'
        BY <1>1, <1>3, <1>14, <4>3 DEF ItemTypes, Even
      <4>5. \A r \in InsightRow \ {q} : Even(r)'
        BY <1>1, <1>3, <1>14, <4>3 DEF ItemTypes, Even
      <4>6. InsightRest'
        BY <4>4, <4>5 DEF InsightRest
      <4> QED
        BY <1>9, <4>2, <4>6 DEF InsightAt
    <3> QED
      BY <1>2, <3>1, <3>2, <3>3 DEF Arrives, Appends
  <2>3. CASE job[c] # Spending(q)
    <3>1. /\ job[c] # <<>> /\ HeadOf(c) \in GiftWork
          /\ \A now : IsList(now) /\ Within(now, GiftWork) => Works(now \o Tail(job[c]), GiftWork, Spending(q))
      BY <1>14, <2>1, <2>3, WorksOn DEF HeadOf
    <3>2. UNCHANGED <<left, raises>>
      BY <1>4, <1>5, <3>1 DEF GiftWork
    <3>3. CASE Ends(c)
      BY <1>12, <1>14, <3>1, <3>2, <3>3
    <3>4. ASSUME NEW now, Carries(c, now) PROVE InsightAt(c)'
      <4>1. Works(job'[c], GiftWork, Spending(q)) /\ faults' = faults
        BY <3>1, <3>4 DEF Carries
      <4>2. \A r \in InsightRow \ {q} : Even(r)'
        BY <1>6, <1>14, <3>2
      <4> QED
        BY <1>14, <3>2, <4>1, <4>2 DEF InsightAt
    <3> QED
      BY <1>2, <3>1, <3>3, <3>4 DEF Arrives, Appends, GiftWork
  <2> QED
    BY <2>2, <2>3
<1> QED
  BY <1>10, <1>11, <1>13, <1>14 DEF InsightAt

\* --- Expired power

Stored(S) == SumFunctionOnSet(StaminaOf, S)

LEMMA StoredFacts ==
    /\ \A S \in SUBSET ExpiredRow : IsFiniteSet(S) /\ Stored(S) \in Nat
    /\ \A S, T \in SUBSET ExpiredRow : T \subseteq S => Stored(T) <= Stored(S)
    /\ Stored({}) = 0
<1>1. \A S \in SUBSET ExpiredRow : IsFiniteSet(S) /\ \A e \in S : StaminaOf[e] \in Nat
  BY ItemsAssumption, FS_Subset
<1>2. \A S \in SUBSET ExpiredRow : Stored(S) \in Nat
  BY <1>1, SumAtLeast DEF Stored
<1>3. ASSUME NEW S \in SUBSET ExpiredRow, NEW T \in SUBSET ExpiredRow, T \subseteq S
      PROVE Stored(T) <= Stored(S)
  <2>1. T \cup (S \ T) = S /\ T \cap (S \ T) = {} /\ S \ T \in SUBSET ExpiredRow
    BY <1>3
  <2>2. IsFiniteSet(T) /\ IsFiniteSet(S \ T) /\ \A e \in T \cup (S \ T) : StaminaOf[e] \in Int
    BY <1>1, <2>1
  <2>3. Stored(T \cup (S \ T)) = Stored(T) + Stored(S \ T)
    BY <2>1, <2>2, SumUnion DEF Stored
  <2>4. Stored(S) = Stored(T) + Stored(S \ T)
    BY <2>1, <2>3
  <2>5. Stored(S) \in Nat /\ Stored(T) \in Nat /\ Stored(S \ T) \in Nat
    BY <1>2, <2>1
  <2> QED
    BY <2>4, <2>5
<1> QED
  BY <1>1, <1>2, <1>3, SumEmpty DEF Stored

\* What is in the row and what the rows left are worth is what all were worth, or
\* less after a failure.
Reaches(n) == n <= Stored(ExpiredRow) /\ (faults = 0 => n = Stored(ExpiredRow))
PowerRest == Reaches(stamina + Stored(expired))

\* All that is left to delete is still to be added; then it is.
PowerAt(c) ==
    \/ PowerRest /\ (Clear(job[c], PowerOps) \/ job[c] = << Stmt("findExpired", "all", 0) >>)
    \/ \E w : \E n \in Nat :
          /\ IsList(w) /\ \A x \in ToSet(w) : x.op = "deletePower"
          /\ job[c] = w \o << Stmt("readStamina", "all", n) >>
          /\ \A e \in expired : \E x \in ToSet(w) : x.what = e
          /\ Stored(expired) <= n /\ Reaches(stamina + n)
    \/ \E n \in Nat :
          /\ job[c] = << Stmt("saveStamina", "all", n) >>
          /\ expired = {} /\ stamina <= n /\ Reaches(n)

LEMMA PowerFixed ==
    ASSUME NEW c \in Conn, Acts(c)
    PROVE UNCHANGED <<stamina, expired>> \/ DeletePower(c) \/ SaveStamina(c)
<1>1. CASE InventoryNext(c) \/ StoreNext(c) \/ GrowthNext(c) \/ MailNext(c) \/ SummonNext(c)
           \/ LayoutNext(c) \/ GroupsNext(c) \/ GmNext(c)
  BY <1>1 DEF InventoryNext, StoreNext, GrowthNext, MailNext, SummonNext, LayoutNext, GroupsNext, GmNext,
              itemVars
<1>2. CASE ItemsNext(c)
  BY <1>2 DEF ItemsNext, ItemsRequest, ItemsStep, UseItem, UseInsight, AutoUse, Open, HandOut, ApplyInsight,
              Raise, SpendInsight, FindExpired, ReadStamina, itemVars
<1> QED
  BY <1>1, <1>2 DEF Acts

LEMMA PowerStep ==
    ASSUME Types, NEW c \in Conn, Acts(c), PowerAt(c)
    PROVE PowerAt(c)'
<1>1. JobTypes /\ HistoryTypes /\ ItemTypes /\ Move(c)
  BY ActsMove DEF Types, StateTypes
<1>2. Arrives(c) \/ (\E now : Carries(c, now)) \/ Appends(c) \/ Ends(c)
  BY <1>1, Ways
<1>3. faults \in Nat /\ faults' \in Nat /\ faults <= faults'
  BY <1>1, Counters DEF HistoryTypes
<1>4. UNCHANGED <<stamina, expired>> \/ DeletePower(c) \/ SaveStamina(c)
  BY PowerFixed
<1>5. DeletePower(c) \/ SaveStamina(c) => /\ job[c] # <<>> /\ HeadOf(c) \in {"deletePower", "saveStamina"}
                                          /\ faults' = faults
  BY DEF DeletePower, SaveStamina, At, HeadOf, Unrecorded
<1>6. \A n : n \in Nat /\ Reaches(n) => n <= Stored(ExpiredRow) /\ (faults' = 0 => n = Stored(ExpiredRow))
  BY <1>3 DEF Reaches
<1>7. \A s : job' = [job EXCEPT ![c] = s] => job'[c] = s
  BY <1>1 DEF JobTypes
<1>8. IsList(job[c])
  BY <1>1 DEF JobTypes
<1>9. job'[c] = <<>> => Clear(job[c], PowerOps)'
  BY Tuples DEF Clear
<1>10. stamina \in Nat /\ expired \in SUBSET ExpiredRow /\ Stored(expired) \in Nat /\ Stored(ExpiredRow) \in Nat
  BY <1>1, StoredFacts DEF ItemTypes
<1>11. PowerRest /\ UNCHANGED <<stamina, expired>> => PowerRest'
  BY <1>6, <1>10 DEF PowerRest, Reaches
<1>12. CASE PowerRest /\ Clear(job[c], PowerOps)
  <2>1. UNCHANGED <<stamina, expired>>
    <3>1. job[c] # <<>> => HeadOf(c) \notin PowerOps
      BY <1>8, <1>12, TailSet DEF Clear, HeadOf
    <3> QED
      BY <1>4, <1>5, <3>1 DEF PowerOps
  <2>2. Clear(job'[c], PowerOps) \/ Opens(job'[c])
    BY <1>1, <1>2, <1>12, StaysClear
  <2>3. Clear(job'[c], PowerOps) \/ job'[c] = << Stmt("findExpired", "all", 0) >>
    BY <2>2, OpensOne
  <2> QED
    BY <1>11, <1>12, <2>1, <2>3 DEF PowerAt, Clear
<1>13. CASE PowerRest /\ job[c] = << Stmt("findExpired", "all", 0) >>
  <2>1. job[c] # <<>> /\ Tail(job[c]) = <<>> /\ HeadOf(c) = "findExpired"
    BY <1>13 DEF HeadOf, Stmt
  <2>2. UNCHANGED <<stamina, expired>>
    BY <1>4, <1>5, <2>1
  <2>3. job'[c] = <<>> => PowerAt(c)'
    BY <1>9, <1>11, <1>13, <2>2 DEF PowerAt
  <2>4. ASSUME NEW new, Carries(c, new) PROVE PowerAt(c)'
    <3>0. PICK n : n = Stored(expired)
      OBVIOUS
    <3> DEFINE rows == SetToSeq(expired)
               w == [i \in DOMAIN rows |-> Stmt("deletePower", rows[i], 0)]
               l == IF rows = <<>> THEN <<>> ELSE << Stmt("readStamina", "all", n) >>
    <3>1. FindExpired(c)
      BY <2>1, <2>4, LoneHeads DEF Carries, Lone
    <3>2. Proceed(c, w \o l) /\ faults' = faults
      BY <3>0, <3>1 DEF FindExpired, Stored, Unrecorded
    <3>3. IsFiniteSet(expired)
      BY <1>10, StoredFacts
    <3>4. IsList(rows) /\ ToSet(rows) = expired
      BY <3>3, AllListed
    <3> HIDE DEF rows
    <3>5. DOMAIN rows = 1..Len(rows) /\ Len(rows) \in Nat
      BY <3>4 DEF IsList
    <3>6. IsList(w)
      BY <3>5, MadeSeq
    <3>7. \A x \in ToSet(w) : x.op = "deletePower"
      BY DEF ToSet, Stmt
    <3>8. \A e \in expired' : \E x \in ToSet(w) : x.what = e
      <4> TAKE e \in expired'
      <4>1. PICK i \in DOMAIN rows : rows[i] = e
        BY <2>2, <3>4 DEF ToSet
      <4>2. w[i] \in ToSet(w) /\ w[i].what = e
        BY <4>1 DEF ToSet, Stmt
      <4> QED
        BY <4>2
    <3>9. IsList(l) /\ (rows = <<>> => w = <<>>)
      BY Tuples
    <3> HIDE DEF w, l
    <3>10. job'[c] = w \o l
      <4>1. job'[c] = (w \o l) \o <<>>
        BY <1>7, <2>1, <3>2 DEF Proceed
      <4>2. IsList(w \o l)
        BY <3>6, <3>9, FineJoin
      <4> QED
        BY <4>1, <4>2 DEF IsList
    <3>11. CASE rows = <<>>
      BY <2>3, <3>9, <3>10, <3>11 DEF l
    <3>12. CASE rows # <<>>
      <4>1. job'[c] = w \o << Stmt("readStamina", "all", n) >>
        BY <3>10, <3>12 DEF l
      <4>2. n \in Nat /\ Stored(expired') <= n /\ Reaches(stamina + n)'
        BY <1>10, <1>13, <2>2, <3>0, <3>2 DEF PowerRest, Reaches
      <4> QED
        BY <3>6, <3>7, <3>8, <4>1, <4>2 DEF PowerAt
    <3> QED
      BY <3>11, <3>12
  <2> QED
    BY <1>2, <2>1, <2>3, <2>4 DEF Arrives, Appends, Ends
<1>14. ASSUME NEW n \in Nat, Stored(expired) <= n, Reaches(stamina + n), Ends(c),
              HeadOf(c) \in {"deletePower", "readStamina", "saveStamina"}
       PROVE PowerAt(c)'
  <2>1. job'[c] = <<>> /\ faults' = faults + 1
    BY <1>14 DEF Ends, Lone
  <2>2. UNCHANGED <<stamina, expired>>
    BY <1>3, <1>4, <1>5, <2>1
  <2>3. PowerRest'
    BY <1>3, <1>10, <1>14, <2>1, <2>2 DEF PowerRest, Reaches
  <2> QED
    BY <1>9, <2>1, <2>3 DEF PowerAt
<1>15. ASSUME NEW w, NEW n \in Nat, IsList(w), \A x \in ToSet(w) : x.op = "deletePower",
              job[c] = w \o << Stmt("readStamina", "all", n) >>,
              \A e \in expired : \E x \in ToSet(w) : x.what = e,
              Stored(expired) <= n, Reaches(stamina + n)
       PROVE PowerAt(c)'
  <2> DEFINE l == << Stmt("readStamina", "all", n) >>
  <2>l. IsList(l) /\ job[c] = w \o l
    BY <1>15, Tuples
  <2>1. CASE w = <<>>
    <3>1. job[c] = l
      BY <1>15, <2>l, <2>1 DEF IsList
    <3>2. job[c] # <<>> /\ HeadOf(c) = "readStamina" /\ Amount(c) = n /\ Tail(job[c]) = <<>>
      BY <3>1 DEF HeadOf, Amount, Stmt
    <3>3. UNCHANGED <<stamina, expired>> /\ expired = {}
      BY <1>4, <1>5, <1>15, <2>1, <3>2, Tuples
    <3>4. ASSUME NEW new, Carries(c, new) PROVE PowerAt(c)'
      <4>1. ReadStamina(c)
        BY <3>2, <3>4, LoneHeads DEF Carries, Lone
      <4> DEFINE new2 == << Stmt("saveStamina", "all", stamina + n) >>
      <4>2. Proceed(c, new2) /\ faults' = faults
        BY <3>2, <4>1 DEF ReadStamina, Unrecorded
      <4>3. job'[c] = new2 \o <<>>
        BY <1>7, <3>2, <4>2 DEF Proceed
      <4>4. job'[c] = new2
        BY <4>3
      <4>5. stamina + n \in Nat /\ stamina' <= stamina + n /\ Reaches(stamina + n)'
        BY <1>10, <1>15, <3>3, <4>2 DEF Reaches
      <4> QED
        BY <3>3, <4>4, <4>5 DEF PowerAt
    <3> QED
      BY <1>2, <1>14, <1>15, <3>2, <3>4 DEF Arrives, Appends
  <2>2. CASE w # <<>>
    <3>1. job[c] # <<>> /\ Head(job[c]) = Head(w) /\ Tail(job[c]) = Tail(w) \o l
      BY <1>15, <2>l, <2>2 DEF IsList
    <3>2. Head(w) \in ToSet(w) /\ IsList(Tail(w)) /\ ToSet(w) = {Head(w)} \cup ToSet(Tail(w))
      BY <1>15, <2>2, TailSet, HeadOrTail
    <3>3. HeadOf(c) = "deletePower" /\ What(c) = Head(w).what
      BY <1>15, <3>1, <3>2 DEF HeadOf, What
    <3>4. ASSUME NEW new, Carries(c, new) PROVE PowerAt(c)'
      <4>1. DeletePower(c)
        BY <3>3, <3>4, LoneHeads DEF Carries, Lone
      <4>2. expired' = expired \ {What(c)} /\ stamina' = stamina /\ faults' = faults
        BY <4>1 DEF DeletePower, Unrecorded
      <4>3. job'[c] = <<>> \o Tail(job[c])
        BY <1>7, <4>1 DEF DeletePower, Proceed
      <4>4. job'[c] = Tail(w) \o l
        <5>1. IsList(Tail(w) \o l)
          BY <2>l, <3>2, FineJoin
        <5> QED
          BY <3>1, <4>3, <5>1 DEF IsList
      <4>5. \A e \in expired' : \E x \in ToSet(Tail(w)) : x.what = e
        BY <1>15, <3>2, <3>3, <4>2
      <4>6. \A x \in ToSet(Tail(w)) : x.op = "deletePower"
        BY <1>15, <3>2
      <4>7. Stored(expired') <= n
        <5>1. expired' \in SUBSET ExpiredRow /\ expired' \subseteq expired
          BY <1>10, <4>2
        <5>2. Stored(expired') <= Stored(expired) /\ Stored(expired') \in Nat
          BY <1>10, <5>1, StoredFacts
        <5> QED
          BY <1>10, <1>15, <5>2
      <4>8. Reaches(stamina + n)'
        BY <1>15, <4>2 DEF Reaches
      <4> QED
        BY <3>2, <4>4, <4>5, <4>6, <4>7, <4>8 DEF PowerAt
    <3> QED
      BY <1>2, <1>14, <1>15, <3>1, <3>3, <3>4 DEF Arrives, Appends
  <2> QED
    BY <2>1, <2>2
<1>16. ASSUME NEW n \in Nat, job[c] = << Stmt("saveStamina", "all", n) >>,
              expired = {}, stamina <= n, Reaches(n)
       PROVE PowerAt(c)'
  <2>1. job[c] # <<>> /\ HeadOf(c) = "saveStamina" /\ Amount(c) = n /\ Tail(job[c]) = <<>>
    BY <1>16 DEF HeadOf, Amount, Stmt
  <2>2. CASE Ends(c)
    <3>1. job'[c] = <<>> /\ faults' = faults + 1
      BY <2>1, <2>2 DEF Ends, Lone
    <3>2. UNCHANGED <<stamina, expired>>
      BY <1>3, <1>4, <1>5, <3>1
    <3>3. PowerRest'
      BY <1>3, <1>10, <1>16, <3>1, <3>2, StoredFacts DEF PowerRest, Reaches
    <3> QED
      BY <1>9, <3>1, <3>3 DEF PowerAt
  <2>3. ASSUME NEW new, Carries(c, new) PROVE PowerAt(c)'
    <3>1. SaveStamina(c)
      BY <2>1, <2>3, LoneHeads DEF Carries, Lone
    <3>2. stamina' = n /\ expired' = expired /\ faults' = faults
      BY <2>1, <3>1 DEF SaveStamina, Unrecorded
    <3>3. job'[c] = <<>>
      <4>1. job'[c] = <<>> \o Tail(job[c])
        BY <1>7, <3>1 DEF SaveStamina, Proceed
      <4> QED
        BY <2>1, <4>1
    <3>4. PowerRest'
      BY <1>10, <1>16, <3>2, StoredFacts DEF PowerRest, Reaches
    <3> QED
      BY <1>9, <3>3, <3>4 DEF PowerAt
  <2> QED
    BY <1>2, <2>1, <2>2, <2>3 DEF Arrives, Appends
<1> QED
  BY <1>12, <1>13, <1>15, <1>16 DEF PowerAt

\* --- Rolls

\* The pulls that failed summons can have lost.
Slips(f) == Many * f

LEMMA SlipsGrow ==
    /\ \A f \in Nat : Slips(f) \in Nat /\ Slips(f + 1) = Slips(f) + Many
    /\ Many \in Nat /\ HardPity \in Nat
BY SummonAssumption DEF Slips

\* The counters of a pool are what was rolled from it, but for what was lost.
Pitied(q) ==
    /\ pity[q] < HardPity /\ dry[q] <= pity[q] + Slips(faults)
    /\ faults = 0 => lost[q] <= IF guaranteed[q] THEN 1 ELSE 0
RollRest == \A q \in Pool : Pitied(q)

Loading(p) == << Stmt("load", p, 0) >>

\* During a roll those in memory are, and saving the ones in the row would lose no
\* more than the pulls of one summon.
RollAt(c) ==
    \/ /\ RollRest
       /\ \/ Clear(job[c], RollOps)
          \/ \E p \in Pool, k \in 0..Many : \E t :
                Rolling(t, p, k) /\ Works(job[c], CashWork, Loading(p) \o t)
    \/ \E p \in Pool : \E k, t :
          /\ Rolling(t, p, k) /\ Works(job[c], GiftWork, t)
          /\ \A q \in Pool \ {p} : Pitied(q)
          /\ pity[p] < HardPity /\ dry[p] + k <= pity[p] + Slips(faults) + Many
          /\ mem[c].pity < HardPity /\ dry[p] <= mem[c].pity + Slips(faults)
          /\ faults = 0 => lost[p] <= IF mem[c].guaranteed THEN 1 ELSE 0

Counted == UNCHANGED <<pity, guaranteed, dry, lost>>

LEMMA RollFixed ==
    ASSUME NEW c \in Conn, Acts(c)
    PROVE \/ Counted /\ (job[c] # <<>> /\ HeadOf(c) \in GiftWork => mem' = mem)
          \/ PullSix(c) \/ PullLower(c) \/ SaveCounters(c)
<1> USE DEF tables, rolls, summonVars, Counted
<1>1. CASE InventoryNext(c) \/ StoreNext(c) \/ GrowthNext(c) \/ MailNext(c) \/ ItemsNext(c)
           \/ LayoutNext(c) \/ GroupsNext(c) \/ GmNext(c)
  BY <1>1 DEF InventoryNext, StoreNext, GrowthNext, MailNext, ItemsNext, LayoutNext, GroupsNext, GmNext
<1>2. CASE SummonNext(c)
  <2>1. CASE SummonRequest(c)
    BY <2>1 DEF SummonRequest, SummonFew, SummonTen, ChooseHero, Begin
  <2>2. CASE ReadDiscount(c) \/ ReadUp(c) \/ Load(c) \/ AddHistory(c)
    BY <2>2 DEF ReadDiscount, ReadUp, Load, AddHistory, At, HeadOf, GiftWork
  <2>3. CASE TryOption(c) \/ Settle(c) \/ Convert(c) \/ UseDiscount(c) \/ CountSummons(c) \/ DeleteUp(c)
             \/ InsertUp(c)
    BY <2>3 DEF TryOption, Settle, Convert, UseDiscount, CountSummons, DeleteUp, InsertUp
  <2> QED
    BY <1>2, <2>1, <2>2, <2>3 DEF SummonNext, SummonStep
<1> QED
  BY <1>1, <1>2 DEF Acts

\* What a pull does to the counters in memory.
LEMMA PullCounts ==
    ASSUME Types, NEW c \in Conn, PullSix(c) \/ PullLower(c), NEW p \in Pool, What(c) = p,
           mem[c].pity < HardPity, dry[p] <= mem[c].pity + Slips(faults),
           faults = 0 => lost[p] <= IF mem[c].guaranteed THEN 1 ELSE 0
    PROVE /\ \E h : Proceed(c, << Stmt("pullHero", h, 1) >>)
          /\ pity' = pity /\ guaranteed' = guaranteed /\ faults' = faults
          /\ \A q \in Pool \ {p} : dry'[q] = dry[q] /\ lost'[q] = lost[q]
          /\ dry'[p] \in Nat /\ dry'[p] <= dry[p] + 1
          /\ mem'[c].pity < HardPity /\ dry'[p] <= mem'[c].pity + Slips(faults')
          /\ faults' = 0 => lost'[p] <= IF mem'[c].guaranteed THEN 1 ELSE 0
<1>1. mem \in [Conn -> Memory] /\ dry \in [Pool -> Nat] /\ lost \in [Pool -> Nat] /\ faults \in Nat
  BY DEF Types, StateTypes, SummonTypes, HistoryTypes
<1>2. Slips(faults) \in Nat /\ HardPity \in Nat \ {0}
  BY <1>1, SlipsGrow, SummonAssumption
<1>3. mem[c].pity \in Nat /\ mem[c].guaranteed \in BOOLEAN
  BY <1>1, SummonAssumption DEF Memory
<1>4. \A h : Drawn(c, h) => /\ Proceed(c, << Stmt("pullHero", h, 1) >>)
                            /\ pity' = pity /\ guaranteed' = guaranteed /\ faults' = faults
  BY DEF Drawn, tables
<1>5. CASE PullSix(c)
  <2> DEFINE up == mem[c].up
  <2>1. PICK featured \in BOOLEAN :
            /\ ~featured => ~(up # {} /\ mem[c].guaranteed)
            /\ mem' = [mem EXCEPT ![c].pity = 0, ![c].guaranteed = up # {} /\ ~featured]
            /\ lost' = [lost EXCEPT ![p] = IF up # {} /\ ~featured THEN @ + 1 ELSE 0]
            /\ dry' = [dry EXCEPT ![p] = 0]
            /\ \E h : Drawn(c, h)
    BY <1>5 DEF PullSix
  <2>2. mem'[c].pity = 0 /\ mem'[c].guaranteed = (up # {} /\ ~featured)
    BY <1>1, <2>1 DEF Memory
  <2>3. lost'[p] = IF up # {} /\ ~featured THEN lost[p] + 1 ELSE 0
    BY <1>1, <2>1
  <2>4. \A q \in Pool \ {p} : dry'[q] = dry[q] /\ lost'[q] = lost[q]
    BY <1>1, <2>1
  <2>5. dry'[p] = 0
    BY <1>1, <2>1
  <2>6. faults = 0 => lost'[p] <= IF mem'[c].guaranteed THEN 1 ELSE 0
    <3>1. CASE up # {} /\ ~featured
      <4>1. mem'[c].guaranteed /\ lost'[p] = lost[p] + 1 /\ ~mem[c].guaranteed
        BY <2>1, <2>2, <2>3, <3>1
      <4> QED
        BY <1>1, <4>1
    <3>2. CASE ~(up # {} /\ ~featured)
      <4>1. lost'[p] = 0
        BY <2>3, <3>2
      <4> QED
        BY <4>1
    <3> QED
      BY <3>1, <3>2
  <2>7. \E h : Proceed(c, << Stmt("pullHero", h, 1) >>) /\ pity' = pity /\ guaranteed' = guaranteed /\ faults' = faults
    BY <1>4, <2>1
  <2> QED
    BY <1>1, <1>2, <2>2, <2>4, <2>5, <2>6, <2>7
<1>6. CASE PullLower(c)
  <2>1. /\ mem[c].pity + 1 < HardPity
        /\ mem' = [mem EXCEPT ![c].pity = @ + 1]
        /\ dry' = [dry EXCEPT ![p] = @ + 1]
        /\ \E h : Drawn(c, h)
        /\ lost' = lost
    BY <1>6 DEF PullLower
  <2>2. mem'[c].pity = mem[c].pity + 1 /\ mem'[c].guaranteed = mem[c].guaranteed
    BY <1>1, <2>1 DEF Memory
  <2>3. dry'[p] = dry[p] + 1 /\ \A q \in Pool \ {p} : dry'[q] = dry[q]
    BY <1>1, <2>1
  <2>4. \E h : Proceed(c, << Stmt("pullHero", h, 1) >>) /\ pity' = pity /\ guaranteed' = guaranteed /\ faults' = faults
    BY <1>4, <2>1
  <2> QED
    BY <1>1, <1>2, <1>3, <2>1, <2>2, <2>3, <2>4
<1> QED
  BY <1>5, <1>6

LEMMA RollStep ==
    ASSUME Types, NEW c \in Conn, Acts(c), RollAt(c)
    PROVE RollAt(c)'
<1>1. JobTypes /\ HistoryTypes /\ SummonTypes /\ Move(c)
  BY ActsMove DEF Types, StateTypes
<1>2. Arrives(c) \/ (\E now : Carries(c, now)) \/ Appends(c) \/ Ends(c)
  BY <1>1, Ways
<1>3. /\ faults \in Nat /\ faults' \in {faults, faults + 1} /\ Slips(faults) \in Nat
      /\ Slips(faults + 1) = Slips(faults) + Many /\ Many \in Nat /\ HardPity \in Nat
  <2>1. faults' = faults \/ faults' = faults + 1
    BY <1>2 DEF Arrives, Carries, Appends, Ends
  <2> QED
    BY <1>1, <2>1, SlipsGrow DEF HistoryTypes
<1>4. \/ Counted /\ (job[c] # <<>> /\ HeadOf(c) \in GiftWork => mem' = mem)
      \/ PullSix(c) \/ PullLower(c) \/ SaveCounters(c)
  BY RollFixed
<1>5. PullSix(c) \/ PullLower(c) \/ SaveCounters(c) =>
         job[c] # <<>> /\ HeadOf(c) \in {"pull", "save"} /\ faults' = faults
  BY DEF PullSix, PullLower, SaveCounters, Drawn, Still, At, HeadOf, Unrecorded
<1>6. \A q \in Pool : /\ pity[q] \in Nat /\ dry[q] \in Nat /\ lost[q] \in Nat
                      /\ Counted /\ Pitied(q) => Pitied(q)'
  <2>1. \A q \in Pool : pity[q] \in Nat /\ dry[q] \in Nat /\ lost[q] \in Nat
    BY <1>1, <1>3 DEF SummonTypes
  <2>2. ASSUME NEW q \in Pool, Counted, Pitied(q) PROVE Pitied(q)'
    BY <1>3, <2>1, <2>2 DEF Pitied, Counted
  <2> QED
    BY <2>1, <2>2
<1>7. \A s : job' = [job EXCEPT ![c] = s] => job'[c] = s
  BY <1>1 DEF JobTypes
<1>8. IsList(job[c])
  BY <1>1 DEF JobTypes
<1>9. job'[c] = <<>> => Clear(job[c], RollOps)'
  BY Tuples DEF Clear
<1>10. RollRest /\ Counted => RollRest'
  BY <1>6 DEF RollRest
<1>11. CASE RollRest /\ Clear(job[c], RollOps)
  <2>1. Counted
    <3>1. job[c] # <<>> => HeadOf(c) \notin RollOps
      BY <1>8, <1>11, TailSet DEF Clear, HeadOf
    <3> QED
      BY <1>4, <1>5, <3>1 DEF RollOps
  <2>2. Clear(job'[c], RollOps) \/ Opens(job'[c])
    BY <1>1, <1>2, <1>11, StaysClear
  <2>3. \/ Clear(job'[c], RollOps)
        \/ \E p \in Pool, k \in 0..Many : \E t :
              Rolling(t, p, k) /\ Works(job'[c], CashWork, << Stmt("load", p, 0) >> \o t)
    BY <2>2, OpensOne
  <2> QED
    BY <1>10, <1>11, <2>1, <2>3 DEF RollAt, Clear, Loading
<1>12. ASSUME RollRest, NEW p \in Pool, NEW k \in 0..Many, NEW t, Rolling(t, p, k),
              Works(job[c], CashWork, Loading(p) \o t)
       PROVE RollAt(c)'
  <2>1. IsList(t)
    BY <1>12, RollingNext
  <2>2. /\ IsList(Loading(p) \o t) /\ Loading(p) \o t # <<>>
        /\ Head(Loading(p) \o t) = Stmt("load", p, 0) /\ Tail(Loading(p) \o t) = t
    BY <2>1, Leading, FineJoin, Tuples DEF Loading
  <2>3. job'[c] = <<>> /\ Counted => RollAt(c)'
    BY <1>9, <1>10, <1>12 DEF RollAt
  <2>4. CASE job[c] = Loading(p) \o t
    <3>1. job[c] # <<>> /\ HeadOf(c) = "load" /\ What(c) = p /\ Tail(job[c]) = t
      BY <2>2, <2>4 DEF HeadOf, What, Stmt
    <3>2. Counted
      BY <1>4, <1>5, <3>1
    <3>3. ASSUME NEW now, Carries(c, now) PROVE RollAt(c)'
      <4>1. Load(c)
        BY <3>1, <3>3, LoneHeads DEF Carries, Lone
      <4>2. job'[c] = t
        <5>1. job'[c] = <<>> \o Tail(job[c])
          BY <1>7, <4>1 DEF Load, Proceed
        <5> QED
          BY <2>1, <3>1, <5>1 DEF IsList
      <4>3. mem'[c].pity = pity[p] /\ mem'[c].guaranteed = guaranteed[p] /\ faults' = faults
        <5>1. mem' = [mem EXCEPT ![c].pity = pity[p], ![c].guaranteed = guaranteed[p]]
          BY <3>1, <4>1 DEF Load
        <5>2. mem \in [Conn -> Memory]
          BY <1>1 DEF SummonTypes
        <5> QED
          BY <4>1, <5>1, <5>2 DEF Memory, Load, Still, Unrecorded
      <4>4. Works(job'[c], GiftWork, t)
        BY <2>1, <4>2, WorksStart
      <4>5. Pitied(p) /\ \A q \in Pool \ {p} : Pitied(q)'
        BY <1>6, <1>12, <3>2 DEF RollRest
      <4>6. pity'[p] < HardPity /\ dry'[p] + k <= pity'[p] + Slips(faults') + Many
        BY <1>3, <1>6, <3>2, <4>3, <4>5 DEF Pitied, Counted
      <4>7. /\ mem'[c].pity < HardPity /\ dry'[p] <= mem'[c].pity + Slips(faults')
            /\ faults' = 0 => lost'[p] <= IF mem'[c].guaranteed THEN 1 ELSE 0
        BY <3>2, <4>3, <4>5 DEF Pitied, Counted
      <4> QED
        BY <1>12, <4>4, <4>5, <4>6, <4>7 DEF RollAt
    <3> QED
      BY <1>2, <2>3, <3>1, <3>2, <3>3 DEF Arrives, Appends, Ends
  <2>5. CASE job[c] # Loading(p) \o t
    <3>1. /\ job[c] # <<>> /\ HeadOf(c) \in CashWork
          /\ \A now : IsList(now) /\ Within(now, CashWork) =>
                Works(now \o Tail(job[c]), CashWork, Loading(p) \o t)
      BY <1>12, <2>2, <2>5, WorksOn DEF HeadOf
    <3>2. Counted
      BY <1>4, <1>5, <3>1 DEF CashWork
    <3>3. ASSUME NEW now, Carries(c, now) PROVE RollAt(c)'
      <4>1. Works(job'[c], CashWork, Loading(p) \o t)
        BY <3>1, <3>3 DEF Carries
      <4> QED
        BY <1>10, <1>12, <3>2, <4>1 DEF RollAt
    <3> QED
      BY <1>2, <2>3, <3>1, <3>2, <3>3 DEF Arrives, Appends, Ends, CashWork
  <2> QED
    BY <2>4, <2>5
<1>13. ASSUME NEW p \in Pool, NEW k, NEW t, Rolling(t, p, k), Works(job[c], GiftWork, t),
              \A q \in Pool \ {p} : Pitied(q),
              pity[p] < HardPity, dry[p] + k <= pity[p] + Slips(faults) + Many,
              mem[c].pity < HardPity, dry[p] <= mem[c].pity + Slips(faults),
              faults = 0 => lost[p] <= IF mem[c].guaranteed THEN 1 ELSE 0
       PROVE RollAt(c)'
  <2>1. /\ k \in Nat /\ IsList(t) /\ t # <<>>
        /\ k = 0 => Head(t) = Stmt("save", p, 0) /\ Clear(Tail(t), RollOps)
        /\ k > 0 => Head(t).op = "pull" /\ Head(t).what = p /\ Rolling(Tail(t), p, k - 1)
    BY <1>13, RollingNext
  <2>2. job'[c] = <<>> /\ faults' = faults + 1 => RollAt(c)'
    <3> SUFFICES ASSUME job'[c] = <<>>, faults' = faults + 1 PROVE RollAt(c)'
      OBVIOUS
    <3>1. Counted
      BY <1>3, <1>4, <1>5
    <3>2. Pitied(p)'
      <4>1. pity'[p] = pity[p] /\ dry'[p] = dry[p] /\ faults' # 0
        BY <1>3, <3>1 DEF Counted
      <4>2. dry[p] <= pity[p] + (Slips(faults) + Many)
        <5>1. k \in Nat /\ dry[p] \in Nat /\ pity[p] \in Nat /\ Slips(faults) \in Nat /\ Many \in Nat
          BY <1>3, <1>6, <2>1
        <5> QED
          BY <1>13, <5>1
      <4>3. Slips(faults') = Slips(faults) + Many
        BY <1>3
      <4> QED
        BY <1>13, <4>1, <4>2, <4>3 DEF Pitied
    <3>3. RollRest'
      BY <1>6, <1>13, <3>1, <3>2 DEF RollRest
    <3> QED
      BY <1>9, <3>3 DEF RollAt
  <2>3. CASE job[c] # t
    <3>1. /\ job[c] # <<>> /\ HeadOf(c) \in GiftWork
          /\ \A now : IsList(now) /\ Within(now, GiftWork) => Works(now \o Tail(job[c]), GiftWork, t)
      BY <1>13, <2>1, <2>3, WorksOn DEF HeadOf
    <3>2. Counted /\ mem' = mem
      BY <1>4, <1>5, <3>1 DEF GiftWork
    <3>3. ASSUME NEW now, Carries(c, now) PROVE RollAt(c)'
      <4>1. Works(job'[c], GiftWork, t) /\ faults' = faults
        BY <3>1, <3>3 DEF Carries
      <4>2. \A q \in Pool \ {p} : Pitied(q)'
        BY <1>6, <1>13, <3>2
      <4>3. /\ pity'[p] < HardPity /\ dry'[p] + k <= pity'[p] + Slips(faults') + Many
            /\ mem'[c].pity < HardPity /\ dry'[p] <= mem'[c].pity + Slips(faults')
            /\ faults' = 0 => lost'[p] <= IF mem'[c].guaranteed THEN 1 ELSE 0
        BY <1>13, <3>2, <4>1 DEF Counted
      <4> QED
        BY <1>13, <4>1, <4>2, <4>3 DEF RollAt
    <3> QED
      BY <1>2, <2>2, <3>1, <3>3 DEF Arrives, Appends, Ends, GiftWork
  <2>4. CASE job[c] = t /\ k = 0
    <3>1. job[c] # <<>> /\ HeadOf(c) = "save" /\ What(c) = p /\ Clear(Tail(job[c]), RollOps)
      BY <2>1, <2>4 DEF HeadOf, What, Stmt
    <3>2. ASSUME NEW now, Carries(c, now) PROVE RollAt(c)'
      <4>1. SaveCounters(c)
        BY <3>1, <3>2, LoneHeads DEF Carries, Lone
      <4>2. job'[c] = Tail(job[c])
        <5>1. job'[c] = <<>> \o Tail(job[c])
          BY <1>7, <4>1 DEF SaveCounters, Proceed
        <5>2. IsList(Tail(job[c]))
          BY <1>8, <3>1, TailSet
        <5> QED
          BY <5>1, <5>2 DEF IsList
      <4>3. /\ pity' = [pity EXCEPT ![p] = mem[c].pity] /\ guaranteed' = [guaranteed EXCEPT ![p] = mem[c].guaranteed]
            /\ dry' = dry /\ lost' = lost /\ faults' = faults
        BY <3>1, <4>1 DEF SaveCounters, Still, Unrecorded, rolls
      <4>4. \A q \in Pool \ {p} : Pitied(q)'
        BY <1>1, <1>13, <4>3 DEF Pitied, SummonTypes
      <4>5. Pitied(p)'
        BY <1>1, <1>13, <4>3 DEF Pitied, SummonTypes
      <4>6. RollRest'
        BY <4>4, <4>5 DEF RollRest
      <4> QED
        BY <3>1, <4>2, <4>6 DEF RollAt, Clear
    <3> QED
      BY <1>2, <2>2, <3>1, <3>2 DEF Arrives, Appends, Ends, Lone
  <2>5. CASE job[c] = t /\ k > 0
    <3>1. job[c] # <<>> /\ HeadOf(c) = "pull" /\ What(c) = p /\ Rolling(Tail(job[c]), p, k - 1)
      BY <2>1, <2>5 DEF HeadOf, What
    <3>2. ASSUME NEW now, Carries(c, now) PROVE RollAt(c)'
      <4>1. PullSix(c) \/ PullLower(c)
        BY <3>1, <3>2, LoneHeads DEF Carries, Lone
      <4>2. /\ \E h : Proceed(c, << Stmt("pullHero", h, 1) >>)
            /\ pity' = pity /\ guaranteed' = guaranteed /\ faults' = faults
            /\ \A q \in Pool \ {p} : dry'[q] = dry[q] /\ lost'[q] = lost[q]
            /\ dry'[p] \in Nat /\ dry'[p] <= dry[p] + 1
            /\ mem'[c].pity < HardPity /\ dry'[p] <= mem'[c].pity + Slips(faults')
            /\ faults' = 0 => lost'[p] <= IF mem'[c].guaranteed THEN 1 ELSE 0
        BY <1>13, <3>1, <4>1, PullCounts
      <4>3. PICK h : Proceed(c, << Stmt("pullHero", h, 1) >>)
        BY <4>2
      <4> DEFINE x == Stmt("pullHero", h, 1)
      <4>4. job'[c] = << x >> \o Tail(job[c])
        BY <1>7, <4>3 DEF Proceed
      <4>5. IsList(Tail(job[c])) /\ IsList(<< x >>) /\ Within(<< x >>, GiftWork)
        <5>1. IsList(<< x >>) /\ ToSet(<< x >>) = {x} /\ x.op = "pullHero"
          BY Tuples DEF Stmt
        <5> QED
          BY <1>8, <3>1, <5>1, TailSet DEF Within, GiftWork
      <4>6. Works(job'[c], GiftWork, Tail(job[c]))
        BY <4>4, <4>5, WorksStart
      <4>7. \A q \in Pool \ {p} : Pitied(q)'
        BY <1>13, <4>2 DEF Pitied
      <4>8. pity'[p] < HardPity /\ dry'[p] + (k - 1) <= pity'[p] + Slips(faults') + Many
        <5>1. dry'[p] + (k - 1) <= dry[p] + k /\ dry'[p] + (k - 1) \in Int /\ dry[p] + k \in Int
          BY <1>6, <2>1, <4>2
        <5>2. pity'[p] = pity[p] /\ faults' = faults /\ pity[p] \in Nat
          BY <1>6, <4>2
        <5> QED
          BY <1>3, <1>13, <5>1, <5>2
      <4> QED
        BY <3>1, <4>2, <4>6, <4>7, <4>8 DEF RollAt
    <3> QED
      BY <1>2, <2>2, <3>1, <3>2 DEF Arrives, Appends, Ends, Lone
  <2> QED
    BY <2>1, <2>3, <2>4, <2>5
<1> QED
  BY <1>11, <1>12, <1>13 DEF RollAt

\* --- The three together

SoleRest == InsightRest /\ PowerRest /\ RollRest
SoleAt(c) == InsightAt(c) /\ PowerAt(c) /\ RollAt(c)

SoleInv == Serial => /\ Idle => SoleRest
                     /\ \A c \in Conn : job[c] # <<>> => SoleAt(c)

LEMMA RestIsAt ==
    ASSUME NEW c \in Conn, job[c] = <<>> PROVE SoleRest <=> SoleAt(c)
<1>1. \A W : Clear(job[c], W)
  BY Tuples DEF Clear
<1>2. \A W, v : IsList(v) /\ v # <<>> => ~Works(job[c], W, v)
  BY WorksOn
<1>3. \A q : IsList(Spending(q)) /\ Spending(q) # <<>>
  BY Tuples DEF Spending
<1>4. InsightAt(c) => InsightRest
  BY <1>2, <1>3 DEF InsightAt
<1>5. PowerAt(c) => PowerRest
  <2>1. \A w, x : IsList(w) => job[c] # w \o << x >>
    <3> TAKE w, x
    <3> HAVE IsList(w)
    <3>1. IsList(<<x>>) /\ ToSet(<<x>>) = {x}
      BY Tuples
    <3>2. ToSet(w \o << x >>) = ToSet(w) \cup {x}
      BY <3>1, FineJoin
    <3> QED
      BY <3>2, Tuples
  <2>2. \A n : job[c] # << Stmt("saveStamina", "all", n) >>
    OBVIOUS
  <2>3. \A w, n : IsList(w) => job[c] # w \o << Stmt("readStamina", "all", n) >>
    BY <2>1
  <2> QED
    BY <2>2, <2>3 DEF PowerAt
<1>6. RollAt(c) => RollRest
  <2>1. \A t, p, k : Rolling(t, p, k) => ~Works(job[c], GiftWork, t)
    <3> TAKE t, p, k
    <3> HAVE Rolling(t, p, k)
    <3>1. IsList(t) /\ t # <<>>
      BY RollingNext
    <3> QED
      BY <1>2, <3>1
  <2> QED
    BY <2>1 DEF RollAt
<1> QED
  BY <1>1, <1>4, <1>5, <1>6 DEF SoleRest, SoleAt, InsightAt, PowerAt, RollAt

LEMMA SoleStarts == Init => SoleInv
<1> SUFFICES ASSUME Init PROVE SoleInv
  OBVIOUS
<1>1. (\A c \in Conn : job[c] = <<>>) /\ faults = 0
  BY DEF Init, InventoryInit
<1>2. InsightRest
  BY <1>1 DEF Init, ItemsInit, InsightRest, Even
<1>3. PowerRest
  <2>1. stamina = 0 /\ expired = ExpiredRow
    BY DEF Init, ItemsInit
  <2> QED
    BY <1>1, <2>1, StoredFacts DEF PowerRest, Reaches
<1>4. RollRest
  <2> SUFFICES ASSUME NEW q \in Pool PROVE Pitied(q)
    BY DEF RollRest
  <2>1. pity[q] = 0 /\ dry[q] = 0 /\ lost[q] = 0
    BY DEF Init, SummonInit
  <2> QED
    BY <1>1, <2>1, SlipsGrow, SummonAssumption DEF Pitied
<1> QED
  BY <1>1, <1>2, <1>3, <1>4 DEF SoleInv, SoleRest

SoleSafe == Types /\ Lonely /\ SoleInv

LEMMA SoleStep ==
    ASSUME SoleSafe, NEW c \in Conn, Acts(c)
    PROVE SoleInv'
<1> SUFFICES ASSUME ~overlapped'
             PROVE (Idle => SoleRest)' /\ \A d \in Conn : job'[d] # <<>> => SoleAt(d)'
  BY DEF SoleInv, Serial
<1>1. Types /\ JobTypes /\ HistoryTypes /\ Lonely /\ Move(c)
  BY ActsMove DEF SoleSafe, Types, StateTypes
<1>2. ~overlapped /\ \A d \in Conn \ {c} : job[d] = <<>> /\ job'[d] = <<>>
  BY <1>1, Alone
<1>3. SoleAt(c)
  <2>1. CASE job[c] # <<>>
    BY <1>2, <2>1 DEF SoleSafe, SoleInv, Serial
  <2>2. CASE job[c] = <<>>
    <3>1. SoleRest
      BY <1>2, <2>2 DEF SoleSafe, SoleInv, Serial, Idle
    <3> QED
      BY <2>2, <3>1, RestIsAt
  <2> QED
    BY <2>1, <2>2
<1>4. SoleAt(c)'
  <2>1. InsightAt(c)' /\ PowerAt(c)' /\ RollAt(c)'
    BY <1>1, <1>3, InsightStep, PowerStep, RollStep DEF SoleAt
  <2> QED
    BY <2>1 DEF SoleAt
<1>5. (Idle => SoleRest)'
  <2>1. job'[c] = <<>> => SoleRest'
    <3>1. (job[c] = <<>> => (SoleRest <=> SoleAt(c)))'
      BY RestIsAt, PTL
    <3> QED
      BY <1>4, <3>1
  <2> QED
    BY <2>1 DEF Idle
<1> QED
  BY <1>2, <1>4, <1>5

LEMMA SoleSteps == SoleSafe /\ [Next]_vars => SoleSafe'
<1> SUFFICES ASSUME SoleSafe, [Next]_vars PROVE SoleSafe'
  OBVIOUS
<1>1. Types /\ Types' /\ Lonely /\ Lonely'
  BY TypesStep, LonelyStays DEF SoleSafe
<1>2. CASE Next
  <2>1. PICK c \in Conn : Acts(c)
    BY <1>2, Actor
  <2> QED
    BY <1>1, <2>1, SoleStep DEF SoleSafe
<1>3. CASE UNCHANGED vars
  <2>1. /\ job' = job /\ overlapped' = overlapped /\ faults' = faults
        /\ UNCHANGED <<stamina, expired, left, raises, pity, guaranteed, dry, lost, mem>>
    BY <1>3 DEF vars, invVars, history, itemVars, summonVars, tables, rolls
  <2>2. \A r : Even(r)' <=> Even(r)
    BY <2>1 DEF Even
  <2>3. \A q : Pitied(q)' <=> Pitied(q)
    BY <2>1 DEF Pitied
  <2>4. SoleRest' <=> SoleRest
    BY <2>1, <2>2, <2>3 DEF SoleRest, InsightRest, PowerRest, RollRest, Reaches
  <2>5. ASSUME NEW c \in Conn PROVE SoleAt(c)' <=> SoleAt(c)
    <3>1. InsightAt(c)' <=> InsightAt(c)
      BY <2>1, <2>2 DEF InsightAt, InsightRest, HeadOf, What
    <3>2. PowerAt(c)' <=> PowerAt(c)
      BY <2>1 DEF PowerAt, PowerRest, Reaches
    <3>3. RollAt(c)' <=> RollAt(c)
      BY <2>1, <2>3 DEF RollAt, RollRest
    <3> QED
      BY <3>1, <3>2, <3>3 DEF SoleAt
  <2>6. SoleInv'
    BY <2>1, <2>4, <2>5 DEF SoleSafe, SoleInv, Serial, Idle
  <2> QED
    BY <1>1, <2>6 DEF SoleSafe
<1> QED
  BY <1>2, <1>3

LEMMA InsightMeans ==
    ASSUME Types, InsightRest \/ (\E c \in Conn : InsightAt(c)), NEW r \in InsightRow
    PROVE raises[r] <= 1 + faults
<1>1. raises[r] \in Nat /\ left[r] \in Int /\ faults \in Nat
  BY DEF Types, StateTypes, ItemTypes, HistoryTypes
<1>2. Even(r) \/ (left[r] >= 1 /\ raises[r] + left[r] <= 2 + faults)
  BY DEF InsightAt, InsightRest
<1> QED
  BY <1>1, <1>2 DEF Even

LEMMA PowerMeans ==
    ASSUME Types, PowerRest \/ (\E c \in Conn : PowerAt(c))
    PROVE stamina + Stored(expired) <= Stored(ExpiredRow)
<1>1. stamina \in Nat /\ Stored(expired) \in Nat /\ Stored(ExpiredRow) \in Nat
  BY StoredFacts DEF Types, StateTypes, ItemTypes
<1>2. \/ PowerRest
      \/ \E n \in Nat : Stored(expired) <= n /\ Reaches(stamina + n)
      \/ \E n \in Nat : expired = {} /\ stamina <= n /\ Reaches(n)
  BY DEF PowerAt
<1> QED
  BY <1>1, <1>2, StoredFacts DEF PowerRest, Reaches

LEMMA RollMeans ==
    ASSUME Types, RollRest \/ (\E c \in Conn : RollAt(c)), NEW q \in Pool
    PROVE dry[q] < HardPity + Many * faults /\ (faults = 0 => lost[q] <= 1)
<1>1. /\ pity[q] \in Nat /\ dry[q] \in Nat /\ lost[q] \in Nat /\ Slips(faults) \in Nat
      /\ HardPity \in Nat /\ \A c \in Conn : mem[c].pity \in Nat
  <2>1. faults \in Nat /\ pity[q] \in 0..HardPity /\ dry[q] \in Nat /\ lost[q] \in Nat
    BY DEF Types, StateTypes, SummonTypes, HistoryTypes
  <2>2. \A c \in Conn : mem[c].pity \in 0..HardPity
    <3> TAKE c \in Conn
    <3>1. mem[c] \in Memory
      BY DEF Types, StateTypes, SummonTypes
    <3> QED
      BY <3>1 DEF Memory
  <2>3. \A n \in 0..HardPity : n \in Nat
    BY SlipsGrow
  <2> QED
    BY <2>1, <2>2, <2>3, SlipsGrow
<1>2. \/ Pitied(q)
      \/ \E c \in Conn : /\ mem[c].pity < HardPity /\ dry[q] <= mem[c].pity + Slips(faults)
                         /\ faults = 0 => lost[q] <= IF mem[c].guaranteed THEN 1 ELSE 0
  BY DEF RollAt, RollRest
<1>3. dry[q] < HardPity + Slips(faults)
  BY <1>1, <1>2 DEF Pitied
<1>4. faults = 0 => lost[q] <= 1
  <2>1. faults = 0 => \E b : lost[q] <= IF b THEN 1 ELSE 0
    BY <1>2 DEF Pitied
  <2> QED
    BY <1>1, <2>1
<1> QED
  BY <1>3, <1>4 DEF Slips

LEMMA SoleMeans == SoleSafe => ItemsUsedOnce /\ PityHolds
<1> SUFFICES ASSUME SoleSafe PROVE ItemsUsedOnce /\ PityHolds
  OBVIOUS
<1>1. Types
  BY DEF SoleSafe
<1>2. Serial => \/ Idle /\ SoleRest
                \/ \E c \in Conn : SoleAt(c)
  BY DEF SoleSafe, SoleInv, Idle
<1>3. InsightUsedOnce
  BY <1>1, <1>2, InsightMeans DEF InsightUsedOnce, SoleRest, SoleAt
<1>4. PityHolds
  BY <1>1, <1>2, RollMeans DEF PityHolds, SoleRest, SoleAt
<1>5. StaminaConverted
  <2>1. \A S : MapThenSumSet(LAMBDA e : StaminaOf[e], S) = Stored(S)
    BY DEF MapThenSumSet, Stored, SumFunctionOnSet, FoldFunctionOnSet
  <2>2. Serial => stamina + Stored(expired) <= Stored(ExpiredRow)
    BY <1>1, <1>2, PowerMeans DEF SoleRest, SoleAt
  <2>3. Calm => stamina + Stored(expired) = Stored(ExpiredRow)
    BY DEF SoleSafe, SoleInv, Calm, SoleRest, PowerRest, Reaches
  <2> QED
    BY <2>1, <2>2, <2>3 DEF StaminaConverted
<1> QED
  BY <1>3, <1>4, <1>5 DEF ItemsUsedOnce

\* What a consumable is worth reaches the player once, as long as nothing overlaps:
\* the power rows are deleted before their stamina is added (on_auto_use_expire_power_item),
\* so a failure loses some and never doubles it; an insight item is counted down after
\* the hero is raised (on_use_insight_item), so it works again only after a failure.
THEOREM ItemsWorkOnce == Spec => []ItemsUsedOnce
<1>1. Init => SoleSafe
  <2>1. Init => Lonely
    BY DEF Init, InventoryInit, Lonely
  <2> QED
    BY <2>1, TypesStart, SoleStarts DEF SoleSafe
<1>2. SoleSafe /\ [Next]_vars => SoleSafe'
  BY SoleSteps
<1>3. SoleSafe => ItemsUsedOnce
  BY SoleMeans
<1> QED
  BY <1>1, <1>2, <1>3, PTL DEF Spec

\* The hard pity holds for any pool and any number of pulls as long as nothing
\* overlaps, and so does the featured hero after a six star that was not featured:
\* the counters are loaded before the pulls and saved after them (state/gacha), so a
\* failed summon loses at most its own pulls.
THEOREM PityIsKept == Spec => []PityHolds
<1>1. Init => SoleSafe
  <2>1. Init => Lonely
    BY DEF Init, InventoryInit, Lonely
  <2> QED
    BY <2>1, TypesStart, SoleStarts DEF SoleSafe
<1>2. SoleSafe /\ [Next]_vars => SoleSafe'
  BY SoleSteps
<1>3. SoleSafe => PityHolds
  BY SoleMeans
<1> QED
  BY <1>1, <1>2, <1>3, PTL DEF Spec
=============================================================================
