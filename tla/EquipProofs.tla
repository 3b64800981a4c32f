----------------------------- MODULE EquipProofs -----------------------------
(***************************************************************************)
(* Theorems about module Equip, for any players, connections, kinds and    *)
(* numbers of pieces, and with uids that may pass every bound.  They rest  *)
(* on the fields of the rows and the stages in which a connection holds    *)
(* food (Shape), and on this: what the only connection of a player has     *)
(* found good to eat cannot have been locked since (FoodUnlocked).         *)
(***************************************************************************)
EXTENDS Equip, Sums, FiniteSetTheorems, TLAPS

Fields == {"player", "kind", "count", "exp", "raised", "breakLv", "refine", "lock"}
Eating == {"food", "write", "eat"}

Shape ==
    /\ \A u \in Used : DOMAIN equipment[u] = Fields
    /\ pc \in [Conn -> Stage]
    /\ todo \in [Conn -> Int]
    /\ DOMAIN food = Conn
    /\ requests \in Nat
    /\ \A c \in Conn : food[c] # {} => pc[c] \in Eating

FoodUnlocked ==
    \A c \in Conn : \A f \in food[c] :
        Alone(PlayerOf[c]) /\ f.uid \in Mine(c) => ~equipment[f.uid].lock

IInv == Shape /\ FoodUnlocked

\* All a step of connection c does to the table: it changes row u, which is new
\* or its player's, and stays its player's unless c eats it; it locks only when
\* it is idle, and it does not rest.
Changes(c, u) ==
    /\ Used \ {u} = Used' \ {u}
    /\ \A v \in Used \ {u} : equipment'[v] = equipment[v]
    /\ u \in Used => u \in Mine(c)
    /\ u \in Used' => equipment'[u].player = PlayerOf[c] /\ DOMAIN equipment'[u] = Fields
    /\ u \notin Used' => \E f \in food[c] : f.uid = u
    /\ u \in Used \cap Used' => pc[c] = "idle" \/ equipment'[u].lock = equipment[u].lock
    /\ u \notin Used => pc[c] = "insert"
    /\ requests' = requests => ~Rests(c)

-----------------------------------------------------------------------------
\* Nothing but these fields of row u is written.
FieldsWritten(u, fields) ==
    /\ Used' = Used
    /\ \A v \in Used \ {u} : equipment'[v] = equipment[v]
    /\ DOMAIN equipment'[u] = DOMAIN equipment[u]
    /\ \A f \in Fields \ fields : equipment'[u][f] = equipment[u][f]

LEMMA RowWritten ==
    ASSUME Shape, NEW c \in Conn, NEW u \in Mine(c), NEW fields, "player" \notin fields,
           FieldsWritten(u, fields),
           "lock" \in fields => pc[c] = "idle",
           requests' = requests => ~Rests(c)
    PROVE  Changes(c, u)
<1>1. u \in Used /\ DOMAIN equipment[u] = Fields /\ equipment[u].player = PlayerOf[c]
  BY DEF Shape, Mine, Of
<1>2. equipment'[u].player = equipment[u].player
  BY DEF FieldsWritten, Fields
<1>3. "lock" \in fields \/ equipment'[u].lock = equipment[u].lock
  BY DEF FieldsWritten, Fields
<1> QED
  BY <1>1, <1>2, <1>3 DEF Changes, FieldsWritten

\* A granted row takes a free uid.
LEMMA RowInserted ==
    ASSUME Shape, NEW c \in Conn, InsertEquip(c)
    PROVE  Changes(c, uid[c])
<1>1. /\ pc[c] = "insert"  /\ uid[c] \notin Used
      /\ equipment' = [u \in Used \cup {uid[c]} |->
                         IF u = uid[c] THEN NewRow(c, Lot(c)) ELSE equipment[u]]
  BY DEF InsertEquip, Insert
<1>2. Used' = Used \cup {uid[c]} /\ equipment'[uid[c]] = NewRow(c, Lot(c))
      /\ \A v \in Used : equipment'[v] = equipment[v]
  BY <1>1 DEF Used
<1>3. DOMAIN NewRow(c, Lot(c)) = Fields /\ NewRow(c, Lot(c)).player = PlayerOf[c]
  BY DEF NewRow, Fields
<1>4. ~Rests(c)
  <2>1. CASE todo[c] = Lot(c)
    BY <2>1, <1>1 DEF InsertEquip, Insert, Return, Goto, Rests, Shape
  <2>2. CASE todo[c] # Lot(c)
    <3>1. Lot(c) = 1 /\ todo' = [todo EXCEPT ![c] = @ - Lot(c)]
      BY <2>2 DEF InsertEquip, Insert, Lot
    <3> QED
      BY <3>1 DEF Rests, Shape
  <2> QED
    BY <2>1, <2>2
<1> QED
  BY <1>1, <1>2, <1>3, <1>4 DEF Changes

\* A row is eaten, or the number left is written to it.
LEMMA RowEaten ==
    ASSUME Shape, NEW c \in Conn, Eat(c), equipment' # equipment
    PROVE  \E u : Changes(c, u)
<1>1. pc[c] = "eat"
  BY DEF Eat
<1>2. PICK f \in food[c] : equipment' = EatRow(c, f) /\ food' = [food EXCEPT ![c] = @ \ {f}]
  BY DEF Eat
<1>3. f.uid \in Mine(c) /\ ~Rests(c)
  BY <1>2 DEF EatRow, Rests, Shape
<1>4. CASE equipment' = [equipment EXCEPT ![f.uid].count = f.left]
  <2>1. FieldsWritten(f.uid, {"count"})
    BY <1>3, <1>4 DEF FieldsWritten, Mine, Of, Used, Shape, Fields
  <2> QED
    BY <2>1, <1>3, RowWritten DEF Fields
<1>5. CASE equipment' = [u \in Used \ {f.uid} |-> equipment[u]]
  <2>1. Used' = Used \ {f.uid} /\ \A v \in Used \ {f.uid} : equipment'[v] = equipment[v]
    BY <1>5 DEF Used
  <2> QED
    BY <2>1, <1>2, <1>3 DEF Changes, Mine, Of
<1> QED
  BY <1>2, <1>3, <1>4, <1>5 DEF EatRow

\* Whatever step a connection takes, it changes nothing in the table or is a Changes.
LEMMA StepOfChanges ==
    ASSUME Shape, NEW c \in Conn, Requests(c) \/ Step(c), equipment' # equipment
    PROVE  \E u : Changes(c, u)
<1>1. Requests(c) \/ Step(c)
  OBVIOUS
<1>2. CASE Requests(c)
  <2>1. PICK u \in Mine(c) : Lock(c, u)
    BY <1>2 DEF Requests, Grant, Feed, Break
  <2>2. pc[c] = "idle" /\ requests' # requests
    BY <2>1 DEF Lock, Request, Shape
  <2>3. FieldsWritten(u, {"lock"})
    BY <2>1 DEF Lock, FieldsWritten, Mine, Of, Used, Shape, Fields
  <2> QED
    BY <2>2, <2>3, RowWritten DEF Fields
<1>3. CASE AddToStack(c)
  <2>1. uid[c] \in Mine(c) /\ equipment' = [equipment EXCEPT ![uid[c]].count = @ + todo[c]] /\ ~Rests(c)
    BY <1>3 DEF AddToStack, Return, Goto, Rests, Shape
  <2>2. FieldsWritten(uid[c], {"count"})
    BY <2>1 DEF FieldsWritten, Mine, Of, Used, Shape, Fields
  <2> QED
    BY <2>1, <2>2, RowWritten DEF Fields
<1>4. CASE InsertEquip(c)
  BY <1>4, RowInserted
<1>5. CASE WriteTarget(c)
  <2>1. uid[c] \in Mine(c) /\ ~Rests(c)
    BY <1>5 DEF WriteTarget, Goto, Rests, Shape
  <2>2. \E exp, raised, refine :
           \/ equipment' = [equipment EXCEPT ![uid[c]].exp = exp, ![uid[c]].raised = raised]
           \/ equipment' = [equipment EXCEPT ![uid[c]].refine = refine]
    BY <1>5 DEF WriteTarget
  <2>3. FieldsWritten(uid[c], {"exp", "raised"}) \/ FieldsWritten(uid[c], {"refine"})
    BY <2>1, <2>2 DEF FieldsWritten, Mine, Of, Used, Shape, Fields
  <2> QED
    BY <2>1, <2>3, RowWritten DEF Fields
<1>6. CASE Eat(c)
  BY <1>6, RowEaten
<1> QED
  BY <1>1, <1>2, <1>3, <1>4, <1>5, <1>6
     DEF Step, FindStack, TakeUid, ReadTarget, ReadFood, SetBreak, Fail

LEMMA StepChanges ==
    ASSUME Shape, Next, equipment' # equipment
    PROVE  \E c \in Conn : \E u : Changes(c, u)
  BY StepOfChanges DEF Next, Crash

-----------------------------------------------------------------------------
\* The only connection of a player is the only one.
LEMMA OneConnection ==
    ASSUME NEW c \in Conn, NEW d \in Conn, PlayerOf[c] = PlayerOf[d], Alone(PlayerOf[c])
    PROVE  c = d
<1> DEFINE S == {e \in Conn : PlayerOf[e] = PlayerOf[c]}
<1>1. IsFiniteSet(S)
  BY EquipAssumption, FS_Subset DEF EquipAssumption
<1>2. PICK x : S = {x}
  BY <1>1, FS_Singleton DEF Alone
<1> QED
  BY <1>2

\* What changes of the handlers' food: it is gone or eaten up, or one more row
\* was found good.
LEMMA FoodGrows ==
    ASSUME Shape, Next, NEW c \in Conn, NEW f \in food'[c]
    PROVE  \/ f \in food[c]
           \/ /\ pc[c] = "food" /\ equipment' = equipment
              /\ f.uid \in Mine(c) => ~equipment[f.uid].lock
<1>1. CASE Crash
  BY <1>1 DEF Crash
<1>2. CASE \E d \in Conn : Requests(d) \/ Step(d)
  <2>1. PICK d \in Conn : Requests(d) \/ Step(d)
    BY <1>2
  <2>2. CASE ReadFood(d) /\ f \notin food[c]
    <3> DEFINE u == Head(picks[d]).uid
               take == Head(picks[d]).take
               g == FoodFrom(u, take, Len(picks[d]))
    <3>1. food' = [food EXCEPT ![d] = IF Good(d, u, take) THEN @ \cup {g} ELSE @]
      BY <2>2 DEF ReadFood
    <3>2. c = d /\ Good(d, u, take) /\ f = g
      BY <3>1, <2>2 DEF Shape
    <3>3. f.uid = u
      BY <3>2 DEF FoodFrom
    <3> QED
      BY <3>2, <3>3, <2>2 DEF Good, ReadFood
  <2>3. CASE ~ReadFood(d)
    BY <2>1, <2>3 DEF Shape, Requests, Grant, Feed, Break, Lock, job, Step, FindStack, AddToStack,
       TakeUid, InsertEquip, Insert, ReadTarget, WriteTarget, Eat, SetBreak, Fail, Return
  <2> QED
    BY <2>2, <2>3
<1> QED
  BY <1>1, <1>2 DEF Next

-----------------------------------------------------------------------------
\* The end of a handler.
LEMMA ShapeReturn ==
    ASSUME Shape, NEW c \in Conn, Return(c), requests' = requests,
           \A u \in Used' : DOMAIN equipment'[u] = Fields
    PROVE  Shape'
<1>1. /\ pc' = [pc EXCEPT ![c] = "idle"] /\ todo' = [todo EXCEPT ![c] = 0]
      /\ food' = [food EXCEPT ![c] = {}]
  BY DEF Return, Goto
<1> QED
  BY <1>1 DEF Shape, Stage

\* A connection that holds food is between its finding and its eating.
LEMMA ShapeStep ==
    ASSUME Shape, Next
    PROVE  Shape'
<1>1. \A u \in Used' : DOMAIN equipment'[u] = Fields
  BY StepChanges DEF Shape, Changes, Used
<1>2. CASE Crash
  BY <1>1, <1>2 DEF Crash, Shape, Stage
<1>3. CASE \E c \in Conn : Requests(c) \/ Step(c)
  <2>1. PICK c \in Conn : Requests(c) \/ Step(c)
    BY <1>3
  <2>2. CASE Requests(c)
    <3>1. pc[c] = "idle" /\ food[c] = {} /\ food' = food /\ requests' = requests + 1
      BY <2>2 DEF Shape, Eating, Requests, Grant, Feed, Break, Lock, Request, job
    <3>2. pc' \in [Conn -> Stage] /\ \A d \in Conn \ {c} : pc'[d] = pc[d]
      BY <2>2 DEF Shape, Requests, Grant, Feed, Break, Lock, Goto, Stage
    <3>3. todo' \in [Conn -> Int]
      BY <2>2, EquipAssumption DEF EquipAssumption, Shape, Requests, Grant, Feed, Break, Lock, job
    <3> QED
      BY <1>1, <3>1, <3>2, <3>3 DEF Shape
  <2>3. ASSUME Return(c), requests' = requests PROVE Shape'
    BY <1>1, <2>3, ShapeReturn
  <2>4. CASE FindStack(c) \/ ReadTarget(c)
    <3>1. /\ \E stage \in {"takeUid", "stack", "break", "food"} : pc' = [pc EXCEPT ![c] = stage]
          /\ food[c] = {} /\ UNCHANGED <<food, todo, requests>>
      BY <2>4 DEF Shape, FindStack, ReadTarget, Goto, Eating
    <3> QED
      BY <1>1, <3>1 DEF Shape, Stage
  <2>5. CASE TakeUid(c)
    <3>1. ASSUME Goto(c, "insert"), UNCHANGED <<todo, food, requests>> PROVE Shape'
      <4>1. food[c] = {}
        BY <2>5 DEF Shape, TakeUid, Eating
      <4> QED
        BY <1>1, <3>1, <4>1 DEF Shape, Goto, Stage
    <3> QED
      BY <2>3, <2>5, <3>1 DEF TakeUid
  <2>6. CASE InsertEquip(c)
    <3>1. CASE todo[c] = Lot(c)
      BY <2>3, <2>6, <3>1 DEF InsertEquip, Insert
    <3>2. CASE todo[c] # Lot(c)
      <4>1. Lot(c) = 1
        BY <2>6, <3>2 DEF Lot
      <4>2. todo' = [todo EXCEPT ![c] = @ - 1] /\ UNCHANGED <<pc, food, requests>>
        BY <2>6, <3>2, <4>1 DEF InsertEquip, Insert
      <4> QED
        BY <1>1, <4>2 DEF Shape
    <3> QED
      BY <3>1, <3>2
  <2>7. CASE ReadFood(c)
    <3>1. \/ pc' = [pc EXCEPT ![c] = "write"] /\ food' = food
          \/ pc' = pc /\ \E new : food' = [food EXCEPT ![c] = new]
      BY <2>7 DEF ReadFood, Goto
    <3>2. pc[c] = "food" /\ UNCHANGED <<todo, requests>>
      BY <2>7 DEF ReadFood
    <3> QED
      BY <1>1, <3>1, <3>2 DEF Shape, Stage, Eating
  <2>8. CASE WriteTarget(c) \/ Eat(c)
    <3>1. ASSUME \/ Goto(c, "eat") /\ UNCHANGED food
                 \/ UNCHANGED pc /\ \E new : food' = [food EXCEPT ![c] = new],
                 UNCHANGED <<todo, requests>>
          PROVE  Shape'
      <4>1. pc[c] \in {"write", "eat"}
        BY <2>8 DEF WriteTarget, Eat
      <4> QED
        BY <1>1, <3>1, <4>1 DEF Shape, Goto, Stage, Eating
    <3> QED
      BY <2>3, <2>8, <3>1 DEF WriteTarget, Eat, job
  <2>9. CASE AddToStack(c) \/ SetBreak(c) \/ Fail(c)
    BY <2>3, <2>9 DEF AddToStack, SetBreak, Fail
  <2> QED
    BY <2>1, <2>2, <2>4, <2>5, <2>6, <2>7, <2>8, <2>9 DEF Step
<1> QED
  BY <1>2, <1>3 DEF Next

\* Only the connection itself could lock what it is about to eat, and it is busy.
LEMMA FoodUnlockedStep ==
    ASSUME IInv, Next
    PROVE  FoodUnlocked'
<1> SUFFICES ASSUME NEW c \in Conn, NEW f \in food'[c], Alone(PlayerOf[c]),
                    f.uid \in Used', equipment'[f.uid].player = PlayerOf[c]
             PROVE  ~equipment'[f.uid].lock
  BY DEF FoodUnlocked, Mine, Of, Used, Alone
<1>1. CASE equipment' = equipment
  BY <1>1, FoodGrows DEF IInv, FoodUnlocked, Mine, Of, Used
<1>2. CASE equipment' # equipment
  <2>1. f \in food[c] /\ pc[c] \in Eating
    BY <1>2, FoodGrows DEF IInv, Shape
  <2>0. PICK d \in Conn : \E u : Changes(d, u)
    BY <1>2, StepChanges DEF IInv
  <2>2. PICK u : Changes(d, u)
    BY <2>0
  <2>3. CASE f.uid # u
    BY <2>1, <2>2, <2>3 DEF Changes, IInv, FoodUnlocked, Mine, Of, Used
  <2>4. CASE f.uid = u
    <3>1. PlayerOf[d] = PlayerOf[c]
      BY <2>2, <2>4 DEF Changes
    <3>2. d = c
      BY <3>1, OneConnection
    <3>3. f.uid \in Mine(c) /\ equipment'[f.uid].lock = equipment[f.uid].lock
      BY <3>2, <2>1, <2>2, <2>4 DEF Changes, Eating, Mine, Of
    <3> QED
      BY <3>3, <2>1 DEF IInv, FoodUnlocked
  <2> QED
    BY <2>3, <2>4
<1> QED
  BY <1>1, <1>2

\* Food is unlocked while it is held (equip_strengthen.rs and equip_refine.rs skip
\* locked pieces when they read them, well before they delete them).
THEOREM Invariance == Spec => []IInv
<1>1. Init => IInv
  <2> SUFFICES ASSUME Init PROVE IInv
    OBVIOUS
  <2>1. \A u \in Used : DOMAIN equipment[u] = Fields
    BY DEF Init, Used, StarterRow, Fields
  <2> QED
    BY <2>1 DEF Init, IInv, Shape, FoodUnlocked, Stage
<1>2. IInv /\ [Next]_vars => IInv'
  <2> SUFFICES ASSUME IInv, [Next]_vars PROVE IInv'
    OBVIOUS
  <2>1. CASE Next
    BY <2>1, ShapeStep, FoodUnlockedStep DEF IInv
  <2>2. CASE UNCHANGED vars
    BY <2>2 DEF vars, job, IInv, Shape, FoodUnlocked, Mine, Of, Used, Alone
  <2> QED
    BY <2>1, <2>2
<1> QED
  BY <1>1, <1>2, PTL DEF Spec

-----------------------------------------------------------------------------
\* Although the players share one sequence of uids and a grant counts on from its
\* player's own, no statement of a player's handlers adds, changes or removes a
\* row of another player.
THEOREM RowsOfOthersRest == Spec => OthersUntouched
<1> DEFINE Untouched ==
       \A p \in Player :
          requests' = requests /\ (\A c \in Conn : PlayerOf[c] = p => Rests(c))
             => Of(p)' = Of(p) /\ \A u \in Of(p) : equipment'[u] = equipment[u]
<1>1. IInv /\ [Next]_vars => [Untouched]_vars
  <2> SUFFICES ASSUME IInv, Next, equipment' # equipment,
                      NEW p \in Player, requests' = requests,
                      \A c \in Conn : PlayerOf[c] = p => Rests(c)
               PROVE  Of(p)' = Of(p) /\ \A u \in Of(p) : equipment'[u] = equipment[u]
    BY DEF Of, Used, vars
  <2>0. PICK c \in Conn : \E u : Changes(c, u)
    BY StepChanges DEF IInv
  <2>1. PICK u : Changes(c, u)
    BY <2>0
  <2>2. PlayerOf[c] # p
    BY <2>1 DEF Changes
  <2>3. u \notin Of(p) /\ u \notin Of(p)'
    BY <2>1, <2>2 DEF Changes, Of, Mine, Used
  <2>4. \A v : v # u => (v \in Used <=> v \in Used') /\ (v \in Used => equipment'[v] = equipment[v])
    BY <2>1 DEF Changes
  <2> QED
    BY <2>3, <2>4 DEF Of, Used
<1> QED
  BY <1>1, Invariance, PTL DEF Spec, OthersUntouched

\* The lock of a piece (on_equip_lock) protects it from its player's only
\* connection, though the lock is looked at when food is read and not when it is
\* deleted.
THEOREM LockedNeverEaten == Spec => LockedStays
<1> DEFINE Stays == \A u \in Used :
                       Alone(equipment[u].player) /\ equipment[u].lock => u \in Used'
<1>1. IInv /\ [Next]_vars => [Stays]_vars
  <2> SUFFICES ASSUME IInv, Next, NEW u \in Used, Alone(equipment[u].player),
                      equipment[u].lock, u \notin Used'
               PROVE  FALSE
    BY DEF Used, vars
  <2>0. PICK c \in Conn : \E v : Changes(c, v)
    BY StepChanges DEF IInv, Used
  <2>1. PICK v : Changes(c, v)
    BY <2>0
  <2>2. u = v /\ u \in Mine(c)
    BY <2>1 DEF Changes
  <2>3. PICK f \in food[c] : f.uid = u
    BY <2>1, <2>2 DEF Changes
  <2> QED
    BY <2>2, <2>3 DEF IInv, FoodUnlocked, Mine, Of
<1> QED
  BY <1>1, Invariance, PTL DEF Spec, LockedStays

-----------------------------------------------------------------------------
(* Types, for any number of connections.                                   *)

Granting == {"find", "stack", "takeUid", "insert"}

\* The lists of entries, and the one with none.
EntryLists == Seq(Entry)

LEMMA NoEntries == << >> \in EntryLists
  BY DEF EntryLists

\* What a handler holds at each statement.
Holding(c) ==
    /\ IsFiniteSet(food[c])
    /\ pc[c] \in Granting => kind[c] \in Kind
    /\ pc[c] \in {"stack", "insert", "target", "break"} \cup Eating => uid[c] \in Uid
    /\ pc[c] \in {"break"} \cup Eating => target[c] \in Row
    /\ pc[c] \in Eating => op[c] \in {"strengthen", "refine"}
    /\ pc[c] = "target" => op[c] \in {"strengthen", "refine", "break"}
    /\ pc[c] \notin Eating => food[c] = {}

\* The table and the histories, and the local variables of the handlers.
TableTypes ==
    /\ Used \subseteq Uid /\ equipment \in [Used -> Row]
    /\ received \in [Player -> Int] /\ left \in [Player -> Int]
    /\ strange \subseteq Player
    /\ requests \in 0..MaxRequests

JobTypes ==
    /\ pc \in [Conn -> Stage]
    /\ op \in [Conn -> {None, "grant", "strengthen", "refine", "break"}]
    /\ kind \in [Conn -> Kind \cup {None}]
    /\ todo \in [Conn -> Int]
    /\ uid \in [Conn -> Uid \cup {None}]
    /\ target \in [Conn -> Row \cup {None}]
    /\ picks \in [Conn -> EntryLists]
    /\ \A c \in Conn : food[c] \subseteq Food
    /\ DOMAIN food = Conn

Types ==
    /\ TableTypes /\ JobTypes
    /\ IsFiniteSet(Used)
    /\ \A c \in Conn : Holding(c)

LEMMA TypesMean == Types => TypeOK
  BY DEF EntryLists, Types, TypeOK, TableTypes, JobTypes, Used

\* The handlers of the other connections are where they were.
OnlyJob(c) ==
    \A d \in Conn \ {c} :
        /\ pc'[d] = pc[d] /\ op'[d] = op[d] /\ kind'[d] = kind[d] /\ todo'[d] = todo[d]
        /\ uid'[d] = uid[d] /\ target'[d] = target[d] /\ picks'[d] = picks[d] /\ food'[d] = food[d]

LEMMA OthersHold ==
    ASSUME Types, NEW c \in Conn, OnlyJob(c), Holding(c)'
    PROVE  \A d \in Conn : Holding(d)'
<1> SUFFICES ASSUME NEW d \in Conn \ {c} PROVE Holding(d)'
  OBVIOUS
<1> QED
  BY DEF Types, OnlyJob, Holding

LEMMA RowNumbers ==
    ASSUME NEW row \in Row
    PROVE  Worth(row) \in Int /\ Gain(row) \in Int
<1>1. row.count \in Int /\ row.exp \in Int /\ row.refine \in 1..MaxRefine
  BY DEF Row
<1>2. \A n \in 1..MaxRefine : n \in Int
  OBVIOUS
<1>3. \A x, y, z \in Int : x + y + z - 1 \in Int /\ 1 + y \in Int
  OBVIOUS
<1> QED
  BY <1>1, <1>2, <1>3 DEF Worth, Gain

LEMMA TypesStart == ASSUME Init PROVE Types
<1>1. PICK n \in 0..MaxUid : Starter \in [1..n -> Player \X (Kind \ Material)]
  BY EquipAssumption DEF EquipAssumption
<1>2. Used = 1..n /\ IsFiniteSet(Used)
  BY <1>1, FS_Interval DEF Init, Used
<1>3. equipment \in [Used -> Row]
  <2>1. ASSUME NEW u \in Used PROVE StarterRow(Starter[u]) \in Row
    BY <1>1, <1>2, EquipAssumption DEF EquipAssumption, StarterRow, Row
  <2> QED
    BY <2>1 DEF Init, Used
<1>4. ASSUME NEW p \in Player PROVE Wealth(p) \in Int
  <2>1. IsFiniteSet(Of(p)) /\ Of(p) \subseteq Used
    BY <1>2, FS_Subset DEF Of
  <2>2. \A u \in Of(p) : [v \in Used |-> Worth(equipment[v])][u] \in Int
    BY <1>3, <2>1, RowNumbers
  <2> QED
    BY <2>1, <2>2, SumFacts DEF Wealth
<1>5. TableTypes
  BY <1>2, <1>3, <1>4, EquipAssumption DEF EquipAssumption, Init, TableTypes, Uid
<1>6. JobTypes
  BY NoEntries DEF Init, JobTypes, Stage
<1>7. ASSUME NEW c \in Conn PROVE Holding(c)
  BY FS_EmptySet DEF Init, Holding, Granting, Eating
<1> QED
  BY <1>2, <1>5, <1>6, <1>7 DEF Types

LEMMA TypesGrant ==
    ASSUME Types, NEW c \in Conn, NEW k \in Kind, NEW n \in Lots, Grant(c, k, n)
    PROVE  Types'
<1>0. n \in Int
  BY EquipAssumption DEF EquipAssumption
<1>1. TableTypes' /\ Used' = Used
  BY EquipAssumption DEF EquipAssumption, Types, Grant, Request, TableTypes, Used
<1>2. JobTypes'
  BY <1>0 DEF Types, Grant, Goto, JobTypes, Stage
<1>3. OnlyJob(c)
  BY DEF Types, Grant, Goto, OnlyJob, JobTypes
<1>4. Holding(c)'
  <2>1. pc'[c] \in {"find", "takeUid"} /\ kind'[c] = k /\ todo'[c] = n /\ food'[c] = food[c] /\ pc[c] = "idle"
    BY DEF Types, Grant, Request, Goto, JobTypes
  <2>2. food[c] = {}
    BY <2>1 DEF Types, Holding, Eating
  <2> QED
    BY <1>0, <2>1, <2>2, FS_EmptySet DEF Holding, Granting, Eating
<1> QED
  BY <1>1, <1>2, <1>3, <1>4, OthersHold DEF Types

LEMMA TypesFeed ==
    ASSUME Types, NEW c \in Conn, NEW what \in {"strengthen", "refine"}, NEW u \in Used,
           NEW takes \in {Takes, {1}}, NEW list \in Lists(takes), Feed(c, what, u, list)
    PROVE  Types'
<1>0. list \in EntryLists
  <2>1. PICK n \in 1..MaxEaten : list \in [1..n -> [uid : Used, take : takes]]
    BY DEF Lists
  <2>2. n \in Nat
    BY EquipAssumption DEF EquipAssumption
  <2>3. [uid : Used, take : takes] \subseteq Entry
    BY DEF Entry, Types, TableTypes
  <2>4. list \in [1..n -> Entry]
    BY <2>1, <2>3
  <2>5. \A m \in Nat : \A f \in [1..m -> Entry] : f \in EntryLists
    BY DEF EntryLists
  <2> QED
    BY <2>2, <2>4, <2>5
<1>1. TableTypes' /\ Used' = Used
  BY EquipAssumption DEF EquipAssumption, Types, Feed, Request, TableTypes, Used
<1>2. JobTypes'
  BY <1>0 DEF Types, Feed, Goto, JobTypes, Stage, TableTypes
<1>3. OnlyJob(c)
  BY DEF Types, Feed, Goto, OnlyJob, JobTypes
<1>4. Holding(c)'
  <2>1. pc'[c] = "target" /\ op'[c] = what /\ uid'[c] = u /\ food'[c] = food[c] /\ pc[c] = "idle" /\ u \in Uid
    BY DEF Types, Feed, Request, Goto, JobTypes, TableTypes
  <2>2. food[c] = {}
    BY <2>1 DEF Types, Holding, Eating
  <2> QED
    BY <2>1, <2>2, FS_EmptySet DEF Holding, Granting, Eating
<1> QED
  BY <1>1, <1>2, <1>3, <1>4, OthersHold DEF Types

LEMMA TypesBreak ==
    ASSUME Types, NEW c \in Conn, NEW u \in Used, Break(c, u)
    PROVE  Types'
<1>1. TableTypes' /\ Used' = Used
  BY EquipAssumption DEF EquipAssumption, Types, Break, Request, TableTypes, Used
<1>2. JobTypes'
  BY DEF Types, Break, Goto, JobTypes, Stage, TableTypes
<1>3. OnlyJob(c)
  BY DEF Types, Break, Goto, OnlyJob, JobTypes
<1>4. Holding(c)'
  <2>1. pc'[c] = "target" /\ op'[c] = "break" /\ uid'[c] = u /\ food'[c] = food[c] /\ pc[c] = "idle" /\ u \in Uid
    BY DEF Types, Break, Request, Goto, JobTypes, TableTypes
  <2>2. food[c] = {}
    BY <2>1 DEF Types, Holding, Eating
  <2> QED
    BY <2>1, <2>2, FS_EmptySet DEF Holding, Granting, Eating
<1> QED
  BY <1>1, <1>2, <1>3, <1>4, OthersHold DEF Types

LEMMA TypesLock ==
    ASSUME Types, NEW c \in Conn, NEW u, Lock(c, u)
    PROVE  Types'
<1>1. u \in Used /\ equipment[u] \in Row
  BY DEF Lock, Mine, Of, Types, TableTypes
<1>2. [equipment[u] EXCEPT !.lock = ~@] \in Row
  BY <1>1 DEF Row
<1>3. equipment' \in [Used -> Row] /\ Used' = Used
  BY <1>1, <1>2 DEF Lock, Types, TableTypes, Used
<1>4. TableTypes'
  BY <1>3, EquipAssumption DEF EquipAssumption, Types, Lock, Request, TableTypes
<1>5. JobTypes' /\ OnlyJob(c) /\ (Holding(c)' <=> Holding(c))
  BY DEF Types, Lock, job, JobTypes, OnlyJob, Holding
<1> QED
  BY <1>3, <1>4, <1>5, OthersHold DEF Types

\* A handler that is over holds nothing.
LEMMA TypesReturn ==
    ASSUME Types, NEW c \in Conn, Return(c)
    PROVE  JobTypes' /\ OnlyJob(c) /\ Holding(c)'
<1>1. JobTypes'
  BY NoEntries DEF Types, Return, Goto, JobTypes, Stage
<1>2. OnlyJob(c)
  BY DEF Types, Return, Goto, OnlyJob, JobTypes
<1>3. pc'[c] = "idle" /\ food'[c] = {}
  BY DEF Types, Return, Goto, JobTypes
<1>4. Holding(c)'
  BY <1>3, FS_EmptySet DEF Holding, Granting, Eating
<1> QED
  BY <1>1, <1>2, <1>4

LEMMA TypesFindStack ==
    ASSUME Types, NEW c \in Conn, FindStack(c)
    PROVE  Types'
<1> DEFINE stacks == {u \in Mine(c) : equipment[u].kind = kind[c]}
<1>1. /\ pc[c] = "find" /\ UNCHANGED <<equipment, op, kind, todo, target, picks, food, received, left, strange, requests>>
      /\ \/ stacks = {} /\ Goto(c, "takeUid") /\ UNCHANGED uid
         \/ stacks # {} /\ Goto(c, "stack") /\ uid' = [uid EXCEPT ![c] = Min(stacks)]
  BY DEF FindStack
<1>2. stacks # {} => Min(stacks) \in Uid
  <2>1. stacks \subseteq Uid /\ stacks \subseteq Nat
    BY DEF Mine, Of, Types, TableTypes, Uid
  <2> QED
    BY <2>1, MinIsLeast
<1> HIDE DEF stacks
<1>3. TableTypes' /\ Used' = Used
  BY <1>1 DEF Types, TableTypes, Used
<1>4. JobTypes'
  BY <1>1, <1>2 DEF Types, Goto, JobTypes, Stage
<1>5. OnlyJob(c)
  BY <1>1 DEF Types, Goto, OnlyJob, JobTypes
<1>6. Holding(c)'
  <2>1. /\ pc'[c] \in {"takeUid", "stack"} /\ (pc'[c] = "stack" => uid'[c] \in Uid)
        /\ kind'[c] = kind[c] /\ todo'[c] = todo[c] /\ food'[c] = food[c]
    BY <1>1, <1>2 DEF Types, Goto, JobTypes
  <2> QED
    BY <1>1, <2>1 DEF Types, Holding, Granting, Eating
<1> QED
  BY <1>3, <1>4, <1>5, <1>6, OthersHold DEF Types

LEMMA TypesAddToStack ==
    ASSUME Types, NEW c \in Conn, AddToStack(c)
    PROVE  Types'
<1>1. /\ uid[c] \in Used /\ equipment[uid[c]] \in Row /\ todo[c] \in Int
      /\ PlayerOf[c] \in Player
  BY EquipAssumption DEF EquipAssumption, AddToStack, Mine, Of, Types, TableTypes, JobTypes
<1>2. [equipment[uid[c]] EXCEPT !.count = @ + todo[c]] \in Row
  BY <1>1 DEF Row
<1>3. equipment' \in [Used -> Row] /\ Used' = Used
  BY <1>1, <1>2 DEF AddToStack, Types, TableTypes, Used
<1>4. received' \in [Player -> Int]
  BY <1>1 DEF AddToStack, Types, TableTypes
<1>5. TableTypes'
  BY <1>3, <1>4 DEF Types, AddToStack, TableTypes
<1> QED
  BY <1>3, <1>5, TypesReturn, OthersHold DEF Types, AddToStack

LEMMA TypesTakeUid ==
    ASSUME Types, NEW c \in Conn, TakeUid(c)
    PROVE  Types'
<1> DEFINE next == IF Mine(c) = {} THEN First ELSE Max(Mine(c)) + 1
<1>0. CASE ~(todo[c] > 0 \/ kind[c] \in Material)
  <2>1. Return(c) /\ UNCHANGED <<equipment, received, left, strange, requests>>
    BY <1>0 DEF TakeUid
  <2>2. TableTypes' /\ Used' = Used
    BY <2>1 DEF Types, TableTypes, Used
  <2> QED
    BY <2>1, <2>2, TypesReturn, OthersHold DEF Types
<1> SUFFICES ASSUME todo[c] > 0 \/ kind[c] \in Material PROVE Types'
  BY <1>0
<1>1. /\ pc[c] = "takeUid"
      /\ UNCHANGED <<equipment, op, kind, todo, target, picks, food, received, left, strange, requests>>
      /\ Goto(c, "insert") /\ uid' = [uid EXCEPT ![c] = next]
  BY DEF TakeUid
<1>2. next \in Uid
  <2>0. Mine(c) \subseteq Used /\ Used \subseteq Uid /\ IsFiniteSet(Used)
    BY DEF Mine, Of, Types, TableTypes
  <2>1. IsFiniteSet(Mine(c)) /\ Mine(c) \subseteq Uid /\ Mine(c) \subseteq Int
    <3>1. IsFiniteSet(Mine(c))
      BY <2>0, FS_Subset
    <3>2. Uid \subseteq Int
      BY DEF Uid
    <3> QED
      BY <2>0, <3>1, <3>2
  <2>2. Mine(c) # {} => Max(Mine(c)) \in Uid
    BY <2>1, MaxIsGreatest
  <2> QED
    BY <2>2 DEF Uid, First
<1> HIDE DEF next
<1>3. TableTypes' /\ Used' = Used
  BY <1>1 DEF Types, TableTypes, Used
<1>4. JobTypes'
  BY <1>1, <1>2 DEF Types, Goto, JobTypes, Stage
<1>5. OnlyJob(c)
  BY <1>1 DEF Types, Goto, OnlyJob, JobTypes
<1>6. Holding(c)'
  <2>1. /\ pc'[c] = "insert" /\ uid'[c] \in Uid
        /\ kind'[c] = kind[c] /\ food'[c] = food[c]
    BY <1>1, <1>2 DEF Types, Goto, JobTypes
  <2> QED
    BY <1>1, <2>1 DEF Types, Holding, Granting, Eating
<1> QED
  BY <1>3, <1>4, <1>5, <1>6, OthersHold DEF Types

LEMMA TypesInsertEquip ==
    ASSUME Types, NEW c \in Conn, InsertEquip(c)
    PROVE  Types'
<1>1. /\ pc[c] = "insert" /\ uid[c] \in Uid /\ kind[c] \in Kind /\ todo[c] \in Int
      /\ PlayerOf[c] \in Player
  BY EquipAssumption DEF EquipAssumption, InsertEquip, Types, Holding, Granting, JobTypes
<1>2. Lot(c) \in Int /\ (todo[c] # Lot(c) => Lot(c) = 1)
  BY <1>1 DEF Lot
<1>3. NewRow(c, Lot(c)) \in Row
  BY <1>1, <1>2, EquipAssumption DEF EquipAssumption, NewRow, Row
<1>4. Used' = Used \cup {uid[c]} /\ equipment' \in [Used' -> Row]
  <2>1. equipment' = [u \in Used \cup {uid[c]} |->
                        IF u = uid[c] THEN NewRow(c, Lot(c)) ELSE equipment[u]]
    BY DEF InsertEquip, Insert
  <2> QED
    BY <1>3, <2>1 DEF Used, Types, TableTypes
<1>5. received' \in [Player -> Int]
  BY <1>1, <1>2 DEF InsertEquip, Insert, Types, TableTypes
<1>6. TableTypes' /\ IsFiniteSet(Used')
  BY <1>1, <1>4, <1>5, FS_AddElement DEF InsertEquip, Insert, Types, TableTypes
<1>7. CASE todo[c] = Lot(c)
  <2>1. Return(c)
    BY <1>7 DEF InsertEquip, Insert
  <2> QED
    BY <2>1, <1>6, TypesReturn, OthersHold DEF Types
<1>8. CASE todo[c] # Lot(c)
  <2>1. /\ todo' = [todo EXCEPT ![c] = @ - 1] /\ uid' = [uid EXCEPT ![c] = @ + 1]
        /\ UNCHANGED <<pc, op, kind, target, picks, food>>
    BY <1>8, <1>2 DEF InsertEquip, Insert
  <2>2. todo[c] - 1 \in Int /\ uid[c] + 1 \in Uid
    BY <1>1, <1>2, <1>8 DEF Uid
  <2>3. JobTypes' /\ OnlyJob(c)
    BY <2>1, <2>2 DEF Types, JobTypes, OnlyJob
  <2>4. pc'[c] = pc[c] /\ uid'[c] \in Uid /\ kind'[c] = kind[c] /\ food'[c] = food[c]
    BY <2>1, <2>2 DEF Types, JobTypes
  <2>5. Holding(c)'
    BY <1>1, <2>4 DEF Types, Holding, Granting, Eating
  <2> QED
    BY <1>6, <2>3, <2>5, OthersHold DEF Types
<1> QED
  BY <1>7, <1>8

LEMMA TypesReadTarget ==
    ASSUME Types, NEW c \in Conn, ReadTarget(c)
    PROVE  Types'
<1>1. /\ pc[c] = "target" /\ uid[c] \in Used /\ equipment[uid[c]] \in Row /\ uid[c] \in Uid
      /\ op[c] \in {"strengthen", "refine", "break"} /\ food[c] = {}
  BY DEF ReadTarget, Mine, Of, Types, Holding, TableTypes, Eating
<1>2. TableTypes' /\ Used' = Used
  BY DEF ReadTarget, Types, TableTypes, Used
<1>3. JobTypes'
  BY <1>1 DEF ReadTarget, Types, Goto, JobTypes, Stage
<1>4. OnlyJob(c)
  BY DEF ReadTarget, Types, Goto, OnlyJob, JobTypes
<1>5. Holding(c)'
  <2>1. /\ pc'[c] = IF op[c] = "break" THEN "break" ELSE "food"
        /\ uid'[c] = uid[c] /\ op'[c] = op[c] /\ food'[c] = {} /\ target'[c] \in Row
    BY <1>1 DEF ReadTarget, Types, Goto, JobTypes
  <2> QED
    BY <1>1, <2>1, FS_EmptySet DEF Holding, Granting, Eating
<1> QED
  BY <1>2, <1>3, <1>4, <1>5, OthersHold DEF Types

\* What is found good: numbers of the row that is there now.
LEMMA FoodFound ==
    ASSUME Types, NEW c \in Conn, NEW u, NEW take \in Int, NEW place \in Nat, Good(c, u, take)
    PROVE  /\ u \in Mine(c) /\ u \in Used /\ equipment[u] \in Row
           /\ FoodFrom(u, take, place) \in Food
<1>1. u \in Mine(c) /\ u \in Used /\ u \in Uid /\ equipment[u] \in Row
  BY DEF Good, Mine, Of, Types, TableTypes
<1>2. Gain(equipment[u]) * take \in Int
  <2>1. Gain(equipment[u]) \in Int
    BY <1>1, RowNumbers
  <2>2. \A m, n \in Int : m * n \in Int
    OBVIOUS
  <2> QED
    BY <2>1, <2>2
<1>3. equipment[u].kind \in Kind /\ equipment[u].count - take \in Int
  BY <1>1 DEF Row
<1>4. FoodFrom(u, take, place) \in Food
  BY <1>1, <1>2, <1>3 DEF FoodFrom, Food
<1> QED
  BY <1>1, <1>4

\* The entry c comes to.
LEMMA NextEntry ==
    ASSUME Types, NEW c \in Conn, picks[c] # << >>
    PROVE  /\ Head(picks[c]).uid \in Uid /\ Head(picks[c]).take \in Int
           /\ Len(picks[c]) \in Nat /\ Tail(picks[c]) \in EntryLists
<1>1. picks[c] \in Seq(Entry)
  BY DEF Types, JobTypes, EntryLists
<1>2. Head(picks[c]) \in Entry /\ Tail(picks[c]) \in EntryLists /\ Len(picks[c]) \in Nat
  BY <1>1 DEF EntryLists
<1>3. \A e \in Entry : e.uid \in Uid /\ e.take \in Int
  <2>1. Takes \cup {1} \subseteq Int
    BY EquipAssumption DEF EquipAssumption
  <2> QED
    BY <2>1 DEF Entry
<1> QED
  BY <1>2, <1>3

LEMMA TypesReadFood ==
    ASSUME Types, NEW c \in Conn, ReadFood(c)
    PROVE  Types'
<1>1. /\ pc[c] = "food" /\ uid[c] \in Uid /\ target[c] \in Row /\ op[c] \in {"strengthen", "refine"}
      /\ UNCHANGED <<equipment, op, kind, todo, uid, target, received, left, strange, requests>>
  BY DEF ReadFood, Types, Holding, Eating
<1>2. TableTypes' /\ Used' = Used
  BY <1>1 DEF Types, TableTypes, Used
<1>3. /\ pc' \in [Conn -> Stage] /\ pc'[c] \in {"food", "write"}
      /\ picks' \in [Conn -> EntryLists]
      /\ \A d \in Conn \ {c} : pc'[d] = pc[d] /\ picks'[d] = picks[d]
  <2>1. pc \in [Conn -> Stage] /\ picks \in [Conn -> EntryLists]
    BY DEF Types, JobTypes
  <2>2. CASE picks[c] = << >>
    <3>1. pc' = [pc EXCEPT ![c] = "write"] /\ picks' = picks
      BY <2>2 DEF ReadFood, Goto
    <3> QED
      BY <2>1, <3>1 DEF Stage
  <2>3. CASE picks[c] # << >>
    <3>1. pc' = pc /\ picks' = [picks EXCEPT ![c] = Tail(@)]
      BY <2>3 DEF ReadFood
    <3>2. Tail(picks[c]) \in EntryLists
      BY <2>3, NextEntry
    <3> QED
      BY <1>1, <2>1, <3>1, <3>2
  <2> QED
    BY <2>2, <2>3
<1>4. /\ DOMAIN food' = Conn /\ \A d \in Conn \ {c} : food'[d] = food[d]
      /\ \/ food'[c] = food[c]
         \/ \E f \in Food : food'[c] = food[c] \cup {f}
  <2>1. CASE picks[c] = << >>
    BY <2>1 DEF ReadFood, Types, JobTypes
  <2>2. CASE picks[c] # << >>
    <3> DEFINE u == Head(picks[c]).uid
               take == Head(picks[c]).take
               f == FoodFrom(u, take, Len(picks[c]))
    <3>1. food' = [food EXCEPT ![c] = IF Good(c, u, take) THEN @ \cup {f} ELSE @]
      BY <2>2 DEF ReadFood
    <3>2. Good(c, u, take) => f \in Food
      BY <2>2, NextEntry, FoodFound
    <3> HIDE DEF u, take, f
    <3> QED
      BY <3>1, <3>2 DEF Types, JobTypes
  <2> QED
    BY <2>1, <2>2
<1>5. JobTypes'
  BY <1>1, <1>3, <1>4 DEF Types, JobTypes
<1>6. OnlyJob(c)
  BY <1>1, <1>3, <1>4 DEF OnlyJob
<1>7. IsFiniteSet(food'[c])
  <2>1. IsFiniteSet(food[c])
    BY DEF Types, Holding
  <2>2. \A f : IsFiniteSet(food[c] \cup {f})
    BY <2>1, FS_AddElement
  <2> QED
    BY <1>4, <2>1, <2>2
<1>8. Holding(c)'
  BY <1>1, <1>3, <1>7 DEF Holding, Granting, Eating
<1> QED
  BY <1>2, <1>5, <1>6, <1>8, OthersHold DEF Types

\* What is eaten gives a number.
LEMMA ExpIsInt ==
    ASSUME Types, NEW c \in Conn
    PROVE  TotalExp(c) \in Int /\ Pieces(c) \in Nat
<1> DEFINE w == [f \in food[c] |-> f.gain]
<1>1. IsFiniteSet(food[c]) /\ \A f \in food[c] : w[f] \in Int
  BY DEF Types, Holding, JobTypes, Food
<1> HIDE DEF w
<1>2. SumFunctionOnSet(w, food[c]) \in Int
  BY <1>1, SumFacts
<1> QED
  BY <1>1, <1>2, FS_CardinalityType DEF w, TotalExp, Pieces

LEMMA TypesWriteTarget ==
    ASSUME Types, NEW c \in Conn, WriteTarget(c)
    PROVE  Types'
<1> DEFINE exp == target[c].exp + TotalExp(c)
           raised == target[c].raised \/ exp > 0
<1>1. /\ pc[c] = "write" /\ uid[c] \in Uid /\ target[c] \in Row /\ op[c] \in {"strengthen", "refine"}
      /\ UNCHANGED <<received, left, strange, requests>>
  BY DEF WriteTarget, Types, Holding, Eating
<1>2. CASE op[c] = "strengthen" /\ TotalExp(c) = 0
  <2>1. Return(c) /\ UNCHANGED equipment
    BY <1>2 DEF WriteTarget
  <2>2. TableTypes' /\ Used' = Used
    BY <1>1, <2>1 DEF Types, TableTypes, Used
  <2> QED
    BY <2>1, <2>2, TypesReturn, OthersHold DEF Types
<1>3. CASE ~(op[c] = "strengthen" /\ TotalExp(c) = 0)
  <2>1. /\ Goto(c, "eat") /\ UNCHANGED job
        /\ equipment' = IF uid[c] \notin Mine(c) THEN equipment
                 ELSE IF op[c] = "strengthen"
                 THEN [equipment EXCEPT ![uid[c]].exp = exp, ![uid[c]].raised = raised]
                 ELSE [equipment EXCEPT ![uid[c]].refine = Min({target[c].refine + Pieces(c), MaxRefine})]
    BY <1>3 DEF WriteTarget
  <2>2. exp \in Int /\ raised \in BOOLEAN
    <3>1. target[c].exp \in Int /\ target[c].raised \in BOOLEAN /\ TotalExp(c) \in Int
      BY <1>1, ExpIsInt DEF Row
    <3>2. \A b \in BOOLEAN, n \in Int : (b \/ n > 0) \in BOOLEAN
      OBVIOUS
    <3> QED
      BY <3>1, <3>2
  <2> HIDE DEF exp, raised
  <2>3. Min({target[c].refine + Pieces(c), MaxRefine}) \in 1..MaxRefine
    <3> DEFINE S == {target[c].refine + Pieces(c), MaxRefine}
    <3>1. target[c].refine \in 1..MaxRefine /\ Pieces(c) \in Nat /\ MaxRefine \in Nat
      BY <1>1, ExpIsInt, EquipAssumption DEF EquipAssumption, Row
    <3>2. S \subseteq Nat \ {0}
      BY <3>1
    <3>3. Min(S) \in S /\ Min(S) <= MaxRefine
      <4>1. S \subseteq Nat /\ S # {} /\ MaxRefine \in S
        BY <3>1
      <4> HIDE DEF S
      <4> QED
        BY <4>1, MinIsLeast
    <3> HIDE DEF S
    <3>4. \A m \in S : m <= MaxRefine => m \in 1..MaxRefine
      BY <3>1, <3>2
    <3>5. Min(S) \in 1..MaxRefine
      BY <3>3, <3>4
    <3> QED
      BY <3>5 DEF S
  <2>4. equipment' \in [Used -> Row] /\ Used' = Used
    <3>1. CASE uid[c] \notin Mine(c)
      BY <2>1, <3>1 DEF Types, TableTypes, Used
    <3>2. CASE uid[c] \in Mine(c)
      <4>1. uid[c] \in Used /\ equipment[uid[c]] \in Row
        BY <3>2 DEF Mine, Of, Types, TableTypes
      <4>2. /\ [equipment[uid[c]] EXCEPT !.exp = exp, !.raised = raised] \in Row
            /\ [equipment[uid[c]] EXCEPT !.refine = Min({target[c].refine + Pieces(c), MaxRefine})] \in Row
        BY <4>1, <2>2, <2>3 DEF Row
      <4> QED
        BY <2>1, <3>2, <4>1, <4>2 DEF Types, TableTypes, Used
    <3> QED
      BY <3>1, <3>2
  <2>5. TableTypes'
    BY <1>1, <2>4 DEF Types, TableTypes
  <2>6. JobTypes' /\ OnlyJob(c)
    BY <2>1 DEF Types, Goto, job, JobTypes, OnlyJob, Stage
  <2>7. pc'[c] = "eat" /\ UNCHANGED job
    BY <2>1 DEF Types, Goto, JobTypes
  <2>8. Holding(c)'
    BY <1>1, <2>7 DEF Types, job, Holding, Granting, Eating
  <2> QED
    BY <2>4, <2>5, <2>6, <2>8, OthersHold DEF Types
<1> QED
  BY <1>2, <1>3

LEMMA TypesEat ==
    ASSUME Types, NEW c \in Conn, Eat(c)
    PROVE  Types'
<1>1. /\ pc[c] = "eat" /\ uid[c] \in Uid /\ target[c] \in Row /\ op[c] \in {"strengthen", "refine"}
      /\ UNCHANGED <<received, left, strange, requests>>
  BY DEF Eat, Types, Holding, Eating
<1>2. CASE food[c] = {}
  <2>1. Return(c) /\ UNCHANGED equipment
    BY <1>2 DEF Eat
  <2>2. TableTypes' /\ Used' = Used
    BY <1>1, <2>1 DEF Types, TableTypes, Used
  <2> QED
    BY <2>1, <2>2, TypesReturn, OthersHold DEF Types
<1>3. CASE food[c] # {}
  <2>1. PICK f \in food[c] : /\ equipment' = EatRow(c, f)
                             /\ food' = [food EXCEPT ![c] = @ \ {f}]
                             /\ UNCHANGED <<pc, op, kind, todo, uid, target, picks>>
    BY <1>3 DEF Eat
  <2>2. equipment' \in [Used' -> Row] /\ Used' \subseteq Used
    <3>1. CASE f.uid \notin Mine(c)
      BY <2>1, <3>1 DEF EatRow, Types, TableTypes, Used
    <3>2. CASE f.uid \in Mine(c) /\ op[c] = "strengthen" /\ (f.left > 0 \/ f.kind \in Material)
      <4>1. f.uid \in Used /\ equipment[f.uid] \in Row /\ f.left \in Int
        BY <3>2 DEF Mine, Of, Types, TableTypes, JobTypes, Food
      <4>2. [equipment[f.uid] EXCEPT !.count = f.left] \in Row
        BY <4>1 DEF Row
      <4> QED
        BY <2>1, <3>2, <4>1, <4>2 DEF EatRow, Types, TableTypes, Used
    <3>3. CASE f.uid \in Mine(c) /\ ~(op[c] = "strengthen" /\ (f.left > 0 \/ f.kind \in Material))
      <4>1. equipment' = [u \in Used \ {f.uid} |-> equipment[u]]
        BY <2>1, <3>3 DEF EatRow
      <4> QED
        BY <4>1 DEF Types, TableTypes, Used
    <3> QED
      BY <3>1, <3>2, <3>3
  <2>3. TableTypes' /\ IsFiniteSet(Used')
    BY <1>1, <2>2, FS_Subset DEF Types, TableTypes
  <2>4. JobTypes' /\ OnlyJob(c)
    BY <2>1 DEF Types, JobTypes, OnlyJob
  <2>5. food'[c] = food[c] \ {f} /\ IsFiniteSet(food'[c])
    BY <2>1, FS_RemoveElement DEF Types, JobTypes, Holding
  <2>6. Holding(c)'
    BY <1>1, <2>1, <2>5 DEF Types, Holding, Granting, Eating
  <2> QED
    BY <2>3, <2>4, <2>6, OthersHold DEF Types
<1> QED
  BY <1>2, <1>3

LEMMA TypesEnd ==
    ASSUME Types, NEW c \in Conn, SetBreak(c) \/ Fail(c)
    PROVE  Types'
<1>1. Return(c) /\ UNCHANGED <<equipment, received, strange, requests>>
  BY DEF SetBreak, Fail
<1>2. left' \in [Player -> Int]
  <2>1. Owed(c) \in Int /\ PlayerOf[c] \in Player
    BY ExpIsInt, EquipAssumption DEF EquipAssumption, Owed
  <2> QED
    BY <2>1 DEF SetBreak, Fail, Types, TableTypes
<1>3. TableTypes' /\ Used' = Used
  BY <1>1, <1>2 DEF Types, TableTypes, Used
<1> QED
  BY <1>1, <1>3, TypesReturn, OthersHold DEF Types

LEMMA OwedIsInt == ASSUME Types, NEW p PROVE OwedBy(p) \in Int
<1> DEFINE w == [c \in Conn |-> Owed(c)]
           S == {c \in Conn : PlayerOf[c] = p}
<1>1. IsFiniteSet(S)
  BY FS_Subset, EquipAssumption DEF EquipAssumption
<1>2. \A c \in S : w[c] \in Int
  BY ExpIsInt DEF Owed
<1> HIDE DEF w, S
<1>3. SumFunctionOnSet(w, S) \in Int
  BY <1>1, <1>2, SumFacts
<1> QED
  BY <1>3 DEF w, S, OwedBy

LEMMA TypesCrash == ASSUME Types, Crash PROVE Types'
<1>1. left' \in [Player -> Int]
  BY OwedIsInt DEF Crash, Types, TableTypes
<1>2. TableTypes' /\ Used' = Used
  BY <1>1 DEF Crash, Types, TableTypes, Used
<1>3. JobTypes'
  BY NoEntries DEF Crash, JobTypes, Stage
<1>4. ASSUME NEW c \in Conn PROVE Holding(c)'
  BY FS_EmptySet DEF Crash, Holding, Granting, Eating
<1> QED
  BY <1>2, <1>3, <1>4 DEF Types

LEMMA TypesKept == ASSUME Types, [Next]_vars PROVE Types'
<1>1. ASSUME NEW c \in Conn, Requests(c) PROVE Types'
  <2>1. ASSUME NEW u \in Mine(c), NEW what \in {"strengthen", "refine"},
               NEW takes \in {Takes, {1}}, NEW list \in Lists(takes), Feed(c, what, u, list)
        PROVE  Types'
    BY <2>1, TypesFeed DEF Mine, Of
  <2>2. ASSUME NEW u \in Mine(c), Break(c, u) PROVE Types'
    BY <2>2, TypesBreak DEF Mine, Of
  <2> QED
    BY <1>1, <2>1, <2>2, TypesGrant, TypesLock DEF Requests
<1>2. ASSUME NEW c \in Conn, Step(c) PROVE Types'
  BY <1>2, TypesFindStack, TypesAddToStack, TypesTakeUid, TypesInsertEquip, TypesReadTarget,
     TypesReadFood, TypesWriteTarget, TypesEat, TypesEnd DEF Step
<1>3. CASE UNCHANGED vars
  BY <1>3 DEF vars, job, Types, TableTypes, JobTypes, Holding, Used
<1> QED
  BY <1>1, <1>2, <1>3, TypesCrash DEF Next

\* Rows, handlers and histories keep their types, for any number of connections,
\* whatever uids are freed and taken again, and whatever rows and numbers clients name.
THEOREM TypeCorrect == Spec => []TypeOK
<1>1. Spec => []Types
  BY TypesStart, TypesKept, PTL DEF Spec
<1> QED
  BY <1>1, TypesMean, PTL

-----------------------------------------------------------------------------
(* What a player's pieces are worth, with one connection.                  *)

\* The numbers in a row of a material, and of a piece.
PlainRow(row) ==
    IF row.kind \in Material THEN row.exp = 0 /\ row.refine = 1
    ELSE row.count = 1 /\ row.exp \in Nat /\ (row.raised => row.exp > 0)

\* What c has found good to eat is still there, as it was found.
StillGood(c, f) ==
    /\ f.uid \in Mine(c) \ {uid[c]}
    /\ f.kind = equipment[f.uid].kind /\ f.left = equipment[f.uid].count - f.take
    /\ f.gain = Gain(equipment[f.uid]) * f.take
    /\ f.take > 0
    /\ equipment[f.uid].kind \notin Material => f.take = 1
    /\ op[c] = "refine" => equipment[f.uid].kind \notin Material

\* The list of a proper request, and what is left of it.
ProperList(list, what) ==
    /\ \A i \in DOMAIN list : list[i].take > 0 /\ (what = "refine" => list[i].take = 1)
    /\ \A i, j \in DOMAIN list : list[i].uid = list[j].uid => i = j

\* The rows of a player, and what its only connection c holds.
InHand(c) ==
    /\ \A u \in Mine(c) : PlainRow(equipment[u])
    /\ pc[c] \in {"target", "food", "write"} /\ op[c] # "break" =>
          uid[c] \in Mine(c) /\ equipment[uid[c]].kind \notin Material
    /\ pc[c] \in {"food", "write"} => equipment[uid[c]] = target[c]
    /\ pc[c] \in {"target", "food"} /\ op[c] # "break" => ProperList(picks[c], op[c])
    /\ pc[c] \in {"find", "stack"} => kind[c] \in Material
    /\ \A f \in food[c] : StillGood(c, f)
    /\ pc[c] = "food" => \A f \in food[c] : \A i \in DOMAIN picks[c] : picks[c][i].uid # f.uid
    /\ \A f, g \in food[c] : f.uid = g.uid => f = g

Balance(c) ==
    Wealth(PlayerOf[c]) <= received[PlayerOf[c]] + left[PlayerOf[c]] + Owed(c)

Sound(c) == InHand(c) /\ Balance(c)

\* What the rows of p in table E are worth.
RowsOf(E, p) == {u \in DOMAIN E : E[u].player = p}
Value(E, p) == SumFunctionOnSet([u \in DOMAIN E |-> Worth(E[u])], RowsOf(E, p))

Table(E) == IsFiniteSet(DOMAIN E) /\ E \in [DOMAIN E -> Row]

LEMMA WealthIsValue ==
    /\ \A p : Wealth(p) = Value(equipment, p) /\ Of(p) = RowsOf(equipment, p)
    /\ \A p : Wealth(p)' = Value(equipment', p) /\ Of(p)' = RowsOf(equipment', p)
    /\ Types => Table(equipment)
    /\ Types' => Table(equipment')
  BY DEF Wealth, Value, RowsOf, Of, Used, Types, TableTypes, Table

LEMMA ValueSame ==
    ASSUME NEW E, Table(E), NEW G, NEW p, RowsOf(G, p) = RowsOf(E, p),
           \A u \in RowsOf(E, p) : G[u] = E[u]
    PROVE  Value(G, p) = Value(E, p) /\ Value(E, p) \in Int
<1> DEFINE v == [u \in DOMAIN E |-> Worth(E[u])]
           w == [u \in DOMAIN G |-> Worth(G[u])]
           S == RowsOf(E, p)
<1>1. IsFiniteSet(S)
  BY FS_Subset DEF Table, RowsOf
<1>2. \A u \in S : v[u] = w[u] /\ v[u] \in Int
  BY RowNumbers DEF RowsOf, Table
<1> HIDE DEF v, w, S
<1>3. SumFunctionOnSet(w, S) = SumFunctionOnSet(v, S)
  BY <1>1, <1>2, SumSame
<1>4. SumFunctionOnSet(v, S) \in Int
  BY <1>1, <1>2, SumFacts
<1> QED
  BY <1>3, <1>4 DEF v, w, S, Value

LEMMA ValueWritten ==
    ASSUME NEW E, Table(E), NEW G, Table(G), NEW p, RowsOf(G, p) = RowsOf(E, p),
           NEW u \in RowsOf(E, p), \A x \in RowsOf(E, p) \ {u} : G[x] = E[x]
    PROVE  /\ Value(G, p) = Value(E, p) - Worth(E[u]) + Worth(G[u])
           /\ Value(E, p) \in Int /\ Worth(E[u]) \in Int /\ Worth(G[u]) \in Int
<1> DEFINE v == [x \in DOMAIN E |-> Worth(E[x])]
           w == [x \in DOMAIN G |-> Worth(G[x])]
           S == RowsOf(E, p)
<1>1. IsFiniteSet(S)
  BY FS_Subset DEF Table, RowsOf
<1>2. \A x \in S : w[x] = Worth(G[x]) /\ v[x] = Worth(E[x]) /\ v[x] \in Int /\ w[x] \in Int
  BY RowNumbers DEF RowsOf, Table
<1>3. \A x \in S \ {u} : w[x] = v[x]
  BY <1>2
<1>4. u \in S
  OBVIOUS
<1> HIDE DEF v, w, S
<1>5. SumFunctionOnSet(w, S) = SumFunctionOnSet(v, S) - v[u] + w[u] /\ SumFunctionOnSet(v, S) \in Int
  BY <1>1, <1>2, <1>3, <1>4, SumChange
<1>6. Value(G, p) = SumFunctionOnSet(w, S) /\ Value(E, p) = SumFunctionOnSet(v, S)
  BY DEF v, w, S, Value
<1> QED
  BY <1>2, <1>4, <1>5, <1>6

LEMMA ValueAdded ==
    ASSUME NEW E, Table(E), NEW G, Table(G), NEW p, NEW u, u \notin RowsOf(E, p),
           RowsOf(G, p) = RowsOf(E, p) \cup {u}, \A x \in RowsOf(E, p) : G[x] = E[x]
    PROVE  /\ Value(G, p) = Value(E, p) + Worth(G[u])
           /\ Value(E, p) \in Int /\ Worth(G[u]) \in Int
<1> DEFINE v == [x \in DOMAIN E |-> Worth(E[x])]
           w == [x \in DOMAIN G |-> Worth(G[x])]
           S == RowsOf(E, p)
<1>1. IsFiniteSet(S)
  BY FS_Subset DEF Table, RowsOf
<1>2. \A x \in S \cup {u} : w[x] = Worth(G[x]) /\ w[x] \in Int
  BY RowNumbers DEF RowsOf, Table
<1>3. \A x \in S : v[x] = w[x]
  BY <1>2 DEF RowsOf
<1>4. u \notin S
  OBVIOUS
<1> HIDE DEF v, w, S
<1>5. SumFunctionOnSet(w, S \cup {u}) = SumFunctionOnSet(w, S) + w[u] /\ SumFunctionOnSet(w, S) \in Int
  <2>1. \A x \in S \cup {u} : w[x] \in Int
    BY <1>2
  <2> QED
    BY <1>1, <1>4, <2>1, SumInsert
<1>6. SumFunctionOnSet(w, S) = SumFunctionOnSet(v, S)
  BY <1>1, <1>3, SumSame
<1>7. Value(G, p) = SumFunctionOnSet(w, S \cup {u}) /\ Value(E, p) = SumFunctionOnSet(v, S)
  BY DEF v, w, S, Value
<1> QED
  BY <1>2, <1>5, <1>6, <1>7

-----------------------------------------------------------------------------
LEMMA TypesShape == Types => Shape
  BY EquipAssumption DEF EquipAssumption, Types, TableTypes, JobTypes, Holding, Shape, Row, Fields

\* The player of c and its rows are left alone, and c is where it was.
Undisturbed(c) ==
    /\ Mine(c)' = Mine(c) /\ \A u \in Mine(c) : equipment'[u] = equipment[u]
    /\ pc'[c] = pc[c] /\ op'[c] = op[c] /\ kind'[c] = kind[c] /\ uid'[c] = uid[c]
    /\ target'[c] = target[c] /\ picks'[c] = picks[c] /\ food'[c] = food[c]
    /\ received'[PlayerOf[c]] = received[PlayerOf[c]] /\ left'[PlayerOf[c]] = left[PlayerOf[c]]

LEMMA OtherStep ==
    ASSUME Types, NEW c \in Conn, NEW d \in Conn, PlayerOf[d] # PlayerOf[c], Requests(d) \/ Step(d)
    PROVE  Undisturbed(c)
<1>1. OnlyJob(d)
  BY TypesReturn
     DEF Types, JobTypes, OnlyJob, Goto, job, Requests, Grant, Feed, Break, Lock, Step, FindStack,
         AddToStack, TakeUid, InsertEquip, Insert, ReadTarget, ReadFood, WriteTarget, Eat, SetBreak, Fail
<1>2. /\ received'[PlayerOf[c]] = received[PlayerOf[c]]
      /\ left'[PlayerOf[c]] = left[PlayerOf[c]]
  BY EquipAssumption
     DEF EquipAssumption, Types, TableTypes, Requests, Grant, Feed, Break, Lock, Step, FindStack,
         AddToStack, TakeUid, InsertEquip, Insert, ReadTarget, ReadFood, WriteTarget, Eat, SetBreak, Fail
<1>3. Mine(c)' = Mine(c) /\ \A u \in Mine(c) : equipment'[u] = equipment[u]
  <2>1. CASE equipment' = equipment
    BY <2>1 DEF Mine, Of, Used
  <2>2. CASE equipment' # equipment
    <3>1. PICK u : Changes(d, u)
      BY <2>2, TypesShape, StepOfChanges
    <3>2. u \notin Mine(c) /\ u \notin Mine(c)'
      BY <3>1 DEF Changes, Mine, Of, Used
    <3>3. \A v : v # u => (v \in Used <=> v \in Used') /\ (v \in Used => equipment'[v] = equipment[v])
      BY <3>1 DEF Changes
    <3> QED
      BY <3>2, <3>3 DEF Mine, Of, Used
  <2> QED
    BY <2>1, <2>2
<1> QED
  BY <1>1, <1>2, <1>3 DEF OnlyJob, Undisturbed

-----------------------------------------------------------------------------
\* What is good to eat gives a number.
LEMMA FoodGives ==
    ASSUME Types
    PROVE  \A c \in Conn : Owed(c) \in Int /\ received[PlayerOf[c]] \in Int /\ left[PlayerOf[c]] \in Int
  BY ExpIsInt, EquipAssumption DEF EquipAssumption, Owed, Types, TableTypes

LEMMA FoodGivesNext ==
    ASSUME Types', NEW c \in Conn
    PROVE  Owed(c)' \in Int
<1> DEFINE S == food'[c]
           w == [f \in S |-> f.gain]
<1>1. IsFiniteSet(S) /\ \A f \in S : w[f] \in Int
  BY DEF Types, Holding, JobTypes, Food
<1>2. Owed(c)' = IF pc'[c] = "eat" THEN SumFunctionOnSet(w, S) ELSE 0
  BY DEF Owed, TotalExp
<1> HIDE DEF w, S
<1>3. SumFunctionOnSet(w, S) \in Int
  BY <1>1, SumFacts
<1> QED
  BY <1>2, <1>3

\* The only connection of a player owes all the player owes.
LEMMA OwedAlone ==
    ASSUME NEW c \in Conn, Alone(PlayerOf[c])
    PROVE  /\ Types => OwedBy(PlayerOf[c]) = Owed(c)
           /\ Types' => OwedBy(PlayerOf[c])' = Owed(c)'
<1> DEFINE w == [d \in Conn |-> Owed(d)]
           v == [d \in Conn |-> Owed(d)']
<1>1. {d \in Conn : PlayerOf[d] = PlayerOf[c]} = {c}
  BY OneConnection
<1>2. OwedBy(PlayerOf[c]) = SumFunctionOnSet(w, {c}) /\ OwedBy(PlayerOf[c])' = SumFunctionOnSet(v, {c})
  BY <1>1 DEF OwedBy
<1>3. w[c] = Owed(c) /\ v[c] = Owed(c)'
  OBVIOUS
<1>4. (Types => Owed(c) \in Int) /\ (Types' => Owed(c)' \in Int)
  BY FoodGives, FoodGivesNext
<1> HIDE DEF w, v
<1> QED
  BY <1>2, <1>3, <1>4, SumOne

\* The rows of c's player are as they were.
RowsRest(c) ==
    /\ Mine(c)' = Mine(c)
    /\ \A u \in Mine(c) : equipment'[u] = equipment[u]

LEMMA RowsRestIfTableDoes ==
    ASSUME NEW c \in Conn, equipment' = equipment
    PROVE  RowsRest(c)
  BY DEF RowsRest, Mine, Of, Used

LEMMA BalanceRests ==
    ASSUME Types, Types', NEW c \in Conn, Balance(c), RowsRest(c),
           received'[PlayerOf[c]] = received[PlayerOf[c]],
           left'[PlayerOf[c]] + Owed(c)' = left[PlayerOf[c]] + Owed(c)
    PROVE  Balance(c)'
<1> DEFINE p == PlayerOf[c]
<1>1. Table(equipment) /\ RowsOf(equipment', p) = RowsOf(equipment, p)
      /\ \A u \in RowsOf(equipment, p) : equipment'[u] = equipment[u]
  BY WealthIsValue DEF RowsRest, Mine
<1>2. Value(equipment', p) = Value(equipment, p)
  BY <1>1, ValueSame
<1>3. Wealth(p)' = Wealth(p)
  BY <1>2, WealthIsValue
<1>4. Wealth(p) <= received[p] + left[p] + Owed(c) /\ (Balance(c)' <=> Wealth(p)' <= received'[p] + left'[p] + Owed(c)')
  BY DEF Balance
<1>5. Wealth(p) \in Int
  BY <1>1, ValueSame, WealthIsValue
<1>6. /\ received[p] \in Int /\ left[p] \in Int /\ Owed(c) \in Int
      /\ left'[p] \in Int /\ Owed(c)' \in Int
  BY FoodGives, FoodGivesNext, EquipAssumption DEF EquipAssumption, Types, TableTypes
<1> QED
  BY <1>3, <1>4, <1>5, <1>6

\* A connection that is not feeding holds nothing.
LEMMA HandEmpty ==
    ASSUME NEW c \in Conn,
           pc'[c] \notin {"target", "food", "write"}, food'[c] = {},
           pc'[c] \in {"find", "stack"} => kind'[c] \in Material,
           \A u \in Mine(c)' : PlainRow(equipment'[u])
    PROVE  InHand(c)'
  BY DEF InHand

\* What c has when its player and its rows are left alone.
LEMMA SoundUndisturbed ==
    ASSUME Types, Types', NEW c \in Conn, Sound(c), Undisturbed(c)
    PROVE  Sound(c)'
<1>1. RowsRest(c)
  BY DEF Undisturbed, RowsRest
<1>2. Owed(c)' = Owed(c)
  BY DEF Undisturbed, Owed, TotalExp
<1>3. Balance(c)'
  BY <1>1, <1>2, BalanceRests DEF Undisturbed, Sound
<1>4. \A u \in Mine(c) : u \in Mine(c)' /\ equipment'[u] = equipment[u]
  BY DEF Undisturbed
<1>5. \A f \in food[c] : StillGood(c, f) => StillGood(c, f)'
  BY <1>4 DEF Undisturbed, StillGood
<1>6. /\ Mine(c)' = Mine(c) /\ pc'[c] = pc[c] /\ op'[c] = op[c] /\ kind'[c] = kind[c]
      /\ uid'[c] = uid[c] /\ target'[c] = target[c] /\ picks'[c] = picks[c] /\ food'[c] = food[c]
  BY DEF Undisturbed
<1>7. InHand(c)'
  <2>1. \A u \in Mine(c)' : PlainRow(equipment'[u])
    BY <1>4, <1>6 DEF Sound, InHand
  <2>2. \A f \in food'[c] : StillGood(c, f)'
    BY <1>5, <1>6 DEF Sound, InHand
  <2>3. uid[c] \in Mine(c) => equipment'[uid[c]] = equipment[uid[c]]
    BY <1>4
  <2>4. pc[c] \in {"food", "write"} => uid[c] \in Mine(c)
    BY DEF Sound, InHand, Types, Holding, Eating
  <2> QED
    BY <1>6, <2>1, <2>2, <2>3, <2>4 DEF Sound, InHand
<1> QED
  BY <1>3, <1>7 DEF Sound

-----------------------------------------------------------------------------
(* The steps of the only connection of a player.                           *)

\* A step that leaves the table alone, and with which nothing comes to be owed.
LEMMA SoundAtRest ==
    ASSUME Types, Types', NEW c \in Conn, Sound(c), InHand(c)', equipment' = equipment,
           received' = received, left' = left, Owed(c)' = Owed(c)
    PROVE  Sound(c)'
  BY RowsRestIfTableDoes, BalanceRests DEF Sound

LEMMA SoundGrant ==
    ASSUME Types, Types', NEW c \in Conn, Sound(c), NEW k \in Kind, NEW n \in Lots, Grant(c, k, n)
    PROVE  Sound(c)'
<1>1. /\ pc[c] = "idle" /\ food[c] = {}
      /\ UNCHANGED <<equipment, uid, target, picks, food, received, left>>
      /\ kind'[c] = k /\ pc'[c] = IF k \in Material THEN "find" ELSE "takeUid"
  BY DEF Grant, Request, Goto, Types, JobTypes, Holding, Eating, Sound, InHand
<1>2. \A u \in Mine(c)' : PlainRow(equipment'[u])
  BY <1>1 DEF Sound, InHand, Mine, Of, Used
<1>3. InHand(c)'
  BY <1>1, <1>2, HandEmpty
<1> QED
  BY <1>1, <1>3, SoundAtRest DEF Owed

LEMMA SoundFeed ==
    ASSUME Types, Types', NEW c \in Conn, Sound(c), NEW what \in {"strengthen", "refine"},
           NEW u \in Mine(c), NEW list, Proper(u, list), Feed(c, what, u, list),
           what = "refine" => \A i \in DOMAIN list : list[i].take = 1
    PROVE  Sound(c)'
<1>1. /\ pc[c] = "idle" /\ food[c] = {}
      /\ UNCHANGED <<equipment, target, food, received, left>>
      /\ pc'[c] = "target" /\ op'[c] = what /\ uid'[c] = u /\ picks'[c] = list
  BY DEF Feed, Request, Goto, Types, JobTypes, Holding, Eating, Sound, InHand
<1>2. Mine(c)' = Mine(c) /\ \A x \in Mine(c) : PlainRow(equipment[x])
  BY <1>1 DEF Sound, InHand, Mine, Of, Used
<1>3. InHand(c)'
  BY <1>1, <1>2 DEF InHand, Proper, ProperList
<1> QED
  BY <1>1, <1>3, SoundAtRest DEF Owed

LEMMA SoundBreak ==
    ASSUME Types, Types', NEW c \in Conn, Sound(c), NEW u, Break(c, u)
    PROVE  Sound(c)'
<1>1. /\ pc[c] = "idle" /\ food[c] = {}
      /\ UNCHANGED <<equipment, target, picks, food, received, left>>
      /\ pc'[c] = "target" /\ op'[c] = "break" /\ uid'[c] = u
  BY DEF Break, Request, Goto, Types, JobTypes, Holding, Eating, Sound, InHand
<1>2. Mine(c)' = Mine(c) /\ \A x \in Mine(c) : PlainRow(equipment[x])
  BY <1>1 DEF Sound, InHand, Mine, Of, Used
<1>3. InHand(c)'
  BY <1>1, <1>2 DEF InHand
<1> QED
  BY <1>1, <1>3, SoundAtRest DEF Owed

LEMMA SoundFindStack ==
    ASSUME Types, Types', NEW c \in Conn, Sound(c), FindStack(c)
    PROVE  Sound(c)'
<1>1. /\ pc[c] = "find" /\ food[c] = {} /\ kind[c] \in Material
      /\ UNCHANGED <<equipment, op, kind, picks, food, received, left>>
  BY DEF FindStack, Types, Holding, Eating, Sound, InHand
<1>2. pc'[c] \in {"takeUid", "stack"}
  BY DEF FindStack, Goto, Types, JobTypes
<1>3. \A u \in Mine(c)' : PlainRow(equipment'[u])
  BY <1>1 DEF Sound, InHand, Mine, Of, Used
<1>4. InHand(c)'
  BY <1>1, <1>2, <1>3, HandEmpty
<1> QED
  BY <1>1, <1>2, <1>4, SoundAtRest DEF Owed

\* The end of a handler that has left the table alone.
LEMMA SoundReturn ==
    ASSUME Types, Types', NEW c \in Conn, Sound(c), Return(c), equipment' = equipment,
           received' = received, left'[PlayerOf[c]] = left[PlayerOf[c]] + Owed(c)
    PROVE  Sound(c)'
<1>1. pc'[c] = "idle" /\ food'[c] = {}
  BY DEF Return, Goto, Types, JobTypes
<1>2. \A u \in Mine(c)' : PlainRow(equipment'[u])
  BY DEF Sound, InHand, Mine, Of, Used
<1>3. InHand(c)'
  BY <1>1, <1>2, HandEmpty
<1>4. Owed(c)' = 0
  BY <1>1 DEF Owed
<1>5. Balance(c)'
  <2>1. left'[PlayerOf[c]] + Owed(c)' = left[PlayerOf[c]] + Owed(c)
    BY <1>4, FoodGives
  <2> QED
    BY <2>1, RowsRestIfTableDoes, BalanceRests DEF Sound
<1> QED
  BY <1>3, <1>5 DEF Sound

LEMMA SoundTakeUid ==
    ASSUME Types, Types', NEW c \in Conn, Sound(c), TakeUid(c)
    PROVE  Sound(c)'
<1>1. /\ pc[c] = "takeUid" /\ food[c] = {}
      /\ UNCHANGED <<equipment, received, left>>
  BY DEF TakeUid, Types, Holding, Eating, Sound, InHand
<1>2. CASE Return(c)
  <2>1. left'[PlayerOf[c]] = left[PlayerOf[c]] + Owed(c)
    BY <1>1, FoodGives DEF Owed
  <2> QED
    BY <1>1, <1>2, <2>1, SoundReturn
<1>3. CASE Goto(c, "insert") /\ UNCHANGED <<op, kind, picks, food>>
  <2>1. pc'[c] = "insert"
    BY <1>3 DEF Goto, Types, JobTypes
  <2>2. \A u \in Mine(c)' : PlainRow(equipment'[u])
    BY <1>1 DEF Sound, InHand, Mine, Of, Used
  <2>3. InHand(c)'
    BY <1>1, <1>3, <2>1, <2>2, HandEmpty
  <2> QED
    BY <1>1, <2>1, <2>3, SoundAtRest DEF Owed
<1> QED
  BY <1>2, <1>3 DEF TakeUid

LEMMA SoundReadTarget ==
    ASSUME Types, Types', NEW c \in Conn, Sound(c), ReadTarget(c)
    PROVE  Sound(c)'
<1>1. /\ pc[c] = "target" /\ food[c] = {}
      /\ op[c] # "break" => /\ uid[c] \in Mine(c) /\ equipment[uid[c]].kind \notin Material
                            /\ ProperList(picks[c], op[c])
      /\ UNCHANGED <<equipment, op, kind, uid, picks, food, received, left>>
  BY DEF ReadTarget, Types, Holding, Eating, Sound, InHand
<1>2. pc'[c] = (IF op[c] = "break" THEN "break" ELSE "food") /\ target'[c] = equipment[uid[c]]
  BY DEF ReadTarget, Goto, Types, JobTypes
<1>3. Mine(c)' = Mine(c) /\ \A u \in Mine(c) : PlainRow(equipment[u])
  BY <1>1 DEF Sound, InHand, Mine, Of, Used
<1>4. InHand(c)'
  BY <1>1, <1>2, <1>3 DEF InHand
<1> QED
  BY <1>1, <1>2, <1>4, SoundAtRest DEF Owed

-----------------------------------------------------------------------------
\* What a player may be worth.
Due(c) == received[PlayerOf[c]] + left[PlayerOf[c]] + Owed(c)

LEMMA DueIsInt ==
    ASSUME Types, Types', NEW c \in Conn
    PROVE  Due(c) \in Int /\ Due(c)' \in Int
<1>1. /\ received'[PlayerOf[c]] \in Int /\ left'[PlayerOf[c]] \in Int /\ Owed(c)' \in Int
  BY FoodGivesNext, EquipAssumption DEF EquipAssumption, Types, TableTypes
<1>2. Due(c)' = received'[PlayerOf[c]] + left'[PlayerOf[c]] + Owed(c)'
  BY DEF Due
<1> QED
  BY <1>1, <1>2, FoodGives DEF Due

\* One row is written, to no more than comes to be due.
LEMMA BalanceWritten ==
    ASSUME Types, Types', NEW c \in Conn, Balance(c), NEW u \in Mine(c), Mine(c)' = Mine(c),
           \A x \in Mine(c) \ {u} : equipment'[x] = equipment[x],
           Worth(equipment'[u]) + Due(c) <= Worth(equipment[u]) + Due(c)'
    PROVE  Balance(c)'
<1> DEFINE p == PlayerOf[c]
<1>1. /\ Table(equipment) /\ Table(equipment') /\ RowsOf(equipment', p) = RowsOf(equipment, p)
      /\ u \in RowsOf(equipment, p) /\ \A x \in RowsOf(equipment, p) \ {u} : equipment'[x] = equipment[x]
  BY WealthIsValue DEF Mine
<1>2. /\ Value(equipment', p) = Value(equipment, p) - Worth(equipment[u]) + Worth(equipment'[u])
      /\ Value(equipment, p) \in Int /\ Worth(equipment[u]) \in Int /\ Worth(equipment'[u]) \in Int
  BY <1>1, ValueWritten
<1>3. Wealth(p)' = Wealth(p) - Worth(equipment[u]) + Worth(equipment'[u]) /\ Wealth(p) \in Int
  BY <1>2, WealthIsValue
<1>4. Wealth(p) <= Due(c) /\ (Balance(c)' <=> Wealth(p)' <= Due(c)')
  BY DEF Balance, Due
<1> QED
  BY <1>2, <1>3, <1>4, DueIsInt

\* A row comes, and is worth no more than comes to be due.
LEMMA BalanceAdded ==
    ASSUME Types, Types', NEW c \in Conn, Balance(c), NEW u, u \notin Mine(c), Mine(c)' = Mine(c) \cup {u},
           \A x \in Mine(c) : equipment'[x] = equipment[x],
           Worth(equipment'[u]) + Due(c) <= Due(c)'
    PROVE  Balance(c)'
<1> DEFINE p == PlayerOf[c]
<1>1. /\ Table(equipment) /\ Table(equipment') /\ RowsOf(equipment', p) = RowsOf(equipment, p) \cup {u}
      /\ u \notin RowsOf(equipment, p) /\ \A x \in RowsOf(equipment, p) : equipment'[x] = equipment[x]
  BY WealthIsValue DEF Mine
<1>2. /\ Value(equipment', p) = Value(equipment, p) + Worth(equipment'[u])
      /\ Value(equipment, p) \in Int /\ Worth(equipment'[u]) \in Int
  BY <1>1, ValueAdded
<1>3. Wealth(p)' = Wealth(p) + Worth(equipment'[u]) /\ Wealth(p) \in Int
  BY <1>2, WealthIsValue
<1>4. Wealth(p) <= Due(c) /\ (Balance(c)' <=> Wealth(p)' <= Due(c)')
  BY DEF Balance, Due
<1> QED
  BY <1>2, <1>3, <1>4, DueIsInt

\* A row goes, and what was due goes down by no more than it was worth.
LEMMA BalanceRemoved ==
    ASSUME Types, Types', NEW c \in Conn, Balance(c), NEW u \in Mine(c), Mine(c)' = Mine(c) \ {u},
           \A x \in Mine(c) \ {u} : equipment'[x] = equipment[x],
           Due(c) <= Worth(equipment[u]) + Due(c)'
    PROVE  Balance(c)'
<1> DEFINE p == PlayerOf[c]
<1>1. /\ Table(equipment) /\ Table(equipment')
      /\ u \notin RowsOf(equipment', p)
      /\ RowsOf(equipment, p) = RowsOf(equipment', p) \cup {u}
      /\ \A x \in RowsOf(equipment', p) : equipment[x] = equipment'[x]
  BY WealthIsValue DEF Mine
<1>2. /\ Value(equipment, p) = Value(equipment', p) + Worth(equipment[u])
      /\ Value(equipment', p) \in Int /\ Worth(equipment[u]) \in Int
  BY <1>1, ValueAdded
<1>3. Wealth(p) = Wealth(p)' + Worth(equipment[u]) /\ Wealth(p)' \in Int
  BY <1>2, WealthIsValue
<1>4. Wealth(p) <= Due(c) /\ (Balance(c)' <=> Wealth(p)' <= Due(c)')
  BY DEF Balance, Due
<1> QED
  BY <1>2, <1>3, <1>4, DueIsInt

LEMMA SoundLock ==
    ASSUME Types, Types', NEW c \in Conn, Sound(c), NEW u \in Mine(c), Lock(c, u)
    PROVE  Sound(c)'
<1>1. /\ pc[c] = "idle" /\ food[c] = {}
      /\ UNCHANGED <<pc, food, picks, received, left>>
      /\ equipment' = [equipment EXCEPT ![u].lock = ~@]
  BY DEF Lock, Request, job, Types, JobTypes, Holding, Eating, Sound, InHand
<1>2. u \in Used /\ equipment \in [Used -> Row] /\ equipment[u].player = PlayerOf[c]
  BY DEF Mine, Of, Types, TableTypes
<1>3. equipment'[u] = [equipment[u] EXCEPT !.lock = ~@] /\ equipment[u] \in Row
      /\ Used' = Used /\ \A x \in Used \ {u} : equipment'[x] = equipment[x]
  BY <1>1, <1>2 DEF Used
<1>4. equipment'[u].player = PlayerOf[c] /\ Worth(equipment'[u]) = Worth(equipment[u])
      /\ (PlainRow(equipment[u]) => PlainRow(equipment'[u]))
  <2> DEFINE new == [equipment[u] EXCEPT !.lock = ~@]
  <2>1. /\ new.player = equipment[u].player /\ new.kind = equipment[u].kind
        /\ new.count = equipment[u].count /\ new.exp = equipment[u].exp
        /\ new.refine = equipment[u].refine /\ new.raised = equipment[u].raised
    BY <1>3 DEF Row
  <2>2. equipment'[u] = new
    BY <1>3
  <2> HIDE DEF new
  <2>3. Worth(new) = Worth(equipment[u]) /\ (PlainRow(equipment[u]) <=> PlainRow(new))
    BY <2>1 DEF Worth, PlainRow
  <2>4. new.player = PlayerOf[c]
    BY <1>2, <2>1
  <2> QED
    BY <2>2, <2>3, <2>4
<1>5. Mine(c)' = Mine(c) /\ \A x \in Mine(c) \ {u} : equipment'[x] = equipment[x]
  <2>1. \A x \in Used : equipment'[x].player = equipment[x].player
    BY <1>2, <1>3, <1>4
  <2> QED
    BY <1>3, <2>1 DEF Mine, Of
<1>6. InHand(c)'
  BY <1>1, <1>4, <1>5, HandEmpty DEF Sound, InHand
<1>7. Due(c)' = Due(c)
  BY <1>1 DEF Due, Owed
<1>8. Worth(equipment'[u]) + Due(c) <= Worth(equipment[u]) + Due(c)'
  BY <1>3, <1>4, <1>7, RowNumbers, DueIsInt
<1> QED
  BY <1>5, <1>6, <1>8, BalanceWritten DEF Sound

LEMMA SoundAddToStack ==
    ASSUME Types, Types', NEW c \in Conn, Sound(c), AddToStack(c)
    PROVE  Sound(c)'
<1> DEFINE u == uid[c]
<1>1. /\ pc[c] = "stack" /\ u \in Mine(c) /\ equipment[u].kind \in Material /\ todo[c] \in Int
      /\ equipment' = [equipment EXCEPT ![u].count = @ + todo[c]]
      /\ Return(c)
  BY DEF AddToStack, Types, JobTypes, Sound, InHand
<1>2. u \in Used /\ equipment \in [Used -> Row] /\ equipment[u].player = PlayerOf[c]
  BY <1>1 DEF Mine, Of, Types, TableTypes
<1>3. equipment'[u] = [equipment[u] EXCEPT !.count = @ + todo[c]] /\ equipment[u] \in Row
      /\ Used' = Used /\ \A x \in Used \ {u} : equipment'[x] = equipment[x]
  BY <1>1, <1>2 DEF Used
<1>4. equipment'[u].player = PlayerOf[c] /\ Worth(equipment'[u]) = Worth(equipment[u]) + todo[c]
      /\ (PlainRow(equipment[u]) => PlainRow(equipment'[u]))
  <2>1. /\ equipment[u].count \in Int /\ equipment[u].exp \in Int /\ equipment[u].refine \in Int
        /\ equipment'[u].count = equipment[u].count + todo[c]
        /\ equipment'[u].exp = equipment[u].exp /\ equipment'[u].refine = equipment[u].refine
        /\ equipment'[u].kind = equipment[u].kind /\ equipment'[u].player = equipment[u].player
    BY <1>3 DEF Row
  <2> QED
    BY <1>1, <1>2, <2>1 DEF Worth, PlainRow
<1>5. Mine(c)' = Mine(c) /\ \A x \in Mine(c) \ {u} : equipment'[x] = equipment[x]
  BY <1>2, <1>3, <1>4 DEF Mine, Of
<1>6. pc'[c] = "idle" /\ food'[c] = {}
  BY <1>1 DEF Return, Goto, Types, JobTypes
<1>7. InHand(c)'
  BY <1>4, <1>5, <1>6, HandEmpty DEF Sound, InHand
<1>8. Due(c)' = Due(c) + todo[c]
  <2>1. /\ received'[PlayerOf[c]] = received[PlayerOf[c]] + todo[c]
        /\ left' = left
    BY EquipAssumption DEF EquipAssumption, AddToStack, Types, TableTypes
  <2>2. Owed(c) = 0 /\ Owed(c)' = 0
    BY <1>1, <1>6 DEF Owed
  <2> QED
    BY <1>1, <2>1, <2>2, FoodGives DEF Due
<1>9. Worth(equipment'[u]) + Due(c) <= Worth(equipment[u]) + Due(c)'
  BY <1>1, <1>3, <1>4, <1>8, RowNumbers, DueIsInt
<1> QED
  BY <1>1, <1>5, <1>7, <1>9, BalanceWritten DEF Sound

LEMMA SoundInsertEquip ==
    ASSUME Types, Types', NEW c \in Conn, Sound(c), InsertEquip(c)
    PROVE  Sound(c)'
<1> DEFINE u == uid[c]
<1>1. /\ pc[c] = "insert" /\ food[c] = {} /\ u \notin Used
      /\ kind[c] \in Kind /\ todo[c] \in Int
      /\ equipment' = [x \in Used \cup {u} |-> IF x = u THEN NewRow(c, Lot(c)) ELSE equipment[x]]
      /\ received' = [received EXCEPT ![PlayerOf[c]] = @ + Lot(c)] /\ left' = left
  BY DEF InsertEquip, Insert, Types, JobTypes, Holding, Granting, Eating, Sound, InHand
<1>2. Lot(c) \in Int
  BY <1>1 DEF Lot
<1>3. /\ Used' = Used \cup {u} /\ equipment'[u] = NewRow(c, Lot(c))
      /\ \A x \in Used : equipment'[x] = equipment[x]
  BY <1>1 DEF Used
<1>4. equipment'[u].player = PlayerOf[c] /\ Worth(equipment'[u]) = Lot(c) /\ PlainRow(equipment'[u])
  BY <1>2, <1>3 DEF NewRow, Worth, PlainRow, Lot
<1>5. Mine(c)' = Mine(c) \cup {u} /\ u \notin Mine(c) /\ \A x \in Mine(c) : equipment'[x] = equipment[x]
  BY <1>1, <1>3, <1>4 DEF Mine, Of
<1>6. pc'[c] \in {"idle", "insert"} /\ food'[c] = {}
  <2>1. Return(c) \/ UNCHANGED <<pc, op, kind, target, picks, food>>
    BY DEF InsertEquip, Insert
  <2> QED
    BY <1>1, <2>1 DEF Return, Goto, Types, JobTypes
<1>7. InHand(c)'
  BY <1>4, <1>5, <1>6, HandEmpty DEF Sound, InHand
<1>8. Due(c)' = Due(c) + Lot(c)
  <2>1. received'[PlayerOf[c]] = received[PlayerOf[c]] + Lot(c) /\ left'[PlayerOf[c]] = left[PlayerOf[c]]
    BY <1>1, EquipAssumption DEF EquipAssumption, Types, TableTypes
  <2>2. Owed(c) = 0 /\ Owed(c)' = 0
    BY <1>1, <1>6 DEF Owed
  <2> QED
    BY <1>2, <2>1, <2>2, FoodGives DEF Due
<1>9. Worth(equipment'[u]) + Due(c) <= Due(c)'
  BY <1>2, <1>4, <1>8, DueIsInt
<1> QED
  BY <1>5, <1>7, <1>9, BalanceAdded DEF Sound

\* What is left of a proper list when its next entry is taken.
LEMMA ProperTail ==
    ASSUME NEW A, NEW what, NEW list \in Seq(A), list # << >>, ProperList(list, what)
    PROVE  /\ Head(list).take > 0 /\ (what = "refine" => Head(list).take = 1)
           /\ ProperList(Tail(list), what)
           /\ \A i \in DOMAIN Tail(list) : Tail(list)[i].uid # Head(list).uid
           /\ \A i \in DOMAIN Tail(list) : \E k \in DOMAIN list : list[k] = Tail(list)[i]
<1> DEFINE m == Len(list)
           rest == Tail(list)
<1>1. /\ m \in Nat \ {0} /\ DOMAIN list = 1..m /\ Head(list) = list[1]
      /\ DOMAIN rest = 1..(m - 1)
      /\ \A i \in 1..(m - 1) : rest[i] = list[i + 1]
  OBVIOUS
<1> HIDE DEF m, rest
<1>2. \A i \in 1..(m - 1) : i + 1 \in 1..m /\ i + 1 # 1
  BY <1>1
<1>3. 1 \in 1..m
  BY <1>1
<1>4. \A i \in DOMAIN rest : i + 1 \in DOMAIN list /\ i + 1 # 1 /\ rest[i] = list[i + 1]
  BY <1>1, <1>2
<1>5. /\ \A i \in DOMAIN list : list[i].take > 0 /\ (what = "refine" => list[i].take = 1)
      /\ \A i, j \in DOMAIN list : list[i].uid = list[j].uid => i = j
  BY DEF ProperList
<1>6. Head(list).take > 0 /\ (what = "refine" => Head(list).take = 1)
  BY <1>1, <1>3, <1>5
<1>7. ProperList(rest, what)
  <2>1. \A i \in DOMAIN rest : rest[i].take > 0 /\ (what = "refine" => rest[i].take = 1)
    BY <1>4, <1>5
  <2>2. ASSUME NEW i \in DOMAIN rest, NEW j \in DOMAIN rest, rest[i].uid = rest[j].uid PROVE i = j
    <3>1. i + 1 = j + 1
      BY <1>4, <1>5, <2>2
    <3>2. i \in Int /\ j \in Int
      BY <1>1
    <3> QED
      BY <3>1, <3>2
  <2> QED
    BY <2>1, <2>2 DEF ProperList
<1>8. \A i \in DOMAIN rest : rest[i].uid # Head(list).uid
  BY <1>1, <1>3, <1>4, <1>5
<1>9. \A i \in DOMAIN rest : \E k \in DOMAIN list : list[k] = rest[i]
  BY <1>4
<1> QED
  BY <1>6, <1>7, <1>8, <1>9 DEF rest

LEMMA SoundReadFood ==
    ASSUME Types, Types', NEW c \in Conn, Sound(c), ReadFood(c)
    PROVE  Sound(c)'
<1>1. /\ pc[c] = "food" /\ op[c] \in {"strengthen", "refine"} /\ uid[c] \in Mine(c)
      /\ equipment[uid[c]] = target[c] /\ target[c].kind \notin Material
      /\ ProperList(picks[c], op[c])
      /\ UNCHANGED <<equipment, op, kind, uid, target, received, left>>
  BY DEF ReadFood, Types, Holding, Eating, Sound, InHand
<1>2. pc'[c] \in {"food", "write"}
  BY <1>1 DEF ReadFood, Goto, Types, JobTypes
<1>3. Mine(c)' = Mine(c) /\ \A u \in Mine(c) : PlainRow(equipment[u])
  BY <1>1 DEF Sound, InHand, Mine, Of, Used
<1>4. \A f : StillGood(c, f)' <=> StillGood(c, f)
  BY <1>1, <1>3 DEF StillGood
<1>5. CASE picks[c] = << >>
  <2>1. UNCHANGED <<picks, food>> /\ pc'[c] = "write"
    BY <1>5 DEF ReadFood, Goto, Types, JobTypes
  <2>2. InHand(c)'
    BY <1>1, <1>3, <1>4, <2>1 DEF Sound, InHand
  <2> QED
    BY <1>1, <2>1, <2>2, SoundAtRest DEF Owed
<1>6. CASE picks[c] # << >>
  <2> DEFINE u == Head(picks[c]).uid
             take == Head(picks[c]).take
             n == FoodFrom(u, take, Len(picks[c]))
  <2>1. /\ picks' = [picks EXCEPT ![c] = Tail(@)]
        /\ food' = [food EXCEPT ![c] = IF Good(c, u, take) THEN @ \cup {n} ELSE @]
        /\ UNCHANGED pc
    BY <1>6 DEF ReadFood
  <2>2. /\ take > 0 /\ take \in Int /\ (op[c] = "refine" => take = 1)
        /\ ProperList(picks'[c], op[c])
        /\ \A i \in DOMAIN picks'[c] : picks'[c][i].uid # u
        /\ \A i \in DOMAIN picks'[c] : \E k \in DOMAIN picks[c] : picks[c][k] = picks'[c][i]
        /\ \E k \in DOMAIN picks[c] : picks[c][k].uid = u
        /\ pc'[c] = "food"
    <3>1. picks[c] \in Seq(Entry) /\ picks'[c] = Tail(picks[c]) /\ pc'[c] = "food"
      BY <1>1, <2>1 DEF Types, JobTypes, EntryLists
    <3>2. 1 \in DOMAIN picks[c] /\ picks[c][1] = Head(picks[c])
      BY <1>6, <3>1
    <3>3. /\ take > 0 /\ (op[c] = "refine" => take = 1)
          /\ ProperList(Tail(picks[c]), op[c])
          /\ \A i \in DOMAIN Tail(picks[c]) : Tail(picks[c])[i].uid # u
          /\ \A i \in DOMAIN Tail(picks[c]) : \E k \in DOMAIN picks[c] : picks[c][k] = Tail(picks[c])[i]
      BY <1>1, <1>6, <3>1, ProperTail
    <3>4. take \in Int
      BY <1>6, NextEntry
    <3> QED
      BY <3>1, <3>2, <3>3, <3>4
  <2>3. \A f \in food[c] : StillGood(c, f) /\ f.uid # u
    BY <1>1, <2>2 DEF Sound, InHand
  <2>4. \A f \in food[c] : \A i \in DOMAIN picks'[c] : picks'[c][i].uid # f.uid
    BY <1>1, <2>2 DEF Sound, InHand
  <2>5. \A f, g \in food[c] : f.uid = g.uid => f = g
    BY DEF Sound, InHand
  <2>6. CASE ~Good(c, u, take)
    <3>1. food'[c] = food[c]
      BY <2>1, <2>6 DEF Types, JobTypes
    <3>2. InHand(c)'
      BY <1>1, <1>3, <1>4, <2>2, <2>3, <2>4, <2>5, <3>1 DEF InHand
    <3> QED
      BY <1>1, <2>2, <3>2, SoundAtRest DEF Owed
  <2>7. CASE Good(c, u, take)
    <3>1. n.uid = u /\ StillGood(c, n)
      <4>1. /\ n.uid = u /\ n.kind = equipment[u].kind /\ n.take = take
            /\ n.left = equipment[u].count - take /\ n.gain = Gain(equipment[u]) * take
        BY DEF FoodFrom
      <4>2. u \in Mine(c) \ {uid[c]}
        BY <2>7 DEF Good
      <4>3. op[c] = "refine" => equipment[u].kind \notin Material
        BY <1>1, <2>7, EquipAssumption DEF EquipAssumption, Good
      <4>4. op[c] = "strengthen" => take <= equipment[u].count
        BY <2>7 DEF Good
      <4>5. equipment[u].kind \notin Material => equipment[u].count = 1
        BY <1>3, <4>2 DEF PlainRow
      <4> HIDE DEF n, u, take
      <4>6. equipment[u].kind \notin Material => take = 1
        BY <1>1, <2>2, <4>4, <4>5
      <4> QED
        BY <2>2, <4>1, <4>2, <4>3, <4>6 DEF StillGood
    <3>2. food'[c] = food[c] \cup {n}
      BY <2>1, <2>7 DEF Types, JobTypes
    <3> HIDE DEF n, u, take
    <3>3. \A f \in food'[c] : StillGood(c, f) /\ \A i \in DOMAIN picks'[c] : picks'[c][i].uid # f.uid
      BY <2>2, <2>3, <2>4, <3>1, <3>2
    <3>4. \A f, g \in food'[c] : f.uid = g.uid => f = g
      BY <2>3, <2>5, <3>1, <3>2
    <3>5. InHand(c)'
      BY <1>1, <1>3, <1>4, <2>2, <3>3, <3>4 DEF InHand
    <3> QED
      BY <1>1, <2>2, <3>5, SoundAtRest DEF Owed
  <2> QED
    BY <2>6, <2>7
<1> QED
  BY <1>5, <1>6

\* What is good to eat gives something.
LEMMA FoodPays ==
    ASSUME Types, NEW c \in Conn, InHand(c)
    PROVE  TotalExp(c) \in Nat /\ Pieces(c) \in Nat /\ Pieces(c) <= TotalExp(c)
<1> DEFINE w == [f \in food[c] |-> f.gain]
<1>1. ASSUME NEW f \in food[c] PROVE f.gain \in Nat \ {0}
  <2> DEFINE row == equipment[f.uid]
  <2>1. /\ f.gain = Gain(row) * f.take /\ f.take > 0 /\ f.take \in Int
        /\ PlainRow(row) /\ row \in Row
    BY DEF InHand, StillGood, Mine, Of, Types, TableTypes, JobTypes, Food
  <2> HIDE DEF row
  <2>2. Gain(row) \in Nat \ {0}
    BY <2>1 DEF PlainRow, Gain, Row
  <2>3. \A m, n \in Nat \ {0} : m * n \in Nat \ {0}
    OBVIOUS
  <2> QED
    BY <2>1, <2>2, <2>3
<1>2. IsFiniteSet(food[c]) /\ \A f \in food[c] : w[f] \in Nat /\ w[f] # 0
  BY <1>1 DEF Types, Holding
<1> HIDE DEF w
<1>3. SumFunctionOnSet(w, food[c]) \in Nat /\ Cardinality(food[c]) <= SumFunctionOnSet(w, food[c])
  BY <1>2, SumAtLeast
<1> QED
  BY <1>2, <1>3, FS_CardinalityType DEF w, TotalExp, Pieces

LEMMA SoundWriteTarget ==
    ASSUME Types, Types', NEW c \in Conn, Sound(c), WriteTarget(c)
    PROVE  Sound(c)'
<1> DEFINE u == uid[c]
           exp == target[c].exp + TotalExp(c)
           raised == target[c].raised \/ exp > 0
<1>1. /\ pc[c] = "write" /\ u \in Mine(c) /\ equipment[u] = target[c] /\ target[c].kind \notin Material
      /\ target[c] \in Row /\ PlainRow(target[c]) /\ op[c] \in {"strengthen", "refine"}
      /\ UNCHANGED <<received, left>>
  BY DEF WriteTarget, Types, Holding, Eating, Sound, InHand
<1>2. CASE op[c] = "strengthen" /\ TotalExp(c) = 0
  <2>1. Return(c) /\ UNCHANGED equipment
    BY <1>2 DEF WriteTarget
  <2>2. left'[PlayerOf[c]] = left[PlayerOf[c]] + Owed(c)
    BY <1>1, FoodGives DEF Owed
  <2> QED
    BY <1>1, <2>1, <2>2, SoundReturn
<1>3. CASE ~(op[c] = "strengthen" /\ TotalExp(c) = 0)
  <2>1. /\ Goto(c, "eat") /\ UNCHANGED job
        /\ equipment' = IF op[c] = "strengthen"
                        THEN [equipment EXCEPT ![u].exp = exp, ![u].raised = raised]
                        ELSE [equipment EXCEPT ![u].refine = Min({target[c].refine + Pieces(c), MaxRefine})]
    BY <1>1, <1>3 DEF WriteTarget
  <2>2. u \in Used /\ equipment \in [Used -> Row] /\ equipment[u].player = PlayerOf[c]
    BY <1>1 DEF Mine, Of, Types, TableTypes
  <2>3. Used' = Used /\ \A x \in Used \ {u} : equipment'[x] = equipment[x]
    BY <2>1, <2>2 DEF Used
  <2>4. TotalExp(c) \in Nat /\ Pieces(c) \in Nat /\ Pieces(c) <= TotalExp(c)
    BY FoodPays DEF Sound
  <2>5. /\ equipment'[u].player = PlayerOf[c]
        /\ equipment'[u].count = equipment[u].count /\ equipment'[u].kind = equipment[u].kind
        /\ equipment'[u].exp + equipment'[u].refine <= equipment[u].exp + equipment[u].refine + TotalExp(c)
        /\ equipment'[u].exp \in Nat /\ equipment'[u].refine \in Nat
        /\ (equipment'[u].raised => equipment'[u].exp > 0)
    <3>1. /\ equipment[u].exp \in Nat /\ equipment[u].refine \in Nat \ {0} /\ equipment[u] \in Row
          /\ equipment[u].raised \in BOOLEAN /\ (equipment[u].raised => equipment[u].exp > 0)
      BY <1>1, EquipAssumption DEF EquipAssumption, Row, PlainRow
    <3>2. CASE op[c] = "strengthen"
      <4>1. equipment'[u] = [equipment[u] EXCEPT !.exp = exp, !.raised = raised]
        BY <2>1, <2>2, <3>2
      <4>2. /\ equipment'[u].exp = equipment[u].exp + TotalExp(c)
            /\ equipment'[u].raised = (equipment[u].raised \/ equipment'[u].exp > 0)
            /\ equipment'[u].refine = equipment[u].refine /\ equipment'[u].count = equipment[u].count
            /\ equipment'[u].kind = equipment[u].kind /\ equipment'[u].player = equipment[u].player
        BY <1>1, <3>1, <4>1 DEF Row
      <4> QED
        BY <2>2, <2>4, <3>1, <4>2
    <3>3. CASE op[c] # "strengthen"
      <4> DEFINE S == {target[c].refine + Pieces(c), MaxRefine}
      <4>1. equipment'[u] = [equipment[u] EXCEPT !.refine = Min(S)]
        BY <2>1, <2>2, <3>3
      <4>2. S \subseteq Nat /\ target[c].refine + Pieces(c) \in S
        <5>1. MaxRefine \in Nat
          BY EquipAssumption DEF EquipAssumption
        <5>2. target[c].refine + Pieces(c) \in Nat
          BY <1>1, <2>4, <3>1
        <5> QED
          BY <5>1, <5>2
      <4> HIDE DEF S
      <4>3. Min(S) \in Nat /\ Min(S) <= target[c].refine + Pieces(c)
        BY <4>2, MinIsLeast
      <4>4. /\ equipment'[u].refine = Min(S)
            /\ equipment'[u].raised = equipment[u].raised
            /\ equipment'[u].exp = equipment[u].exp /\ equipment'[u].count = equipment[u].count
            /\ equipment'[u].kind = equipment[u].kind /\ equipment'[u].player = equipment[u].player
        BY <3>1, <4>1 DEF Row
      <4> QED
        BY <1>1, <2>2, <2>4, <3>1, <4>3, <4>4
    <3> QED
      BY <3>2, <3>3
  <2>6. Mine(c)' = Mine(c) /\ \A x \in Mine(c) \ {u} : equipment'[x] = equipment[x]
    BY <2>2, <2>3, <2>5 DEF Mine, Of
  <2>7. pc'[c] = "eat" /\ UNCHANGED <<op, uid, food, picks>>
    BY <2>1 DEF Goto, job, Types, JobTypes
  <2>8. InHand(c)'
    <3>1. PlainRow(equipment[u]) => PlainRow(equipment'[u])
      BY <1>1, <2>5 DEF PlainRow
    <3>2. \A x \in Mine(c)' : PlainRow(equipment'[x])
      BY <1>1, <2>6, <3>1 DEF Sound, InHand
    <3>3. \A f \in food[c] : StillGood(c, f) => StillGood(c, f)'
      BY <2>6, <2>7 DEF StillGood
    <3> QED
      BY <1>1, <2>7, <3>2, <3>3 DEF Sound, InHand
  <2>9. Worth(equipment'[u]) + Due(c) <= Worth(equipment[u]) + Due(c)'
    <3>1. Due(c)' = Due(c) + TotalExp(c)
      <4>1. Owed(c) = 0 /\ Owed(c)' = TotalExp(c)
        BY <1>1, <2>7 DEF Owed, TotalExp
      <4> QED
        BY <1>1, <2>4, <4>1, FoodGives DEF Due
    <3>2. equipment[u].count \in Int /\ equipment[u].exp \in Int /\ equipment[u].refine \in Int
      BY <1>1, EquipAssumption DEF EquipAssumption, Row
    <3> QED
      BY <2>4, <2>5, <3>1, <3>2, DueIsInt DEF Worth
  <2> QED
    BY <1>1, <2>6, <2>8, <2>9, BalanceWritten DEF Sound
<1> QED
  BY <1>2, <1>3

\* What is still owed when f has been eaten.
LEMMA OwedLess ==
    ASSUME Types, NEW c \in Conn, pc[c] = "eat", pc'[c] = "eat",
           NEW f \in food[c], food'[c] = food[c] \ {f}
    PROVE  Owed(c) = f.gain + Owed(c)' /\ Owed(c)' \in Int /\ f.gain \in Int
<1> DEFINE S == food[c]
           w == [x \in S |-> x.gain]
           v == [x \in S \ {f} |-> x.gain]
<1>1. IsFiniteSet(S) /\ f \in S /\ w[f] = f.gain /\ \A x \in S : w[x] \in Int
  BY DEF Types, Holding, JobTypes, Food
<1>2. \A x \in S \ {f} : w[x] = v[x]
  OBVIOUS
<1>3. Owed(c) = SumFunctionOnSet(w, S) /\ Owed(c)' = SumFunctionOnSet(v, S \ {f})
  BY DEF Owed, TotalExp
<1> HIDE DEF w, v, S
<1>4. \A x \in S : w[x] \in Int
  BY <1>1
<1>5. /\ SumFunctionOnSet(w, S) = w[f] + SumFunctionOnSet(w, S \ {f})
      /\ SumFunctionOnSet(w, S \ {f}) \in Int
  BY <1>1, <1>4, SumFacts
<1>6. SumFunctionOnSet(w, S \ {f}) = SumFunctionOnSet(v, S \ {f})
  <2>1. IsFiniteSet(S \ {f})
    BY <1>1, FS_RemoveElement
  <2> QED
    BY <1>2, <2>1, SumSame
<1> QED
  BY <1>1, <1>3, <1>5, <1>6

LEMMA SoundEat ==
    ASSUME Types, Types', NEW c \in Conn, Sound(c), Eat(c)
    PROVE  Sound(c)'
<1>1. pc[c] = "eat" /\ UNCHANGED <<received, left>> /\ op[c] \in {"strengthen", "refine"}
  BY DEF Eat, Types, Holding, Eating, Sound, InHand
<1>2. CASE food[c] = {}
  <2>1. Return(c) /\ UNCHANGED equipment
    BY <1>2 DEF Eat
  <2>2. Owed(c) = 0
    <3>1. TotalExp(c) = SumFunctionOnSet([f \in {} |-> f.gain], {})
      BY <1>2 DEF TotalExp
    <3> QED
      BY <3>1, SumEmpty DEF Owed
  <2>3. left'[PlayerOf[c]] = left[PlayerOf[c]] + Owed(c)
    BY <1>1, <2>2, FoodGives
  <2> QED
    BY <1>1, <2>1, <2>3, SoundReturn
<1>3. CASE food[c] # {}
  <2>1. PICK f \in food[c] : /\ equipment' = EatRow(c, f)
                             /\ food' = [food EXCEPT ![c] = @ \ {f}]
                             /\ UNCHANGED <<pc, op, kind, todo, uid, target, picks>>
    BY <1>3 DEF Eat
  <2> DEFINE u == f.uid
             row == equipment[u]
  <2>2. /\ u \in Mine(c) /\ f.kind = row.kind /\ f.left = row.count - f.take /\ f.gain = Gain(row) * f.take
        /\ f.take > 0 /\ (row.kind \notin Material => f.take = 1)
        /\ (op[c] = "refine" => row.kind \notin Material) /\ PlainRow(row)
    BY DEF Sound, InHand, StillGood
  <2>3. u \in Used /\ equipment \in [Used -> Row] /\ row.player = PlayerOf[c] /\ row \in Row
    BY <2>2 DEF Mine, Of, Types, TableTypes
  <2>4. row.count \in Int /\ row.exp \in Int /\ row.refine \in Nat \ {0} /\ f.take \in Int
    <3>1. f.take \in Int
      BY DEF Types, JobTypes, Food
    <3> HIDE DEF row
    <3>2. row.count \in Int /\ row.exp \in Int /\ row.refine \in 1..MaxRefine
      BY <2>3 DEF Row
    <3>3. \A n \in 1..MaxRefine : n \in Nat \ {0}
      BY EquipAssumption DEF EquipAssumption
    <3> QED
      BY <3>1, <3>2, <3>3
  <2>5. food'[c] = food[c] \ {f}
    BY <2>1 DEF Types, JobTypes
  <2>6. Owed(c) = f.gain + Owed(c)' /\ Owed(c)' \in Int /\ f.gain \in Int
    BY <1>1, <2>1, <2>5, OwedLess
  <2>7. Due(c) = Due(c)' + f.gain
    BY <1>1, <2>6, FoodGives DEF Due
  <2>8. \A g \in food'[c] : g.uid # u /\ StillGood(c, g)
    BY <2>5 DEF Sound, InHand
  <2>9. ASSUME Mine(c)' \in {Mine(c), Mine(c) \ {u}},
               \A x \in Mine(c) \ {u} : equipment'[x] = equipment[x],
               u \in Mine(c)' => PlainRow(equipment'[u])
        PROVE  InHand(c)'
    <3>1. \A g \in food'[c] : StillGood(c, g)'
      BY <2>1, <2>8, <2>9 DEF StillGood
    <3>2. \A x \in Mine(c)' : PlainRow(equipment'[x])
      BY <2>9 DEF Sound, InHand
    <3>3. \A g, h \in food'[c] : g.uid = h.uid => g = h
      BY <2>5 DEF Sound, InHand
    <3> QED
      BY <1>1, <2>1, <3>1, <3>2, <3>3 DEF InHand
  <2>10. CASE row.kind \in Material
    <3>1. equipment' = [equipment EXCEPT ![u].count = f.left]
      BY <1>1, <2>1, <2>2, <2>10 DEF EatRow
    <3>2. equipment'[u] = [row EXCEPT !.count = f.left]
          /\ Used' = Used /\ \A x \in Used \ {u} : equipment'[x] = equipment[x]
      BY <2>3, <3>1 DEF Used
    <3>3. /\ equipment'[u].count = row.count - f.take /\ equipment'[u].exp = row.exp
          /\ equipment'[u].refine = row.refine /\ equipment'[u].kind = row.kind
          /\ equipment'[u].player = row.player
      BY <2>2, <2>3, <3>2 DEF Row
    <3>4. Mine(c)' = Mine(c) /\ \A x \in Mine(c) \ {u} : equipment'[x] = equipment[x]
      BY <2>3, <3>2, <3>3 DEF Mine, Of
    <3>5. row.exp = 0 /\ row.refine = 1 /\ PlainRow(equipment'[u])
      BY <2>2, <2>10, <3>3 DEF PlainRow
    <3>6. f.gain = f.take
      <4>1. Gain(row) = 1
        BY <2>10, <3>5 DEF Gain
      <4> QED
        BY <2>2, <2>4, <4>1
    <3>7. Worth(equipment'[u]) + Due(c) <= Worth(row) + Due(c)'
      BY <2>4, <2>7, <3>3, <3>6, DueIsInt DEF Worth
    <3>8. InHand(c)'
      BY <2>9, <3>4, <3>5
    <3> QED
      BY <2>2, <3>4, <3>7, <3>8, BalanceWritten DEF Sound
  <2>11. CASE row.kind \notin Material
    <3>1. row.count = 1 /\ f.take = 1 /\ f.left = 0
      BY <2>2, <2>11 DEF PlainRow
    <3>2. equipment' = [x \in Used \ {u} |-> equipment[x]]
      BY <2>1, <2>2, <2>11, <3>1 DEF EatRow
    <3>3. Used' = Used \ {u} /\ \A x \in Used \ {u} : equipment'[x] = equipment[x]
      BY <3>2 DEF Used
    <3>4. Mine(c)' = Mine(c) \ {u} /\ \A x \in Mine(c) \ {u} : equipment'[x] = equipment[x]
      BY <3>3 DEF Mine, Of
    <3>5. f.gain <= Worth(row)
      BY <2>2, <2>4, <3>1 DEF Gain, Worth
    <3>6. Due(c) <= Worth(row) + Due(c)'
      BY <2>3, <2>6, <2>7, <3>5, RowNumbers, DueIsInt
    <3>7. InHand(c)'
      BY <2>9, <3>4
    <3> QED
      BY <2>2, <3>4, <3>6, <3>7, BalanceRemoved DEF Sound
  <2> QED
    BY <2>10, <2>11
<1> QED
  BY <1>2, <1>3

LEMMA SoundEnd ==
    ASSUME Types, Types', NEW c \in Conn, Sound(c), SetBreak(c) \/ Fail(c)
    PROVE  Sound(c)'
<1>1. Return(c) /\ equipment' = equipment /\ received' = received
  BY DEF SetBreak, Fail
<1>2. left'[PlayerOf[c]] = left[PlayerOf[c]] + Owed(c)
  <2>1. CASE SetBreak(c)
    BY <2>1, FoodGives DEF SetBreak, Owed
  <2>2. CASE Fail(c)
    BY <2>2, EquipAssumption DEF EquipAssumption, Fail, Types, TableTypes
  <2> QED
    BY <2>1, <2>2
<1> QED
  BY <1>1, <1>2, SoundReturn

LEMMA SoundCrash ==
    ASSUME Types, Types', NEW c \in Conn, Alone(PlayerOf[c]), Sound(c), Crash
    PROVE  Sound(c)'
<1>1. /\ pc'[c] = "idle" /\ food'[c] = {}
      /\ equipment' = equipment /\ received' = received
  BY DEF Crash
<1>2. left'[PlayerOf[c]] = left[PlayerOf[c]] + Owed(c)
  BY OwedAlone, EquipAssumption DEF EquipAssumption, Crash
<1>3. \A u \in Mine(c)' : PlainRow(equipment'[u])
  BY <1>1 DEF Sound, InHand, Mine, Of, Used
<1>4. InHand(c)'
  BY <1>1, <1>3, HandEmpty
<1>5. Owed(c)' = 0
  BY <1>1 DEF Owed
<1>6. left'[PlayerOf[c]] + Owed(c)' = left[PlayerOf[c]] + Owed(c)
  BY <1>2, <1>5, FoodGives
<1>7. Balance(c)'
  BY <1>1, <1>6, RowsRestIfTableDoes, BalanceRests DEF Sound
<1> QED
  BY <1>4, <1>7 DEF Sound

-----------------------------------------------------------------------------
Balanced ==
    Types /\ \A c \in Conn : Alone(PlayerOf[c]) /\ PlayerOf[c] \notin strange => Sound(c)

LEMMA BalancedStart == ASSUME Init PROVE Balanced
<1>1. Types
  BY TypesStart
<1>2. ASSUME NEW c \in Conn PROVE InHand(c)
  <2>1. ASSUME NEW u \in Mine(c) PROVE PlainRow(equipment[u])
    <3>1. PICK n \in 0..MaxUid : Starter \in [1..n -> Player \X (Kind \ Material)]
      BY EquipAssumption DEF EquipAssumption
    <3>2. u \in 1..n /\ equipment[u] = StarterRow(Starter[u]) /\ Starter[u][2] \notin Material
      BY <3>1 DEF Init, Mine, Of, Used
    <3> QED
      BY <3>2, EquipAssumption DEF EquipAssumption, StarterRow, PlainRow
  <2> QED
    BY <2>1 DEF Init, InHand
<1>3. ASSUME NEW c \in Conn PROVE Balance(c)
  <2>1. /\ received[PlayerOf[c]] = Wealth(PlayerOf[c]) /\ left[PlayerOf[c]] = 0
        /\ received[PlayerOf[c]] \in Int
    BY <1>1, EquipAssumption DEF EquipAssumption, Init, Types, TableTypes
  <2>2. Owed(c) = 0
    BY DEF Init, Owed
  <2> QED
    BY <2>1, <2>2 DEF Balance
<1> QED
  BY <1>1, <1>2, <1>3 DEF Balanced, Sound

LEMMA StrangeGrows == ASSUME [Next]_vars PROVE strange \subseteq strange'
<1>1. ASSUME NEW c \in Conn, Requests(c) PROVE strange \subseteq strange'
  BY <1>1 DEF Requests, Grant, Feed, Break, Lock
<1>2. ASSUME NEW c \in Conn, Step(c) PROVE strange' = strange
  BY <1>2 DEF Step, FindStack, AddToStack, TakeUid, InsertEquip, Insert, ReadTarget, ReadFood, WriteTarget,
     Eat, SetBreak, Fail
<1>3. Crash \/ UNCHANGED vars => strange' = strange
  BY DEF Crash, vars
<1> QED
  BY <1>1, <1>2, <1>3 DEF Next

LEMMA BalancedStep == ASSUME Balanced, [Next]_vars PROVE Balanced'
<1>1. Types /\ Types'
  BY TypesKept DEF Balanced
<1> SUFFICES ASSUME NEW c \in Conn, Alone(PlayerOf[c]), PlayerOf[c] \notin strange' PROVE Sound(c)'
  BY <1>1 DEF Balanced, Alone
<1>2. Sound(c)
  <2>1. strange \subseteq strange'
    BY StrangeGrows
  <2> QED
    BY <2>1 DEF Balanced
<1>3. ASSUME NEW d \in Conn, d # c, Requests(d) \/ Step(d) PROVE Sound(c)'
  <2>1. PlayerOf[d] # PlayerOf[c]
    BY <1>3, OneConnection
  <2> QED
    BY <1>1, <1>2, <1>3, <2>1, OtherStep, SoundUndisturbed
<1>4. CASE Requests(c)
  <2>1. ASSUME NEW k \in Kind, NEW n \in Lots, Grant(c, k, n) PROVE Sound(c)'
    BY <1>1, <1>2, <2>1, SoundGrant
  <2>2. ASSUME NEW u \in Mine(c), Break(c, u) \/ Lock(c, u) PROVE Sound(c)'
    BY <1>1, <1>2, <2>2, SoundBreak, SoundLock
  <2>3. ASSUME NEW u \in Mine(c), NEW what \in {"strengthen", "refine"},
               NEW takes \in {Takes, {1}}, NEW list \in Lists(takes),
               what = "refine" => takes = {1}, Feed(c, what, u, list)
        PROVE  Sound(c)'
    <3>1. Proper(u, list)
      BY <2>3 DEF Feed
    <3>2. what = "refine" => \A i \in DOMAIN list : list[i].take = 1
      BY <2>3 DEF Lists
    <3> QED
      BY <1>1, <1>2, <2>3, <3>1, <3>2, SoundFeed
  <2> QED
    BY <1>4, <2>1, <2>2, <2>3 DEF Requests
<1>5. CASE Step(c)
  BY <1>1, <1>2, <1>5, SoundFindStack, SoundAddToStack, SoundTakeUid, SoundInsertEquip, SoundReadTarget,
     SoundReadFood, SoundWriteTarget, SoundEat, SoundEnd DEF Step
<1>6. CASE Crash
  BY <1>1, <1>2, <1>6, SoundCrash
<1>7. CASE UNCHANGED vars
  <2>1. Undisturbed(c)
    BY <1>7 DEF vars, job, Undisturbed, Mine, Of, Used
  <2> QED
    BY <1>1, <1>2, <2>1, SoundUndisturbed
<1> QED
  BY <1>3, <1>4, <1>5, <1>6, <1>7 DEF Next

\* With one connection, and as long as every list names a row once and a positive
\* number of it, a player's pieces, experience and refinements never exceed what the
\* player was granted, but for what a handler had still to eat when it stopped:
\* whatever lists others send, for any tables, lots and lengths of the lists.
THEOREM NothingSprings == Spec => []NothingFromNothing
<1>1. Balanced => NothingFromNothing
  <2>1. ASSUME Balanced, NEW p \in Player \ strange, Alone(p)
        PROVE  Wealth(p) <= received[p] + left[p] + OwedBy(p)
    <3>1. PICK c \in Conn : PlayerOf[c] = p
      <4>1. IsFiniteSet({}) /\ Cardinality({}) = 0
        BY FS_EmptySet
      <4> QED
        BY <2>1, <4>1 DEF Alone
    <3> QED
      BY <2>1, <3>1, OwedAlone DEF Balanced, Sound, Balance
  <2> QED
    BY <2>1, TypesMean DEF Balanced, NothingFromNothing
<1> QED
  BY <1>1, BalancedStart, BalancedStep, PTL DEF Spec
=============================================================================
