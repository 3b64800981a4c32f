--------------------------------- MODULE Equip ---------------------------------
(***************************************************************************)
(* Psychubes and psychube materials of all accounts: granting them         *)
(* (db/game/equipment.rs), strengthening, refining, breaking through and   *)
(* locking them (handlers/equip, models/game/equipment.rs).  A handler     *)
(* reads the rows it needs, computes, and writes absolute values back, one *)
(* statement at a time and in no transaction.                              *)
(*                                                                         *)
(* Experience is counted in units of what the second level costs: a piece  *)
(* of the first level and a material give one more than was put into them, *)
(* any other piece gives what was put into it.                             *)
(*                                                                         *)
(* The rows to eat and their numbers are the client's.  No handler looks   *)
(* whether a number is positive, or whether a row is named twice.          *)
(***************************************************************************)
EXTENDS Integers, FiniteSets, FiniteSetsExt, Sequences

CONSTANTS
    Player,
    Conn,          \* connections to the game server
    PlayerOf,      \* PlayerOf[c]: the player logged in on c
    Kind,          \* equip ids
    Material,      \* the stackable ones: one row holds any number of them
    Universal,     \* the ones that refine every piece
    LockedKind,    \* the ones that are granted locked
    Starter,       \* Starter[u]: player and kind of the starter piece with uid u
    MaxRefine, MaxBreak,
    BreakAt,       \* the experience a piece must have to be broken through
    None,
    Lots,          \* numbers of pieces granted at once; a purchase of -1 grants -1
    Takes,         \* numbers of pieces a client says are to be eaten of a row
    MaxEaten,      \* bound: entries in the list of one request
    MaxRequests,   \* bound: requests served
    MaxUid         \* bound: requests only start while no uid above is used

ASSUME EquipAssumption ==
    /\ IsFiniteSet(Conn) /\ PlayerOf \in [Conn -> Player]
    /\ Material \subseteq Kind /\ Universal \subseteq Kind \ Material
    /\ LockedKind \subseteq Kind
    /\ Lots \subseteq Int /\ Takes \subseteq Int
    /\ {MaxBreak, MaxEaten, MaxRequests, MaxUid} \subseteq Nat
    /\ {MaxRefine, BreakAt} \subseteq Nat \ {0}
    /\ \E n \in 0..MaxUid : Starter \in [1..n -> Player \X (Kind \ Material)]

\* uids are counted from 30000000 in the code.
First == 1
Uid == Nat \ {0}

\* exp is all that was put into the row; raised says that its level is above one.
Row == [player : Player, kind : Kind, count : Int, exp : Int, raised : BOOLEAN,
        breakLv : 0..MaxBreak, refine : 1..MaxRefine, lock : BOOLEAN]

\* An entry of the client's list, and what a handler keeps of one that is good: its
\* place from the end of the list, how many pieces go, how many are then left, and
\* what they give.  Refining compares no numbers.
Entry == [uid : Uid, take : Takes \cup {1}]
Food == [at : Nat, uid : Uid, kind : Kind, take : Int, left : Int, gain : Int]

Stage == {"idle", "find", "stack", "takeUid", "insert", "target", "food", "write", "eat", "break"}

VARIABLES
    equipment,  \* equipment[u]: the row with uid u, for every uid in use
    pc,         \* pc[c]: the next statement of c's handler
    op,         \* op[c]: what c's handler is for
    kind, todo, \* the kind c grants, and how many pieces are still to come
    uid,        \* uid[c]: the row c is about to write
    target,     \* target[c]: that row as c read it
    picks,      \* picks[c]: the entries of the client's list that c has not come to
    food,       \* food[c]: what it keeps of those it has found good
    received,   \* history: what players were granted
    left,       \* history: what handlers that stopped had used and not eaten
    strange,    \* history: the players one of whose requests was not Proper
    requests    \* history: requests so far

job == <<op, kind, todo, uid, target, picks, food>>
vars == <<equipment, pc, job, received, left, strange, requests>>

Used == DOMAIN equipment

TypeOK ==
    /\ Used \subseteq Uid /\ equipment \in [Used -> Row]
    /\ pc \in [Conn -> Stage]
    /\ op \in [Conn -> {None, "grant", "strengthen", "refine", "break"}]
    /\ kind \in [Conn -> Kind \cup {None}]
    /\ todo \in [Conn -> Int]
    /\ uid \in [Conn -> Uid \cup {None}]
    /\ target \in [Conn -> Row \cup {None}]
    /\ picks \in [Conn -> Seq(Entry)]
    /\ \A c \in Conn : food[c] \subseteq Food
    /\ received \in [Player -> Int]
    /\ left \in [Player -> Int]
    /\ strange \subseteq Player
    /\ requests \in 0..MaxRequests

Of(p) == {u \in Used : equipment[u].player = p}
Mine(c) == Of(PlayerOf[c])

\* load_equipment: pieces at their best.
StarterRow(piece) ==
    [player |-> piece[1], kind |-> piece[2], count |-> 1, exp |-> BreakAt, raised |-> TRUE, breakLv |-> MaxBreak,
     refine |-> MaxRefine, lock |-> piece[2] \in LockedKind]

\* What a row can give when it is eaten, and what it is worth at most.
Gain(row) == IF row.raised /\ row.kind \notin Material THEN row.exp ELSE 1 + row.exp
Worth(row) == row.count + row.exp + row.refine - 1
Wealth(p) == SumFunctionOnSet([u \in Used |-> Worth(equipment[u])], Of(p))

Init ==
    /\ equipment = [u \in DOMAIN Starter |-> StarterRow(Starter[u])]
    /\ pc = [c \in Conn |-> "idle"]
    /\ op = [c \in Conn |-> None]
    /\ kind = [c \in Conn |-> None]
    /\ todo = [c \in Conn |-> 0]
    /\ uid = [c \in Conn |-> None]
    /\ target = [c \in Conn |-> None]
    /\ picks = [c \in Conn |-> << >>]
    /\ food = [c \in Conn |-> {}]
    /\ received = [p \in Player |-> Wealth(p)]
    /\ left = [p \in Player |-> 0]
    /\ strange = {}
    /\ requests = 0

-----------------------------------------------------------------------------
Goto(c, stage) == pc' = [pc EXCEPT ![c] = stage]

\* The handler is over: its local variables are gone.
Return(c) ==
    /\ Goto(c, "idle")
    /\ op' = [op EXCEPT ![c] = None]
    /\ kind' = [kind EXCEPT ![c] = None]
    /\ todo' = [todo EXCEPT ![c] = 0]
    /\ uid' = [uid EXCEPT ![c] = None]
    /\ target' = [target EXCEPT ![c] = None]
    /\ picks' = [picks EXCEPT ![c] = << >>]
    /\ food' = [food EXCEPT ![c] = {}]

Request(c) ==
    /\ pc[c] = "idle"
    /\ requests < MaxRequests
    /\ \A u \in Used : u <= MaxUid
    /\ requests' = requests + 1

-----------------------------------------------------------------------------
(* add_equipments, called with one kind by a mail, an event, a purchase or *)
(* a consumable.                                                           *)

Grant(c, k, n) ==
    /\ Request(c)
    /\ op' = [op EXCEPT ![c] = "grant"]
    /\ kind' = [kind EXCEPT ![c] = k]
    /\ todo' = [todo EXCEPT ![c] = n]
    /\ Goto(c, IF k \in Material THEN "find" ELSE "takeUid")
    /\ UNCHANGED <<equipment, uid, target, picks, food, received, left, strange>>

\* A material the player has goes on its row.
FindStack(c) ==
    /\ pc[c] = "find"
    /\ LET stacks == {u \in Mine(c) : equipment[u].kind = kind[c]}
       IN IF stacks = {}
          THEN Goto(c, "takeUid") /\ UNCHANGED uid
          ELSE Goto(c, "stack") /\ uid' = [uid EXCEPT ![c] = Min(stacks)]
    /\ UNCHANGED <<equipment, op, kind, todo, target, picks, food, received, left, strange, requests>>

AddToStack(c) ==
    /\ pc[c] = "stack"
    /\ uid[c] \in Mine(c) /\ equipment[uid[c]].kind = kind[c]
    /\ equipment' = [equipment EXCEPT ![uid[c]].count = @ + todo[c]]
    /\ received' = [received EXCEPT ![PlayerOf[c]] = @ + todo[c]]
    /\ Return(c)
    /\ UNCHANGED <<left, strange, requests>>

\* The uid after the largest of the player's own; of a piece, a number that is not
\* positive makes no row.
TakeUid(c) ==
    /\ pc[c] = "takeUid"
    /\ IF todo[c] > 0 \/ kind[c] \in Material
       THEN /\ uid' = [uid EXCEPT ![c] = IF Mine(c) = {} THEN First ELSE Max(Mine(c)) + 1]
            /\ Goto(c, "insert")
            /\ UNCHANGED <<op, kind, todo, target, picks, food>>
       ELSE Return(c)
    /\ UNCHANGED <<equipment, received, left, strange, requests>>

\* The row of a granted piece, or of a granted material.
NewRow(c, lot) ==
    [player |-> PlayerOf[c], kind |-> kind[c], count |-> lot, exp |-> 0, raised |-> FALSE,
     breakLv |-> 0, refine |-> 1, lock |-> kind[c] \in LockedKind]

Lot(c) == IF kind[c] \in Material THEN todo[c] ELSE 1

\* The next piece of the lot, or the end of the grant.
Insert(c) ==
    /\ equipment' = [u \in Used \cup {uid[c]} |->
                        IF u = uid[c] THEN NewRow(c, Lot(c)) ELSE equipment[u]]
    /\ received' = [received EXCEPT ![PlayerOf[c]] = @ + Lot(c)]
    /\ IF todo[c] = Lot(c)
       THEN Return(c)
       ELSE /\ todo' = [todo EXCEPT ![c] = @ - Lot(c)]
            /\ uid' = [uid EXCEPT ![c] = @ + 1]
            /\ UNCHANGED <<pc, op, kind, target, picks, food>>
    /\ UNCHANGED <<left, strange, requests>>

\* Mutant of InsertEquip: INSERT OR REPLACE.
InsertOrReplaceEquip(c) == pc[c] = "insert" /\ Insert(c)

\* One row per piece, or one row for all of a material; uids are unique, so the
\* grant ends at one that another player, or another grant, has taken.
InsertEquip(c) ==
    /\ pc[c] = "insert"
    /\ uid[c] \notin Used
    /\ Insert(c)

-----------------------------------------------------------------------------
(* Strengthening and refining: read the piece, read what it is to eat,     *)
(* write the piece, eat.                                                   *)

\* What the game's own client sends: a piece, and of other rows a positive number
\* each.  The handlers serve any other list as well.
Proper(u, list) ==
    /\ equipment[u].kind \notin Material
    /\ \A i \in DOMAIN list : list[i].take > 0
    /\ \A i, j \in DOMAIN list : list[i].uid = list[j].uid => i = j

Feed(c, what, u, list) ==
    /\ Request(c)
    /\ op' = [op EXCEPT ![c] = what]
    /\ uid' = [uid EXCEPT ![c] = u]
    /\ picks' = [picks EXCEPT ![c] = list]
    /\ strange' = IF Proper(u, list) THEN strange ELSE strange \cup {PlayerOf[c]}
    /\ Goto(c, "target")
    /\ UNCHANGED <<equipment, kind, todo, target, food, received, left>>

ReadTarget(c) ==
    /\ pc[c] = "target"
    /\ uid[c] \in Mine(c)
    /\ target' = [target EXCEPT ![c] = equipment[uid[c]]]
    /\ Goto(c, IF op[c] = "break" THEN "break" ELSE "food")
    /\ UNCHANGED <<equipment, op, kind, todo, uid, picks, food, received, left, strange, requests>>

\* Mutant of Good: locked pieces are eaten.
GoodThoughLocked(c, u, take) ==
    /\ u \in Mine(c) \ {uid[c]}
    /\ IF op[c] = "refine"
       THEN equipment[u].kind \in {target[c].kind} \cup Universal
       ELSE take <= equipment[u].count

\* The row is the player's and not the target; strengthening takes no more than are
\* there, and refining a piece of the target's kind or a universal one.
Good(c, u, take) ==
    /\ u \in Mine(c) \ {uid[c]}
    /\ ~equipment[u].lock
    /\ IF op[c] = "refine"
       THEN equipment[u].kind \in {target[c].kind} \cup Universal
       ELSE take <= equipment[u].count

FoodFrom(u, take, place) ==
    [at |-> place, uid |-> u, kind |-> equipment[u].kind, take |-> take,
     left |-> equipment[u].count - take, gain |-> Gain(equipment[u]) * take]

\* The next entry's row is read as it is now, and the entry skipped unless it is good.
ReadFood(c) ==
    /\ pc[c] = "food"
    /\ IF picks[c] = << >>
       THEN Goto(c, "write") /\ UNCHANGED <<picks, food>>
       ELSE LET u == Head(picks[c]).uid
                take == Head(picks[c]).take
            IN /\ picks' = [picks EXCEPT ![c] = Tail(@)]
               /\ food' = [food EXCEPT ![c] =
                             IF Good(c, u, take)
                             THEN @ \cup {FoodFrom(u, take, Len(picks[c]))}
                             ELSE @]
               /\ UNCHANGED pc
    /\ UNCHANGED <<equipment, op, kind, todo, uid, target, received, left, strange, requests>>

Pieces(c) == Cardinality(food[c])
TotalExp(c) == SumFunctionOnSet([f \in food[c] |-> f.gain], food[c])

\* The piece gets what it had when it was read, and what it eats.  Strengthening
\* with nothing to gain ends here.
WriteTarget(c) ==
    /\ pc[c] = "write"
    /\ IF op[c] = "strengthen" /\ TotalExp(c) = 0
       THEN Return(c) /\ UNCHANGED equipment
       ELSE /\ LET exp == target[c].exp + TotalExp(c)
                   refine == Min({target[c].refine + Pieces(c), MaxRefine})
               IN equipment' =
                    IF uid[c] \notin Mine(c) THEN equipment
                    ELSE IF op[c] = "strengthen"
                    THEN [equipment EXCEPT ![uid[c]].exp = exp,
                                           ![uid[c]].raised = target[c].raised \/ exp > 0]
                    ELSE [equipment EXCEPT ![uid[c]].refine = refine]
            /\ Goto(c, "eat")
            /\ UNCHANGED job
    /\ UNCHANGED <<received, left, strange, requests>>

\* Mutant of EatRow: one is taken from the row, whatever number gave experience.
EatOne(c, f) ==
    IF f.uid \notin Mine(c) THEN equipment
    ELSE IF op[c] = "strengthen" /\ (f.left > 0 \/ f.kind \in Material)
    THEN [equipment EXCEPT ![f.uid].count = @ - 1]
    ELSE [u \in Used \ {f.uid} |-> equipment[u]]

\* The row gets the number that was left when it was read, and goes unless it is a
\* material's or some are left; rows that refine always go.
EatRow(c, f) ==
    IF f.uid \notin Mine(c) THEN equipment
    ELSE IF op[c] = "strengthen" /\ (f.left > 0 \/ f.kind \in Material)
    THEN [equipment EXCEPT ![f.uid].count = f.left]
    ELSE [u \in Used \ {f.uid} |-> equipment[u]]

\* In the order of the list: of two entries for one row the last is what stays.
Eat(c) ==
    /\ pc[c] = "eat"
    /\ IF food[c] = {}
       THEN Return(c) /\ UNCHANGED equipment
       ELSE \E f \in food[c] :
              /\ \A g \in food[c] : g.at <= f.at
              /\ equipment' = EatRow(c, f)
              /\ food' = [food EXCEPT ![c] = @ \ {f}]
              /\ UNCHANGED <<pc, op, kind, todo, uid, target, picks>>
    /\ UNCHANGED <<received, left, strange, requests>>

-----------------------------------------------------------------------------
\* on_equip_break reads the piece, ...
Break(c, u) ==
    /\ Request(c)
    /\ op' = [op EXCEPT ![c] = "break"]
    /\ uid' = [uid EXCEPT ![c] = u]
    /\ Goto(c, "target")
    /\ UNCHANGED <<equipment, kind, todo, target, picks, food, received, left, strange>>

\*    ends if it is not ready or cannot be paid, and otherwise has break_level read
\*    the row again and write back the break level it has read there.
SetBreak(c) ==
    /\ pc[c] = "break"
    /\ target[c].exp >= BreakAt /\ target[c].breakLv < MaxBreak
    /\ Return(c)
    /\ UNCHANGED <<equipment, received, left, strange, requests>>

\* on_equip_lock
Lock(c, u) ==
    /\ Request(c)
    /\ u \in Mine(c)
    /\ equipment' = [equipment EXCEPT ![u].lock = ~@]
    /\ UNCHANGED <<pc, job, received, left, strange>>

\* What c has put on its target and not eaten yet, and all connections of p have.
Owed(c) == IF pc[c] = "eat" THEN TotalExp(c) ELSE 0
OwedBy(p) == SumFunctionOnSet([c \in Conn |-> Owed(c)], {c \in Conn : PlayerOf[c] = p})

\* A statement fails, a guard of the handler does not hold, or the client is gone:
\* the handler ends where it is.
Fail(c) ==
    /\ pc[c] # "idle"
    /\ left' = [left EXCEPT ![PlayerOf[c]] = @ + Owed(c)]
    /\ Return(c)
    /\ UNCHANGED <<equipment, received, strange, requests>>

\* The process stops.
Crash ==
    /\ left' = [p \in Player |-> left[p] + OwedBy(p)]
    /\ pc' = [c \in Conn |-> "idle"]
    /\ op' = [c \in Conn |-> None]
    /\ kind' = [c \in Conn |-> None]
    /\ todo' = [c \in Conn |-> 0]
    /\ uid' = [c \in Conn |-> None]
    /\ target' = [c \in Conn |-> None]
    /\ picks' = [c \in Conn |-> << >>]
    /\ food' = [c \in Conn |-> {}]
    /\ UNCHANGED <<equipment, received, strange, requests>>

\* The lists of a request to strengthen, and to refine: a row may come twice, and be
\* the target or another player's.
Lists(takes) == UNION {[1..n -> [uid : Used, take : takes]] : n \in 1..MaxEaten}

Requests(c) ==
    \/ \E k \in Kind, n \in Lots : Grant(c, k, n)
    \/ \E u \in Mine(c) :
          \/ \E list \in Lists(Takes) : Feed(c, "strengthen", u, list)
          \/ \E list \in Lists({1}) : Feed(c, "refine", u, list)
          \/ Break(c, u)
          \/ Lock(c, u)

Step(c) ==
    \/ FindStack(c) \/ AddToStack(c) \/ TakeUid(c) \/ InsertEquip(c)
    \/ ReadTarget(c) \/ ReadFood(c) \/ WriteTarget(c) \/ Eat(c)
    \/ SetBreak(c)
    \/ Fail(c)

Next ==
    \/ \E c \in Conn : Requests(c) \/ Step(c)
    \/ Crash

Spec == Init /\ [][Next]_vars

-----------------------------------------------------------------------------
(* Properties.                                                             *)

\* The rows of a player change only in steps of the player's own connections,
\* whoever else is granted a uid that was the player's, or takes one it wants.
Rests(c) == pc'[c] = pc[c] /\ todo'[c] = todo[c] /\ food'[c] = food[c]

OthersUntouched ==
    [][\A p \in Player :
          requests' = requests /\ (\A c \in Conn : PlayerOf[c] = p => Rests(c))
             => Of(p)' = Of(p) /\ \A u \in Of(p) : equipment'[u] = equipment[u]]_vars

Alone(p) == Cardinality({c \in Conn : PlayerOf[c] = p}) = 1

\* With one connection and proper requests, pieces, experience and refinements
\* together never exceed what the player was granted, but for what a handler had
\* still to eat when it stopped.  A list that names a row twice, or a number below
\* one, does give something for nothing: such players are left out.
NothingFromNothing ==
    /\ TypeOK
    /\ \A p \in Player \ strange :
          Alone(p) => Wealth(p) <= received[p] + left[p] + OwedBy(p)

\* With one connection, a locked piece stays as long as it is locked.
LockedStays ==
    [][\A u \in Used :
          Alone(equipment[u].player) /\ equipment[u].lock => u \in Used']_vars

\* A break-through that is paid for and answered raises the break level, as its
\* log says.
BreakRaises ==
    [][\A c \in Conn :
          SetBreak(c) /\ uid[c] \in Mine(c)
             => equipment'[uid[c]].breakLv = equipment[uid[c]].breakLv + 1]_vars
=============================================================================
