---------------------------- MODULE DestinyProofs ----------------------------
(***************************************************************************)
(* Theorems about modules Destiny and Kit, for every set of heroes,        *)
(* materials, stones, sessions, readers and spenders and every catalogue   *)
(* without gaps.                                                           *)
(*                                                                         *)
(* All rest on the inductive invariant IInv: an open transaction's pages,  *)
(* plan and pending answer are functions of the committed state and of its *)
(* command.  The ledger adds that the nodes a command charges for are      *)
(* those that come onto the hero's way (WayGrows), and what a battle can   *)
(* read that a hero without a stage has no stone (StonesAfterStages).      *)
(***************************************************************************)
EXTENDS Kit, Sums, FiniteSetTheorems, TLAPS

USE DEF Positive, Stage, dbVars, sessionVars

-----------------------------------------------------------------------------
(* The rules of DestinyPlan.                                               *)

\* A legal command turns a row into a row.
LEMMA AfterType ==
    ASSUME NEW c \in Command, c.hero \in Eligible,
           NEW row \in Row, Legal(row, c)
    PROVE  After(row, c) \in Row
<1> c.op \in Op /\ c.arg \in Nat /\ row.rank \in Nat /\ row.level \in Nat
      /\ row.stone \in Nat /\ row.unlocked \in SUBSET Stone
  BY CatalogAssumption DEF Command, Row
<1>1. CASE c.op = "RankUp"
  <2>1. TargetRank(row) \in Nat
    BY DEF TargetRank, Unopened
  <2> QED
    BY <1>1, <2>1 DEF After, Row
<1>2. CASE c.op = "LevelUp"
  BY <1>2 DEF After, Row
<1>3. CASE c.op = "UnlockStone"
  BY <1>3, CatalogAssumption DEF After, Row, Legal, UnlockLegal
<1>4. CASE c.op = "UseStone"
  BY <1>4 DEF After, Row
<1> QED
  BY <1>1, <1>2, <1>3, <1>4 DEF Op

\* A legal command leaves a valid row valid.
LEMMA AfterValid ==
    ASSUME NEW c \in Command, c.hero \in Eligible,
           NEW row \in Row, Legal(row, c), RowValid(c.hero, row)
    PROVE  RowValid(c.hero, After(row, c))
<1> c.op \in Op /\ c.arg \in Nat /\ row.rank \in Nat /\ row.level \in Nat
      /\ row.stone \in Nat /\ row.unlocked \in SUBSET Stone
  BY CatalogAssumption DEF Command, Row
<1>1. CASE c.op = "RankUp"
  <2> DEFINE new == After(row, c)
  <2>1. /\ new.rank = TargetRank(row) /\ new.level = 1
        /\ new.stone = row.stone /\ new.unlocked = row.unlocked
    BY <1>1 DEF After, Row
  <2>2. TargetRank(row) > 0
    BY DEF TargetRank
  <2>3. <<TargetRank(row), 1>> \in Slot[c.hero]
    BY <1>1 DEF Legal, RankUpLegal
  <2> QED
    BY <2>1, <2>2, <2>3 DEF RowValid, OnConfiguredNode
<1>2. CASE c.op = "LevelUp"
  <2> DEFINE new == After(row, c)
  <2>1. /\ new.rank = row.rank /\ new.level = c.arg
        /\ new.stone = row.stone /\ new.unlocked = row.unlocked
    BY <1>2 DEF After, Row
  <2>2. LevelUpLegal(c.hero, row, c.arg)
    BY <1>2 DEF Legal
  <2>3. c.arg >= row.level
    BY <2>2 DEF LevelUpLegal
  <2>4. row.rank > 0 /\ row.level > 0
    BY <2>2 DEF LevelUpLegal, OnConfiguredNode
  <2>5. <<row.rank, c.arg>> \in Slot[c.hero]
    BY <2>2, <2>3 DEF LevelUpLegal, OnConfiguredNode
  <2>6. OnConfiguredNode(c.hero, new)
    BY <2>1, <2>3, <2>4, <2>5 DEF OnConfiguredNode
  <2> QED
    BY <2>1, <2>6 DEF RowValid
<1>3. CASE c.op = "UnlockStone"
  BY <1>3 DEF After, Row, Legal, UnlockLegal, RowValid, Unopened, OnConfiguredNode
<1>4. CASE c.op = "UseStone"
  BY <1>4 DEF After, Row, Legal, UseLegal, RowValid, Unopened, OnConfiguredNode
<1> QED
  BY <1>1, <1>2, <1>3, <1>4 DEF Op

\* A legal command never moves a hero back, and one that changes the row
\* without moving the hero ahead only equips a stone.
LEMMA AfterNotBehind ==
    ASSUME NEW c \in Command, c.hero \in Eligible,
           NEW row \in Row, Legal(row, c), After(row, c) # row
    PROVE  /\ NotBehind(row, After(row, c))
           /\ c.op # "UseStone" => Ahead(row, After(row, c))
<1> c.op \in Op /\ c.arg \in Nat /\ row.rank \in Nat /\ row.level \in Nat
      /\ row.stone \in Nat /\ row.unlocked \in SUBSET Stone
  BY CatalogAssumption DEF Command, Row
<1>1. CASE c.op = "RankUp"
  <2>1. /\ After(row, c).rank = TargetRank(row)
        /\ After(row, c).unlocked = row.unlocked
    BY <1>1 DEF After, Row
  <2>2. TargetRank(row) \in Nat /\ TargetRank(row) > row.rank
    BY DEF TargetRank, Unopened
  <2> QED
    BY <2>1, <2>2 DEF NotBehind, Ahead
<1>2. CASE c.op = "LevelUp"
  <2>1. After(row, c) = [row EXCEPT !.level = c.arg]
    BY <1>2 DEF After
  <2>2. /\ After(row, c).rank = row.rank /\ After(row, c).level = c.arg
        /\ After(row, c).unlocked = row.unlocked
    BY <2>1 DEF Row
  <2>3. c.arg # row.level
    BY <2>1 DEF Row
  <2>4. c.arg >= row.level
    <3>1. LevelUpLegal(c.hero, row, c.arg)
      BY <1>2 DEF Legal
    <3> QED
      BY <3>1 DEF LevelUpLegal
  <2> QED
    BY <2>2, <2>3, <2>4 DEF NotBehind, Ahead
<1>3. CASE c.op = "UnlockStone"
  <2>1. After(row, c) = [row EXCEPT !.unlocked = row.unlocked \cup {c.arg}]
    BY <1>3 DEF After
  <2>2. /\ After(row, c).rank = row.rank /\ After(row, c).level = row.level
        /\ After(row, c).unlocked = row.unlocked \cup {c.arg}
    BY <2>1 DEF Row
  <2>3. row.unlocked \cup {c.arg} # row.unlocked
    BY <2>1 DEF Row
  <2> QED
    BY <2>2, <2>3 DEF NotBehind, Ahead
<1>4. CASE c.op = "UseStone"
  BY <1>4 DEF After, Row, NotBehind
<1> QED
  BY <1>1, <1>2, <1>3, <1>4 DEF Op

\* Every row an account starts with is one the game can show.
LEMMA InitialRowValid ==
    ASSUME NEW h \in Eligible, NEW row \in InitialRows(h)
    PROVE  row \in Row /\ RowValid(h, row)
<1>1. CASE row = FreshRow
  BY <1>1 DEF FreshRow, Row, RowValid, Unopened, NoStone
<1>2. ASSUME NEW n \in LastSlots(h), NEW x \in Facet[h],
             row = [rank |-> n[1], level |-> n[2], stone |-> x, unlocked |-> Facet[h]]
      PROVE  row \in Row /\ RowValid(h, row)
  <2>1. n \in Slot[h] /\ n \in Positive \X Positive /\ n = <<n[1], n[2]>>
    BY CatalogAssumption DEF LastSlots
  <2>2. n[1] \in Nat /\ n[1] > 0 /\ n[2] \in Nat /\ n[2] > 0
    BY <2>1
  <2> QED
    BY <1>2, <2>1, <2>2, CatalogAssumption DEF Row, RowValid, OnConfiguredNode
<1> QED
  BY <1>1, <1>2 DEF InitialRows, StarterRows

\* The price of a plan that changes something is a natural number per
\* material, and nothing for a material the plan does not list.
LEMMA PriceOfPlan ==
    ASSUME NEW c \in Command, NEW row, Accepted(row, c), After(row, c) # row
    PROVE  /\ \A m \in Material : Cost(row, c)[m] \in Nat
           /\ \A m \in Material \ Materials(row, c) : Cost(row, c)[m] = 0
BY CatalogAssumption DEF Accepted, Price, Materials

-----------------------------------------------------------------------------
(* Frames: what a step of one session leaves alone.                        *)

USE DestinyAssumption

Held == {"open", "pay", "commit", "rollback"}

\* Only the session that holds the write lock is inside a transaction.
LEMMA OneWriter ==
    ASSUME LockInv, NEW s \in Session, NEW t \in Session, t # s, pc[s] \in Held
    PROVE  writer = s /\ pc[t] \notin Held
BY DEF LockInv, Held

\* What one session knows (the body of TransactionInv).
Knows(s) ==
    /\ pc[s] = "open" => Opened(s)
    /\ pc[s] = "pay" => Paying(s)
    /\ pc[s] = "commit" => Committing(s)
    /\ pc[s] = "rollback" => RollingBack(s)

\* It depends on nothing but the database and the session itself.
LEMMA StillKnows ==
    ASSUME TransactionInv, NEW t \in Session,
           rows' = rows, balance' = balance,
           pc[t] \notin Held \/ tx' = tx,
           pc'[t] = pc[t], cmd'[t] = cmd[t], result'[t] = result[t]
    PROVE  Knows(t)'
<1>1. CASE pc[t] = "open"
  BY <1>1 DEF TransactionInv, Opened, Held, Knows
<1>2. CASE pc[t] = "pay"
  BY <1>2 DEF TransactionInv, Paying, Planned, Covers, Held, Knows
<1>3. CASE pc[t] = "commit"
  <2>1. tx' = tx /\ Committing(t)
    BY <1>3 DEF TransactionInv, Held
  <2>2. Committing(t)'
    BY <2>1 DEF Committing, Planned, Covers, Change
  <2> QED
    BY <1>3, <2>2 DEF Knows
<1>4. CASE pc[t] = "rollback"
  BY <1>4 DEF TransactionInv, RollingBack, Atomic!Truthful, Atomic!Missing, Held, Knows
<1>5. CASE pc[t] \notin Held
  BY <1>5 DEF Held, Knows
<1> QED
  BY <1>1, <1>2, <1>3, <1>4, <1>5 DEF Held

\* A step of s that keeps the committed state, and the pages unless they are
\* its own or nobody's, preserves what every other session knows.
LEMMA OthersUndisturbed ==
    ASSUME TransactionInv, LockInv, NEW s \in Session,
           rows' = rows, balance' = balance,
           tx' = tx \/ writer = s \/ writer = None,
           \A t \in Session \ {s} :
               pc'[t] = pc[t] /\ cmd'[t] = cmd[t] /\ result'[t] = result[t],
           pc'[s] = "open" => Opened(s)',
           pc'[s] = "pay" => Paying(s)',
           pc'[s] = "commit" => Committing(s)',
           pc'[s] = "rollback" => RollingBack(s)'
    PROVE  TransactionInv'
<1> SUFFICES ASSUME NEW t \in Session, t # s
             PROVE  Knows(t)'
  BY DEF TransactionInv, Knows
<1>1. pc[t] \notin Held \/ tx' = tx
  BY DEF LockInv, Held, DestinyAssumption
<1> QED
  BY <1>1, StillKnows DEF Held

\* A step that leaves nobody inside a transaction has nothing to preserve.
LEMMA NobodyInside ==
    ASSUME \A s \in Session : pc'[s] \notin Held
    PROVE  TransactionInv'
BY DEF TransactionInv, Held

-----------------------------------------------------------------------------
(* The inductive invariant.                                                *)

\* No transaction, no answer and a refusal each have their type.
LEMMA NoValues ==
    /\ NoTx \in Pages
    /\ NoResult \in Result
    /\ \A code \in {"Retry", "Invalid", "Insufficient", "Conflict", "Internal"} :
           Failure(code) \in Result /\ Failure(code).code = code
<1>1. FreshRow \in Row
  BY DEF FreshRow, Row, NoStone
<1>2. NoTx \in Pages
  BY <1>1 DEF NoTx, Pages
<1>3. NoResult \in Result
  BY <1>1 DEF NoResult, Result
<1>4. ASSUME NEW code \in {"Retry", "Invalid", "Insufficient", "Conflict", "Internal"}
      PROVE  Failure(code) \in Result /\ Failure(code).code = code
  BY <1>1 DEF NoResult, Result, Failure
<1> QED
  BY <1>2, <1>3, <1>4

\* No transaction is open at the start, so there is nothing to know of one.
LEMMA InitIInv == Init => IInv
<1> SUFFICES ASSUME Init PROVE IInv
  OBVIOUS
<1> USE CatalogAssumption, DestinyAssumption DEF Init
<1>1. rows \in [Eligible -> Row]
  <2>1. \A h \in Eligible : rows[h] \in Row
    BY InitialRowValid
  <2> QED
    BY <2>1
<1>2. NoResult \in Result
  BY NoValues
<1>3. tx \in Pages
  BY NoValues
<1>4. DOMAIN funded = Material
  OBVIOUS
<1>5. TypeOK
  BY <1>1, <1>2, <1>3, <1>4 DEF TypeOK
<1>6. CommandInv /\ LockInv /\ TransactionInv
  BY DEF CommandInv, LockInv, TransactionInv
<1> QED
  BY <1>5, <1>6 DEF IInv

\* What RetryOrConflict does, whichever of its branches it takes.
LEMMA RetryEffect ==
    ASSUME TypeOK, NEW s \in Session, RetryOrConflict(s)
    PROVE  /\ pc' = [pc EXCEPT ![s] = pc'[s]]
           /\ result' = [result EXCEPT ![s] = result'[s]]
           /\ attempt' \in [Session -> 0..(MaxAttempts - 1)]
           /\ \/ pc'[s] = "acquire" /\ result'[s] = NoResult
              \/ pc'[s] = "answer" /\ result'[s] = Failure("Conflict")
<1>1. CASE attempt[s] + 1 < MaxAttempts
  <2>1. attempt[s] \in 0..(MaxAttempts - 1) /\ attempt' = [attempt EXCEPT ![s] = attempt[s] + 1]
    BY <1>1 DEF RetryOrConflict, TypeOK
  <2>2. attempt[s] + 1 \in 0..(MaxAttempts - 1)
    BY <1>1, <2>1 DEF DestinyAssumption
  <2>3. attempt' \in [Session -> 0..(MaxAttempts - 1)]
    BY <2>1, <2>2 DEF TypeOK
  <2> QED
    BY <1>1, <2>3 DEF RetryOrConflict, Goto, TypeOK
<1>2. CASE ~(attempt[s] + 1 < MaxAttempts)
  BY <1>2 DEF RetryOrConflict, Finish, Goto, TypeOK
<1> QED
  BY <1>1, <1>2

\* Steps before and after the transaction: s moves from one stage outside the
\* transaction to another and touches nothing else of the database.
LEMMA OutsideStep ==
    ASSUME IInv, NEW s \in Session,
           pc[s] \notin Held, pc'[s] \in Stage \ Held,
           pc' = [pc EXCEPT ![s] = pc'[s]],
           cmd' \in [Session -> Command \cup {None}],
           cmd' = [cmd EXCEPT ![s] = cmd'[s]],
           cmd'[s] = None <=> pc'[s] = "idle",
           attempt' \in [Session -> 0..(MaxAttempts - 1)],
           result' = [result EXCEPT ![s] = result'[s]],
           result'[s] \in Result,
           pc'[s] = "answer" => result'[s].code \notin {"Pending", "Retry"},
           UNCHANGED <<rows, balance, writer, tx, readers, spend, funded>>
    PROVE  IInv'
<1>1. \A t \in Session \ {s} :
          pc'[t] = pc[t] /\ cmd'[t] = cmd[t] /\ result'[t] = result[t]
  BY DEF IInv, TypeOK
<1>2. TypeOK'
  BY DEF IInv, TypeOK
<1>3. CommandInv'
  BY <1>1 DEF IInv, CommandInv
<1>4. LockInv'
  BY <1>1 DEF IInv, LockInv, Held
<1>5. TransactionInv'
  BY <1>1, OthersUndisturbed DEF IInv, Held
<1> QED
  BY <1>2, <1>3, <1>4, <1>5 DEF IInv

\* Steps that change neither the database nor a session.
LEMMA Unchanged ==
    ASSUME IInv,
           readers' \subseteq Reader,
           spend' \in [Spender -> (Material \X Nat) \cup {None}],
           UNCHANGED <<rows, balance, writer, tx, pc, cmd, attempt, result, funded>>
    PROVE  IInv'
<1>1. TypeOK'
  BY DEF IInv, TypeOK
<1>2. CommandInv' /\ LockInv'
  BY DEF IInv, CommandInv, LockInv
<1>3. \A t \in Session : Knows(t)'
  BY StillKnows DEF IInv
<1> QED
  BY <1>1, <1>2, <1>3 DEF IInv, TransactionInv, Knows

\* A statement of another handler, run while nobody holds the file.
LEMMA FreeStep ==
    ASSUME IInv, writer = None,
           balance' \in [Material -> Int], DOMAIN funded' = Material,
           spend' \in [Spender -> (Material \X Nat) \cup {None}],
           UNCHANGED <<rows, writer, tx, readers, pc, cmd, attempt, result>>
    PROVE  IInv'
<1>1. TypeOK'
  BY DEF IInv, TypeOK
<1>2. CommandInv' /\ LockInv'
  BY DEF IInv, CommandInv, LockInv
<1>3. TransactionInv'
  BY NobodyInside DEF IInv, LockInv, DestinyAssumption, Held
<1> QED
  BY <1>1, <1>2, <1>3 DEF IInv

\* A transaction ends: s releases the lock and leaves for a stage outside.
LEMMA EndStep ==
    ASSUME IInv, NEW s \in Session,
           pc[s] \in Held, pc'[s] \in {"acquire", "answer"},
           pc' = [pc EXCEPT ![s] = pc'[s]],
           UNCHANGED cmd,
           attempt' \in [Session -> 0..(MaxAttempts - 1)],
           result' = [result EXCEPT ![s] = result'[s]],
           result'[s] \in Result,
           pc'[s] = "answer" => result'[s].code \notin {"Pending", "Retry"},
           rows' \in [Eligible -> Row], balance' \in [Material -> Int],
           writer' = None, tx' = NoTx,
           UNCHANGED <<readers, spend, funded>>
    PROVE  IInv'
<1>1. \A t \in Session \ {s} :
          pc'[t] = pc[t] /\ cmd'[t] = cmd[t] /\ result'[t] = result[t]
  BY DEF IInv, TypeOK
<1>2. TypeOK'
  BY NoValues DEF IInv, TypeOK
<1>3. CommandInv'
  BY <1>1 DEF IInv, CommandInv, Held
<1>4. \A t \in Session : pc'[t] \notin Held
  BY <1>1, OneWriter DEF IInv, Held
<1>5. LockInv'
  BY <1>4 DEF LockInv, DestinyAssumption, Held
<1>6. TransactionInv'
  BY <1>4, NobodyInside
<1> QED
  BY <1>2, <1>3, <1>5, <1>6 DEF IInv

\* A step inside the transaction of s: only its pages, stage and answer change.
LEMMA InsideStep ==
    ASSUME IInv, NEW s \in Session,
           pc[s] \in Held, pc'[s] \in Held,
           pc' = [pc EXCEPT ![s] = pc'[s]],
           result' = [result EXCEPT ![s] = result'[s]],
           result'[s] \in Result,
           tx' \in Pages,
           UNCHANGED <<rows, balance, writer, readers, cmd, attempt, spend, funded>>,
           pc'[s] # "open",
           pc'[s] = "pay" => Paying(s)',
           pc'[s] = "commit" => Committing(s)',
           pc'[s] = "rollback" => RollingBack(s)'
    PROVE  IInv'
<1>1. \A t \in Session \ {s} :
          pc'[t] = pc[t] /\ cmd'[t] = cmd[t] /\ result'[t] = result[t]
  BY DEF IInv, TypeOK
<1>2. TypeOK'
  BY DEF IInv, TypeOK, Held
<1>3. CommandInv'
  BY <1>1 DEF IInv, CommandInv, Held
<1>4. LockInv'
  BY <1>1 DEF IInv, LockInv, Held
<1>5. writer = s
  BY DEF IInv, LockInv, Held
<1>6. TransactionInv'
  BY <1>1, <1>5, OthersUndisturbed DEF IInv
<1> QED
  BY <1>2, <1>3, <1>4, <1>6 DEF IInv

\* The steps from the request to BEGIN, and the answer.
LEMMA OutsideActions ==
    ASSUME IInv, NEW s \in Session,
           \/ \E c \in Command : Submit(s, c)
           \/ Acquire(s) \/ AcquireTimesOut(s)
           \/ BeginBusy(s) \/ BeginFails(s) \/ Answer(s)
    PROVE  IInv'
<1>1. CASE \E c \in Command : Submit(s, c)
  <2>1. PICK c \in Command : Submit(s, c)
    BY <1>1
  <2>2. c # None /\ 0 \in 0..(MaxAttempts - 1)
    BY DEF DestinyAssumption
  <2>3. /\ pc[s] = "idle" /\ pc' = [pc EXCEPT ![s] = "acquire"] /\ pc'[s] = "acquire"
        /\ cmd' = [cmd EXCEPT ![s] = c] /\ cmd'[s] = c
        /\ cmd' \in [Session -> Command \cup {None}]
        /\ attempt' \in [Session -> 0..(MaxAttempts - 1)]
        /\ result' = [result EXCEPT ![s] = result'[s]] /\ result'[s] \in Result
    BY <2>1, <2>2 DEF Submit, Goto, IInv, TypeOK
  <2> QED
    BY <2>1, <2>2, <2>3, OutsideStep DEF Submit, Held
<1>2. CASE Acquire(s)
  <2>1. /\ pc[s] = "acquire" /\ pc' = [pc EXCEPT ![s] = "begin"] /\ pc'[s] = "begin"
        /\ cmd' = [cmd EXCEPT ![s] = cmd'[s]] /\ cmd'[s] # None
        /\ result' = [result EXCEPT ![s] = result'[s]] /\ result'[s] \in Result
    BY <1>2 DEF Acquire, Goto, IInv, TypeOK, CommandInv
  <2> QED
    BY <1>2, <2>1, OutsideStep DEF Acquire, IInv, TypeOK, Held
<1>3. CASE AcquireTimesOut(s) \/ BeginBusy(s)
  <2>1. RetryOrConflict(s) /\ pc[s] \in {"acquire", "begin"}
    BY <1>3 DEF AcquireTimesOut, BeginBusy
  <2>2. pc'[s] \in {"acquire", "answer"} /\ result'[s] \in Result
    BY <2>1, RetryEffect, NoValues DEF IInv
  <2>3. pc'[s] = "answer" => result'[s].code = "Conflict"
    BY <2>1, RetryEffect, NoValues DEF IInv
  <2> QED
    BY <1>3, <2>1, <2>2, <2>3, RetryEffect, OutsideStep
       DEF AcquireTimesOut, BeginBusy, IInv, TypeOK, CommandInv, Held
<1>4. CASE BeginFails(s)
  <2>1. /\ pc[s] = "begin" /\ pc' = [pc EXCEPT ![s] = "answer"] /\ pc'[s] = "answer"
        /\ cmd' = [cmd EXCEPT ![s] = cmd'[s]] /\ cmd'[s] # None
        /\ result' = [result EXCEPT ![s] = result'[s]] /\ result'[s] = Failure("Internal")
    BY <1>4 DEF BeginFails, Finish, Goto, IInv, TypeOK, CommandInv
  <2>2. result'[s] \in Result /\ result'[s].code = "Internal"
    BY <2>1, NoValues
  <2> QED
    BY <1>4, <2>1, <2>2, OutsideStep DEF BeginFails, IInv, TypeOK, Held
<1>5. CASE Answer(s)
  <2>1. 0 \in 0..(MaxAttempts - 1)
    BY DEF DestinyAssumption
  <2> QED
    <3>1. /\ pc[s] = "answer" /\ pc' = [pc EXCEPT ![s] = "idle"] /\ pc'[s] = "idle"
          /\ cmd' = [cmd EXCEPT ![s] = None] /\ cmd'[s] = None
          /\ cmd' \in [Session -> Command \cup {None}]
          /\ attempt' \in [Session -> 0..(MaxAttempts - 1)]
          /\ result' = [result EXCEPT ![s] = NoResult] /\ result'[s] = NoResult
      BY <1>5, <2>1 DEF Answer, Goto, IInv, TypeOK
    <3> QED
      BY <1>5, <3>1, NoValues, OutsideStep DEF Answer, Held
<1> QED
  BY <1>1, <1>2, <1>3, <1>4, <1>5

\* COMMIT and ROLLBACK.
LEMMA EndActions ==
    ASSUME IInv, NEW s \in Session,
           Commit(s) \/ Rollback(s) \/ RollbackFails(s)
    PROVE  IInv'
<1>1. CASE Commit(s)
  <2>1. result[s] \in Result /\ result[s].code = "Ok"
    <3>1. Committing(s)
      BY <1>1 DEF Commit, IInv, TransactionInv
    <3> QED
      BY <3>1 DEF Committing, Change, IInv, TypeOK
  <2>2. tx.rows \in [Eligible -> Row] /\ tx.balance \in [Material -> Int]
    BY DEF IInv, TypeOK, Pages
  <2> QED
    BY <1>1, <2>1, <2>2, EndStep DEF Commit, Goto, IInv, TypeOK, Held
<1>2. CASE Rollback(s)
  <2>1. PICK code \in {"Retry", "Internal", "Invalid", "Insufficient"} :
            result[s] = Failure(code) /\ result[s].code = code
    BY <1>2, NoValues DEF Rollback, IInv, TransactionInv, RollingBack
  <2>2. CASE code = "Retry"
    <3>1. RetryOrConflict(s)
      BY <1>2, <2>1, <2>2 DEF Rollback
    <3>2. pc'[s] \in {"acquire", "answer"} /\ result'[s] \in Result
      BY <3>1, RetryEffect, NoValues DEF IInv
    <3>3. pc'[s] = "answer" => result'[s].code = "Conflict"
      BY <3>1, RetryEffect, NoValues DEF IInv
    <3> QED
      BY <1>2, <3>1, <3>2, <3>3, RetryEffect, EndStep DEF Rollback, IInv, TypeOK, Held
  <2>3. CASE code # "Retry"
    BY <1>2, <2>1, <2>3, EndStep DEF Rollback, Goto, IInv, TypeOK, Held
  <2> QED
    BY <2>2, <2>3
<1>3. CASE RollbackFails(s)
  BY <1>3, EndStep, NoValues DEF RollbackFails, Finish, Goto, IInv, TypeOK, Held
<1> QED
  BY <1>1, <1>2, <1>3

\* The steps inside the transaction.
LEMMA Begins ==
    ASSUME IInv, NEW s \in Session, BeginImmediate(s)
    PROVE  IInv'
<1>1. \A t \in Session : pc[t] \notin Held
  BY DEF BeginImmediate, IInv, LockInv, DestinyAssumption, Held
<1>2. /\ pc' = [pc EXCEPT ![s] = "open"] /\ writer' = s
      /\ tx' \in Pages /\ tx'.rows = rows /\ tx'.balance = balance
  BY NoValues DEF BeginImmediate, Goto, IInv, TypeOK, NoTx, Pages
<1>3. /\ UNCHANGED <<rows, balance, readers, cmd, attempt, result, spend, funded>>
      /\ pc[s] = "begin"
  BY DEF BeginImmediate
<1>4. TypeOK'
  BY <1>2, <1>3 DEF IInv, TypeOK
<1>5. CommandInv'
  BY <1>2, <1>3 DEF IInv, CommandInv, TypeOK
<1>6. LockInv'
  BY <1>1, <1>2 DEF IInv, LockInv, TypeOK, Held
<1>7. TransactionInv'
  BY <1>1, <1>2, <1>3 DEF TransactionInv, Opened, IInv, TypeOK, Held
<1> QED
  BY <1>4, <1>5, <1>6, <1>7 DEF IInv

\* Abort for a reason that is true of the committed state.
LEMMA Aborts ==
    ASSUME IInv, NEW s \in Session, pc[s] \in {"open", "pay", "commit"},
           NEW code \in {"Retry", "Internal", "Invalid", "Insufficient"},
           Atomic!Truthful(cmd[s], code),
           Abort(s, code),
           UNCHANGED <<rows, balance, writer, tx, readers, cmd, attempt, spend, funded>>
    PROVE  IInv'
<1>1. /\ pc' = [pc EXCEPT ![s] = "rollback"] /\ pc'[s] = "rollback"
      /\ result' = [result EXCEPT ![s] = Failure(code)] /\ result'[s] = Failure(code)
  BY DEF Abort, Goto, IInv, TypeOK
<1>2. tx' \in Pages
  BY DEF IInv, TypeOK
<1>3. RollingBack(s)'
  BY <1>1 DEF RollingBack, Atomic!Truthful, Atomic!Missing
<1> QED
  BY <1>1, <1>2, <1>3, InsideStep, NoValues DEF Held

\* Planning establishes what the payment, the commit or the refusal relies on.
LEMMA Plans ==
    ASSUME IInv, NEW s \in Session, PlanAttempt(s)
    PROVE  IInv'
<1> DEFINE c == cmd[s]
           h == c.hero
           row == rows[h]
<1>1. pc[s] = "open" /\ c \in Command /\ Opened(s)
  BY DEF PlanAttempt, IInv, TypeOK, CommandInv, TransactionInv
<1>2. tx \in Pages /\ tx.rows = rows /\ tx.balance = balance
  BY <1>1 DEF IInv, TypeOK, Opened
<1>3. CASE h \notin Eligible \/ ~Accepted(row, c)
  <2>1. Abort(s, "Invalid") /\ UNCHANGED tx
    BY <1>2, <1>3 DEF PlanAttempt
  <2>2. Atomic!Truthful(c, "Invalid")
    BY <1>3 DEF Atomic!Truthful
  <2> QED
    BY <1>1, <2>1, <2>2, Aborts DEF PlanAttempt
<1>4. CASE Planned(c)
  <2>1. row \in Row
    BY <1>4 DEF Planned, IInv, TypeOK
  <2>2. CASE After(row, c) = row
    <3>1. /\ Goto(s, "commit")
          /\ result' = [result EXCEPT ![s] = Change(row, FALSE)]
          /\ tx' = [tx EXCEPT !.seen = row]
      BY <1>2, <1>4, <2>2 DEF PlanAttempt, Planned
    <3>2. tx' \in Pages /\ tx'.rows = rows /\ tx'.balance = balance
      BY <1>2, <2>1, <3>1 DEF Pages
    <3>3. Change(row, FALSE) \in Result
      BY <2>1 DEF Change, Result
    <3>4. pc' = [pc EXCEPT ![s] = "commit"] /\ pc'[s] = "commit"
          /\ result'[s] = Change(row, FALSE)
      BY <3>1 DEF Goto, IInv, TypeOK
    <3>5. UNCHANGED <<rows, balance, writer, readers, cmd, attempt, spend, funded>>
      BY DEF PlanAttempt
    <3>6. rows = [rows EXCEPT ![h] = row]
      BY <1>4 DEF Planned, IInv, TypeOK
    <3>7. Committing(s)'
      BY <1>4, <2>2, <3>2, <3>4, <3>5, <3>6 DEF Committing, Planned
    <3> QED
      BY <1>1, <3>1, <3>2, <3>3, <3>4, <3>5, <3>7, InsideStep DEF Held
  <2>3. CASE After(row, c) # row
    <3>1. /\ Goto(s, "pay")
          /\ tx' = [tx EXCEPT !.seen = row, !.unpaid = Materials(row, c)]
          /\ UNCHANGED result
      BY <1>2, <1>4, <2>3 DEF PlanAttempt, Planned
    <3>2. /\ tx' \in Pages /\ tx'.rows = rows /\ tx'.balance = balance
          /\ tx'.seen = row /\ tx'.unpaid = Materials(row, c)
      BY <1>2, <2>1, <3>1 DEF Pages, Materials
    <3>3. \A m \in Material \ Materials(row, c) : balance[m] = balance[m] - Cost(row, c)[m]
      <4>1. \A m \in Material : balance[m] \in Int
        BY DEF IInv, TypeOK
      <4>2. \A m \in Material \ Materials(row, c) : Cost(row, c)[m] = 0
        BY <1>1, <1>4, <2>3, PriceOfPlan DEF Planned
      <4> QED
        BY <4>1, <4>2
    <3>4. pc' = [pc EXCEPT ![s] = "pay"] /\ pc'[s] = "pay"
          /\ result' = [result EXCEPT ![s] = result'[s]] /\ result'[s] \in Result
      BY <3>1 DEF Goto, IInv, TypeOK
    <3>5. UNCHANGED <<rows, balance, writer, readers, cmd, attempt, spend, funded>>
      BY DEF PlanAttempt
    <3>6. Paying(s)'
      BY <1>4, <2>3, <3>2, <3>3, <3>5 DEF Paying, Planned
    <3> QED
      BY <1>1, <3>1, <3>2, <3>4, <3>5, <3>6, InsideStep DEF Held
  <2> QED
    BY <2>2, <2>3
<1> QED
  BY <1>3, <1>4 DEF Planned

\* One deduction takes one price from the private pages, or tells that it cannot.
LEMMA Deducts ==
    ASSUME IInv, NEW s \in Session, NEW m \in Material, Deduct(s, m)
    PROVE  IInv'
<1> DEFINE c == cmd[s]
           row == rows[c.hero]
           price == Cost(row, c)[m]
<1>1. pc[s] = "pay" /\ c \in Command /\ Paying(s)
  BY DEF Deduct, IInv, TypeOK, CommandInv, TransactionInv
<1>2. tx \in Pages /\ tx.seen = row /\ m \in tx.unpaid /\ tx.balance[m] = balance[m]
  BY <1>1 DEF Deduct, IInv, TypeOK, Paying
<1>3. \A n \in Material : Cost(row, c)[n] \in Nat /\ balance[n] \in Int
  BY <1>1, PriceOfPlan DEF Paying, Planned, IInv, TypeOK
<1>4. CASE balance[m] >= price
  <2>1. /\ tx' = [tx EXCEPT !.balance[m] = tx.balance[m] - price, !.unpaid = tx.unpaid \ {m}]
        /\ UNCHANGED <<pc, result>>
    BY <1>2, <1>4 DEF Deduct
  <2>2. /\ tx'.rows = tx.rows /\ tx'.seen = tx.seen /\ tx'.unpaid = tx.unpaid \ {m}
        /\ tx'.balance = [tx.balance EXCEPT ![m] = tx.balance[m] - price]
    BY <1>2, <2>1 DEF Pages
  <2>3. UNCHANGED <<rows, balance, writer, readers, cmd, attempt, spend, funded>>
    BY DEF Deduct
  <2>8. tx' \in Pages
    <3>1. tx'.balance \in [Material -> Int]
      BY <1>2, <1>3, <2>2 DEF Pages
    <3> QED
      BY <1>2, <2>1, <3>1 DEF Pages
  <2>4. \A n \in tx'.unpaid : tx'.balance[n] = balance[n]
    BY <1>1, <1>2, <2>2 DEF Paying, Pages
  <2>5. \A n \in Material \ tx'.unpaid : tx'.balance[n] = balance[n] - Cost(row, c)[n]
    BY <1>1, <1>2, <2>2 DEF Paying, Pages
  <2>6. \A n \in Materials(row, c) \ tx'.unpaid : balance[n] >= Cost(row, c)[n]
    BY <1>1, <1>4, <2>2 DEF Paying, Covers
  <2>7. Paying(s)'
    BY <1>1, <2>2, <2>3, <2>4, <2>5, <2>6 DEF Paying, Planned, Covers
  <2> QED
    BY <1>1, <2>1, <2>2, <2>3, <2>7, <2>8, InsideStep DEF IInv, TypeOK, Held
<1>5. CASE ~(balance[m] >= price)
  <2>1. Abort(s, "Insufficient") /\ UNCHANGED tx
    BY <1>2, <1>5 DEF Deduct
  <2>2. balance[m] < price /\ m \in Materials(row, c)
    BY <1>1, <1>2, <1>3, <1>5 DEF Paying
  <2>3. Atomic!Truthful(c, "Insufficient")
    <3>1. c.hero \in Eligible /\ Accepted(row, c)
      BY <1>1 DEF Paying, Planned
    <3>2. Atomic!Missing(c) # {}
      BY <1>3, <2>2 DEF Atomic!Missing, Materials
    <3> QED
      BY <3>1, <3>2 DEF Atomic!Truthful
  <2> QED
    BY <1>1, <2>1, <2>3, Aborts DEF Deduct
<1> QED
  BY <1>4, <1>5

\* The compare-and-set succeeds: the row is still the one planned from.
LEMMA Updates ==
    ASSUME IInv, NEW s \in Session, UpdateHero(s)
    PROVE  IInv'
<1> DEFINE c == cmd[s]
           h == c.hero
           row == rows[h]
           new == After(row, c)
<1>1. pc[s] = "pay" /\ c \in Command /\ Paying(s) /\ tx.unpaid = {}
  BY DEF UpdateHero, IInv, TypeOK, CommandInv, TransactionInv
<1>2. h \in Eligible /\ Accepted(row, c) /\ new # row /\ row \in Row
  BY <1>1 DEF Paying, Planned, IInv, TypeOK
<1>3. new \in Row
  BY <1>1, <1>2, AfterType DEF Accepted
<1>4. tx \in Pages /\ tx.rows = rows /\ tx.seen = row
  BY <1>1 DEF Paying, IInv, TypeOK
<1>5. /\ tx' = [tx EXCEPT !.rows[h] = new]
      /\ result' = [result EXCEPT ![s] = Change(new, TRUE)]
      /\ Goto(s, "commit")
  BY <1>4 DEF UpdateHero
<1>6. tx'.rows = [rows EXCEPT ![h] = new] /\ tx'.balance = tx.balance
  BY <1>2, <1>4, <1>5 DEF Pages
<1>7. tx' \in Pages
  <2>1. tx'.rows \in [Eligible -> Row]
    BY <1>3, <1>4, <1>6 DEF Pages
  <2> QED
    BY <1>4, <1>5, <2>1 DEF Pages
<1>8. Change(new, TRUE) \in Result
  BY <1>3 DEF Change, Result
<1>9. /\ pc' = [pc EXCEPT ![s] = "commit"] /\ pc'[s] = "commit"
      /\ result'[s] = Change(new, TRUE)
  BY <1>5 DEF Goto, IInv, TypeOK
<1>10. UNCHANGED <<rows, balance, writer, readers, cmd, attempt, spend, funded>>
  BY DEF UpdateHero
<1>11. /\ tx'.balance = [m \in Material |-> balance[m] - Cost(row, c)[m]]
       /\ \A m \in Materials(row, c) : balance[m] >= Cost(row, c)[m]
  BY <1>1, <1>4, <1>6 DEF Paying, Covers, Pages
<1>12. Committing(s)'
  BY <1>2, <1>6, <1>9, <1>10, <1>11 DEF Committing, Planned, Covers
<1> QED
  BY <1>1, <1>5, <1>7, <1>8, <1>9, <1>10, <1>12, InsideStep DEF Held

\* A failing statement or a busy COMMIT leads to a rollback that refuses nothing.
LEMMA Fails ==
    ASSUME IInv, NEW s \in Session,
           CommitBusy(s) \/ \E code \in {"Retry", "Internal"} : StatementFails(s, code)
    PROVE  IInv'
<1>1. PICK code \in {"Retry", "Internal"} :
          /\ pc[s] \in {"open", "pay", "commit"}
          /\ Abort(s, code)
          /\ UNCHANGED <<rows, balance, writer, tx, readers, cmd, attempt, spend, funded>>
  BY DEF CommitBusy, StatementFails
<1>2. Atomic!Truthful(cmd[s], code)
  BY DEF Atomic!Truthful
<1> QED
  BY <1>1, <1>2, Aborts

\* The other handlers, and the crash.
LEMMA EnvironmentSteps ==
    ASSUME IInv, Environment
    PROVE  IInv'
<1>1. CASE \E r \in Reader : StartRead(r) \/ EndRead(r)
  <2>1. /\ readers' \subseteq Reader
        /\ UNCHANGED <<rows, balance, writer, tx, pc, cmd, attempt, result, spend, funded>>
    BY <1>1 DEF StartRead, EndRead, IInv, TypeOK
  <2> QED
    BY <2>1, Unchanged DEF IInv, TypeOK
<1>2. CASE \E m \in Material : Grant(m)
  <2>1. PICK m \in Material : Grant(m)
    BY <1>2
  <2>2. balance' \in [Material -> Int] /\ DOMAIN funded' = Material
    BY <2>1 DEF Grant, IInv, TypeOK
  <2>3. writer = None /\ UNCHANGED <<rows, writer, tx, readers, pc, cmd, attempt, result, spend>>
    BY <2>1 DEF Grant, FileFree
  <2> QED
    BY <2>2, <2>3, FreeStep DEF IInv, TypeOK
<1>3. CASE \E p \in Spender, m \in Material, amount \in 1..MaxBalance : SpendCheck(p, m, amount)
  <2>1. /\ spend' \in [Spender -> (Material \X Nat) \cup {None}]
        /\ UNCHANGED <<rows, balance, writer, tx, readers, pc, cmd, attempt, result, funded>>
    BY <1>3 DEF SpendCheck, IInv, TypeOK
  <2> QED
    BY <2>1, Unchanged DEF IInv, TypeOK
<1>4. CASE \E p \in Spender : SpendPay(p)
  <2>1. PICK p \in Spender : SpendPay(p)
    BY <1>4
  <2>2. spend[p] \in Material \X Nat
    BY <2>1 DEF SpendPay, IInv, TypeOK
  <2>3. balance' \in [Material -> Int] /\ DOMAIN funded' = Material
    BY <2>1, <2>2 DEF SpendPay, IInv, TypeOK
  <2>4. spend' \in [Spender -> (Material \X Nat) \cup {None}]
    BY <2>1 DEF SpendPay, IInv, TypeOK
  <2>5. writer = None /\ UNCHANGED <<rows, writer, tx, readers, pc, cmd, attempt, result>>
    BY <2>1 DEF SpendPay, FileFree
  <2> QED
    BY <2>3, <2>4, <2>5, FreeStep
<1>5. CASE Crash
  <2>1. 0 \in 0..(MaxAttempts - 1)
    BY DEF DestinyAssumption
  <2>2. TypeOK'
    BY <1>5, <2>1, NoValues DEF Crash, IInv, TypeOK
  <2>3. CommandInv' /\ LockInv' /\ TransactionInv'
    BY <1>5 DEF Crash, CommandInv, LockInv, TransactionInv, DestinyAssumption
  <2> QED
    BY <2>2, <2>3 DEF IInv
<1> QED
  BY <1>1, <1>2, <1>3, <1>4, <1>5 DEF Environment

\* Every step preserves the inductive invariant.
LEMMA StepIInv == IInv /\ [Next]_vars => IInv'
<1> SUFFICES ASSUME IInv, [Next]_vars PROVE IInv'
  OBVIOUS
<1>1. ASSUME NEW s \in Session, (\E c \in Command : Submit(s, c)) \/ Execute(s)
      PROVE  IInv'
  BY <1>1, OutsideActions, EndActions, Begins, Plans, Deducts, Updates, Fails DEF Execute
<1>2. CASE Environment
  BY <1>2, EnvironmentSteps
<1>3. CASE UNCHANGED vars
  BY <1>3, Unchanged DEF vars, IInv, TypeOK
<1> QED
  BY <1>1, <1>2, <1>3 DEF Next

\* The inductive invariant holds in every reachable state.
THEOREM Invariance == Spec => []IInv
BY InitIInv, StepIInv, PTL DEF Spec

-----------------------------------------------------------------------------
(* What follows from it.                                                   *)

\* Every variable keeps its type: in particular no attempt runs beyond
\* MAX_TRANSACTION_ATTEMPTS and the pages of a transaction are rows.
THEOREM TypeCorrect == Spec => []TypeOK
BY Invariance, PTL DEF IInv

\* The row a transaction planned from stays the committed one until its
\* compare-and-set, so execute_attempt's RetryConflict branch is dead code.
THEOREM PlanNeverStale == Spec => []PlanStaysCurrent
<1>1. IInv => PlanStaysCurrent
  BY DEF IInv, TransactionInv, Paying, PlanStaysCurrent
<1> QED
  BY <1>1, Invariance, PTL

\* Committed rows change in Commit alone, and there by the plan of one legal
\* command, whose price the balances covered.
LEMMA RowsChange ==
    ASSUME IInv, [Next]_vars, rows' # rows
    PROVE  \E s \in Session :
             LET c == cmd[s]
                 row == rows[c.hero]
                 new == After(row, c)
             IN /\ c \in Command /\ Planned(c) /\ new # row
                /\ rows' = [rows EXCEPT ![c.hero] = new]
                /\ balance' = [m \in Material |-> balance[m] - Cost(row, c)[m]]
                /\ \A m \in Materials(row, c) : Covers(c, m)
<1>1. PICK s \in Session : Commit(s)
  BY DEF Next, vars, Execute, Environment, Submit, Acquire, AcquireTimesOut, BeginImmediate,
         BeginBusy, BeginFails, PlanAttempt, Deduct, UpdateHero, StatementFails, CommitBusy,
         Rollback, RollbackFails, Answer, StartRead, EndRead, Grant, SpendCheck, SpendPay, Crash
<1>2. cmd[s] \in Command /\ Committing(s) /\ rows' = tx.rows /\ balance' = tx.balance
  BY <1>1 DEF Commit, IInv, TypeOK, CommandInv, TransactionInv
<1> DEFINE c == cmd[s]
           row == rows[c.hero]
           new == After(row, c)
<1>3. Planned(c) /\ rows' = [rows EXCEPT ![c.hero] = new]
  BY <1>2 DEF Committing
<1>4. new # row
  BY <1>3 DEF Planned, IInv, TypeOK
<1> QED
  BY <1>2, <1>3, <1>4 DEF Committing

\* Every committed hero row is one the game can show, in every account history.
THEOREM RowsAlwaysValid == Spec => []RowsValid
<1>1. Init => RowsValid
  BY InitialRowValid DEF Init, RowsValid
<1>2. IInv /\ RowsValid /\ [Next]_vars => RowsValid'
  <2> SUFFICES ASSUME IInv, RowsValid, [Next]_vars, rows' # rows PROVE RowsValid'
    BY DEF RowsValid
  <2>1. PICK s \in Session :
          /\ cmd[s] \in Command /\ Planned(cmd[s])
          /\ rows' = [rows EXCEPT ![cmd[s].hero] = After(rows[cmd[s].hero], cmd[s])]
    BY RowsChange
  <2> DEFINE c == cmd[s]
  <2>2. RowValid(c.hero, After(rows[c.hero], c))
    BY <2>1, AfterValid DEF Planned, Accepted, RowsValid, IInv, TypeOK
  <2> QED
    BY <2>1, <2>2 DEF RowsValid, IInv, TypeOK
<1> QED
  BY <1>1, <1>2, Invariance, PTL DEF Spec

\* No destiny commit leaves a material it charged for below zero, whatever
\* other handlers do to the balances in between.
THEOREM NoOverdraft == Spec => NeverOverdraws
<1>1. ASSUME IInv, [Next]_vars, rows' # rows, NEW m \in Material, balance'[m] < balance[m]
      PROVE  balance'[m] >= 0
  <2>1. PICK s \in Session :
          LET c == cmd[s]
              row == rows[c.hero]
          IN /\ c \in Command /\ Planned(c) /\ After(row, c) # row
             /\ balance' = [n \in Material |-> balance[n] - Cost(row, c)[n]]
             /\ \A n \in Materials(row, c) : Covers(c, n)
    BY <1>1, RowsChange
  <2> DEFINE c == cmd[s]
             row == rows[c.hero]
  <2>2. /\ Cost(row, c)[m] \in Nat
        /\ m \notin Materials(row, c) => Cost(row, c)[m] = 0
    BY <2>1, PriceOfPlan DEF Planned
  <2>3. balance[m] \in Int /\ balance'[m] = balance[m] - Cost(row, c)[m]
    BY <1>1, <2>1 DEF IInv, TypeOK
  <2>4. m \in Materials(row, c)
    BY <1>1, <2>2, <2>3
  <2>5. balance[m] >= Cost(row, c)[m]
    BY <2>1, <2>4 DEF Covers
  <2> QED
    BY <2>2, <2>3, <2>5
<1>2. IInv /\ [Next]_vars =>
          [\A m \in Material :
              rows' # rows /\ balance'[m] < balance[m] => balance'[m] >= 0]_vars
  BY <1>1
<1> QED
  BY <1>2, Invariance, PTL DEF Spec, NeverOverdraws

\* A commit moves one hero and never back; one that takes materials moves it
\* strictly ahead.
THEOREM PaidAdvances == Spec => PaidMeansAdvanced
<1> DEFINE Advance ==
      \E h \in Eligible :
         /\ rows' = [rows EXCEPT ![h] = rows'[h]]
         /\ NotBehind(rows[h], rows'[h])
         /\ balance' # balance => Ahead(rows[h], rows'[h])
<1>1. ASSUME IInv, [Next]_vars, rows' # rows PROVE Advance
  <2>1. PICK s \in Session :
          LET c == cmd[s]
              row == rows[c.hero]
              new == After(row, c)
          IN /\ c \in Command /\ Planned(c) /\ new # row
             /\ rows' = [rows EXCEPT ![c.hero] = new]
             /\ balance' = [m \in Material |-> balance[m] - Cost(row, c)[m]]
    BY <1>1, RowsChange
  <2> DEFINE c == cmd[s]
             row == rows[c.hero]
             new == After(row, c)
  <2>2. c.hero \in Eligible /\ row \in Row /\ Legal(row, c) /\ rows'[c.hero] = new
    BY <1>1, <2>1 DEF Planned, Accepted, IInv, TypeOK
  <2>3. NotBehind(row, new) /\ (c.op # "UseStone" => Ahead(row, new))
    BY <2>1, <2>2, AfterNotBehind
  <2>4. c.op = "UseStone" => balance' = balance
    <3>1. SUFFICES ASSUME c.op = "UseStone" PROVE balance' = balance
      OBVIOUS
    <3>2. Cost(row, c) = [m \in Material |-> 0]
      BY <3>1 DEF Cost
    <3>3. balance \in [Material -> Int]
      BY <1>1 DEF IInv, TypeOK
    <3> QED
      BY <2>1, <3>2, <3>3
  <2> QED
    BY <2>1, <2>2, <2>3, <2>4
<1>2. IInv /\ [Next]_vars => [rows' # rows => Advance]_vars
  BY <1>1
<1> QED
  BY <1>2, Invariance, PTL DEF Spec, PaidMeansAdvanced

-----------------------------------------------------------------------------
(* What commands cost is what the progress they make is worth.             *)

NodePrice(h, m) == [n \in Slot[h] |-> SlotCost[h][n][m]]
StonePrice(m) == [x \in DOMAIN FacetCost |-> FacetCost[x][m]]

LEMMA PricesAreNat ==
    ASSUME NEW m \in Material
    PROVE  /\ \A h \in Eligible : /\ IsFiniteSet(Slot[h])
                                  /\ \A n \in Slot[h] : NodePrice(h, m)[n] \in Nat
           /\ IsFiniteSet(DOMAIN FacetCost)
           /\ \A x \in DOMAIN FacetCost : StonePrice(m)[x] \in Nat
  BY CatalogAssumption DEF NodePrice, StonePrice

LEMMA PathPriceIsNat ==
    ASSUME NEW h \in Eligible, NEW m \in Material, NEW row
    PROVE  /\ PathPrice(h, row, m) = SumFunctionOnSet(NodePrice(h, m), PathSlots(h, row))
                + SumFunctionOnSet(StonePrice(m), row.unlocked \cap DOMAIN FacetCost)
           /\ SumFunctionOnSet(NodePrice(h, m), PathSlots(h, row)) \in Nat
           /\ SumFunctionOnSet(StonePrice(m), row.unlocked \cap DOMAIN FacetCost) \in Nat
           /\ IsFiniteSet(PathSlots(h, row)) /\ PathSlots(h, row) \subseteq Slot[h]
           /\ IsFiniteSet(row.unlocked \cap DOMAIN FacetCost)
<1> DEFINE S == PathSlots(h, row)
           X == row.unlocked \cap DOMAIN FacetCost
<1>1. S \subseteq Slot[h] /\ X \subseteq DOMAIN FacetCost
  BY DEF PathSlots
<1>2. IsFiniteSet(S) /\ IsFiniteSet(X)
  BY <1>1, PricesAreNat, FS_Subset
<1>3. /\ \A n \in S : NodePrice(h, m)[n] \in Nat
      /\ \A x \in X : StonePrice(m)[x] \in Nat
  BY <1>1, PricesAreNat
<1>4. PathPrice(h, row, m) = SumFunctionOnSet(NodePrice(h, m), S) + SumFunctionOnSet(StonePrice(m), X)
  BY DEF PathPrice, NodePrice, StonePrice
<1> HIDE DEF S, X
<1>5. SumFunctionOnSet(NodePrice(h, m), S) \in Nat /\ SumFunctionOnSet(StonePrice(m), X) \in Nat
  BY <1>2, <1>3, SumAtLeast
<1> QED
  BY <1>1, <1>2, <1>4, <1>5 DEF S, X

\* A progress command charges for the nodes that come onto the hero's way: between
\* a stage that is complete and the next there is nothing else.
LEMMA WayGrows ==
    ASSUME NEW c \in Command, c.hero \in Eligible, c.op \in {"RankUp", "LevelUp"},
           NEW row \in Row, Legal(row, c)
    PROVE  /\ PathSlots(c.hero, After(row, c)) = PathSlots(c.hero, row) \cup NodesCharged(row, c)
           /\ PathSlots(c.hero, row) \cap NodesCharged(row, c) = {}
           /\ NodesCharged(row, c) \subseteq Slot[c.hero]
           /\ After(row, c).unlocked = row.unlocked
<1> DEFINE h == c.hero
           new == After(row, c)
<1> c.arg \in Nat /\ row.rank \in Nat /\ row.level \in Nat
  BY CatalogAssumption DEF Command, Row
<1>1. \A n \in Slot[h] : n = <<n[1], n[2]>> /\ n[1] \in Nat \ {0} /\ n[2] \in Nat \ {0}
  BY CatalogAssumption
<1>2. CASE c.op = "RankUp"
  <2>1. new.rank = TargetRank(row) /\ new.level = 1 /\ new.unlocked = row.unlocked
    BY <1>2 DEF After, Row
  <2>2. NodesCharged(row, c) = {<<TargetRank(row), 1>>} /\ <<TargetRank(row), 1>> \in Slot[h]
    BY <1>2 DEF NodesCharged, Legal, RankUpLegal
  <2>3. CASE Unopened(row)
    <3>1. row.rank = 0 /\ TargetRank(row) = 1
      BY <2>3 DEF Unopened, TargetRank
    <3>2. \A n \in Slot[h] : ~(n[1] < 0 \/ (n[1] = 0 /\ n[2] <= row.level))
      BY <1>1
    <3>3. \A n \in Slot[h] : (n[1] < 1 \/ (n[1] = 1 /\ n[2] <= 1)) <=> n = <<1, 1>>
      BY <1>1
    <3>4. PathSlots(h, row) = {} /\ PathSlots(h, new) = {<<1, 1>>}
      BY <2>1, <2>2, <3>1, <3>2, <3>3 DEF PathSlots
    <3> QED
      BY <2>1, <2>2, <3>1, <3>4
  <2>4. CASE ~Unopened(row)
    <3>1. TargetRank(row) = row.rank + 1 /\ <<row.rank, row.level + 1>> \notin Slot[h]
      BY <1>2, <2>4 DEF TargetRank, Legal, RankUpLegal, StageComplete
    <3>2. ASSUME NEW n \in Slot[h], n[1] = row.rank PROVE n[2] <= row.level
      <4>1. \A k \in 1..n[2] : <<row.rank, k>> \in Slot[h]
        BY <3>2, CatalogAssumption DEF SlotsWithoutGaps
      <4> QED
        BY <1>1, <3>1, <4>1
    <3>3. \A n \in Slot[h] :
            (n[1] < row.rank + 1 \/ (n[1] = row.rank + 1 /\ n[2] <= 1))
               <=> (n[1] < row.rank \/ (n[1] = row.rank /\ n[2] <= row.level)) \/ n = <<row.rank + 1, 1>>
      BY <1>1, <3>2
    <3>4. PathSlots(h, new) = PathSlots(h, row) \cup {<<row.rank + 1, 1>>}
      BY <2>1, <2>2, <3>1, <3>3 DEF PathSlots
    <3>5. <<row.rank + 1, 1>> \notin PathSlots(h, row)
      BY DEF PathSlots
    <3> QED
      BY <2>1, <2>2, <3>1, <3>4, <3>5
  <2> QED
    BY <2>3, <2>4
<1>3. CASE c.op = "LevelUp"
  <2>1. new.rank = row.rank /\ new.level = c.arg /\ new.unlocked = row.unlocked
    BY <1>3 DEF After, Row
  <2>2. NodesCharged(row, c) = {row.rank} \X ((row.level + 1)..c.arg)
    BY <1>3 DEF NodesCharged
  <2>3. /\ c.arg >= row.level
        /\ \A n \in (row.level + 1)..c.arg : <<row.rank, n>> \in Slot[h]
    BY <1>3 DEF Legal, LevelUpLegal
  <2>4. NodesCharged(row, c) \subseteq Slot[h]
    BY <2>2, <2>3
  <2>5. \A n \in Slot[h] : n \in NodesCharged(row, c) <=> n[1] = row.rank /\ n[2] > row.level /\ n[2] <= c.arg
    BY <1>1, <2>2
  <2>6. \A n \in Slot[h] :
            (n[1] < row.rank \/ (n[1] = row.rank /\ n[2] <= c.arg))
               <=> (n[1] < row.rank \/ (n[1] = row.rank /\ n[2] <= row.level)) \/ n \in NodesCharged(row, c)
    BY <1>1, <2>3, <2>5
  <2>7. PathSlots(h, new) = PathSlots(h, row) \cup NodesCharged(row, c)
    BY <2>1, <2>4, <2>6 DEF PathSlots
  <2>8. PathSlots(h, row) \cap NodesCharged(row, c) = {}
    BY <1>1, <2>5 DEF PathSlots
  <2> QED
    BY <2>1, <2>4, <2>7, <2>8
<1> QED
  BY <1>2, <1>3

LEMMA PriceIsPaid ==
    ASSUME NEW c \in Command, c.hero \in Eligible, NEW row \in Row, Legal(row, c),
           After(row, c) # row, NEW m \in Material
    PROVE  /\ PathPrice(c.hero, After(row, c), m) = PathPrice(c.hero, row, m) + Cost(row, c)[m]
           /\ PathPrice(c.hero, row, m) \in Nat /\ Cost(row, c)[m] \in Nat
<1> DEFINE h == c.hero
           new == After(row, c)
           P == PathSlots(h, row)
           Q == PathSlots(h, new)
           X == row.unlocked \cap DOMAIN FacetCost
           Y == new.unlocked \cap DOMAIN FacetCost
           np == NodePrice(h, m)
           sp == StonePrice(m)
<1>1. /\ PathPrice(h, row, m) = SumFunctionOnSet(np, P) + SumFunctionOnSet(sp, X)
      /\ PathPrice(h, new, m) = SumFunctionOnSet(np, Q) + SumFunctionOnSet(sp, Y)
      /\ SumFunctionOnSet(np, P) \in Nat /\ SumFunctionOnSet(sp, X) \in Nat
      /\ IsFiniteSet(P) /\ IsFiniteSet(X) /\ P \subseteq Slot[h]
  BY PathPriceIsNat
<1>2. /\ IsFiniteSet(Slot[h]) /\ \A n \in Slot[h] : np[n] \in Nat
      /\ \A x \in DOMAIN FacetCost : sp[x] \in Nat
  BY PricesAreNat
<1>3. SUFFICES /\ SumFunctionOnSet(np, Q) + SumFunctionOnSet(sp, Y)
                     = SumFunctionOnSet(np, P) + SumFunctionOnSet(sp, X) + Cost(row, c)[m]
               /\ Cost(row, c)[m] \in Nat
  BY <1>1
<1>4. CASE c.op \in {"RankUp", "LevelUp"}
  <2> DEFINE N == NodesCharged(row, c)
  <2>1. Q = P \cup N /\ P \cap N = {} /\ N \subseteq Slot[h] /\ Y = X
    BY <1>4, WayGrows
  <2>2. IsFiniteSet(N)
    BY <1>2, <2>1, FS_Subset
  <2>3. Cost(row, c)[m] = SumFunctionOnSet(np, N)
    BY <1>4 DEF Cost, NodePrice
  <2> HIDE DEF N, P, Q, X, Y, np, sp
  <2>4. (\A n \in P \cup N : np[n] \in Int) /\ \A n \in N : np[n] \in Nat
    BY <1>1, <1>2, <2>1
  <2>5. SumFunctionOnSet(np, P \cup N) = SumFunctionOnSet(np, P) + SumFunctionOnSet(np, N)
    BY <1>1, <2>1, <2>2, <2>4, SumUnion
  <2>6. SumFunctionOnSet(np, N) \in Nat
    BY <2>2, <2>4, SumAtLeast
  <2> QED
    BY <1>1, <2>1, <2>3, <2>5, <2>6
<1>5. CASE c.op = "UnlockStone"
  <2>1. /\ new = [row EXCEPT !.unlocked = @ \cup {c.arg}] /\ c.arg \in DOMAIN FacetCost
        /\ Cost(row, c)[m] = sp[c.arg]
    BY <1>5 DEF After, Legal, UnlockLegal, Cost, StonePrice
  <2>2. new.rank = row.rank /\ new.level = row.level /\ new.unlocked = row.unlocked \cup {c.arg}
    BY <2>1 DEF Row
  <2>3. Q = P /\ Y = X \cup {c.arg}
    BY <2>1, <2>2 DEF PathSlots
  <2>4. c.arg \notin X
    BY <2>1 DEF Row
  <2> HIDE DEF P, Q, X, Y, np, sp, new
  <2>5. (\A x \in X \cup {c.arg} : sp[x] \in Int) /\ sp[c.arg] \in Nat
    BY <1>2, <2>1 DEF X
  <2>6. SumFunctionOnSet(sp, X \cup {c.arg}) = SumFunctionOnSet(sp, X) + sp[c.arg]
    BY <1>1, <2>4, <2>5, SumInsert
  <2> QED
    BY <1>1, <2>1, <2>3, <2>5, <2>6
<1>6. CASE c.op = "UseStone"
  <2>1. new.rank = row.rank /\ new.level = row.level /\ new.unlocked = row.unlocked
    BY <1>6 DEF After, Row
  <2>2. Q = P /\ Y = X /\ Cost(row, c)[m] = 0
    BY <1>6, <2>1 DEF PathSlots, Cost
  <2> HIDE DEF P, Q, X, Y, np, sp, new
  <2> QED
    BY <1>1, <2>2
<1>7. c.op \in {"RankUp", "LevelUp", "UnlockStone", "UseStone"}
  BY DEF Command, Op
<1> QED
  BY <1>4, <1>5, <1>6, <1>7

\* One hero's progress is worth as much more as was paid for it.
LEMMA ProgressGrows ==
    ASSUME NEW r \in [Eligible -> Row], NEW h \in Eligible, NEW new \in Row, NEW m \in Material
    PROVE  /\ Progress([r EXCEPT ![h] = new], m) = Progress(r, m) - PathPrice(h, r[h], m) + PathPrice(h, new, m)
           /\ Progress(r, m) \in Int /\ PathPrice(h, r[h], m) \in Int /\ PathPrice(h, new, m) \in Int
<1> DEFINE q == [r EXCEPT ![h] = new]
           v == [g \in Eligible |-> PathPrice(g, q[g], m)]
           w == [g \in Eligible |-> PathPrice(g, r[g], m)]
<1>1. ASSUME NEW g \in Eligible, NEW row PROVE PathPrice(g, row, m) \in Int
  <2> DEFINE nodes == SumFunctionOnSet(NodePrice(g, m), PathSlots(g, row))
             stones == SumFunctionOnSet(StonePrice(m), row.unlocked \cap DOMAIN FacetCost)
  <2>1. PathPrice(g, row, m) = nodes + stones /\ nodes \in Nat /\ stones \in Nat
    BY PathPriceIsNat
  <2> HIDE DEF nodes, stones
  <2> QED
    BY <2>1
<1>2. /\ \A g \in Eligible : v[g] \in Int /\ w[g] \in Int
      /\ \A g \in Eligible \ {h} : v[g] = w[g]
      /\ v[h] = PathPrice(h, new, m) /\ w[h] = PathPrice(h, r[h], m)
  BY <1>1
<1>3. Progress(q, m) = SumFunctionOnSet(v, Eligible) /\ Progress(r, m) = SumFunctionOnSet(w, Eligible)
  BY DEF Progress
<1>4. IsFiniteSet(Eligible)
  BY CatalogAssumption
<1> HIDE DEF v, w, q
<1>5. /\ SumFunctionOnSet(v, Eligible) = SumFunctionOnSet(w, Eligible) - w[h] + v[h]
      /\ SumFunctionOnSet(w, Eligible) \in Int
  BY <1>2, <1>4, SumChange
<1> QED
  BY <1>2, <1>3, <1>5 DEF q

\* While no hero advances, what comes and goes was given and paid elsewhere.
LEMMA MoneyElsewhere ==
    ASSUME IInv, \A m \in Material : funded[m] \in Int, [Next]_vars, rows' = rows, NEW m \in Material
    PROVE  /\ balance'[m] - balance[m] = funded'[m] - funded[m]
           /\ balance[m] \in Int /\ balance'[m] \in Int /\ funded'[m] \in Int
<1> USE DEF IInv, TypeOK
<1>0. balance[m] \in Int /\ funded[m] \in Int
  OBVIOUS
<1>1. CASE UNCHANGED <<balance, funded>>
  BY <1>0, <1>1
<1>2. ASSUME NEW n \in Material, Grant(n)
      PROVE  /\ balance'[m] - balance[m] = funded'[m] - funded[m]
             /\ balance'[m] \in Int /\ funded'[m] \in Int
  BY <1>0, <1>2 DEF Grant
<1>3. ASSUME NEW p \in Spender, SpendPay(p)
      PROVE  /\ balance'[m] - balance[m] = funded'[m] - funded[m]
             /\ balance'[m] \in Int /\ funded'[m] \in Int
  <2>1. spend[p] \in Material \X Nat
    BY <1>3 DEF SpendPay
  <2>2. PICK n \in Material, amount \in Nat : spend[p] = <<n, amount>>
    BY <2>1
  <2>3. /\ balance' = [balance EXCEPT ![n] = @ - amount]
        /\ funded' = [funded EXCEPT ![n] = @ - amount]
    BY <1>3, <2>2 DEF SpendPay
  <2> QED
    BY <1>0, <2>2, <2>3
<1>4. ASSUME NEW s \in Session, Commit(s) PROVE UNCHANGED <<balance, funded>>
  <2>1. Committing(s) /\ rows' = tx.rows /\ balance' = tx.balance /\ funded' = funded
    BY <1>4 DEF Commit, TransactionInv
  <2>2. After(rows[cmd[s].hero], cmd[s]) = rows[cmd[s].hero]
    BY <2>1 DEF Committing, Planned
  <2> QED
    BY <2>1, <2>2 DEF Committing
<1>5. \/ UNCHANGED <<balance, funded>>
      \/ \E s \in Session : Commit(s)
      \/ \E n \in Material : Grant(n)
      \/ \E p \in Spender : SpendPay(p)
  BY DEF Next, vars, Execute, Environment, Submit, Acquire, AcquireTimesOut, BeginImmediate,
         BeginBusy, BeginFails, PlanAttempt, Deduct, UpdateHero, StatementFails, CommitBusy,
         Rollback, RollbackFails, Answer, StartRead, EndRead, SpendCheck, Crash
<1> QED
  BY <1>0, <1>1, <1>2, <1>3, <1>4, <1>5

\* Nothing is lost and nothing is paid twice, for any tables without gaps: per
\* material, balance and the price of the progress shown are what came in.
THEOREM LedgerHolds == Spec => []Ledger
<1> DEFINE Whole == \A m \in Material : funded[m] \in Int /\ balance[m] + Progress(rows, m) = funded[m]
<1>1. Init => Whole
  <2> SUFFICES ASSUME Init, NEW m \in Material
               PROVE  funded[m] \in Int /\ balance[m] + Progress(rows, m) = funded[m]
    OBVIOUS
  <2>1. IInv
    BY InitIInv
  <2>2. SUFFICES Progress(rows, m) \in Int
    BY <2>1 DEF Init, IInv, TypeOK
  <2>3. CASE Eligible = {}
    BY <2>3, SumEmpty DEF Progress
  <2>4. CASE Eligible # {}
    <3>1. PICK h \in Eligible : rows[h] \in Row
      BY <2>1, <2>4 DEF IInv, TypeOK
    <3> QED
      BY <2>1, <3>1, ProgressGrows DEF IInv, TypeOK
  <2> QED
    BY <2>3, <2>4
<1>2. ASSUME IInv, Whole, [Next]_vars, rows' = rows PROVE Whole'
  <2> SUFFICES ASSUME NEW m \in Material
               PROVE  funded'[m] \in Int /\ balance'[m] + Progress(rows', m) = funded'[m]
    OBVIOUS
  <2> DEFINE progress == Progress(rows, m)
  <2>1. progress = Progress(rows', m)
    BY <1>2
  <2>2. /\ balance'[m] - balance[m] = funded'[m] - funded[m]
        /\ balance[m] \in Int /\ balance'[m] \in Int /\ funded'[m] \in Int /\ funded[m] \in Int
    BY <1>2, MoneyElsewhere
  <2>3. balance[m] + progress = funded[m]
    BY <1>2
  <2>4. progress \in Int
    <3>1. CASE Eligible = {}
      BY <3>1, SumEmpty DEF Progress
    <3>2. CASE Eligible # {}
      BY <1>2, <3>2, ProgressGrows DEF IInv, TypeOK
    <3> QED
      BY <3>1, <3>2
  <2> HIDE DEF progress
  <2> QED
    BY <2>1, <2>2, <2>3, <2>4
<1>3. ASSUME IInv, Whole, [Next]_vars, rows' # rows PROVE Whole'
  <2> SUFFICES ASSUME NEW m \in Material
               PROVE  funded'[m] \in Int /\ balance'[m] + Progress(rows', m) = funded'[m]
    OBVIOUS
  <2>1. PICK s \in Session :
          LET c == cmd[s]
              row == rows[c.hero]
              new == After(row, c)
          IN /\ c \in Command /\ Planned(c) /\ new # row
             /\ rows' = [rows EXCEPT ![c.hero] = new]
             /\ balance' = [n \in Material |-> balance[n] - Cost(row, c)[n]]
    BY <1>3, RowsChange
  <2> DEFINE c == cmd[s]
             row == rows[c.hero]
             new == After(row, c)
             cost == Cost(row, c)[m]
             before == PathPrice(c.hero, row, m)
             after == PathPrice(c.hero, new, m)
             progress == Progress(rows, m)
  <2>2. c \in Command /\ c.hero \in Eligible /\ row \in Row /\ Legal(row, c) /\ new # row /\ new \in Row
    BY <1>3, <2>1, AfterType DEF Planned, Accepted, IInv, TypeOK
  <2>3. after = before + cost /\ before \in Nat /\ cost \in Nat
    BY <2>2, PriceIsPaid
  <2>4. Progress(rows', m) = progress - before + after /\ progress \in Int
    <3>1. rows \in [Eligible -> Row]
      BY <1>3 DEF IInv, TypeOK
    <3> QED
      BY <2>1, <2>2, <3>1, ProgressGrows
  <2>5. balance'[m] = balance[m] - cost /\ balance[m] \in Int /\ funded' = funded
    <3>1. funded' = funded
      BY <1>3 DEF Next, vars, Execute, Environment, Submit, Acquire, AcquireTimesOut, BeginImmediate,
         BeginBusy, BeginFails, PlanAttempt, Deduct, UpdateHero, StatementFails, Commit, CommitBusy,
         Rollback, RollbackFails, Answer, StartRead, EndRead, Grant, SpendCheck, SpendPay, Crash
    <3> QED
      BY <1>3, <2>1, <3>1 DEF IInv, TypeOK
  <2>6. balance[m] + progress = funded[m] /\ funded[m] \in Int
    BY <1>3
  <2> HIDE DEF cost, before, after, progress
  <2> QED
    BY <2>3, <2>4, <2>5, <2>6
<1>4. Whole => Ledger
  BY DEF Ledger
<1> HIDE DEF Whole
<1>5. IInv /\ Whole /\ [Next]_vars => Whole'
  BY <1>2, <1>3
<1> QED
  BY <1>1, <1>4, <1>5, Invariance, PTL DEF Spec

-----------------------------------------------------------------------------
(* The transaction protocol implements atomic commands: a command takes    *)
(* effect at COMMIT, a refusal is decided where its session moves to       *)
(* "answer", and every other step is invisible.                            *)

\* The outcome the refinement mapping shows.
Outcome == [s \in Session |-> IF pc[s] = "answer" THEN result[s] ELSE NoResult]

\* s moves on, without an answer before or after: nobody sees it.
LEMMA Silent ==
    ASSUME TypeOK, NEW s \in Session,
           pc' = [pc EXCEPT ![s] = pc'[s]],
           result' = [result EXCEPT ![s] = result'[s]],
           pc[s] # "answer", pc'[s] # "answer",
           UNCHANGED <<rows, balance, cmd>>
    PROVE  UNCHANGED Atomic!vars
<1>1. \A t \in Session : pc[t] = "answer" <=> pc'[t] = "answer"
  BY DEF TypeOK
<1>2. \A t \in Session : pc[t] = "answer" => result'[t] = result[t]
  BY DEF TypeOK
<1>3. Outcome' = Outcome
  BY <1>1, <1>2, Zenon DEF Outcome
<1> QED
  BY <1>3 DEF Outcome, Atomic!vars

\* s moves to "answer": its outcome, and no other, is decided.
LEMMA Decides ==
    ASSUME TypeOK, NEW s \in Session,
           pc' = [pc EXCEPT ![s] = "answer"],
           result' = [result EXCEPT ![s] = result'[s]],
           pc[s] # "answer"
    PROVE  Outcome[s] = NoResult /\ Outcome' = [Outcome EXCEPT ![s] = result'[s]]
<1>1. \A t \in Session \ {s} : pc'[t] = pc[t] /\ result'[t] = result[t]
  BY DEF TypeOK
<1>2. pc'[s] = "answer"
  BY DEF TypeOK
<1> QED
  BY <1>1, <1>2 DEF Outcome

\* A refusal that is true of the state is one the abstract command may give.
LEMMA Refuses ==
    ASSUME IInv, NEW s \in Session,
           NEW code \in {"Invalid", "Insufficient", "Conflict", "Internal"},
           pc[s] \notin {"idle", "answer"},
           pc' = [pc EXCEPT ![s] = "answer"],
           result' = [result EXCEPT ![s] = Failure(code)],
           Atomic!Truthful(cmd[s], code),
           UNCHANGED <<rows, balance, cmd>>
    PROVE  Atomic!Next
<1>1. result'[s] = Failure(code)
  BY DEF IInv, TypeOK
<1>2. Outcome[s] = NoResult /\ Outcome' = [Outcome EXCEPT ![s] = Failure(code)]
  BY <1>1, Decides DEF IInv
<1>3. cmd[s] # None
  BY DEF IInv, CommandInv
<1>4. Atomic!Refuse(s, code)
  BY <1>2, <1>3 DEF Atomic!Refuse, Atomic!Undecided, Atomic!Refused, Atomic!NoOutcome,
                    Outcome, NoResult, Failure
<1> QED
  BY <1>4 DEF Atomic!Next, Atomic!Refusal

\* An exhausted retry is a refusal, any other is invisible.
LEMMA RetrySimulates ==
    ASSUME IInv, NEW s \in Session, RetryOrConflict(s),
           pc[s] \notin {"idle", "answer"},
           UNCHANGED <<rows, balance, cmd>>
    PROVE  [Atomic!Next]_(Atomic!vars)
<1>1. CASE pc'[s] = "acquire"
  BY <1>1, RetryEffect, Silent DEF IInv
<1>2. CASE pc'[s] = "answer" /\ result'[s] = Failure("Conflict")
  <2>1. Atomic!Truthful(cmd[s], "Conflict")
    BY DEF Atomic!Truthful
  <2> QED
    BY <1>2, <2>1, RetryEffect, Refuses DEF IInv
<1> QED
  BY <1>1, <1>2, RetryEffect DEF IInv

\* COMMIT is where a command takes effect.
LEMMA CommitSimulates ==
    ASSUME IInv, NEW s \in Session, Commit(s)
    PROVE  Atomic!Next
<1> DEFINE c == cmd[s]
           row == rows[c.hero]
           new == After(row, c)
<1>1. /\ pc[s] = "commit" /\ pc' = [pc EXCEPT ![s] = "answer"]
      /\ rows' = tx.rows /\ balance' = tx.balance
      /\ UNCHANGED <<cmd, result>>
  BY DEF Commit, Goto
<1>2. Committing(s) /\ c # None
  BY <1>1 DEF IInv, TransactionInv, CommandInv
<1>3. /\ c.hero \in Eligible /\ Accepted(row, c)
      /\ rows' = [rows EXCEPT ![c.hero] = new]
      /\ result[s] = Change(new, new # row)
  BY <1>1, <1>2 DEF Committing, Planned
<1>4. new = row => balance' = balance
  BY <1>1, <1>2 DEF Committing
<1>5. new # row => /\ Atomic!Missing(c) = {}
                   /\ balance' = [m \in Material |-> balance[m] - Cost(row, c)[m]]
  <2>1. SUFFICES ASSUME new # row
                 PROVE  /\ Atomic!Missing(c) = {}
                        /\ balance' = [m \in Material |-> balance[m] - Cost(row, c)[m]]
    OBVIOUS
  <2>2. /\ \A m \in Materials(row, c) : balance[m] >= Cost(row, c)[m]
        /\ balance' = [m \in Material |-> balance[m] - Cost(row, c)[m]]
    BY <1>1, <1>2, <2>1 DEF Committing, Covers
  <2>3. \A m \in Material : Cost(row, c)[m] \in Nat /\ balance[m] \in Int
    BY <1>1, <1>2, <1>3, <2>1, PriceOfPlan DEF IInv, TypeOK
  <2>4. Atomic!Missing(c) = {}
    BY <2>2, <2>3 DEF Atomic!Missing, Materials
  <2> QED
    BY <2>2, <2>4
<1>6. Outcome[s] = NoResult /\ Outcome' = [Outcome EXCEPT ![s] = Change(new, new # row)]
  BY <1>1, <1>3, Decides DEF IInv, TypeOK
<1>7. Atomic!Succeed(s)
  <2>1. Atomic!Undecided(s)
    BY <1>2, <1>6 DEF Atomic!Undecided, Atomic!NoOutcome, Outcome, NoResult
  <2> QED
    BY <1>1, <1>3, <1>4, <1>5, <1>6, <2>1
       DEF Atomic!Succeed, Atomic!Success, Outcome, Change
<1> QED
  BY <1>7 DEF Atomic!Next

\* ROLLBACK announces the refusal, or starts over unseen.
LEMMA RollbackSimulates ==
    ASSUME IInv, NEW s \in Session, Rollback(s) \/ RollbackFails(s)
    PROVE  [Atomic!Next]_(Atomic!vars)
<1>1. CASE RollbackFails(s)
  <2>1. Atomic!Truthful(cmd[s], "Internal")
    BY DEF Atomic!Truthful
  <2> QED
    BY <1>1, <2>1, Refuses DEF RollbackFails, Finish, Goto
<1>2. CASE Rollback(s)
  <2>1. PICK code \in {"Retry", "Internal", "Invalid", "Insufficient"} :
            result[s] = Failure(code) /\ Atomic!Truthful(cmd[s], code)
    BY <1>2 DEF Rollback, IInv, TransactionInv, RollingBack
  <2>2. CASE code = "Retry"
    BY <1>2, <2>1, <2>2, NoValues, RetrySimulates DEF Rollback
  <2>3. CASE code # "Retry"
    <3>1. /\ pc[s] = "rollback" /\ pc' = [pc EXCEPT ![s] = "answer"]
          /\ UNCHANGED <<rows, balance, cmd, result>>
      BY <1>2, <2>1, <2>3, NoValues DEF Rollback, Goto
    <3>2. result' = [result EXCEPT ![s] = Failure(code)]
      BY <2>1, <3>1 DEF IInv, TypeOK
    <3> QED
      BY <2>1, <2>3, <3>1, <3>2, Refuses
  <2> QED
    BY <2>2, <2>3
<1> QED
  BY <1>1, <1>2

\* The request, the silent steps and the answer.
LEMMA SessionSimulates ==
    ASSUME IInv, NEW s \in Session, (\E c \in Command : Submit(s, c)) \/ Execute(s)
    PROVE  [Atomic!Next]_(Atomic!vars)
<1>1. CASE \E c \in Command : Submit(s, c)
  <2>1. PICK c \in Command : Submit(s, c)
    BY <1>1
  <2>2. /\ pc[s] = "idle" /\ pc' = [pc EXCEPT ![s] = "acquire"]
        /\ UNCHANGED <<rows, balance, result>>
    BY <2>1 DEF Submit, Goto
  <2>3. Outcome' = Outcome
    <3>1. \A t \in Session : pc[t] = "answer" <=> pc'[t] = "answer"
      BY <2>2 DEF IInv, TypeOK
    <3> QED
      BY <2>2, <3>1 DEF Outcome
  <2>4. Atomic!Submit(s, c)
    BY <2>1, <2>2, <2>3 DEF Submit, Atomic!Submit, Outcome, IInv, CommandInv
  <2> QED
    BY <2>4 DEF Atomic!Next
<1>2. CASE Acquire(s) \/ BeginImmediate(s)
  <2>1. /\ pc' = [pc EXCEPT ![s] = pc'[s]] /\ result' = [result EXCEPT ![s] = result'[s]]
        /\ pc[s] # "answer" /\ pc'[s] # "answer" /\ UNCHANGED <<rows, balance, cmd>>
    BY <1>2 DEF Acquire, BeginImmediate, Goto, IInv, TypeOK
  <2> QED
    BY <2>1, Silent DEF IInv
<1>3. CASE PlanAttempt(s)
  <2>1. /\ pc' = [pc EXCEPT ![s] = pc'[s]] /\ result' = [result EXCEPT ![s] = result'[s]]
        /\ pc[s] # "answer" /\ pc'[s] # "answer" /\ UNCHANGED <<rows, balance, cmd>>
    BY <1>3 DEF PlanAttempt, Abort, Goto, IInv, TypeOK
  <2> QED
    BY <2>1, Silent DEF IInv
<1>4. CASE (\E m \in Material : Deduct(s, m)) \/ UpdateHero(s)
  <2>1. /\ pc' = [pc EXCEPT ![s] = pc'[s]] /\ result' = [result EXCEPT ![s] = result'[s]]
        /\ pc[s] # "answer" /\ pc'[s] # "answer" /\ UNCHANGED <<rows, balance, cmd>>
    BY <1>4 DEF Deduct, UpdateHero, Abort, Goto, IInv, TypeOK
  <2> QED
    BY <2>1, Silent DEF IInv
<1>5. CASE CommitBusy(s) \/ \E code \in {"Retry", "Internal"} : StatementFails(s, code)
  <2>1. /\ pc' = [pc EXCEPT ![s] = pc'[s]] /\ result' = [result EXCEPT ![s] = result'[s]]
        /\ pc[s] # "answer" /\ pc'[s] # "answer" /\ UNCHANGED <<rows, balance, cmd>>
    BY <1>5 DEF CommitBusy, StatementFails, Abort, Goto, IInv, TypeOK
  <2> QED
    BY <2>1, Silent DEF IInv
<1>6. CASE AcquireTimesOut(s) \/ BeginBusy(s)
  BY <1>6, RetrySimulates DEF AcquireTimesOut, BeginBusy
<1>7. CASE BeginFails(s)
  <2>1. Atomic!Truthful(cmd[s], "Internal")
    BY DEF Atomic!Truthful
  <2> QED
    BY <1>7, <2>1, Refuses DEF BeginFails, Finish, Goto
<1>8. CASE Answer(s)
  <2>1. /\ pc[s] = "answer" /\ pc' = [pc EXCEPT ![s] = "idle"]
        /\ cmd' = [cmd EXCEPT ![s] = None]
        /\ result' = [result EXCEPT ![s] = NoResult]
        /\ UNCHANGED <<rows, balance>>
    BY <1>8 DEF Answer, Goto
  <2>2. Outcome[s] # NoResult
    BY <2>1 DEF Outcome, NoResult, IInv, CommandInv
  <2>3. Outcome' = [Outcome EXCEPT ![s] = NoResult]
    <3>1. \A t \in Session \ {s} : pc'[t] = pc[t] /\ result'[t] = result[t]
      BY <2>1 DEF IInv, TypeOK
    <3>2. pc'[s] # "answer"
      BY <2>1 DEF IInv, TypeOK
    <3> QED
      BY <3>1, <3>2 DEF Outcome
  <2>4. Atomic!Answer(s)
    BY <2>1, <2>2, <2>3 DEF Atomic!Answer, Atomic!NoOutcome, Outcome, NoResult
  <2> QED
    BY <2>4 DEF Atomic!Next
<1>9. CASE Commit(s)
  BY <1>9, CommitSimulates
<1>10. CASE Rollback(s) \/ RollbackFails(s)
  BY <1>10, RollbackSimulates
<1> QED
  BY <1>1, <1>2, <1>3, <1>4, <1>5, <1>6, <1>7, <1>8, <1>9, <1>10 DEF Execute

\* Readers are invisible, grants and payments happen elsewhere, a crash is a
\* crash.
LEMMA EnvironmentSimulates ==
    ASSUME IInv, IInv', Environment
    PROVE  [Atomic!Next]_(Atomic!vars)
<1>1. CASE Crash
  <2>1. Outcome' = [s \in Session |-> NoResult]
    BY <1>1 DEF Crash, Outcome
  <2> QED
    BY <1>1, <2>1 DEF Crash, Atomic!Next, Atomic!Crash, Atomic!NoOutcome, Outcome, NoResult
<1>2. CASE ~Crash
  <2>1. UNCHANGED <<rows, cmd, pc, result>>
    BY <1>2 DEF Environment, StartRead, EndRead, Grant, SpendCheck, SpendPay
  <2>2. Outcome' = Outcome
    BY <2>1 DEF Outcome
  <2>3. balance' \in [Material -> Int]
    BY DEF IInv, TypeOK
  <2>4. Atomic!Elsewhere
    BY <2>1, <2>2, <2>3 DEF Atomic!Elsewhere, Outcome
  <2> QED
    BY <2>4 DEF Atomic!Next
<1> QED
  BY <1>1, <1>2

\* execute_destiny_command, with its retries, lock conflicts and crashes,
\* implements atomic commands with truthful answers.
THEOREM Refinement == Spec => ImplementsAtomic
<1>1. Init => Atomic!Init
  <2> SUFFICES ASSUME Init PROVE Atomic!Init
    OBVIOUS
  <2>1. rows \in [Eligible -> Row] /\ balance \in [Material -> Int]
    BY InitIInv DEF IInv, TypeOK
  <2> QED
    BY <2>1 DEF Init, Atomic!Init, Atomic!NoOutcome, NoResult
<1>2. IInv /\ IInv' /\ [Next]_vars => [Atomic!Next]_(Atomic!vars)
  <2> SUFFICES ASSUME IInv, IInv', [Next]_vars
               PROVE  [Atomic!Next]_(Atomic!vars)
    OBVIOUS
  <2>1. ASSUME NEW s \in Session, (\E c \in Command : Submit(s, c)) \/ Execute(s)
        PROVE  [Atomic!Next]_(Atomic!vars)
    BY <2>1, SessionSimulates
  <2>2. CASE Environment
    BY <2>2, EnvironmentSimulates
  <2>3. CASE UNCHANGED vars
    BY <2>3 DEF vars, Atomic!vars
  <2> QED
    BY <2>1, <2>2, <2>3 DEF Next
<1> QED
  BY <1>1, <1>2, Invariance, PTL DEF Spec, ImplementsAtomic, Atomic!Spec
-----------------------------------------------------------------------------
(* Battles read what commands have stored.                                 *)

\* Stones are unlocked on a stage, so a hero without one has none.
StonesAfterStages == \A h \in Eligible : rows[h].rank = 0 => rows[h].unlocked = {}

\* An initial row has a stage, or nothing at all.
LEMMA InitialRowOpened ==
    ASSUME NEW h \in Eligible, NEW row \in InitialRows(h)
    PROVE  row.rank = 0 => row.unlocked = {}
<1>1. CASE row = FreshRow
  BY <1>1 DEF FreshRow
<1>2. ASSUME NEW n \in LastSlots(h), NEW x \in Facet[h],
             row = [rank |-> n[1], level |-> n[2], stone |-> x, unlocked |-> Facet[h]]
      PROVE  row.rank = 0 => row.unlocked = {}
  <2>1. n \in Slot[h] /\ Slot[h] \subseteq Positive \X Positive
    BY CatalogAssumption DEF LastSlots
  <2>2. n[1] \in Nat \ {0}
    BY <2>1 DEF Positive
  <2> QED
    BY <1>2, <2>2
<1> QED
  BY <1>1, <1>2 DEF InitialRows, StarterRows

\* No legal command takes the stage away, and only a hero on a stage unlocks.
LEMMA AfterOpened ==
    ASSUME NEW c \in Command, c.hero \in Eligible, NEW row \in Row, Legal(row, c),
           row.rank = 0 => row.unlocked = {}
    PROVE  After(row, c).rank = 0 => After(row, c).unlocked = {}
<1> c.op \in Op /\ row.rank \in Nat
  BY DEF Command, Row
<1>1. CASE c.op = "RankUp"
  <2>1. TargetRank(row) \in Nat \ {0}
    BY DEF TargetRank, Unopened
  <2> QED
    BY <1>1, <2>1 DEF After, Row
<1>2. CASE c.op = "LevelUp"
  BY <1>2 DEF After, Row
<1>3. CASE c.op = "UnlockStone"
  BY <1>3 DEF After, Row, Legal, UnlockLegal
<1>4. CASE c.op = "UseStone"
  BY <1>4 DEF After, Row
<1> QED
  BY <1>1, <1>2, <1>3, <1>4 DEF Op

\* Stones come after stages, in every account history.
THEOREM StagesBeforeStones == Spec => []StonesAfterStages
<1>1. Init => StonesAfterStages
  BY InitialRowOpened DEF Init, StonesAfterStages
<1>2. IInv /\ StonesAfterStages /\ [Next]_vars => StonesAfterStages'
  <2> SUFFICES ASSUME IInv, StonesAfterStages, [Next]_vars, rows' # rows PROVE StonesAfterStages'
    BY DEF StonesAfterStages
  <2>1. PICK s \in Session :
          /\ cmd[s] \in Command /\ Planned(cmd[s])
          /\ rows' = [rows EXCEPT ![cmd[s].hero] = After(rows[cmd[s].hero], cmd[s])]
    BY RowsChange
  <2> DEFINE c == cmd[s]
             new == After(rows[c.hero], c)
  <2>2. new.rank = 0 => new.unlocked = {}
    BY <2>1, AfterOpened DEF Planned, Accepted, StonesAfterStages, IInv, TypeOK
  <2> QED
    BY <2>1, <2>2 DEF StonesAfterStages, IInv, TypeOK
<1> QED
  BY <1>1, <1>2, Invariance, PTL DEF Spec

-----------------------------------------------------------------------------
(* What a valid row is to a battle. *)

\* The row the lemmas speak of.
Fit(h, row) == RowValid(h, row) /\ (row.rank = 0 => row.unlocked = {})

\* Validity gives the shape the resolver asks for.
LEMMA FitShape ==
    ASSUME NEW h \in Eligible, NEW row \in Row, Fit(h, row)
    PROVE  ShapeValid(row)
<1>1. CASE Unopened(row)
  BY <1>1 DEF Fit, RowValid, ShapeValid, Unopened
<1>2. CASE OnConfiguredNode(h, row)
  BY <1>2 DEF ShapeValid, OnConfiguredNode
<1> QED
  BY <1>1, <1>2 DEF Fit, RowValid

\* All nodes up to the one a row is on, and the first of each stage below it,
\* are there.
LEMMA NodesBelow ==
    ASSUME NEW h \in Eligible, NEW row \in Row, OnConfiguredNode(h, row)
    PROVE  /\ \A n \in 1..row.level : <<row.rank, n>> \in Slot[h]
           /\ \A stage \in 1..row.rank : <<stage, 1>> \in Slot[h]
<1> DEFINE s == <<row.rank, row.level>>
<1>1. s \in Slot[h] /\ s[1] = row.rank /\ s[2] = row.level
  BY DEF OnConfiguredNode
<1> QED
  BY <1>1, CatalogAssumption DEF SlotsWithoutGaps

\* The kit and the attributes of such a row can be resolved.
LEMMA FitFights ==
    ASSUME NEW h \in Eligible, NEW row \in Row, Fit(h, row)
    PROVE  /\ AttributesResolve(h, row)
           /\ \A ex \in Levels(h) : KitResolves(h, row, ex)
<1>1. AttributesResolve(h, row)
  <2>1. CASE Unopened(row)
    BY <2>1 DEF AttributesResolve
  <2>2. CASE OnConfiguredNode(h, row)
    <3>1. ASSUME NEW stage \in 1..(row.rank - 1) PROVE StageSlots(h, stage) # {}
      <4>1. row.rank \in Nat
        BY DEF Row
      <4>2. stage \in 1..row.rank
        BY <4>1
      <4> DEFINE s == <<stage, 1>>
      <4>3. s \in Slot[h] /\ s[1] = stage /\ s[2] = 1
        BY <2>2, <4>2, NodesBelow
      <4>4. \A n \in 1..1 : n = 1
        OBVIOUS
      <4>5. s \in StageSlots(h, stage)
        BY <4>3, <4>4 DEF StageSlots
      <4> QED
        BY <4>5
    <3> QED
      BY <2>2, <3>1, NodesBelow DEF AttributesResolve, OnConfiguredNode
  <2> QED
    BY <2>1, <2>2 DEF Fit, RowValid
<1>2. ASSUME NEW ex \in Levels(h) PROVE KitResolves(h, row, ex)
  <2>1. MaxEx[h] \in Nat /\ ex \in 0..MaxEx[h]
    BY KitAssumption DEF Levels
  <2>2. ASSUME Reshaped(h, row) PROVE ReshapeConfigured(row, ex)
    <3> DEFINE f == <<row.stone, row.rank>>
    <3>1. f \in DOMAIN FacetRow /\ f[1] = row.stone /\ f[1] \in Facet[h] /\ FacetRow[f].reshape
      BY <2>2 DEF Reshaped, FacetActive
    <3>2. \A n \in 1..MaxEx[h] : <<row.stone, n>> \in DOMAIN ReshapeRow
      BY <3>1, KitAssumption DEF ReshapesConfigured
    <3> QED
      BY <2>1, <3>2 DEF ReshapeConfigured
  <2> QED
    BY <2>1, <2>2, FitShape DEF KitResolves
<1> QED
  BY <1>1, <1>2

\* Its attributes come from the slots that were paid for.
LEMMA FitPaid ==
    ASSUME NEW h \in Eligible, NEW row \in Row, OnConfiguredNode(h, row)
    PROVE  IncludedSlots(h, row) = PathSlots(h, row)
<1> row.rank \in Nat /\ row.level \in Nat /\ row.rank > 0
  BY DEF Row, OnConfiguredNode
<1>0. Slot[h] \subseteq Positive \X Positive
  BY CatalogAssumption
<1>1. ASSUME NEW s \in IncludedSlots(h, row) PROVE s \in PathSlots(h, row)
  <2>1. ASSUME NEW stage \in 1..(row.rank - 1), s \in StageSlots(h, stage)
        PROVE  s \in PathSlots(h, row)
    <3>1. s \in Slot[h] /\ s[1] = stage /\ stage < row.rank
      BY <2>1 DEF StageSlots
    <3> QED
      BY <3>1 DEF PathSlots
  <2>2. CASE s \in {row.rank} \X (1..row.level)
    <3>1. s = <<row.rank, s[2]>> /\ s[1] = row.rank /\ s[2] \in 1..row.level
      BY <2>2
    <3>2. s \in Slot[h]
      BY <3>1, NodesBelow
    <3> QED
      BY <3>1, <3>2 DEF PathSlots
  <2> QED
    BY <1>1, <2>1, <2>2 DEF IncludedSlots
<1>2. ASSUME NEW s \in PathSlots(h, row) PROVE s \in IncludedSlots(h, row)
  <2>1. s \in Slot[h] /\ s = <<s[1], s[2]>> /\ s[1] \in Nat \ {0} /\ s[2] \in Nat \ {0}
    BY <1>0, <1>2 DEF PathSlots, Positive
  <2>2. CASE s[1] < row.rank
    <3>1. s[1] \in 1..(row.rank - 1)
      BY <2>1, <2>2
    <3>2. s \in StageSlots(h, s[1])
      BY <2>1, CatalogAssumption DEF StageSlots, SlotsWithoutGaps
    <3> QED
      BY <3>1, <3>2 DEF IncludedSlots
  <2>3. CASE s[1] = row.rank /\ s[2] <= row.level
    <3>1. s[2] \in 1..row.level
      BY <2>1, <2>3
    <3>2. s \in {row.rank} \X (1..row.level)
      BY <2>1, <2>3, <3>1
    <3> QED
      BY <3>2 DEF IncludedSlots
  <2> QED
    BY <1>2, <2>2, <2>3 DEF PathSlots
<1> QED
  BY <1>1, <1>2

-----------------------------------------------------------------------------
(* Theorems. *)

\* Every hero can be built for a battle, after any history of commands, other
\* payments and crashes: CanFight is the first part of FightsAsPaid.
THEOREM EveryHeroFights == Spec => []CanFight
<1>1. IInv /\ RowsValid /\ StonesAfterStages => CanFight
  <2> SUFFICES ASSUME IInv, RowsValid, StonesAfterStages, NEW h \in Eligible
               PROVE  /\ AttributesResolve(h, rows[h])
                      /\ \A ex \in Levels(h) : KitResolves(h, rows[h], ex)
    BY DEF CanFight
  <2>1. rows[h] \in Row /\ Fit(h, rows[h])
    BY DEF IInv, TypeOK, RowsValid, StonesAfterStages, Fit
  <2> QED
    BY <2>1, FitFights
<1> QED
  BY <1>1, Invariance, RowsAlwaysValid, StagesBeforeStones, PTL

\* What a hero fights with is what was paid for it: the slots that give it
\* attributes are those Ledger counts the price of.
THEOREM AttributesArePaid == Spec => []AttributesPaidFor
<1>1. IInv /\ RowsValid => AttributesPaidFor
  <2> SUFFICES ASSUME IInv, RowsValid, NEW h \in Eligible, ~Unopened(rows[h])
               PROVE  IncludedSlots(h, rows[h]) = PathSlots(h, rows[h])
    BY DEF AttributesPaidFor
  <2>1. rows[h] \in Row /\ OnConfiguredNode(h, rows[h])
    BY DEF IInv, TypeOK, RowsValid, RowValid
  <2> QED
    BY <2>1, FitPaid
<1> QED
  BY <1>1, Invariance, RowsAlwaysValid, PTL
=============================================================================
