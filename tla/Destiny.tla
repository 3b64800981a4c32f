------------------------------- MODULE Destiny -------------------------------
(***************************************************************************)
(* execute_destiny_command over the shared SQLite file                     *)
(* (database/src/db/game/destiny.rs): sessions of the game server run      *)
(* commands concurrently, each as up to MaxAttempts immediate              *)
(* transactions, while readers hold shared locks, other handlers add to    *)
(* and take from the same balances statement by statement, and the process *)
(* may stop at any point.                                                  *)
(*                                                                         *)
(* SQLite (an external component, in rollback-journal mode as sqlx opens   *)
(* it) is modelled by the locks the code meets: one writer, whose pages    *)
(* are private until COMMIT; COMMIT of changed pages fails while a reader  *)
(* holds the file; a statement outside a transaction is atomic by itself.  *)
(***************************************************************************)
EXTENDS DestinyPlan, FiniteSets

CONSTANTS
    Session,      \* connections of the game server
    Reader,       \* handlers reading while a transaction runs
    Spender,      \* handlers that pay with remove_currency / remove_item_quantity
    None,
    MaxAttempts,  \* MAX_TRANSACTION_ATTEMPTS
    PoolSize,     \* connections of the sqlx pool
    StartBalance, \* materials at the start
    MaxBalance    \* bound: no grant once a balance is this high

ASSUME DestinyAssumption ==
    /\ MaxAttempts \in Positive
    /\ PoolSize \in Positive
    /\ StartBalance \in [Material -> Nat]
    /\ MaxBalance \in Nat
    /\ None \notin Session
    /\ None \notin Command

VARIABLES
    rows,      \* committed: destiny columns and unlocked stones per hero
    balance,   \* committed: quantity per material, of items and currencies
    writer,    \* the session whose transaction holds the write lock, or None
    tx,        \* that transaction's pages, the row it planned from, what it owes
    readers,   \* handlers in the middle of a read
    pc,        \* pc[s]: where s is in execute_destiny_command
    cmd,       \* cmd[s]: its command, or None
    attempt,   \* attempt[s]: the loop counter
    result,    \* result[s]: the answer, or what follows the rollback
    spend,     \* spend[p]: the payment p has checked and not yet made, or None
    funded     \* history: what the account came with, plus grants, less payments

dbVars == <<rows, balance>>
sessionVars == <<pc, cmd, attempt, result>>
vars == <<rows, balance, writer, tx, readers, pc, cmd, attempt, result, spend, funded>>

Stage == {"idle", "acquire", "begin", "open", "pay", "commit", "rollback", "answer"}

NoResult == [code |-> "Pending", row |-> FreshRow, changed |-> FALSE]
Failure(code) == [NoResult EXCEPT !.code = code]
Change(row, changed) == [code |-> "Ok", row |-> row, changed |-> changed]

NoTx == [rows |-> [h \in Eligible |-> FreshRow],
         balance |-> [m \in Material |-> 0],
         seen |-> FreshRow,
         unpaid |-> {}]

Result == [code : {"Pending", "Ok", "Retry", "Invalid", "Insufficient", "Conflict", "Internal"},
           row : Row, changed : BOOLEAN]

Pages == [rows : [Eligible -> Row], balance : [Material -> Int],
          seen : Row, unpaid : SUBSET Material]

TypeOK ==
    /\ rows \in [Eligible -> Row]
    /\ balance \in [Material -> Int]
    /\ writer \in Session \cup {None}
    /\ tx \in Pages
    /\ readers \subseteq Reader
    /\ pc \in [Session -> Stage]
    /\ cmd \in [Session -> Command \cup {None}]
    /\ attempt \in [Session -> 0..(MaxAttempts - 1)]
    /\ result \in [Session -> Result]
    /\ spend \in [Spender -> (Material \X Nat) \cup {None}]
    /\ DOMAIN funded = Material   \* whole numbers too, by Ledger

\* The slots on the way to a row.
PathSlots(h, row) ==
    {n \in Slot[h] : n[1] < row.rank \/ (n[1] = row.rank /\ n[2] <= row.level)}

\* The price of the whole way to a row: every node below it and every stone.
PathPrice(h, row, m) ==
    SumFunctionOnSet([n \in Slot[h] |-> SlotCost[h][n][m]], PathSlots(h, row))
    + SumFunctionOnSet([x \in DOMAIN FacetCost |-> FacetCost[x][m]], row.unlocked \cap DOMAIN FacetCost)

\* The price of the progress all heroes show.
Progress(r, m) == SumFunctionOnSet([h \in Eligible |-> PathPrice(h, r[h], m)], Eligible)

Init ==
    /\ rows \in [Eligible -> UNION {InitialRows(h) : h \in Eligible}]
    /\ \A h \in Eligible : rows[h] \in InitialRows(h)
    /\ balance = StartBalance
    /\ writer = None
    /\ tx = NoTx
    /\ readers = {}
    /\ pc = [s \in Session |-> "idle"]
    /\ cmd = [s \in Session |-> None]
    /\ attempt = [s \in Session |-> 0]
    /\ result = [s \in Session |-> NoResult]
    /\ spend = [p \in Spender |-> None]
    /\ funded = [m \in Material |-> balance[m] + Progress(rows, m)]

-----------------------------------------------------------------------------
(* The connection pool: a transaction holds a connection from acquire to   *)
(* drop, another handler for the length of its statement.                  *)

Connected(s) == pc[s] \in {"begin", "open", "pay", "commit", "rollback"}

InUse == Cardinality({s \in Session : Connected(s)}) + Cardinality(readers)

Goto(s, stage) == pc' = [pc EXCEPT ![s] = stage]

\* The session answers with r.
Finish(s, r) == Goto(s, "answer") /\ result' = [result EXCEPT ![s] = r]

\* Mutant of RetryOrConflict: the loop counter is not advanced.
RetryForever(s) ==
    /\ Goto(s, "acquire")
    /\ result' = [result EXCEPT ![s] = NoResult]
    /\ UNCHANGED attempt

\* `continue` after retry_backoff: the next attempt, or Conflict after the last.
RetryOrConflict(s) ==
    IF attempt[s] + 1 < MaxAttempts
    THEN /\ Goto(s, "acquire")
         /\ attempt' = [attempt EXCEPT ![s] = @ + 1]
         /\ result' = [result EXCEPT ![s] = NoResult]
    ELSE Finish(s, Failure("Conflict")) /\ UNCHANGED attempt

\* The attempt failed: roll back, then retry or answer with the code.
Abort(s, code) ==
    Goto(s, "rollback") /\ result' = [result EXCEPT ![s] = Failure(code)]

-----------------------------------------------------------------------------
(* One command, from the handler to its answer.                            *)

\* 1. A destiny handler calls execute_destiny_command.
Submit(s, c) ==
    /\ pc[s] = "idle"
    /\ cmd' = [cmd EXCEPT ![s] = c]
    /\ attempt' = [attempt EXCEPT ![s] = 0]
    /\ Goto(s, "acquire")
    /\ UNCHANGED <<dbVars, writer, tx, readers, result, spend, funded>>

\* 2. ImmediateTransaction::begin takes a connection from the pool within
\*    CONNECTION_ACQUIRE_TIMEOUT_MS ...
Acquire(s) ==
    /\ pc[s] = "acquire"
    /\ InUse < PoolSize
    /\ Goto(s, "begin")
    /\ UNCHANGED <<dbVars, writer, tx, readers, cmd, attempt, result, spend, funded>>

\*    ... or reports PoolTimedOut, which is retryable.
AcquireTimesOut(s) ==
    /\ pc[s] = "acquire"
    /\ InUse >= PoolSize
    /\ RetryOrConflict(s)
    /\ UNCHANGED <<dbVars, writer, tx, readers, cmd, spend, funded>>

\* Mutant of BeginImmediate: a deferred BEGIN, which takes no lock.
BeginDeferred(s) ==
    /\ pc[s] = "begin"
    /\ writer' = s
    /\ tx' = [NoTx EXCEPT !.rows = rows, !.balance = balance]
    /\ Goto(s, "open")
    /\ UNCHANGED <<dbVars, readers, cmd, attempt, result, spend, funded>>

\* 3. BEGIN IMMEDIATE takes the write lock ...
BeginImmediate(s) ==
    /\ pc[s] = "begin"
    /\ writer = None
    /\ writer' = s
    /\ tx' = [NoTx EXCEPT !.rows = rows, !.balance = balance]
    /\ Goto(s, "open")
    /\ UNCHANGED <<dbVars, readers, cmd, attempt, result, spend, funded>>

\*    ... or fails after DESTINY_BUSY_TIMEOUT_MS; the connection is dropped.
BeginBusy(s) ==
    /\ pc[s] = "begin"
    /\ writer # None
    /\ RetryOrConflict(s)
    /\ UNCHANGED <<dbVars, writer, tx, readers, cmd, spend, funded>>

\*    Any other error of PRAGMA or BEGIN ends the command.
BeginFails(s) ==
    /\ pc[s] = "begin"
    /\ Finish(s, Failure("Internal"))
    /\ UNCHANGED <<dbVars, writer, tx, readers, cmd, attempt, spend, funded>>

\* 4. execute_attempt reads the hero and plans the transition.
PlanAttempt(s) ==
    /\ pc[s] = "open"
    /\ LET c == cmd[s] IN
       IF c.hero \notin Eligible \/ ~Accepted(tx.rows[c.hero], c)
       THEN Abort(s, "Invalid") /\ UNCHANGED tx
       ELSE LET seen == tx.rows[c.hero] IN
            IF After(seen, c) = seen
            THEN /\ Goto(s, "commit")
                 /\ result' = [result EXCEPT ![s] = Change(seen, FALSE)]
                 /\ tx' = [tx EXCEPT !.seen = seen]
            ELSE /\ Goto(s, "pay")
                 /\ tx' = [tx EXCEPT !.seen = seen, !.unpaid = Materials(seen, c)]
                 /\ UNCHANGED result
    /\ UNCHANGED <<dbVars, writer, readers, cmd, attempt, spend, funded>>

\* Mutant of Deduct: the UPDATE has lost `AND quantity >= ?`.
DeductUnguarded(s, m) ==
    /\ pc[s] = "pay"
    /\ m \in tx.unpaid
    /\ tx' = [tx EXCEPT !.balance[m] = @ - Cost(tx.seen, cmd[s])[m], !.unpaid = @ \ {m}]
    /\ UNCHANGED <<dbVars, writer, readers, pc, cmd, attempt, result, spend, funded>>

\* Mutant of Deduct: the UPDATE runs on the pool and not in the transaction.
DeductOnPool(s, m) ==
    /\ pc[s] = "pay"
    /\ m \in tx.unpaid
    /\ LET price == Cost(tx.seen, cmd[s])[m] IN
       IF balance[m] >= price
       THEN /\ balance' = [balance EXCEPT ![m] = @ - price]
            /\ tx' = [tx EXCEPT !.balance[m] = @ - price, !.unpaid = @ \ {m}]
            /\ UNCHANGED <<pc, result>>
       ELSE Abort(s, "Insufficient") /\ UNCHANGED <<tx, balance>>
    /\ UNCHANGED <<rows, writer, readers, cmd, attempt, spend, funded>>

\* 5. The guarded UPDATE of one cost.  The plan's order decides only which
\*    missing material the log names, so it is left open.
Deduct(s, m) ==
    /\ pc[s] = "pay"
    /\ m \in tx.unpaid
    /\ LET price == Cost(tx.seen, cmd[s])[m] IN
       IF tx.balance[m] >= price
       THEN /\ tx' = [tx EXCEPT !.balance[m] = @ - price, !.unpaid = @ \ {m}]
            /\ UNCHANGED <<pc, result>>
       ELSE Abort(s, "Insufficient") /\ UNCHANGED tx
    /\ UNCHANGED <<dbVars, writer, readers, cmd, attempt, spend, funded>>

\* 6. Once all is paid: the compare-and-set on the heroes row, the insert of an unlocked stone,
\*    and the snapshot the answer is built from.
UpdateHero(s) ==
    /\ pc[s] = "pay"
    /\ tx.unpaid = {}
    /\ LET c   == cmd[s]
           h   == c.hero
           new == After(tx.seen, c)
       IN IF /\ tx.rows[h].rank = tx.seen.rank
             /\ tx.rows[h].level = tx.seen.level
             /\ tx.rows[h].stone = tx.seen.stone
          THEN /\ tx' = [tx EXCEPT !.rows[h] = new]
               /\ result' = [result EXCEPT ![s] = Change(new, TRUE)]
               /\ Goto(s, "commit")
          ELSE Abort(s, "Retry") /\ UNCHANGED tx
    /\ UNCHANGED <<dbVars, writer, readers, cmd, attempt, spend, funded>>

\* Any statement of the attempt fails: a lock error is retried, another is not.
StatementFails(s, code) ==
    /\ pc[s] \in {"open", "pay", "commit"}
    /\ Abort(s, code)
    /\ UNCHANGED <<dbVars, writer, tx, readers, cmd, attempt, spend, funded>>

\* 7. COMMIT publishes the pages; it needs the file to itself if they changed.
Commit(s) ==
    /\ pc[s] = "commit"
    /\ readers = {} \/ ~result[s].changed
    /\ rows' = tx.rows
    /\ balance' = tx.balance
    /\ writer' = None
    /\ tx' = NoTx
    /\ Goto(s, "answer")
    /\ UNCHANGED <<readers, cmd, attempt, result, spend, funded>>

\* Mutant of CommitBusy: the error of COMMIT is dropped and the command succeeds.
CommitErrorIgnored(s) ==
    /\ pc[s] = "commit"
    /\ readers # {} /\ result[s].changed
    /\ writer' = None
    /\ tx' = NoTx
    /\ Goto(s, "answer")
    /\ UNCHANGED <<dbVars, readers, cmd, attempt, result, spend, funded>>

CommitBusy(s) ==
    /\ pc[s] = "commit"
    /\ readers # {} /\ result[s].changed
    /\ Abort(s, "Retry")
    /\ UNCHANGED <<dbVars, writer, tx, readers, cmd, attempt, spend, funded>>

\* 8. ROLLBACK drops the pages and the connection.
Rollback(s) ==
    /\ pc[s] = "rollback"
    /\ writer' = None
    /\ tx' = NoTx
    /\ IF result[s].code = "Retry"
       THEN RetryOrConflict(s)
       ELSE Goto(s, "answer") /\ UNCHANGED <<attempt, result>>
    /\ UNCHANGED <<dbVars, readers, cmd, spend, funded>>

\*    If ROLLBACK itself fails, closing the connection has the same effect.
RollbackFails(s) ==
    /\ pc[s] = "rollback"
    /\ writer' = None
    /\ tx' = NoTx
    /\ Finish(s, Failure("Internal"))
    /\ UNCHANGED <<dbVars, readers, cmd, attempt, spend, funded>>

\* 9. The handler queues pushes and reply; the client may never see them.
Answer(s) ==
    /\ pc[s] = "answer"
    /\ Goto(s, "idle")
    /\ cmd' = [cmd EXCEPT ![s] = None]
    /\ attempt' = [attempt EXCEPT ![s] = 0]
    /\ result' = [result EXCEPT ![s] = NoResult]
    /\ UNCHANGED <<dbVars, writer, tx, readers, spend, funded>>

-----------------------------------------------------------------------------
(* Everything else that touches the database.                              *)

StartRead(r) ==
    /\ r \notin readers
    /\ InUse < PoolSize
    /\ readers' = readers \cup {r}
    /\ UNCHANGED <<dbVars, writer, tx, sessionVars, spend, funded>>

EndRead(r) ==
    /\ r \in readers
    /\ readers' = readers \ {r}
    /\ UNCHANGED <<dbVars, writer, tx, sessionVars, spend, funded>>

\* A statement of its own can write only while nobody holds the file.
FileFree == writer = None /\ readers = {}

\* add_currency, add_item_quantity: one upsert.
Grant(m) ==
    /\ FileFree
    /\ balance[m] < MaxBalance
    /\ balance' = [balance EXCEPT ![m] = @ + 1]
    /\ funded' = [funded EXCEPT ![m] = @ + 1]
    /\ UNCHANGED <<rows, writer, tx, readers, sessionVars, spend>>

\* remove_currency, remove_item_quantity: a SELECT that checks the balance ...
SpendCheck(p, m, amount) ==
    /\ spend[p] = None
    /\ balance[m] >= amount
    /\ spend' = [spend EXCEPT ![p] = <<m, amount>>]
    /\ UNCHANGED <<dbVars, writer, tx, readers, sessionVars, funded>>

\*    ... and a later UPDATE that does not check it again.
SpendPay(p) ==
    /\ spend[p] # None
    /\ FileFree
    /\ LET m == spend[p][1]
           amount == spend[p][2]
       IN /\ balance' = [balance EXCEPT ![m] = @ - amount]
          /\ funded' = [funded EXCEPT ![m] = @ - amount]
    /\ spend' = [spend EXCEPT ![p] = None]
    /\ UNCHANGED <<rows, writer, tx, readers, sessionVars>>

\* The game server stops.  The journal of an open transaction is rolled back
\* when the file is next opened; the clients reconnect and may send the same
\* command again.
Crash ==
    /\ writer' = None
    /\ tx' = NoTx
    /\ readers' = {}
    /\ pc' = [s \in Session |-> "idle"]
    /\ cmd' = [s \in Session |-> None]
    /\ attempt' = [s \in Session |-> 0]
    /\ result' = [s \in Session |-> NoResult]
    /\ spend' = [p \in Spender |-> None]
    /\ UNCHANGED <<dbVars, funded>>

Execute(s) ==
    \/ Acquire(s) \/ AcquireTimesOut(s)
    \/ BeginImmediate(s) \/ BeginBusy(s) \/ BeginFails(s)
    \/ PlanAttempt(s)
    \/ \E m \in Material : Deduct(s, m)
    \/ UpdateHero(s)
    \/ \E code \in {"Retry", "Internal"} : StatementFails(s, code)
    \/ Commit(s) \/ CommitBusy(s)
    \/ Rollback(s) \/ RollbackFails(s)
    \/ Answer(s)

Environment ==
    \/ \E r \in Reader : StartRead(r) \/ EndRead(r)
    \/ \E m \in Material : Grant(m)
    \/ \E p \in Spender :
          \/ \E m \in Material, amount \in 1..MaxBalance : SpendCheck(p, m, amount)
          \/ SpendPay(p)
    \/ Crash

Next ==
    \/ \E s \in Session : (\E c \in Command : Submit(s, c)) \/ Execute(s)
    \/ Environment

Spec == Init /\ [][Next]_vars

\* Every wait of a command is bounded by a timeout of the code (50 ms for a
\* connection, 25 ms for a lock, 10..40 ms of backoff), so a session that has
\* something to do does it.
FairSpec == Spec /\ \A s \in Session : WF_vars(Execute(s))

-----------------------------------------------------------------------------
(* Properties.                                                             *)

\* While a session plans, pays and updates, the committed row of its hero is
\* still the row it planned from: nobody can slip a change between the read
\* and the compare-and-set, so its RetryConflict branch never fires.
PlanStaysCurrent ==
    \A s \in Session :
        pc[s] = "pay" =>
            /\ tx.seen = rows[cmd[s].hero]
            /\ tx.rows = rows

\* The committed hero rows are always ones the game can show: on a configured
\* node or unopened, wearing nothing or a facet of its own that is unlocked.
RowValid(h, row) ==
    /\ Unopened(row) \/ OnConfiguredNode(h, row)
    /\ row.unlocked \subseteq Facet[h]
    /\ row.stone = NoStone \/ row.stone \in row.unlocked

RowsValid == \A h \in Eligible : RowValid(h, rows[h])

\* Nothing is lost and nothing is paid twice: per material, the balance and the
\* price of the progress the heroes show add up to what the account was given.
Ledger == \A m \in Material : balance[m] + Progress(rows, m) = funded[m]

\* No destiny commit leaves a material it charged for below zero, whatever
\* the other handlers do to the balances.
NeverOverdraws ==
    [][\A m \in Material :
          rows' # rows /\ balance'[m] < balance[m] => balance'[m] >= 0]_vars

\* A commit moves at most one hero and never back, neither down the path nor by
\* a stone; one that takes materials moves that hero strictly ahead.
NotBehind(old, new) ==
    /\ old.rank < new.rank \/ (old.rank = new.rank /\ old.level <= new.level)
    /\ old.unlocked \subseteq new.unlocked

Ahead(old, new) ==
    \/ old.rank < new.rank
    \/ old.rank = new.rank /\ old.level < new.level
    \/ old.unlocked # new.unlocked

PaidMeansAdvanced ==
    [][rows' # rows =>
          \E h \in Eligible :
             /\ rows' = [rows EXCEPT ![h] = rows'[h]]
             /\ NotBehind(rows[h], rows'[h])
             /\ balance' # balance => Ahead(rows[h], rows'[h])]_vars

\* Every command is answered, however the attempts collide.
EveryCommandAnswered ==
    \A s \in Session : (pc[s] = "acquire") ~> (pc[s] \in {"answer", "idle"})

\* The subsystem implements atomic commands.
Atomic == INSTANCE DestinyAtomic WITH
    request <- cmd,
    outcome <- [s \in Session |-> IF pc[s] = "answer" THEN result[s] ELSE NoResult]

ImplementsAtomic == Atomic!Spec

-----------------------------------------------------------------------------
(* The inductive invariant: what each stage of a command knows.  Since the *)
(* write lock keeps the committed state still, an open transaction is      *)
(* always described by that state and the command alone.                   *)

CommandInv ==
    \A s \in Session :
        /\ cmd[s] = None <=> pc[s] = "idle"
        /\ pc[s] = "answer" => result[s].code \notin {"Pending", "Retry"}

LockInv ==
    \A s \in Session : pc[s] \in {"open", "pay", "commit", "rollback"} <=> writer = s

\* The plan for the committed row exists.
Planned(c) == c.hero \in Eligible /\ Accepted(rows[c.hero], c)

\* The committed balances cover m's part of the price.
Covers(c, m) == balance[m] >= Cost(rows[c.hero], c)[m]

Opened(s) == tx.rows = rows /\ tx.balance = balance

\* A plan that changes something, paid for but for tx.unpaid.
Paying(s) ==
    LET c   == cmd[s]
        row == rows[c.hero]
    IN /\ Planned(c)
       /\ After(row, c) # row
       /\ tx.rows = rows
       /\ tx.seen = row
       /\ tx.unpaid \subseteq Materials(row, c)
       /\ \A m \in tx.unpaid : tx.balance[m] = balance[m]
       /\ \A m \in Material \ tx.unpaid : tx.balance[m] = balance[m] - Cost(row, c)[m]
       /\ \A m \in Materials(row, c) \ tx.unpaid : Covers(c, m)

\* The pages hold exactly what the plan says of the committed state.
Committing(s) ==
    LET c   == cmd[s]
        row == rows[c.hero]
        new == After(row, c)
    IN /\ Planned(c)
       /\ result[s] = Change(new, new # row)
       /\ tx.rows = [rows EXCEPT ![c.hero] = new]
       /\ new = row => tx.balance = balance
       /\ new # row =>
              /\ tx.balance = [m \in Material |-> balance[m] - Cost(row, c)[m]]
              /\ \A m \in Materials(row, c) : Covers(c, m)

\* A refusal is true of the committed state.
RollingBack(s) ==
    \E code \in {"Retry", "Internal", "Invalid", "Insufficient"} :
        result[s] = Failure(code) /\ Atomic!Truthful(cmd[s], code)

TransactionInv ==
    \A s \in Session :
        /\ pc[s] = "open" => Opened(s)
        /\ pc[s] = "pay" => Paying(s)
        /\ pc[s] = "commit" => Committing(s)
        /\ pc[s] = "rollback" => RollingBack(s)

\* Between BEGIN IMMEDIATE and COMMIT a transaction's private pages, its plan
\* and its pending answer follow from the committed rows and balances.
IInv == TypeOK /\ CommandInv /\ LockInv /\ TransactionInv
=============================================================================
