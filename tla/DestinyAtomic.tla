---------------------------- MODULE DestinyAtomic ----------------------------
(***************************************************************************)
(* What the Destiny subsystem promises: each command takes effect in one   *)
(* step between its request and its answer, or has no effect at all.  A    *)
(* success changes exactly the row the plan names and takes exactly the    *)
(* price of that plan from the state it replaces; every other answer       *)
(* leaves rows and balances untouched, and the answers "Invalid" and       *)
(* "Insufficient" tell the truth about the state at that moment.           *)
(*                                                                         *)
(* Nothing here comes from the code: module Destiny, which does, is shown  *)
(* to implement this module.                                               *)
(***************************************************************************)
EXTENDS Integers

CONSTANTS
    Session, None,
    Eligible,           \* heroes with a row
    Material,
    Row, FreshRow,      \* the rows, and one of them
    Command,
    Accepted(_, _),     \* Accepted(row, c): the rules admit c on row,
    After(_, _),        \* leave this row behind
    Cost(_, _)          \* and ask this much of each material

VARIABLES
    rows,      \* rows[h]: h's destiny columns and unlocked stones
    balance,   \* balance[m]: quantity of the material
    request,   \* request[s]: the command s is waiting for, or None
    outcome    \* outcome[s]: its answer, once decided

vars == <<rows, balance, request, outcome>>

Refusal == {"Invalid", "Insufficient", "Conflict", "Internal"}

\* The answer not yet given; a refusal carries no row.
NoOutcome == [code |-> "Pending", row |-> FreshRow, changed |-> FALSE]
Refused(code) == [NoOutcome EXCEPT !.code = code]
Success(row, changed) == [code |-> "Ok", row |-> row, changed |-> changed]

Init ==
    /\ rows \in [Eligible -> Row]
    /\ balance \in [Material -> Int]
    /\ request = [s \in Session |-> None]
    /\ outcome = [s \in Session |-> NoOutcome]

Submit(s, c) ==
    /\ request[s] = None
    /\ request' = [request EXCEPT ![s] = c]
    /\ UNCHANGED <<rows, balance, outcome>>

Undecided(s) == request[s] # None /\ outcome[s] = NoOutcome

\* What the account lacks for c.
Missing(c) ==
    LET price == Cost(rows[c.hero], c) IN
    {m \in Material : price[m] > 0 /\ balance[m] < price[m]}

\* The one step in which a command takes effect.
Succeed(s) ==
    /\ Undecided(s)
    /\ LET c   == request[s]
           h   == c.hero
           new == After(rows[h], c)
       IN /\ h \in Eligible
          /\ Accepted(rows[h], c)
          /\ IF new = rows[h]
             THEN UNCHANGED balance
             ELSE /\ Missing(c) = {}
                  /\ balance' = [m \in Material |-> balance[m] - Cost(rows[h], c)[m]]
          /\ rows' = [rows EXCEPT ![h] = new]
          /\ outcome' = [outcome EXCEPT ![s] = Success(new, new # rows[h])]
    /\ UNCHANGED request

\* What a refusal says of the state.  Conflict and Internal say nothing of it.
Truthful(c, code) ==
    LET h == c.hero IN
    /\ code = "Invalid" => h \notin Eligible \/ ~Accepted(rows[h], c)
    /\ code = "Insufficient" =>
           /\ h \in Eligible
           /\ Accepted(rows[h], c)
           /\ Missing(c) # {}

Refuse(s, code) ==
    /\ Undecided(s)
    /\ Truthful(request[s], code)
    /\ outcome' = [outcome EXCEPT ![s] = Refused(code)]
    /\ UNCHANGED <<rows, balance, request>>

Answer(s) ==
    /\ outcome[s] # NoOutcome
    /\ request' = [request EXCEPT ![s] = None]
    /\ outcome' = [outcome EXCEPT ![s] = NoOutcome]
    /\ UNCHANGED <<rows, balance>>

\* The rest of the server grants and spends materials as it likes, and never
\* touches a destiny row.
Elsewhere ==
    /\ balance' \in [Material -> Int]
    /\ UNCHANGED <<rows, request, outcome>>

\* The process stops: requests and answers are lost, rows and balances are not.
Crash ==
    /\ request' = [s \in Session |-> None]
    /\ outcome' = [s \in Session |-> NoOutcome]
    /\ UNCHANGED <<rows, balance>>

Next ==
    \/ \E s \in Session :
          \/ \E c \in Command : Submit(s, c)
          \/ Succeed(s)
          \/ \E code \in Refusal : Refuse(s, code)
          \/ Answer(s)
    \/ Elsewhere
    \/ Crash

Spec == Init /\ [][Next]_vars
=============================================================================
