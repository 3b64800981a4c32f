------------------------------- MODULE Account -------------------------------
(***************************************************************************)
(* Accounts: the login requests of the SDK server (handlers/account,       *)
(* db/user/account.rs), the first-login creation of an account by them,    *)
(* and the game server's connections, which authenticate with the token an *)
(* SDK answer carried.  The two servers are two processes over one SQLite  *)
(* file; each statement outside a transaction is atomic on its own, and    *)
(* requests interleave between statements.                                 *)
(*                                                                         *)
(* A request is served once and then gone, so its name also stands for the *)
(* token generated while it is served.                                     *)
(***************************************************************************)
EXTENDS FiniteSets, Starter

CONSTANTS
    Email, Password, Name,
    NameOf,       \* NameOf[e]: what stands before the @ of e
    Hash,         \* Hash[e]: the hash of e in lower case
    IdRange,      \* ids are FirstId .. FirstId + IdRange - 1
    Request,      \* requests to the SDK server, and their tokens
    Session,      \* connections to the game server
    None,
    MaxFaults     \* bound: statements that fail, requests given up, processes that stop

FirstId == 1000000
Id == FirstId..(FirstId + IdRange - 1)

User == [email : Email, password : Password, name : Name, token : Request]

ASSUME AccountAssumption ==
    /\ NameOf \in [Email -> Name]
    /\ Hash \in [Email -> Nat]
    /\ IdRange \in Nat \ {0}
    /\ MaxFaults \in Nat
    /\ None \notin Email /\ None \notin Password /\ None \notin Request /\ None \notin Id
    /\ None \notin User /\ None \notin {"ok", "refused"}

\* The stages of a mail login that create an account.
Creating == {"insertState", "loadStarter"}
Serving == {"find", "verify", "update", "insert", "present", "refresh"} \cup Creating
Stage == {"new", "done"} \cup Serving
SessionStage == {"offline", "load", "create", "reset", "in"}

VARIABLES
    users,     \* users[i]: the row of users with id i, or None
    states,    \* the ids with a row of player_state
    touched,   \* the ids with a row that starter data inserts and a session
               \* writes too (hero_touch_count, guide_progress)
    starter,   \* the ids whose starter data is loaded
    pc,        \* pc[r]: the next statement of request r
    email, password, \* what a mail login gave
    shown,     \* shown[r]: the token an auto login presented
    user,      \* user[r]: the id r found, generated or was given
    answer,    \* answer[r]: None, "ok" or "refused"
    stage,     \* stage[s]: where connection s is
    owner,     \* owner[s]: the id s logs in as
    faults     \* how many of these there were

db == <<users, states, touched, starter>>
requests == <<pc, email, password, shown, user, answer>>
sessions == <<stage, owner>>
vars == <<db, requests, sessions, faults>>

TypeOK ==
    /\ users \in [Id -> User \cup {None}]
    /\ states \subseteq Id /\ touched \subseteq Id /\ starter \subseteq Id
    /\ pc \in [Request -> Stage]
    /\ email \in [Request -> Email \cup {None}]
    /\ password \in [Request -> Password \cup {None}]
    /\ shown \in [Request -> Request \cup {None}]
    /\ user \in [Request -> Id \cup {None}]
    /\ answer \in [Request -> {None, "ok", "refused"}]
    /\ stage \in [Session -> SessionStage]
    /\ owner \in [Session -> Id \cup {None}]
    /\ faults \in 0..MaxFaults

Init ==
    /\ users = [i \in Id |-> None]
    /\ states = {} /\ touched = {} /\ starter = {}
    /\ pc = [r \in Request |-> "new"]
    /\ email = [r \in Request |-> None]
    /\ password = [r \in Request |-> None]
    /\ shown = [r \in Request |-> None]
    /\ user = [r \in Request |-> None]
    /\ answer = [r \in Request |-> None]
    /\ stage = [s \in Session |-> "offline"]
    /\ owner = [s \in Session |-> None]
    /\ faults = 0

-----------------------------------------------------------------------------
Registered == {i \in Id : users[i] # None}

generate_user_id(e) == FirstId + (Hash[e] % IdRange)

Goto(r, next) == pc' = [pc EXCEPT ![r] = next]

Respond(r, what) ==
    /\ Goto(r, "done")
    /\ answer' = [answer EXCEPT ![r] = what]

-----------------------------------------------------------------------------
(* login_mail: handle_user_login.                                          *)

LoginMail(r, e, p) ==
    /\ pc[r] = "new"
    /\ email' = [email EXCEPT ![r] = e]
    /\ password' = [password EXCEPT ![r] = p]
    /\ Goto(r, "find")
    /\ UNCHANGED <<db, shown, user, answer, sessions, faults>>

\* Mutant of FindUser: the account is looked up by name.
FindUserByName(r) ==
    /\ pc[r] = "find"
    /\ \/ \E i \in Registered :
             /\ users[i].name = NameOf[email[r]]
             /\ user' = [user EXCEPT ![r] = i]
             /\ Goto(r, "verify")
       \/ /\ \A i \in Registered : users[i].name # NameOf[email[r]]
          /\ user' = [user EXCEPT ![r] = generate_user_id(email[r])]
          /\ Goto(r, "insert")
    /\ UNCHANGED <<db, email, password, shown, answer, sessions, faults>>

\* get_user_by_email: an unknown address gets the id its hash gives.
FindUser(r) ==
    /\ pc[r] = "find"
    /\ \/ \E i \in Registered :
             /\ users[i].email = email[r]
             /\ user' = [user EXCEPT ![r] = i]
             /\ Goto(r, "verify")
       \/ /\ \A i \in Registered : users[i].email # email[r]
          /\ user' = [user EXCEPT ![r] = generate_user_id(email[r])]
          /\ Goto(r, "insert")
    /\ UNCHANGED <<db, email, password, shown, answer, sessions, faults>>

\* verify_user_password
Verify(r) ==
    /\ pc[r] = "verify"
    /\ IF users[user[r]].password = password[r]
       THEN Goto(r, "update") /\ UNCHANGED answer
       ELSE Respond(r, "refused")
    /\ UNCHANGED <<db, email, password, shown, user, sessions, faults>>

\* update_user_login: the token of this request replaces the old one.
UpdateLogin(r) ==
    /\ pc[r] \in {"update", "refresh"}
    /\ users' = [users EXCEPT ![user[r]].token = r]
    /\ Respond(r, "ok")
    /\ UNCHANGED <<states, touched, starter, email, password, shown, user, sessions, faults>>

NewUser(r) == [email |-> email[r], password |-> password[r],
               name |-> NameOf[email[r]], token |-> r]

\* Mutant of InsertUser: INSERT OR REPLACE.
InsertOrReplaceUser(r) ==
    /\ pc[r] = "insert"
    /\ users' = [users EXCEPT ![user[r]] = NewUser(r)]
    /\ Goto(r, "insertState")
    /\ UNCHANGED <<states, touched, starter, email, password, shown, user, answer, sessions, faults>>

\* Mutant of InsertUser: INSERT OR IGNORE.
InsertOrIgnoreUser(r) ==
    /\ pc[r] = "insert"
    /\ users' = IF users[user[r]] = None THEN [users EXCEPT ![user[r]] = NewUser(r)] ELSE users
    /\ Goto(r, "insertState")
    /\ UNCHANGED <<states, touched, starter, email, password, shown, user, answer, sessions, faults>>

\* create_user, first statement: ids and names are unique.
InsertUser(r) ==
    /\ pc[r] = "insert"
    /\ IF users[user[r]] = None /\ \A i \in Registered : users[i].name # NameOf[email[r]]
       THEN /\ users' = [users EXCEPT ![user[r]] = NewUser(r)]
            /\ Goto(r, "insertState")
            /\ UNCHANGED answer
       ELSE Respond(r, "refused") /\ UNCHANGED users
    /\ UNCHANGED <<states, touched, starter, email, password, shown, user, sessions, faults>>

\* create_user, second statement: fails if the row exists.
InsertState(r) ==
    /\ pc[r] = "insertState"
    /\ IF user[r] \notin states
       THEN states' = states \cup {user[r]} /\ Goto(r, "loadStarter") /\ UNCHANGED answer
       ELSE Respond(r, "refused") /\ UNCHANGED states
    /\ UNCHANGED <<users, touched, starter, email, password, shown, user, sessions, faults>>

\* The rows that Starter's loaders may meet: those of the accounts that are
\* loaded, and those that sessions wrote.
Stored(loaded, played) ==
    UNION {Rows(i) : i \in loaded}
      \cup UNION {Own(i, {"hero_touch_count", "guide_progress"}) : i \in played}

Loadable == [u \in Id |-> [loaded \in SUBSET Id |-> [played \in SUBSET Id |->
                Commits(u, Stored(loaded, played))]]]

\* load_all_starter_data: all of it, or nothing if a row of it is there already.
\* create_user succeeds either way.
LoadStarter(r) ==
    /\ pc[r] = "loadStarter"
    /\ IF Loadable[user[r]][starter][touched]
       THEN touched' = touched \cup {user[r]} /\ starter' = starter \cup {user[r]}
       ELSE UNCHANGED <<touched, starter>>
    /\ Respond(r, "ok")
    /\ UNCHANGED <<users, states, email, password, shown, user, sessions, faults>>

-----------------------------------------------------------------------------
(* auto_login, with the id and the token of an earlier answer.             *)

AutoLogin(r, q) ==
    /\ pc[r] = "new"
    /\ answer[q] = "ok"
    /\ user' = [user EXCEPT ![r] = user[q]]
    /\ shown' = [shown EXCEPT ![r] = q]
    /\ Goto(r, "present")
    /\ UNCHANGED <<db, email, password, answer, sessions, faults>>

\* get_user_with_token_validation
Present(r) ==
    /\ pc[r] = "present"
    /\ IF users[user[r]].token = shown[r]
       THEN Goto(r, "refresh") /\ UNCHANGED answer
       ELSE Respond(r, "refused")
    /\ UNCHANGED <<db, email, password, shown, user, sessions, faults>>

-----------------------------------------------------------------------------
(* The game server.                                                        *)

Move(s, to) == stage' = [stage EXCEPT ![s] = to]

\* on_login: the token of an SDK answer must be the stored one.
GameLogin(s, q) ==
    /\ stage[s] = "offline"
    /\ answer[q] = "ok"
    /\ users[user[q]].token = q
    /\ owner' = [owner EXCEPT ![s] = user[q]]
    /\ Move(s, "load")
    /\ UNCHANGED <<db, requests, faults>>

\* load_player_state: a missing row is made up ...
LoadState(s) ==
    /\ stage[s] = "load"
    /\ Move(s, IF owner[s] \in states THEN "reset" ELSE "create")
    /\ UNCHANGED <<db, requests, owner, faults>>

\*    ... by INSERT OR REPLACE.
CreateState(s) ==
    /\ stage[s] = "create"
    /\ states' = states \cup {owner[s]}
    /\ Move(s, "reset")
    /\ UNCHANGED <<users, touched, starter, requests, owner, faults>>

\* process_daily_login: its reset_daily_counters upserts hero_touch_count, on a
\* new day; on another the login goes on without.
ResetDaily(s) ==
    /\ stage[s] = "reset"
    /\ \/ touched' = touched \cup {owner[s]}
       \/ owner[s] \in touched /\ UNCHANGED touched
    /\ Move(s, "in")
    /\ UNCHANGED <<users, states, starter, requests, owner, faults>>

Drop(s) ==
    /\ stage' = [stage EXCEPT ![s] = "offline"]
    /\ owner' = [owner EXCEPT ![s] = None]

\* on_rename: one transaction renames and upserts guide_progress, and fails if
\* the name is another's.  The reply needs the player_info of the starter data;
\* without it the handler fails, and the connection ends.
Rename(s, n) ==
    /\ stage[s] = "in"
    /\ LET free == \A i \in Registered \ {owner[s]} : users[i].name # n
       IN /\ IF free
             THEN /\ users' = [users EXCEPT ![owner[s]].name = n]
                  /\ touched' = touched \cup {owner[s]}
             ELSE UNCHANGED <<users, touched>>
          /\ IF free /\ owner[s] \in starter THEN UNCHANGED sessions ELSE Drop(s)
    /\ UNCHANGED <<states, starter, requests, faults>>

Disconnect(s) ==
    /\ stage[s] # "offline"
    /\ Drop(s)
    /\ UNCHANGED <<db, requests, faults>>

-----------------------------------------------------------------------------
(* Faults.                                                                 *)

Fault == faults < MaxFaults /\ faults' = faults + 1

\* A statement of r fails.  Only auto_login's update and the starter data are
\* not needed for an answer that says ok.
StatementFails(r) ==
    /\ Fault
    /\ pc[r] \in Serving
    /\ Respond(r, IF pc[r] \in {"refresh", "loadStarter"} THEN "ok" ELSE "refused")
    /\ UNCHANGED <<db, email, password, shown, user, sessions>>

\* The client of r gives up, and axum drops the handler where it waits.
Abandon(r) ==
    /\ Fault
    /\ pc[r] \in Serving
    /\ Goto(r, "done")
    /\ UNCHANGED <<db, email, password, shown, user, answer, sessions>>

\* The SDK server stops: its requests end without an answer.
SdkStops ==
    /\ Fault
    /\ pc' = [r \in Request |-> IF pc[r] = "new" THEN "new" ELSE "done"]
    /\ UNCHANGED <<db, email, password, shown, user, answer, sessions>>

\* The game server stops.
GameStops ==
    /\ Fault
    /\ stage' = [s \in Session |-> "offline"]
    /\ owner' = [s \in Session |-> None]
    /\ UNCHANGED <<db, requests>>

Serve(r) ==
    \/ FindUser(r) \/ Verify(r) \/ UpdateLogin(r)
    \/ InsertUser(r) \/ InsertState(r) \/ LoadStarter(r)
    \/ Present(r)

Next ==
    \/ \E r \in Request :
          \/ \E e \in Email, p \in Password : LoginMail(r, e, p)
          \/ \E q \in Request : AutoLogin(r, q)
          \/ Serve(r)
          \/ StatementFails(r) \/ Abandon(r)
    \/ \E s \in Session :
          \/ \E q \in Request : GameLogin(s, q)
          \/ LoadState(s) \/ CreateState(s) \/ ResetDaily(s)
          \/ \E n \in Name : Rename(s, n)
          \/ Disconnect(s)
    \/ SdkStops
    \/ GameStops

Spec == Init /\ [][Next]_vars

-----------------------------------------------------------------------------
(* Properties.                                                             *)

\* An account never changes hands and never disappears: whatever requests race
\* for its id (the id is a hash of the address, and addresses collide), its
\* address and password stay those it was created with.
OwnerKept ==
    [][\A i \in Registered :
          /\ users'[i] # None
          /\ users'[i].email = users[i].email
          /\ users'[i].password = users[i].password]_vars

\* A mail login that is answered ok names the account of the address and the
\* password that were given, also when another request created it, or another
\* address took its id, between the look-up and the INSERT.
AnswerOwns ==
    \A r \in Request :
        answer[r] = "ok" /\ email[r] # None =>
            /\ users[user[r]] # None
            /\ users[user[r]].email = email[r]
            /\ users[user[r]].password = password[r]

\* One request at a time creates an account, so starter data is never loaded
\* twice and no request loads it over an account that has it.
CreatorAlone ==
    \A r \in Request : pc[r] \in Creating =>
        /\ user[r] \notin starter
        /\ \A q \in Request \ {r} : ~(pc[q] \in Creating /\ user[q] = user[r])

\* Only one account ever has its starter data.
OneStarter == \A i, j \in starter : i = j

\* What r found or was given is there, and is the account of the address that it
\* gives.
Mine(r) ==
    /\ user[r] \in Registered
    /\ email[r] # None => users[user[r]].email = email[r]

\* What holds of a request at each of its statements.
RequestInv(r) ==
    /\ pc[r] \in {"new"} \cup Serving => answer[r] = None
    /\ pc[r] \in {"new", "present", "refresh"} => email[r] = None
    /\ pc[r] \in {"find", "verify", "update", "insert"} \cup Creating =>
          email[r] \in Email /\ password[r] \in Password
    /\ pc[r] = "insert" => user[r] \in Id
    /\ pc[r] \in {"verify", "update", "present", "refresh"} \cup Creating => Mine(r)
    /\ pc[r] \in {"update"} \cup Creating => users[user[r]].password = password[r]
    /\ answer[r] = "ok" => Mine(r) /\ (email[r] # None => users[user[r]].password = password[r])

\* The inductive invariant.
IInv ==
    /\ TypeOK
    /\ \A r \in Request : RequestInv(r)
    /\ \A s \in Session : stage[s] # "offline" => owner[s] \in Registered
    /\ starter \subseteq Registered
    /\ CreatorAlone
    /\ OneStarter

Incomplete == {i \in Id : ~Whole(i)}

\* The first account to load its starter data gets all of it, whatever other
\* requests and sessions do, unless a statement fails or a session of the same
\* account was quicker: the 35 loaders never meet their own rows, and each finds
\* what it refers to.
FirstHasAll ==
    [][\A r \in Request :
          pc[r] = "loadStarter" /\ answer'[r] = "ok" /\ starter = {} /\ user[r] \notin touched =>
              faults' > faults \/ user[r] \in starter' \ Incomplete]_vars

\* "All skins, heroes and psychubes unlocked by default": once the request that
\* creates an account is answered ok, the account has its starter data.
UnlockedByDefault ==
    \A r \in Request :
        answer[r] = "ok" /\ users[user[r]].token = r =>
            \/ user[r] \in starter
            \/ \E q \in Request : pc[q] \in Creating /\ user[q] = user[r]
=============================================================================
