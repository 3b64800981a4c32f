---------------------------- MODULE AccountProofs ----------------------------
(***************************************************************************)
(* Theorems about module Account, for all addresses, passwords and hashes, *)
(* any range of ids and any number of requests, connections and faults.    *)
(*                                                                         *)
(* The inductive invariant IInv says what a request knows at each of its   *)
(* statements.  Its idea: rows of users are only added, and keep their     *)
(* address and password, so what a request found stays found; and a row is *)
(* added only under a free id, so one request at a time completes it.      *)
(***************************************************************************)
EXTENDS Account, TLAPS

USE AccountAssumption DEF Stage, Serving, Creating, db, requests, sessions

-----------------------------------------------------------------------------
(* Starter data.                                                           *)

\* Critters have the same uids in every account, so while one account has its
\* starter data no load commits: load_critter_info, the first loader, meets them.
LEMMA SecondLoadFails ==
    ASSUME NEW u \in Id, NEW loaded \in SUBSET Id, NEW played \in SUBSET Id, loaded # {}
    PROVE  ~Loadable[u][loaded][played]
<1> DEFINE critter == <<"critters", Everyone, "all">>
<1>1. \A i : critter \in load_critter_info(i).new
  BY DEF load_critter_info, Writes, Common
<1>2. \A i : 1 \in DOMAIN Loaders(i) /\ Loaders(i)[1] = load_critter_info(i)
  BY DEF Loaders
<1> HIDE DEF critter
<1>3. \A i : critter \in Rows(i)
  <2> SUFFICES ASSUME NEW i PROVE critter \in Rows(i)
    OBVIOUS
  <2>1. critter \in Loaders(i)[1].new \cup Loaders(i)[1].any
    BY <1>1, <1>2
  <2> QED
    BY <1>2, <2>1 DEF Rows
<1>4. PICK i \in loaded : TRUE
  OBVIOUS
<1>5. critter \in Stored(loaded, played)
  BY <1>3, <1>4 DEF Stored
<1>6. ~Commits(u, Stored(loaded, played))
  <2>1. critter \in Loaders(u)[1].new \cap (Stored(loaded, played) \cup Before(Loaders(u), 1))
    BY <1>1, <1>2, <1>5
  <2> QED
    BY <1>2, <2>1 DEF Commits
<1> QED
  BY <1>6 DEF Loadable

\* The id of an address is one of the range.
LEMMA GeneratedId == \A e \in Email : generate_user_id(e) \in Id
<1> SUFFICES ASSUME NEW e \in Email PROVE generate_user_id(e) \in Id
  OBVIOUS
<1> DEFINE n == Hash[e] % IdRange
<1>1. n \in 0..(IdRange - 1)
  <2>1. Hash[e] \in Nat /\ IdRange \in Nat /\ IdRange > 0
    OBVIOUS
  <2> QED
    BY <2>1
<1> HIDE DEF n
<1>2. FirstId + n \in Id
  BY <1>1 DEF Id, FirstId
<1> QED
  BY <1>2 DEF generate_user_id, n

-----------------------------------------------------------------------------
(* Frames.                                                                 *)

\* A step adds rows of users, and changes no address and no password.
Kept ==
    \A i \in Registered :
        /\ i \in Registered'
        /\ users'[i].email = users[i].email
        /\ users'[i].password = users[i].password

Unmoved(q) ==
    /\ pc'[q] = pc[q] /\ answer'[q] = answer[q] /\ user'[q] = user[q]
    /\ email'[q] = email[q] /\ password'[q] = password[q]

\* A request that does not move keeps what it knows.
LEMMA RequestStays ==
    ASSUME IInv, Kept, NEW q \in Request, Unmoved(q)
    PROVE  RequestInv(q)'
<1>1. RequestInv(q)
  BY DEF IInv
<1>2. Mine(q) => /\ Mine(q)'
                 /\ users'[user'[q]].password = users[user[q]].password
  BY DEF Mine, Kept, Unmoved
<1>3. pc[q] \in {"update"} \cup Creating \/ answer[q] = "ok" => Mine(q)
  BY <1>1 DEF RequestInv
<1> QED
  BY <1>1, <1>2, <1>3 DEF RequestInv, Unmoved

\* A step of one request that starts no creation and loads no starter data.
LEMMA RequestStep ==
    ASSUME IInv, TypeOK', Kept, NEW r \in Request, \A q \in Request \ {r} : Unmoved(q),
           RequestInv(r)', UNCHANGED <<starter, stage, owner>>,
           pc'[r] \in Creating => pc[r] \in Creating /\ user'[r] = user[r]
    PROVE  IInv'
<1>1. \A q \in Request : RequestInv(q)'
  BY RequestStays
<1>2. \A s \in Session : stage'[s] # "offline" => owner'[s] \in Registered'
  BY DEF IInv, Kept
<1>3. starter' \subseteq Registered' /\ OneStarter'
  BY DEF IInv, Kept, OneStarter
<1>4. \A q \in Request : pc'[q] \in Creating => pc[q] \in Creating /\ user'[q] = user[q]
  BY DEF Unmoved
<1>5. CreatorAlone'
  BY <1>4 DEF IInv, CreatorAlone
<1> QED
  BY <1>1, <1>2, <1>3, <1>5 DEF IInv

\* A step of no request: of a connection, or one that ends requests.
LEMMA OtherStep ==
    ASSUME IInv, TypeOK', Kept, UNCHANGED <<starter, email, password, user, answer>>,
           \A q \in Request : pc'[q] = pc[q] \/ pc'[q] = "done",
           \A s \in Session : stage'[s] # "offline" => owner'[s] \in Registered'
    PROVE  IInv'
<1>1. ASSUME NEW q \in Request, pc'[q] = "done" PROVE RequestInv(q)'
  <2>1. answer[q] = "ok" => /\ Mine(q) /\ Mine(q)'
                            /\ users'[user'[q]].password = users[user[q]].password
    BY DEF IInv, RequestInv, Mine, Kept
  <2> QED
    BY <1>1, <2>1 DEF IInv, RequestInv
<1>2. \A q \in Request : RequestInv(q)'
  BY <1>1, RequestStays DEF Unmoved
<1>3. starter' \subseteq Registered' /\ OneStarter'
  BY DEF IInv, Kept, OneStarter
<1>4. CreatorAlone'
  BY DEF IInv, CreatorAlone
<1> QED
  BY <1>2, <1>3, <1>4 DEF IInv

\* If no row of users changes, all are kept.
LEMMA SameUsers == ASSUME UNCHANGED users PROVE Kept /\ Registered' = Registered
BY DEF Kept, Registered

-----------------------------------------------------------------------------
(* The initial states.                                                     *)

LEMMA InitIInv == Init => IInv
<1> SUFFICES ASSUME Init PROVE IInv
  OBVIOUS
<1>1. TypeOK
  BY DEF Init, TypeOK, SessionStage
<1>2. \A r \in Request : RequestInv(r)
  BY DEF Init, RequestInv
<1>3. CreatorAlone /\ OneStarter
  BY DEF Init, CreatorAlone, OneStarter
<1> QED
  BY <1>1, <1>2, <1>3 DEF Init, IInv
-----------------------------------------------------------------------------
(* The requests.                                                           *)

\* A mail login starts with an address and a password.
LEMMA LoginMailStep ==
    ASSUME IInv, NEW r \in Request, NEW e \in Email, NEW p \in Password, LoginMail(r, e, p)
    PROVE  IInv' /\ Kept
<1>1. Kept /\ Registered' = Registered
  BY SameUsers DEF LoginMail
<1>2. TypeOK'
  BY DEF IInv, TypeOK, RequestInv, LoginMail, Goto, Registered
<1>3. \A q \in Request \ {r} : Unmoved(q)
  BY DEF Unmoved, LoginMail, Goto, IInv, TypeOK
<1>4. RequestInv(r)'
  BY <1>1 DEF IInv, TypeOK, RequestInv, Mine, LoginMail, Goto
<1> QED
  BY <1>1, <1>2, <1>3, <1>4, RequestStep DEF LoginMail, Goto, IInv, TypeOK

\* Whom FindUser finds has the address of the request.
LEMMA FindUserStep ==
    ASSUME IInv, NEW r \in Request, FindUser(r)
    PROVE  IInv' /\ Kept
<1>1. Kept /\ Registered' = Registered
  BY SameUsers DEF FindUser
<1>2. TypeOK'
  BY GeneratedId DEF IInv, TypeOK, RequestInv, FindUser, Goto, Registered
<1>3. \A q \in Request \ {r} : Unmoved(q)
  BY DEF Unmoved, FindUser, Goto, IInv, TypeOK
<1>4. RequestInv(r)'
  BY <1>1, GeneratedId DEF IInv, TypeOK, RequestInv, Mine, FindUser, Goto
<1> QED
  BY <1>1, <1>2, <1>3, <1>4, RequestStep DEF FindUser, Goto, IInv, TypeOK

\* Who passes Verify gave the password of the row.
LEMMA VerifyStep ==
    ASSUME IInv, NEW r \in Request, Verify(r)
    PROVE  IInv' /\ Kept
<1>1. Kept /\ Registered' = Registered
  BY SameUsers DEF Verify
<1>2. TypeOK'
  BY DEF IInv, TypeOK, RequestInv, Verify, Goto, Respond, Registered
<1>3. \A q \in Request \ {r} : Unmoved(q)
  BY DEF Unmoved, Verify, Goto, Respond, IInv, TypeOK
<1>4. RequestInv(r)'
  BY <1>1 DEF IInv, TypeOK, RequestInv, Mine, Verify, Goto, Respond
<1> QED
  BY <1>1, <1>2, <1>3, <1>4, RequestStep DEF Verify, Goto, Respond, IInv, TypeOK

\* InsertState changes no row of users.
LEMMA InsertStateStep ==
    ASSUME IInv, NEW r \in Request, InsertState(r)
    PROVE  IInv' /\ Kept
<1>1. Kept /\ Registered' = Registered
  BY SameUsers DEF InsertState
<1>2. TypeOK'
  BY DEF IInv, TypeOK, RequestInv, Mine, InsertState, Goto, Respond, Registered
<1>3. \A q \in Request \ {r} : Unmoved(q)
  BY DEF Unmoved, InsertState, Goto, Respond, IInv, TypeOK
<1>4. RequestInv(r)'
  <2>1. pc[r] = "insertState" /\ RequestInv(r) /\ Mine(r) /\ answer[r] = None
    BY DEF InsertState, IInv, RequestInv
  <2>2. Mine(r)' /\ users'[user'[r]] = users[user[r]]
    BY <1>1, <2>1 DEF InsertState, Mine
  <2>3. email'[r] = email[r] /\ password'[r] = password[r]
    BY DEF InsertState
  <2>4. \/ pc'[r] = "loadStarter" /\ answer'[r] = None
        \/ pc'[r] = "done" /\ answer'[r] = "refused"
    BY <2>1 DEF InsertState, Goto, Respond, IInv, TypeOK
  <2> QED
    BY <2>1, <2>2, <2>3, <2>4 DEF RequestInv
<1> QED
  BY <1>1, <1>2, <1>3, <1>4, RequestStep DEF InsertState, Goto, Respond, IInv, TypeOK

\* An auto login presents an id that an answer carried, so its row is there.
LEMMA AutoLoginStep ==
    ASSUME IInv, NEW r \in Request, NEW q \in Request, AutoLogin(r, q)
    PROVE  IInv' /\ Kept
<1>1. Kept /\ Registered' = Registered
  BY SameUsers DEF AutoLogin
<1>2. TypeOK'
  BY DEF IInv, TypeOK, RequestInv, AutoLogin, Goto, Registered
<1>3. \A other \in Request \ {r} : Unmoved(other)
  BY DEF Unmoved, AutoLogin, Goto, IInv, TypeOK
<1>4. RequestInv(r)'
  BY <1>1 DEF IInv, TypeOK, RequestInv, Mine, AutoLogin, Goto
<1> QED
  BY <1>1, <1>2, <1>3, <1>4, RequestStep DEF AutoLogin, Goto, IInv, TypeOK

\* A token that is not the stored one ends the request.
LEMMA PresentStep ==
    ASSUME IInv, NEW r \in Request, Present(r)
    PROVE  IInv' /\ Kept
<1>1. Kept /\ Registered' = Registered
  BY SameUsers DEF Present
<1>2. TypeOK'
  BY DEF IInv, TypeOK, RequestInv, Present, Goto, Respond, Registered
<1>3. \A other \in Request \ {r} : Unmoved(other)
  BY DEF Unmoved, Present, Goto, Respond, IInv, TypeOK
<1>4. RequestInv(r)'
  BY <1>1 DEF IInv, TypeOK, RequestInv, Mine, Present, Goto, Respond
<1> QED
  BY <1>1, <1>2, <1>3, <1>4, RequestStep DEF Present, Goto, Respond, IInv, TypeOK

\* A failure is answered ok only after the row was found or made.
LEMMA StatementFailsStep ==
    ASSUME IInv, NEW r \in Request, StatementFails(r)
    PROVE  IInv' /\ Kept
<1>1. Kept /\ Registered' = Registered
  BY SameUsers DEF StatementFails
<1>2. TypeOK'
  BY DEF IInv, TypeOK, RequestInv, StatementFails, Fault, Goto, Respond, Registered
<1>3. \A other \in Request \ {r} : Unmoved(other)
  BY DEF Unmoved, StatementFails, Fault, Goto, Respond, IInv, TypeOK
<1>4. RequestInv(r)'
  BY <1>1 DEF IInv, TypeOK, RequestInv, Mine, StatementFails, Fault, Goto, Respond
<1> QED
  BY <1>1, <1>2, <1>3, <1>4, RequestStep DEF StatementFails, Fault, Goto, Respond, IInv, TypeOK

\* A request given up has no answer.
LEMMA AbandonStep ==
    ASSUME IInv, NEW r \in Request, Abandon(r)
    PROVE  IInv' /\ Kept
<1>1. Kept /\ Registered' = Registered
  BY SameUsers DEF Abandon
<1>2. TypeOK'
  BY DEF IInv, TypeOK, RequestInv, Abandon, Fault, Goto, Registered
<1>3. \A q \in Request \ {r} : Unmoved(q)
  BY DEF Unmoved, Abandon, Fault, Goto, IInv, TypeOK
<1>4. RequestInv(r)'
  BY <1>1 DEF IInv, TypeOK, RequestInv, Mine, Abandon, Fault, Goto
<1> QED
  BY <1>1, <1>2, <1>3, <1>4, RequestStep DEF Abandon, Fault, Goto, IInv, TypeOK
\* An update of the token leaves the address and the password.
LEMMA UpdateLoginStep ==
    ASSUME IInv, NEW r \in Request, UpdateLogin(r)
    PROVE  IInv' /\ Kept
<1> DEFINE u == user[r]
<1>1. /\ u \in Registered /\ users[u] \in User
      /\ pc[r] \in {"update", "refresh"} /\ RequestInv(r)
  BY DEF UpdateLogin, IInv, RequestInv, Mine, TypeOK, Registered
<1>2. /\ users' = [users EXCEPT ![u] = [users[u] EXCEPT !.token = r]]
      /\ [users[u] EXCEPT !.token = r] \in User
  BY <1>1 DEF UpdateLogin, User
<1>3. \A i \in Id \ {u} : users'[i] = users[i]
  BY <1>2 DEF IInv, TypeOK
<1>4. /\ users'[u] \in User
      /\ users'[u].email = users[u].email /\ users'[u].password = users[u].password
  BY <1>1, <1>2 DEF IInv, TypeOK, Registered, User
<1>5. Kept
  BY <1>3, <1>4 DEF Kept, Registered
<1>6. TypeOK'
  <2>1. users' \in [Id -> User \cup {None}]
    BY <1>2 DEF IInv, TypeOK
  <2> QED
    BY <2>1 DEF IInv, TypeOK, UpdateLogin, Goto, Respond
<1>7. \A q \in Request \ {r} : Unmoved(q)
  BY DEF Unmoved, UpdateLogin, Goto, Respond, IInv, TypeOK
<1>8. pc'[r] = "done" /\ UNCHANGED <<starter, stage, owner, user, email, password>>
  BY DEF UpdateLogin, Goto, Respond, IInv, TypeOK
<1>9. RequestInv(r)'
  <2>1. Mine(r) /\ (email[r] # None => users[u].password = password[r])
    BY <1>1 DEF RequestInv
  <2>2. Mine(r)' /\ (email'[r] # None => users'[user'[r]].password = password'[r])
    BY <1>1, <1>4, <1>5, <1>8, <2>1 DEF Mine, Kept
  <2> QED
    BY <1>8, <2>2 DEF RequestInv
<1> QED
  BY <1>5, <1>6, <1>7, <1>8, <1>9, RequestStep

\* A row is inserted under a free id, so no other request is completing it, and
\* its starter data is not there.
LEMMA InsertUserStep ==
    ASSUME IInv, NEW r \in Request, InsertUser(r)
    PROVE  IInv' /\ Kept
<1>1. /\ pc[r] = "insert" /\ RequestInv(r) /\ answer[r] = None
      /\ user[r] \in Id /\ email[r] \in Email /\ password[r] \in Password
  BY DEF InsertUser, IInv, RequestInv
<1>2. UNCHANGED <<starter, stage, owner, user, email, password>>
  BY DEF InsertUser
<1>3. \A q \in Request \ {r} : Unmoved(q)
  BY DEF Unmoved, InsertUser, Goto, Respond, IInv, TypeOK
<1> DEFINE free == users[user[r]] = None /\ \A i \in Registered : users[i].name # NameOf[email[r]]
<1>4. CASE ~free
  <2>1. users' = users /\ pc'[r] = "done" /\ answer'[r] = "refused"
    BY <1>1, <1>4 DEF InsertUser, Respond, Goto, IInv, TypeOK
  <2>2. Kept
    BY <2>1, SameUsers
  <2>3. TypeOK'
    BY <1>4 DEF IInv, TypeOK, InsertUser, Respond, Goto
  <2>4. RequestInv(r)'
    BY <2>1 DEF RequestInv
  <2> QED
    BY <1>2, <1>3, <2>1, <2>2, <2>3, <2>4, RequestStep
<1>5. CASE free
  <2>1. NewUser(r) \in User /\ NewUser(r).email = email[r] /\ NewUser(r).password = password[r]
    BY <1>1 DEF NewUser, User
  <2>2. users' = [users EXCEPT ![user[r]] = NewUser(r)] /\ pc'[r] = "insertState" /\ answer' = answer
    BY <1>5 DEF InsertUser, Goto, Respond, IInv, TypeOK
  <2>3. \A i \in Id \ {user[r]} : users'[i] = users[i]
    BY <2>2 DEF IInv, TypeOK
  <2>4. users'[user[r]] = NewUser(r)
    BY <1>1, <2>2 DEF IInv, TypeOK
  <2>5. Kept
    BY <1>5, <2>3 DEF Kept, Registered
  <2>6. TypeOK'
    <3>1. users' \in [Id -> User \cup {None}]
      BY <2>1, <2>2 DEF IInv, TypeOK
    <3>2. pc' \in [Request -> Stage]
      BY <1>5 DEF InsertUser, Goto, IInv, TypeOK
    <3> QED
      BY <2>2, <3>1, <3>2 DEF IInv, TypeOK, InsertUser
  <2>7. user[r] \notin Registered /\ user[r] \in Registered'
    BY <1>1, <1>5, <2>1, <2>4 DEF Registered
  <2>8. RequestInv(r)'
    BY <1>1, <1>2, <2>1, <2>2, <2>4, <2>7 DEF RequestInv, Mine
  <2>9. \A q \in Request : RequestInv(q)'
    BY <1>3, <2>5, <2>8, RequestStays
  <2>10. /\ \A s \in Session : stage'[s] # "offline" => owner'[s] \in Registered'
         /\ starter' \subseteq Registered' /\ OneStarter'
    BY <1>2, <2>5 DEF IInv, Kept, OneStarter
  <2>11. \A q \in Request \ {r} : pc[q] \in Creating => user[q] # user[r]
    BY <2>7 DEF IInv, RequestInv, Mine
  <2>12. CreatorAlone'
    BY <1>2, <1>3, <2>7, <2>11 DEF CreatorAlone, IInv, Unmoved
  <2> QED
    BY <2>5, <2>6, <2>9, <2>10, <2>12 DEF IInv
<1> QED
  BY <1>4, <1>5

\* Only a first account's starter data loads, and only the request that creates
\* the account loads it.
LEMMA LoadStarterStep ==
    ASSUME IInv, NEW r \in Request, LoadStarter(r)
    PROVE  IInv' /\ Kept
<1>1. pc[r] = "loadStarter" /\ RequestInv(r) /\ Mine(r)
  BY DEF LoadStarter, IInv, RequestInv
<1>2. UNCHANGED <<users, stage, owner, user, email, password>>
  BY DEF LoadStarter
<1>3. pc'[r] = "done" /\ answer'[r] = "ok"
  BY DEF LoadStarter, Respond, Goto, IInv, TypeOK
<1>4. \A q \in Request \ {r} : Unmoved(q)
  BY DEF Unmoved, LoadStarter, Goto, Respond, IInv, TypeOK
<1>5. Kept /\ Registered' = Registered
  BY <1>2, SameUsers
<1>6. starter' = starter \/ (starter = {} /\ starter' = {user[r]})
  <2>1. user[r] \in Id /\ starter \in SUBSET Id /\ touched \in SUBSET Id
    BY <1>1 DEF Mine, Registered, IInv, TypeOK
  <2>2. CASE Loadable[user[r]][starter][touched]
    BY <2>1, <2>2, SecondLoadFails DEF LoadStarter
  <2>3. CASE ~Loadable[user[r]][starter][touched]
    BY <2>3 DEF LoadStarter
  <2> QED
    BY <2>2, <2>3
<1>7. TypeOK'
  BY <1>1 DEF IInv, TypeOK, LoadStarter, Goto, Respond, Mine, Registered
<1>8. RequestInv(r)'
  BY <1>1, <1>2, <1>3, <1>5 DEF RequestInv, Mine
<1>9. \A q \in Request : RequestInv(q)'
  BY <1>4, <1>5, <1>8, RequestStays
<1>10. \A s \in Session : stage'[s] # "offline" => owner'[s] \in Registered'
  BY <1>2, <1>5 DEF IInv
<1>11. starter' \subseteq Registered' /\ OneStarter'
  BY <1>1, <1>5, <1>6 DEF IInv, OneStarter, Mine
<1>12. CreatorAlone'
  <2>1. \A q \in Request : pc'[q] \in Creating =>
            q # r /\ pc[q] \in Creating /\ user'[q] = user[q] /\ user[q] # user[r]
    BY <1>1, <1>3, <1>4 DEF Unmoved, IInv, CreatorAlone
  <2> QED
    BY <1>6, <2>1 DEF IInv, CreatorAlone
<1> QED
  BY <1>5, <1>7, <1>9, <1>10, <1>11, <1>12 DEF IInv

-----------------------------------------------------------------------------
(* The connections, and the processes that stop.                           *)

\* A connection moves on the account of an answer; a rename changes the name of
\* its row only.
LEMMA SessionStep ==
    ASSUME IInv, NEW s \in Session,
           \/ \E q \in Request : GameLogin(s, q)
           \/ LoadState(s) \/ CreateState(s) \/ ResetDaily(s) \/ Disconnect(s)
    PROVE  IInv' /\ Kept
<1>1. UNCHANGED <<users, starter, requests>>
  BY DEF GameLogin, LoadState, CreateState, ResetDaily, Disconnect
<1>2. Kept /\ Registered' = Registered
  BY <1>1, SameUsers
<1>3. ASSUME NEW q \in Request, GameLogin(s, q)
      PROVE  TypeOK' /\ \A t \in Session : stage'[t] # "offline" => owner'[t] \in Registered'
  <2>1. user[q] \in Registered
    BY <1>3 DEF GameLogin, IInv, RequestInv, Mine
  <2> QED
    BY <1>2, <1>3, <2>1 DEF GameLogin, Move, IInv, TypeOK, SessionStage, Registered
<1>4. ASSUME LoadState(s) \/ CreateState(s) \/ ResetDaily(s)
      PROVE  TypeOK' /\ \A t \in Session : stage'[t] # "offline" => owner'[t] \in Registered'
  <2>1. owner[s] \in Registered /\ owner[s] \in Id /\ owner' = owner
    BY <1>4 DEF LoadState, CreateState, ResetDaily, IInv, TypeOK, Registered
  <2>2. \A t \in Session : stage'[t] # "offline" => stage[t] # "offline"
    BY <1>4 DEF LoadState, CreateState, ResetDaily, Move, IInv, TypeOK
  <2>3. ASSUME LoadState(s) PROVE TypeOK'
    BY <2>3 DEF LoadState, Move, IInv, TypeOK, SessionStage
  <2>4. ASSUME CreateState(s) PROVE TypeOK'
    BY <2>1, <2>4 DEF CreateState, Move, IInv, TypeOK, SessionStage
  <2>5. ASSUME ResetDaily(s) PROVE TypeOK'
    BY <2>1, <2>5 DEF ResetDaily, Move, IInv, TypeOK, SessionStage
  <2> QED
    BY <1>2, <1>4, <2>1, <2>2, <2>3, <2>4, <2>5 DEF IInv
<1>5. ASSUME Disconnect(s)
      PROVE  TypeOK' /\ \A t \in Session : stage'[t] # "offline" => owner'[t] \in Registered'
  BY <1>2, <1>5 DEF Disconnect, Drop, IInv, TypeOK, SessionStage
<1> QED
  BY <1>1, <1>2, <1>3, <1>4, <1>5, OtherStep

LEMMA RenameStep ==
    ASSUME IInv, NEW s \in Session, NEW n \in Name, Rename(s, n)
    PROVE  IInv' /\ Kept
<1> DEFINE u == owner[s]
<1>1. u \in Registered /\ u \in Id /\ users[u] \in User
  BY DEF Rename, IInv, TypeOK, Registered
<1>2. UNCHANGED <<states, starter, requests, faults>>
  BY DEF Rename
<1>3. users' = users \/ users' = [users EXCEPT ![u] = [users[u] EXCEPT !.name = n]]
  BY <1>1 DEF Rename
<1>4. /\ users' \in [Id -> User \cup {None}]
      /\ \A i \in Registered : /\ i \in Registered'
                              /\ users'[i].email = users[i].email
                              /\ users'[i].password = users[i].password
  <2>1. CASE users' = users
    BY <2>1 DEF IInv, TypeOK, Registered
  <2>2. CASE users' = [users EXCEPT ![u] = [users[u] EXCEPT !.name = n]]
    <3>1. [users[u] EXCEPT !.name = n] \in User
      BY <1>1 DEF User
    <3>2. users' \in [Id -> User \cup {None}] /\ \A i \in Id \ {u} : users'[i] = users[i]
      BY <1>1, <2>2, <3>1 DEF IInv, TypeOK
    <3>3. /\ users'[u] \in User
          /\ users'[u].email = users[u].email /\ users'[u].password = users[u].password
      BY <1>1, <2>2, <3>1 DEF IInv, TypeOK, User
    <3> QED
      BY <3>2, <3>3 DEF Registered
  <2> QED
    BY <1>3, <2>1, <2>2
<1>5. Kept
  BY <1>4 DEF Kept
<1>6. sessions' = sessions \/ Drop(s)
  BY DEF Rename
<1>7. touched' \subseteq Id
  BY <1>1 DEF Rename, IInv, TypeOK
<1>8. /\ stage' \in [Session -> SessionStage] /\ owner' \in [Session -> Id \cup {None}]
      /\ \A t \in Session : stage'[t] # "offline" => stage[t] # "offline" /\ owner'[t] = owner[t]
  <2>1. CASE sessions' = sessions
    BY <2>1 DEF IInv, TypeOK
  <2>2. CASE Drop(s)
    BY <2>2 DEF Drop, IInv, TypeOK, SessionStage
  <2> QED
    BY <1>6, <2>1, <2>2
<1>9. TypeOK'
  BY <1>2, <1>4, <1>7, <1>8 DEF IInv, TypeOK
<1>10. \A t \in Session : stage'[t] # "offline" => owner'[t] \in Registered'
  BY <1>5, <1>8 DEF IInv, Kept
<1> QED
  BY <1>2, <1>5, <1>9, <1>10, OtherStep

\* A process that stops ends requests, or connections.
LEMMA StopStep ==
    ASSUME IInv, SdkStops \/ GameStops
    PROVE  IInv' /\ Kept
<1>1. UNCHANGED <<users, starter, email, password, user, answer>>
  BY DEF SdkStops, GameStops
<1>2. Kept /\ Registered' = Registered
  BY <1>1, SameUsers
<1>3. \A q \in Request : pc'[q] = pc[q] \/ pc'[q] = "done"
  BY DEF SdkStops, GameStops
<1>4. TypeOK'
  BY DEF SdkStops, GameStops, Fault, IInv, TypeOK, SessionStage
<1>5. \A s \in Session : stage'[s] # "offline" => owner'[s] \in Registered'
  BY <1>2 DEF SdkStops, GameStops, IInv
<1> QED
  BY <1>1, <1>2, <1>3, <1>4, <1>5, OtherStep

\* A step that changes nothing.
LEMMA StutterStep ==
    ASSUME IInv, UNCHANGED vars
    PROVE  IInv' /\ Kept
<1>1. Kept
  BY SameUsers DEF vars
<1> QED
  BY <1>1 DEF vars, IInv, TypeOK, RequestInv, Mine, Registered, CreatorAlone, OneStarter

-----------------------------------------------------------------------------
(* The theorems.                                                           *)

LEMMA NextStep ==
    ASSUME IInv, [Next]_vars
    PROVE  IInv' /\ Kept
<1>1. ASSUME NEW r \in Request, Serve(r) PROVE IInv' /\ Kept
  BY <1>1, FindUserStep, VerifyStep, UpdateLoginStep, InsertUserStep, InsertStateStep,
     LoadStarterStep, PresentStep DEF Serve
<1>2. ASSUME NEW r \in Request, NEW e \in Email, NEW p \in Password, LoginMail(r, e, p)
      PROVE  IInv' /\ Kept
  BY <1>2, LoginMailStep
<1>3. ASSUME NEW r \in Request, NEW q \in Request, AutoLogin(r, q) PROVE IInv' /\ Kept
  BY <1>3, AutoLoginStep
<1>4. ASSUME NEW r \in Request, StatementFails(r) \/ Abandon(r) PROVE IInv' /\ Kept
  BY <1>4, StatementFailsStep, AbandonStep
<1>5. ASSUME NEW s \in Session, NEW n \in Name, Rename(s, n) PROVE IInv' /\ Kept
  BY <1>5, RenameStep
<1> QED
  BY <1>1, <1>2, <1>3, <1>4, <1>5, SessionStep, StopStep, StutterStep DEF Next

\* The inductive invariant holds in every reachable state.
THEOREM Invariance == Spec => []IInv
<1>1. IInv /\ [Next]_vars => IInv'
  BY NextStep
<1> QED
  BY <1>1, InitIInv, PTL DEF Spec

\* Every variable keeps its type: a request knows an account by a number of the
\* range, and the rows of users are whole.
THEOREM TypeCorrect == Spec => []TypeOK
<1>1. IInv => TypeOK
  BY DEF IInv
<1> QED
  BY <1>1, Invariance, PTL

\* A mail login that is answered ok names the account of its address and password.
THEOREM AnswerIsOwner == Spec => []AnswerOwns
<1>1. IInv => AnswerOwns
  BY DEF IInv, AnswerOwns, RequestInv, Mine, Registered
<1> QED
  BY <1>1, Invariance, PTL

\* One request at a time creates an account, and never over its starter data.
THEOREM OneCreator == Spec => []CreatorAlone
<1>1. IInv => CreatorAlone
  BY DEF IInv
<1> QED
  BY <1>1, Invariance, PTL

\* At most one account ever has its starter data, however many are created: the
\* uids of critters are the same in all.
THEOREM OneAccountStarts == Spec => []OneStarter
<1>1. IInv => OneStarter
  BY DEF IInv
<1> QED
  BY <1>1, Invariance, PTL

\* An account never changes hands and never disappears.
THEOREM OwnersStay == Spec => OwnerKept
<1>1. IInv /\ [Next]_vars =>
        [\A i \in Registered : /\ users'[i] # None
                               /\ users'[i].email = users[i].email
                               /\ users'[i].password = users[i].password]_vars
  BY NextStep DEF Kept, Registered
<1> QED
  BY <1>1, Invariance, PTL DEF Spec, OwnerKept
=============================================================================
