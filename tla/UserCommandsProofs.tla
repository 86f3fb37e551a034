-------------------------- MODULE UserCommandsProofs --------------------------
(***************************************************************************)
(* Proofs about UserCommands for any number of connections, users, slaves  *)
(* and failures: what users are told is stored, users change their own     *)
(* rows only unless they are managers, and the three ways to look at the   *)
(* slaves agree.                                                           *)
(***************************************************************************)
EXTENDS UserCommands, SequenceTheorems, FiniteSetTheorems, TLAPS

Entry == [level : Nat, pass : Password, deleted : BOOLEAN]

(* A row is not there, or has a password.                                    *)
RowInv ==
    /\ user \in [User -> Entry \cup {NotStored}]
    /\ added \in [User -> Nat]
    /\ told \in [added : [User -> Nat], users : SUBSET User, gone : SUBSET User]

(* The level that was read at the login is still that of the row, although   *)
(* rows change and the code does not look again; only a manager's data is    *)
(* waited for.                                                               *)
LoggedIn(l) ==
    /\ l.user \in User /\ Stored(l.user) /\ l.level = user[l.user].level
    /\ l.nolp \in {"CMD", "EXPECT"}
    /\ l.nolp = "EXPECT" => l.level >= MANAGER

LoginInv ==
    /\ DOMAIN conn = Conn /\ conn = [c \in Conn |-> conn[c]]
    /\ \A c \in Conn : conn[c] = Absent \/ LoggedIn(conn[c])
    /\ \A c \in Conn : conn[c] \in [user : User \cup {Nobody}, level : Nat, nolp : {"closed", "CMD", "EXPECT"}]

IInv == RowInv /\ LoginInv /\ ToldIsStored

(* What no step takes back: rows stay, with their levels, deleted ones, too. *)
Keeps(rows) ==
    /\ rows \in [User -> Entry \cup {NotStored}]
    /\ \A u \in User : Stored(u) =>
         /\ rows[u] \in Entry
         /\ rows[u].level = user[u].level
         /\ user[u].deleted => rows[u].deleted

LEMMA NotStoredIsNoEntry == NotStored \notin Entry
<1>1. NotStored.pass = ""
  BY DEF NotStored
<1>2. \A e \in Entry : e.pass \in Password
  BY DEF Entry
<1>3. QED
  BY <1>1, <1>2, PasswordAssumption

LEMMA StoredIsEntry ==
  ASSUME RowInv, NEW u \in User
  PROVE  Stored(u) <=> user[u] \in Entry
BY NotStoredIsNoEntry DEF RowInv, Stored

LEMMA SameKeeps ==
  ASSUME RowInv
  PROVE  Keeps(user)
BY StoredIsEntry DEF Keeps, RowInv

(* UPDATE nol_user SET pass: the rows are kept, and another one is not       *)
(* touched.                                                                  *)
LEMMA PassKeeps ==
  ASSUME RowInv, NEW u \in User, NEW p \in Password
  PROVE  /\ Keeps(WithPass(u, p))
         /\ \A v \in User : WithPass(u, p)[v] # user[v] =>
              v = u /\ WithPass(u, p)[v] = [user[v] EXCEPT !.pass = WithPass(u, p)[v].pass]
<1>1. CASE Stored(u)
  <2>1. user[u] \in Entry
    BY <1>1, StoredIsEntry
  <2>2. [user[u] EXCEPT !.pass = p] \in Entry
    BY <2>1 DEF Entry
  <2>3. WithPass(u, p) = [user EXCEPT ![u] = [user[u] EXCEPT !.pass = p]]
    BY <1>1 DEF WithPass
  <2>4. QED
    BY <2>1, <2>2, <2>3, StoredIsEntry DEF Keeps, RowInv, Entry
<1>2. CASE ~Stored(u)
  BY <1>2, SameKeeps DEF WithPass
<1>3. QED
  BY <1>1, <1>2

LEMMA DeletedKeeps ==
  ASSUME RowInv, NEW u \in User, Stored(u)
  PROVE  /\ Keeps([user EXCEPT ![u].deleted = TRUE])
         /\ [user EXCEPT ![u].deleted = TRUE][u].deleted = TRUE
<1>1. user[u] \in Entry
  BY StoredIsEntry
<1>2. [user[u] EXCEPT !.deleted = TRUE] \in Entry /\ [user[u] EXCEPT !.deleted = TRUE].level = user[u].level
  BY <1>1 DEF Entry
<1>3. [user[u] EXCEPT !.deleted = TRUE].deleted = TRUE
  BY <1>1 DEF Entry
<1>4. [user EXCEPT ![u].deleted = TRUE] = [user EXCEPT ![u] = [user[u] EXCEPT !.deleted = TRUE]]
  OBVIOUS
<1>5. QED
  BY <1>2, <1>3, <1>4, StoredIsEntry DEF Keeps, RowInv

LEMMA NewKeeps ==
  ASSUME RowInv, NEW u \in User, ~Stored(u), NEW level \in NewLevels
  PROVE  /\ Keeps([user EXCEPT ![u] = Row(level, AnyPassword)])
         /\ [user EXCEPT ![u] = Row(level, AnyPassword)][u] \in Entry
<1>1. AnyPassword \in Password
  BY PasswordAssumption DEF AnyPassword
<1>2. Row(level, AnyPassword) \in Entry
  BY <1>1, UserAssumption DEF Row, Entry
<1>3. QED
  BY <1>2, StoredIsEntry DEF Keeps, RowInv

(* Whoever is logged in remains so while rows stay and connections only      *)
(* close.                                                                    *)
LEMMA LoginsStay ==
  ASSUME RowInv, LoginInv, Keeps(user'), NEW c \in Conn,
         conn' \in {conn, [conn EXCEPT ![c] = Absent]}
  PROVE  LoginInv'
<1>1. DOMAIN conn' = Conn /\ conn' = [d \in Conn |-> conn'[d]]
  BY DEF LoginInv
<1>2. ASSUME NEW d \in Conn
      PROVE  conn'[d] = conn[d] \/ conn'[d] = Absent
  BY DEF LoginInv
<1>3. Absent \in [user : User \cup {Nobody}, level : Nat, nolp : {"closed", "CMD", "EXPECT"}]
  BY DEF Absent
<1>4. ASSUME NEW d \in Conn, LoggedIn(conn[d]), conn'[d] = conn[d]
      PROVE  LoggedIn(conn[d])'
  <2>1. Stored(conn[d].user) /\ conn[d].user \in User
    BY <1>4 DEF LoggedIn
  <2>2. user'[conn[d].user] \in Entry /\ user'[conn[d].user].level = user[conn[d].user].level
    BY <2>1 DEF Keeps
  <2>3. Stored(conn[d].user)'
    BY <2>2, <1>4, NotStoredIsNoEntry DEF Stored
  <2>4. QED
    BY <1>4, <2>1, <2>2, <2>3 DEF LoggedIn
<1>5. QED
  BY <1>1, <1>2, <1>3, <1>4 DEF LoginInv

LEMMA ToldStays ==
  ASSUME RowInv, ToldIsStored, Keeps(user'), told' = told,
         \A u \in User : added'[u] \in Nat /\ added'[u] >= added[u]
  PROVE  ToldIsStored'
<1>1. \A u \in User : told.added[u] \in Nat /\ added[u] \in Nat
  BY DEF RowInv
<1>2. \A u \in User : Stored(u) => Stored(u)'
  BY NotStoredIsNoEntry DEF Keeps, Stored
<1>3. told.users \subseteq User /\ told.gone \subseteq User
  BY DEF RowInv
<1>4. \A u \in User : told'.added[u] <= added'[u]
  BY <1>1 DEF ToldIsStored
<1>5. \A u \in told'.users : Stored(u)'
  BY <1>2, <1>3 DEF ToldIsStored
<1>6. \A u \in told'.gone : Stored(u)' /\ user'[u].deleted
  BY <1>2, <1>3 DEF ToldIsStored, Keeps
<1>7. QED
  BY <1>4, <1>5, <1>6 DEF ToldIsStored
-----------------------------------------------------------------------------
(* The commands that only ask.                                               *)
Asking(c) ==
    \/ UnknownCommand(c) \/ ListSlaves(c) \/ ListClients(c) \/ SlaveInfoCommand(c)
    \/ ClientInfo(c) \/ ShowConfig(c) \/ Log(c) \/ Hello(c)
    \/ SessionInfo(c) \/ SessionReport(c) \/ ListSessions(c) \/ ListUsers(c)
    \/ ListInput(c) \/ SystemInfo(c)

Quiet(c) == UNCHANGED <<shown, user, added, told>> /\ conn' \in {conn, [conn EXCEPT ![c] = Absent]}

LEMMA DeniedIsQuiet ==
  ASSUME NEW c \in Conn, NEW level, NEW code, Denied(c, level, code)
  PROVE  Quiet(c)
BY DEF Denied, Asks, Answer, Quiet, tables

LEMMA ShowsIsQuiet ==
  ASSUME NEW c \in Conn, NEW code, NEW body, Shows(c, code, body)
  PROVE  Quiet(c)
BY DEF Shows, Asks, Answer, Quiet, tables

LEMMA ListsIsQuiet ==
  ASSUME NEW c \in Conn, NEW body, Lists(c, body)
  PROVE  Quiet(c)
BY DEF Lists, Selects, Asks, Answer, Closes, Quiet, tables

LEMMA AskingIsQuiet ==
  ASSUME NEW c \in Conn, Asking(c)
  PROVE  Quiet(c)
<1>1. CASE UnknownCommand(c)
  BY <1>1 DEF UnknownCommand, Asks, Closes, Quiet, tables
<1>2. CASE ListSlaves(c)
  BY <1>2, ShowsIsQuiet DEF ListSlaves
<1>3. CASE ListClients(c)
  BY <1>3, ShowsIsQuiet DEF ListClients
<1>4. CASE SlaveInfoCommand(c)
  BY <1>4, ShowsIsQuiet DEF SlaveInfoCommand
<1>5. CASE ClientInfo(c)
  <2>1. CASE Denied(c, READ, NOT_FOUND)
    BY <2>1, DeniedIsQuiet
  <2>2. CASE Asks(c) /\ Closes(c, NONE)
    BY <2>2 DEF Asks, Closes, Quiet, tables
  <2>3. CASE \E code, body : Shows(c, code, body)
    BY <2>3, ShowsIsQuiet
  <2>4. QED
    BY <1>5, <2>1, <2>2, <2>3 DEF ClientInfo
<1>6. CASE ShowConfig(c)
  BY <1>6, ShowsIsQuiet, DeniedIsQuiet DEF ShowConfig
<1>7. CASE Log(c)
  BY <1>7, ShowsIsQuiet DEF Log
<1>8. CASE Hello(c)
  BY <1>8, ShowsIsQuiet DEF Hello
<1>9. CASE SessionInfo(c)
  BY <1>9 DEF SessionInfo, Selects, Asks, Answer, Closes, Quiet, tables
<1>10. CASE SessionReport(c)
  BY <1>10 DEF SessionReport, Selects, Asks, Answer, Closes, Quiet, tables
<1>11. CASE ListSessions(c)
  BY <1>11, ListsIsQuiet DEF ListSessions, BadRange, Asks, Closes, Quiet, tables
<1>12. CASE ListUsers(c)
  <2>1. CASE BadRange(c)
    BY <2>1 DEF BadRange, Asks, Closes, Quiet, tables
  <2>2. QED
    BY <1>12, <2>1, DeniedIsQuiet, ListsIsQuiet DEF ListUsers
<1>13. CASE ListInput(c)
  BY <1>13, ListsIsQuiet DEF ListInput
<1>14. CASE SystemInfo(c)
  BY <1>14 DEF SystemInfo, Selects, Asks, Answer, Closes, Quiet, tables
<1>15. QED
  BY <1>1, <1>2, <1>3, <1>4, <1>5, <1>6, <1>7, <1>8, <1>9, <1>10, <1>11, <1>12, <1>13, <1>14
     DEF Asking

LEMMA QuietKeepsInv ==
  ASSUME IInv, NEW c \in Conn, UNCHANGED <<user, added, told>>,
         conn' \in {conn, [conn EXCEPT ![c] = Absent]}
  PROVE  IInv'
<1>1. Keeps(user')
  BY SameKeeps DEF IInv
<1>2. RowInv'
  BY DEF IInv, RowInv
<1>3. LoginInv'
  BY <1>1, LoginsStay DEF IInv
<1>4. ToldIsStored'
  BY <1>1, ToldStays DEF IInv, RowInv
<1>5. QED
  BY <1>2, <1>3, <1>4 DEF IInv

(* Whoever has a command read is logged in.                                  *)
LEMMA ReaderIsLoggedIn ==
  ASSUME IInv, NEW c \in Conn, NEW state \in {"CMD", "EXPECT"}, Reads(c, state)
  PROVE  /\ LoggedIn(conn[c]) /\ conn[c].nolp = state
         /\ conn[c].user \in User /\ user[conn[c].user].level = conn[c].level
         /\ conn[c].level \in Nat
<1>1. conn[c] # Absent
  BY DEF Reads, Absent
<1>2. LoggedIn(conn[c])
  BY <1>1 DEF IInv, LoginInv
<1>3. QED
  BY <1>2 DEF LoggedIn, Reads, IInv, LoginInv
-----------------------------------------------------------------------------
(* The commands that change a table, each with what OwnRowsOnly says of a    *)
(* step.                                                                     *)
OwnStep ==
    /\ \A u \in User : user'[u] # user[u] =>
         \/ user[By].level >= MANAGER
         \/ u = By /\ user'[u] = [user[u] EXCEPT !.pass = user'[u].pass]
    /\ \A u \in User : added'[u] # added[u] => u = By /\ user[u].level >= WRITE

LEMMA RowsChange ==
  ASSUME IInv, NEW c \in Conn, Keeps(user'), UNCHANGED <<added, told>>,
         conn' \in {conn, [conn EXCEPT ![c] = Absent]}
  PROVE  IInv'
<1>1. RowInv'
  BY DEF IInv, RowInv, Keeps
<1>2. LoginInv'
  BY LoginsStay DEF IInv
<1>3. ToldIsStored'
  BY ToldStays DEF IInv, RowInv
<1>4. QED
  BY <1>1, <1>2, <1>3 DEF IInv

LEMMA KillAllStep ==
  ASSUME IInv, NEW c \in Conn, KillAll(c)
  PROVE  IInv' /\ OwnStep
<1>1. CASE \E code, body : Shows(c, code, body)
  BY <1>1, ShowsIsQuiet, QuietKeepsInv DEF Quiet, OwnStep
<1>2. CASE conn' = [d \in Conn |-> Absent] /\ UNCHANGED <<user, added, told>>
  <2>1. LoginInv'
    BY <1>2 DEF LoginInv, Absent
  <2>2. RowInv' /\ ToldIsStored'
    BY <1>2 DEF IInv, RowInv, ToldIsStored, Stored
  <2>3. QED
    BY <1>2, <2>1, <2>2 DEF IInv, OwnStep
<1>3. QED
  BY <1>1, <1>2 DEF KillAll, tables

LEMMA AddInputStep ==
  ASSUME IInv, NEW c \in Conn, AddInput(c)
  PROVE  IInv' /\ OwnStep
<1>1. CASE Denied(c, WRITE, DENIED)
  BY <1>1, DeniedIsQuiet, QuietKeepsInv DEF Quiet, OwnStep
<1> DEFINE u == conn[c].user
           more == [added EXCEPT ![u] = @ + 1]
<1>2. CASE ~Denied(c, WRITE, DENIED)
  <2>1. /\ Reads(c, "CMD") /\ conn[c].level >= WRITE /\ user' = user
        /\ \/ added' = more /\ Answer(c, OK, Nothing) /\ told' = [told EXCEPT !.added[u] = @ + 1]
           \/ added' \in {added, more} /\ Closes(c, INTERNAL_ERROR) /\ UNCHANGED told
    BY <1>2 DEF AddInput, May, Statement
  <2>2. reply'.to = c /\ conn' \in {conn, [conn EXCEPT ![c] = Absent]}
    BY <2>1 DEF Answer, Closes, Send
  <2>3. u \in User /\ user[u].level = conn[c].level
    BY <2>1, ReaderIsLoggedIn
  <2>4. OwnStep
    BY <2>1, <2>2, <2>3 DEF OwnStep, By, IInv, RowInv
  <2>5. Keeps(user')
    BY <2>1, SameKeeps DEF IInv
  <2>6. added \in [User -> Nat] /\ more \in [User -> Nat] /\ more[u] = added[u] + 1
    BY <2>3 DEF IInv, RowInv
  <2>7. told \in [added : [User -> Nat], users : SUBSET User, gone : SUBSET User]
    BY DEF IInv, RowInv
  <2>8. CASE added' = more /\ told' = [told EXCEPT !.added[u] = @ + 1]
    <3>1. /\ told'.added = [told.added EXCEPT ![u] = @ + 1]
          /\ told'.users = told.users /\ told'.gone = told.gone
          /\ told' \in [added : [User -> Nat], users : SUBSET User, gone : SUBSET User]
      BY <2>3, <2>7, <2>8
    <3>2. RowInv'
      BY <2>1, <2>6, <2>8, <3>1 DEF IInv, RowInv
    <3>3. \A v \in User : told'.added[v] <= added'[v]
      BY <2>3, <2>6, <2>7, <2>8, <3>1 DEF IInv, ToldIsStored
    <3>4. ToldIsStored'
      BY <2>1, <3>1, <3>3 DEF IInv, ToldIsStored, Stored
    <3>5. LoginInv'
      BY <2>2, <2>5, LoginsStay DEF IInv
    <3>6. QED
      BY <2>4, <3>2, <3>4, <3>5 DEF IInv
  <2>9. CASE added' \in {added, more} /\ told' = told
    <3>1. \A v \in User : added'[v] \in Nat /\ added'[v] >= added[v]
      BY <2>3, <2>6, <2>9
    <3>2. RowInv'
      BY <2>1, <2>6, <2>9 DEF IInv, RowInv
    <3>3. ToldIsStored' /\ LoginInv'
      BY <2>2, <2>5, <2>9, <3>1, ToldStays, LoginsStay DEF IInv
    <3>4. QED
      BY <2>4, <3>2, <3>3 DEF IInv
  <2>10. QED
    BY <2>1, <2>8, <2>9
<1>3. QED
  BY <1>1, <1>2
LEMMA UserAddStep ==
  ASSUME IInv, NEW c \in Conn, UserAdd(c)
  PROVE  IInv' /\ OwnStep
<1>1. CASE Denied(c, MANAGER, DENIED)
  BY <1>1, DeniedIsQuiet, QuietKeepsInv DEF Quiet, OwnStep
<1>2. CASE Asks(c) /\ Closes(c, NONE)
  <2>1. Quiet(c)
    BY <1>2 DEF Asks, Closes, Quiet, tables
  <2>2. QED
    BY <2>1, QuietKeepsInv DEF Quiet, OwnStep
<1>3. CASE Asks(c) /\ May(c, MANAGER) /\ conn' = [conn EXCEPT ![c].nolp = "EXPECT"]
  <2>1. UNCHANGED <<user, added, told>> /\ LoggedIn(conn[c]) /\ conn[c].level >= MANAGER
    BY <1>3, ReaderIsLoggedIn DEF Asks, tables, May
  <2>2. conn[c] \in [user : User \cup {Nobody}, level : Nat, nolp : {"closed", "CMD", "EXPECT"}]
    BY DEF IInv, LoginInv
  <2>3. /\ conn'[c].user = conn[c].user /\ conn'[c].level = conn[c].level /\ conn'[c].nolp = "EXPECT"
        /\ conn'[c] \in [user : User \cup {Nobody}, level : Nat, nolp : {"closed", "CMD", "EXPECT"}]
    BY <1>3, <2>2 DEF IInv, LoginInv
  <2>4. \A d \in Conn : d # c => conn'[d] = conn[d]
    BY <1>3 DEF IInv, LoginInv
  <2>5. DOMAIN conn' = Conn /\ conn' = [d \in Conn |-> conn'[d]]
    BY <1>3 DEF IInv, LoginInv
  <2>6. LoggedIn(conn[c])'
    BY <2>1, <2>3 DEF LoggedIn, Stored
  <2>7. \A d \in Conn : LoggedIn(conn[d]) /\ d # c => LoggedIn(conn[d])'
    BY <2>1, <2>4 DEF LoggedIn, Stored
  <2>8. LoginInv'
    BY <2>3, <2>4, <2>5, <2>6, <2>7 DEF IInv, LoginInv
  <2>9. RowInv' /\ ToldIsStored'
    BY <2>1 DEF IInv, RowInv, ToldIsStored, Stored
  <2>10. QED
    BY <2>1, <2>8, <2>9 DEF IInv, OwnStep
<1>4. QED
  BY <1>1, <1>2, <1>3 DEF UserAdd

LEMMA UserAddDataStep ==
  ASSUME IInv, NEW c \in Conn, UserAddData(c)
  PROVE  IInv' /\ OwnStep
<1>1. /\ Reads(c, "EXPECT") /\ UNCHANGED <<added, session>>
      /\ LoggedIn(conn[c]) /\ conn[c].level >= MANAGER
      /\ user[conn[c].user].level = conn[c].level
  BY ReaderIsLoggedIn DEF UserAddData, LoggedIn
<1>2. CASE UNCHANGED <<user, told>> /\ \E code : Closes(c, code)
  BY <1>1, <1>2, QuietKeepsInv DEF Closes, OwnStep
<1>3. ASSUME NEW u \in User, NEW level \in NewLevels, ~Stored(u),
             user' = [user EXCEPT ![u] = Row(level, AnyPassword)] \/ user' = user,
             \/ UNCHANGED told /\ \E code : Closes(c, code)
             \/ /\ user' = [user EXCEPT ![u] = Row(level, AnyPassword)]
                /\ Send(c, OK, Nothing) /\ conn' = [conn EXCEPT ![c].nolp = "CMD"]
                /\ told' = [told EXCEPT !.users = @ \cup {u}]
      PROVE  IInv' /\ OwnStep
  <2>1. Keeps(user')
    BY <1>3, NewKeeps, SameKeeps DEF IInv
  <2>2. reply'.to = c
    BY <1>3 DEF Closes, Send
  <2>3. OwnStep
    BY <1>1, <2>2 DEF OwnStep, By
  <2>4. CASE UNCHANGED told /\ \E code : Closes(c, code)
    <3>1. IInv'
      BY <1>1, <2>1, <2>4, RowsChange DEF Closes
    <3>2. QED
      BY <2>3, <3>1
  <2>5. CASE /\ user' = [user EXCEPT ![u] = Row(level, AnyPassword)]
             /\ conn' = [conn EXCEPT ![c].nolp = "CMD"]
             /\ told' = [told EXCEPT !.users = @ \cup {u}]
    <3>1. told \in [added : [User -> Nat], users : SUBSET User, gone : SUBSET User]
      BY DEF IInv, RowInv
    <3>2. /\ told'.added = told.added /\ told'.users = told.users \cup {u} /\ told'.gone = told.gone
          /\ told' \in [added : [User -> Nat], users : SUBSET User, gone : SUBSET User]
      BY <2>5, <3>1
    <3>3. RowInv'
      BY <1>1, <2>1, <3>2 DEF IInv, RowInv, Keeps
    <3>4. \A v \in User : Stored(v) => Stored(v)'
      BY <2>1, NotStoredIsNoEntry DEF Keeps, Stored
    <3>5. Stored(u)'
      <4>1. user'[u] \in Entry
        BY <1>3, <2>5, NewKeeps DEF IInv
      <4>2. QED
        BY <4>1, NotStoredIsNoEntry DEF Stored
    <3>6. \A v \in told'.gone : Stored(v)' /\ user'[v].deleted
      BY <2>1, <3>1, <3>2, <3>4 DEF IInv, ToldIsStored, Keeps
    <3>7. ToldIsStored'
      BY <1>1, <3>1, <3>2, <3>4, <3>5, <3>6 DEF IInv, ToldIsStored
    <3>8. conn[c] \in [user : User \cup {Nobody}, level : Nat, nolp : {"closed", "CMD", "EXPECT"}]
      BY DEF IInv, LoginInv
    <3>9. /\ conn'[c].user = conn[c].user /\ conn'[c].level = conn[c].level /\ conn'[c].nolp = "CMD"
          /\ conn'[c] \in [user : User \cup {Nobody}, level : Nat, nolp : {"closed", "CMD", "EXPECT"}]
          /\ DOMAIN conn' = Conn /\ conn' = [d \in Conn |-> conn'[d]]
          /\ \A d \in Conn : d # c => conn'[d] = conn[d]
      BY <2>5, <3>8 DEF IInv, LoginInv
    <3>10. \A v \in User : Stored(v) => user'[v].level = user[v].level
      BY <2>1 DEF Keeps
    <3>11. LoggedIn(conn[c])'
      BY <1>1, <3>4, <3>9, <3>10 DEF LoggedIn
    <3>12. \A d \in Conn : LoggedIn(conn[d]) /\ d # c => LoggedIn(conn[d])'
      BY <3>4, <3>9, <3>10 DEF LoggedIn
    <3>13. LoginInv'
      BY <3>9, <3>11, <3>12 DEF IInv, LoginInv
    <3>14. QED
      BY <2>3, <3>3, <3>7, <3>13 DEF IInv
  <2>6. QED
    BY <1>3, <2>4, <2>5
<1>4. QED
  BY <1>2, <1>3 DEF UserAddData, Statement

LEMMA UserDelStep ==
  ASSUME IInv, NEW c \in Conn, UserDel(c)
  PROVE  IInv' /\ OwnStep
<1>1. CASE Denied(c, MANAGER, DENIED)
  BY <1>1, DeniedIsQuiet, QuietKeepsInv DEF Quiet, OwnStep
<1>2. ASSUME NEW u \in User, May(c, MANAGER),
             Updates(c, IF Stored(u) THEN [user EXCEPT ![u].deleted = TRUE] ELSE user,
                     [told EXCEPT !.gone = @ \cup {u}], Answer(c, INTERNAL_ERROR, Nothing))
      PROVE  IInv' /\ OwnStep
  <2> DEFINE with == IF Stored(u) THEN [user EXCEPT ![u].deleted = TRUE] ELSE user
  <2>1. /\ Reads(c, "CMD") /\ UNCHANGED <<added, session>> /\ conn' = conn /\ reply'.to = c
        /\ \/ user' = with /\ with # user /\ told' = [told EXCEPT !.gone = @ \cup {u}]
           \/ user' \in {user, with} /\ UNCHANGED told
    BY <1>2 DEF Updates, Affected, Statement, Answer, Send
  <2>2. user[conn[c].user].level >= MANAGER
    BY <1>2, <2>1, ReaderIsLoggedIn DEF May
  <2>3. OwnStep
    BY <2>1, <2>2 DEF OwnStep, By
  <2>4. Keeps(with)
    BY DeletedKeeps, SameKeeps DEF IInv
  <2>5. Keeps(user')
    BY <2>1, <2>4, SameKeeps DEF IInv
  <2>6. CASE UNCHANGED told
    BY <2>1, <2>3, <2>5, <2>6, RowsChange
  <2>7. CASE user' = with /\ with # user /\ told' = [told EXCEPT !.gone = @ \cup {u}]
    <3>1. Stored(u) /\ user'[u].deleted = TRUE
      BY <2>7, DeletedKeeps DEF IInv
    <3>2. told \in [added : [User -> Nat], users : SUBSET User, gone : SUBSET User]
      BY DEF IInv, RowInv
    <3>3. /\ told'.added = told.added /\ told'.users = told.users /\ told'.gone = told.gone \cup {u}
          /\ told' \in [added : [User -> Nat], users : SUBSET User, gone : SUBSET User]
      BY <2>7, <3>2
    <3>4. RowInv'
      BY <2>1, <2>5, <3>3 DEF IInv, RowInv, Keeps
    <3>5. \A v \in User : Stored(v) => Stored(v)'
      BY <2>5, NotStoredIsNoEntry DEF Keeps, Stored
    <3>6. \A v \in told'.gone : Stored(v)' /\ user'[v].deleted
      BY <2>5, <3>1, <3>2, <3>3, <3>5 DEF IInv, ToldIsStored, Keeps
    <3>7. ToldIsStored'
      BY <2>1, <3>2, <3>3, <3>5, <3>6 DEF IInv, ToldIsStored
    <3>8. LoginInv'
      BY <2>1, <2>5, LoginsStay DEF IInv
    <3>9. QED
      BY <2>3, <3>4, <3>7, <3>8 DEF IInv
  <2>8. QED
    BY <2>1, <2>6, <2>7
<1>3. QED
  BY <1>1, <1>2 DEF UserDel
(* PASSWD, of the user's own row, and PASSWD-ID, of any.                     *)
LEMMA PasswdSteps ==
  ASSUME IInv, NEW c \in Conn, Passwd(c) \/ PasswdId(c)
  PROVE  IInv' /\ OwnStep
<1>1. CASE Denied(c, MANAGER, DENIED)
  BY <1>1, DeniedIsQuiet, QuietKeepsInv DEF Quiet, OwnStep
<1>2. CASE Asks(c) /\ Closes(c, BAD_REQUEST)
  <2>1. Quiet(c)
    BY <1>2 DEF Asks, Closes, Quiet, tables
  <2>2. QED
    BY <2>1, QuietKeepsInv DEF Quiet, OwnStep
<1>3. ASSUME NEW u \in User, NEW p \in Password,
             u = conn[c].user \/ May(c, MANAGER),
             Updates(c, WithPass(u, p), told, Closes(c, INTERNAL_ERROR))
      PROVE  IInv' /\ OwnStep
  <2>1. /\ Reads(c, "CMD") /\ UNCHANGED <<added, told>> /\ user' \in {user, WithPass(u, p)}
        /\ conn' \in {conn, [conn EXCEPT ![c] = Absent]} /\ reply'.to = c
    BY <1>3 DEF Updates, Affected, Statement, Answer, Closes, Send
  <2>2. /\ conn[c].user \in User /\ user[conn[c].user].level = conn[c].level
        /\ u \in User
    BY <1>3, <2>1, ReaderIsLoggedIn
  <2>3. /\ Keeps(user')
        /\ \A v \in User : user'[v] # user[v] => v = u /\ user'[v] = [user[v] EXCEPT !.pass = user'[v].pass]
    BY <2>1, <2>2, PassKeeps, SameKeeps DEF IInv
  <2>4. By = conn[c].user
    BY <2>1 DEF By
  <2>5. OwnStep
    BY <1>3, <2>1, <2>2, <2>3, <2>4 DEF OwnStep, May
  <2>6. IInv'
    BY <2>1, <2>3, RowsChange
  <2>7. QED
    BY <2>5, <2>6
<1>4. CASE Passwd(c)
  <2>1. PICK p \in Password : Updates(c, WithPass(conn[c].user, p), told, Closes(c, INTERNAL_ERROR))
    BY <1>4 DEF Passwd
  <2>2. conn[c].user \in User
    BY <2>1, ReaderIsLoggedIn DEF Updates
  <2>3. PICK u \in User : u = conn[c].user
    BY <2>2
  <2>4. Updates(c, WithPass(u, p), told, Closes(c, INTERNAL_ERROR))
    BY <2>1, <2>3 DEF Updates, Statement, Affected, WithPass
  <2>5. QED
    BY <1>3, <2>3, <2>4
<1>5. CASE PasswdId(c)
  BY <1>1, <1>2, <1>3, <1>5 DEF PasswdId
<1>6. QED
  BY <1>4, <1>5

LEMMA CommandStep ==
  ASSUME IInv, NEW c \in Conn, Command(c)
  PROVE  IInv' /\ OwnStep
<1>1. CASE Asking(c)
  BY <1>1, AskingIsQuiet, QuietKeepsInv DEF Quiet, OwnStep
<1>2. QED
  BY <1>1, KillAllStep, AddInputStep, UserAddStep, UserAddDataStep, UserDelStep, PasswdSteps
     DEF Command, Asking

LEMMA LoginSteps ==
  ASSUME IInv, NEW c \in Conn, UserLogin(c) \/ UserLeaves(c)
  PROVE  IInv' /\ OwnStep
<1>1. UNCHANGED <<user, added, told>>
  BY DEF UserLogin, UserLeaves, tables
<1>2. OwnStep
  BY <1>1 DEF OwnStep
<1>3. CASE UserLeaves(c)
  BY <1>1, <1>2, <1>3, QuietKeepsInv DEF UserLeaves
<1>4. CASE UserLogin(c)
  <2>1. PICK u \in User :
          Stored(u) /\ conn' = [conn EXCEPT ![c] = [user |-> u, level |-> user[u].level, nolp |-> "CMD"]]
    BY <1>4 DEF UserLogin
  <2>2. user[u].level \in Nat
    BY <2>1, StoredIsEntry DEF IInv, Entry
  <2>3. RowInv' /\ ToldIsStored'
    BY <1>1 DEF IInv, RowInv, ToldIsStored, Stored
  <2>4. \A d \in Conn : d # c => conn'[d] = conn[d]
    BY <2>1 DEF IInv, LoginInv
  <2>5. conn'[c] = [user |-> u, level |-> user[u].level, nolp |-> "CMD"]
    BY <2>1 DEF IInv, LoginInv
  <2>6. LoggedIn(conn[c])'
    BY <1>1, <2>1, <2>5 DEF LoggedIn, Stored
  <2>7. \A d \in Conn : LoggedIn(conn[d]) /\ d # c => LoggedIn(conn[d])'
    BY <1>1, <2>4 DEF LoggedIn, Stored
  <2>8. DOMAIN conn' = Conn /\ conn' = [d \in Conn |-> conn'[d]]
    BY <2>1 DEF IInv, LoginInv
  <2>9. LoginInv'
    BY <2>2, <2>4, <2>5, <2>6, <2>7, <2>8 DEF IInv, LoginInv
  <2>10. QED
    BY <1>2, <2>3, <2>9 DEF IInv
<1>5. QED
  BY <1>3, <1>4

LEMMA NextStep ==
  ASSUME IInv, [Next]_vars
  PROVE  IInv' /\ OwnStep
<1>1. CASE UNCHANGED <<conn, user, added, told>>
  BY <1>1 DEF IInv, RowInv, LoginInv, LoggedIn, ToldIsStored, Stored, OwnStep
<1>2. CASE SlaveJoins \/ SlaveInfo \/ SlaveStatus \/ SlaveLeaves
  BY <1>1, <1>2 DEF SlaveJoins, SlaveInfo, SlaveStatus, SlaveLeaves, External, tables
<1>3. CASE SessionEnds
  BY <1>1, <1>3 DEF SessionEnds
<1>4. CASE UNCHANGED vars
  BY <1>1, <1>4 DEF vars, tables
<1>5. ASSUME NEW c \in Conn, UserLogin(c) \/ UserLeaves(c) \/ Command(c)
      PROVE  IInv' /\ OwnStep
  BY <1>5, LoginSteps, CommandStep
<1>6. QED
  BY <1>2, <1>3, <1>4, <1>5 DEF Next

LEMMA InitInv ==
  ASSUME Init
  PROVE  IInv
<1>1. \A u \in DOMAIN LevelOf : u \in User /\ Row(LevelOf[u], AnyPassword) \in Entry
  BY UserAssumption, PasswordAssumption DEF Row, Entry, AnyPassword
<1>2. RowInv
  BY <1>1 DEF Init, RowInv
<1>3. LoginInv
  BY DEF Init, LoginInv, Absent
<1>4. ToldIsStored
  BY DEF Init, ToldIsStored
<1>5. QED
  BY <1>2, <1>3, <1>4 DEF IInv

-----------------------------------------------------------------------------
(* What users are told is stored, for any number of users and failures of    *)
(* the data base: the 100 that answers ADD, USERADD and USERDEL.             *)
THEOREM ToldStaysStored == Spec => []ToldIsStored
<1>1. Init => IInv
  BY InitInv
<1>2. IInv /\ [Next]_vars => IInv'
  BY NextStep
<1>3. IInv => ToldIsStored
  BY DEF IInv
<1>4. QED
  BY <1>1, <1>2, <1>3, PTL DEF Spec

(* Users change nobody's row but their own, unless they are managers then    *)
(* (not only when they logged in), and of their own only the password.       *)
THEOREM RowsAreOwn == Spec => OwnRowsOnly
<1>1. Init => IInv
  BY InitInv
<1>2. IInv /\ [Next]_vars => IInv'
  BY NextStep
<1>3. IInv /\ [Next]_vars => [OwnStep]_vars
  BY NextStep
<1>4. QED
  BY <1>1, <1>2, <1>3, PTL DEF Spec, OwnRowsOnly, OwnStep
-----------------------------------------------------------------------------
(* The records of the slaves, and the text made of them.                     *)
Record == [id : Slave, ready : BOOLEAN, clients : SUBSET Client, xml : (SUBSET Client) \cup {NoXml}]

(* Before the first STATUS of a slave there are no clients; after it the     *)
(* text and the records name the same.                                       *)
Agrees(r) == IF r.xml = NoXml THEN r.clients = {} ELSE r.xml = r.clients

Good(ss) == ss \in Seq(Record) /\ \A i \in DOMAIN ss : Agrees(ss[i])

ListInv == Good(slaves) /\ list = Listed(slaves)

LEMMA FunctionOnOneToN ==
  ASSUME NEW S, NEW n \in Nat, NEW f \in [1..n -> S]
  PROVE  f \in Seq(S) /\ Len(f) = n
OBVIOUS

LEMMA ListedLen ==
  ASSUME NEW ss \in Seq(Record)
  PROVE  Len(Listed(ss)) = Len(ss)
<1> DEFINE S == {Listed(ss)[i] : i \in 1..Len(ss)}
<1>1. Len(ss) \in Nat /\ DOMAIN ss = 1..Len(ss)
  OBVIOUS
<1>2. Listed(ss) \in [1..Len(ss) -> S]
  BY <1>1 DEF Listed
<1>3. QED
  BY <1>1, <1>2, FunctionOnOneToN

LEMMA NoXmlIsNoSet == NoXml \notin SUBSET Client
BY ClientAssumption DEF NoXml

LEMMA ListInvAgrees ==
  ASSUME ListInv
  PROVE  AnswersAgree
<1>1. slaves \in Seq(Record) /\ DOMAIN slaves = 1..Len(slaves) /\ Len(slaves) \in Nat
  BY DEF ListInv, Good
<1>2. Len(list) = Len(slaves)
  BY <1>1, ListedLen DEF ListInv
<1>3. ASSUME NEW i \in DOMAIN slaves
      PROVE  /\ list[i].id = slaves[i].id /\ list[i].ready = slaves[i].ready
             /\ slaves[i].xml = IF slaves[i].xml = NoXml THEN NoXml ELSE slaves[i].clients
             /\ list[i].num_clients = IF slaves[i].xml = NoXml THEN 0 ELSE Cardinality(slaves[i].xml)
  <2>1. /\ list[i].id = slaves[i].id /\ list[i].ready = slaves[i].ready
        /\ list[i].num_clients = Cardinality(slaves[i].clients)
    BY DEF ListInv, Listed
  <2>2. Agrees(slaves[i])
    BY DEF ListInv, Good
  <2>3. Cardinality({}) = 0
    BY FS_EmptySet
  <2>4. QED
    BY <2>1, <2>2, <2>3 DEF Agrees
<1>4. QED
  BY <1>2, <1>3 DEF AnswersAgree

LEMMA GoodKept ==
  ASSUME NEW ss, Good(ss), SlavesBecome(ss)
  PROVE  ListInv'
BY DEF SlavesBecome, ListInv

LEMMA ListStep ==
  ASSUME ListInv, [Next]_vars
  PROVE  ListInv'
<1>1. slaves \in Seq(Record) /\ DOMAIN slaves = 1..Len(slaves) /\ Len(slaves) \in Nat
  BY DEF ListInv, Good
<1>2. CASE UNCHANGED shown
  BY <1>2 DEF shown, ListInv, Good, Listed, Agrees
<1>3. CASE SlaveJoins
  <2>1. PICK id \in Slave, ready \in BOOLEAN : SlavesBecome(Append(slaves, NewRecord(id, ready)))
    BY <1>3 DEF SlaveJoins
  <2>2. NewRecord(id, ready) \in Record /\ Agrees(NewRecord(id, ready))
    <3>1. NewRecord(id, ready) = [id |-> id, ready |-> ready, clients |-> {}, xml |-> NoXml]
      BY DEF NewRecord
    <3>2. {} \in SUBSET Client
      OBVIOUS
    <3>3. NoXml \in (SUBSET Client) \cup {NoXml}
      BY Zenon
    <3>4. /\ NewRecord(id, ready).xml = NoXml
          /\ NewRecord(id, ready).clients = {}
      BY <3>1
    <3>5. Agrees(NewRecord(id, ready))
      BY <3>4 DEF Agrees
    <3>6. NewRecord(id, ready) \in Record
      BY <3>1, <3>2, <3>3 DEF Record
    <3>7. QED
      BY <3>5, <3>6
  <2> DEFINE ss == Append(slaves, NewRecord(id, ready))
  <2>3. /\ ss \in Seq(Record) /\ Len(ss) = Len(slaves) + 1
        /\ \A i \in 1..Len(slaves) : ss[i] = slaves[i]
        /\ ss[Len(slaves) + 1] = NewRecord(id, ready)
    BY <1>1, <2>2, AppendProperties
  <2>4. Good(ss)
    BY <1>1, <2>2, <2>3 DEF Good, ListInv
  <2>5. QED
    BY <2>1, <2>4 DEF SlavesBecome, ListInv
<1>4. CASE SlaveInfo
  <2>1. PICK i \in DOMAIN slaves : SlavesBecome([slaves EXCEPT ![i].ready = TRUE])
    BY <1>4 DEF SlaveInfo
  <2>2. slaves[i] \in Record /\ Agrees(slaves[i])
    BY <1>1 DEF ListInv, Good
  <2>3. [slaves[i] EXCEPT !.ready = TRUE] \in Record /\ Agrees([slaves[i] EXCEPT !.ready = TRUE])
    BY <2>2 DEF Record, Agrees
  <2> DEFINE ss == [slaves EXCEPT ![i] = [slaves[i] EXCEPT !.ready = TRUE]]
  <2>4. ss \in Seq(Record) /\ DOMAIN ss = DOMAIN slaves
    BY <1>1, <2>3, ExceptSeq
  <2>5. Good(ss)
    BY <1>1, <2>3, <2>4 DEF Good, ListInv
  <2>6. QED
    BY <2>1, <2>5 DEF SlavesBecome, ListInv
<1>5. CASE SlaveStatus
  <2>1. PICK i \in DOMAIN slaves, cs \in SUBSET Client :
          SlavesBecome([slaves EXCEPT ![i].clients = cs, ![i].xml = cs])
    BY <1>5 DEF SlaveStatus
  <2>2. slaves[i] \in Record
    BY <1>1
  <2> DEFINE r == [slaves[i] EXCEPT !.clients = cs, !.xml = cs]
  <2>3. r \in Record /\ r.xml = cs /\ r.clients = cs
    BY <2>2 DEF Record
  <2>4. Agrees(r)
    BY <2>3, NoXmlIsNoSet DEF Agrees
  <2> DEFINE ss == [slaves EXCEPT ![i] = r]
  <2>5. ss \in Seq(Record) /\ DOMAIN ss = DOMAIN slaves
    BY <1>1, <2>3, ExceptSeq
  <2>6. Good(ss)
    BY <1>1, <2>4, <2>5 DEF Good, ListInv
  <2>7. SlavesBecome(ss)
    BY <1>1, <2>1
  <2>8. QED
    BY <2>6, <2>7 DEF SlavesBecome, ListInv
<1>6. CASE SlaveLeaves
  <2> DEFINE ss == SubSeq(slaves, 1, Len(slaves) - 1)
  <2>1. SlavesBecome(ss) /\ Len(slaves) >= 1
    BY <1>1, <1>6 DEF SlaveLeaves
  <2>2. /\ ss \in Seq(Record) /\ Len(ss) = Len(slaves) - 1
        /\ \A i \in 1..(Len(slaves) - 1) : ss[i] = slaves[i]
    BY <1>1, <2>1, SubSeqProperties
  <2>3. Good(ss)
    BY <1>1, <2>1, <2>2 DEF Good, ListInv
  <2>4. QED
    BY <2>1, <2>3 DEF SlavesBecome, ListInv
<1>7. CASE slaves' = <<>> /\ list' = <<>>
  <2>1. slaves' \in Seq(Record) /\ DOMAIN slaves' = {}
    BY <1>7
  <2>2. Listed(slaves') = <<>>
    BY <1>7, <2>1 DEF Listed
  <2>3. QED
    BY <1>7, <2>1, <2>2 DEF ListInv, Good, Listed
<1>8. ASSUME NEW c \in Conn, Command(c)
      PROVE  UNCHANGED shown \/ (slaves' = <<>> /\ list' = <<>>)
  <2>1. CASE Asking(c)
    BY <2>1, AskingIsQuiet DEF Quiet
  <2>2. CASE KillAll(c)
    BY <2>2, ShowsIsQuiet DEF KillAll, Quiet
  <2>3. CASE AddInput(c)
    BY <2>3, DeniedIsQuiet DEF AddInput, Changes, Quiet
  <2>4. CASE UserAdd(c)
    BY <2>4, DeniedIsQuiet DEF UserAdd, Asks, Quiet
  <2>5. CASE UserAddData(c)
    BY <2>5 DEF UserAddData, Changes
  <2>6. CASE UserDel(c)
    BY <2>6, DeniedIsQuiet DEF UserDel, Updates, Changes, Quiet
  <2>7. CASE Passwd(c) \/ PasswdId(c)
    BY <2>7, DeniedIsQuiet DEF Passwd, PasswdId, Updates, Asks, Changes, Quiet
  <2>8. QED
    BY <1>8, <2>1, <2>2, <2>3, <2>4, <2>5, <2>6, <2>7 DEF Command, Asking
<1>9. QED
  BY <1>2, <1>3, <1>4, <1>5, <1>6, <1>7, <1>8 DEF Next, vars, UserLogin, UserLeaves, SessionEnds

(* LIST-SLAVES, LIST-CLIENTS and CLIENT-INFO agree, for any number of slaves *)
(* that come, report and go: each change of a record makes the text anew.    *)
THEOREM AnswersAlwaysAgree == Spec => []AnswersAgree
<1>1. Init => ListInv
  BY DEF Init, ListInv, Good, Listed
<1>2. ListInv /\ [Next]_vars => ListInv'
  BY ListStep
<1>3. ListInv => AnswersAgree
  BY ListInvAgrees
<1>4. QED
  BY <1>1, <1>2, <1>3, PTL DEF Spec
=============================================================================
