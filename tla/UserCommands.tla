---------------------------- MODULE UserCommands -----------------------------
(***************************************************************************)
(* The commands that the master of a cluster takes from users, user-conn.c *)
(* of mn-masterd, with the part of slave-conn.c that keeps what they show, *)
(* and the tables of the data base that they change.                       *)
(*                                                                         *)
(* All connections share one thread, so that a command is one step; what   *)
(* the user sends is chosen when it is read.  Only USERADD takes two: the  *)
(* command and, without a word of the master between them, the data.       *)
(***************************************************************************)
EXTENDS Naturals, Sequences, FiniteSets

CONSTANTS
    Conn,         \* connections of users
    User,         \* names, in the data base or not
    Nobody,
    LevelOf,      \* of the users that are in the data base at the start
    NewLevels,    \* levels that USERADD is given
    Password,
    Slave,        \* ids that the data base gives to slaves; no id is given twice
    Client,       \* tokens of clients
    Session,      \* rows of nol_session, running or done
    MaxRows,      \* bound: inputs added
    MaxJoins,     \* bound: slaves that come
    MaxFaults     \* bound: failures of the data base

ASSUME UserAssumption ==
    /\ Nobody \notin User /\ DOMAIN LevelOf \subseteq User
    /\ \A u \in DOMAIN LevelOf : LevelOf[u] \in Nat
    /\ NewLevels \subseteq Nat
ASSUME PasswordAssumption == Password # {} /\ "" \notin Password   \* "": a row that is not there
ASSUME ClientAssumption == "unset" \notin Client                   \* as in NoXml
ASSUME LimitAssumption == MaxRows \in Nat /\ MaxJoins \in Nat /\ MaxFaults \in Nat

VARIABLES
    up,        \* the process is alive
    conn,      \* of a connection: its user, the level read at its login, the state of nolp
    reply,     \* what was sent last: to whom, its number, its body
    slaves,    \* srv.slaves, with xml.clients of each
    list,      \* srv.xml.slave_list
    user,      \* table nol_user; the id of a user stands for its name
    added,     \* table nol_added: how many inputs of each user
    session,   \* table nol_session: which have a report
    joined,    \* slaves so far
    faults,    \* failures so far
    told       \* what users were told is done

shown  == <<slaves, list, joined>>
tables == <<user, added, session>>
vars   == <<up, conn, reply, shown, tables, faults, told>>

READ == 1
WRITE == 2
MANAGER == 1024
ADMIN == 8192

OK == 100
DENIED == 200
BAD_REQUEST == 201
NOT_FOUND == 203
INTERNAL_ERROR == 300
NONE == 0       \* nothing is sent

Absent    == [user |-> Nobody, level |-> 0, nolp |-> "closed"]
NotStored == [level |-> 0, pass |-> "", deleted |-> FALSE]
Nothing   == {}
NoXml     == {"unset"}

Row(level, pass) == [level |-> level, pass |-> pass, deleted |-> FALSE]
Stored(u)        == user[u] # NotStored
AnyPassword      == CHOOSE p \in Password : TRUE

-----------------------------------------------------------------------------
(* nol_m_create_slave_list_xml().                                            *)
Listed(ss) == [i \in DOMAIN ss |->
                 [id |-> ss[i].id, num_clients |-> Cardinality(ss[i].clients), ready |-> ss[i].ready]]

SlavesBecome(ss) == slaves' = ss /\ list' = Listed(ss)

External == UNCHANGED <<up, conn, reply, tables, faults, told>>

(* Mutant of NewRecord: the memory of a slave that left is used again.       *)
NewRecordOver(id, ready) == [id |-> id, ready |-> ready, clients |-> {}, xml |-> Client]

(* nol_m_create_slave_conn(); ready is whatever was there.                   *)
NewRecord(id, ready) == [id |-> id, ready |-> ready, clients |-> {}, xml |-> NoXml]

SlaveJoins ==
    /\ up /\ joined < MaxJoins
    /\ \E id \in Slave, ready \in BOOLEAN :
         /\ \A i \in DOMAIN slaves : slaves[i].id # id
         /\ SlavesBecome(Append(slaves, NewRecord(id, ready)))
    /\ joined' = joined + 1
    /\ External

SlaveInfo ==
    /\ up
    /\ \E i \in DOMAIN slaves : SlavesBecome([slaves EXCEPT ![i].ready = TRUE])
    /\ UNCHANGED joined /\ External

(* sl_status_parse(): the records of the clients and their XML, anew.        *)
SlaveStatus ==
    /\ up
    /\ \E i \in DOMAIN slaves, cs \in SUBSET Client :
         /\ \A j \in DOMAIN slaves \ {i} : cs \cap slaves[j].clients = {}
         /\ SlavesBecome([slaves EXCEPT ![i].clients = cs, ![i].xml = cs])
    /\ UNCHANGED joined /\ External

(* nol_m_conn_close() of the last of the slaves; when another one leaves the *)
(* list is wrong (module MasterDaemon).                                      *)
SlaveLeaves ==
    /\ up /\ slaves # <<>>
    /\ SlavesBecome(SubSeq(slaves, 1, Len(slaves) - 1))
    /\ UNCHANGED joined /\ External

-----------------------------------------------------------------------------
(* What a command sends, and whether the connection stays: a callback that   *)
(* returns -1 has it closed.                                                 *)
Send(c, code, body) == reply' = [to |-> c, code |-> code, body |-> body]
Answer(c, code, body) == Send(c, code, body) /\ UNCHANGED conn
Closes(c, code) == Send(c, code, Nothing) /\ conn' = [conn EXCEPT ![c] = Absent]

Reads(c, state) == up /\ conn[c].nolp = state

(* Mutant of May: who may write may manage.                                  *)
MayWriter(c, level) == conn[c].level >= level \/ conn[c].level >= WRITE

May(c, level) == conn[c].level >= level

Fails == faults < MaxFaults /\ faults' = faults + 1
Works == UNCHANGED faults

Changes == UNCHANGED <<up, shown>>
Asks(c) == Reads(c, "CMD") /\ UNCHANGED <<up, shown, tables, told>>

(* A command of which the level is too low.                                  *)
Denied(c, level, code) == Asks(c) /\ Works /\ ~May(c, level) /\ Answer(c, code, Nothing)

(* A command that only shows what the master holds.                          *)
Shows(c, code, body) == Asks(c) /\ Works /\ Answer(c, code, body)

-----------------------------------------------------------------------------
(* check_user_login() and upgrade_conn(): a user that was deleted may still  *)
(* log in, and the level is read once.                                       *)
UserLogin(c) ==
    /\ up /\ conn[c] = Absent /\ Works
    /\ \E u \in User :
         /\ Stored(u)
         /\ conn' = [conn EXCEPT ![c] = [user |-> u, level |-> user[u].level, nolp |-> "CMD"]]
    /\ Send(c, OK, Nothing)
    /\ UNCHANGED <<up, shown, tables, told>>

UserLeaves(c) ==
    /\ up /\ conn[c] # Absent
    /\ conn' = [conn EXCEPT ![c] = Absent]
    /\ UNCHANGED <<up, reply, shown, tables, faults, told>>

(* A word that is not in user_commands, such as data that nobody asked for.  *)
UnknownCommand(c) == Asks(c) /\ Works /\ Closes(c, NONE)

ListSlaves(c) == Shows(c, OK, list)

(* The slave with an id.                                                     *)
With(id) == {i \in DOMAIN slaves : slaves[i].id = id}

ListClients(c) ==
    \E id \in Slave :
      IF With(id) = {} THEN Shows(c, NOT_FOUND, Nothing)
      ELSE \E i \in With(id) : Shows(c, OK, slaves[i].xml)

SlaveInfoCommand(c) ==
    \E id \in Slave :
      IF With(id) = {} THEN Shows(c, NOT_FOUND, Nothing)
      ELSE \E i \in With(id) : Shows(c, OK, [id |-> id, ready |-> slaves[i].ready])

ClientInfo(c) ==
    \/ Denied(c, READ, NOT_FOUND)
    \/ May(c, READ) /\ Asks(c) /\ Works /\ Closes(c, NONE)    \* not the 40 letters of a token
    \/ /\ May(c, READ)
       /\ \E t \in Client :
            LET has == {i \in DOMAIN slaves : t \in slaves[i].clients}
            IN IF has = {} THEN Shows(c, NOT_FOUND, Nothing)
               ELSE \E i \in has : Shows(c, OK, [client |-> t, slave |-> slaves[i].id])

ShowConfig(c) == Denied(c, ADMIN, DENIED) \/ (May(c, ADMIN) /\ Shows(c, OK, {"config"}))

Log(c) == Shows(c, NONE, Nothing)

Hello(c) == Shows(c, OK, conn[c].level)

(* KILL-ALL goes to the slave; for a slave that is not there the answer is   *)
(* sent with the record that was not found: the process dies.                *)
KillAll(c) ==
    \E id \in Slave :
      IF With(id) # {} THEN Shows(c, NONE, Nothing)
      ELSE /\ Reads(c, "CMD") /\ up' = FALSE
           /\ conn' = [d \in Conn |-> Absent]
           /\ slaves' = <<>> /\ list' = <<>>
           /\ UNCHANGED <<reply, joined, tables, faults, told>>

-----------------------------------------------------------------------------
(* mysql_real_query() of a statement that changes a table: it may fail, even *)
(* after the statement was carried out.                                      *)
Statement(c, table, becomes, failure) ==
    /\ Fails
    /\ table' \in {table, becomes}
    /\ failure
    /\ UNCHANGED told

AddInput(c) ==
    \/ Denied(c, WRITE, DENIED)
    \/ /\ Reads(c, "CMD") /\ May(c, WRITE) /\ Changes /\ UNCHANGED <<user, session>>
       /\ LET u == conn[c].user
              more == [added EXCEPT ![u] = @ + 1]
          IN /\ \A v \in User : added[v] < MaxRows
             /\ \/ /\ Works /\ added' = more /\ Answer(c, OK, Nothing)
                   /\ told' = [told EXCEPT !.added[u] = @ + 1]
                \/ Statement(c, added, more, Closes(c, INTERNAL_ERROR))

(* The command: what follows is taken for commands if it is denied, ...      *)
UserAdd(c) ==
    \/ Denied(c, MANAGER, DENIED)
    \/ /\ Asks(c) /\ Works /\ May(c, MANAGER)
       /\ \/ Closes(c, NONE)     \* the size is 0
          \/ /\ conn' = [conn EXCEPT ![c].nolp = "EXPECT"]
             /\ UNCHANGED reply

(* ... and the data; the name of a user is unique, that of a deleted one,    *)
(* whose row is kept, too.                                                   *)
UserAddData(c) ==
    /\ Reads(c, "EXPECT") /\ Changes /\ UNCHANGED <<added, session>>
    /\ \/ /\ Works /\ Closes(c, BAD_REQUEST) /\ UNCHANGED <<user, told>>
       \/ \E u \in User, level \in NewLevels :
            LET with == [user EXCEPT ![u] = Row(level, AnyPassword)]
            IN IF Stored(u)
               THEN Works /\ Closes(c, INTERNAL_ERROR) /\ UNCHANGED <<user, told>>
               ELSE \/ /\ Works /\ user' = with
                       /\ Send(c, OK, Nothing) /\ conn' = [conn EXCEPT ![c].nolp = "CMD"]
                       /\ told' = [told EXCEPT !.users = @ \cup {u}]
                    \/ Statement(c, user, with, Closes(c, INTERNAL_ERROR))

(* Mutant of Affected: it is enough that the statement did not fail.         *)
AffectedAny(with) == TRUE

(* mysql_affected_rows(): a row that stays as it is does not count.          *)
Affected(with) == with # user

Updates(c, with, done, failure) ==
    /\ Reads(c, "CMD") /\ Changes /\ UNCHANGED <<added, session>>
    /\ \/ /\ Works /\ user' = with
          /\ IF Affected(with) THEN Answer(c, OK, Nothing) /\ told' = done
             ELSE Answer(c, NOT_FOUND, Nothing) /\ UNCHANGED told
       \/ Statement(c, user, with, failure)

WithPass(u, p) == IF Stored(u) THEN [user EXCEPT ![u].pass = p] ELSE user

UserDel(c) ==
    \/ Denied(c, MANAGER, DENIED)
    \/ /\ May(c, MANAGER)
       /\ \E u \in User :
            Updates(c, IF Stored(u) THEN [user EXCEPT ![u].deleted = TRUE] ELSE user,
                    [told EXCEPT !.gone = @ \cup {u}], Answer(c, INTERNAL_ERROR, Nothing))

Passwd(c) ==
    \E p \in Password :
      Updates(c, WithPass(conn[c].user, p), told, Closes(c, INTERNAL_ERROR))

PasswdId(c) ==
    \/ Denied(c, MANAGER, DENIED)
    \/ May(c, MANAGER) /\ Asks(c) /\ Works /\ Closes(c, BAD_REQUEST)    \* no password is given
    \/ /\ May(c, MANAGER)
       /\ \E u \in User, p \in Password : Updates(c, WithPass(u, p), told, Closes(c, INTERNAL_ERROR))

-----------------------------------------------------------------------------
(* A SELECT fails, or its result cannot be had.                              *)
Selects(c, code, body, refused, lost) ==
    /\ Asks(c)
    /\ \/ Works /\ Answer(c, code, body)
       \/ Fails /\ (refused \/ lost)

SessionInfo(c) ==
    \E s \in Session \cup {Nobody} :
      Selects(c, IF s = Nobody THEN NOT_FOUND ELSE OK, IF s = Nobody THEN Nothing ELSE {s},
              Closes(c, NONE), Closes(c, INTERNAL_ERROR))

SessionReport(c) ==
    \E s \in Session \cup {Nobody} :
      Selects(c, IF s = Nobody THEN NOT_FOUND ELSE OK, {s} \cap session,
              Closes(c, NONE), Closes(c, INTERNAL_ERROR))

(* A list whose result is lost is not sent, and nothing else is.             *)
Lists(c, body) == Selects(c, OK, body, Closes(c, INTERNAL_ERROR), Answer(c, NONE, Nothing))

(* The two numbers of a part of a list are missing.                          *)
BadRange(c) == Asks(c) /\ Works /\ Closes(c, BAD_REQUEST)

ListSessions(c) == BadRange(c) \/ Lists(c, Session)

ListUsers(c) ==
    \/ Denied(c, MANAGER, DENIED)
    \/ May(c, MANAGER) /\ BadRange(c)
    \/ May(c, MANAGER) /\ Lists(c, {u \in User : Stored(u) /\ ~user[u].deleted})

ListInput(c) == Lists(c, added[conn[c].user])

(* Deleted users are counted.                                                *)
SystemInfo(c) ==
    Selects(c, OK, [num_slaves |-> Len(slaves), num_sessions |-> Cardinality(Session),
                    num_users |-> Cardinality({u \in User : Stored(u)})],
            Closes(c, NONE), Closes(c, NONE))

(* A slave stores the report of a session.                                   *)
SessionEnds ==
    /\ \E s \in Session \ session : session' = session \cup {s}
    /\ UNCHANGED <<up, conn, reply, shown, user, added, faults, told>>

-----------------------------------------------------------------------------
Init ==
    /\ up = TRUE
    /\ conn = [c \in Conn |-> Absent]
    /\ reply = [to |-> Nobody, code |-> NONE, body |-> Nothing]
    /\ slaves = <<>> /\ list = <<>> /\ joined = 0
    /\ user = [u \in User |-> IF u \in DOMAIN LevelOf THEN Row(LevelOf[u], AnyPassword) ELSE NotStored]
    /\ added = [u \in User |-> 0]
    /\ session = {}
    /\ faults = 0
    /\ told = [added |-> [u \in User |-> 0], users |-> {}, gone |-> {}]

Command(c) ==
    \/ UnknownCommand(c) \/ ListSlaves(c) \/ ListClients(c) \/ SlaveInfoCommand(c)
    \/ ClientInfo(c) \/ ShowConfig(c) \/ Log(c) \/ Hello(c) \/ KillAll(c)
    \/ AddInput(c) \/ UserAdd(c) \/ UserAddData(c) \/ UserDel(c) \/ Passwd(c) \/ PasswdId(c)
    \/ SessionInfo(c) \/ SessionReport(c) \/ ListSessions(c) \/ ListUsers(c)
    \/ ListInput(c) \/ SystemInfo(c)

Next ==
    \/ SlaveJoins \/ SlaveInfo \/ SlaveStatus \/ SlaveLeaves \/ SessionEnds
    \/ \E c \in Conn : UserLogin(c) \/ UserLeaves(c) \/ Command(c)

Spec == Init /\ [][Next]_vars

-----------------------------------------------------------------------------
(* What a user was told is done is in the data base, whatever other users do *)
(* and whichever statement fails in between: ADD, USERADD and USERDEL.       *)
ToldIsStored ==
    /\ \A u \in User : told.added[u] <= added[u]
    /\ \A u \in told.users : Stored(u)
    /\ \A u \in told.gone : Stored(u) /\ user[u].deleted

(* The user whom a step answers changes no row but his own, and of that only *)
(* the password, unless his row makes him a manager; he adds input in his    *)
(* own name only, and only if his row lets him.  The code asks the level     *)
(* that it read at the login.                                                *)
By == conn[reply'.to].user
OwnRowsOnly ==
    [][/\ \A u \in User : user'[u] # user[u] =>
            \/ user[By].level >= MANAGER
            \/ u = By /\ user'[u] = [user[u] EXCEPT !.pass = user'[u].pass]
       /\ \A u \in User : added'[u] # added[u] => u = By /\ user[u].level >= WRITE]_vars

(* LIST-SLAVES, LIST-CLIENTS and CLIENT-INFO, two of which are answered from *)
(* text made earlier, tell the same of every slave, except that there are no *)
(* clients to list before its first STATUS.                                  *)
AnswersAgree ==
    /\ Len(list) = Len(slaves)
    /\ \A i \in DOMAIN slaves :
         /\ list[i].id = slaves[i].id /\ list[i].ready = slaves[i].ready
         /\ slaves[i].xml = IF slaves[i].xml = NoXml THEN NoXml ELSE slaves[i].clients
         /\ list[i].num_clients = IF slaves[i].xml = NoXml THEN 0 ELSE Cardinality(slaves[i].xml)
=============================================================================
