---------------------------- MODULE MasterDaemon -----------------------------
(***************************************************************************)
(* mn-masterd: it accepts connections and lets clients and slaves log in   *)
(* (auth.c), keeps the list of slaves (slave-conn.c) and has a slave make  *)
(* a token for each client.  One thread, one event loop (main.c).  User    *)
(* connections are in UserCommands.                                        *)
(***************************************************************************)
EXTENDS Nodes, FiniteSetsExt

CONSTANT Configs   \* configuration files: the logins declared, whether there is a hook script

ASSUME ConfigAssumption ==
    Configs \subseteq [known : SUBSET (Slave \cup Client), hook : BOOLEAN]

VARIABLE master   \* srv of mn-masterd

Absent == [auth |-> "absent", user |-> Nobody, slave_n |-> 0, nolp |-> "CMD"]

-----------------------------------------------------------------------------
(* Handlers map a state w of master and connections to the next one.         *)
World == [m |-> master, n |-> net]
Becomes(w) == master' = w.m /\ net' = w.n

(* The process ends: on a signal, or because it went wrong.                  *)
Stopped(w, how) ==
    [m |-> [up |-> how, config |-> w.m.config,
            pool |-> [c \in Conn |-> Absent], slaves |-> <<>>, list |-> <<>>],
     n |-> ShutAll(w.n, Master)]

Tell(w, c, messages) == [w EXCEPT !.n = Sent(@, c, "server", messages)]

(* nol_m_create_slave_list_xml(): what LIST-SLAVES shows.                    *)
Listed(s) == [user |-> s.name, num_clients |-> Cardinality(s.clients), ready |-> s.ready]

(* Mutant of Refreshed: the list is made anew only while there are slaves.   *)
RefreshedIfAny(w) ==
    IF w.m.slaves = <<>> THEN w
    ELSE [w EXCEPT !.m.list = [i \in DOMAIN w.m.slaves |-> Listed(w.m.slaves[i])]]

Refreshed(w) == [w EXCEPT !.m.list = [i \in DOMAIN w.m.slaves |-> Listed(w.m.slaves[i])]]

-----------------------------------------------------------------------------
(* nol_m_conn_close().                                                       *)
Released(w, c) ==
    [w EXCEPT !.m.pool[c] = Absent, !.n = Shut(@, c, "server")]

(* Mutant of ClientClosed: the slave's record keeps the connection.          *)
ClientClosedOnly(w, c) == Released(w, c)

ClientClosed(w, c) ==
    Released([w EXCEPT !.m.slaves = [i \in DOMAIN @ |->
                IF @[i].client_conn = c THEN [@[i] EXCEPT !.client_conn = NoConn] ELSE @[i]]], c)

(* A slave that is not the top-most of the list gets a record from beyond    *)
(* the list, whose connection is then written to: the process dies.          *)
SlaveClosed(w, c, i) ==
    IF i # Len(w.m.slaves) THEN Stopped(w, "crashed")
    ELSE Released(Refreshed([w EXCEPT !.m.slaves = SubSeq(@, 1, i - 1)]), c)

ConnClose(w, c) ==
    CASE w.m.pool[c].auth = "client" -> ClientClosed(w, c)
      [] w.m.pool[c].auth = "slave"  -> SlaveClosed(w, c, w.m.pool[c].slave_n)
      [] OTHER                       -> Released(w, c)

-----------------------------------------------------------------------------
(* nol_m_ev_conn_accept().                                                   *)
Accept(c) ==
    /\ master.up = "up"
    /\ net[c].to = Master /\ "server" \in net[c].open /\ master.pool[c] = Absent
    /\ master' = [master EXCEPT !.pool[c].auth = "none"]
    /\ UNCHANGED net

Free(w) == {i \in DOMAIN w.m.slaves : w.m.slaves[i].ready /\ w.m.slaves[i].client_conn = NoConn}

Load(w, i) == Cardinality(w.m.slaves[i].clients)

(* upgrade_conn(), a client: the first of the slaves with the least clients  *)
(* is asked for a token; the next line of it is the answer.                  *)
GiveToSlave(w, c) ==
    IF Free(w) = {} THEN ConnClose(w, c)
    ELSE LET least == Min({Load(w, i) : i \in Free(w)})
             i == Min({j \in Free(w) : Load(w, j) = least})
             s == w.m.slaves[i].conn
         IN Tell([w EXCEPT !.m.slaves[i].client_conn = c, !.m.pool[s].nolp = "LINE"],
                 s, <<Msg("CLIENT", w.m.pool[c].user)>>)

(* upgrade_conn(), a slave: nol_m_create_slave_conn() makes the record, in   *)
(* memory where ready holds anything, and it is sent what it needs.          *)
Settings ==
    <<Line("CONFIG"), Line("config")>>
      \o (IF master.config.hook THEN <<Line("HOOK"), Line("hook")>> ELSE <<>>)

(* Mutant of NewIndex: that of the slave before.                             *)
IndexBefore(w) == Len(w.m.slaves)

NewIndex(w) == Len(w.m.slaves) + 1

TakeSlave(w, c, ready) ==
    LET record == [name |-> w.m.pool[c].user, conn |-> c, clients |-> {}, client_conn |-> NoConn,
                   ready |-> ready]
        v == [w EXCEPT !.m.slaves = Append(@, record),
                       !.m.pool[c].slave_n = NewIndex(w)]
    IN Refreshed(Tell(v, c, Settings))

(* The INSERT fails: the connection is closed as that of a slave, with       *)
(* whatever its slave_n holds.                                               *)
NoRecord(w, c, i) ==
    IF i \in DOMAIN w.m.slaves THEN SlaveClosed(w, c, i) ELSE Stopped(w, "crashed")

Kind(node) == IF node \in Slave THEN "slave" ELSE "client"

LoggedIn(c) ==
    Tell([World EXCEPT !.m.pool[c].auth = Kind(First(c, "server").arg),
                       !.m.pool[c].user = First(c, "server").arg,
                       !.n = Taken(@, c, "server")],
         c, <<Line("100")>>)

(* conn_read(): the first line of a connection is its login; a client has no *)
(* second one.                                                               *)
Reads(c, auth) == master.up = "up" /\ master.pool[c].auth = auth /\ Waiting(c, "server")
Login(c)       == Reads(c, "none") /\ First(c, "server").arg \in master.config.known

ClientLogin(c) ==
    /\ Login(c) /\ First(c, "server").arg \in Client
    /\ Becomes(GiveToSlave(LoggedIn(c), c))

SlaveLogin(c) ==
    /\ Login(c) /\ First(c, "server").arg \in Slave
    /\ \E ready \in BOOLEAN : Becomes(TakeSlave(LoggedIn(c), c, ready))

SlaveNotStored(c) ==
    /\ Fault("db")
    /\ Login(c) /\ First(c, "server").arg \in Slave
    /\ \E i \in 0..Len(master.slaves) : Becomes(NoRecord(LoggedIn(c), c, i))

Deny(c) ==
    /\ Reads(c, "none") /\ First(c, "server").arg \notin master.config.known
    /\ Becomes(ConnClose(Tell(World, c, <<Line("200")>>), c))

ClientTalks(c) ==
    /\ Reads(c, "client")
    /\ Becomes(ConnClose(World, c))

(* recv() tells of the end of a connection, whatever its login.              *)
Leave(c) ==
    /\ master.up = "up" /\ master.pool[c].auth # "absent" /\ Ended(c, "server")
    /\ Becomes(ConnClose(World, c))

-----------------------------------------------------------------------------
(* slave_read(): nolp_recv() and the commands of a slave.                    *)
SlaveSays(c, state) ==
    Reads(c, "slave") /\ master.pool[c].nolp = state /\ master.pool[c].slave_n \in DOMAIN master.slaves

(* The record of the slave was dropped: what lies behind the list is used.   *)
SlaveWithoutRecord(c) ==
    /\ Reads(c, "slave") /\ master.pool[c].slave_n \notin DOMAIN master.slaves
    /\ Becomes(Stopped(World, "crashed"))

Parsed(c, state) ==
    [World EXCEPT !.n = Taken(@, c, "server"), !.m.pool[c].nolp = state]

(* sl_info_command().                                                        *)
Info(c) ==
    /\ SlaveSays(c, "CMD") /\ First(c, "server").kind = "INFO"
    /\ Becomes(Refreshed([Parsed(c, "CMD") EXCEPT !.m.slaves[master.pool[c].slave_n].ready = TRUE]))

(* Mutant of StatusParsed: what was there is kept.                           *)
StatusAdded(w, c, tokens) ==
    Refreshed([w EXCEPT !.m.slaves[w.m.pool[c].slave_n].clients = @ \cup tokens])

(* sl_status_parse(): the clients of a slave are replaced.                   *)
StatusParsed(w, c, tokens) ==
    Refreshed([w EXCEPT !.m.slaves[w.m.pool[c].slave_n].clients = tokens])

(* sl_status_command(): the list follows, unless it is empty.                *)
Status(c) ==
    /\ SlaveSays(c, "CMD") /\ First(c, "server").kind = "STATUS"
    /\ Becomes(IF First(c, "server").arg = 0
               THEN StatusParsed(Parsed(c, "CMD"), c, {})
               ELSE Parsed(c, "EXPECT"))

StatusList(c) ==
    /\ SlaveSays(c, "EXPECT")
    /\ Becomes(StatusParsed(Parsed(c, "CMD"), c, First(c, "server").arg))

(* nol_m_token_reply() gets the next line, whatever it is: of a list it is   *)
(* the first entry, and the rest of the list is left.                        *)
ReplyTaken(c) ==
    LET rest == IF First(c, "server").kind = "list" THEN Cardinality(First(c, "server").arg) - 1 ELSE 0
        v == Parsed(c, "CMD")
    IN IF rest = 0 THEN v ELSE [v EXCEPT !.n[c].queue["server"] = <<Line("entry")>> \o @]

TokenReply(c) ==
    /\ SlaveSays(c, "LINE")
    /\ LET client == master.slaves[master.pool[c].slave_n].client_conn
           reply  == First(c, "server")
           v      == ReplyTaken(c)
       IN Becomes(IF client = NoConn THEN v
                  ELSE IF reply.kind = "token"
                       THEN ConnClose(Tell(v, client, <<Msg("TOKEN", reply.arg)>>), client)
                       ELSE ConnClose(v, client))

UnknownFromSlave(c) ==
    /\ SlaveSays(c, "CMD") /\ First(c, "server").kind \notin {"INFO", "STATUS"}
    /\ Becomes(ConnClose(World, c))

-----------------------------------------------------------------------------
(* KILL-ALL of a user, for one slave.                                        *)
KillAll(i) ==
    /\ master.up = "up"
    /\ Becomes(Tell(World, master.slaves[i].conn, <<Line("KILL-ALL")>>))

(* SIGINT, SIGTERM or a crash; and main() of the next process.               *)
MasterStop ==
    /\ master.up = "up"
    /\ Becomes(Stopped(World, "stopped"))

MasterInit ==
    \E config \in Configs :
      /\ config.known = Slave \cup Client /\ ~config.hook
      /\ master = [up |-> "up", config |-> config,
                   pool |-> [c \in Conn |-> Absent], slaves |-> <<>>, list |-> <<>>]

(* The configuration may have been edited meanwhile.                         *)
MasterStart ==
    /\ master.up # "up"
    /\ \E config \in Configs : master' = [master EXCEPT !.up = "up", !.config = config]
    /\ UNCHANGED net

MasterReads ==
    \E c \in Conn :
      \/ Accept(c) \/ ClientLogin(c) \/ SlaveLogin(c) \/ Deny(c)
      \/ ClientTalks(c) \/ Leave(c)
      \/ Info(c) \/ Status(c) \/ StatusList(c) \/ TokenReply(c) \/ UnknownFromSlave(c)
      \/ SlaveWithoutRecord(c)
=============================================================================
