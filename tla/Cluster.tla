------------------------------- MODULE Cluster -------------------------------
(***************************************************************************)
(* A Methanol cluster: one mn-masterd, the mn-slaved and mb-client         *)
(* processes around it, the connections between them.  Processes may end   *)
(* and be started again at any time.                                       *)
(***************************************************************************)
EXTENDS MasterDaemon, SlaveDaemon, ClientDaemon

CONSTANT MaxAgain   \* bound: how many nodes connect to the master more than once

ASSUME AgainAssumption == MaxAgain \in Nat

vars == <<net, faults, master, slave, thread, client>>

Init ==
    /\ net = [c \in Conn |-> Unused]
    /\ faults = {}
    /\ MasterInit /\ SlaveInit /\ ClientInit

MasterStep(A) == A /\ UNCHANGED <<slave, thread, client>>
SlaveStep(A)  == A /\ UNCHANGED <<master, client>>
ClientStep(A) == A /\ UNCHANGED <<master, slaveVars>>
Normal(A)     == A /\ UNCHANGED faults

-----------------------------------------------------------------------------
(* Connecting takes a process that listens at the other side.                *)
SlavesUp == {s \in Slave : slave[s].started}

DialledAgain == {s \in Slave : slave[s].dials > 1} \cup {c \in Client : client[c].dials > 1}
MayDial(n, dials) == dials = 0 \/ n \in DialledAgain \/ Cardinality(DialledAgain) < MaxAgain

SlaveDials(s) ==
    /\ master.up = "up" /\ MayDial(s, slave[s].dials)
    /\ Start(s) \/ Reconnect(s)
ClientDials(c) ==
    /\ master.up = "up" /\ MayDial(c, client[c].dials)
    /\ ConnectMaster(c, FreeConns)

ClientReads(c) ==
    \/ LoginOK(c) \/ TakeToken(c, SlavesUp, FreeConns) \/ NoSlave(c, SlavesUp) \/ MasterFails(c)
    \/ SlaveAnswer(c) \/ OnConfig(c) \/ OnConfigRecv(c) \/ SlaveLost(c)

MasterRuns    == Normal(MasterStep(MasterReads))
SlaveRuns(s)  == Normal(SlaveStep(SlaveDials(s) \/ MainThread(s)))
ThreadRuns(c) == Normal(SlaveStep(ClientThread(c)))
ClientRuns(c) == Normal(ClientStep(ClientDials(c) \/ ClientReads(c)))

(* The data base refuses a statement.                                        *)
DbFails ==
    \/ MasterStep(\E c \in Conn : SlaveNotStored(c))
    \/ SlaveStep(\E s \in Slave : NoTokenMade(s))
    \/ SlaveStep(\E c \in Conn : CannotEnter(c))

(* A process ends, and is started again; a user sends KILL-ALL.              *)
Stop ==
    /\ Fault("stop")
    /\ \/ MasterStep(MasterStop)
       \/ SlaveStep(\E s \in Slave : SlaveStop(s))
       \/ ClientStep(\E c \in Client : ClientStop(c))

Again ==
    Normal(MasterStep(MasterStart) \/ SlaveStep(\E s \in Slave : Restart(s)))

Kill ==
    /\ Fault("kill")
    /\ MasterStep(\E i \in DOMAIN master.slaves : KillAll(i))

Next ==
    \/ MasterRuns
    \/ \E s \in Slave : SlaveRuns(s)
    \/ \E c \in Conn : ThreadRuns(c)
    \/ \E c \in Client : ClientRuns(c)
    \/ DbFails \/ Stop \/ Again \/ Kill

Spec == Init /\ [][Next]_vars

-----------------------------------------------------------------------------
(* conn->slave_n: the list of slaves and the connections of slaves point to  *)
(* each other, as long as the data base stores every slave that logs in.     *)
SlaveIndex ==
    "db" \notin faults =>
      /\ \A i \in DOMAIN master.slaves :
           LET p == master.pool[master.slaves[i].conn]
           IN p.auth = "slave" /\ p.slave_n = i
      /\ \A c \in Conn : master.pool[c].auth = "slave" =>
           master.pool[c].slave_n \in DOMAIN master.slaves
             /\ master.slaves[master.pool[c].slave_n].conn = c

(* A slave that is asked for a token is asked for a client that is still     *)
(* connected, one per slave, and will answer with the next line.             *)
AskedForOne ==
    "db" \notin faults =>
      \A i \in DOMAIN master.slaves :
        LET s == master.slaves[i]
        IN s.client_conn # NoConn =>
             /\ master.pool[s.client_conn].auth = "client"
             /\ master.pool[s.conn].nolp = "LINE"
             /\ \A j \in DOMAIN master.slaves \ {i} : master.slaves[j].client_conn # s.client_conn

(* The list that users get is that of the slaves as they are now.            *)
ListFresh ==
    master.list = [i \in DOMAIN master.slaves |-> Listed(master.slaves[i])]

(* When a slave that never lost its master has told it everything, the       *)
(* master counts the clients that are there.                                 *)
Quiet(s) ==
    LET c == slave[s].link
    IN /\ Main(s, "loop") /\ c # NoConn /\ ~slave[s].status /\ slave[s].dials = 1
       /\ net[c].open = End /\ net[c].queue = [e \in End |-> <<>>]
       /\ \A d \in Conn : thread[d].at = s => ~Thread(d, "leave")

StatusSettles ==
    \A s \in Slave : \A i \in DOMAIN master.slaves :
      Quiet(s) /\ master.slaves[i].conn = slave[s].link
        /\ master.pool[slave[s].link].nolp = "CMD" =>
          master.slaves[i].clients = Tokens(s)

(* A token is made once, and lets one client in once.                        *)
Abstract ==
    INSTANCE Admission WITH
      made    <- [s \in Slave |-> slave[s].made],
      pending <- UNION {Range(slave[s].pending) : s \in Slave},
      inside  <- [c \in Conn |-> thread[c].token]
Admissions == Abstract!Spec

(* A client that waits for a token does not wait for nothing: its slave has  *)
(* still to be asked, or something has still to come in from it.             *)
AnswerComing ==
    "db" \notin faults =>
      \A i \in DOMAIN master.slaves :
        LET c == master.slaves[i].conn
        IN master.slaves[i].client_conn # NoConn =>
             \/ net[c].open # End \/ net[c].queue["server"] # <<>>
             \/ slave[master.slaves[i].name].nolp = "LOST"
             \/ \E n \in DOMAIN net[c].queue["dialler"] : net[c].queue["dialler"][n].kind = "CLIENT"

(* The master gives a client the token it asked for, and not one it had made *)
(* for another.                                                              *)
TokenForItsClient ==
    \A c \in Conn : \A n \in DOMAIN net[c].queue["dialler"] :
      LET m == net[c].queue["dialler"][n]
      IN m.kind = "TOKEN" => m.arg.who = net[c].from
=============================================================================
