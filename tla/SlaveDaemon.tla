----------------------------- MODULE SlaveDaemon -----------------------------
(***************************************************************************)
(* mn-slaved: its connection to the master (main.c, master.c, hook.c), the *)
(* tokens it makes, and the threads that let clients in (client.c).  What  *)
(* a client does once it is in, is in ClientCrawl.                       *)
(***************************************************************************)
EXTENDS Nodes, FiniteSetsExt, Functions

CONSTANTS
    Addr,          \* the address a client connects from
    MaxPending,    \* MAX_NUM_PENDING
    MaxTokens      \* bound: tokens a slave makes

ASSUME AddrAssumption == DOMAIN Addr = Client /\ MaxPending \in Nat /\ MaxTokens \in Nat

VARIABLES
    slave,      \* srv of each mn-slaved
    thread      \* the thread that serves a connection

slaveVars == <<slave, thread>>

(* A token is the hash of random values and the address of a client.         *)
Token == [at : Slave, no : 1..MaxTokens, who : Client]
NoToken == [at |-> Nobody]

NoThread == [pc |-> "none", at |-> Nobody, token |-> NoToken, killed |-> FALSE]
Idle(c)  == thread[c] = NoThread

(* mn-slaved is started: what the process begins with.                       *)
Process == [pc |-> "down", started |-> FALSE, link |-> NoConn, io |-> NoConn, nolp |-> "CMD",
            want |-> "none", ready |-> FALSE, config |-> "none", hook |-> "none",
            pending |-> <<>>, clients |-> {}, status |-> FALSE, conn |-> NoConn, x |-> 0,
            made |-> 0, dials |-> 0]

SlaveInit == slave = [s \in Slave |-> Process] /\ thread = [c \in Conn |-> NoThread]

(* A number for a new connection: one no thread has.                         *)
FreeConns == {c \in Conn : net[c] = Unused /\ Idle(c)}

Main(s, at) == slave[s].pc = at

-----------------------------------------------------------------------------
(* nol_s_master_connect() and nol_s_master_login(), up to the answer; in     *)
(* slave_init_cb(), then from the timer.  The parser is not reset.           *)
Connect(s) ==
    /\ slave[s].link = NoConn /\ slave[s].dials < MaxDials[s] /\ FreeConns # {}
    /\ LET c == Min(FreeConns)
       IN /\ net' = Sent(Dialled(net, c, s, Master), c, "dialler", <<Msg("AUTH", s)>>)
          /\ slave' = [slave EXCEPT ![s].pc = "login", ![s].link = c, ![s].dials = @ + 1]
    /\ UNCHANGED thread

Start(s)     == Main(s, "down") /\ Connect(s)
Reconnect(s) == Main(s, "loop") /\ Connect(s)

(* The process ends, with all its threads.                                   *)
GoneSlave(s, how) ==
    /\ net' = ShutAll(net, s)
    /\ slave' = [slave EXCEPT ![s] =
                   [Process EXCEPT !.pc = how, !.made = slave[s].made, !.dials = slave[s].dials]]
    /\ thread' = [c \in Conn |-> IF thread[c].at = s THEN NoThread ELSE thread[c]]

(* The answer to the login: the main thread waits for nothing else.          *)
LoggedOn(s) ==
    LET c == slave[s].link
    IN /\ Main(s, "login") /\ Waiting(c, "dialler") /\ First(c, "dialler").kind = "100"
       /\ net' = Taken(net, c, "dialler")
       /\ slave' = [slave EXCEPT ![s].pc = "loop", ![s].started = TRUE, ![s].io = c]
       /\ UNCHANGED thread

NotLoggedOn(s) ==
    LET c == slave[s].link
    IN /\ Main(s, "login")
       /\ Ended(c, "dialler") \/ (Waiting(c, "dialler") /\ First(c, "dialler").kind # "100")
       /\ IF slave[s].started
          THEN /\ net' = Shut(net, c, "dialler")
               /\ slave' = [slave EXCEPT ![s].pc = "loop", ![s].link = NoConn]
               /\ UNCHANGED thread
          ELSE GoneSlave(s, "down")

-----------------------------------------------------------------------------
(* nol_s_ev_master() and the commands of the master.                         *)
MasterSays(s, state) ==
    Main(s, "loop") /\ slave[s].link # NoConn /\ Waiting(slave[s].link, "dialler")
      /\ slave[s].nolp = state

Saying(s) == First(slave[s].link, "dialler")
Answered(s, messages) ==
    net' = Sent(Taken(net, slave[s].link, "dialler"), slave[s].link, "dialler", messages)

(* Command CONFIG or HOOK: so many bytes follow.                             *)
Expect(s) ==
    /\ MasterSays(s, "CMD") /\ Saying(s).kind \in {"CONFIG", "HOOK"}
    /\ Answered(s, <<>>)
    /\ slave' = [slave EXCEPT ![s].nolp = "EXPECT", ![s].want = Saying(s).kind]
    /\ UNCHANGED thread

(* on_config_recv(), nol_s_set_ready(); on_hook_recv().  If the bytes of a   *)
(* connection that was lost are still expected, those of the next one are    *)
(* taken for them, and what is left of these is not a command.               *)
Whole(s) == Saying(s).kind \in {"config", "hook"}
Read(s)  == IF Whole(s) THEN "whole" ELSE "mixed"

Receive(s) ==
    /\ MasterSays(s, "EXPECT")
    /\ LET r == [slave[s] EXCEPT !.nolp = IF Whole(s) THEN "CMD" ELSE "LOST"]
       IN IF r.want = "CONFIG"
          THEN /\ Answered(s, <<Line("INFO")>>)
               /\ slave' = [slave EXCEPT ![s] = [r EXCEPT !.config = Read(s), !.ready = TRUE]]
          ELSE /\ Answered(s, <<>>)
               /\ slave' = [slave EXCEPT ![s] = [r EXCEPT !.hook = Read(s)]]
    /\ UNCHANGED thread

(* on_client(): a token for a client of the master, unless too many wait.    *)
NewToken(s) == [at |-> s, no |-> slave[s].made + 1, who |-> Saying(s).arg]

Full(s) == Len(slave[s].pending) >= MaxPending

MakeToken(s) ==
    /\ MasterSays(s, "CMD") /\ Saying(s).kind = "CLIENT"
    /\ slave[s].ready /\ ~Full(s) /\ slave[s].made < MaxTokens
    /\ Answered(s, <<Msg("token", NewToken(s))>>)
    /\ slave' = [slave EXCEPT ![s].pending = Append(@, NewToken(s)), ![s].made = @ + 1]
    /\ UNCHANGED thread

(* Mutant of Refusal: nothing is said.                                       *)
NoRefusal == <<>>

Refusal == <<Line("400")>>

RefuseToken(s) ==
    /\ MasterSays(s, "CMD") /\ Saying(s).kind = "CLIENT"
    /\ ~slave[s].ready \/ Full(s)
    /\ Answered(s, Refusal)
    /\ UNCHANGED slaveVars

(* nol_s_client_create() fails: so does the callback, and the bytes of the   *)
(* command stay in the buffer.                                               *)
NoTokenMade(s) ==
    /\ MasterSays(s, "CMD") /\ Saying(s).kind = "CLIENT" /\ slave[s].ready
    /\ Fault("db")
    /\ net' = Shut(net, slave[s].link, "dialler")
    /\ slave' = [slave EXCEPT ![s].link = NoConn, ![s].io = NoConn, ![s].nolp = "LOST"]
    /\ UNCHANGED thread

(* on_kill_all(): a message for every listed client's thread.                *)
OnKillAll(s) ==
    /\ MasterSays(s, "CMD") /\ Saying(s).kind = "KILL-ALL"
    /\ Answered(s, <<>>)
    /\ thread' = [c \in Conn |-> IF c \in slave[s].clients
                                 THEN [thread[c] EXCEPT !.killed = TRUE] ELSE thread[c]]
    /\ UNCHANGED slave

(* The connection to the master is lost.  io keeps the number of the closed  *)
(* socket, which the next connection may get.                                *)
LinkLost(s) ==
    /\ Main(s, "loop") /\ slave[s].link # NoConn
    /\ Ended(slave[s].link, "dialler") \/ MasterSays(s, "LOST")
    /\ net' = Shut(net, slave[s].link, "dialler")
    /\ slave' = [slave EXCEPT ![s].link = NoConn, ![s].io = NoConn]
    /\ UNCHANGED thread

(* nol_s_ev_client_status(): the list of clients, to whatever io is now.     *)
Tokens(s) == {thread[c].token : c \in slave[s].clients}

Report(s) ==
    LET list == IF Tokens(s) = {} THEN <<>> ELSE <<Msg("list", Tokens(s))>>
        end  == IF slave[s].io = slave[s].link THEN "dialler" ELSE "server"
    IN /\ Main(s, "loop") /\ slave[s].status
       /\ net' = IF slave[s].io = NoConn THEN net
                 ELSE Sent(net, slave[s].io, end,
                           <<Msg("STATUS", Cardinality(Tokens(s)))>> \o list)
       /\ slave' = [slave EXCEPT ![s].status = FALSE]
       /\ UNCHANGED thread

-----------------------------------------------------------------------------
(* nol_s_ev_conn_accept(): before its thread is made, a client's address is  *)
(* looked for among those pending, without the lock.                         *)
Incoming(s, c) == net[c].to = s /\ "server" \in net[c].open /\ Idle(c)

(* While the master is away the new socket may get the number that io holds. *)
Reused(s, c) == {slave[s].io} \cup (IF slave[s].io = NoConn THEN {c} ELSE {})

AcceptClient(s) ==
    /\ Main(s, "loop")
    /\ \E c \in Conn :
         /\ Incoming(s, c)
         /\ IF slave[s].pending = <<>>
            THEN /\ net' = Shut(Sent(net, c, "server", IF slave[s].ready THEN <<Line("200")>> ELSE <<>>),
                                c, "server")
                 /\ UNCHANGED slaveVars
            ELSE /\ \E io \in Reused(s, c) :
                      slave' = [slave EXCEPT ![s].pc = "accept", ![s].conn = c, ![s].x = 1, ![s].io = io]
                 /\ UNCHANGED <<net, thread>>

Launch(s) ==
    /\ thread' = [thread EXCEPT ![slave[s].conn] = [NoThread EXCEPT !.pc = "auth", !.at = s]]
    /\ slave' = [slave EXCEPT ![s].pc = "loop", ![s].conn = NoConn, ![s].x = 0]
    /\ UNCHANGED net

Pending(s)  == slave[s].pending
Matches(s)  == Addr[Pending(s)[slave[s].x].who] = Addr[net[slave[s].conn].from]

AcceptNext(s) ==
    LET x == slave[s].x
        n == Len(Pending(s))
    IN /\ Main(s, "accept")
       /\ \/ /\ x \in 1..n /\ Matches(s)
             /\ Launch(s)
          \/ /\ x \in 1..n /\ ~Matches(s)
             /\ slave' = [slave EXCEPT ![s].x = @ + 1]
             /\ UNCHANGED <<net, thread>>
          \/ /\ x = n + 1
             /\ net' = Shut(Sent(net, slave[s].conn, "server", <<Line("200")>>), slave[s].conn, "server")
             /\ slave' = [slave EXCEPT ![s].pc = "loop", ![s].conn = NoConn, ![s].x = 0,
                                       ![s].io = IF @ = slave[s].conn THEN NoConn ELSE @]
             /\ UNCHANGED thread

(* A thread took an entry meanwhile and the end of the list was passed: old  *)
(* entries and what lies behind them are looked at.                          *)
AcceptBeyond(s) ==
    /\ Main(s, "accept") /\ slave[s].x > Len(Pending(s)) + 1
    /\ Launch(s) \/ GoneSlave(s, "crashed")

-----------------------------------------------------------------------------
(* nol_s_client_init(): the thread of a connection reads its token ...       *)
Thread(c, at) == thread[c].pc = at

Without(list, t) ==
    LET x == CHOOSE i \in DOMAIN list : list[i] = t
        n == Len(list)
    IN SubSeq([list EXCEPT ![x] = list[n]], 1, n - 1)

(* Mutant of TakenOut: the token stays among those pending.                 *)
StillPending(list, t) == list

TakenOut(list, t) == Without(list, t)

CloseThread(c) ==
    /\ net' = Shut(net, c, "server")
    /\ slave' = [slave EXCEPT ![thread[c].at].io = IF @ = c THEN NoConn ELSE @]

Authorize(c) ==
    LET s == thread[c].at
        t == First(c, "server").arg
    IN /\ Thread(c, "auth") /\ Waiting(c, "server")
       /\ IF t \in Range(Pending(s))
          THEN /\ slave' = [slave EXCEPT ![s].pending = TakenOut(@, t)]
               /\ thread' = [thread EXCEPT ![c].pc = "enter", ![c].token = t]
               /\ net' = Taken(net, c, "server")
          ELSE /\ net' = Shut(Sent(net, c, "server", <<Line("200")>>), c, "server")
               /\ slave' = [slave EXCEPT ![s].io = IF @ = c THEN NoConn ELSE @]
               /\ thread' = [thread EXCEPT ![c] = NoThread]

(* ... or is left,                                                           *)
NoAuth(c) ==
    /\ Thread(c, "auth") /\ Ended(c, "server")
    /\ CloseThread(c)
    /\ thread' = [thread EXCEPT ![c] = NoThread]

(* nol_s_client_main(): the client is listed and gets the configuration,     *)
Enter(c) ==
    LET s == thread[c].at
    IN /\ Thread(c, "enter")
       /\ slave' = [slave EXCEPT ![s].clients = @ \cup {c}, ![s].status = TRUE]
       /\ thread' = [thread EXCEPT ![c].pc = "main"]
       /\ net' = Sent(net, c, "server", <<Line("100"), Line("CONFIG"), Msg("settings", slave[s].config)>>)

(* or not, if there is no connection to the data base for its thread.        *)
CannotEnter(c) ==
    /\ Thread(c, "enter") /\ Fault("db")
    /\ CloseThread(c)
    /\ thread' = [thread EXCEPT ![c].pc = "leave"]

(* The event loop ends: the client is gone, or was killed.                   *)
EndLoop(c) ==
    /\ Thread(c, "main") /\ (Ended(c, "server") \/ thread[c].killed)
    /\ CloseThread(c)
    /\ thread' = [thread EXCEPT ![c].pc = "leave"]

(* Mutant of Unlist: the main thread is not told.                            *)
UnlistOnly(s, c) == [slave EXCEPT ![s].clients = @ \ {c}]

(* The client is taken from the list, and the master is to be told.          *)
Unlist(s, c) == [slave EXCEPT ![s].clients = @ \ {c}, ![s].status = TRUE]

LeaveList(c) ==
    /\ Thread(c, "leave")
    /\ slave' = Unlist(thread[c].at, c)
    /\ thread' = [thread EXCEPT ![c] = NoThread]
    /\ UNCHANGED net

-----------------------------------------------------------------------------
SlaveStop(s) ==
    /\ slave[s].pc \notin {"down", "crashed"}
    /\ GoneSlave(s, "down")

Restart(s) ==
    /\ Main(s, "crashed")
    /\ slave' = [slave EXCEPT ![s].pc = "down"]
    /\ UNCHANGED <<net, thread>>

MainThread(s) ==
    \/ LoggedOn(s) \/ NotLoggedOn(s)
    \/ Expect(s) \/ Receive(s) \/ MakeToken(s) \/ RefuseToken(s) \/ OnKillAll(s) \/ LinkLost(s)
    \/ Report(s) \/ AcceptClient(s) \/ AcceptNext(s) \/ AcceptBeyond(s)

ClientThread(c) ==
    Authorize(c) \/ NoAuth(c) \/ Enter(c) \/ EndLoop(c) \/ LeaveList(c)
=============================================================================
