---------------------------- MODULE ClientDaemon -----------------------------
(***************************************************************************)
(* mb-client until it is connected to a slave (main.c): it logs in to the  *)
(* master, waits for a token and takes it to the slave that made it.  What *)
(* it then does is in ClientCrawl.                                         *)
(***************************************************************************)
EXTENDS Nodes, FiniteSetsExt

VARIABLE client   \* mbc of each client

(* rest: bytes of a lost connection are still in the buffer of mbc.no.       *)
ClientInit ==
    client = [c \in Client |-> [state |-> "DISCONNECTED", sock |-> NoConn, peer |-> "none",
                                nolp |-> "CMD", rest |-> FALSE, dials |-> 0]]

Sock(c)    == client[c].sock
Hears(c, peer) ==
    client[c].peer = peer /\ Waiting(Sock(c), "dialler")
Heard(c)   == First(Sock(c), "dialler")
Consumed(c) == net' = Taken(net, Sock(c), "dialler")

(* mbc_set_active(MBC_NONE): the timer will connect to the master again.     *)
Inactive(r) == [r EXCEPT !.state = "DISCONNECTED", !.sock = NoConn, !.peer = "none"]

Fail(c, r) ==
    /\ net' = Shut(net, Sock(c), "dialler")
    /\ client' = [client EXCEPT ![c] = Inactive(r)]

(* mbc_ev_timer(): mbc_master_connect(), mbc_master_send_login().            *)
ConnectMaster(c, free) ==
    /\ client[c].state = "DISCONNECTED" /\ client[c].dials < MaxDials[c] /\ free # {}
    /\ LET n == Min(free)
       IN /\ net' = Sent(Dialled(net, n, c, Master), n, "dialler", <<Msg("AUTH", c)>>)
          /\ client' = [client EXCEPT ![c].state = "WAIT_LOGIN", ![c].sock = n, ![c].peer = "master",
                                      ![c].dials = @ + 1]

(* mbc_ev_master(): the answer to the login; a token; anything else.         *)
LoginOK(c) ==
    /\ Hears(c, "master") /\ client[c].state = "WAIT_LOGIN" /\ Heard(c).kind = "100"
    /\ Consumed(c)
    /\ client' = [client EXCEPT ![c].state = "WAIT_TOKEN"]

(* mbc_slave_connect() and mbc_set_active(MBC_SLAVE).                        *)
HasToken(c) == Hears(c, "master") /\ client[c].state = "WAIT_TOKEN" /\ Heard(c).kind = "TOKEN"

TakeToken(c, up, free) ==
    /\ HasToken(c) /\ Heard(c).arg.at \in up /\ free # {}
    /\ LET n == Min(free)
           t == Heard(c).arg
       IN /\ net' = Sent(Dialled(Shut(net, Sock(c), "dialler"), n, c, t.at),
                         n, "dialler", <<Msg("AUTH", t)>>)
          /\ client' = [client EXCEPT ![c].sock = n, ![c].peer = "slave", ![c].nolp = "LINE"]

NoSlave(c, up) ==
    /\ HasToken(c) /\ Heard(c).arg.at \notin up
    /\ Fail(c, client[c])

MasterFails(c) ==
    /\ client[c].peer = "master"
    /\ \/ Ended(Sock(c), "dialler")
       \/ Hears(c, "master") /\ client[c].state = "WAIT_LOGIN" /\ Heard(c).kind # "100"
    /\ Fail(c, client[c])

(* mbc_ev_slave(): the first line is the answer to the token; what is left   *)
(* in the buffer comes before it.  A refusal is passed over: the slave will  *)
(* close the connection.                                                     *)
SlaveAnswer(c) ==
    /\ Hears(c, "slave") /\ client[c].nolp = "LINE"
    /\ Consumed(c)
    /\ client' = [client EXCEPT ![c].nolp = "CMD", ![c].rest = FALSE,
                    ![c].state = IF Heard(c).kind = "100" /\ ~client[c].rest THEN "STOPPED" ELSE @]

OnConfig(c) ==
    /\ Hears(c, "slave") /\ client[c].nolp = "CMD" /\ Heard(c).kind = "CONFIG"
    /\ Consumed(c)
    /\ client' = [client EXCEPT ![c].nolp = "EXPECT"]

(* A configuration that cannot be read is an error of the callback.          *)
OnConfigRecv(c) ==
    /\ Hears(c, "slave") /\ client[c].nolp = "EXPECT"
    /\ IF Heard(c).arg = "whole"
       THEN Consumed(c) /\ client' = [client EXCEPT ![c].nolp = "CMD"]
       ELSE Fail(c, [client[c] EXCEPT !.nolp = "CMD", !.rest = TRUE])

(* The connection ends, perhaps in the middle of what was expected, or the   *)
(* slave says what no client understands, which stays in the buffer.         *)
SlaveLost(c) ==
    /\ client[c].peer = "slave"
    /\ \/ Ended(Sock(c), "dialler") /\ Fail(c, client[c])
       \/ Ended(Sock(c), "dialler") /\ client[c].nolp = "EXPECT"
            /\ Fail(c, [client[c] EXCEPT !.rest = TRUE])
       \/ Hears(c, "slave") /\ client[c].nolp = "CMD" /\ Heard(c).kind # "CONFIG"
            /\ Fail(c, [client[c] EXCEPT !.rest = TRUE])

(* A signal ends the client; it is started again.                            *)
ClientStop(c) ==
    /\ client[c].peer # "none"
    /\ Fail(c, [client[c] EXCEPT !.nolp = "CMD", !.rest = FALSE])
=============================================================================
