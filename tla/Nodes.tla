-------------------------------- MODULE Nodes --------------------------------
(***************************************************************************)
(* The processes of a Methanol cluster and what they share: TCP            *)
(* connections and a data base.                                            *)
(*                                                                         *)
(* connect(), send(), recv() and close() are modelled as the daemons use   *)
(* them.  Bytes are those of Nolp; here a message is a line, or the bytes  *)
(* a line tells of.  A connection has two ends, that of the node that      *)
(* dialled and that of the one that serves; what one end sends waits in    *)
(* the queue of the other.  close() with unread data resets the            *)
(* connection, so that the peer may lose what it has not read.             *)
(***************************************************************************)
EXTENDS Naturals, Sequences, FiniteSets

CONSTANTS
    Master, Slave, Client,   \* the processes
    Conn,                    \* bound: numbers of connections
    NoConn, Nobody,
    MaxDials,                \* bound: how often each node connects to the master
    MaxFaults                \* bound: kinds of faults in a run, each once

ASSUME NodeAssumption ==
    /\ Slave \cap Client = {} /\ Master \notin Slave \cup Client
    /\ Nobody \notin Slave \cup Client \cup {Master}
ASSUME BoundAssumption ==
    /\ Conn \subseteq Nat /\ NoConn \notin Conn
    /\ MaxDials \in [Slave \cup Client -> Nat] /\ MaxFaults \in Nat

VARIABLES
    net,      \* the connections
    faults    \* what went wrong so far

End == {"dialler", "server"}
Peer(e) == IF e = "dialler" THEN "server" ELSE "dialler"

Msg(k, x) == [kind |-> k, arg |-> x]
Line(k)   == Msg(k, Nobody)

Unused == [from |-> Nobody, to |-> Nobody, open |-> {}, queue |-> [e \in End |-> <<>>]]

Dialled(n, c, a, b) ==
    [n EXCEPT ![c] = [from |-> a, to |-> b, open |-> End, queue |-> [e \in End |-> <<>>]]]

(* What is sent to an end that was closed is lost; nobody looks at the       *)
(* result, and SIGPIPE is ignored.                                           *)
Sent(n, c, e, messages) ==
    IF n[c].open = End THEN [n EXCEPT ![c].queue[Peer(e)] = @ \o messages] ELSE n

Taken(n, c, e) == [n EXCEPT ![c].queue[e] = Tail(@)]

Shut(n, c, e) ==
    IF n[c].open \subseteq {e} THEN [n EXCEPT ![c] = Unused]
    ELSE [n EXCEPT ![c].open = @ \ {e}, ![c].queue[e] = <<>>]

(* A process that ends closes all it has.                                    *)
ShutAll(n, node) ==
    [c \in Conn |->
       LET mine == {e \in End : (IF e = "dialler" THEN n[c].from ELSE n[c].to) = node}
           left == n[c].open \ mine
       IN IF left = {} THEN Unused
          ELSE [n[c] EXCEPT !.open = left,
                            !.queue = [e \in End |-> IF e \in mine THEN <<>> ELSE @[e]]]]

Waiting(c, e) == e \in net[c].open /\ net[c].queue[e] # <<>>
First(c, e)   == Head(net[c].queue[e])
Ended(c, e)   == net[c].open = {e}

(* A process ends ("stop"), the data base refuses a statement ("db"), a user *)
(* sends KILL-ALL ("kill").                                                  *)
Fault(kind) ==
    /\ kind \notin faults /\ Cardinality(faults) < MaxFaults
    /\ faults' = faults \cup {kind}
=============================================================================
