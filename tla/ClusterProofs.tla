---------------------------- MODULE ClusterProofs ----------------------------
(***************************************************************************)
(* Proofs about Cluster for any number of slaves, clients, connections and *)
(* faults: what slaves do with tokens implements Admission; the list that  *)
(* users see is that of the slaves; the slaves of the master and their     *)
(* entries point at each other; a slave is asked for one client at a time, *)
(* and while the master waits for its answer there is one to come.         *)
(*                                                                         *)
(* The master is reasoned about as a world: its state with the network, so *)
(* that the operators it is built from can be taken one after the other.   *)
(***************************************************************************)
EXTENDS Cluster, Integers, SequenceTheorems, WellFoundedInduction, TLAPS

Field    == {"pc", "started", "link", "io", "nolp", "want", "ready", "config", "hook", "pending",
             "clients", "status", "conn", "x", "made", "dials"}
Shape(r) == r = [f \in Field |-> r[f]]

ThreadField    == {"pc", "at", "token", "killed"}
ThreadShape(r) == r = [f \in ThreadField |-> r[f]]

Shapes ==
    /\ slave = [s \in Slave |-> slave[s]] /\ \A s \in Slave : Shape(slave[s])
    /\ thread = [c \in Conn |-> thread[c]] /\ \A c \in Conn : ThreadShape(thread[c])

(* The tokens of a slave are its own, each is there once, and none has a     *)
(* number that is still to come.                                             *)
Listing(list, s, n) ==
    /\ list \in Seq(Range(list)) /\ IsInjective(list)
    /\ \A t \in Range(list) : t.at = s /\ t.no \in Nat /\ t.no <= n

PendingInv ==
    \A s \in Slave : slave[s].made \in Nat /\ Listing(slave[s].pending, s, slave[s].made)

(* A connection whose token is still to come is not inside.                  *)
AuthInv == \A c \in Conn : thread[c].pc = "auth" => thread[c].token = NoToken /\ thread[c].at \in Slave

IInv == Shapes /\ PendingInv /\ AuthInv

TameThread(new, old) ==
    /\ ThreadShape(new)
    /\ \/ new.token = NoToken /\ (new.pc = "auth" => new.at \in Slave)
       \/ new.token = old.token /\ (new.pc = "auth" => old.pc = "auth" /\ new.at = old.at)

(* Steps that make no token and let nobody in.                               *)
Tame ==
    /\ slave' = [s \in Slave |-> slave'[s]]
    /\ \A s \in Slave :
         /\ Shape(slave'[s])
         /\ slave'[s].made = slave[s].made
         /\ slave'[s].pending \in {slave[s].pending, <<>>}
    /\ thread' = [c \in Conn |-> thread'[c]]
    /\ \A c \in Conn : TameThread(thread'[c], thread[c])

-----------------------------------------------------------------------------
(* Lists of tokens.                                                          *)

LEMMA EmptyListing ==
  ASSUME NEW s, NEW n \in Nat
  PROVE  Listing(<<>>, s, n)
BY DEF Listing, IsInjective, Range

LEMMA ClusterInit == Init => IInv
<1> SUFFICES ASSUME Init PROVE IInv
  OBVIOUS
<1>1. slave = [s \in Slave |-> Process] /\ thread = [c \in Conn |-> NoThread]
  BY DEF Init, SlaveInit
<1>2. Shape(Process) /\ ThreadShape(NoThread)
  BY DEF Shape, Field, Process, ThreadShape, ThreadField, NoThread
<1>3. Shapes
  BY <1>1, <1>2 DEF Shapes
<1>4. Process.made = 0 /\ Process.pending = <<>>
  BY DEF Process
<1>5. PendingInv
  BY <1>1, <1>4, EmptyListing DEF PendingInv
<1>6. NoThread.pc # "auth"
  BY DEF NoThread
<1>7. AuthInv
  BY <1>1, <1>6 DEF AuthInv
<1>8. QED
  BY <1>3, <1>5, <1>7 DEF IInv

LEMMA TameKeeps ==
  ASSUME IInv, Tame
  PROVE  IInv'
<1>1. Shapes'
  BY DEF Tame, TameThread, Shapes
<1>2. PendingInv'
  BY EmptyListing DEF Tame, IInv, PendingInv
<1>3. AuthInv'
  BY DEF Tame, TameThread, IInv, AuthInv
<1>4. QED
  BY <1>1, <1>2, <1>3 DEF IInv

LEMMA TameLeaves ==
  ASSUME IInv, Tame
  PROVE  Abstract!Leave
<1> DEFINE pending == UNION {Range(slave[s].pending) : s \in Slave}
           pendingNext == UNION {Range(slave'[s].pending) : s \in Slave}
<1>1. pendingNext \subseteq pending
  <2>1. \A s \in Slave : Range(slave'[s].pending) \subseteq Range(slave[s].pending)
    BY DEF Tame, Range
  <2>2. QED
    BY <2>1
<1>2. [s \in Slave |-> slave'[s].made] = [s \in Slave |-> slave[s].made]
  BY DEF Tame
<1>3. \A c \in Conn : thread'[c].token \in {thread[c].token, NoToken}
  BY DEF Tame, TameThread
<1>4. QED
  BY <1>1, <1>2, <1>3 DEF Abstract!Leave

-----------------------------------------------------------------------------
(* Which steps are tame.                                                     *)

LEMMA MainIsTame ==
  ASSUME IInv, NEW s \in Slave,
         \/ Connect(s) \/ LoggedOn(s) \/ Expect(s) \/ RefuseToken(s) \/ LinkLost(s)
         \/ Report(s) \/ NoTokenMade(s) \/ Restart(s)
  PROVE  Tame
<1>1. slave = [r \in Slave |-> slave[r]] /\ Shape(slave[s]) /\ \A r \in Slave : Shape(slave[r])
  BY DEF IInv, Shapes
<1>2. thread' = thread
  BY DEF Connect, LoggedOn, Expect, RefuseToken, LinkLost, Report, NoTokenMade, Restart, slaveVars
<1>3. /\ slave' = [r \in Slave |-> slave'[r]]
      /\ \A r \in Slave : Shape(slave'[r]) /\ slave'[r].made = slave[r].made
                          /\ slave'[r].pending = slave[r].pending
  <2>1. CASE Connect(s)
    BY Zenon, <1>1, <2>1 DEF Connect, Shape, Field
  <2>2. CASE LoggedOn(s)
    BY Zenon, <1>1, <2>2 DEF LoggedOn, Shape, Field
  <2>3. CASE Expect(s)
    BY Zenon, <1>1, <2>3 DEF Expect, Shape, Field
  <2>4. CASE RefuseToken(s)
    BY <1>1, <2>4 DEF RefuseToken, slaveVars
  <2>5. CASE LinkLost(s)
    BY Zenon, <1>1, <2>5 DEF LinkLost, Shape, Field
  <2>6. CASE Report(s)
    BY <1>1, <2>6 DEF Report, Shape, Field
  <2>7. CASE NoTokenMade(s)
    BY Zenon, <1>1, <2>7 DEF NoTokenMade, Shape, Field
  <2>8. CASE Restart(s)
    BY <1>1, <2>8 DEF Restart, Shape, Field
  <2>9. QED
    BY <2>1, <2>2, <2>3, <2>4, <2>5, <2>6, <2>7, <2>8
<1>4. QED
  BY <1>2, <1>3 DEF Tame, TameThread, IInv, Shapes

(* Steps of the main thread that change one slave only.                      *)
LEMMA OneSlaveIsTame ==
  ASSUME IInv, NEW s \in Slave, NEW r, slave' = [slave EXCEPT ![s] = r], Shape(r),
         r.made = slave[s].made, r.pending \in {slave[s].pending, <<>>},
         thread' = [c \in Conn |-> thread'[c]],
         \A c \in Conn : TameThread(thread'[c], thread[c])
  PROVE  Tame
BY DEF Tame, IInv, Shapes

LEMMA ReceiveIsTame ==
  ASSUME IInv, NEW s \in Slave, Receive(s)
  PROVE  Tame
<1>1. slave = [r \in Slave |-> slave[r]] /\ Shape(slave[s])
  BY DEF IInv, Shapes
<1> DEFINE r == [slave[s] EXCEPT !.nolp = IF Whole(s) THEN "CMD" ELSE "LOST"]
<1>2. Shape(r) /\ r.made = slave[s].made /\ r.pending = slave[s].pending
  BY <1>1 DEF Shape, Field
<1>3. /\ thread' = thread
      /\ \/ slave' = [slave EXCEPT ![s] = [r EXCEPT !.config = Read(s), !.ready = TRUE]]
         \/ slave' = [slave EXCEPT ![s] = [r EXCEPT !.hook = Read(s)]]
  BY DEF Receive
<1> HIDE DEF r
<1> DEFINE u == [r EXCEPT !.config = Read(s), !.ready = TRUE]
           v == [r EXCEPT !.hook = Read(s)]
<1>4. /\ Shape(u) /\ u.made = slave[s].made /\ u.pending = slave[s].pending
      /\ Shape(v) /\ v.made = slave[s].made /\ v.pending = slave[s].pending
  BY <1>2 DEF Shape, Field
<1> HIDE DEF u, v
<1>5. slave' = [slave EXCEPT ![s] = u] \/ slave' = [slave EXCEPT ![s] = v]
  BY <1>3 DEF u, v
<1>6. /\ thread' = [c \in Conn |-> thread'[c]]
      /\ \A c \in Conn : ThreadShape(thread'[c]) /\ thread'[c] = thread[c]
  BY <1>3 DEF IInv, Shapes
<1>7. QED
  BY <1>4, <1>5, <1>6, OneSlaveIsTame DEF TameThread

LEMMA GoneIsTame ==
  ASSUME IInv, NEW s \in Slave, NEW how, GoneSlave(s, how)
  PROVE  Tame
<1> DEFINE r == [Process EXCEPT !.pc = how, !.made = slave[s].made, !.dials = slave[s].dials]
<1>1. slave' = [slave EXCEPT ![s] = r]
  BY DEF GoneSlave
<1>2. Shape(r) /\ r.made = slave[s].made /\ r.pending = <<>>
  BY DEF Shape, Field, Process
<1>3. /\ thread' = [c \in Conn |-> thread'[c]]
      /\ \A c \in Conn : thread'[c] \in {NoThread, thread[c]}
  BY DEF GoneSlave
<1>4. NoThread.token = NoToken /\ NoThread.pc # "auth" /\ ThreadShape(NoThread)
  BY DEF NoThread, ThreadShape, ThreadField
<1> HIDE DEF r
<1>5. \A c \in Conn : TameThread(thread'[c], thread[c])
  BY <1>3, <1>4 DEF TameThread, IInv, Shapes
<1>6. QED
  BY <1>1, <1>2, <1>3, <1>5, OneSlaveIsTame

LEMMA KillIsTame ==
  ASSUME IInv, NEW s \in Slave, OnKillAll(s)
  PROVE  Tame
<1>1. slave' = slave /\ thread' = [c \in Conn |-> thread'[c]]
  BY DEF OnKillAll
<1>2. ASSUME NEW c \in Conn
      PROVE  /\ ThreadShape(thread'[c])
             /\ thread'[c].token = thread[c].token /\ thread'[c].pc = thread[c].pc
             /\ thread'[c].at = thread[c].at
  <2>1. ThreadShape(thread[c])
    BY DEF IInv, Shapes
  <2>2. thread'[c] = thread[c] \/ thread'[c] = [thread[c] EXCEPT !.killed = TRUE]
    BY DEF OnKillAll
  <2>3. QED
    BY <2>1, <2>2 DEF ThreadShape, ThreadField
<1>3. QED
  BY <1>1, <1>2 DEF Tame, TameThread, IInv, Shapes

LEMMA LaunchIsTame ==
  ASSUME IInv, NEW s \in Slave, Launch(s)
  PROVE  Tame
<1> DEFINE r == [slave[s] EXCEPT !.pc = "loop", !.conn = NoConn, !.x = 0]
           n == [NoThread EXCEPT !.pc = "auth", !.at = s]
<1>1. Shape(slave[s])
  BY DEF IInv, Shapes
<1>2. Shape(r) /\ r.made = slave[s].made /\ r.pending = slave[s].pending
  BY <1>1 DEF Shape, Field
<1>3. ThreadShape(n) /\ n.token = NoToken /\ n.at = s
  BY DEF ThreadShape, ThreadField, NoThread
<1>4. slave' = [slave EXCEPT ![s] = r] /\ thread' = [thread EXCEPT ![slave[s].conn] = n]
  BY DEF Launch
<1> HIDE DEF r, n
<1>5. /\ thread' = [c \in Conn |-> thread'[c]]
      /\ \A c \in Conn : TameThread(thread'[c], thread[c])
  BY <1>3, <1>4 DEF TameThread, IInv, Shapes
<1>6. QED
  BY <1>2, <1>4, <1>5, OneSlaveIsTame

LEMMA AcceptIsTame ==
  ASSUME IInv, NEW s \in Slave, AcceptClient(s) \/ AcceptNext(s) \/ AcceptBeyond(s)
  PROVE  Tame
<1>1. slave = [r \in Slave |-> slave[r]] /\ \A r \in Slave : Shape(slave[r])
  BY DEF IInv, Shapes
<1>s. ASSUME thread' = thread
      PROVE  /\ thread' = [c \in Conn |-> thread'[c]]
             /\ \A c \in Conn : TameThread(thread'[c], thread[c])
  BY <1>s DEF TameThread, IInv, Shapes
<1>2. ASSUME thread' = thread, slave' = [r \in Slave |-> slave'[r]],
             \A r \in Slave : Shape(slave'[r]) /\ slave'[r].made = slave[r].made
                              /\ slave'[r].pending = slave[r].pending
      PROVE  Tame
  BY <1>2, <1>s DEF Tame
<1>3. CASE AcceptClient(s)
  <2>1. PICK c \in Conn :
          \/ UNCHANGED slaveVars
          \/ /\ thread' = thread
             /\ \E io \in Reused(s, c) :
                  slave' = [slave EXCEPT ![s].pc = "accept", ![s].conn = c, ![s].x = 1, ![s].io = io]
    BY Zenon, <1>3 DEF AcceptClient
  <2>2. CASE UNCHANGED slaveVars
    BY <1>1, <1>2, <2>2 DEF slaveVars
  <2>3. ASSUME NEW io, thread' = thread,
               slave' = [slave EXCEPT ![s].pc = "accept", ![s].conn = c, ![s].x = 1, ![s].io = io]
        PROVE  Tame
    <3> DEFINE u == [slave[s] EXCEPT !.pc = "accept", !.conn = c, !.x = 1, !.io = io]
    <3>1. Shape(u) /\ u.made = slave[s].made /\ u.pending = slave[s].pending
      BY <1>1 DEF Shape, Field
    <3>2. slave' = [slave EXCEPT ![s] = u]
      BY <2>3
    <3> HIDE DEF u
    <3>3. QED
      BY <1>s, <2>3, <3>1, <3>2, OneSlaveIsTame
  <2>4. QED
    BY <2>1, <2>2, <2>3
<1>4. ASSUME thread' = thread, slave' = [slave EXCEPT ![s].x = slave[s].x + 1]
      PROVE  Tame
  <2>1. /\ slave' = [r \in Slave |-> slave'[r]]
        /\ \A r \in Slave : Shape(slave'[r]) /\ slave'[r].made = slave[r].made
                            /\ slave'[r].pending = slave[r].pending
    BY <1>1, <1>4 DEF Shape, Field
  <2>2. QED
    BY <1>2, <1>4, <2>1
<1>5. ASSUME thread' = thread, NEW io,
             slave' = [slave EXCEPT ![s].pc = "loop", ![s].conn = NoConn, ![s].x = 0, ![s].io = io]
      PROVE  Tame
  <2> DEFINE u == [slave[s] EXCEPT !.pc = "loop", !.conn = NoConn, !.x = 0, !.io = io]
  <2>1. Shape(u) /\ u.made = slave[s].made /\ u.pending = slave[s].pending
    BY <1>1 DEF Shape, Field
  <2>2. slave' = [slave EXCEPT ![s] = u]
    BY <1>5
  <2> HIDE DEF u
  <2>3. QED
    BY <1>s, <1>5, <2>1, <2>2, OneSlaveIsTame
<1>6. CASE AcceptNext(s)
  <2>1. \/ Launch(s)
        \/ thread' = thread /\ slave' = [slave EXCEPT ![s].x = slave[s].x + 1]
        \/ /\ thread' = thread
           /\ \E io : slave' = [slave EXCEPT ![s].pc = "loop", ![s].conn = NoConn, ![s].x = 0, ![s].io = io]
    <3> DEFINE io == IF slave[s].io = slave[s].conn THEN NoConn ELSE slave[s].io
    <3>1. slave' = [slave EXCEPT ![s].pc = "loop", ![s].conn = NoConn, ![s].x = 0,
                                 ![s].io = IF @ = slave[s].conn THEN NoConn ELSE @]
          => slave' = [slave EXCEPT ![s].pc = "loop", ![s].conn = NoConn, ![s].x = 0, ![s].io = io]
      BY <1>1 DEF Shape, Field
    <3> HIDE DEF io
    <3>2. QED
      BY <1>6, <3>1 DEF AcceptNext
  <2>2. QED
    BY <1>4, <1>5, <2>1, LaunchIsTame
<1>7. CASE AcceptBeyond(s)
  BY <1>7, LaunchIsTame, GoneIsTame DEF AcceptBeyond
<1>8. QED
  BY <1>3, <1>6, <1>7

-----------------------------------------------------------------------------
(* Only the record of the thread's slave changes, if anything.               *)
Kept ==
    /\ slave' = [r \in Slave |-> slave'[r]]
    /\ \A r \in Slave : Shape(slave'[r]) /\ slave'[r].made = slave[r].made
                        /\ slave'[r].pending = slave[r].pending

(* The thread of a connection that goes on, or ends.                         *)
LEMMA OneThreadIsTame ==
  ASSUME IInv, NEW c \in Conn, NEW t, TameThread(t, thread[c]),
         thread' = [thread EXCEPT ![c] = t],
         Kept
  PROVE  Tame
<1>1. \A d \in Conn : TameThread(thread[d], thread[d])
  BY DEF TameThread, IInv, Shapes
<1>2. thread' = [d \in Conn |-> thread'[d]] /\ \A d \in Conn : TameThread(thread'[d], thread[d])
  BY <1>1 DEF IInv, Shapes
<1>3. QED
  BY <1>2 DEF Tame, Kept

LEMMA OneKept ==
  ASSUME IInv, NEW s, NEW io, NEW clients,
         \/ slave' = [slave EXCEPT ![s].io = io]
         \/ slave' = [slave EXCEPT ![s].clients = clients, ![s].status = TRUE]
  PROVE  Kept
<1>1. slave = [r \in Slave |-> slave[r]] /\ \A r \in Slave : Shape(slave[r])
  BY DEF IInv, Shapes
<1>2. CASE s \notin Slave
  <2>1. slave' = slave
    BY <1>1, <1>2
  <2>2. QED
    BY <1>1, <2>1 DEF Kept
<1>3. CASE s \in Slave
  <2> DEFINE u == [slave[s] EXCEPT !.io = io]
             v == [slave[s] EXCEPT !.clients = clients, !.status = TRUE]
  <2>s. Shape(slave[s])
    BY <1>1, <1>3
  <2>1. Shape(u) /\ u.made = slave[s].made /\ u.pending = slave[s].pending
    BY <2>s DEF Shape, Field
  <2>2. Shape(v) /\ v.made = slave[s].made /\ v.pending = slave[s].pending
    BY <2>s DEF Shape, Field
  <2>3. slave' = [slave EXCEPT ![s] = u] \/ slave' = [slave EXCEPT ![s] = v]
    OBVIOUS
  <2> HIDE DEF u, v
  <2>4. QED
    BY <1>1, <1>3, <2>1, <2>2, <2>3 DEF Kept
<1>4. QED
  BY <1>2, <1>3

LEMMA ThreadIsTame ==
  ASSUME IInv, NEW c \in Conn,
         \/ Authorize(c) /\ First(c, "server").arg \notin Range(Pending(thread[c].at))
         \/ NoAuth(c) \/ Enter(c) \/ CannotEnter(c) \/ EndLoop(c) \/ LeaveList(c)
  PROVE  Tame
<1>1. slave = [r \in Slave |-> slave[r]] /\ \A r \in Slave : Shape(slave[r])
  BY DEF IInv, Shapes
<1>2. ThreadShape(thread[c])
  BY DEF IInv, Shapes
<1> DEFINE s == thread[c].at
<1> DEFINE io == IF slave[s].io = c THEN NoConn ELSE slave[s].io
<1>3. TameThread(NoThread, thread[c])
  BY DEF TameThread, NoThread, ThreadShape, ThreadField
<1>4. ASSUME NEW pc \in {"main", "leave"}
      PROVE  TameThread([thread[c] EXCEPT !.pc = pc], thread[c])
  BY <1>2 DEF TameThread, ThreadShape, ThreadField
<1>5. CloseThread(c) => Kept
  <2>1. CloseThread(c) => slave' = [slave EXCEPT ![s].io = io]
    BY <1>1 DEF CloseThread
  <2>2. QED
    BY <2>1, OneKept
<1>6. CASE Authorize(c) /\ First(c, "server").arg \notin Range(Pending(s))
  <2>1. slave' = [slave EXCEPT ![s].io = io] /\ thread' = [thread EXCEPT ![c] = NoThread]
    BY <1>1, <1>6 DEF Authorize
  <2>2. Kept
    BY <2>1, OneKept
  <2>3. QED
    BY <1>3, <2>1, <2>2, OneThreadIsTame
<1>7. CASE NoAuth(c)
  BY <1>3, <1>5, <1>7, OneThreadIsTame DEF NoAuth
<1>8. CASE Enter(c)
  <2>1. /\ slave' = [slave EXCEPT ![s].clients = slave[s].clients \cup {c}, ![s].status = TRUE]
        /\ thread' = [thread EXCEPT ![c] = [thread[c] EXCEPT !.pc = "main"]]
    BY <1>8 DEF Enter
  <2>2. Kept
    BY <2>1, OneKept
  <2>3. QED
    BY <1>4, <2>1, <2>2, OneThreadIsTame
<1>9. CASE CannotEnter(c) \/ EndLoop(c)
  <2>1. CloseThread(c) /\ thread' = [thread EXCEPT ![c] = [thread[c] EXCEPT !.pc = "leave"]]
    BY <1>9 DEF CannotEnter, EndLoop
  <2>2. QED
    BY <1>4, <1>5, <2>1, OneThreadIsTame
<1>10. CASE LeaveList(c)
  <2>1. /\ slave' = [slave EXCEPT ![s].clients = slave[s].clients \ {c}, ![s].status = TRUE]
        /\ thread' = [thread EXCEPT ![c] = NoThread]
    BY <1>10 DEF LeaveList, Unlist
  <2>2. Kept
    BY <2>1, OneKept
  <2>3. QED
    BY <1>3, <2>1, <2>2, OneThreadIsTame
<1>11. QED
  BY <1>6, <1>7, <1>8, <1>9, <1>10

-----------------------------------------------------------------------------
(* The list of pending tokens grows by a new one and loses one.              *)
LEMMA AppendListing ==
  ASSUME NEW list, NEW s, NEW n \in Nat, Listing(list, s, n), NEW t, t.at = s, t.no = n + 1
  PROVE  /\ Listing(Append(list, t), s, n + 1)
         /\ Range(Append(list, t)) = Range(list) \cup {t}
<1> DEFINE S == Range(list) \cup {t}
           new == Append(list, t)
<1>1. list \in Seq(S) /\ t \in S /\ Len(list) \in Nat /\ DOMAIN list = 1..Len(list)
  BY DEF Listing
<1>2. /\ new \in Seq(S) /\ Len(new) = Len(list) + 1 /\ DOMAIN new = 1..(Len(list) + 1)
      /\ \A i \in 1..Len(list) : new[i] = list[i]
      /\ new[Len(list) + 1] = t
  BY <1>1, AppendProperties
<1> HIDE DEF new, S
<1>3. Range(new) = Range(list) \cup {t}
  <2>1. Range(new) = {new[i] : i \in 1..(Len(list) + 1)} /\ Range(list) = {list[i] : i \in 1..Len(list)}
    BY <1>1, <1>2 DEF Range
  <2>2. 1..(Len(list) + 1) = (1..Len(list)) \cup {Len(list) + 1}
    BY <1>1
  <2>3. Range(new) = {new[i] : i \in 1..Len(list)} \cup {new[Len(list) + 1]}
    BY <2>1, <2>2
  <2>4. QED
    BY <1>2, <2>1, <2>3
<1>4. t \notin Range(list) /\ \A u \in Range(list) : u.at = s /\ u.no \in Nat /\ u.no <= n
  BY DEF Listing
<1>5. ASSUME NEW i \in DOMAIN new, NEW j \in DOMAIN new, new[i] = new[j]
      PROVE  i = j
  <2>1. \A k \in 1..Len(list) : list[k] # t
    BY <1>1, <1>4 DEF Range
  <2>2. IsInjective(list)
    BY DEF Listing
  <2>3. CASE i \in 1..Len(list) /\ j \in 1..Len(list)
    BY <1>1, <1>2, <1>5, <2>2, <2>3 DEF IsInjective
  <2>4. CASE i = Len(list) + 1 \/ j = Len(list) + 1
    BY <1>1, <1>2, <1>5, <2>1, <2>4
  <2>5. QED
    BY <1>1, <1>2, <1>5, <2>3, <2>4
<1>6. new \in Seq(Range(new))
  BY <1>2, <1>3 DEF S
<1>7. \A u \in Range(new) : u.at = s /\ u.no \in Nat /\ u.no <= n + 1
  BY <1>3, <1>4
<1>8. Listing(new, s, n + 1)
  BY <1>5, <1>6, <1>7 DEF Listing, IsInjective
<1>9. QED
  BY <1>3, <1>8 DEF new

LEMMA WithoutListing ==
  ASSUME NEW list, NEW s, NEW n, Listing(list, s, n), NEW t \in Range(list)
  PROVE  /\ Listing(Without(list, t), s, n)
         /\ Range(Without(list, t)) = Range(list) \ {t}
<1> DEFINE x == CHOOSE i \in DOMAIN list : list[i] = t
           m == Len(list)
           moved == [list EXCEPT ![x] = list[m]]
           new == SubSeq(moved, 1, m - 1)
<1>1. x \in DOMAIN list /\ list[x] = t
  BY DEF Range
<1>2. new = Without(list, t)
  BY DEF Without
<1>3. list \in Seq(Range(list)) /\ m \in Nat /\ DOMAIN list = 1..m /\ IsInjective(list)
  BY DEF Listing
<1> HIDE DEF x
<1>4. m \in 1..m /\ m >= 1
  BY <1>1, <1>3
<1>5. /\ moved \in Seq(Range(list)) /\ Len(moved) = m
      /\ \A i \in 1..m : moved[i] = IF i = x THEN list[m] ELSE list[i]
  <2>1. list[m] \in Range(list)
    BY <1>3, <1>4 DEF Range
  <2>2. QED
    BY <1>1, <1>3, <2>1, ExceptSeq
<1> HIDE DEF moved, m
<1>6. /\ new \in Seq(Range(list)) /\ Len(new) = m - 1 /\ DOMAIN new = 1..(m - 1)
      /\ \A i \in 1..(m - 1) : new[i] = moved[i]
  BY <1>3, <1>4, <1>5, SubSeqProperties
<1> HIDE DEF new
<1>7. \A i \in 1..(m - 1) : i \in 1..m /\ i # m /\ new[i] = IF i = x THEN list[m] ELSE list[i]
  BY <1>3, <1>5, <1>6
<1>8. \A i, j \in 1..m : list[i] = list[j] => i = j
  BY <1>3 DEF IsInjective
<1>9. IsInjective(new)
  <2>1. SUFFICES ASSUME NEW i \in 1..(m - 1), NEW j \in 1..(m - 1), new[i] = new[j]
                 PROVE  i = j
    BY <1>6 DEF IsInjective
  <2>2. QED
    BY <1>4, <1>7, <1>8, <2>1
<1>10. Range(new) = Range(list) \ {t}
  <2>1. Range(new) = {new[i] : i \in 1..(m - 1)} /\ Range(list) = {list[i] : i \in 1..m}
    BY <1>3, <1>6 DEF Range
  <2>2. ASSUME NEW i \in 1..(m - 1) PROVE new[i] \in Range(list) /\ new[i] # t
    BY <1>1, <1>3, <1>4, <1>7, <1>8, <2>1
  <2>3. ASSUME NEW i \in 1..m, list[i] # t PROVE \E j \in 1..(m - 1) : new[j] = list[i]
    <3>1. CASE i = m
      <4>1. x # m /\ x \in 1..(m - 1)
        BY <1>1, <1>3, <1>4, <2>3, <3>1
      <4>2. QED
        BY <1>7, <3>1, <4>1
    <3>2. CASE i # m
      <4>1. i \in 1..(m - 1) /\ i # x
        BY <1>1, <1>3, <2>3, <3>2
      <4>2. QED
        BY <1>7, <4>1
    <3>3. QED
      BY <3>1, <3>2
  <2>4. QED
    BY <2>1, <2>2, <2>3
<1>11. new \in Seq(Range(new))
  <2>1. \A i \in 1..(m - 1) : new[i] \in Range(new)
    BY <1>6 DEF Range
  <2>2. QED
    BY <1>3, <1>4, <1>6, <2>1
<1>12. Listing(new, s, n)
  BY <1>9, <1>10, <1>11 DEF Listing
<1>13. QED
  BY <1>2, <1>10, <1>12

-----------------------------------------------------------------------------
AllPending == UNION {Range(slave[s].pending) : s \in Slave}

LEMMA MakeStep ==
  ASSUME IInv, NEW s \in Slave, MakeToken(s)
  PROVE  IInv' /\ Abstract!Make(s)
<1> DEFINE t == NewToken(s)
           list == slave[s].pending
           n == slave[s].made
           r == [slave[s] EXCEPT !.pending = Append(list, t), !.made = n + 1]
<1>1. Shape(slave[s]) /\ n \in Nat /\ Listing(list, s, n)
  BY DEF IInv, Shapes, PendingInv
<1>2. t.at = s /\ t.no = n + 1
  BY DEF NewToken
<1>3. Listing(Append(list, t), s, n + 1) /\ Range(Append(list, t)) = Range(list) \cup {t}
  BY <1>1, <1>2, AppendListing
<1>4. slave' = [slave EXCEPT ![s] = r] /\ thread' = thread
  BY DEF MakeToken
<1> HIDE DEF t
<1>5. Shape(r) /\ r.pending = Append(list, t) /\ r.made = n + 1
  BY <1>1 DEF Shape, Field
<1> HIDE DEF r
<1>6. slave'[s] = r /\ \A q \in Slave : q # s => slave'[q] = slave[q]
  BY <1>4 DEF IInv, Shapes
<1>7. Shapes'
  BY <1>4, <1>5, <1>6 DEF IInv, Shapes
<1>8. PendingInv'
  <2>1. slave'[s].made = n + 1 /\ n + 1 \in Nat /\ Listing(slave'[s].pending, s, n + 1)
    <3>1. n + 1 \in Nat
      BY <1>1
    <3>2. slave'[s].made = n + 1 /\ slave'[s].pending = Append(list, t)
      BY <1>5, <1>6
    <3>3. Listing(slave'[s].pending, s, n + 1)
      BY <1>3, <3>2, Zenon
    <3>4. QED
      BY <3>1, <3>2, <3>3
  <2>2. ASSUME NEW q \in Slave
        PROVE  slave'[q].made \in Nat /\ Listing(slave'[q].pending, q, slave'[q].made)
    BY <1>6, <2>1 DEF IInv, PendingInv
  <2>3. QED
    BY <2>2 DEF PendingInv
<1>9. AuthInv'
  BY <1>4 DEF IInv, AuthInv
<1>10. AllPending' = AllPending \cup {t}
  <2>1. \A q \in Slave : Range(slave'[q].pending) =
          IF q = s THEN Range(slave[q].pending) \cup {t} ELSE Range(slave[q].pending)
    BY <1>3, <1>5, <1>6
  <2>2. QED
    BY <2>1 DEF AllPending
<1>11. [q \in Slave |-> slave'[q].made] =
         [[q \in Slave |-> slave[q].made] EXCEPT ![s] = [q \in Slave |-> slave[q].made][s] + 1]
  BY <1>5, <1>6
<1>12. [q \in Slave |-> slave'[q].made][s] = n + 1
  BY <1>5, <1>6
<1>13. [c \in Conn |-> thread'[c].token] = [c \in Conn |-> thread[c].token]
  BY <1>4
<1>14. t \in AllPending'
  BY <1>10
<1>15. Abstract!Make(s)
  BY <1>2, <1>10, <1>11, <1>12, <1>13, <1>14 DEF Abstract!Make, AllPending
<1>16. QED
  BY <1>7, <1>8, <1>9, <1>15 DEF IInv

LEMMA AdmitStep ==
  ASSUME IInv, NEW c \in Conn, Authorize(c), NEW t, t = First(c, "server").arg,
         t \in Range(Pending(thread[c].at))
  PROVE  IInv' /\ t \in AllPending /\ Abstract!Admit(c, t)
<1> DEFINE s == thread[c].at
           list == slave[s].pending
           left == Without(list, t)
           r == [slave[s] EXCEPT !.pending = left]
           u == [thread[c] EXCEPT !.pc = "enter", !.token = t]
<1>1. thread[c].token = NoToken /\ s \in Slave /\ ThreadShape(thread[c])
  BY DEF Authorize, Thread, IInv, AuthInv, Shapes
<1>2. Shape(slave[s]) /\ slave[s].made \in Nat /\ Listing(list, s, slave[s].made)
  BY <1>1 DEF IInv, Shapes, PendingInv
<1>3. t \in Range(list)
  BY DEF Pending
<1>4. Listing(left, s, slave[s].made) /\ Range(left) = Range(list) \ {t}
  BY <1>2, <1>3, WithoutListing
<1> HIDE DEF left
<1>5. slave' = [slave EXCEPT ![s] = r] /\ thread' = [thread EXCEPT ![c] = u]
  <2>1. /\ slave' = [slave EXCEPT ![s].pending = TakenOut(slave[s].pending, t)]
        /\ thread' = [thread EXCEPT ![c].pc = "enter", ![c].token = t]
    BY <1>1, <1>3 DEF Authorize, Pending, IInv, Shapes
  <2>2. slave' = [slave EXCEPT ![s] = r]
    BY <2>1 DEF TakenOut, left
  <2>3. thread' = [thread EXCEPT ![c] = u]
    BY <2>1
  <2>4. QED
    BY <2>2, <2>3
<1>6. Shape(r) /\ r.pending = left /\ r.made = slave[s].made
  BY <1>2 DEF Shape, Field
<1>7. ThreadShape(u) /\ u.pc = "enter" /\ u.token = t
  BY <1>1 DEF ThreadShape, ThreadField
<1> HIDE DEF r, u
<1>8. slave'[s] = r /\ \A q \in Slave : q # s => slave'[q] = slave[q]
  BY <1>1, <1>5 DEF IInv, Shapes
<1>9. thread'[c] = u /\ \A d \in Conn : d # c => thread'[d] = thread[d]
  BY <1>5 DEF IInv, Shapes
<1>10. Shapes'
  BY <1>5, <1>6, <1>7, <1>8, <1>9 DEF IInv, Shapes
<1>11. PendingInv'
  BY <1>2, <1>4, <1>6, <1>8 DEF IInv, PendingInv
<1>12. AuthInv'
  BY <1>7, <1>9 DEF IInv, AuthInv
<1>13. t.at = s /\ \A q \in Slave : q # s => t \notin Range(slave[q].pending)
  BY <1>2, <1>3 DEF Listing, IInv, PendingInv
<1>14. t \in AllPending /\ AllPending' = AllPending \ {t}
  <2>1. \A q \in Slave : Range(slave'[q].pending) = Range(slave[q].pending) \ {t}
    BY <1>4, <1>6, <1>8, <1>13
  <2>2. QED
    BY <1>1, <1>3, <2>1 DEF AllPending
<1>15. [q \in Slave |-> slave'[q].made] = [q \in Slave |-> slave[q].made]
  BY <1>6, <1>8
<1>16. /\ [d \in Conn |-> thread'[d].token] = [[d \in Conn |-> thread[d].token] EXCEPT ![c] = t]
       /\ [d \in Conn |-> thread[d].token][c] = NoToken
  BY <1>1, <1>7, <1>9
<1>17. Abstract!Admit(c, t)
  BY <1>14, <1>15, <1>16 DEF Abstract!Admit, AllPending
<1>18. QED
  BY <1>10, <1>11, <1>12, <1>14, <1>17 DEF IInv

-----------------------------------------------------------------------------
(* A step of the cluster is none for the tokens, or one of Admission.        *)
AbstractVars == <<[s \in Slave |-> slave[s].made], AllPending, [c \in Conn |-> thread[c].token]>>

LEMMA SlaveSteps ==
  ASSUME IInv, NEW s \in Slave,
         SlaveDials(s) \/ MainThread(s) \/ NoTokenMade(s) \/ SlaveStop(s) \/ Restart(s)
  PROVE  IInv' /\ Abstract!Next
<1>1. CASE MakeToken(s)
  BY <1>1, MakeStep DEF Abstract!Next
<1>2. CASE Tame
  BY <1>2, TameKeeps, TameLeaves DEF Abstract!Next
<1>3. CASE Receive(s) \/ OnKillAll(s)
  BY <1>2, <1>3, ReceiveIsTame, KillIsTame
<1>4. CASE AcceptClient(s) \/ AcceptNext(s) \/ AcceptBeyond(s)
  BY <1>2, <1>4, AcceptIsTame
<1>5. CASE \/ Connect(s) \/ LoggedOn(s) \/ Expect(s) \/ RefuseToken(s) \/ LinkLost(s)
           \/ Report(s) \/ NoTokenMade(s) \/ Restart(s)
  BY <1>2, <1>5, MainIsTame
<1>6. CASE SlaveStop(s)
  BY <1>2, <1>6, GoneIsTame DEF SlaveStop
<1>7. CASE NotLoggedOn(s)
  <2>1. CASE GoneSlave(s, "down")
    BY <1>2, <2>1, GoneIsTame
  <2>2. CASE thread' = thread /\ slave' = [slave EXCEPT ![s].pc = "loop", ![s].link = NoConn]
    <3> DEFINE r == [slave[s] EXCEPT !.pc = "loop", !.link = NoConn]
    <3>1. Shape(slave[s])
      BY DEF IInv, Shapes
    <3>2. Shape(r) /\ r.made = slave[s].made /\ r.pending = slave[s].pending
      BY <3>1 DEF Shape, Field
    <3>3. slave' = [slave EXCEPT ![s] = r]
      BY <2>2
    <3> HIDE DEF r
    <3>4. /\ thread' = [c \in Conn |-> thread'[c]]
          /\ \A c \in Conn : TameThread(thread'[c], thread[c])
      BY <2>2 DEF TameThread, IInv, Shapes
    <3>5. QED
      BY <1>2, <3>2, <3>3, <3>4, OneSlaveIsTame
  <2>3. QED
    BY <1>7, <2>1, <2>2 DEF NotLoggedOn
<1>8. QED
  BY <1>1, <1>3, <1>4, <1>5, <1>6, <1>7 DEF SlaveDials, Start, Reconnect, MainThread

LEMMA ThreadSteps ==
  ASSUME IInv, NEW c \in Conn, ClientThread(c) \/ CannotEnter(c)
  PROVE  IInv' /\ Abstract!Next
<1>1. CASE Authorize(c) /\ First(c, "server").arg \in Range(Pending(thread[c].at))
  <2>1. PICK t : t = First(c, "server").arg
    OBVIOUS
  <2>2. IInv' /\ t \in AllPending /\ Abstract!Admit(c, t)
    BY <1>1, <2>1, AdmitStep
  <2>3. DOMAIN [d \in Conn |-> thread[d].token] = Conn
    OBVIOUS
  <2>4. QED
    BY <2>2, <2>3 DEF Abstract!Next, AllPending
<1>2. CASE \/ Authorize(c) /\ First(c, "server").arg \notin Range(Pending(thread[c].at))
           \/ NoAuth(c) \/ Enter(c) \/ CannotEnter(c) \/ EndLoop(c) \/ LeaveList(c)
  BY <1>2, ThreadIsTame, TameKeeps, TameLeaves DEF Abstract!Next
<1>3. QED
  BY <1>1, <1>2 DEF ClientThread

LEMMA OtherSteps ==
  ASSUME IInv, UNCHANGED slaveVars
  PROVE  IInv' /\ UNCHANGED AbstractVars
<1>1. slave' = slave /\ thread' = thread
  BY DEF slaveVars
<1>2. IInv'
  BY <1>1 DEF IInv, Shapes, PendingInv, AuthInv
<1>3. QED
  BY <1>1, <1>2 DEF AbstractVars, AllPending

LEMMA ClusterStep ==
  ASSUME IInv, [Next]_vars
  PROVE  IInv' /\ (Abstract!Next \/ UNCHANGED AbstractVars)
<1>1. CASE UNCHANGED slaveVars
  BY <1>1, OtherSteps
<1>2. CASE MasterRuns \/ Kill \/ UNCHANGED vars
  BY <1>1, <1>2 DEF MasterRuns, Kill, Normal, MasterStep, vars, slaveVars
<1>3. ASSUME NEW s \in Slave, SlaveRuns(s)
      PROVE  IInv' /\ Abstract!Next
  BY <1>3, SlaveSteps DEF SlaveRuns, Normal, SlaveStep
<1>4. ASSUME NEW c \in Conn, ThreadRuns(c)
      PROVE  IInv' /\ Abstract!Next
  BY <1>4, ThreadSteps DEF ThreadRuns, Normal, SlaveStep
<1>5. ASSUME NEW c \in Client, ClientRuns(c)
      PROVE  UNCHANGED slaveVars
  BY <1>5 DEF ClientRuns, Normal, ClientStep
<1>6. CASE DbFails
  BY <1>1, <1>6, SlaveSteps, ThreadSteps DEF DbFails, MasterStep, SlaveStep, slaveVars
<1>7. CASE Stop
  BY <1>1, <1>7, SlaveSteps DEF Stop, MasterStep, SlaveStep, ClientStep, slaveVars
<1>8. CASE Again
  BY <1>1, <1>8, SlaveSteps DEF Again, Normal, MasterStep, SlaveStep, slaveVars
<1>9. QED
  BY <1>1, <1>2, <1>3, <1>4, <1>5, <1>6, <1>7, <1>8 DEF Next

LEMMA InitMaps == Init => Abstract!Init
<1> SUFFICES ASSUME Init PROVE Abstract!Init
  OBVIOUS
<1>1. slave = [s \in Slave |-> Process] /\ thread = [c \in Conn |-> NoThread]
  BY DEF Init, SlaveInit
<1>2. Process.made = 0 /\ Process.pending = <<>> /\ NoThread.token = NoToken
  BY DEF Process, NoThread
<1>3. Range(<<>>) = {}
  BY DEF Range
<1>4. AllPending = {}
  BY <1>1, <1>2, <1>3 DEF AllPending
<1>5. [s \in Slave |-> slave[s].made] = [s \in Slave |-> 0]
  BY <1>1, <1>2
<1>6. \A c \in DOMAIN [d \in Conn |-> thread[d].token] : [d \in Conn |-> thread[d].token][c] = NoToken
  BY <1>1, <1>2
<1>7. QED
  BY <1>4, <1>5, <1>6 DEF Abstract!Init, AllPending

(* Whatever processes fail and messages come late, a token is made once and  *)
(* lets one connection in, once: the cluster implements Admission, for any   *)
(* number of slaves, clients and connections.                                *)
THEOREM ClusterAdmits == Spec => Admissions
<1>1. IInv /\ [Next]_vars => (Abstract!Next \/ UNCHANGED AbstractVars)
  BY ClusterStep
<1>2. IInv /\ [Next]_vars => IInv'
  BY ClusterStep
<1>3. QED
  BY <1>1, <1>2, ClusterInit, InitMaps, PTL DEF Spec, Admissions, Abstract!Spec, AbstractVars, AllPending

-----------------------------------------------------------------------------
(* What Admission means for connections: no two are inside with one token.   *)
TokensOnce ==
    \A c, d \in Conn : thread[c].token = thread[d].token => c = d \/ thread[c].token = NoToken

(* A token that was used was made, and is not pending any more.              *)
UsedInv ==
    \A c \in Conn : thread[c].token # NoToken =>
      /\ thread[c].token.at \in Slave /\ thread[c].token.no \in Nat
      /\ thread[c].token.no <= slave[thread[c].token.at].made
      /\ thread[c].token \notin AllPending

LEMMA PendingWasMade ==
  ASSUME IInv, NEW t \in AllPending
  PROVE  t.at \in Slave /\ t.no \in Nat /\ t.no <= slave[t.at].made
BY DEF IInv, PendingInv, Listing, AllPending

LEMMA TokenStep ==
  ASSUME IInv, UsedInv, TokensOnce, Abstract!Next \/ UNCHANGED AbstractVars
  PROVE  UsedInv' /\ TokensOnce'
<1>1. \A s \in Slave : slave[s].made \in Nat
  BY DEF IInv, PendingInv
<1>2. ASSUME AllPending' \subseteq AllPending, \A s \in Slave : slave'[s].made = slave[s].made,
             \A c \in Conn : thread'[c].token \in {thread[c].token, NoToken}
      PROVE  UsedInv' /\ TokensOnce'
  BY <1>2 DEF UsedInv, TokensOnce
<1>3. CASE UNCHANGED AbstractVars
  <2>1. \A s \in Slave : [q \in Slave |-> slave'[q].made][s] = [q \in Slave |-> slave[q].made][s]
    BY <1>3 DEF AbstractVars
  <2>2. \A c \in Conn : [d \in Conn |-> thread'[d].token][c] = [d \in Conn |-> thread[d].token][c]
    BY <1>3 DEF AbstractVars
  <2>3. AllPending' = AllPending
    BY <1>3 DEF AbstractVars
  <2>4. QED
    BY <1>2, <2>1, <2>2, <2>3
<1>4. CASE Abstract!Leave
  <2>1. [q \in Slave |-> slave'[q].made] = [q \in Slave |-> slave[q].made]
    BY <1>4 DEF Abstract!Leave
  <2>2. \A s \in Slave : [q \in Slave |-> slave'[q].made][s] = [q \in Slave |-> slave[q].made][s]
    BY <2>1
  <2>3. \A c \in Conn : thread'[c].token \in {thread[c].token, NoToken}
    BY <1>4 DEF Abstract!Leave
  <2>4. AllPending' \subseteq AllPending
    BY <1>4 DEF Abstract!Leave, AllPending
  <2>5. QED
    BY <1>2, <2>2, <2>3, <2>4
<1>5. ASSUME NEW s \in Slave, Abstract!Make(s)
      PROVE  UsedInv' /\ TokensOnce'
  <2>1. /\ slave'[s].made = slave[s].made + 1
        /\ \A q \in Slave : q # s => slave'[q].made = slave[q].made
    <3>1. [q \in Slave |-> slave'[q].made] =
            [[q \in Slave |-> slave[q].made] EXCEPT ![s] = [q \in Slave |-> slave[q].made][s] + 1]
      BY <1>5 DEF Abstract!Make
    <3>2. \A q \in Slave : [p \in Slave |-> slave'[p].made][q] =
            IF q = s THEN slave[s].made + 1 ELSE slave[q].made
      BY <3>1
    <3>3. QED
      BY <3>2
  <2>2. PICK t : t.at = s /\ t.no = slave'[s].made /\ AllPending' = AllPending \cup {t}
    BY <1>5 DEF Abstract!Make, AllPending
  <2>3. \A c \in Conn : thread'[c].token = thread[c].token
    <3>1. [c \in Conn |-> thread'[c].token] = [c \in Conn |-> thread[c].token]
      BY <1>5 DEF Abstract!Make
    <3>2. \A c \in Conn : [d \in Conn |-> thread'[d].token][c] = [d \in Conn |-> thread[d].token][c]
      BY <3>1
    <3>3. QED
      BY <3>2
  <2>4. UsedInv'
    BY <1>1, <2>1, <2>2, <2>3 DEF UsedInv
  <2>5. QED
    BY <2>3, <2>4 DEF TokensOnce
<1>6. ASSUME NEW c \in Conn, NEW t \in AllPending, Abstract!Admit(c, t)
      PROVE  UsedInv' /\ TokensOnce'
  <2>1. AllPending' = AllPending \ {t}
    BY <1>6 DEF Abstract!Admit, AllPending
  <2>2. \A q \in Slave : slave'[q].made = slave[q].made
    <3>1. [q \in Slave |-> slave'[q].made] = [q \in Slave |-> slave[q].made]
      BY <1>6 DEF Abstract!Admit
    <3>2. \A s \in Slave : [q \in Slave |-> slave'[q].made][s] = [q \in Slave |-> slave[q].made][s]
      BY <3>1
    <3>3. QED
      BY <3>2
  <2>3. \A d \in Conn : thread'[d].token = IF d = c THEN t ELSE thread[d].token
    <3>1. [d \in Conn |-> thread'[d].token] = [[d \in Conn |-> thread[d].token] EXCEPT ![c] = t]
      BY <1>6 DEF Abstract!Admit
    <3>2. \A d \in Conn : [e \in Conn |-> thread'[e].token][d] = IF d = c THEN t ELSE thread[d].token
      BY <3>1
    <3>3. QED
      BY <3>2
  <2>4. t.at \in Slave /\ t.no \in Nat /\ t.no <= slave[t.at].made
    BY PendingWasMade
  <2>5. QED
    BY <2>1, <2>2, <2>3, <2>4 DEF UsedInv, TokensOnce
<1>7. QED
  <2>1. DOMAIN [d \in Conn |-> thread[d].token] = Conn
    OBVIOUS
  <2>2. QED
    BY <1>3, <1>4, <1>5, <1>6, <2>1 DEF Abstract!Next, AllPending

(* No two connections that are inside came in with the same token, however   *)
(* often slaves, clients and their master end and start (client.c:161-171).  *)
THEOREM OneConnectionPerToken == Spec => []TokensOnce
<1>1. Init => UsedInv /\ TokensOnce
  BY DEF Init, SlaveInit, NoThread, UsedInv, TokensOnce
<1>2. IInv /\ UsedInv /\ TokensOnce /\ [Next]_vars => (IInv /\ UsedInv /\ TokensOnce)'
  BY ClusterStep, TokenStep
<1>3. QED
  BY <1>1, <1>2, ClusterInit, PTL DEF Spec

-----------------------------------------------------------------------------
(* Sequences of any values.                                                  *)
IsList(q)     == q \in Seq(Range(q))
Extends(q, r) == Len(q) <= Len(r) /\ \A i \in 1..Len(q) : r[i] = q[i]

LEMMA ListDomain ==
  ASSUME NEW q, IsList(q)
  PROVE  /\ Len(q) \in Nat /\ DOMAIN q = 1..Len(q) /\ q = [i \in 1..Len(q) |-> q[i]]
         /\ q # <<>> <=> Len(q) >= 1
         /\ q # <<>> => Head(q) = q[1] /\ q[1] \in Range(q)
<1>1. q \in Seq(Range(q))
  BY DEF IsList
<1>2. Len(q) \in Nat /\ DOMAIN q = 1..Len(q) /\ q \in [1..Len(q) -> Range(q)]
  BY <1>1, LenProperties
<1>3. q # <<>> => Len(q) >= 1
  BY <1>1, EmptySeq
<1>4. Len(<<>>) = 0
  BY EmptySeq
<1>5. ASSUME q # <<>> PROVE Head(q) = q[1] /\ q[1] \in Range(q)
  BY <1>1, <1>2, <1>3, <1>5 DEF Range
<1>6. QED
  BY <1>2, <1>3, <1>4, <1>5

LEMMA ListIntro ==
  ASSUME NEW S, NEW q \in Seq(S)
  PROVE  IsList(q)
<1>1. Len(q) \in Nat /\ DOMAIN q = 1..Len(q) /\ q \in [1..Len(q) -> S]
  BY LenProperties
<1>2. \A i \in 1..Len(q) : q[i] \in Range(q)
  BY <1>1 DEF Range
<1>3. QED
  BY <1>1, <1>2 DEF IsList

LEMMA EmptyList == IsList(<<>>) /\ Len(<<>>) = 0
<1>1. <<>> \in Seq({})
  OBVIOUS
<1>2. QED
  BY <1>1, ListIntro, EmptySeq

LEMMA ListByDomain ==
  ASSUME NEW n \in Nat, NEW q, q = [i \in 1..n |-> q[i]]
  PROVE  IsList(q) /\ Len(q) = n /\ DOMAIN q = 1..n
<1>1. \A i \in 1..n : q[i] \in Range(q)
  BY DEF Range
<1>2. q \in Seq(Range(q)) /\ Len(q) = n
  BY <1>1
<1>3. QED
  BY <1>2 DEF IsList

LEMMA Concat ==
  ASSUME NEW q, NEW r, IsList(q), IsList(r)
  PROVE  /\ IsList(q \o r) /\ Len(q \o r) = Len(q) + Len(r) /\ Extends(q, q \o r)
         /\ \A i \in 1..Len(r) : (q \o r)[Len(q) + i] = r[i]
<1> DEFINE S == Range(q) \cup Range(r)
<1>1. q \in Seq(S) /\ r \in Seq(S)
  <2>1. q \in Seq(Range(q)) /\ r \in Seq(Range(r))
    BY DEF IsList
  <2>2. QED
    BY <2>1
<1>2. Len(q) \in Nat /\ Len(r) \in Nat
  BY ListDomain
<1> HIDE DEF S
<1>3. /\ q \o r \in Seq(S) /\ Len(q \o r) = Len(q) + Len(r)
      /\ \A i \in 1 .. Len(q) + Len(r) : (q \o r)[i] = IF i <= Len(q) THEN q[i] ELSE r[i - Len(q)]
  BY <1>1, ConcatProperties
<1>4. IsList(q \o r)
  BY <1>3, ListIntro
<1>5. Extends(q, q \o r)
  BY <1>2, <1>3 DEF Extends
<1>6. ASSUME NEW i \in 1..Len(r) PROVE (q \o r)[Len(q) + i] = r[i]
  <2>1. Len(q) + i \in 1 .. Len(q) + Len(r) /\ ~(Len(q) + i <= Len(q)) /\ (Len(q) + i) - Len(q) = i
    BY <1>2
  <2>2. QED
    BY <1>3, <2>1
<1>7. QED
  BY <1>3, <1>4, <1>5, <1>6

LEMMA TailOf ==
  ASSUME NEW q, IsList(q), q # <<>>
  PROVE  /\ IsList(Tail(q)) /\ Len(Tail(q)) = Len(q) - 1
         /\ \A i \in 1..Len(q) - 1 : Tail(q)[i] = q[i + 1]
<1>1. q \in Seq(Range(q))
  BY DEF IsList
<1>2. /\ Tail(q) \in Seq(Range(q)) /\ Len(Tail(q)) = Len(q) - 1
      /\ \A i \in 1 .. Len(Tail(q)) : Tail(q)[i] = q[i+1]
  BY <1>1, HeadTailProperties
<1>3. QED
  BY <1>2, ListIntro

LEMMA Append1 ==
  ASSUME NEW q, IsList(q), NEW t
  PROVE  /\ IsList(Append(q, t)) /\ Len(Append(q, t)) = Len(q) + 1
         /\ \A i \in 1..Len(q) : Append(q, t)[i] = q[i]
         /\ Append(q, t)[Len(q) + 1] = t
<1> DEFINE S == Range(q) \cup {t}
<1>1. q \in Seq(S) /\ t \in S
  BY DEF IsList
<1> HIDE DEF S
<1>2. /\ Append(q, t) \in Seq(S) /\ Len(Append(q, t)) = Len(q) + 1
      /\ \A i \in 1..Len(q) : Append(q, t)[i] = q[i]
      /\ Append(q, t)[Len(q) + 1] = t
  BY <1>1, AppendProperties
<1>3. QED
  BY <1>2, ListIntro

LEMMA FrontOf ==
  ASSUME NEW q, IsList(q), NEW n \in Nat, n <= Len(q)
  PROVE  /\ IsList(SubSeq(q, 1, n)) /\ Len(SubSeq(q, 1, n)) = n
         /\ \A i \in 1..n : SubSeq(q, 1, n)[i] = q[i]
<1>1. Len(q) \in Nat /\ \A i \in 1..n : q[i] \in Range(q)
  BY ListDomain DEF Range
<1>2. /\ SubSeq(q, 1, n) \in Seq(Range(q)) /\ Len(SubSeq(q, 1, n)) = n
      /\ \A i \in 1 .. n : SubSeq(q, 1, n)[i] = q[i]
  BY <1>1, SubSeqProperties
<1>3. QED
  BY <1>2, ListIntro

LEMMA Singles ==
  ASSUME NEW a, NEW b
  PROVE  /\ IsList(<<a>>) /\ Len(<<a>>) = 1 /\ <<a>>[1] = a
         /\ IsList(<<a, b>>) /\ Len(<<a, b>>) = 2
<1>1. <<a>> \in Seq({a}) /\ <<a, b>> \in Seq({a, b})
  OBVIOUS
<1>2. QED
  BY <1>1, ListIntro

LEMMA ExtendsTransitive ==
  ASSUME NEW q, NEW r, NEW u, IsList(q), IsList(r), IsList(u), Extends(q, r), Extends(r, u)
  PROVE  Extends(q, u)
<1>1. Len(q) \in Nat /\ Len(r) \in Nat /\ Len(u) \in Nat
  BY ListDomain
<1>2. QED
  BY <1>1 DEF Extends

LEMMA ExtendsSelf ==
  ASSUME NEW q, IsList(q)
  PROVE  Extends(q, q)
<1>1. Len(q) \in Nat
  BY ListDomain
<1>2. QED
  BY <1>1 DEF Extends

-----------------------------------------------------------------------------
(* Connections.                                                              *)
ChannelField == {"from", "to", "open", "queue"}
IsChannel(h) ==
    /\ h = [f \in ChannelField |-> h[f]]
    /\ h.open \subseteq End
    /\ h.queue = [e \in End |-> h.queue[e]] /\ \A e \in End : IsList(h.queue[e])
    /\ h.open = {} => h = Unused
    /\ h.open # {} => h.from \in Slave \cup Client /\ h.to \in {Master} \cup Slave

NetType(n) == n = [c \in Conn |-> n[c]] /\ \A c \in Conn : IsChannel(n[c])

(* An end that is open stays open, unless it is one of H; what waits at it   *)
(* stays there, unless it is one of Q.                                       *)
Stays(h, k, e) == e \in k.open /\ k.from = h.from /\ k.to = h.to /\ k.open \subseteq h.open
Frame(n, v, H, Q) ==
    \A c \in Conn : \A e \in End :
      e \in n[c].open /\ <<c, e>> \notin H =>
        Stays(n[c], v[c], e) /\ (<<c, e>> \notin Q => Extends(n[c].queue[e], v[c].queue[e]))

(* The ends of a node.                                                       *)
Owner(h, e) == IF e = "dialler" THEN h.from ELSE h.to
Own(n, x)   == {p \in Conn \X End : Owner(n[p[1]], p[2]) = x}

LEMMA Ends == "dialler" \in End /\ "server" \in End /\ \A e \in End : Peer(e) \in End /\ Peer(e) # e
BY DEF End, Peer

LEMMA UnusedChannel == IsChannel(Unused) /\ Unused.open = {} /\ \A e \in End : Unused.queue[e] = <<>>
BY EmptyList DEF IsChannel, Unused, ChannelField

LEMMA FrameTransitive ==
  ASSUME NEW n, NEW v, NEW u, NEW G, NEW H, NEW P, NEW Q,
         NetType(n), NetType(v), NetType(u), Frame(n, v, G, P), Frame(v, u, H, Q)
  PROVE  Frame(n, u, G \cup H, P \cup Q)
<1> SUFFICES ASSUME NEW c \in Conn, NEW e \in End, e \in n[c].open, <<c, e>> \notin G \cup H
             PROVE  /\ Stays(n[c], u[c], e)
                    /\ <<c, e>> \notin P \cup Q => Extends(n[c].queue[e], u[c].queue[e])
  BY DEF Frame
<1>1. Stays(n[c], v[c], e) /\ (<<c, e>> \notin P => Extends(n[c].queue[e], v[c].queue[e]))
  BY DEF Frame
<1>2. e \in v[c].open
  BY <1>1 DEF Stays
<1>3. Stays(v[c], u[c], e) /\ (<<c, e>> \notin Q => Extends(v[c].queue[e], u[c].queue[e]))
  BY <1>2 DEF Frame
<1>4. IsList(n[c].queue[e]) /\ IsList(v[c].queue[e]) /\ IsList(u[c].queue[e])
  BY DEF NetType, IsChannel
<1>5. Stays(n[c], u[c], e)
  BY <1>1, <1>3 DEF Stays
<1>6. <<c, e>> \notin P \cup Q => Extends(n[c].queue[e], u[c].queue[e])
  BY <1>1, <1>3, <1>4, ExtendsTransitive
<1>7. QED
  BY <1>5, <1>6

LEMMA FrameSelf ==
  ASSUME NEW n, NetType(n)
  PROVE  Frame(n, n, {}, {})
BY ExtendsSelf DEF NetType, IsChannel, Frame, Stays

LEMMA FrameWider ==
  ASSUME NEW n, NEW v, NEW G, NEW H, NEW P, NEW Q, Frame(n, v, G, P), G \subseteq H, P \subseteq Q
  PROVE  Frame(n, v, H, Q)
BY DEF Frame

LEMMA SentNet ==
  ASSUME NEW n, NetType(n), NEW c, NEW e \in End, NEW ms, IsList(ms),
         NEW v, v = Sent(n, c, e, ms)
  PROVE  /\ NetType(v) /\ Frame(n, v, {}, {})
         /\ \A d \in Conn : v[d].open = n[d].open /\ v[d].from = n[d].from /\ v[d].to = n[d].to
         /\ \A d \in Conn : \A f \in End : d # c \/ f # Peer(e) => v[d].queue[f] = n[d].queue[f]
<1>1. CASE c \notin Conn \/ n[c].open # End
  <2>1. v = n
    BY <1>1 DEF Sent, NetType
  <2>2. QED
    BY <1>1, <2>1, FrameSelf
<1>2. CASE c \in Conn /\ n[c].open = End
  <2> DEFINE p == Peer(e)
             r == n[c].queue[p] \o ms
             k == [n[c] EXCEPT !.queue[p] = r]
  <2>1. IsChannel(n[c]) /\ p \in End
    BY <1>2, Ends DEF NetType
  <2>2. IsList(r) /\ Extends(n[c].queue[p], r)
    BY <2>1, Concat DEF IsChannel
  <2>3. v = [n EXCEPT ![c] = k]
    BY <1>2, <2>1 DEF Sent, NetType, IsChannel, ChannelField
  <2> HIDE DEF p, r
  <2>4. /\ k.open = n[c].open /\ k.from = n[c].from /\ k.to = n[c].to
        /\ k = [f \in ChannelField |-> k[f]]
        /\ k.queue = [n[c].queue EXCEPT ![p] = r]
    BY <2>1 DEF IsChannel, ChannelField
  <2> HIDE DEF k
  <2>5. k.queue[p] = r /\ \A f \in End : f # p => k.queue[f] = n[c].queue[f]
    BY <2>1, <2>4 DEF IsChannel
  <2>6. k.queue = [f \in End |-> k.queue[f]] /\ \A f \in End : IsList(k.queue[f])
    BY <2>1, <2>2, <2>4, <2>5 DEF IsChannel
  <2>7. k.open # {}
    BY <1>2, <2>4, Ends
  <2>8. IsChannel(k)
    BY <2>1, <2>4, <2>6, <2>7 DEF IsChannel
  <2>9. v[c] = k /\ \A d \in Conn : d # c => v[d] = n[d]
    BY <1>2, <2>3 DEF NetType
  <2>10. NetType(v)
    BY <2>3, <2>8, <2>9 DEF NetType
  <2>11. ASSUME NEW d \in Conn, NEW f \in End PROVE Extends(n[d].queue[f], v[d].queue[f])
    <3>1. CASE d = c /\ f = p
      BY Zenon, <2>2, <2>5, <2>9, <3>1
    <3>2. CASE d # c \/ f # p
      <4>1. v[d].queue[f] = n[d].queue[f]
        BY Zenon, <2>5, <2>9, <3>2
      <4>2. IsList(n[d].queue[f])
        BY Zenon DEF NetType, IsChannel
      <4>3. QED
        BY Zenon, <4>1, <4>2, ExtendsSelf
    <3>3. QED
      BY Zenon, <3>1, <3>2
  <2>12. Frame(n, v, {}, {})
    BY <2>4, <2>9, <2>11 DEF Frame, Stays
  <2>13. QED
    <3>1. \A d \in Conn : v[d].open = n[d].open /\ v[d].from = n[d].from /\ v[d].to = n[d].to
      BY Zenon, <2>4, <2>9
    <3>2. \A d \in Conn : \A f \in End : d # c \/ f # Peer(e) => v[d].queue[f] = n[d].queue[f]
      BY Zenon, <2>5, <2>9 DEF p
    <3>3. QED
      BY Zenon, <2>10, <2>12, <3>1, <3>2
<1>3. QED
  BY <1>1, <1>2

LEMMA SentQueue ==
  ASSUME NEW n, NetType(n), NEW c \in Conn, NEW e \in End, NEW ms, IsList(ms),
         NEW v, v = Sent(n, c, e, ms), n[c].open = End
  PROVE  v[c].queue[Peer(e)] = n[c].queue[Peer(e)] \o ms
<1> DEFINE p == Peer(e)
           r == n[c].queue[p] \o ms
           q == [n[c].queue EXCEPT ![p] = r]
           k == [n[c] EXCEPT !.queue = q]
<1>1. IsChannel(n[c]) /\ p \in End
  BY Ends DEF NetType
<1>2. v = [n EXCEPT ![c] = k]
  BY <1>1 DEF Sent, NetType, IsChannel, ChannelField
<1> HIDE DEF r
<1>3. q[p] = r
  BY <1>1 DEF IsChannel
<1> HIDE DEF q
<1>4. k.queue = q
  BY <1>1 DEF IsChannel, ChannelField
<1>5. v[c] = k
  BY <1>2 DEF NetType
<1>6. QED
  BY <1>3, <1>4, <1>5 DEF r

LEMMA TakenNet ==
  ASSUME NEW n, NetType(n), NEW c \in Conn, NEW e \in End, e \in n[c].open, n[c].queue[e] # <<>>,
         NEW v, v = Taken(n, c, e)
  PROVE  /\ NetType(v) /\ Frame(n, v, {}, {<<c, e>>})
         /\ \A d \in Conn : v[d].open = n[d].open /\ v[d].from = n[d].from /\ v[d].to = n[d].to
         /\ v[c].queue[e] = Tail(n[c].queue[e])
         /\ \A d \in Conn : \A f \in End : d # c \/ f # e => v[d].queue[f] = n[d].queue[f]
<1> DEFINE r == Tail(n[c].queue[e])
           k == [n[c] EXCEPT !.queue[e] = r]
<1>1. IsChannel(n[c])
  BY DEF NetType
<1>2. IsList(r)
  BY <1>1, TailOf DEF IsChannel
<1>3. v = [n EXCEPT ![c] = k]
  BY <1>1 DEF Taken, NetType, IsChannel, ChannelField
<1> HIDE DEF r
<1>4. /\ k.open = n[c].open /\ k.from = n[c].from /\ k.to = n[c].to
      /\ k = [f \in ChannelField |-> k[f]]
      /\ k.queue = [n[c].queue EXCEPT ![e] = r]
  BY <1>1 DEF IsChannel, ChannelField
<1> HIDE DEF k
<1>5. k.queue[e] = r /\ \A f \in End : f # e => k.queue[f] = n[c].queue[f]
  BY <1>1, <1>4 DEF IsChannel
<1>6. k.queue = [f \in End |-> k.queue[f]] /\ \A f \in End : IsList(k.queue[f])
  BY <1>1, <1>2, <1>4, <1>5 DEF IsChannel
<1>7. IsChannel(k)
  BY <1>1, <1>4, <1>6 DEF IsChannel
<1>8. v[c] = k /\ \A d \in Conn : d # c => v[d] = n[d]
  BY <1>3 DEF NetType
<1>9. NetType(v)
  BY <1>3, <1>7, <1>8 DEF NetType
<1>10. ASSUME NEW d \in Conn, NEW f \in End, d # c \/ f # e PROVE Extends(n[d].queue[f], v[d].queue[f])
  <2>1. v[d].queue[f] = n[d].queue[f]
    BY Zenon, <1>5, <1>8, <1>10
  <2>2. IsList(n[d].queue[f])
    BY Zenon DEF NetType, IsChannel
  <2>3. QED
    BY Zenon, <2>1, <2>2, ExtendsSelf
<1>11. Frame(n, v, {}, {<<c, e>>})
  BY <1>4, <1>8, <1>10 DEF Frame, Stays
<1>12. QED
  BY <1>4, <1>5, <1>8, <1>9, <1>11 DEF r

LEMMA ShutNet ==
  ASSUME NEW n, NetType(n), NEW c \in Conn, NEW e \in End,
         NEW v, v = Shut(n, c, e)
  PROVE  /\ NetType(v) /\ Frame(n, v, {<<c, e>>}, {})
         /\ v[c].open = n[c].open \ {e} /\ \A d \in Conn : d # c => v[d] = n[d]
<1>1. IsChannel(n[c])
  BY DEF NetType
<1>s. ASSUME NEW d \in Conn, NEW f \in End PROVE Extends(n[d].queue[f], n[d].queue[f])
  BY ExtendsSelf DEF NetType, IsChannel
<1>2. CASE n[c].open \subseteq {e}
  <2>1. v = [n EXCEPT ![c] = Unused]
    BY <1>2 DEF Shut
  <2>2. v[c] = Unused /\ \A d \in Conn : d # c => v[d] = n[d]
    BY <2>1 DEF NetType
  <2>3. NetType(v)
    BY <2>1, <2>2, UnusedChannel DEF NetType
  <2>4. \A f \in End : f \in n[c].open => f = e
    BY <1>2
  <2>5. Frame(n, v, {<<c, e>>}, {})
    BY <1>s, <2>2, <2>4 DEF Frame, Stays
  <2>6. v[c].open = n[c].open \ {e}
    BY <1>2, <2>2, UnusedChannel
  <2>7. QED
    BY <2>2, <2>3, <2>5, <2>6
<1>3. CASE ~(n[c].open \subseteq {e})
  <2> DEFINE o == n[c].open \ {e}
             k == [n[c] EXCEPT !.open = o, !.queue[e] = <<>>]
  <2>1. v = [n EXCEPT ![c] = k]
    BY <1>1, <1>3 DEF Shut, NetType, IsChannel, ChannelField
  <2>2. o # {} /\ o \subseteq End /\ n[c].open # {} /\ e \notin o
    BY <1>1, <1>3 DEF IsChannel
  <2> HIDE DEF o
  <2>3. /\ k.open = o /\ k.from = n[c].from /\ k.to = n[c].to
        /\ k = [f \in ChannelField |-> k[f]]
        /\ k.queue = [n[c].queue EXCEPT ![e] = <<>>]
    BY <1>1 DEF IsChannel, ChannelField
  <2> HIDE DEF k
  <2>4. k.queue[e] = <<>> /\ \A f \in End : f # e => k.queue[f] = n[c].queue[f]
    BY <1>1, <2>3 DEF IsChannel
  <2>5. k.queue = [f \in End |-> k.queue[f]] /\ \A f \in End : IsList(k.queue[f])
    BY <1>1, <2>3, <2>4, EmptyList DEF IsChannel
  <2>6. IsChannel(k)
    BY <1>1, <2>2, <2>3, <2>5 DEF IsChannel
  <2>7. v[c] = k /\ \A d \in Conn : d # c => v[d] = n[d]
    BY <2>1 DEF NetType
  <2>8. NetType(v)
    BY <2>1, <2>6, <2>7 DEF NetType
  <2>9. ASSUME NEW d \in Conn, NEW f \in End, f \in n[d].open, <<d, f>> # <<c, e>>
        PROVE  Stays(n[d], v[d], f) /\ Extends(n[d].queue[f], v[d].queue[f])
    <3>1. CASE d = c
      <4>1. f # e /\ f \in o
        BY <2>9, <3>1 DEF o
      <4>2. Stays(n[d], v[d], f)
        BY <2>3, <2>7, <3>1, <4>1 DEF Stays, o
      <4>3. v[d].queue[f] = n[d].queue[f]
        BY <2>4, <2>7, <3>1, <4>1
      <4>4. QED
        BY <1>s, <4>2, <4>3
    <3>2. CASE d # c
      BY <1>s, <2>7, <2>9, <3>2 DEF Stays
    <3>3. QED
      BY <3>1, <3>2
  <2>10. Frame(n, v, {<<c, e>>}, {})
    BY <2>9 DEF Frame
  <2>11. QED
    BY <2>2, <2>3, <2>7, <2>8, <2>10 DEF o
<1>4. QED
  BY <1>2, <1>3

LEMMA DialledNet ==
  ASSUME NEW n, NetType(n), NEW c \in Conn, n[c] = Unused,
         NEW a \in Slave \cup Client, NEW b \in {Master} \cup Slave,
         NEW v, v = Dialled(n, c, a, b)
  PROVE  /\ NetType(v) /\ Frame(n, v, {}, {})
         /\ v[c].open = End /\ v[c].from = a /\ v[c].to = b
         /\ \A e \in End : v[c].queue[e] = <<>>
         /\ \A d \in Conn : d # c => v[d] = n[d]
<1> DEFINE k == [from |-> a, to |-> b, open |-> End, queue |-> [e \in End |-> <<>>]]
<1>1. v = [n EXCEPT ![c] = k]
  BY DEF Dialled
<1>2. /\ k.open = End /\ k.from = a /\ k.to = b /\ k.queue = [e \in End |-> <<>>]
      /\ k = [f \in ChannelField |-> k[f]]
  BY DEF ChannelField
<1> HIDE DEF k
<1>3. \A e \in End : k.queue[e] = <<>>
  BY <1>2
<1>4. IsChannel(k)
  BY <1>2, <1>3, EmptyList, Ends DEF IsChannel
<1>5. v[c] = k /\ \A d \in Conn : d # c => v[d] = n[d]
  BY <1>1 DEF NetType
<1>6. NetType(v)
  BY <1>1, <1>4, <1>5 DEF NetType
<1>7. n[c].open = {}
  BY UnusedChannel
<1>8. \A d \in Conn : \A e \in End : e \in n[d].open => d # c /\ v[d] = n[d]
  BY <1>5, <1>7
<1>9. ASSUME NEW d \in Conn, NEW f \in End PROVE Extends(n[d].queue[f], n[d].queue[f])
  BY ExtendsSelf DEF NetType, IsChannel
<1>10. Frame(n, v, {}, {})
  BY <1>8, <1>9 DEF Frame, Stays
<1>11. QED
  BY <1>2, <1>3, <1>5, <1>6, <1>10

LEMMA ShutAllNet ==
  ASSUME NEW n, NetType(n), NEW x,
         NEW v, v = ShutAll(n, x)
  PROVE  /\ NetType(v) /\ Frame(n, v, Own(n, x), {})
         /\ \A c \in Conn : v[c].open = n[c].open \ {e \in End : Owner(n[c], e) = x}
<1> DEFINE left(c) == n[c].open \ {e \in End : Owner(n[c], e) = x}
           k(c) == [n[c] EXCEPT !.open = left(c),
                     !.queue = [e \in End |-> IF Owner(n[c], e) = x THEN <<>> ELSE n[c].queue[e]]]
<1>1. \A c \in Conn : v[c] = IF left(c) = {} THEN Unused ELSE k(c)
  BY Zenon DEF ShutAll, Owner, NetType, IsChannel, ChannelField
<1>2. v = [c \in Conn |-> v[c]]
  BY Zenon DEF ShutAll
<1>3. ASSUME NEW c \in Conn
      PROVE  /\ IsChannel(v[c]) /\ v[c].open = left(c)
             /\ \A e \in End : e \in left(c) => Stays(n[c], v[c], e) /\ v[c].queue[e] = n[c].queue[e]
  <2>1. IsChannel(n[c])
    BY DEF NetType
  <2>2. CASE left(c) = {}
    <3>1. v[c] = Unused
      BY Zenon, <1>1, <2>2
    <3>2. QED
      BY <2>2, <3>1, UnusedChannel
  <2>3. CASE left(c) # {}
    <3> DEFINE o == left(c)
               q == [e \in End |-> IF Owner(n[c], e) = x THEN <<>> ELSE n[c].queue[e]]
    <3>1. v[c] = [n[c] EXCEPT !.open = o, !.queue = q]
      BY Zenon, <1>1, <2>3
    <3>2. /\ o # {} /\ o \subseteq n[c].open
          /\ \A e \in End : IsList(q[e])
          /\ \A e \in o : Owner(n[c], e) # x
          /\ q = [e \in End |-> q[e]]
      BY <2>1, <2>3, EmptyList DEF IsChannel
    <3>3. \A e \in o : e \in End /\ q[e] = n[c].queue[e]
      BY <2>1, <3>2 DEF IsChannel
    <3> HIDE DEF o, q
    <3>4. /\ v[c].open = o /\ v[c].from = n[c].from /\ v[c].to = n[c].to /\ v[c].queue = q
          /\ v[c] = [f \in ChannelField |-> v[c][f]]
      BY <2>1, <3>1 DEF IsChannel, ChannelField
    <3>5. IsChannel(v[c])
      BY <2>1, <3>2, <3>4 DEF IsChannel
    <3>6. \A e \in End : e \in o => Stays(n[c], v[c], e) /\ v[c].queue[e] = n[c].queue[e]
      BY <3>2, <3>3, <3>4 DEF Stays
    <3>7. QED
      BY <3>4, <3>5, <3>6 DEF o
  <2>4. QED
    BY <2>2, <2>3
<1>4. NetType(v)
  BY <1>2, <1>3 DEF NetType
<1>5. ASSUME NEW c \in Conn, NEW e \in End, e \in n[c].open, <<c, e>> \notin Own(n, x)
      PROVE  Stays(n[c], v[c], e) /\ Extends(n[c].queue[e], v[c].queue[e])
  <2>1. e \in left(c)
    BY <1>5 DEF Own
  <2>2. IsList(n[c].queue[e])
    BY DEF NetType, IsChannel
  <2>3. QED
    BY <1>3, <2>1, <2>2, ExtendsSelf
<1>6. Frame(n, v, Own(n, x), {})
  BY <1>5 DEF Frame
<1>7. \A c \in Conn : v[c].open = n[c].open \ {e \in End : Owner(n[c], e) = x}
  BY <1>3
<1>8. QED
  BY <1>4, <1>6, <1>7

-----------------------------------------------------------------------------
(* The master and what it is connected to.                                   *)
Entry == [auth : {"absent", "none", "client", "slave"}, user : Slave \cup Client \cup {Nobody},
          slave_n : Nat, nolp : {"CMD", "LINE", "EXPECT"}]

RecordField == {"name", "conn", "clients", "client_conn", "ready"}
IsRecord(r) ==
    /\ r = [f \in RecordField |-> r[f]]
    /\ r.name \in Slave /\ r.conn \in Conn /\ r.client_conn \in Conn \cup {NoConn}

MasterField == {"up", "config", "pool", "slaves", "list"}
IsMaster(m) ==
    /\ m = [f \in MasterField |-> m[f]]
    /\ m.config \in Configs /\ m.pool \in [Conn -> Entry]
    /\ IsList(m.slaves) /\ \A i \in DOMAIN m.slaves : IsRecord(m.slaves[i])

IsWorld(w) == w = [m |-> w.m, n |-> w.n] /\ IsMaster(w.m) /\ NetType(w.n)

(* The master has a socket for every connection of its pool, which it knows  *)
(* under the name of the node that dialled.                                  *)
Served(w) ==
    \A c \in Conn : w.m.pool[c].auth # "absent" =>
      /\ "server" \in w.n[c].open /\ w.n[c].to = Master
      /\ w.m.pool[c].auth # "none" => w.m.pool[c].user = w.n[c].from
      /\ w.m.pool[c].auth = "slave" => w.m.pool[c].user \in Slave

(* The first that comes in is the login.                                     *)
Greets(w) ==
    \A c \in Conn :
      /\ w.m.pool[c].auth \in {"absent", "none"}
      /\ "server" \in w.n[c].open /\ w.n[c].to = Master
      => LET q == w.n[c].queue["server"] IN Len(q) >= 1 /\ q[1] = Msg("AUTH", w.n[c].from)

Sound(w) == Served(w) /\ Greets(w)

(* The master has closed no end that is not its own.                         *)
Untouched(n) ==
    \A c \in Conn : \A e \in End :
      e \in net[c].open /\ Owner(net[c], e) # Master => Stays(net[c], n[c], e)
Mine(w) == Untouched(w.n)

Fresh(m) == m.list = [i \in DOMAIN m.slaves |-> Listed(m.slaves[i])]

(* SlaveIndex, but for x.                                                    *)
Index(m, x) ==
    /\ \A i \in DOMAIN m.slaves :
         LET r == m.slaves[i]
         IN m.pool[r.conn].auth = "slave" /\ m.pool[r.conn].slave_n = i
              /\ m.pool[r.conn].user = r.name
    /\ \A c \in Conn : m.pool[c].auth = "slave" /\ c # x =>
         m.pool[c].slave_n \in DOMAIN m.slaves /\ m.slaves[m.pool[c].slave_n].conn = c

(* AskedForOne, but for the client at x.                                     *)
Asked(m, x) ==
    \A i \in DOMAIN m.slaves :
      LET r == m.slaves[i]
      IN r.client_conn # NoConn =>
           /\ m.pool[r.client_conn].auth = "client"
           /\ r.client_conn # x =>
                /\ m.pool[r.conn].nolp = "LINE"
                /\ \A j \in DOMAIN m.slaves : j # i => m.slaves[j].client_conn # r.client_conn

(* AnswerComing, but for the client at x.                                    *)
Comes(n, c, lost) ==
    \/ n[c].open # End \/ Len(n[c].queue["server"]) >= 1 \/ lost
    \/ \E j \in 1..Len(n[c].queue["dialler"]) : n[c].queue["dialler"][j].kind = "CLIENT"
Lost(s) == slave[s].nolp = "LOST"
Answering(w, x) ==
    \A i \in DOMAIN w.m.slaves :
      LET r == w.m.slaves[i]
      IN r.client_conn \notin {NoConn, x} => Comes(w.n, r.conn, Lost(r.name))

Linked(w, x) == Index(w.m, x) /\ Asked(w.m, x) /\ Answering(w, x)

(* Nothing points to c.                                                      *)
Unreferenced(m, c) == \A i \in DOMAIN m.slaves : m.slaves[i].conn # c /\ m.slaves[i].client_conn # c

-----------------------------------------------------------------------------
(* What is said of a world stays true when a connection is only added to.    *)

LEMMA ComesStays ==
  ASSUME NEW n, NEW v, NEW H, NEW Q, NetType(n), NetType(v), Frame(n, v, H, Q),
         NEW c \in Conn, "server" \in n[c].open, <<c, "server">> \notin H \cup Q,
         <<c, "dialler">> \notin H \cup Q \/ "dialler" \notin v[c].open,
         NEW lost, Comes(n, c, lost)
  PROVE  Comes(v, c, lost)
<1>1. Stays(n[c], v[c], "server") /\ Extends(n[c].queue["server"], v[c].queue["server"])
  BY Ends DEF Frame
<1>2. \A e \in End : Len(n[c].queue[e]) \in Nat /\ Len(v[c].queue[e]) \in Nat
  BY ListDomain DEF NetType, IsChannel
<1>3. CASE n[c].open # End
  <2>1. v[c].open # End
    BY <1>1, <1>3 DEF Stays, NetType, IsChannel
  <2>2. QED
    BY <2>1 DEF Comes
<1>4. CASE Len(n[c].queue["server"]) >= 1 \/ lost
  BY <1>1, <1>2, <1>4, Ends DEF Comes, Extends
<1>5. ASSUME n[c].open = End, NEW j \in 1..Len(n[c].queue["dialler"]),
             n[c].queue["dialler"][j].kind = "CLIENT"
      PROVE  Comes(v, c, lost)
  <2>1. CASE "dialler" \notin v[c].open
    BY <2>1, Ends DEF Comes
  <2>2. CASE <<c, "dialler">> \notin H \cup Q
    <3>1. Extends(n[c].queue["dialler"], v[c].queue["dialler"])
      BY <1>5, <2>2, Ends DEF Frame
    <3> DEFINE q == n[c].queue["dialler"]
               r == v[c].queue["dialler"]
    <3>2. Len(q) \in Nat /\ Len(r) \in Nat /\ Extends(q, r) /\ j \in 1..Len(q) /\ q[j].kind = "CLIENT"
      BY <1>2, <1>5, <3>1, Ends
    <3> HIDE DEF q, r
    <3>4. j \in 1..Len(r) /\ r[j].kind = "CLIENT"
      BY <3>2 DEF Extends
    <3>3. QED
      BY <3>4 DEF Comes, r
  <2>3. QED
    BY <2>1, <2>2
<1>6. QED
  BY <1>3, <1>4, <1>5 DEF Comes

(* What the master holds survives what others do.                            *)
LEMMA SoundStays ==
  ASSUME NEW w, NEW v, IsWorld(w), IsWorld(v), v.m.pool = w.m.pool, NEW H, NEW Q,
         Frame(w.n, v.n, H, Q), \A c \in Conn : w.n[c].to = Master => <<c, "server">> \notin H \cup Q,
         \A c \in Conn : "server" \in v.n[c].open /\ "server" \notin w.n[c].open /\ v.n[c].to = Master =>
           Len(v.n[c].queue["server"]) >= 1 /\ v.n[c].queue["server"][1] = Msg("AUTH", v.n[c].from),
         \A c \in Conn : "server" \in v.n[c].open /\ "server" \in w.n[c].open =>
           v.n[c].to = w.n[c].to,
         Sound(w)
  PROVE  Sound(v)
<1>1. ASSUME NEW c \in Conn, "server" \in w.n[c].open, w.n[c].to = Master
      PROVE  Stays(w.n[c], v.n[c], "server") /\ Extends(w.n[c].queue["server"], v.n[c].queue["server"])
  BY <1>1, Ends DEF Frame
<1>2. Served(v)
  BY <1>1 DEF Sound, Served, Stays
<1>3. ASSUME NEW c \in Conn, v.m.pool[c].auth \in {"absent", "none"}, "server" \in v.n[c].open,
             v.n[c].to = Master
      PROVE  Len(v.n[c].queue["server"]) >= 1
               /\ v.n[c].queue["server"][1] = Msg("AUTH", v.n[c].from)
  <2>1. CASE "server" \notin w.n[c].open
    BY <1>3, <2>1
  <2>2. CASE "server" \in w.n[c].open
    <3>1. w.n[c].to = Master
      BY <1>3, <2>2
    <3>2. Len(w.n[c].queue["server"]) >= 1 /\ w.n[c].queue["server"][1] = Msg("AUTH", w.n[c].from)
      BY <1>3, <2>2, <3>1 DEF Sound, Greets
    <3>3. Len(w.n[c].queue["server"]) \in Nat /\ Len(v.n[c].queue["server"]) \in Nat
      BY ListDomain, Ends DEF IsWorld, NetType, IsChannel
    <3>4. QED
      BY <1>1, <2>2, <3>1, <3>2, <3>3 DEF Extends, Stays
  <2>3. QED
    BY <2>1, <2>2
<1>4. Greets(v)
  BY <1>3 DEF Greets
<1>5. QED
  BY <1>2, <1>4 DEF Sound

LEMMA MineStays ==
  ASSUME NEW w, NEW v, Mine(w), NEW H, NEW Q, Frame(w.n, v.n, H, Q),
         \A c \in Conn : \A e \in End : <<c, e>> \in H => Owner(w.n[c], e) = Master
  PROVE  Mine(v)
<1>1. ASSUME NEW c \in Conn, NEW e \in End, e \in net[c].open, Owner(net[c], e) # Master
      PROVE  Stays(net[c], v.n[c], e)
  <2>1. Stays(net[c], w.n[c], e)
    BY <1>1 DEF Mine, Untouched
  <2>2. Owner(w.n[c], e) # Master /\ e \in w.n[c].open
    BY <1>1, <2>1 DEF Owner, Stays
  <2>3. Stays(w.n[c], v.n[c], e)
    BY <2>2 DEF Frame
  <2>4. QED
    BY <2>1, <2>3 DEF Stays
<1>2. QED
  BY <1>1 DEF Mine, Untouched

LEMMA TellKeeps ==
  ASSUME NEW w, IsWorld(w), NEW c, NEW ms, IsList(ms),
         NEW v, v = Tell(w, c, ms)
  PROVE  /\ IsWorld(v) /\ v.m = w.m
         /\ Frame(w.n, v.n, {}, {}) /\ \A d \in Conn : v.n[d].open = w.n[d].open
         /\ c \in Conn /\ w.n[c].open = End =>
              v.n[c].queue["dialler"] = w.n[c].queue["dialler"] \o ms
         /\ Sound(w) => Sound(v)
         /\ Mine(w) => Mine(v)
         /\ \A x : Sound(w) /\ Linked(w, x) => Linked(v, x)
<1>1. v = [m |-> w.m, n |-> Sent(w.n, c, "server", ms)]
  BY DEF Tell, IsWorld
<1>2. v.m = w.m /\ v.n = Sent(w.n, c, "server", ms) /\ v = [m |-> v.m, n |-> v.n]
  BY <1>1
<1>t. NetType(w.n) /\ "server" \in End
  BY Ends DEF IsWorld
<1>3. /\ NetType(v.n) /\ Frame(w.n, v.n, {}, {})
      /\ \A d \in Conn : v.n[d].open = w.n[d].open /\ v.n[d].to = w.n[d].to
  BY <1>2, <1>t, SentNet
<1>4. IsWorld(v)
  BY <1>2, <1>3 DEF IsWorld
<1>5. Sound(w) => Sound(v)
  <2>1. SUFFICES ASSUME Sound(w) PROVE Sound(v)
    OBVIOUS
  <2>2. \A d \in Conn : "server" \in v.n[d].open => "server" \in w.n[d].open
    BY <1>3
  <2>3. v.m.pool = w.m.pool /\ \A d \in Conn : <<d, "server">> \notin {} \cup {}
    BY <1>2
  <2>4. QED
    BY <1>3, <1>4, <2>1, <2>2, <2>3, SoundStays
<1>6. ASSUME NEW x, Sound(w), Linked(w, x) PROVE Linked(v, x)
  <2>1. Index(v.m, x) /\ Asked(v.m, x)
    BY <1>2, <1>6 DEF Linked
  <2>2. ASSUME NEW i \in DOMAIN v.m.slaves, v.m.slaves[i].client_conn \notin {NoConn, x}
        PROVE  Comes(v.n, v.m.slaves[i].conn, Lost(v.m.slaves[i].name))
    <3>1. v.m.slaves[i].conn \in Conn
      BY <1>4 DEF IsWorld, IsMaster, IsRecord
    <3>2. "server" \in w.n[v.m.slaves[i].conn].open
      BY <1>2, <1>6, <3>1 DEF Sound, Served, Linked, Index
    <3>3. Comes(w.n, v.m.slaves[i].conn, Lost(v.m.slaves[i].name))
      BY <1>2, <1>6, <2>2 DEF Linked, Answering
    <3>4. \A p : p \notin {} \cup {}
      OBVIOUS
    <3>5. QED
      BY <1>3, <1>t, <3>1, <3>2, <3>3, <3>4, ComesStays
  <2>3. Answering(v, x)
    BY ONLY <2>2 DEF Answering
  <2>4. QED
    BY <2>1, <2>3 DEF Linked
<1>7. ASSUME c \in Conn, w.n[c].open = End
      PROVE  v.n[c].queue["dialler"] = w.n[c].queue["dialler"] \o ms
  <2>1. PICK n : n = w.n
    OBVIOUS
  <2>2. PICK k : k = v.n
    OBVIOUS
  <2>3. NetType(n) /\ "server" \in End /\ n[c].open = End /\ k = Sent(n, c, "server", ms) /\ c \in Conn
    BY <1>2, <1>t, <1>7, <2>1, <2>2
  <2>4. k[c].queue[Peer("server")] = n[c].queue[Peer("server")] \o ms
    BY <2>3, SentQueue
  <2>5. QED
    BY <2>1, <2>2, <2>4 DEF Peer
<1>9. Mine(w) => Mine(v)
  BY <1>3, MineStays
<1>8. QED
  BY <1>2, <1>3, <1>4, <1>5, <1>6, <1>7, <1>9

-----------------------------------------------------------------------------
(* The operators of the master, from one world to the next: an entry is given *)
(* back, a client's or a slave's session is closed, the process stops.       *)

LEMMA AbsentEntry == Absent \in Entry /\ Absent.auth = "absent"
BY DEF Absent, Entry

LEMMA ReleasedKeeps ==
  ASSUME NEW w, IsWorld(w), NEW c \in Conn,
         NEW v, v = Released(w, c)
  PROVE  /\ IsWorld(v)
         /\ Fresh(w.m) => Fresh(v.m)
         /\ Sound(w) => Sound(v)
         /\ Sound(w) /\ Mine(w) /\ w.m.pool[c].auth # "absent" => Mine(v)
         /\ Sound(w) /\ Linked(w, c) /\ Unreferenced(w.m, c) => Linked(v, NoConn)
<1> DEFINE n == Shut(w.n, c, "server")
           pool == [w.m.pool EXCEPT ![c] = Absent]
           m == [w.m EXCEPT !.pool = pool]
<1>1. v = [m |-> m, n |-> n]
  BY DEF Released, IsWorld, IsMaster, MasterField
<1>2. NetType(w.n) /\ "server" \in End
  BY Ends DEF IsWorld
<1>3. /\ NetType(n) /\ Frame(w.n, n, {<<c, "server">>}, {})
      /\ n[c].open = w.n[c].open \ {"server"} /\ \A d \in Conn : d # c => n[d] = w.n[d]
  BY <1>2, ShutNet
<1> HIDE DEF n
<1>4. /\ pool \in [Conn -> Entry] /\ pool[c].auth = "absent"
      /\ \A d \in Conn : d # c => pool[d] = w.m.pool[d]
  BY AbsentEntry DEF IsWorld, IsMaster
<1> HIDE DEF pool
<1>5. /\ m = [f \in MasterField |-> m[f]] /\ m.config = w.m.config /\ m.pool = pool
      /\ m.slaves = w.m.slaves /\ m.list = w.m.list
  BY DEF IsWorld, IsMaster, MasterField
<1> HIDE DEF m
<1>6. v.m = m /\ v.n = n /\ v = [m |-> v.m, n |-> v.n]
  BY <1>1
<1>7. IsWorld(v)
  BY <1>3, <1>4, <1>5, <1>6 DEF IsWorld, IsMaster
<1>8. Fresh(w.m) => Fresh(v.m)
  BY <1>5, <1>6 DEF Fresh
<1>9. "server" \notin n[c].open
  BY <1>3
<1>10. Sound(w) => Sound(v)
  <2>1. Served(w) => Served(v)
    BY <1>3, <1>4, <1>5, <1>6 DEF Served
  <2>2. Greets(w) => Greets(v)
    BY <1>3, <1>4, <1>5, <1>6, <1>9 DEF Greets
  <2>3. QED
    BY <2>1, <2>2 DEF Sound
<1>11. ASSUME Sound(w), Linked(w, c), Unreferenced(w.m, c) PROVE Linked(v, NoConn)
  <2>1. \A i \in DOMAIN w.m.slaves : IsRecord(w.m.slaves[i])
    BY DEF IsWorld, IsMaster
  <2>2. \A i \in DOMAIN w.m.slaves : LET r == w.m.slaves[i] IN
          /\ r.conn \in Conn \ {c} /\ pool[r.conn] = w.m.pool[r.conn]
          /\ r.client_conn # NoConn =>
               r.client_conn \in Conn \ {c} /\ pool[r.client_conn] = w.m.pool[r.client_conn]
    BY <1>4, <1>11, <2>1 DEF Unreferenced, IsRecord
  <2>i. v.m.pool = pool /\ v.m.slaves = w.m.slaves /\ Index(w.m, c) /\ Answering(w, c)
    BY <1>5, <1>6, <1>11 DEF Linked
  <2>3. Index(v.m, NoConn)
    <3>1. ASSUME NEW i \in DOMAIN w.m.slaves
          PROVE  LET r == w.m.slaves[i]
                 IN pool[r.conn].auth = "slave" /\ pool[r.conn].slave_n = i /\ pool[r.conn].user = r.name
      BY <2>2, <2>i DEF Index
    <3>2. ASSUME NEW d \in Conn, pool[d].auth = "slave"
          PROVE  pool[d].slave_n \in DOMAIN w.m.slaves /\ w.m.slaves[pool[d].slave_n].conn = d
      BY <1>4, <2>i, <3>2 DEF Index
    <3>3. QED
      BY <2>i, <3>1, <3>2 DEF Index
  <2>4. Asked(v.m, NoConn)
    BY <1>4, <1>5, <1>6, <1>11, <2>2 DEF Linked, Asked
  <2>5. Answering(v, NoConn)
    <3>1. ASSUME NEW i \in DOMAIN w.m.slaves, w.m.slaves[i].client_conn # NoConn
          PROVE  Comes(n, w.m.slaves[i].conn, Lost(w.m.slaves[i].name))
      <4>1. w.m.slaves[i].client_conn # c /\ n[w.m.slaves[i].conn] = w.n[w.m.slaves[i].conn]
        BY <1>3, <1>11, <2>2 DEF Unreferenced
      <4>2. Comes(w.n, w.m.slaves[i].conn, Lost(w.m.slaves[i].name))
        BY <2>i, <3>1, <4>1 DEF Answering
      <4>3. QED
        BY Zenon, <4>1, <4>2 DEF Comes
    <3>2. QED
      BY <1>6, <2>i, <3>1 DEF Answering
  <2>6. QED
    BY <2>3, <2>4, <2>5 DEF Linked
<1>13. ASSUME Sound(w), Mine(w), w.m.pool[c].auth # "absent" PROVE Mine(v)
  <2>1. Owner(w.n[c], "server") = Master
    BY <1>13 DEF Sound, Served, Owner
  <2>2. \A d \in Conn : \A e \in End : <<d, e>> \in {<<c, "server">>} => Owner(w.n[d], e) = Master
    BY <2>1
  <2>3. QED
    BY <1>3, <1>6, <1>13, <2>2, MineStays
<1>12. QED
  BY <1>7, <1>8, <1>10, <1>11, <1>13

LEMMA ClientClosedKeeps ==
  ASSUME NEW w, IsWorld(w), NEW c \in Conn, c # NoConn,
         NEW v, v = ClientClosed(w, c)
  PROVE  /\ IsWorld(v)
         /\ Fresh(w.m) => Fresh(v.m)
         /\ Sound(w) => Sound(v)
         /\ Sound(w) /\ Mine(w) /\ w.m.pool[c].auth = "client" => Mine(v)
         /\ Sound(w) /\ Linked(w, c) /\ w.m.pool[c].auth = "client" => Linked(v, NoConn)
<1> DEFINE list == w.m.slaves
           new == [i \in DOMAIN list |-> IF list[i].client_conn = c
                                         THEN [list[i] EXCEPT !.client_conn = NoConn] ELSE list[i]]
           m == [w.m EXCEPT !.slaves = new]
           u == [m |-> m, n |-> w.n]
<1>1. [w EXCEPT !.m.slaves = [i \in DOMAIN @ |->
         IF @[i].client_conn = c THEN [@[i] EXCEPT !.client_conn = NoConn] ELSE @[i]]] = u
  BY DEF IsWorld, IsMaster, MasterField
<1>2. v = Released(u, c)
  BY <1>1 DEF ClientClosed
<1>3. Len(list) \in Nat /\ DOMAIN list = 1..Len(list) /\ \A i \in DOMAIN list : IsRecord(list[i])
  BY ListDomain DEF IsWorld, IsMaster
<1>4. \A i \in DOMAIN list :
        /\ IsRecord(new[i]) /\ new[i].conn = list[i].conn /\ new[i].name = list[i].name
        /\ Listed(new[i]) = Listed(list[i])
        /\ new[i].client_conn = IF list[i].client_conn = c THEN NoConn ELSE list[i].client_conn
  <2>1. SUFFICES ASSUME NEW i \in DOMAIN list
                 PROVE  /\ IsRecord(new[i]) /\ new[i].conn = list[i].conn /\ new[i].name = list[i].name
                        /\ Listed(new[i]) = Listed(list[i])
                        /\ new[i].client_conn = IF list[i].client_conn = c THEN NoConn
                                                ELSE list[i].client_conn
    OBVIOUS
  <2>2. IsRecord(list[i])
    BY <1>3
  <2>3. CASE list[i].client_conn # c
    BY Zenon, <2>2, <2>3
  <2>4. CASE list[i].client_conn = c
    <3>1. new[i] = [list[i] EXCEPT !.client_conn = NoConn]
      BY ONLY <2>4
    <3>2. /\ new[i] = [f \in RecordField |-> new[i][f]]
          /\ new[i].conn = list[i].conn /\ new[i].name = list[i].name
          /\ new[i].clients = list[i].clients /\ new[i].ready = list[i].ready
          /\ new[i].client_conn = NoConn
      BY <2>2, <3>1 DEF IsRecord, RecordField
    <3>3. QED
      BY Zenon, <2>2, <2>4, <3>2 DEF IsRecord, Listed
  <2>5. QED
    BY <2>3, <2>4
<1>5. new = [i \in 1..Len(list) |-> new[i]]
  BY <1>3
<1> HIDE DEF new
<1>6. IsList(new) /\ DOMAIN new = DOMAIN list
  BY <1>3, <1>5, ListByDomain
<1>7. /\ m = [f \in MasterField |-> m[f]] /\ m.config = w.m.config /\ m.pool = w.m.pool
      /\ m.slaves = new /\ m.list = w.m.list
  BY DEF IsWorld, IsMaster, MasterField
<1> HIDE DEF m
<1>8. u = [m |-> u.m, n |-> u.n] /\ u.m = m /\ u.n = w.n
  OBVIOUS
<1> HIDE DEF u
<1>9. IsWorld(u)
  BY <1>4, <1>6, <1>7, <1>8 DEF IsWorld, IsMaster
<1>10. Fresh(w.m) => Fresh(u.m)
  BY <1>4, <1>6, <1>7, <1>8 DEF Fresh
<1>11. Sound(w) => Sound(u)
  BY <1>7, <1>8 DEF Sound, Served, Greets
<1>12. ASSUME Linked(w, c), w.m.pool[c].auth = "client"
       PROVE  Linked(u, c) /\ Unreferenced(u.m, c)
  <2>1. Index(u.m, c)
    <3>1. Index(w.m, c) /\ u.m.pool = w.m.pool /\ u.m.slaves = new /\ DOMAIN new = DOMAIN list
      BY <1>6, <1>7, <1>8, <1>12 DEF Linked
    <3>2. ASSUME NEW i \in DOMAIN new
          PROVE  LET r == new[i]
                 IN /\ w.m.pool[r.conn].auth = "slave" /\ w.m.pool[r.conn].slave_n = i
                    /\ w.m.pool[r.conn].user = r.name
      BY <1>4, <3>1 DEF Index
    <3>3. ASSUME NEW d \in Conn, w.m.pool[d].auth = "slave", d # c
          PROVE  w.m.pool[d].slave_n \in DOMAIN new /\ new[w.m.pool[d].slave_n].conn = d
      BY <1>4, <3>1, <3>3 DEF Index
    <3>4. QED
      BY <3>1, <3>2, <3>3 DEF Index
  <2>2. \A i \in DOMAIN list : list[i].conn # c
    BY <1>12 DEF Linked, Index
  <2>3. Asked(u.m, c)
    <3>1. SUFFICES ASSUME NEW i \in DOMAIN list, new[i].client_conn # NoConn
                   PROVE  /\ w.m.pool[new[i].client_conn].auth = "client"
                          /\ new[i].client_conn # c =>
                               /\ w.m.pool[new[i].conn].nolp = "LINE"
                               /\ \A j \in DOMAIN list : j # i => new[j].client_conn # new[i].client_conn
      BY <1>6, <1>7, <1>8 DEF Asked
    <3>2. new[i].client_conn = list[i].client_conn /\ list[i].client_conn \notin {NoConn, c}
          /\ new[i].conn = list[i].conn
      BY <1>4, <3>1
    <3>3. /\ w.m.pool[list[i].client_conn].auth = "client"
          /\ w.m.pool[list[i].conn].nolp = "LINE"
          /\ \A j \in DOMAIN list : j # i => list[j].client_conn # list[i].client_conn
      BY <1>12, <3>2 DEF Linked, Asked
    <3>4. QED
      BY <1>4, <3>2, <3>3
  <2>4. Answering(u, c)
    BY <1>4, <1>6, <1>7, <1>8, <1>12 DEF Linked, Answering
  <2>5. Unreferenced(u.m, c)
    BY <1>4, <1>6, <1>7, <1>8, <2>2 DEF Unreferenced
  <2>6. QED
    BY <2>1, <2>3, <2>4, <2>5 DEF Linked
<1>14. /\ Mine(w) => Mine(u)
       /\ w.m.pool[c].auth = "client" => u.m.pool[c].auth # "absent"
  BY <1>7, <1>8 DEF Mine
<1>13. QED
  BY <1>2, <1>9, <1>10, <1>11, <1>12, <1>14, ReleasedKeeps

LEMMA StoppedKeeps ==
  ASSUME NEW w, IsWorld(w), NEW how,
         NEW v, v = Stopped(w, how)
  PROVE  IsWorld(v) /\ Fresh(v.m) /\ (Sound(w) => Sound(v)) /\ Linked(v, NoConn) /\ (Mine(w) => Mine(v))
<1> DEFINE n == ShutAll(w.n, Master)
           pool == [c \in Conn |-> Absent]
           m == [up |-> how, config |-> w.m.config, pool |-> pool, slaves |-> <<>>, list |-> <<>>]
<1>1. v = [m |-> m, n |-> n]
  BY DEF Stopped
<1>2. NetType(w.n)
  BY DEF IsWorld
<1>3. /\ NetType(n) /\ Frame(w.n, n, Own(w.n, Master), {})
      /\ \A c \in Conn : n[c].open = w.n[c].open \ {e \in End : Owner(w.n[c], e) = Master}
  BY <1>2, ShutAllNet
<1> HIDE DEF n
<1>4. pool \in [Conn -> Entry] /\ \A c \in Conn : pool[c].auth = "absent"
  BY AbsentEntry
<1> HIDE DEF pool
<1>5. /\ m = [f \in MasterField |-> m[f]] /\ m.config = w.m.config /\ m.pool = pool
      /\ m.slaves = <<>> /\ m.list = <<>>
  BY DEF MasterField
<1> HIDE DEF m
<1>6. v.m = m /\ v.n = n /\ v = [m |-> v.m, n |-> v.n]
  BY <1>1
<1>7. IsList(<<>>) /\ DOMAIN <<>> = {}
  BY EmptyList
<1>8. IsWorld(v)
  BY <1>3, <1>4, <1>5, <1>6, <1>7 DEF IsWorld, IsMaster
<1>9. Fresh(v.m)
  BY SMTT(20), <1>5, <1>6, <1>7 DEF Fresh
<1>10. Linked(v, NoConn)
  BY <1>4, <1>5, <1>6, <1>7 DEF Linked, Index, Asked, Answering
<1>11. ASSUME NEW c \in Conn, "server" \in n[c].open PROVE n[c].to # Master
  <2>1. "server" \in w.n[c].open /\ Owner(w.n[c], "server") # Master
    BY <1>3, <1>11, Ends
  <2>2. <<c, "server">> \notin Own(w.n, Master)
    BY <2>1, Ends DEF Own
  <2>3. Stays(w.n[c], n[c], "server")
    BY <1>3, <2>1, <2>2, Ends DEF Frame
  <2>4. QED
    BY <2>1, <2>3 DEF Stays, Owner
<1>12. Sound(v)
  BY <1>4, <1>5, <1>6, <1>11 DEF Sound, Served, Greets
<1>14. Mine(w) => Mine(v)
  <2>1. \A c \in Conn : \A e \in End : <<c, e>> \in Own(w.n, Master) => Owner(w.n[c], e) = Master
    BY DEF Own
  <2>2. QED
    BY <1>3, <1>6, <2>1, MineStays
<1>13. QED
  BY <1>8, <1>9, <1>10, <1>12, <1>14

LEMMA RefreshedKeeps ==
  ASSUME NEW w, IsWorld(w),
         NEW v, v = Refreshed(w)
  PROVE  /\ IsWorld(v) /\ Fresh(v.m)
         /\ v.m.pool = w.m.pool /\ v.m.slaves = w.m.slaves /\ v.n = w.n
         /\ Sound(w) => Sound(v)
         /\ Mine(w) => Mine(v)
         /\ \A x : Linked(w, x) => Linked(v, x)
<1> DEFINE list == [i \in DOMAIN w.m.slaves |-> Listed(w.m.slaves[i])]
           m == [w.m EXCEPT !.list = list]
<1>1. v = [m |-> m, n |-> w.n]
  BY DEF Refreshed, IsWorld, IsMaster, MasterField
<1>2. /\ m = [f \in MasterField |-> m[f]] /\ m.config = w.m.config /\ m.pool = w.m.pool
      /\ m.slaves = w.m.slaves /\ m.list = list
  BY DEF IsWorld, IsMaster, MasterField
<1> HIDE DEF m
<1>3. v.m = m /\ v.n = w.n /\ v = [m |-> v.m, n |-> v.n]
  BY <1>1
<1>4. IsWorld(v)
  BY <1>2, <1>3 DEF IsWorld, IsMaster
<1>5. v.m.pool = w.m.pool /\ v.m.slaves = w.m.slaves /\ v.n = w.n
  BY <1>2, <1>3
<1>6. Fresh(v.m)
  BY <1>2, <1>3 DEF Fresh
<1>7. Sound(w) => Sound(v)
  BY <1>5 DEF Sound, Served, Greets
<1>8. \A x : Linked(w, x) => Linked(v, x)
  <2>1. ASSUME NEW x, Linked(w, x) PROVE Linked(v, x)
    <3>1. Index(v.m, x)
      BY <1>5, <2>1 DEF Linked, Index
    <3>2. Asked(v.m, x)
      BY <1>5, <2>1 DEF Linked, Asked
    <3>3. Answering(v, x)
      BY <1>5, <2>1 DEF Linked, Answering
    <3>4. QED
      BY <3>1, <3>2, <3>3 DEF Linked
  <2>2. QED
    BY <2>1
<1>9. QED
  BY <1>4, <1>5, <1>6, <1>7, <1>8 DEF Mine

-----------------------------------------------------------------------------
(* Linked(w, x) leaves out the connection x, which the code is just dealing  *)
(* with; the next lemmas close it.                                           *)

LEMMA LinkedBut ==
  ASSUME NEW w, NEW c, Linked(w, NoConn)
  PROVE  Linked(w, c)
<1>1. NoConn \notin Conn
  BY BoundAssumption
<1>2. Index(w.m, c)
  BY <1>1 DEF Linked, Index
<1>3. Asked(w.m, c)
  BY DEF Linked, Asked
<1>4. Answering(w, c)
  BY DEF Linked, Answering
<1>5. QED
  BY <1>2, <1>3, <1>4 DEF Linked

LEMMA SlaveClosedKeeps ==
  ASSUME NEW w, IsWorld(w), NEW c \in Conn, NEW i \in Nat,
         NEW v, v = SlaveClosed(w, c, i)
  PROVE  /\ IsWorld(v)
         /\ Fresh(v.m)
         /\ Sound(w) => Sound(v)
         /\ Sound(w) /\ Mine(w) /\ w.m.pool[c].auth = "slave" => Mine(v)
         /\ /\ Sound(w) /\ Linked(w, NoConn)
            /\ w.m.pool[c].auth = "slave" /\ w.m.pool[c].slave_n = i
            => Linked(v, NoConn)
<1> DEFINE list == w.m.slaves
           new == SubSeq(list, 1, i - 1)
           m == [w.m EXCEPT !.slaves = new]
           u == [m |-> m, n |-> w.n]
<1>1. CASE i # Len(list)
  <2>1. v = Stopped(w, "crashed")
    BY <1>1 DEF SlaveClosed
  <2>2. QED
    BY <2>1, StoppedKeeps
<1>2. CASE i = Len(list)
  <2>1. v = Released(Refreshed(u), c)
    <3>1. [w EXCEPT !.m.slaves = SubSeq(@, 1, i - 1)] = u
      BY DEF IsWorld, IsMaster, MasterField
    <3>2. QED
      BY <1>2, <3>1 DEF SlaveClosed
  <2>2. IsList(list) /\ Len(list) \in Nat /\ DOMAIN list = 1..Len(list)
        /\ \A j \in DOMAIN list : IsRecord(list[j])
    BY ListDomain DEF IsWorld, IsMaster
  <2>3. /\ IsList(new) /\ DOMAIN new \subseteq DOMAIN list /\ i \notin DOMAIN new
        /\ \A j \in DOMAIN new : new[j] = list[j]
        /\ \A j \in DOMAIN list : j # i => j \in DOMAIN new
    <3>1. CASE i = 0
      <4>1. new = <<>>
        BY <3>1, SubSeqEmpty
      <4> HIDE DEF new
      <4>2. IsList(new) /\ DOMAIN new = {}
        BY <4>1, EmptyList
      <4>3. DOMAIN list = {}
        BY <1>2, <2>2, <3>1
      <4>4. QED
        BY <4>2, <4>3
    <3>2. CASE i # 0
      <4>1. i - 1 \in Nat /\ i - 1 <= Len(list)
        BY <1>2, <3>2
      <4>2. IsList(new) /\ Len(new) = i - 1 /\ \A j \in 1..(i - 1) : new[j] = list[j]
        BY <2>2, <4>1, FrontOf
      <4> HIDE DEF new
      <4>3. DOMAIN new = 1..(i - 1)
        BY <4>2, ListDomain
      <4>4. QED
        BY <1>2, <2>2, <4>1, <4>2, <4>3
    <3>3. QED
      BY <3>1, <3>2
  <2> HIDE DEF new
  <2>4. /\ m = [f \in MasterField |-> m[f]] /\ m.config = w.m.config /\ m.pool = w.m.pool
        /\ m.slaves = new /\ m.list = w.m.list
    BY DEF IsWorld, IsMaster, MasterField
  <2> HIDE DEF m
  <2>5. u = [m |-> u.m, n |-> u.n] /\ u.m = m /\ u.n = w.n
    OBVIOUS
  <2> HIDE DEF u
  <2>6. IsWorld(u)
    BY <2>2, <2>3, <2>4, <2>5 DEF IsWorld, IsMaster
  <2>7. Sound(w) => Sound(u)
    BY <2>4, <2>5 DEF Sound, Served, Greets
  <2>m. (Mine(w) => Mine(u)) /\ u.m.pool = w.m.pool
    BY <2>4, <2>5 DEF Mine
  <2>8. ASSUME Linked(w, NoConn), w.m.pool[c].auth = "slave", w.m.pool[c].slave_n = i
        PROVE  Linked(u, c) /\ Unreferenced(u.m, c)
    <3>1. /\ Index(w.m, NoConn) /\ Asked(w.m, NoConn) /\ Answering(w, NoConn)
          /\ u.m.pool = w.m.pool /\ u.m.slaves = new /\ u.n = w.n
      BY <2>4, <2>5, <2>8 DEF Linked
    <3>2. Index(u.m, c)
      <4>1. ASSUME NEW j \in DOMAIN new
            PROVE  LET r == new[j]
                   IN /\ w.m.pool[r.conn].auth = "slave" /\ w.m.pool[r.conn].slave_n = j
                      /\ w.m.pool[r.conn].user = r.name
        BY <2>3, <3>1 DEF Index
      <4>2. ASSUME NEW d \in Conn, w.m.pool[d].auth = "slave", d # c
            PROVE  w.m.pool[d].slave_n \in DOMAIN new /\ new[w.m.pool[d].slave_n].conn = d
        <5>1. \A e \in Conn : w.m.pool[e].auth = "slave" =>
                w.m.pool[e].slave_n \in DOMAIN list /\ list[w.m.pool[e].slave_n].conn = e
          BY <3>1, BoundAssumption DEF Index
        <5>2. list[i].conn = c
          BY <2>8, <5>1
        <5>3. QED
          BY <2>3, <4>2, <5>1, <5>2
      <4>3. QED
        BY <3>1, <4>1, <4>2 DEF Index
    <3>3. Asked(u.m, c)
      BY <2>3, <3>1 DEF Asked
    <3>4. Answering(u, c)
      BY <2>3, <3>1 DEF Answering
    <3>5. ASSUME NEW j \in DOMAIN new PROVE new[j].conn # c /\ new[j].client_conn # c
      <4>1. new[j] = list[j] /\ j \in DOMAIN list /\ j # i
        BY <2>3
      <4>2. list[j].conn # c
        BY <2>8, <3>1, <4>1 DEF Index
      <4>3. c # NoConn
        BY BoundAssumption
      <4>4. list[j].client_conn # c
        BY <2>8, <3>1, <4>1, <4>3 DEF Asked
      <4>5. QED
        BY <4>1, <4>2, <4>4
    <3>6. Unreferenced(u.m, c)
      BY <3>1, <3>5 DEF Unreferenced
    <3>7. QED
      BY <3>2, <3>3, <3>4, <3>6 DEF Linked
  <2>9. PICK r : r = Refreshed(u)
    OBVIOUS
  <2>10. /\ IsWorld(r) /\ Fresh(r.m) /\ r.m.slaves = u.m.slaves /\ r.m.pool = u.m.pool
         /\ Sound(u) => Sound(r)
         /\ Mine(u) => Mine(r)
         /\ Linked(u, c) => Linked(r, c)
    BY <2>6, <2>9, RefreshedKeeps
  <2>11. v = Released(r, c)
    BY <2>1, <2>9
  <2>12. Unreferenced(u.m, c) => Unreferenced(r.m, c)
    BY <2>10 DEF Unreferenced
  <2>13. /\ IsWorld(v)
         /\ Fresh(r.m) => Fresh(v.m)
         /\ Sound(r) => Sound(v)
         /\ Sound(r) /\ Mine(r) /\ r.m.pool[c].auth # "absent" => Mine(v)
         /\ Sound(r) /\ Linked(r, c) /\ Unreferenced(r.m, c) => Linked(v, NoConn)
    BY <2>10, <2>11, ReleasedKeeps
  <2>14. QED
    BY <2>7, <2>8, <2>10, <2>12, <2>13, <2>m
<1>3. QED
  BY <1>1, <1>2

LEMMA ConnCloseKeeps ==
  ASSUME NEW w, IsWorld(w), NEW c \in Conn,
         NEW v, v = ConnClose(w, c)
  PROVE  /\ IsWorld(v)
         /\ Fresh(w.m) => Fresh(v.m)
         /\ Sound(w) => Sound(v)
         /\ Sound(w) /\ Mine(w) /\ w.m.pool[c].auth # "absent" => Mine(v)
         /\ Sound(w) /\ Linked(w, NoConn) => Linked(v, NoConn)
         /\ Sound(w) /\ Linked(w, c) /\ w.m.pool[c].auth = "client" => Linked(v, NoConn)
<1>1. w.m.pool[c] \in Entry /\ c # NoConn
  BY BoundAssumption DEF IsWorld, IsMaster
<1>2. Linked(w, NoConn) => Linked(w, c)
  BY LinkedBut
<1>3. CASE w.m.pool[c].auth = "client"
  <2>1. v = ClientClosed(w, c)
    BY <1>3 DEF ConnClose
  <2>2. QED
    BY <1>1, <1>2, <1>3, <2>1, ClientClosedKeeps
<1>4. CASE w.m.pool[c].auth = "slave"
  <2>1. v = SlaveClosed(w, c, w.m.pool[c].slave_n)
    BY <1>4 DEF ConnClose
  <2>2. w.m.pool[c].slave_n \in Nat
    BY <1>1 DEF Entry
  <2>3. QED
    BY <1>4, <2>1, <2>2, SlaveClosedKeeps
<1>5. CASE w.m.pool[c].auth \notin {"client", "slave"}
  <2>1. v = Released(w, c)
    BY <1>5 DEF ConnClose
  <2>2. Linked(w, NoConn) => Unreferenced(w.m, c)
    BY <1>1, <1>5 DEF Linked, Index, Asked, Unreferenced
  <2>3. QED
    BY <1>2, <1>5, <2>1, <2>2, ReleasedKeeps
<1>6. QED
  BY <1>3, <1>4, <1>5

-----------------------------------------------------------------------------
(* A client is given to a slave, if one is free.                             *)
LEMMA GiveToSlaveKeeps ==
  ASSUME NEW w, IsWorld(w), NEW c \in Conn, w.m.pool[c].auth = "client",
         NEW v, v = GiveToSlave(w, c)
  PROVE  /\ IsWorld(v)
         /\ Fresh(w.m) => Fresh(v.m)
         /\ Sound(w) => Sound(v)
         /\ Sound(w) /\ Mine(w) => Mine(v)
         /\ /\ Sound(w) /\ Linked(w, NoConn)
            /\ \A i \in DOMAIN w.m.slaves : w.m.slaves[i].client_conn # c
            => Linked(v, NoConn)
<1>1. CASE Free(w) = {}
  <2>1. v = ConnClose(w, c)
    BY Zenon, <1>1 DEF GiveToSlave
  <2>2. QED
    BY <2>1, ConnCloseKeeps
<1>2. CASE Free(w) # {}
  <2> DEFINE list == w.m.slaves
  <2>1. PICK i : i = Min({j \in Free(w) : Load(w, j) = Min({Load(w, k) : k \in Free(w)})})
    OBVIOUS
  <2> DEFINE s == list[i].conn
             ms == <<Msg("CLIENT", w.m.pool[c].user)>>
             new == [list EXCEPT ![i].client_conn = c]
             pool == [w.m.pool EXCEPT ![s].nolp = "LINE"]
             m == [w.m EXCEPT !.slaves = new, !.pool = pool]
             u == [m |-> m, n |-> w.n]
  <2>2. v = Tell(u, s, ms)
    <3>1. v = Tell([w EXCEPT !.m.slaves[i].client_conn = c, !.m.pool[s].nolp = "LINE"], s, ms)
      BY Zenon, <1>2, <2>1 DEF GiveToSlave
    <3>2. [w EXCEPT !.m.slaves[i].client_conn = c, !.m.pool[s].nolp = "LINE"] = u
      <4> DEFINE m1 == [w.m EXCEPT !.slaves = new]
                 w1 == [m |-> m1, n |-> w.n]
      <4>1. w = [m |-> w.m, n |-> w.n] /\ w.m = [f \in MasterField |-> w.m[f]]
        BY DEF IsWorld, IsMaster
      <4>2. [w EXCEPT !.m.slaves[i].client_conn = c] = w1
        BY <4>1 DEF MasterField
      <4>3. /\ m1 = [f \in MasterField |-> m1[f]] /\ m1.pool = w.m.pool
            /\ [m1 EXCEPT !.pool = pool] = m
        BY <4>1 DEF MasterField
      <4> HIDE DEF m1
      <4>4. [w1 EXCEPT !.m.pool[s].nolp = "LINE"] = u
        <5>1. [m1 EXCEPT !.pool[s].nolp = "LINE"] = m
          BY Zenon, <4>3 DEF MasterField
        <5>2. w1.m = m1 /\ w1.n = w.n
          OBVIOUS
        <5>3. w1 = [m |-> m1, n |-> w.n]
              => [w1 EXCEPT !.m.pool[s].nolp = "LINE"] = [w1 EXCEPT !.m = [m1 EXCEPT !.pool[s].nolp = "LINE"]]
          OBVIOUS
        <5>4. [w1 EXCEPT !.m = [m1 EXCEPT !.pool[s].nolp = "LINE"]] = [w1 EXCEPT !.m = m]
          BY Zenon, <5>1
        <5>5. [w1 EXCEPT !.m = m] = u
          OBVIOUS
        <5>6. QED
          BY Zenon, <5>3, <5>4, <5>5
      <4> HIDE DEF w1
      <4>5. QED
        BY Zenon, <4>2, <4>4
    <3>3. QED
      BY Zenon, <3>1, <3>2
  <2>3. IsList(list) /\ Len(list) \in Nat /\ DOMAIN list = 1..Len(list)
        /\ list = [j \in 1..Len(list) |-> list[j]]
        /\ \A j \in DOMAIN list : IsRecord(list[j])
    BY ListDomain DEF IsWorld, IsMaster
  <2>4. /\ DOMAIN new = DOMAIN list /\ new = [j \in 1..Len(list) |-> new[j]]
        /\ \A j \in DOMAIN list :
             /\ IsRecord(new[j]) /\ new[j].conn = list[j].conn /\ new[j].name = list[j].name
             /\ Listed(new[j]) = Listed(list[j])
             /\ new[j].client_conn = IF j = i THEN c ELSE list[j].client_conn
    <3>1. DOMAIN new = DOMAIN list /\ new = [j \in 1..Len(list) |-> new[j]]
      BY <2>3
    <3>2. ASSUME NEW j \in DOMAIN list, j # i PROVE new[j] = list[j]
      BY <3>2
    <3>3. ASSUME NEW j \in DOMAIN list, j = i
          PROVE  /\ IsRecord(new[j]) /\ new[j].conn = list[j].conn /\ new[j].name = list[j].name
                 /\ Listed(new[j]) = Listed(list[j]) /\ new[j].client_conn = c
      <4>1. new[j] = [list[j] EXCEPT !.client_conn = c]
        BY <3>3
      <4>2. IsRecord(list[j])
        BY <2>3
      <4>3. /\ new[j] = [f \in RecordField |-> new[j][f]]
            /\ new[j].conn = list[j].conn /\ new[j].name = list[j].name
            /\ new[j].clients = list[j].clients /\ new[j].ready = list[j].ready
            /\ new[j].client_conn = c
        BY <4>1, <4>2 DEF IsRecord, RecordField
      <4>4. QED
        BY <4>2, <4>3 DEF IsRecord, Listed
    <3>4. QED
      BY <2>3, <3>1, <3>2, <3>3
  <2> HIDE DEF new
  <2>5. IsList(new)
    BY <2>3, <2>4, ListByDomain
  <2>6. /\ pool \in [Conn -> Entry]
        /\ \A d \in Conn : /\ pool[d].auth = w.m.pool[d].auth /\ pool[d].user = w.m.pool[d].user
                           /\ pool[d].slave_n = w.m.pool[d].slave_n
                           /\ pool[d].nolp = IF d = s THEN "LINE" ELSE w.m.pool[d].nolp
    <3>1. ASSUME NEW e \in Entry, NEW f, f = [e EXCEPT !.nolp = "LINE"]
          PROVE  f \in Entry /\ f.auth = e.auth /\ f.user = e.user /\ f.slave_n = e.slave_n
                 /\ f.nolp = "LINE"
      BY <3>1 DEF Entry
    <3>2. w.m.pool \in [Conn -> Entry]
      BY DEF IsWorld, IsMaster
    <3>3. \A d \in Conn : pool[d] = IF d = s THEN [w.m.pool[d] EXCEPT !.nolp = "LINE"] ELSE w.m.pool[d]
      BY SMTT(20), <3>2
    <3>4. pool = [d \in Conn |-> pool[d]]
      BY <3>2
    <3> HIDE DEF pool
    <3>5. ASSUME NEW d \in Conn
          PROVE  /\ pool[d] \in Entry
                 /\ pool[d].auth = w.m.pool[d].auth /\ pool[d].user = w.m.pool[d].user
                 /\ pool[d].slave_n = w.m.pool[d].slave_n
                 /\ pool[d].nolp = IF d = s THEN "LINE" ELSE w.m.pool[d].nolp
      <4>1. w.m.pool[d] \in Entry
        BY <3>2
      <4>2. CASE d = s
        <5>1. pool[d] = [w.m.pool[d] EXCEPT !.nolp = "LINE"]
          BY <3>3, <4>2
        <5>2. QED
          BY <3>1, <4>1, <4>2, <5>1
      <4>3. CASE d # s
        BY <3>3, <4>1, <4>3
      <4>4. QED
        BY <4>2, <4>3
    <3>6. QED
      BY <3>4, <3>5
  <2> HIDE DEF pool
  <2>7. /\ m = [f \in MasterField |-> m[f]] /\ m.config = w.m.config /\ m.pool = pool
        /\ m.slaves = new /\ m.list = w.m.list
    BY DEF IsWorld, IsMaster, MasterField
  <2> HIDE DEF m
  <2>8. u = [m |-> u.m, n |-> u.n] /\ u.m = m /\ u.n = w.n
    OBVIOUS
  <2> HIDE DEF u
  <2>9. IsWorld(u)
    BY <2>4, <2>5, <2>6, <2>7, <2>8 DEF IsWorld, IsMaster
  <2>10. Fresh(w.m) => Fresh(u.m)
    <3>1. [j \in DOMAIN list |-> Listed(list[j])] = [j \in DOMAIN new |-> Listed(new[j])]
      BY <2>4
    <3>2. QED
      BY <2>7, <2>8, <3>1 DEF Fresh
  <2>11. Sound(w) => Sound(u)
    BY <2>6, <2>7, <2>8 DEF Sound, Served, Greets
  <2>m. Mine(w) => Mine(u)
    BY <2>8 DEF Mine
  <2>12. IsList(ms) /\ Len(ms) = 1 /\ ms[1].kind = "CLIENT"
    BY Singles DEF Msg
  <2> HIDE DEF ms
  <2>13. /\ IsWorld(v) /\ v.m = u.m
         /\ Frame(u.n, v.n, {}, {}) /\ \A d \in Conn : v.n[d].open = u.n[d].open
         /\ s \in Conn /\ u.n[s].open = End =>
              v.n[s].queue["dialler"] = u.n[s].queue["dialler"] \o ms
         /\ Sound(u) => Sound(v)
         /\ Mine(u) => Mine(v)
         /\ \A x : Sound(u) /\ Linked(u, x) => Linked(v, x)
    <3>1. PICK d : d = s
      OBVIOUS
    <3>2. v = Tell(u, d, ms) /\ IsWorld(u) /\ IsList(ms)
      BY <2>2, <2>9, <2>12, <3>1
    <3>3. /\ IsWorld(v) /\ v.m = u.m
          /\ Frame(u.n, v.n, {}, {}) /\ \A e \in Conn : v.n[e].open = u.n[e].open
          /\ d \in Conn /\ u.n[d].open = End =>
               v.n[d].queue["dialler"] = u.n[d].queue["dialler"] \o ms
          /\ Sound(u) => Sound(v)
          /\ Mine(u) => Mine(v)
          /\ \A x : Sound(u) /\ Linked(u, x) => Linked(v, x)
      BY Zenon, <3>2, TellKeeps
    <3>4. QED
      BY Zenon, <3>1, <3>3
  <2>14. ASSUME Sound(w), Linked(w, NoConn), \A j \in DOMAIN list : list[j].client_conn # c
         PROVE  Linked(v, NoConn)
    <3>1. /\ Index(w.m, NoConn) /\ Asked(w.m, NoConn) /\ Answering(w, NoConn)
          /\ u.m.pool = pool /\ u.m.slaves = new /\ u.n = w.n
      BY <2>7, <2>8, <2>14 DEF Linked
    <3>2. ASSUME NEW j \in DOMAIN list
          PROVE  list[j].conn \in Conn /\ list[j].client_conn \in Conn \cup {NoConn} /\ c # NoConn
      BY <2>3, BoundAssumption DEF IsRecord
    <3>3. Index(u.m, NoConn)
      <4>1. ASSUME NEW j \in DOMAIN new
            PROVE  LET r == new[j]
                   IN pool[r.conn].auth = "slave" /\ pool[r.conn].slave_n = j /\ pool[r.conn].user = r.name
        <5>1. j \in DOMAIN list /\ new[j].conn = list[j].conn /\ new[j].name = list[j].name
          BY <2>4
        <5>2. LET r == list[j]
              IN /\ w.m.pool[r.conn].auth = "slave" /\ w.m.pool[r.conn].slave_n = j
                 /\ w.m.pool[r.conn].user = r.name
          BY <3>1, <5>1 DEF Index
        <5>3. list[j].conn \in Conn
          BY <3>2, <5>1
        <5>4. QED
          BY <2>6, <5>1, <5>2, <5>3
      <4>2. ASSUME NEW d \in Conn, pool[d].auth = "slave"
            PROVE  pool[d].slave_n \in DOMAIN new /\ new[pool[d].slave_n].conn = d
        <5>1. w.m.pool[d].auth = "slave" /\ w.m.pool[d].slave_n = pool[d].slave_n /\ d # NoConn
          BY <2>6, <4>2, BoundAssumption
        <5>2. pool[d].slave_n \in DOMAIN list /\ list[pool[d].slave_n].conn = d
          BY <3>1, <5>1 DEF Index
        <5>3. QED
          BY <2>4, <5>2
      <4>3. QED
        BY <3>1, <4>1, <4>2 DEF Index
    <3>5. ASSUME NEW j \in DOMAIN new, new[j].client_conn # NoConn
          PROVE  /\ pool[new[j].client_conn].auth = "client" /\ pool[new[j].conn].nolp = "LINE"
                 /\ \A k \in DOMAIN new : k # j => new[k].client_conn # new[j].client_conn
      <4>1. CASE j = i
        <5>1. /\ pool[new[j].client_conn].auth = "client" /\ pool[new[j].conn].nolp = "LINE"
              /\ new[j].client_conn = c
          <6>1. /\ new[j].conn = s /\ new[j].client_conn = c /\ s \in Conn /\ c \in Conn
                /\ w.m.pool[c].auth = "client"
            BY Zenon, <2>4, <2>14, <3>2, <4>1
          <6>2. QED
            BY Zenon, <2>6, <6>1
        <5>2. ASSUME NEW k \in DOMAIN new, k # j PROVE new[k].client_conn # c
          <6>1. new[k].client_conn = list[k].client_conn /\ k \in DOMAIN list
            BY Zenon, <2>4, <4>1, <5>2
          <6>2. QED
            BY Zenon, <2>14, <3>2, <6>1
        <5>3. QED
          BY Zenon, <5>1, <5>2
      <4>2. CASE j # i
        <5>1. list[j].client_conn = new[j].client_conn /\ list[j].conn = new[j].conn
          BY <2>4, <4>2
        <5>2. /\ w.m.pool[list[j].client_conn].auth = "client" /\ w.m.pool[list[j].conn].nolp = "LINE"
              /\ \A k \in DOMAIN list : k # j => list[k].client_conn # list[j].client_conn
          BY <2>4, <3>1, <3>5, <5>1 DEF Asked
        <5>3. /\ j \in DOMAIN list /\ list[j].conn \in Conn /\ list[j].client_conn \in Conn
              /\ list[j].client_conn # c
          BY <2>4, <2>14, <3>2, <3>5, <5>1
        <5>4. pool[list[j].client_conn].auth = "client" /\ pool[list[j].conn].nolp = "LINE"
          BY <2>6, <5>2, <5>3
        <5>5. \A k \in DOMAIN new : k # j => new[k].client_conn # list[j].client_conn
          BY Zenon, <2>4, <5>2, <5>3
        <5>6. QED
          BY <5>1, <5>4, <5>5
      <4>3. QED
        BY <4>1, <4>2
    <3>6. Asked(v.m, NoConn)
      <4>1. v.m.pool = pool /\ v.m.slaves = new
        BY Zenon, <2>13, <3>1
      <4>2. QED
        BY <3>5, <4>1 DEF Asked
    <3>7. ASSUME NEW j \in DOMAIN new, new[j].client_conn # NoConn
          PROVE  Comes(v.n, new[j].conn, Lost(new[j].name))
      <4>1. NetType(w.n) /\ "server" \in End /\ list[j].conn \in Conn
            /\ new[j].conn = list[j].conn /\ new[j].name = list[j].name
        BY Zenon, <2>4, <3>2, Ends DEF IsWorld
      <4>2. /\ NetType(v.n) /\ Frame(w.n, v.n, {}, {})
            /\ \A d \in Conn : v.n[d].open = w.n[d].open
        BY Zenon, <2>13, <3>1 DEF IsWorld
      <4>3. CASE j = i
        <5>1. CASE w.n[s].open # End
          <6>1. new[j].conn = s /\ v.n[s].open # End
            BY Zenon, <4>1, <4>2, <4>3, <5>1
          <6>2. QED
            BY Zenon, <6>1 DEF Comes
        <5>2. CASE w.n[s].open = End
          <6>1. s \in Conn /\ Peer("server") = "dialler" /\ "dialler" \in End
            BY <4>1, <4>3, Ends DEF Peer
          <6>2. v.n[s].queue["dialler"] = w.n[s].queue["dialler"] \o ms
            BY Zenon, <2>13, <3>1, <5>2, <6>1
          <6> DEFINE q == w.n[s].queue["dialler"]
                     r == v.n[s].queue["dialler"]
          <6>3. IsList(q)
            BY <4>1, <6>1 DEF NetType, IsChannel
          <6>4. Len(q) \in Nat
            BY Zenon, <6>3, ListDomain
          <6>5. Len(r) = Len(q) + 1 /\ r[Len(q) + 1] = ms[1]
            <7>1. /\ Len(q \o ms) = Len(q) + Len(ms)
                  /\ \A k \in 1..Len(ms) : (q \o ms)[Len(q) + k] = ms[k]
              <8>1. IsList(ms) /\ IsList(q)
                BY <2>12, <6>3
              <8> HIDE DEF q
              <8>2. QED
                BY <8>1, Concat, Zenon
            <7>2. 1 \in 1..Len(ms)
              BY <2>12
            <7>3. QED
              BY Zenon, <2>12, <6>2, <7>1, <7>2
          <6> HIDE DEF q, r
          <6>6. Len(q) + 1 \in 1..Len(r) /\ r[Len(q) + 1].kind = "CLIENT"
            BY <2>12, <6>4, <6>5
          <6>7. QED
            <7>1. new[j].conn = s
              BY Zenon, <4>1, <4>3
            <7>2. \E k \in 1..Len(v.n[s].queue["dialler"]) : v.n[s].queue["dialler"][k].kind = "CLIENT"
              BY Zenon, <6>6 DEF r
            <7>3. QED
              BY Zenon, <7>1, <7>2 DEF Comes
        <5>3. QED
          BY Zenon, <5>1, <5>2
      <4>4. CASE j # i
        <5>1. list[j].client_conn # NoConn
          BY <2>4, <3>7, <4>4
        <5>2. Comes(w.n, list[j].conn, Lost(list[j].name))
          BY <2>4, <3>1, <5>1 DEF Answering
        <5>3. "server" \in w.n[list[j].conn].open
          BY Zenon, <2>4, <2>14, <3>1, <3>2 DEF Sound, Served, Index
        <5>4. \A p : p \notin {} \cup {}
          OBVIOUS
        <5>5. QED
          BY <4>1, <4>2, <5>2, <5>3, <5>4, ComesStays
      <4>5. QED
        BY <4>3, <4>4
    <3>8. Answering(v, NoConn)
      BY Zenon, <2>13, <3>1, <3>7 DEF Answering
    <3>9. QED
      BY Zenon, <2>13, <3>3, <3>6, <3>8 DEF Linked
  <2>15. QED
    BY Zenon, <2>10, <2>11, <2>13, <2>14, <2>m
<1>3. QED
  BY <1>1, <1>2

-----------------------------------------------------------------------------
(* The record of a slave changes, a line of it is heard, and a slave is taken *)
(* into the list.                                                            *)

LEMMA IndexIntro ==
  ASSUME NEW m, NEW x, NEW pool, NEW list, m.pool = pool, m.slaves = list,
         \A i \in DOMAIN list : /\ pool[list[i].conn].auth = "slave" /\ pool[list[i].conn].slave_n = i
                                /\ pool[list[i].conn].user = list[i].name,
         \A c \in Conn : pool[c].auth = "slave" /\ c # x =>
           pool[c].slave_n \in DOMAIN list /\ list[pool[c].slave_n].conn = c
  PROVE  Index(m, x)
BY DEF Index

LEMMA AskedIntro ==
  ASSUME NEW m, NEW x, NEW pool, NEW list, m.pool = pool, m.slaves = list,
         \A i \in DOMAIN list : list[i].client_conn # NoConn =>
           /\ pool[list[i].client_conn].auth = "client"
           /\ list[i].client_conn # x =>
                /\ pool[list[i].conn].nolp = "LINE"
                /\ \A j \in DOMAIN list : j # i => list[j].client_conn # list[i].client_conn
  PROVE  Asked(m, x)
BY DEF Asked

LEMMA AnsweringIntro ==
  ASSUME NEW w, NEW x, NEW n, NEW list, w.n = n, w.m.slaves = list,
         \A i \in DOMAIN list : list[i].client_conn \notin {NoConn, x} =>
           Comes(n, list[i].conn, Lost(list[i].name))
  PROVE  Answering(w, x)
BY DEF Answering

(* The record of a slave changes, but not what it points to.                 *)
LEMMA RecordKeeps ==
  ASSUME NEW w, IsWorld(w), NEW i \in DOMAIN w.m.slaves, NEW r, IsRecord(r),
         r.conn = w.m.slaves[i].conn, r.name = w.m.slaves[i].name,
         r.client_conn = w.m.slaves[i].client_conn,
         NEW u, u = [m |-> [w.m EXCEPT !.slaves = [w.m.slaves EXCEPT ![i] = r]], n |-> w.n]
  PROVE  /\ IsWorld(u) /\ u.m.pool = w.m.pool /\ u.n = w.n
         /\ Sound(w) => Sound(u)
         /\ Mine(w) => Mine(u)
         /\ \A x : Linked(w, x) => Linked(u, x)
<1> DEFINE list == w.m.slaves
           new == [list EXCEPT ![i] = r]
           m == [w.m EXCEPT !.slaves = new]
<1>1. /\ Len(list) \in Nat /\ DOMAIN list = 1..Len(list) /\ \A j \in DOMAIN list : IsRecord(list[j])
      /\ list = [j \in 1..Len(list) |-> list[j]]
  BY ListDomain DEF IsWorld, IsMaster
<1>2. /\ DOMAIN new = DOMAIN list /\ new = [j \in 1..Len(list) |-> new[j]]
      /\ \A j \in DOMAIN list : IsRecord(new[j]) /\ new[j].conn = list[j].conn
           /\ new[j].name = list[j].name /\ new[j].client_conn = list[j].client_conn
  BY <1>1
<1>3. IsList(new)
  BY <1>1, <1>2, ListByDomain
<1> HIDE DEF new
<1>4. /\ m = [f \in MasterField |-> m[f]] /\ m.config = w.m.config /\ m.pool = w.m.pool
      /\ m.slaves = new
  BY DEF IsWorld, IsMaster, MasterField
<1>5. u = [m |-> m, n |-> w.n]
  BY DEF new
<1> HIDE DEF m
<1>6. u.m = m /\ u.n = w.n /\ u = [m |-> u.m, n |-> u.n]
  BY <1>5
<1>7. u.m.pool = w.m.pool /\ u.m.slaves = new
  BY <1>4, <1>6
<1>8. IsWorld(u)
  BY <1>2, <1>3, <1>4, <1>6 DEF IsWorld, IsMaster
<1>9. Sound(w) => Sound(u)
  BY <1>6, <1>7 DEF Sound, Served, Greets
<1>10. ASSUME NEW x, Linked(w, x) PROVE Linked(u, x)
  <2>1. Index(w.m, x) /\ Asked(w.m, x) /\ Answering(w, x)
    BY <1>10 DEF Linked
  <2>2. Index(u.m, x)
    <3>1. ASSUME NEW j \in DOMAIN new
          PROVE  /\ w.m.pool[new[j].conn].auth = "slave" /\ w.m.pool[new[j].conn].slave_n = j
                 /\ w.m.pool[new[j].conn].user = new[j].name
      <4>1. j \in DOMAIN list /\ new[j].conn = list[j].conn /\ new[j].name = list[j].name
        BY Zenon, <1>2
      <4>2. /\ w.m.pool[list[j].conn].auth = "slave" /\ w.m.pool[list[j].conn].slave_n = j
            /\ w.m.pool[list[j].conn].user = list[j].name
        BY Zenon, <2>1, <4>1 DEF Index
      <4>3. QED
        BY Zenon, <4>1, <4>2
    <3>2. ASSUME NEW d \in Conn, w.m.pool[d].auth = "slave", d # x
          PROVE  w.m.pool[d].slave_n \in DOMAIN new /\ new[w.m.pool[d].slave_n].conn = d
      BY Zenon, <1>2, <2>1, <3>2 DEF Index
    <3>3. QED
      BY ONLY <1>7, <3>1, <3>2, IndexIntro
  <2>3. Asked(u.m, x)
    <3>1. ASSUME NEW j \in DOMAIN new, new[j].client_conn # NoConn
          PROVE  /\ w.m.pool[new[j].client_conn].auth = "client"
                 /\ new[j].client_conn # x =>
                      /\ w.m.pool[new[j].conn].nolp = "LINE"
                      /\ \A k \in DOMAIN new : k # j => new[k].client_conn # new[j].client_conn
      <4>1. j \in DOMAIN list /\ new[j].conn = list[j].conn /\ new[j].client_conn = list[j].client_conn
        BY <1>2
      <4>2. /\ w.m.pool[list[j].client_conn].auth = "client"
            /\ list[j].client_conn # x =>
                 /\ w.m.pool[list[j].conn].nolp = "LINE"
                 /\ \A k \in DOMAIN list : k # j => list[k].client_conn # list[j].client_conn
        BY <2>1, <3>1, <4>1 DEF Asked
      <4>3. QED
        <5>1. ASSUME new[j].client_conn # x
              PROVE  \A k \in DOMAIN new : k # j => new[k].client_conn # new[j].client_conn
          BY Zenon, <1>2, <4>1, <4>2, <5>1
        <5>2. QED
          BY Zenon, <4>1, <4>2, <5>1
    <3>2. QED
      BY ONLY <1>7, <3>1, AskedIntro
  <2>4. Answering(u, x)
    <3>1. ASSUME NEW j \in DOMAIN new, new[j].client_conn \notin {NoConn, x}
          PROVE  Comes(w.n, new[j].conn, Lost(new[j].name))
      BY <1>2, <2>1, <3>1 DEF Answering
    <3>2. QED
      BY <1>6, <1>7, <3>1, AnsweringIntro
  <2>5. QED
    BY <2>2, <2>3, <2>4 DEF Linked
<1>11. QED
  BY <1>6, <1>7, <1>8, <1>9, <1>10 DEF Mine

(* The line of the slave at c has been taken: only that connection changes.   *)
HeardOf(w, v, c) ==
    /\ v.m.slaves = w.m.slaves /\ v.m.list = w.m.list
    /\ w.m.pool[c].auth = "slave" /\ v.m.pool[c].auth = "slave"
    /\ v.m.pool[c].user = w.m.pool[c].user /\ v.m.pool[c].slave_n = w.m.pool[c].slave_n
    /\ v.n[c].open = w.n[c].open /\ v.n[c].from = w.n[c].from /\ v.n[c].to = w.n[c].to
    /\ \A d \in Conn : d # c => v.m.pool[d] = w.m.pool[d] /\ v.n[d] = w.n[d]

LEMMA HeardKeeps ==
  ASSUME NEW w, IsWorld(w), NEW v, IsWorld(v), NEW c \in Conn, HeardOf(w, v, c)
  PROVE  /\ Fresh(w.m) => Fresh(v.m)
         /\ Sound(w) => Sound(v)
         /\ Mine(w) => Mine(v)
         /\ Linked(w, NoConn) => Linked(v, w.m.slaves[w.m.pool[c].slave_n].client_conn)
<1> DEFINE pool == v.m.pool
           list == w.m.slaves
           i == w.m.pool[c].slave_n
           x == list[i].client_conn
           e == v.m.pool[c]
           k == v.n
<1>1. /\ \A d \in Conn : d # c => pool[d] = w.m.pool[d] /\ k[d] = w.n[d]
      /\ e.auth = "slave" /\ e.user = w.m.pool[c].user /\ e.slave_n = i
      /\ w.m.pool[c].auth = "slave"
      /\ k[c].open = w.n[c].open /\ k[c].from = w.n[c].from /\ k[c].to = w.n[c].to
      /\ pool[c] = e
  BY DEF HeardOf
<1>5. v.m.pool = pool /\ v.m.slaves = list /\ v.m.list = w.m.list
  BY DEF HeardOf
<1>4. v.n = k
  OBVIOUS
<1> HIDE DEF pool, k, e
<1>7. Fresh(w.m) => Fresh(v.m)
  BY <1>5 DEF Fresh
<1>8. Sound(w) => Sound(v)
  <2>1. Served(w) => Served(v)
    BY <1>1, <1>4, <1>5 DEF Served
  <2>2. Greets(w) => Greets(v)
    BY ZenonT(30), <1>1, <1>4, <1>5 DEF Greets
  <2>3. QED
    BY <2>1, <2>2 DEF Sound
<1>9. ASSUME Linked(w, NoConn) PROVE Linked(v, x)
  <2>1. Index(w.m, NoConn) /\ Asked(w.m, NoConn) /\ Answering(w, NoConn)
    BY <1>9 DEF Linked
  <2>2. i \in DOMAIN list /\ list[i].conn = c
    BY <1>1, <2>1, BoundAssumption DEF Index
  <2>3. ASSUME NEW j \in DOMAIN list, j # i
        PROVE  list[j].conn # c /\ list[j].conn \in Conn /\ pool[list[j].conn] = w.m.pool[list[j].conn]
               /\ k[list[j].conn] = w.n[list[j].conn]
    <3>1. list[j].conn \in Conn
      BY DEF IsWorld, IsMaster, IsRecord
    <3>2. list[j].conn # c
      BY <2>1, <2>3 DEF Index
    <3>3. QED
      BY <1>1, <3>1, <3>2
  <2>4. Index(v.m, x)
    <3>1. ASSUME NEW j \in DOMAIN list
          PROVE  /\ pool[list[j].conn].auth = "slave" /\ pool[list[j].conn].slave_n = j
                 /\ pool[list[j].conn].user = list[j].name
      <4>1. /\ w.m.pool[list[j].conn].auth = "slave" /\ w.m.pool[list[j].conn].slave_n = j
            /\ w.m.pool[list[j].conn].user = list[j].name
        BY Zenon, <2>1 DEF Index
      <4>2. CASE j = i
        BY Zenon, <1>1, <2>2, <4>1, <4>2
      <4>3. CASE j # i
        BY <2>3, <4>1, <4>3
      <4>4. QED
        BY <4>2, <4>3
    <3>2. ASSUME NEW d \in Conn, pool[d].auth = "slave"
          PROVE  pool[d].slave_n \in DOMAIN list /\ list[pool[d].slave_n].conn = d
      <4>1. w.m.pool[d].auth = "slave" /\ w.m.pool[d].slave_n = pool[d].slave_n /\ d # NoConn
        BY <1>1, <3>2, BoundAssumption
      <4>2. QED
        BY <2>1, <4>1 DEF Index
    <3>3. QED
      BY <1>5, <3>1, <3>2, IndexIntro
  <2>5. Asked(v.m, x)
    <3>1. ASSUME NEW j \in DOMAIN list, list[j].client_conn # NoConn
          PROVE  /\ pool[list[j].client_conn].auth = "client"
                 /\ list[j].client_conn # x =>
                      /\ pool[list[j].conn].nolp = "LINE"
                      /\ \A h \in DOMAIN list : h # j => list[h].client_conn # list[j].client_conn
      <4>1. /\ w.m.pool[list[j].client_conn].auth = "client" /\ w.m.pool[list[j].conn].nolp = "LINE"
            /\ \A h \in DOMAIN list : h # j => list[h].client_conn # list[j].client_conn
        BY <2>1, <3>1 DEF Asked
      <4>2. list[j].client_conn \in Conn
        BY <3>1 DEF IsWorld, IsMaster, IsRecord
      <4>3. pool[list[j].client_conn].auth = "client"
        BY Zenon, <1>1, <4>1, <4>2
      <4>4. QED
        BY <2>3, <4>1, <4>3
    <3>2. QED
      BY <1>5, <3>1 DEF Asked
  <2>6. Answering(v, x)
    <3>1. ASSUME NEW j \in DOMAIN list, list[j].client_conn \notin {NoConn, x}
          PROVE  Comes(k, list[j].conn, Lost(list[j].name))
      <4>1. Comes(w.n, list[j].conn, Lost(list[j].name))
        BY <2>1, <3>1 DEF Answering
      <4>2. k[list[j].conn] = w.n[list[j].conn]
        BY <2>3, <3>1
      <4>3. QED
        BY Zenon, <4>1, <4>2 DEF Comes
    <3>2. QED
      <4>1. v.n = k /\ v.m.slaves = list
        BY Zenon, <1>4, <1>5
      <4>2. QED
        BY Zenon, <3>1, <4>1, AnsweringIntro
  <2>7. QED
    BY Zenon, <2>4, <2>5, <2>6 DEF Linked
<1>11. ASSUME Mine(w) PROVE Mine(v)
  <2>1. \A d \in Conn : k[d].open = w.n[d].open /\ k[d].from = w.n[d].from /\ k[d].to = w.n[d].to
    BY <1>1
  <2>2. QED
    BY <1>4, <1>11, <2>1 DEF Mine, Untouched, Stays
<1>10. QED
  BY <1>7, <1>8, <1>9, <1>11

(* What the master keeps to, but for the client or the slave at x.           *)
Right(w, x) == Sound(w) /\ Linked(w, x) /\ Mine(w)

LEMMA SettingsSent ==
  ASSUME NEW u, IsWorld(u), NEW c,
         NEW v, v = Refreshed(Tell(u, c, Settings))
  PROVE  /\ IsWorld(v) /\ Fresh(v.m)
         /\ Right(u, NoConn) => Right(v, NoConn)
<1>1. IsList(Settings)
  <2>1. IsList(<<Line("CONFIG"), Line("config")>>)
    BY Singles
  <2>2. IsList(<<Line("HOOK"), Line("hook")>>)
    BY Singles
  <2>3. IsList(IF master.config.hook THEN <<Line("HOOK"), Line("hook")>> ELSE <<>>)
    BY <2>2, EmptyList
  <2>4. QED
    BY <2>1, <2>3, Concat DEF Settings
<1>2. PICK t : t = Tell(u, c, Settings)
  OBVIOUS
<1>3. /\ IsWorld(t)
      /\ Right(u, NoConn) => Right(t, NoConn)
  BY <1>1, <1>2, TellKeeps DEF Right
<1>4. v = Refreshed(t)
  BY <1>2
<1>5. /\ IsWorld(v) /\ Fresh(v.m)
      /\ Right(t, NoConn) => Right(v, NoConn)
  BY <1>3, <1>4, RefreshedKeeps DEF Right
<1>6. QED
  BY <1>3, <1>5

(* A slave gets a record.                                                    *)
LEMMA TakeSlaveKeeps ==
  ASSUME NEW w, IsWorld(w), NEW c \in Conn, w.m.pool[c].auth = "slave",
         w.m.pool[c].user \in Slave, NEW ready \in BOOLEAN,
         NEW v, v = TakeSlave(w, c, ready)
  PROVE  /\ IsWorld(v) /\ Fresh(v.m)
         /\ Right(w, c) /\ Unreferenced(w.m, c) => Right(v, NoConn)
<1> DEFINE list == w.m.slaves
           r == [name |-> w.m.pool[c].user, conn |-> c, clients |-> {}, client_conn |-> NoConn,
                 ready |-> ready]
           new == Append(list, r)
           e == [w.m.pool[c] EXCEPT !.slave_n = Len(list) + 1]
           pool == [w.m.pool EXCEPT ![c] = e]
           m == [w.m EXCEPT !.slaves = new, !.pool = pool]
           u == [m |-> m, n |-> w.n]
<1>1. v = Refreshed(Tell(u, c, Settings))
  <2>1. v = Refreshed(Tell([w EXCEPT !.m.slaves = new, !.m.pool[c].slave_n = Len(list) + 1], c, Settings))
    BY DEF TakeSlave, NewIndex, IsWorld, IsMaster, MasterField
  <2>2. [w EXCEPT !.m.slaves = new, !.m.pool[c].slave_n = Len(list) + 1] = u
    <3>1. w = [m |-> w.m, n |-> w.n] /\ w.m = [f \in MasterField |-> w.m[f]]
      BY DEF IsWorld, IsMaster
    <3> HIDE DEF new
    <3> DEFINE m1 == [w.m EXCEPT !.slaves = new]
               w1 == [m |-> m1, n |-> w.n]
    <3>2. [w EXCEPT !.m.slaves = new] = w1
      BY <3>1 DEF MasterField
    <3>3. /\ m1 = [f \in MasterField |-> m1[f]] /\ m1.pool = w.m.pool
          /\ [m1 EXCEPT !.pool = pool] = m
      BY <3>1 DEF MasterField
    <3> HIDE DEF m1
    <3>4. [m1 EXCEPT !.pool[c].slave_n = Len(list) + 1] = m
      BY <3>3 DEF MasterField
    <3>5. w1 = [m |-> m1, n |-> w.n]
          => [w1 EXCEPT !.m.pool[c].slave_n = Len(list) + 1]
               = [w1 EXCEPT !.m = [m1 EXCEPT !.pool[c].slave_n = Len(list) + 1]]
      OBVIOUS
    <3>6. [w1 EXCEPT !.m.pool[c].slave_n = Len(list) + 1] = u
      BY <3>4, <3>5
    <3> HIDE DEF w1
    <3>7. QED
      BY <3>2, <3>6
  <2>3. QED
    BY <2>1, <2>2
<1>2. /\ IsList(list) /\ Len(list) \in Nat /\ DOMAIN list = 1..Len(list)
      /\ \A j \in DOMAIN list : IsRecord(list[j])
  BY ListDomain DEF IsWorld, IsMaster
<1>3. IsRecord(r) /\ r.conn = c /\ r.client_conn = NoConn /\ r.name = w.m.pool[c].user
  BY DEF IsRecord, RecordField
<1> HIDE DEF r
<1>4. /\ IsList(new) /\ Len(new) = Len(list) + 1
      /\ \A i \in 1..Len(list) : new[i] = list[i]
      /\ new[Len(list) + 1] = r
  BY <1>2, Append1
<1> HIDE DEF new
<1>5. DOMAIN new = 1..(Len(list) + 1)
  BY <1>4, ListDomain
<1>6. /\ e \in Entry /\ e.auth = "slave" /\ e.user = w.m.pool[c].user /\ e.slave_n = Len(list) + 1
  <2>1. w.m.pool[c] \in Entry
    BY DEF IsWorld, IsMaster
  <2>2. Len(list) + 1 \in Nat
    BY <1>2
  <2>3. QED
    BY <2>1, <2>2 DEF Entry
<1> HIDE DEF e
<1>7. /\ pool \in [Conn -> Entry] /\ pool[c] = e
      /\ \A d \in Conn : d # c => pool[d] = w.m.pool[d]
  BY <1>6 DEF IsWorld, IsMaster
<1> HIDE DEF pool
<1>8. /\ m = [f \in MasterField |-> m[f]] /\ m.config = w.m.config /\ m.pool = pool
      /\ m.slaves = new
  BY DEF IsWorld, IsMaster, MasterField
<1> HIDE DEF m
<1>9. u.m = m /\ u.n = w.n /\ u = [m |-> u.m, n |-> u.n]
  OBVIOUS
<1> HIDE DEF u
<1>10. ASSUME NEW j \in DOMAIN new
       PROVE  \/ j \in DOMAIN list /\ new[j] = list[j] /\ j # Len(list) + 1
              \/ j = Len(list) + 1 /\ new[j] = r
  BY <1>2, <1>4, <1>5
<1>11. IsWorld(u)
  BY <1>2, <1>3, <1>4, <1>7, <1>8, <1>9, <1>10 DEF IsWorld, IsMaster
<1>12. ASSUME Sound(w) PROVE Sound(u)
  <2>1. u.m.pool = pool /\ u.n = w.n
    BY <1>8, <1>9
  <2>2. Served(u)
    BY <1>6, <1>7, <1>12, <2>1 DEF Sound, Served
  <2>3. Greets(u)
    BY <1>6, <1>7, <1>12, <2>1 DEF Sound, Greets
  <2>4. QED
    BY <2>2, <2>3 DEF Sound
<1>13. ASSUME Linked(w, c), Unreferenced(w.m, c) PROVE Linked(u, NoConn)
  <2>1. /\ Index(w.m, c) /\ Asked(w.m, c) /\ Answering(w, c)
        /\ u.m.pool = pool /\ u.m.slaves = new /\ u.n = w.n
        /\ \A j \in DOMAIN list : list[j].conn # c /\ list[j].client_conn # c
    BY <1>8, <1>9, <1>13 DEF Linked, Unreferenced
  <2>2. \A j \in DOMAIN list : list[j].conn \in Conn /\ pool[list[j].conn] = w.m.pool[list[j].conn]
          /\ (list[j].client_conn # NoConn =>
                /\ list[j].client_conn \in Conn
                /\ pool[list[j].client_conn] = w.m.pool[list[j].client_conn])
    BY <1>2, <1>7, <2>1 DEF IsRecord
  <2>3. ASSUME NEW j \in DOMAIN new
        PROVE  LET q == new[j]
               IN pool[q.conn].auth = "slave" /\ pool[q.conn].slave_n = j /\ pool[q.conn].user = q.name
    <3>1. CASE j = Len(list) + 1 /\ new[j] = r
      BY <1>3, <1>6, <1>7, <3>1
    <3>2. CASE j \in DOMAIN list /\ new[j] = list[j]
      BY <2>1, <2>2, <3>2 DEF Index
    <3>3. QED
      BY <1>10, <3>1, <3>2
  <2>4. ASSUME NEW d \in Conn, pool[d].auth = "slave"
        PROVE  pool[d].slave_n \in DOMAIN new /\ new[pool[d].slave_n].conn = d
    <3>1. CASE d = c
      BY <1>2, <1>3, <1>4, <1>5, <1>6, <1>7, <3>1
    <3>2. CASE d # c
      <4>1. pool[d].slave_n \in DOMAIN list /\ list[pool[d].slave_n].conn = d
        BY <1>7, <2>1, <2>4, <3>2 DEF Index
      <4>2. QED
        BY <1>2, <1>4, <1>5, <4>1
    <3>3. QED
      BY <3>1, <3>2
  <2>5. Index(u.m, NoConn)
    BY <2>1, <2>3, <2>4 DEF Index
  <2>6. ASSUME NEW j \in DOMAIN new, new[j].client_conn # NoConn
        PROVE  /\ pool[new[j].client_conn].auth = "client" /\ pool[new[j].conn].nolp = "LINE"
               /\ \A k \in DOMAIN new : k # j => new[k].client_conn # new[j].client_conn
               /\ Comes(u.n, new[j].conn, Lost(new[j].name))
    <3>1. j \in DOMAIN list /\ new[j] = list[j]
      BY <1>3, <1>10, <2>6
    <3>2. /\ w.m.pool[list[j].client_conn].auth = "client" /\ w.m.pool[list[j].conn].nolp = "LINE"
          /\ \A k \in DOMAIN list : k # j => list[k].client_conn # list[j].client_conn
      BY <2>1, <2>6, <3>1 DEF Asked
    <3>3. Comes(u.n, list[j].conn, Lost(list[j].name))
      BY <2>1, <2>6, <3>1 DEF Answering
    <3>4. \A k \in DOMAIN new : k # j => new[k].client_conn # new[j].client_conn
      BY <1>3, <1>10, <2>6, <3>1, <3>2
    <3>5. QED
      BY <2>2, <2>6, <3>1, <3>2, <3>3, <3>4
  <2>7. Asked(u.m, NoConn)
    BY <2>1, <2>6 DEF Asked
  <2>8. Answering(u, NoConn)
    BY <2>1, <2>6 DEF Answering
  <2>9. QED
    BY <2>5, <2>7, <2>8 DEF Linked
<1>m. Mine(w) => Mine(u)
  BY <1>9 DEF Mine
<1>14. /\ IsWorld(v) /\ Fresh(v.m)
       /\ Right(u, NoConn) => Right(v, NoConn)
  BY <1>1, <1>11, SettingsSent
<1>15. QED
  BY ONLY Zenon, <1>12, <1>13, <1>14, <1>m DEF Right

-----------------------------------------------------------------------------
(* The entry of a connection that nothing points to changes.                 *)
LEMMA EntryKeeps ==
  ASSUME NEW w, IsWorld(w), NEW c \in Conn, w.m.pool[c].auth \in {"absent", "none"},
         NEW e \in Entry,
         NEW k, NetType(k), \A d \in Conn : d # c => k[d] = w.n[d],
         NEW v, v = [m |-> [w.m EXCEPT !.pool = [w.m.pool EXCEPT ![c] = e]], n |-> k]
  PROVE  /\ IsWorld(v) /\ v.n = k /\ v.m.pool = [w.m.pool EXCEPT ![c] = e]
         /\ v.m.slaves = w.m.slaves
         /\ Fresh(w.m) => Fresh(v.m)
         /\ Linked(w, NoConn) => Linked(v, c) /\ Unreferenced(v.m, c)
<1> DEFINE pool == [w.m.pool EXCEPT ![c] = e]
           m == [w.m EXCEPT !.pool = pool]
           list == w.m.slaves
<1>1. /\ pool \in [Conn -> Entry] /\ pool[c] = e
      /\ \A d \in Conn : d # c => pool[d] = w.m.pool[d]
  BY DEF IsWorld, IsMaster
<1> HIDE DEF pool
<1>2. /\ m = [f \in MasterField |-> m[f]] /\ m.config = w.m.config /\ m.pool = pool
      /\ m.slaves = list /\ m.list = w.m.list
  BY DEF IsWorld, IsMaster, MasterField
<1>3. v = [m |-> m, n |-> k]
  BY DEF pool
<1> HIDE DEF m
<1>4. v.m = m /\ v.n = k /\ v = [m |-> v.m, n |-> v.n]
  BY <1>3
<1>5. v.m.pool = pool /\ v.m.slaves = list /\ v.m.list = w.m.list
  BY <1>2, <1>4
<1>6. IsWorld(v)
  BY <1>1, <1>2, <1>4 DEF IsWorld, IsMaster
<1>7. Fresh(w.m) => Fresh(v.m)
  BY <1>5 DEF Fresh
<1>8. ASSUME Linked(w, NoConn) PROVE Linked(v, c) /\ Unreferenced(v.m, c)
  <2>1. Index(w.m, NoConn) /\ Asked(w.m, NoConn) /\ Answering(w, NoConn)
    BY <1>8 DEF Linked
  <2>2. ASSUME NEW j \in DOMAIN list
        PROVE  /\ list[j].conn \in Conn \ {c} /\ list[j].client_conn \in Conn \cup {NoConn}
               /\ list[j].client_conn # c
    <3>1. list[j].conn \in Conn /\ list[j].client_conn \in Conn \cup {NoConn}
      BY DEF IsWorld, IsMaster, IsRecord
    <3>2. list[j].conn # c
      BY <2>1 DEF Index
    <3>3. list[j].client_conn # c
      BY <2>1, BoundAssumption DEF Asked
    <3>4. QED
      BY <3>1, <3>2, <3>3
  <2>3. Unreferenced(v.m, c)
    BY <1>5, <2>2 DEF Unreferenced
  <2>4. Index(v.m, c)
    <3>1. ASSUME NEW j \in DOMAIN list
          PROVE  /\ pool[list[j].conn].auth = "slave" /\ pool[list[j].conn].slave_n = j
                 /\ pool[list[j].conn].user = list[j].name
      <4>1. /\ w.m.pool[list[j].conn].auth = "slave" /\ w.m.pool[list[j].conn].slave_n = j
            /\ w.m.pool[list[j].conn].user = list[j].name
        BY <2>1 DEF Index
      <4>2. QED
        BY <1>1, <2>2, <4>1
    <3>2. ASSUME NEW d \in Conn, pool[d].auth = "slave", d # c
          PROVE  pool[d].slave_n \in DOMAIN list /\ list[pool[d].slave_n].conn = d
      <4>1. w.m.pool[d].auth = "slave" /\ w.m.pool[d].slave_n = pool[d].slave_n /\ d # NoConn
        BY <1>1, <3>2, BoundAssumption
      <4>2. QED
        BY <2>1, <4>1 DEF Index
    <3>3. QED
      BY <1>5, <3>1, <3>2, IndexIntro
  <2>5. Asked(v.m, c)
    <3>1. ASSUME NEW j \in DOMAIN list, list[j].client_conn # NoConn
          PROVE  /\ pool[list[j].client_conn].auth = "client"
                 /\ list[j].client_conn # c =>
                      /\ pool[list[j].conn].nolp = "LINE"
                      /\ \A h \in DOMAIN list : h # j => list[h].client_conn # list[j].client_conn
      <4>1. /\ w.m.pool[list[j].client_conn].auth = "client" /\ w.m.pool[list[j].conn].nolp = "LINE"
            /\ \A h \in DOMAIN list : h # j => list[h].client_conn # list[j].client_conn
        BY <2>1, <3>1 DEF Asked
      <4>2. QED
        BY <1>1, <2>2, <3>1, <4>1
    <3>2. QED
      BY <1>5, <3>1, AskedIntro
  <2>6. Answering(v, c)
    <3>1. ASSUME NEW j \in DOMAIN list, list[j].client_conn \notin {NoConn, c}
          PROVE  Comes(k, list[j].conn, Lost(list[j].name))
      <4>1. Comes(w.n, list[j].conn, Lost(list[j].name))
        BY <2>1, <3>1 DEF Answering
      <4>2. k[list[j].conn] = w.n[list[j].conn]
        BY <2>2
      <4>3. QED
        BY Zenon, <4>1, <4>2 DEF Comes
    <3>2. QED
      BY Zenon, <1>4, <1>5, <3>1, AnsweringIntro
  <2>7. QED
    BY <2>3, <2>4, <2>5, <2>6 DEF Linked
<1>9. QED
  BY <1>4, <1>5, <1>6, <1>7, <1>8 DEF pool

LEMMA LinkedAll ==
  ASSUME NEW w, NEW c, IsWorld(w), Linked(w, c), Unreferenced(w.m, c), w.m.pool[c].auth # "slave"
  PROVE  Linked(w, NoConn)
<1>1. Index(w.m, c) /\ Asked(w.m, c) /\ Answering(w, c)
  BY DEF Linked
<1>2. Index(w.m, NoConn)
  BY <1>1 DEF Index
<1>3. Asked(w.m, NoConn)
  BY <1>1 DEF Asked, Unreferenced
<1>4. Answering(w, NoConn)
  BY <1>1 DEF Answering, Unreferenced
<1>5. QED
  BY <1>2, <1>3, <1>4 DEF Linked

Good(w) == IsWorld(w) /\ Fresh(w.m)
MasterInv == Good(World) /\ ("db" \notin faults => Right(World, NoConn))

(* A step of the master.                                                     *)
Done == MasterInv' /\ ("db" \notin faults' => Untouched(net'))

LEMMA WorldParts == World.m = master /\ World.n = net
BY DEF World

LEMMA MineNow ==
  ASSUME NetType(net)
  PROVE  Untouched(net)
BY DEF Untouched, Stays

LEMMA MasterMoves ==
  ASSUME NEW w, Good(w), Becomes(w), slave' = slave, "db" \notin faults' => Right(w, NoConn)
  PROVE  Done
<1>1. master' = w.m /\ net' = w.n /\ w = [m |-> w.m, n |-> w.n] /\ Good(w)
  BY DEF Becomes, Good, IsWorld
<1>2. World' = w
  BY <1>1 DEF World
<1>3. Good(World)'
  <2>1. Good(World')
    BY <1>1, <1>2
  <2>2. QED
    BY <2>1 DEF Good, IsWorld, IsMaster, IsRecord, Fresh
<1>4. ASSUME Linked(w, NoConn) PROVE (Linked(World, NoConn))'
  <2>1. Index(w.m, NoConn) /\ Asked(w.m, NoConn) /\ Answering(w, NoConn)
    BY <1>4 DEF Linked
  <2>2. Index(World'.m, NoConn) /\ Asked(World'.m, NoConn)
    BY <1>2, <2>1
  <2>3. (Answering(World, NoConn))'
    BY <1>2, <2>1 DEF Answering, Lost
  <2>4. QED
    BY <2>2, <2>3 DEF Linked
<1>5. ASSUME Sound(w) PROVE Sound(World)'
  <2>1. Sound(World')
    BY <1>2, <1>5
  <2>2. QED
    BY <2>1 DEF Sound, Served, Greets
<1>6. Mine(World)'
  <2>1. NetType(net')
    BY <1>1 DEF Good, IsWorld
  <2>2. Untouched(net)'
    BY <2>1 DEF Untouched, Stays
  <2>3. QED
    BY <2>2 DEF Mine, World
<1>7. Mine(w) => Untouched(net')
  BY <1>1 DEF Mine
<1>8. QED
  BY <1>3, <1>4, <1>5, <1>6, <1>7 DEF MasterInv, Right, Done

LEMMA AcceptStep ==
  ASSUME MasterInv, NEW c \in Conn, Accept(c), slave' = slave, faults' = faults
  PROVE  Done
<1> DEFINE e == [Absent EXCEPT !.auth = "none"]
           m == [master EXCEPT !.pool = [master.pool EXCEPT ![c] = e]]
           v == [m |-> m, n |-> net]
<1>1. IsWorld(World) /\ Fresh(master) /\ ("db" \notin faults => Right(World, NoConn))
  BY WorldParts DEF MasterInv, Good
<1>2. IsMaster(master) /\ NetType(net)
  BY <1>1, WorldParts DEF IsWorld
<1>3. e \in Entry /\ e.auth = "none"
  BY DEF Absent, Entry
<1>4. master' = m /\ net' = net
  BY <1>2 DEF Accept, IsMaster, MasterField
<1>5. master.pool[c].auth = "absent"
  BY AbsentEntry DEF Accept
<1> HIDE DEF e
<1>6. v = [m |-> [World.m EXCEPT !.pool = [World.m.pool EXCEPT ![c] = e]], n |-> net]
  BY WorldParts
<1>7. v.m = m /\ v.n = net
  OBVIOUS
<1> HIDE DEF v
<1>8. /\ IsWorld(v) /\ v.m.pool = [master.pool EXCEPT ![c] = e]
      /\ Fresh(v.m)
      /\ "db" \notin faults => Linked(v, c) /\ Unreferenced(v.m, c)
  BY <1>1, <1>2, <1>3, <1>5, <1>6, WorldParts, EntryKeeps DEF Right
<1>9. v.m.pool[c] = e /\ \A d \in Conn : d # c => v.m.pool[d] = master.pool[d]
  BY <1>2, <1>8 DEF IsMaster
<1>10. ASSUME "db" \notin faults PROVE Right(v, NoConn)
  <2>1. Served(World) /\ Greets(World)
    BY <1>1, <1>10 DEF Right, Sound
  <2>2. Served(v)
    BY <1>2, <1>3, <1>7, <1>9, <2>1, WorldParts DEF Served, Accept
  <2>3. Greets(v)
    BY <1>2, <1>3, <1>5, <1>7, <1>9, <2>1, WorldParts DEF Greets
  <2>4. Linked(v, NoConn)
    BY <1>3, <1>8, <1>9, <1>10, LinkedAll
  <2>5. Mine(v)
    BY <1>2, <1>7, MineNow DEF Mine
  <2>6. QED
    BY <2>2, <2>3, <2>4, <2>5 DEF Right, Sound
<1>13. Becomes(v)
  BY <1>4, <1>7 DEF Becomes
<1>14. QED
  BY <1>8, <1>10, <1>13, MasterMoves DEF Good

(* The entry of a connection gets its login.                                *)
LEMMA LoggedInIs ==
  ASSUME NEW c \in Conn, IsMaster(master)
  PROVE  LoggedIn(c) =
           Tell([m |-> [master EXCEPT !.pool = [master.pool EXCEPT ![c] =
                    [master.pool[c] EXCEPT !.auth = Kind(First(c, "server").arg),
                                           !.user = First(c, "server").arg]]],
                 n |-> Taken(net, c, "server")],
                c, <<Line("100")>>)
<1> DEFINE a == Kind(First(c, "server").arg)
           b == First(c, "server").arg
           e == [master.pool[c] EXCEPT !.auth = a, !.user = b]
           p == [master.pool EXCEPT ![c] = e]
           p1 == [master.pool EXCEPT ![c] = [master.pool[c] EXCEPT !.auth = a]]
           m1 == [master EXCEPT !.pool = p1]
           m2 == [master EXCEPT !.pool = p]
           w1 == [m |-> m1, n |-> net]
           w2 == [m |-> m2, n |-> net]
<1> HIDE DEF a, b
<1>1. master = [f \in MasterField |-> master[f]] /\ master.pool \in [Conn -> Entry]
  BY DEF IsMaster
<1>2. [World EXCEPT !.m.pool[c].auth = a] = w1
  <2>1. [master EXCEPT !.pool[c].auth = a] = m1
    BY <1>1 DEF MasterField
  <2>2. [World EXCEPT !.m.pool[c].auth = a]
        = [World EXCEPT !.m = [master EXCEPT !.pool[c].auth = a]]
    BY DEF World
  <2>3. QED
    BY <2>1, <2>2 DEF World
<1>3. [p1 EXCEPT ![c].user = b] = p
  BY <1>1
<1>4. /\ m1 = [f \in MasterField |-> m1[f]] /\ m1.pool = p1 /\ m1.up = master.up
      /\ m1.config = master.config /\ m1.slaves = master.slaves /\ m1.list = master.list
  BY <1>1 DEF MasterField
<1> HIDE DEF m1, p1, e
<1>5. [m1 EXCEPT !.pool[c].user = b] = m2
  <2>1. [m1 EXCEPT !.pool[c].user = b] = [m1 EXCEPT !.pool = [p1 EXCEPT ![c].user = b]]
    BY <1>4
  <2>2. QED
    BY <1>1, <1>3, <1>4, <2>1 DEF MasterField
<1> HIDE DEF m2
<1>6. [w1 EXCEPT !.m.pool[c].user = b] = w2
  <2>1. w1 = [m |-> m1, n |-> net]
        => [w1 EXCEPT !.m.pool[c].user = b] = [w1 EXCEPT !.m = [m1 EXCEPT !.pool[c].user = b]]
    OBVIOUS
  <2>2. QED
    BY <1>5, <2>1
<1>7. [w2 EXCEPT !.n = Taken(@, c, "server")] = [m |-> m2, n |-> Taken(net, c, "server")]
  OBVIOUS
<1> HIDE DEF w1, w2
<1>8. [World EXCEPT !.m.pool[c].auth = a, !.m.pool[c].user = b, !.n = Taken(@, c, "server")]
      = [[[World EXCEPT !.m.pool[c].auth = a] EXCEPT !.m.pool[c].user = b] EXCEPT !.n = Taken(@, c, "server")]
  OBVIOUS
<1>9. QED
  <2>1. LoggedIn(c) = Tell([World EXCEPT !.m.pool[c].auth = a, !.m.pool[c].user = b,
                                         !.n = Taken(@, c, "server")], c, <<Line("100")>>)
    BY DEF LoggedIn, a, b
  <2>2. LoggedIn(c) = Tell([m |-> m2, n |-> Taken(net, c, "server")], c, <<Line("100")>>)
    BY <1>2, <1>6, <1>7, <1>8, <2>1
  <2>3. QED
    BY <2>2 DEF m2, p, e, a, b

(* The login is that of the node that dialled.                               *)
LEMMA LoggedInKeeps ==
  ASSUME MasterInv, NEW c \in Conn, Login(c),
         NEW v, v = LoggedIn(c)
  PROVE  /\ IsWorld(v) /\ Fresh(v.m)
         /\ v.m.pool[c].auth = Kind(First(c, "server").arg)
         /\ v.m.pool[c].user = First(c, "server").arg
         /\ "db" \notin faults => Right(v, c) /\ Unreferenced(v.m, c)
<1> DEFINE a == First(c, "server").arg
           q == net[c].queue["server"]
           e == [master.pool[c] EXCEPT !.auth = Kind(a), !.user = a]
           k == Taken(net, c, "server")
           u == [m |-> [master EXCEPT !.pool = [master.pool EXCEPT ![c] = e]], n |-> k]
           ms == <<Line("100")>>
<1>1. IsWorld(World) /\ Fresh(master) /\ ("db" \notin faults => Right(World, NoConn))
  BY WorldParts DEF MasterInv, Good
<1>2. IsMaster(master) /\ NetType(net)
  BY <1>1, WorldParts DEF IsWorld
<1>3. v = Tell(u, c, ms)
  BY Zenon, <1>2, LoggedInIs
<1>4. /\ master.pool[c] \in Entry /\ master.pool[c].auth = "none" /\ q # <<>>
      /\ "server" \in net[c].open /\ a \in master.config.known
  BY <1>2 DEF Login, Reads, Waiting, IsMaster
<1>7. ASSUME Sound(World) PROVE a = net[c].from /\ net[c].to = Master
  <2>1. net[c].to = Master
    BY <1>2, <1>4, <1>7, WorldParts DEF Sound, Served
  <2>2. q[1] = Msg("AUTH", net[c].from)
    BY <1>2, <1>4, <1>7, <2>1, WorldParts DEF Sound, Greets
  <2>3. IsList(q)
    BY <1>2, Ends DEF NetType, IsChannel
  <2>4. Head(q) = q[1]
    BY <1>4, <2>3, ListDomain
  <2>5. QED
    BY <2>1, <2>2, <2>4 DEF First, Msg
<1>8. a \in Slave \cup Client
  BY <1>2, <1>4, ConfigAssumption DEF IsMaster
<1>9. Kind(a) \in {"slave", "client"} /\ (Kind(a) = "slave" => a \in Slave)
  BY DEF Kind
<1> HIDE DEF a
<1>10. e \in Entry /\ e.auth = Kind(a) /\ e.user = a
  BY <1>4, <1>8, <1>9 DEF Entry
<1> HIDE DEF e, q
<1>11. /\ NetType(k)
       /\ \A d \in Conn : k[d].open = net[d].open /\ k[d].from = net[d].from /\ k[d].to = net[d].to
       /\ \A d \in Conn : \A f \in End : d # c => k[d].queue[f] = net[d].queue[f]
  <2>1. PICK n : n = net
    OBVIOUS
  <2>2. PICK v1 : v1 = k
    OBVIOUS
  <2>3. NetType(n) /\ "server" \in n[c].open /\ n[c].queue["server"] # <<>> /\ "server" \in End
        /\ v1 = Taken(n, c, "server")
    BY <1>2, <1>4, <2>1, <2>2, Ends DEF q
  <2>4. NetType(v1)
    BY <2>3, TakenNet
  <2>5. \A d \in Conn : d # c => v1[d] = n[d]
    BY <2>3, Ends DEF Taken, NetType
  <2>6. v1[c].open = n[c].open /\ v1[c].from = n[c].from /\ v1[c].to = n[c].to
    BY <2>3, Ends DEF Taken, NetType, IsChannel, ChannelField
  <2>7. QED
    BY <2>1, <2>2, <2>4, <2>5, <2>6
<1>12. \A d \in Conn : d # c => k[d] = net[d]
  BY <1>2, Ends DEF Taken, NetType
<1> HIDE DEF k
<1>5. Mine(u)
  BY <1>2, <1>11 DEF Mine, Untouched, Stays, NetType, IsChannel
<1>13. u = [m |-> [World.m EXCEPT !.pool = [World.m.pool EXCEPT ![c] = e]], n |-> k]
  BY WorldParts
<1> HIDE DEF u
<1>15. /\ IsWorld(u) /\ u.n = k /\ u.m.pool = [master.pool EXCEPT ![c] = e]
       /\ Fresh(u.m)
       /\ "db" \notin faults => Linked(u, c) /\ Unreferenced(u.m, c)
  BY <1>1, <1>4, <1>10, <1>11, <1>12, <1>13, WorldParts, EntryKeeps DEF Right
<1>16. u.m.pool[c] = e /\ \A d \in Conn : d # c => u.m.pool[d] = master.pool[d]
  BY <1>2, <1>15 DEF IsMaster
<1>17. ASSUME "db" \notin faults PROVE Right(u, c)
  <2>1. Served(World) /\ Greets(World) /\ a = net[c].from /\ net[c].to = Master
    BY <1>1, <1>7, <1>17 DEF Right, Sound
  <2>2. Served(u)
    BY <1>2, <1>4, <1>9, <1>10, <1>11, <1>15, <1>16, <2>1, WorldParts DEF Served
  <2>3. Greets(u)
    BY <1>2, <1>9, <1>10, <1>12, <1>15, <1>16, <2>1, WorldParts DEF Greets
  <2>4. QED
    BY <1>5, <1>15, <1>17, <2>2, <2>3 DEF Right, Sound
<1>19. IsList(ms)
  BY Singles
<1> HIDE DEF ms
<1>20. IsWorld(v) /\ v.m = u.m /\ (Right(u, c) => Right(v, c))
  BY <1>3, <1>15, <1>19, TellKeeps DEF Right
<1>21. QED
  BY <1>10, <1>15, <1>16, <1>17, <1>20 DEF a

-----------------------------------------------------------------------------
(* Logins, lost connections, KILLALL and starts of the master.               *)

LEMMA Known ==
  ASSUME MasterInv
  PROVE  /\ IsWorld(World) /\ Fresh(World.m)
         /\ "db" \notin faults => Right(World, NoConn)
         /\ IsMaster(master) /\ NetType(net) /\ World.m = master /\ World.n = net
BY WorldParts DEF MasterInv, Good, IsWorld

LEMMA ClientLoginStep ==
  ASSUME MasterInv, NEW c \in Conn, ClientLogin(c), slave' = slave, faults' = faults
  PROVE  Done
<1>1. PICK v : v = LoggedIn(c)
  OBVIOUS
<1>2. PICK u : u = GiveToSlave(v, c)
  OBVIOUS
<1>3. Login(c) /\ First(c, "server").arg \in Client /\ Becomes(u)
  BY <1>1, <1>2 DEF ClientLogin
<1>4. /\ IsWorld(v) /\ Fresh(v.m)
      /\ v.m.pool[c].auth = Kind(First(c, "server").arg)
      /\ "db" \notin faults => Right(v, c) /\ Unreferenced(v.m, c)
  BY <1>1, <1>3, LoggedInKeeps
<1>5. v.m.pool[c].auth = "client"
  BY <1>3, <1>4, NodeAssumption DEF Kind
<1>6. "db" \notin faults =>
        Right(v, NoConn) /\ \A i \in DOMAIN v.m.slaves : v.m.slaves[i].client_conn # c
  BY <1>4, <1>5, LinkedAll DEF Right, Unreferenced
<1>7. /\ IsWorld(u) /\ Fresh(u.m)
      /\ "db" \notin faults => Right(u, NoConn)
  BY <1>2, <1>4, <1>5, <1>6, GiveToSlaveKeeps DEF Right
<1>8. QED
  BY <1>3, <1>7, MasterMoves DEF Good

LEMMA SlaveLoginStep ==
  ASSUME MasterInv, NEW c \in Conn, SlaveLogin(c), slave' = slave, faults' = faults
  PROVE  Done
<1>1. PICK v : v = LoggedIn(c)
  OBVIOUS
<1>2. PICK ready \in BOOLEAN : Becomes(TakeSlave(LoggedIn(c), c, ready))
  BY DEF SlaveLogin
<1>3. PICK u : u = TakeSlave(v, c, ready)
  OBVIOUS
<1>4. Login(c) /\ First(c, "server").arg \in Slave /\ Becomes(u)
  BY <1>1, <1>2, <1>3 DEF SlaveLogin
<1>5. /\ IsWorld(v) /\ Fresh(v.m)
      /\ v.m.pool[c].auth = "slave" /\ v.m.pool[c].user \in Slave
      /\ "db" \notin faults => Right(v, c) /\ Unreferenced(v.m, c)
  BY <1>1, <1>4, LoggedInKeeps DEF Kind
<1>6. /\ IsWorld(u) /\ Fresh(u.m)
      /\ "db" \notin faults => Right(u, NoConn)
  BY <1>3, <1>5, TakeSlaveKeeps
<1>7. QED
  BY <1>4, <1>6, MasterMoves DEF Good

LEMMA SlaveNotStoredStep ==
  ASSUME MasterInv, NEW c \in Conn, SlaveNotStored(c), slave' = slave
  PROVE  Done
<1>1. PICK v : v = LoggedIn(c)
  OBVIOUS
<1>2. PICK i \in 0..Len(master.slaves) : Becomes(NoRecord(LoggedIn(c), c, i))
  BY DEF SlaveNotStored
<1>3. PICK u : u = NoRecord(v, c, i)
  OBVIOUS
<1>4. Login(c) /\ Becomes(u) /\ "db" \in faults'
  BY <1>1, <1>2, <1>3 DEF SlaveNotStored, Fault
<1>5. IsWorld(v)
  BY <1>1, <1>4, LoggedInKeeps
<1>6. i \in Nat
  BY Known, ListDomain DEF IsMaster
<1>7. IsWorld(u) /\ Fresh(u.m)
  <2>1. CASE u = SlaveClosed(v, c, i)
    BY <1>5, <1>6, <2>1, SlaveClosedKeeps
  <2>2. CASE u = Stopped(v, "crashed")
    BY <1>5, <2>2, StoppedKeeps
  <2>3. QED
    BY <1>3, <2>1, <2>2 DEF NoRecord
<1>8. QED
  BY <1>4, <1>7, MasterMoves DEF Good

LEMMA ClosedWorld ==
  ASSUME MasterInv, NEW c \in Conn, Becomes(ConnClose(World, c)), slave' = slave, faults' = faults,
         master.pool[c].auth # "absent"
  PROVE  Done
<1>1. PICK w : w = World
  OBVIOUS
<1>2. PICK u : u = ConnClose(w, c)
  OBVIOUS
<1>3. /\ IsWorld(w) /\ Fresh(w.m) /\ Becomes(u) /\ w.m.pool[c].auth # "absent"
      /\ "db" \notin faults => Right(w, NoConn)
  BY <1>1, <1>2, Known
<1>4. /\ IsWorld(u) /\ Fresh(u.m)
      /\ "db" \notin faults => Right(u, NoConn)
  BY <1>2, <1>3, ConnCloseKeeps DEF Right
<1>5. QED
  BY <1>3, <1>4, MasterMoves DEF Good

LEMMA StoppedWorld ==
  ASSUME MasterInv, NEW how, Becomes(Stopped(World, how)), slave' = slave, faults \subseteq faults'
  PROVE  Done
<1>1. PICK w : w = World
  OBVIOUS
<1>2. PICK u : u = Stopped(w, how)
  OBVIOUS
<1>3. IsWorld(w) /\ Becomes(u) /\ ("db" \notin faults' => Right(w, NoConn))
  BY <1>1, <1>2, Known
<1>4. IsWorld(u) /\ Fresh(u.m) /\ ("db" \notin faults' => Right(u, NoConn))
  BY <1>2, <1>3, StoppedKeeps DEF Right
<1>5. QED
  BY <1>3, <1>4, MasterMoves DEF Good

LEMMA DenyStep ==
  ASSUME MasterInv, NEW c \in Conn, Deny(c), slave' = slave, faults' = faults
  PROVE  Done
<1> DEFINE ms == <<Line("200")>>
<1>1. PICK w : w = World
  OBVIOUS
<1>2. PICK v : v = Tell(w, c, ms)
  OBVIOUS
<1>3. PICK u : u = ConnClose(v, c)
  OBVIOUS
<1>4. /\ IsWorld(w) /\ Fresh(w.m) /\ Becomes(u) /\ w.m.pool[c].auth = "none"
      /\ "db" \notin faults => Right(w, NoConn)
  BY <1>1, <1>2, <1>3, Known DEF Deny, Reads
<1>5. IsList(ms)
  BY Singles
<1> HIDE DEF ms
<1>6. /\ IsWorld(v) /\ v.m = w.m
      /\ "db" \notin faults => Right(v, NoConn)
  BY <1>2, <1>4, <1>5, TellKeeps DEF Right
<1>7. /\ IsWorld(u) /\ Fresh(u.m)
      /\ "db" \notin faults => Right(u, NoConn)
  BY <1>3, <1>4, <1>6, ConnCloseKeeps DEF Right
<1>8. QED
  BY <1>4, <1>7, MasterMoves DEF Good

LEMMA KillAllStep ==
  ASSUME MasterInv, NEW i \in DOMAIN master.slaves, KillAll(i), slave' = slave,
         faults' = faults \/ faults' = faults \cup {"kill"}
  PROVE  Done
<1> DEFINE ms == <<Line("KILL-ALL")>>
           c  == master.slaves[i].conn
<1>1. PICK w : w = World
  OBVIOUS
<1>2. PICK v : v = Tell(w, c, ms)
  OBVIOUS
<1>3. /\ IsWorld(w) /\ Fresh(w.m) /\ Becomes(v)
      /\ "db" \notin faults' => Right(w, NoConn)
  BY <1>1, <1>2, Known DEF KillAll
<1>4. IsList(ms)
  BY Singles
<1> HIDE DEF ms, c
<1>5. /\ IsWorld(v) /\ v.m = w.m
      /\ "db" \notin faults' => Right(v, NoConn)
  BY <1>2, <1>3, <1>4, TellKeeps DEF Right
<1>6. QED
  BY <1>3, <1>5, MasterMoves DEF Good

LEMMA MasterStartStep ==
  ASSUME MasterInv, MasterStart, slave' = slave, faults' = faults
  PROVE  Done
<1>1. PICK config \in Configs : master' = [master EXCEPT !.up = "up", !.config = config]
  BY Zenon DEF MasterStart
<1>2. /\ IsMaster(master) /\ NetType(net) /\ Fresh(master) /\ net' = net
      /\ "db" \notin faults => Right(World, NoConn)
  BY Known DEF MasterStart
<1> DEFINE m == [master EXCEPT !.up = "up", !.config = config]
           v == [m |-> m, n |-> net]
<1>3. /\ m = [f \in MasterField |-> m[f]] /\ m.config = config /\ m.pool = master.pool
      /\ m.slaves = master.slaves /\ m.list = master.list
  BY <1>2 DEF IsMaster, MasterField
<1>4. master' = m
  BY <1>1
<1> HIDE DEF m
<1>5. v.m = m /\ v.n = net /\ v = [m |-> v.m, n |-> v.n]
  OBVIOUS
<1> HIDE DEF v
<1>6. IsWorld(v) /\ Fresh(v.m)
  BY <1>2, <1>3, <1>5 DEF IsWorld, IsMaster, Fresh
<1>7. (Sound(World) => Sound(v)) /\ (Mine(World) => Mine(v))
  BY <1>2, <1>3, <1>5, WorldParts DEF Sound, Served, Greets, Mine
<1>8. ASSUME Linked(World, NoConn) PROVE Linked(v, NoConn)
  <2>1. Index(v.m, NoConn)
    BY <1>3, <1>5, <1>8, WorldParts DEF Linked, Index
  <2>2. Asked(v.m, NoConn)
    BY <1>3, <1>5, <1>8, WorldParts DEF Linked, Asked
  <2>3. Answering(v, NoConn)
    BY <1>3, <1>5, <1>8, WorldParts DEF Linked, Answering
  <2>4. QED
    BY SMTT(20), <2>1, <2>2, <2>3 DEF Linked
<1>9. Becomes(v)
  BY <1>2, <1>4, <1>5 DEF Becomes
<1>10. QED
  BY <1>2, <1>6, <1>7, <1>8, <1>9, MasterMoves DEF Good, Right

LEMMA MasterStarts ==
  ASSUME Init
  PROVE  MasterInv
<1> DEFINE pool == [c \in Conn |-> Absent]
<1>1. PICK config \in Configs :
        master = [up |-> "up", config |-> config, pool |-> pool, slaves |-> <<>>, list |-> <<>>]
  BY DEF Init, MasterInit
<1>2. /\ master = [f \in MasterField |-> master[f]] /\ master.config = config /\ master.pool = pool
      /\ master.slaves = <<>> /\ master.list = <<>>
  BY <1>1 DEF MasterField
<1>3. pool \in [Conn -> Entry] /\ \A c \in Conn : pool[c].auth = "absent"
  BY AbsentEntry
<1> HIDE DEF pool
<1>4. IsList(<<>>) /\ DOMAIN <<>> = {}
  BY EmptyList
<1>5. NetType(net) /\ \A c \in Conn : net[c].open = {}
  BY UnusedChannel DEF NetType, Init
<1>6. IsWorld(World)
  BY <1>2, <1>3, <1>4, <1>5 DEF IsWorld, IsMaster, World
<1>7. Fresh(World.m)
  BY <1>2, <1>4, WorldParts DEF Fresh
<1>8. Sound(World)
  BY SMTT(20), <1>2, <1>3, <1>5, WorldParts DEF Sound, Served, Greets
<1>9. Linked(World, NoConn)
  BY <1>2, <1>3, <1>4, WorldParts DEF Linked, Index, Asked, Answering
<1>10. Mine(World)
  BY <1>5, MineNow, WorldParts DEF Mine
<1>11. QED
  BY <1>6, <1>7, <1>8, <1>9, <1>10 DEF MasterInv, Good, Right

-----------------------------------------------------------------------------
(* A line of a slave is taken off, and what its session then answers.        *)

LEMMA HeardWorld ==
  ASSUME MasterInv, NEW c \in Conn, NEW s, SlaveSays(c, s), NEW state \in {"CMD", "LINE", "EXPECT"},
         NEW k, NetType(k), \A d \in Conn : d # c => k[d] = net[d],
         k[c].open = net[c].open, k[c].from = net[c].from, k[c].to = net[c].to,
         NEW v, v = [m |-> [master EXCEPT !.pool = [master.pool EXCEPT ![c] =
                       [master.pool[c] EXCEPT !.nolp = state]]], n |-> k]
  PROVE  /\ IsWorld(v) /\ Fresh(v.m)
         /\ v.m.slaves = master.slaves /\ v.m.pool[c].slave_n = master.pool[c].slave_n
         /\ "db" \notin faults => Right(v, master.slaves[master.pool[c].slave_n].client_conn)
         /\ "db" \notin faults /\ s # "LINE" => Right(v, NoConn)
<1> DEFINE e == [master.pool[c] EXCEPT !.nolp = state]
           i == master.pool[c].slave_n
           pool == [master.pool EXCEPT ![c] = e]
           m == [master EXCEPT !.pool = pool]
<1>1. /\ IsMaster(master) /\ master.pool[c] \in Entry /\ master.pool[c].auth = "slave"
      /\ master.pool[c].nolp = s /\ i \in DOMAIN master.slaves
  BY Known DEF SlaveSays, Reads, IsMaster
<1>2. /\ e \in Entry /\ e.auth = "slave" /\ e.user = master.pool[c].user
      /\ e.slave_n = master.pool[c].slave_n
  BY <1>1 DEF Entry
<1>3. v = [m |-> m, n |-> k]
  OBVIOUS
<1> HIDE DEF e
<1>4. /\ pool \in [Conn -> Entry] /\ pool[c] = e
      /\ \A d \in Conn : d # c => pool[d] = master.pool[d]
  BY <1>1, <1>2 DEF IsMaster
<1> HIDE DEF pool
<1>5. /\ m = [f \in MasterField |-> m[f]] /\ m.config = master.config /\ m.pool = pool
      /\ m.slaves = master.slaves /\ m.list = master.list
  BY <1>1 DEF IsMaster, MasterField
<1> HIDE DEF m
<1>6. v.m = m /\ v.n = k /\ v = [m |-> v.m, n |-> v.n]
  BY <1>3
<1>7. IsWorld(v)
  BY <1>1, <1>4, <1>5, <1>6 DEF IsWorld, IsMaster
<1>8. /\ Fresh(v.m)
      /\ "db" \notin faults => Right(v, master.slaves[i].client_conn)
  <2>1. HeardOf(World, v, c)
    BY <1>1, <1>2, <1>4, <1>5, <1>6, WorldParts DEF HeardOf
  <2>2. PICK w : w = World
    OBVIOUS
  <2>3. /\ IsWorld(w) /\ HeardOf(w, v, c) /\ w.m = master /\ Fresh(w.m)
        /\ "db" \notin faults => Right(w, NoConn)
    BY <2>1, <2>2, Known
  <2>4. /\ Fresh(v.m)
        /\ "db" \notin faults => Right(v, w.m.slaves[w.m.pool[c].slave_n].client_conn)
    BY <1>7, <2>3, HeardKeeps DEF Right
  <2>5. QED
    BY <2>3, <2>4
<1>11. v.m.slaves = master.slaves /\ v.m.pool[c].slave_n = master.pool[c].slave_n
  BY <1>2, <1>4, <1>5, <1>6
<1>9. ASSUME "db" \notin faults, s # "LINE" PROVE master.slaves[i].client_conn = NoConn
  <2>1. Index(master, NoConn) /\ Asked(master, NoConn)
    BY <1>9, Known DEF Right, Linked
  <2>2. master.slaves[i].conn = c
    BY <1>1, <2>1, BoundAssumption DEF Index
  <2>3. QED
    BY <1>1, <1>9, <2>1, <2>2 DEF Asked
<1>10. QED
  BY <1>7, <1>8, <1>9, <1>11

LEMMA ParsedIs ==
  ASSUME NEW c \in Conn, IsMaster(master), NEW state
  PROVE  Parsed(c, state) =
           [m |-> [master EXCEPT !.pool = [master.pool EXCEPT ![c] =
                     [master.pool[c] EXCEPT !.nolp = state]]],
            n |-> Taken(net, c, "server")]
<1> DEFINE e == [master.pool[c] EXCEPT !.nolp = state]
           m1 == [master EXCEPT !.pool = [master.pool EXCEPT ![c] = e]]
           k == Taken(net, c, "server")
           w1 == [m |-> master, n |-> k]
<1>1. master = [f \in MasterField |-> master[f]]
  BY DEF IsMaster
<1>2. [World EXCEPT !.n = Taken(@, c, "server")] = w1
  BY DEF World
<1>3. [master EXCEPT !.pool[c].nolp = state] = m1
  BY <1>1 DEF MasterField
<1> HIDE DEF m1, k
<1>4. [w1 EXCEPT !.m.pool[c].nolp = state] = [m |-> m1, n |-> k]
  <2>1. w1 = [m |-> master, n |-> k]
        => [w1 EXCEPT !.m.pool[c].nolp = state] = [w1 EXCEPT !.m = [master EXCEPT !.pool[c].nolp = state]]
    OBVIOUS
  <2>2. QED
    BY <1>3, <2>1
<1> HIDE DEF w1
<1>5. Parsed(c, state) = [[World EXCEPT !.n = Taken(@, c, "server")] EXCEPT !.m.pool[c].nolp = state]
  BY DEF Parsed
<1>6. Parsed(c, state) = [m |-> m1, n |-> k]
  BY <1>2, <1>4, <1>5
<1>7. QED
  BY <1>6 DEF m1, k

(* The line of c is taken.                                                   *)
LEMMA LineTaken ==
  ASSUME MasterInv, NEW c \in Conn, NEW s, SlaveSays(c, s),
         NEW k, k = Taken(net, c, "server")
  PROVE  /\ NetType(k) /\ \A d \in Conn : d # c => k[d] = net[d]
         /\ k[c].open = net[c].open /\ k[c].from = net[c].from /\ k[c].to = net[c].to
<1>1. NetType(net) /\ "server" \in net[c].open /\ net[c].queue["server"] # <<>>
  BY Known DEF SlaveSays, Reads, Waiting
<1>2. PICK n : n = net
  OBVIOUS
<1>3. /\ NetType(n) /\ "server" \in n[c].open /\ n[c].queue["server"] # <<>> /\ "server" \in End
      /\ k = Taken(n, c, "server")
  BY <1>1, <1>2, Ends
<1>4. NetType(k)
  BY <1>3, TakenNet
<1>5. \A d \in Conn : d # c => k[d] = n[d]
  BY <1>3 DEF Taken, NetType
<1>6. k[c].open = n[c].open /\ k[c].from = n[c].from /\ k[c].to = n[c].to
  <2> DEFINE r == [n[c] EXCEPT !.queue["server"] = Tail(@)]
  <2>1. IsChannel(n[c])
    BY <1>3 DEF NetType
  <2>2. k[c] = r
    BY <1>3 DEF Taken, NetType
  <2>3. r.open = n[c].open /\ r.from = n[c].from /\ r.to = n[c].to
    BY <2>1 DEF IsChannel, ChannelField
  <2>4. QED
    BY <2>2, <2>3
<1>7. QED
  BY <1>2, <1>4, <1>5, <1>6

LEMMA ParsedKeeps ==
  ASSUME MasterInv, NEW c \in Conn, NEW s, SlaveSays(c, s), NEW state \in {"CMD", "LINE", "EXPECT"},
         NEW v, v = Parsed(c, state)
  PROVE  /\ IsWorld(v) /\ Fresh(v.m)
         /\ v.m.slaves = master.slaves /\ v.m.pool[c].slave_n = master.pool[c].slave_n
         /\ "db" \notin faults => Right(v, master.slaves[master.pool[c].slave_n].client_conn)
         /\ "db" \notin faults /\ s # "LINE" => Right(v, NoConn)
<1>1. PICK k : k = Taken(net, c, "server")
  OBVIOUS
<1>2. /\ NetType(k) /\ \A d \in Conn : d # c => k[d] = net[d]
      /\ k[c].open = net[c].open /\ k[c].from = net[c].from /\ k[c].to = net[c].to
  BY <1>1, LineTaken
<1>3. v = [m |-> [master EXCEPT !.pool = [master.pool EXCEPT ![c] =
                    [master.pool[c] EXCEPT !.nolp = state]]], n |-> k]
  BY <1>1, ParsedIs, Known
<1>4. QED
  BY <1>2, <1>3, HeardWorld

-----------------------------------------------------------------------------
(* INFO, STATUS and the list that a slave sends.                             *)

LEMMA InfoStep ==
  ASSUME MasterInv, NEW c \in Conn, Info(c), slave' = slave, faults' = faults
  PROVE  Done
<1> DEFINE i == master.pool[c].slave_n
<1>1. PICK w : w = Parsed(c, "CMD")
  OBVIOUS
<1>2. SlaveSays(c, "CMD") /\ i \in DOMAIN master.slaves
  BY DEF Info, SlaveSays
<1>3. /\ IsWorld(w) /\ Fresh(w.m) /\ w.m.slaves = master.slaves
      /\ "db" \notin faults => Right(w, NoConn)
  BY <1>1, <1>2, ParsedKeeps
<1> HIDE DEF i
<1>t. PICK t : t = TRUE
  OBVIOUS
<1>4. PICK r : r = [w.m.slaves[i] EXCEPT !.ready = t]
  OBVIOUS
<1>5. IsRecord(w.m.slaves[i])
  BY <1>2, <1>3 DEF IsWorld, IsMaster
<1>6. /\ IsRecord(r) /\ r.conn = w.m.slaves[i].conn /\ r.name = w.m.slaves[i].name
      /\ r.client_conn = w.m.slaves[i].client_conn
  <2>1. r = [f \in RecordField |-> r[f]] /\ r.conn = w.m.slaves[i].conn /\ r.name = w.m.slaves[i].name
        /\ r.client_conn = w.m.slaves[i].client_conn
    BY <1>4, <1>5 DEF IsRecord, RecordField
  <2>2. QED
    BY <1>5, <2>1 DEF IsRecord
<1>7. PICK u : u = [m |-> [w.m EXCEPT !.slaves = [w.m.slaves EXCEPT ![i] = r]], n |-> w.n]
  OBVIOUS
<1>8. [w EXCEPT !.m.slaves[i].ready = t] = u
  <2>1. w = [m |-> w.m, n |-> w.n]
    BY <1>3 DEF IsWorld
  <2>2. w.m = [f \in MasterField |-> w.m[f]]
    BY <1>3 DEF IsWorld, IsMaster
  <2>3. QED
    BY <1>4, <1>7, <2>1, <2>2 DEF MasterField
<1>9. PICK v : v = Refreshed(u)
  OBVIOUS
<1>10. Becomes(v)
  BY <1>1, <1>8, <1>9, <1>t DEF Info, i
<1>11. i \in DOMAIN w.m.slaves
  BY <1>2, <1>3
<1>12. /\ IsWorld(u)
       /\ "db" \notin faults => Right(u, NoConn)
  BY <1>3, <1>6, <1>7, <1>11, RecordKeeps DEF Right
<1>13. /\ IsWorld(v) /\ Fresh(v.m)
       /\ "db" \notin faults => Right(v, NoConn)
  BY <1>9, <1>12, RefreshedKeeps DEF Right
<1>14. QED
  BY <1>10, <1>13, MasterMoves DEF Good

LEMMA StatusParsedKeeps ==
  ASSUME NEW w, IsWorld(w), NEW c, w.m.pool[c].slave_n \in DOMAIN w.m.slaves, NEW tokens,
         NEW v, v = StatusParsed(w, c, tokens)
  PROVE  /\ IsWorld(v) /\ Fresh(v.m)
         /\ Right(w, NoConn) => Right(v, NoConn)
<1>i. PICK i : i = w.m.pool[c].slave_n
  OBVIOUS
<1>4. PICK r : r = [w.m.slaves[i] EXCEPT !.clients = tokens]
  OBVIOUS
<1>5. IsRecord(w.m.slaves[i]) /\ i \in DOMAIN w.m.slaves
  BY <1>i DEF IsWorld, IsMaster
<1>6. /\ IsRecord(r) /\ r.conn = w.m.slaves[i].conn /\ r.name = w.m.slaves[i].name
      /\ r.client_conn = w.m.slaves[i].client_conn
  <2>1. r = [f \in RecordField |-> r[f]] /\ r.conn = w.m.slaves[i].conn /\ r.name = w.m.slaves[i].name
        /\ r.client_conn = w.m.slaves[i].client_conn
    BY <1>4, <1>5 DEF IsRecord, RecordField
  <2>2. QED
    BY <1>5, <2>1 DEF IsRecord
<1>7. PICK u : u = [m |-> [w.m EXCEPT !.slaves = [w.m.slaves EXCEPT ![i] = r]], n |-> w.n]
  OBVIOUS
<1>8. [w EXCEPT !.m.slaves[i].clients = tokens] = u
  <2>1. w = [m |-> w.m, n |-> w.n]
    BY DEF IsWorld
  <2>2. w.m = [f \in MasterField |-> w.m[f]]
    BY DEF IsWorld, IsMaster
  <2>3. QED
    BY <1>4, <1>7, <2>1, <2>2 DEF MasterField
<1>9. v = Refreshed(u)
  BY <1>i, <1>8 DEF StatusParsed
<1>12. IsWorld(u) /\ (Right(w, NoConn) => Right(u, NoConn))
  BY <1>5, <1>6, <1>7, RecordKeeps DEF Right
<1>13. QED
  BY <1>9, <1>12, RefreshedKeeps DEF Right

LEMMA StatusParsedStep ==
  ASSUME MasterInv, NEW c \in Conn, NEW s, SlaveSays(c, s), s # "LINE", NEW tokens,
         Becomes(StatusParsed(Parsed(c, "CMD"), c, tokens)), slave' = slave, faults' = faults
  PROVE  Done
<1>1. PICK w : w = Parsed(c, "CMD")
  OBVIOUS
<1>2. PICK v : v = StatusParsed(w, c, tokens)
  OBVIOUS
<1>3. master.pool[c].slave_n \in DOMAIN master.slaves
  BY DEF SlaveSays
<1>4. /\ IsWorld(w) /\ w.m.pool[c].slave_n \in DOMAIN w.m.slaves
      /\ "db" \notin faults => Right(w, NoConn)
  BY <1>1, <1>3, ParsedKeeps
<1>5. /\ IsWorld(v) /\ Fresh(v.m)
      /\ "db" \notin faults => Right(v, NoConn)
  BY <1>2, <1>4, StatusParsedKeeps
<1>6. Becomes(v)
  BY <1>1, <1>2
<1>7. QED
  BY <1>5, <1>6, MasterMoves DEF Good

LEMMA StatusStep ==
  ASSUME MasterInv, NEW c \in Conn, Status(c), slave' = slave, faults' = faults
  PROVE  Done
<1>1. SlaveSays(c, "CMD") /\ "CMD" # "LINE"
  BY DEF Status
<1>2. CASE First(c, "server").arg = 0
  <2>1. Becomes(StatusParsed(Parsed(c, "CMD"), c, {}))
    BY <1>2 DEF Status
  <2>2. QED
    BY <1>1, <2>1, StatusParsedStep
<1>3. CASE First(c, "server").arg # 0
  <2>1. PICK v : v = Parsed(c, "EXPECT")
    OBVIOUS
  <2>2. Becomes(v)
    BY <1>3, <2>1 DEF Status
  <2>3. /\ IsWorld(v) /\ Fresh(v.m)
        /\ "db" \notin faults => Right(v, NoConn)
    BY <1>1, <2>1, ParsedKeeps
  <2>4. QED
    BY <2>2, <2>3, MasterMoves DEF Good
<1>4. QED
  BY <1>2, <1>3

LEMMA StatusListStep ==
  ASSUME MasterInv, NEW c \in Conn, StatusList(c), slave' = slave, faults' = faults
  PROVE  Done
<1>1. /\ SlaveSays(c, "EXPECT") /\ "EXPECT" # "LINE"
      /\ Becomes(StatusParsed(Parsed(c, "CMD"), c, First(c, "server").arg))
  BY DEF StatusList
<1>2. QED
  BY <1>1, StatusParsedStep

-----------------------------------------------------------------------------
(* What the master reads of a reply may leave a line of it for its next turn. *)

WithEntry(n, c) == [n EXCEPT ![c].queue["server"] = <<Line("entry")>> \o @]

LEMMA PutBack ==
  ASSUME NEW n, NetType(n), NEW c \in Conn, n[c].open # {},
         NEW v, v = WithEntry(n, c)
  PROVE  /\ NetType(v) /\ \A d \in Conn : d # c => v[d] = n[d]
         /\ v[c].open = n[c].open /\ v[c].from = n[c].from /\ v[c].to = n[c].to
<1> DEFINE x == Line("entry")
           q == <<x>> \o n[c].queue["server"]
           k == [n[c] EXCEPT !.queue["server"] = q]
<1>1. IsChannel(n[c]) /\ IsList(n[c].queue["server"])
  BY Ends DEF NetType, IsChannel
<1>2. IsList(<<x>>)
  BY Singles
<1>3. IsList(q)
  BY <1>1, <1>2, Concat
<1> HIDE DEF q
<1>4. /\ k = [f \in ChannelField |-> k[f]] /\ k.from = n[c].from /\ k.to = n[c].to /\ k.open = n[c].open
      /\ k.queue = [n[c].queue EXCEPT !["server"] = q]
  BY <1>1 DEF IsChannel, ChannelField
<1>6. v = [d \in Conn |-> IF d = c THEN k ELSE n[d]]
  BY DEF NetType, q, WithEntry
<1> HIDE DEF k, x
<1>5. k.queue = [e \in End |-> k.queue[e]] /\ \A e \in End : IsList(k.queue[e])
  <2> DEFINE r == n[c].queue
  <2>1. r = [e \in End |-> r[e]] /\ \A e \in End : IsList(r[e])
    BY <1>1 DEF IsChannel
  <2>2. k.queue = [r EXCEPT !["server"] = q]
    BY <1>4
  <2> HIDE DEF r
  <2>3. QED
    BY <1>3, <2>1, <2>2, Ends
<1>7. IsChannel(k)
  BY <1>1, <1>4, <1>5 DEF IsChannel
<1>8. QED
  BY <1>4, <1>6, <1>7 DEF NetType

LEMMA ReplyTakenKeeps ==
  ASSUME MasterInv, NEW c \in Conn, SlaveSays(c, "LINE"),
         NEW v, v = ReplyTaken(c)
  PROVE  /\ IsWorld(v) /\ Fresh(v.m) /\ v.m.slaves = master.slaves
         /\ "db" \notin faults => Right(v, master.slaves[master.pool[c].slave_n].client_conn)
<1> DEFINE p == Parsed(c, "CMD")
           u == [p EXCEPT !.n[c].queue["server"] = <<Line("entry")>> \o @]
<1>1. CASE v = p
  BY <1>1, ParsedKeeps
<1>2. CASE v = u
  <2>1. PICK k : k = Taken(net, c, "server")
    OBVIOUS
  <2>2. /\ NetType(k) /\ \A d \in Conn : d # c => k[d] = net[d]
        /\ k[c].open = net[c].open /\ k[c].from = net[c].from /\ k[c].to = net[c].to
    BY <2>1, LineTaken
  <2>3. PICK m : m = [master EXCEPT !.pool = [master.pool EXCEPT ![c] =
                        [master.pool[c] EXCEPT !.nolp = "CMD"]]]
    OBVIOUS
  <2>4. p = [m |-> m, n |-> k]
    BY <2>1, <2>3, ParsedIs, Known
  <2>5. PICK h : h = WithEntry(k, c)
    OBVIOUS
  <2>6. v = [m |-> m, n |-> h]
    <3>1. PICK z : z = p
      OBVIOUS
    <3>2. z = [m |-> m, n |-> k] /\ v = [z EXCEPT !.n[c].queue["server"] = <<Line("entry")>> \o @]
      BY <1>2, <2>4, <3>1
    <3> HIDE DEF p, u
    <3>3. v = [m |-> m, n |-> [k EXCEPT ![c].queue["server"] = <<Line("entry")>> \o @]]
      BY <3>2
    <3>4. QED
      BY <2>5, <3>3 DEF WithEntry
  <2>7. k[c].open # {}
    BY <2>2 DEF SlaveSays, Reads, Waiting
  <2>8. /\ NetType(h) /\ \A d \in Conn : d # c => h[d] = k[d]
        /\ h[c].open = k[c].open /\ h[c].from = k[c].from /\ h[c].to = k[c].to
    BY <2>2, <2>5, <2>7, PutBack
  <2>9. v = [m |-> [master EXCEPT !.pool = [master.pool EXCEPT ![c] =
                        [master.pool[c] EXCEPT !.nolp = "CMD"]]], n |-> h]
    BY <2>3, <2>6
  <2>10. /\ \A d \in Conn : d # c => h[d] = net[d]
         /\ h[c].open = net[c].open /\ h[c].from = net[c].from /\ h[c].to = net[c].to
    BY <2>2, <2>8
  <2>11. QED
    BY <2>8, <2>9, <2>10, HeardWorld
<1>3. QED
  BY <1>1, <1>2 DEF ReplyTaken

LEMMA TokenReplyStep ==
  ASSUME MasterInv, NEW c \in Conn, TokenReply(c), slave' = slave, faults' = faults
  PROVE  Done
<1> DEFINE client_ == master.slaves[master.pool[c].slave_n].client_conn
           arg == First(c, "server").arg
           ms == <<Msg("TOKEN", arg)>>
<1>1. PICK v : v = ReplyTaken(c)
  OBVIOUS
<1>2. PICK d : d = client_
  OBVIOUS
<1>3. SlaveSays(c, "LINE") /\ master.pool[c].slave_n \in DOMAIN master.slaves
  BY DEF TokenReply, SlaveSays
<1>4. /\ IsWorld(v) /\ Fresh(v.m) /\ v.m.slaves = master.slaves
      /\ "db" \notin faults => Right(v, d)
  BY <1>1, <1>2, <1>3, ReplyTakenKeeps
<1>5. d \in Conn \cup {NoConn}
  BY <1>2, <1>3, Known DEF IsMaster, IsRecord
<1>6. CASE d = NoConn
  <2>1. Becomes(v)
    BY <1>1, <1>2, <1>6 DEF TokenReply
  <2>2. QED
    BY <1>4, <1>6, <2>1, MasterMoves DEF Good
<1>7. CASE d # NoConn
  <2>1. PICK w : w \in {v, Tell(v, d, ms)} /\ Becomes(ConnClose(w, d))
    BY <1>1, <1>2, <1>7 DEF TokenReply
  <2>2. IsList(ms)
    BY Singles
  <2> HIDE DEF ms
  <2>3. /\ IsWorld(w) /\ w.m = v.m
        /\ "db" \notin faults => Right(w, d)
    <3>1. CASE w = v
      BY <1>4, <3>1
    <3>2. CASE w = Tell(v, d, ms)
      BY <1>4, <2>2, <3>2, TellKeeps DEF Right
    <3>3. QED
      BY <2>1, <3>1, <3>2
  <2>4. PICK u : u = ConnClose(w, d)
    OBVIOUS
  <2>5. ASSUME "db" \notin faults PROVE w.m.pool[d].auth = "client"
    <3>1. Asked(w.m, d) /\ w.m.slaves = master.slaves
      BY <1>4, <2>3, <2>5 DEF Right, Linked
    <3>2. QED
      BY <1>2, <1>3, <1>7, <3>1 DEF Asked
  <2>6. d \in Conn /\ Fresh(w.m)
    BY <1>4, <1>5, <1>7, <2>3
  <2>7. /\ IsWorld(u) /\ Fresh(u.m)
        /\ "db" \notin faults => Right(u, NoConn)
    BY <2>3, <2>4, <2>5, <2>6, ConnCloseKeeps DEF Right
  <2>8. QED
    BY <2>1, <2>4, <2>7, MasterMoves DEF Good
<1>8. QED
  BY <1>6, <1>7

LEMMA MasterReadsStep ==
  ASSUME MasterInv, MasterReads, slave' = slave, faults' = faults
  PROVE  Done
<1>1. PICK c \in Conn :
        \/ Accept(c) \/ ClientLogin(c) \/ SlaveLogin(c) \/ Deny(c)
        \/ ClientTalks(c) \/ Leave(c)
        \/ Info(c) \/ Status(c) \/ StatusList(c) \/ TokenReply(c) \/ UnknownFromSlave(c)
        \/ SlaveWithoutRecord(c)
  BY DEF MasterReads
<1>2. CASE Accept(c)
  BY <1>2, AcceptStep
<1>3. CASE ClientLogin(c)
  BY <1>3, ClientLoginStep
<1>4. CASE SlaveLogin(c)
  BY <1>4, SlaveLoginStep
<1>5. CASE Deny(c)
  BY <1>5, DenyStep
<1>6. CASE ClientTalks(c) \/ Leave(c) \/ UnknownFromSlave(c)
  <2>1. Becomes(ConnClose(World, c)) /\ master.pool[c].auth # "absent"
    BY <1>6 DEF ClientTalks, Leave, UnknownFromSlave, SlaveSays, Reads
  <2>2. QED
    BY <2>1, ClosedWorld
<1>7. CASE Info(c)
  BY <1>7, InfoStep
<1>8. CASE Status(c)
  BY <1>8, StatusStep
<1>9. CASE StatusList(c)
  BY <1>9, StatusListStep
<1>10. CASE TokenReply(c)
  BY <1>10, TokenReplyStep
<1>11. CASE SlaveWithoutRecord(c)
  BY <1>11, StoppedWorld DEF SlaveWithoutRecord
<1>12. QED
  BY <1>1, <1>2, <1>3, <1>4, <1>5, <1>6, <1>7, <1>8, <1>9, <1>10, <1>11

-----------------------------------------------------------------------------
(* What the other processes do with connections.  A connection to the master *)
(* begins with the name of the node that dialled.                            *)
Greeted(h) ==
    LET q == h.queue["server"] IN Len(q) >= 1 /\ q[1] = Msg("AUTH", h.from)
Opened(n, v) ==
    \A c \in Conn : "server" \in v[c].open =>
      IF "server" \in n[c].open THEN v[c].to = n[c].to
      ELSE v[c].to = Master => Greeted(v[c])
Turned(n, v, H, Q) == NetType(v) /\ Frame(n, v, H, Q) /\ Opened(n, v)

LEMMA TurnedSame ==
  ASSUME NEW n, NetType(n)
  PROVE  Turned(n, n, {}, {})
BY FrameSelf DEF Turned, Opened

LEMMA TurnedSent ==
  ASSUME NEW n, NetType(n), NEW c, NEW e \in End, NEW ms, IsList(ms),
         NEW v, v = Sent(n, c, e, ms)
  PROVE  Turned(n, v, {}, {}) /\ \A d \in Conn : v[d].open = n[d].open
<1>1. /\ NetType(v) /\ Frame(n, v, {}, {})
      /\ \A d \in Conn : v[d].open = n[d].open /\ v[d].from = n[d].from /\ v[d].to = n[d].to
  BY SentNet
<1>2. QED
  BY <1>1 DEF Turned, Opened

LEMMA TurnedShut ==
  ASSUME NEW n, NetType(n), NEW c, NEW e \in End,
         NEW v, v = Shut(n, c, e)
  PROVE  /\ Turned(n, v, {<<c, e>>}, {})
         /\ c \in Conn => e \notin v[c].open
         /\ \A d \in Conn : d # c => v[d] = n[d]
<1>1. CASE c \in Conn
  <2>1. /\ NetType(v) /\ Frame(n, v, {<<c, e>>}, {})
        /\ v[c].open = n[c].open \ {e} /\ \A d \in Conn : d # c => v[d] = n[d]
    BY <1>1, ShutNet
  <2>2. ASSUME NEW d \in Conn, "server" \in v[d].open PROVE "server" \in n[d].open /\ v[d].to = n[d].to
    <3>1. "server" \in n[d].open /\ <<d, "server">> \notin {<<c, e>>}
      BY <2>1, <2>2
    <3>2. Stays(n[d], v[d], "server")
      BY <2>1, <3>1, Ends DEF Frame
    <3>3. QED
      BY <3>1, <3>2 DEF Stays
  <2>3. QED
    BY <1>1, <2>1, <2>2 DEF Turned, Opened
<1>2. CASE c \notin Conn
  <2>1. v = n
    BY <1>2 DEF Shut, NetType
  <2>2. QED
    BY <1>2, <2>1, TurnedSame, FrameWider DEF Turned
<1>3. QED
  BY <1>1, <1>2

LEMMA TurnedShutAll ==
  ASSUME NEW n, NetType(n), NEW x,
         NEW v, v = ShutAll(n, x)
  PROVE  /\ Turned(n, v, Own(n, x), {})
         /\ \A c \in Conn : \A e \in End : Owner(n[c], e) = x => e \notin v[c].open
<1>1. /\ NetType(v) /\ Frame(n, v, Own(n, x), {})
      /\ \A c \in Conn : v[c].open = n[c].open \ {e \in End : Owner(n[c], e) = x}
  BY ShutAllNet
<1>2. ASSUME NEW d \in Conn, "server" \in v[d].open PROVE "server" \in n[d].open /\ v[d].to = n[d].to
  <2>1. "server" \in n[d].open /\ <<d, "server">> \notin Own(n, x)
    BY <1>1, <1>2, Ends DEF Own
  <2>2. Stays(n[d], v[d], "server")
    BY <1>1, <2>1, Ends DEF Frame
  <2>3. QED
    BY <2>1, <2>2 DEF Stays
<1>3. QED
  BY <1>1, <1>2 DEF Turned, Opened

LEMMA TurnedTaken ==
  ASSUME NEW n, NetType(n), NEW c, NEW e \in End, e \in n[c].open, n[c].queue[e] # <<>>,
         NEW v, v = Taken(n, c, e)
  PROVE  /\ Turned(n, v, {}, {<<c, e>>})
         /\ \A d \in Conn : v[d].open = n[d].open /\ v[d].from = n[d].from /\ v[d].to = n[d].to
<1>1. CASE c \in Conn
  <2>1. /\ NetType(v) /\ Frame(n, v, {}, {<<c, e>>})
    BY <1>1, TakenNet
  <2>2. \A d \in Conn : v[d].open = n[d].open /\ v[d].from = n[d].from /\ v[d].to = n[d].to
    BY <1>1 DEF Taken, NetType, IsChannel, ChannelField
  <2>3. QED
    BY <2>1, <2>2 DEF Turned, Opened
<1>2. CASE c \notin Conn
  <2>1. v = n
    BY <1>2 DEF Taken, NetType
  <2>2. QED
    BY <2>1, TurnedSame, FrameWider DEF Turned
<1>3. QED
  BY <1>1, <1>2

(* One step that opens nothing, and another.                                 *)
LEMMA TurnedTwice ==
  ASSUME NEW n, NEW v, NEW u, NEW G, NEW H, NEW P, NEW Q,
         NetType(n), Turned(n, v, G, P), Turned(v, u, H, Q),
         \A c \in Conn : "server" \in n[c].open => "server" \in v[c].open \/ "server" \notin u[c].open,
         \A c \in Conn : "server" \in v[c].open => "server" \in n[c].open
  PROVE  Turned(n, u, G \cup H, P \cup Q)
<1>1. Frame(n, u, G \cup H, P \cup Q)
  BY FrameTransitive DEF Turned
<1>2. Opened(n, u)
  BY DEF Turned, Opened
<1>3. QED
  BY <1>1, <1>2 DEF Turned

LEMMA TurnedRefused ==
  ASSUME NEW n, NetType(n), NEW c, NEW ms, IsList(ms),
         NEW v, v = Shut(Sent(n, c, "server", ms), c, "server")
  PROVE  Turned(n, v, {<<c, "server">>}, {})
<1>1. PICK k : k = Sent(n, c, "server", ms)
  OBVIOUS
<1>2. "server" \in End
  BY Ends
<1>3. Turned(n, k, {}, {}) /\ \A d \in Conn : k[d].open = n[d].open
  BY <1>1, <1>2, TurnedSent
<1>4. NetType(k)
  BY <1>3 DEF Turned
<1>5. Turned(k, v, {<<c, "server">>}, {})
  BY <1>1, <1>2, <1>4, TurnedShut
<1>6. Turned(n, v, {} \cup {<<c, "server">>}, {} \cup {})
  BY <1>3, <1>5, TurnedTwice
<1>7. {} \cup {<<c, "server">>} = {<<c, "server">>} /\ {} \cup {} = {}
  OBVIOUS
<1>8. QED
  BY <1>6, <1>7

LEMMA TurnedDial ==
  ASSUME NEW n, NetType(n), NEW c \in Conn, n[c] = Unused,
         NEW a \in Slave \cup Client, NEW b \in {Master} \cup Slave, NEW t, b = Master => t = a,
         NEW v, v = Sent(Dialled(n, c, a, b), c, "dialler", <<Msg("AUTH", t)>>)
  PROVE  Turned(n, v, {}, {}) /\ v[c].open = End /\ v[c].from = a
<1>1. PICK k : k = Dialled(n, c, a, b)
  OBVIOUS
<1>2. PICK x : x = Msg("AUTH", t)
  OBVIOUS
<1>3. PICK ms : ms = <<x>>
  OBVIOUS
<1>4. IsList(ms) /\ Len(ms) = 1 /\ ms[1] = x
  BY <1>3, Singles
<1>5. "dialler" \in End /\ v = Sent(k, c, "dialler", ms) /\ Peer("dialler") = "server"
  BY <1>1, <1>2, <1>3, Ends DEF Peer
<1>6. /\ NetType(k) /\ Frame(n, k, {}, {})
      /\ k[c].open = End /\ k[c].from = a /\ k[c].to = b
      /\ \A e \in End : k[c].queue[e] = <<>>
      /\ \A d \in Conn : d # c => k[d] = n[d]
  BY <1>1, DialledNet
<1>q. NetType(k) /\ "dialler" \in End /\ IsList(ms) /\ v = Sent(k, c, "dialler", ms)
  BY <1>4, <1>5, <1>6
<1>7. /\ NetType(v) /\ Frame(k, v, {}, {})
      /\ \A d \in Conn : v[d].open = k[d].open /\ v[d].from = k[d].from /\ v[d].to = k[d].to
  BY <1>q, SentNet
<1>8. v[c].queue["server"] = <<>> \o ms
  <2>1. v[c].queue[Peer("dialler")] = k[c].queue[Peer("dialler")] \o ms
    <3>1. k[c].open = End
      BY <1>6
    <3>2. QED
      BY <1>q, <3>1, SentQueue
  <2>2. QED
    BY <1>5, <1>6, <2>1, Ends
<1>9. Len(<<>> \o ms) = 1 /\ (<<>> \o ms)[1] = x
  <2>1. /\ Len(<<>> \o ms) = Len(<<>>) + Len(ms)
        /\ \A i \in 1..Len(ms) : (<<>> \o ms)[Len(<<>>) + i] = ms[i]
    BY <1>4, EmptyList, Concat
  <2>2. 1 \in 1..Len(ms) /\ Len(<<>>) = 0
    BY <1>4, EmptyList
  <2>3. QED
    BY <1>4, <2>1, <2>2
<1>10. b = Master => Greeted(v[c])
  BY <1>2, <1>6, <1>7, <1>8, <1>9 DEF Greeted
<1>11. n[c].open = {}
  BY UnusedChannel
<1>12. Opened(n, v)
  BY <1>6, <1>7, <1>10, <1>11 DEF Opened
<1>13. Frame(n, v, {} \cup {}, {} \cup {})
  BY <1>6, <1>7, FrameTransitive
<1>14. {} \cup {} = {}
  OBVIOUS
<1>15. QED
  BY <1>6, <1>7, <1>12, <1>13, <1>14 DEF Turned

LEMMA TurnedRedial ==
  ASSUME NEW n, NetType(n), NEW k, NEW c \in Conn, n[c] = Unused, k \in Conn => n[k] # Unused,
         NEW a \in Slave \cup Client, NEW b \in Slave, NEW t,
         NEW v, v = Sent(Dialled(Shut(n, k, "dialler"), c, a, b), c, "dialler", <<Msg("AUTH", t)>>)
  PROVE  Turned(n, v, {<<k, "dialler">>}, {}) /\ v[c].open = End /\ v[c].from = a
<1>1. PICK h : h = Shut(n, k, "dialler")
  OBVIOUS
<1>2. "dialler" \in End /\ b \in {Master} \cup Slave /\ (b = Master => t = a)
  BY Ends, NodeAssumption
<1>3. Turned(n, h, {<<k, "dialler">>}, {}) /\ \A d \in Conn : d # k => h[d] = n[d]
  BY <1>1, <1>2, TurnedShut
<1>4. NetType(h) /\ h[c] = Unused
  BY <1>3 DEF Turned
<1>5. v = Sent(Dialled(h, c, a, b), c, "dialler", <<Msg("AUTH", t)>>)
  BY <1>1
<1>6. Turned(h, v, {}, {}) /\ v[c].open = End /\ v[c].from = a
  BY <1>2, <1>4, <1>5, TurnedDial
<1>7. ASSUME NEW d \in Conn, "server" \in n[d].open PROVE "server" \in h[d].open
  BY <1>1, <1>3, <1>7, Ends DEF Frame, Stays, Turned
<1>8. ASSUME NEW d \in Conn, "server" \in h[d].open PROVE "server" \in n[d].open
  <2>1. CASE d # k
    BY <1>3, <1>8, <2>1
  <2>2. CASE d = k
    <3>1. k \in Conn /\ "dialler" \in End
      BY <1>2, <2>2
    <3>3. h[k].open = n[k].open \ {"dialler"}
      BY <1>1, <3>1 DEF Shut, NetType, IsChannel, ChannelField, Unused
    <3>2. QED
      BY <1>8, <2>2, <3>3
  <2>3. QED
    BY <2>1, <2>2
<1>9. Turned(n, v, {<<k, "dialler">>} \cup {}, {} \cup {})
  BY <1>3, <1>6, <1>7, <1>8, TurnedTwice
<1>10. {<<k, "dialler">>} \cup {} = {<<k, "dialler">>} /\ {} \cup {} = {}
  OBVIOUS
<1>11. QED
  BY <1>6, <1>9, <1>10

(* What waits at an end is taken, and answered.                              *)
LEMMA TurnedAnswered ==
  ASSUME NEW n, NetType(n), NEW c, "dialler" \in n[c].open, n[c].queue["dialler"] # <<>>,
         NEW ms, IsList(ms),
         NEW v, v = Sent(Taken(n, c, "dialler"), c, "dialler", ms)
  PROVE  /\ Turned(n, v, {}, {<<c, "dialler">>})
         /\ \A d \in Conn : v[d].open = n[d].open /\ v[d].from = n[d].from /\ v[d].to = n[d].to
<1>1. PICK h : h = Taken(n, c, "dialler")
  OBVIOUS
<1>2. "dialler" \in End
  BY Ends
<1>3. /\ Turned(n, h, {}, {<<c, "dialler">>})
      /\ \A d \in Conn : h[d].open = n[d].open /\ h[d].from = n[d].from /\ h[d].to = n[d].to
  BY <1>1, <1>2, TurnedTaken
<1>4. NetType(h)
  BY <1>3 DEF Turned
<1>5. /\ Turned(h, v, {}, {})
      /\ \A d \in Conn : v[d].open = h[d].open /\ v[d].from = h[d].from /\ v[d].to = h[d].to
  <2>1. v = Sent(h, c, "dialler", ms)
    BY <1>1
  <2>2. Turned(h, v, {}, {})
    BY <1>2, <1>4, <2>1, TurnedSent
  <2>3. \A d \in Conn : v[d].open = h[d].open /\ v[d].from = h[d].from /\ v[d].to = h[d].to
    BY SMTT(20), <1>2, <1>4, <2>1, SentNet
  <2>4. QED
    BY <2>2, <2>3
<1>6. Turned(n, v, {} \cup {}, {<<c, "dialler">>} \cup {})
  BY <1>3, <1>5, TurnedTwice
<1>7. {} \cup {} = {} /\ {<<c, "dialler">>} \cup {} = {<<c, "dialler">>}
  OBVIOUS
<1>8. QED
  BY <1>3, <1>5, <1>6, <1>7

LEMMA TakenQueue ==
  ASSUME NEW n, NetType(n), NEW c \in Conn, NEW e \in End, e \in n[c].open, n[c].queue[e] # <<>>,
         NEW v, v = Taken(n, c, e)
  PROVE  NetType(v) /\ v[c].queue[e] = Tail(n[c].queue[e])
<1> DEFINE r == Tail(n[c].queue[e])
           k == [n[c] EXCEPT !.queue[e] = r]
<1>1. IsChannel(n[c])
  BY DEF NetType
<1>2. v = [n EXCEPT ![c] = k]
  BY <1>1 DEF Taken, NetType, IsChannel, ChannelField
<1> HIDE DEF r
<1>3. k.queue = [n[c].queue EXCEPT ![e] = r]
  BY <1>1 DEF IsChannel, ChannelField
<1> HIDE DEF k
<1>4. k.queue[e] = r
  BY <1>1, <1>3 DEF IsChannel
<1>5. v[c] = k
  BY <1>2 DEF NetType
<1>6. NetType(v)
  BY TurnedTaken DEF Turned
<1>7. QED
  BY <1>4, <1>5, <1>6 DEF r

LEMMA SentOther ==
  ASSUME NEW n, NetType(n), NEW c \in Conn, NEW e \in End, NEW ms, IsList(ms),
         NEW v, v = Sent(n, c, e, ms)
  PROVE  v[c].queue[e] = n[c].queue[e]
<1>1. CASE n[c].open # End
  <2>1. v = n
    BY <1>1 DEF Sent
  <2>2. QED
    BY <2>1
<1>2. CASE n[c].open = End
  <2> DEFINE p == Peer(e)
             r == n[c].queue[p] \o ms
             k == [n[c] EXCEPT !.queue[p] = r]
  <2>1. IsChannel(n[c]) /\ p \in End /\ p # e
    BY Ends DEF NetType
  <2>2. v = [n EXCEPT ![c] = k]
    BY <1>2, <2>1 DEF Sent, NetType, IsChannel, ChannelField
  <2> HIDE DEF p, r
  <2>3. k.queue = [n[c].queue EXCEPT ![p] = r]
    BY <2>1 DEF IsChannel, ChannelField
  <2> HIDE DEF k
  <2>4. k.queue[e] = n[c].queue[e]
    BY <2>1, <2>3 DEF IsChannel
  <2>5. v[c] = k
    BY <2>2 DEF NetType
  <2>6. QED
    BY <2>4, <2>5
<1>3. QED
  BY <1>1, <1>2

(* The answer to a line that asks for a token, or to one that does not.      *)
LEMMA AnsweredComes ==
  ASSUME NEW n, NetType(n), NEW c \in Conn, "dialler" \in n[c].open, n[c].queue["dialler"] # <<>>,
         NEW ms, IsList(ms),
         NEW v, v = Sent(Taken(n, c, "dialler"), c, "dialler", ms),
         NEW lost, NEW new, lost => new,
         Head(n[c].queue["dialler"]).kind # "CLIENT" \/ Len(ms) >= 1 \/ new,
         Comes(n, c, lost)
  PROVE  Comes(v, c, new)
<1>1. PICK h : h = Taken(n, c, "dialler")
  OBVIOUS
<1>2. "dialler" \in End /\ "server" \in End /\ Peer("dialler") = "server" /\ v = Sent(h, c, "dialler", ms)
  BY <1>1, Ends DEF Peer
<1>3. /\ NetType(h) /\ h[c].queue["dialler"] = Tail(n[c].queue["dialler"])
      /\ h[c].queue["server"] = n[c].queue["server"] /\ h[c].open = n[c].open
  <2>0. "dialler" \in End
    BY <1>2
  <2>1. NetType(h) /\ h[c].queue["dialler"] = Tail(n[c].queue["dialler"])
    BY <1>1, <2>0, TakenQueue
  <2>2. h[c].queue["server"] = n[c].queue["server"] /\ h[c].open = n[c].open
    BY <1>1, <1>2 DEF Taken, NetType, IsChannel, ChannelField
  <2>3. QED
    BY <2>1, <2>2
<1>q. NetType(h) /\ "dialler" \in End /\ v = Sent(h, c, "dialler", ms)
  BY <1>2, <1>3
<1>4. /\ NetType(v) /\ v[c].open = h[c].open
  BY <1>q, TurnedSent DEF Turned
<1>5. CASE n[c].open # End
  BY <1>3, <1>4, <1>5 DEF Comes
<1>6. CASE n[c].open = End
  <2> DEFINE a == n[c].queue["server"]
             b == n[c].queue["dialler"]
             r == v[c].queue["server"]
             z == v[c].queue["dialler"]
  <2>1. IsList(a) /\ IsList(b)
    BY <1>2 DEF NetType, IsChannel
  <2>2. r = a \o ms
    <3>1. v[c].queue[Peer("dialler")] = h[c].queue[Peer("dialler")] \o ms
      <4>1. h[c].open = End
        BY <1>3, <1>6
      <4>2. QED
        BY <1>q, <4>1, SentQueue
    <3>2. QED
      BY <1>2, <1>3, <3>1
  <2>3. z = Tail(b)
    <3>1. v[c].queue["dialler"] = h[c].queue["dialler"]
      BY <1>q, SentOther
    <3>2. QED
      BY <1>3, <3>1
  <2>4. Len(a) \in Nat /\ Len(b) \in Nat /\ Len(ms) \in Nat /\ b # <<>> /\ Head(b) = b[1]
    BY <2>1, ListDomain
  <2>5. \/ Len(a) >= 1 \/ lost \/ \E j \in 1..Len(b) : b[j].kind = "CLIENT"
    BY <1>6 DEF Comes
  <2>6. b[1].kind # "CLIENT" \/ Len(ms) >= 1 \/ new
    BY <2>4
  <2> HIDE DEF a, b, r, z
  <2>7. Len(r) = Len(a) + Len(ms)
    BY <2>1, <2>2, Concat
  <2>8. Len(z) = Len(b) - 1 /\ \A i \in 1..Len(b) - 1 : z[i] = b[i + 1]
    BY <2>1, <2>3, <2>4, TailOf
  <2>9. CASE Len(a) >= 1 \/ Len(ms) >= 1 \/ new
    BY <2>4, <2>7, <2>9 DEF Comes, r
  <2>10. ASSUME NEW j \in 1..Len(b), b[j].kind = "CLIENT", b[1].kind # "CLIENT"
         PROVE  Comes(v, c, new)
    <3>1. j # 1 /\ j - 1 \in 1..Len(b) - 1 /\ (j - 1) + 1 = j
      BY <2>4, <2>10
    <3>2. j - 1 \in 1..Len(z) /\ z[j - 1].kind = "CLIENT"
      BY <2>8, <2>10, <3>1
    <3>3. QED
      BY <3>2 DEF Comes, z
  <2>11. QED
    BY <2>5, <2>6, <2>9, <2>10
<1>7. QED
  BY <1>5, <1>6

(* A number for a new connection.                                            *)
LEMMA LeastConn ==
  ASSUME NEW S, S \subseteq Conn, S # {}
  PROVE  Min(S) \in S
<1>1. S \subseteq Nat
  BY BoundAssumption
<1>2. \E x \in S : \A y \in S : x <= y
  <2>1. IsWellFoundedOn(OpToRel(<, Nat), Nat)
    BY Zenon, NatLessThanWellFounded
  <2>2. PICK x \in S : \A y \in S : <<y, x>> \notin OpToRel(<, Nat)
    BY Zenon, <1>1, <2>1, WFMin
  <2>3. \A y \in S : ~(y < x)
    BY <1>1, <2>2 DEF OpToRel
  <2>4. QED
    BY <1>1, <2>3
<1>3. QED
  BY <1>2 DEF Min

-----------------------------------------------------------------------------
(* The ends that slaves, their threads and clients have.                     *)
Busy == {"auth", "enter", "main"}
Holds(c, e, x) == e \in net[c].open /\ Owner(net[c], e) = x

Links == \A s \in Slave : slave[s].link \in Conn => Holds(slave[s].link, "dialler", s)
Accepts ==
    \A s \in Slave : slave[s].pc = "accept" =>
      /\ slave[s].conn \in Conn /\ Holds(slave[s].conn, "server", s)
      /\ thread[slave[s].conn].pc \notin Busy
Threads ==
    \A c \in Conn : thread[c].pc \in Busy =>
      thread[c].at \in Slave /\ Holds(c, "server", thread[c].at)
Socks == \A c \in Client : client[c].sock \in Conn => Holds(client[c].sock, "dialler", c)
Holdings == Links /\ Accepts /\ Threads /\ Socks

ClientField == {"state", "sock", "peer", "nolp", "rest", "dials"}
ClientShapes ==
    /\ client = [c \in Client |-> client[c]]
    /\ \A c \in Client : client[c] = [f \in ClientField |-> client[c][f]]

-----------------------------------------------------------------------------
(* What a process holds stays when another one moves.                        *)

LEMMA HoldsStays ==
  ASSUME NEW c \in Conn, NEW e \in End, NEW x, Holds(c, e, x),
         NEW H, NEW Q, Turned(net, net', H, Q), <<c, e>> \notin H
  PROVE  Holds(c, e, x)'
BY DEF Holds, Owner, Turned, Frame, Stays

(* What x does: it opens and closes ends of its own.                         *)
Others(x) ==
    /\ \A q \in Slave : q # x =>
         slave'[q].link = slave[q].link /\ slave'[q].pc = slave[q].pc /\ slave'[q].conn = slave[q].conn
    /\ \A q \in Client : q # x => client'[q].sock = client[q].sock
    /\ \A c \in Conn : thread'[c].pc \in Busy =>
         \/ thread[c].pc \in Busy /\ thread'[c].at = thread[c].at /\ thread[c].at # x
         \/ thread'[c].at = x /\ x \in Slave /\ Holds(c, "server", x)'
Itself(x) ==
    /\ x \in Slave =>
         /\ slave'[x].link \in Conn => "dialler" \in net'[slave'[x].link].open
                                         /\ Owner(net'[slave'[x].link], "dialler") = x
         /\ slave'[x].pc = "accept" =>
              /\ slave'[x].conn \in Conn /\ "server" \in net'[slave'[x].conn].open
              /\ Owner(net'[slave'[x].conn], "server") = x
              /\ thread'[slave'[x].conn].pc \notin Busy
    /\ x \in Client =>
         /\ client'[x].sock \in Conn => "dialler" \in net'[client'[x].sock].open
                                          /\ Owner(net'[client'[x].sock], "dialler") = x
Owned(H, x) == \A p \in H : p[1] \in Conn => Owner(net[p[1]], p[2]) = x

LEMMA HoldingsTurn ==
  ASSUME Holdings, NEW x, NEW H, NEW Q, Turned(net, net', H, Q), Owned(H, x), Others(x), Itself(x)
  PROVE  Holdings'
<1>1. ASSUME NEW c \in Conn, NEW e \in End, NEW y, Holds(c, e, y), y # x
      PROVE  Holds(c, e, y)'
  <2>1. <<c, e>> \notin H
    BY <1>1 DEF Owned, Holds
  <2>2. QED
    BY <1>1, <2>1, HoldsStays
<1>2. Links'
  <2>1. ASSUME NEW q \in Slave, slave'[q].link \in Conn
        PROVE  "dialler" \in net'[slave'[q].link].open /\ Owner(net'[slave'[q].link], "dialler") = q
    <3>1. CASE q = x
      BY <2>1, <3>1 DEF Itself
    <3>2. CASE q # x
      <4>1. slave'[q].link = slave[q].link /\ Holds(slave[q].link, "dialler", q)
        BY <2>1, <3>2 DEF Others, Holdings, Links
      <4>2. PICK c \in Conn : c = slave[q].link
        BY <2>1, <4>1
      <4>3. Holds(c, "dialler", q)'
        BY <1>1, <3>2, <4>1, <4>2, Ends
      <4>4. QED
        BY <4>1, <4>2, <4>3 DEF Holds
    <3>3. QED
      BY <3>1, <3>2
  <2>2. QED
    BY <2>1 DEF Links, Holds, Owner
<1>3. Threads'
  <2>1. ASSUME NEW c \in Conn, thread'[c].pc \in Busy
        PROVE  thread'[c].at \in Slave /\ "server" \in net'[c].open /\ Owner(net'[c], "server") = thread'[c].at
    <3>1. CASE thread'[c].at = x /\ x \in Slave /\ Holds(c, "server", x)'
      BY <3>1 DEF Holds
    <3>2. CASE thread[c].pc \in Busy /\ thread'[c].at = thread[c].at /\ thread[c].at # x
      <4>1. thread[c].at \in Slave /\ Holds(c, "server", thread[c].at)
        BY <3>2 DEF Holdings, Threads
      <4>2. PICK y : y = thread[c].at
        OBVIOUS
      <4>3. Holds(c, "server", y)'
        BY <1>1, <3>2, <4>1, <4>2, Ends
      <4>4. QED
        BY <3>2, <4>1, <4>2, <4>3 DEF Holds
    <3>3. QED
      BY <2>1, <3>1, <3>2 DEF Others
  <2>2. QED
    BY <2>1 DEF Threads, Holds, Owner
<1>4. Accepts'
  <2>1. ASSUME NEW q \in Slave, slave'[q].pc = "accept"
        PROVE  /\ slave'[q].conn \in Conn /\ "server" \in net'[slave'[q].conn].open
               /\ Owner(net'[slave'[q].conn], "server") = q
               /\ thread'[slave'[q].conn].pc \notin Busy
    <3>1. CASE q = x
      BY <2>1, <3>1 DEF Itself
    <3>2. CASE q # x
      <4>1. /\ slave'[q].conn = slave[q].conn /\ Holds(slave[q].conn, "server", q)
            /\ slave[q].conn \in Conn /\ thread[slave[q].conn].pc \notin Busy
        BY <2>1, <3>2 DEF Others, Holdings, Accepts
      <4>2. PICK c \in Conn : c = slave[q].conn
        BY <4>1
      <4>3. Holds(c, "server", q)'
        BY <1>1, <3>2, <4>1, <4>2, Ends
      <4>4. thread'[c].pc \notin Busy
        BY <3>2, <4>1, <4>2, <4>3 DEF Others, Holds
      <4>5. QED
        BY <4>1, <4>2, <4>3, <4>4 DEF Holds
    <3>3. QED
      BY <3>1, <3>2
  <2>2. QED
    BY <2>1 DEF Accepts, Holds, Owner
<1>5. Socks'
  <2>1. ASSUME NEW q \in Client, client'[q].sock \in Conn
        PROVE  "dialler" \in net'[client'[q].sock].open /\ Owner(net'[client'[q].sock], "dialler") = q
    <3>1. CASE q = x
      BY <2>1, <3>1 DEF Itself
    <3>2. CASE q # x
      <4>1. client'[q].sock = client[q].sock /\ Holds(client[q].sock, "dialler", q)
        BY <2>1, <3>2 DEF Others, Holdings, Socks
      <4>2. PICK c \in Conn : c = client[q].sock
        BY <2>1, <4>1
      <4>3. Holds(c, "dialler", q)'
        BY <1>1, <3>2, <4>1, <4>2, Ends
      <4>4. QED
        BY <4>1, <4>2, <4>3 DEF Holds
    <3>3. QED
      BY <3>1, <3>2
  <2>2. QED
    BY <2>1 DEF Socks, Holds, Owner
<1>6. QED
  BY <1>2, <1>3, <1>4, <1>5 DEF Holdings

(* The master changes no end that others have.                               *)
LEMMA HoldingsMaster ==
  ASSUME Holdings, Untouched(net'), UNCHANGED <<slave, thread, client>>
  PROVE  Holdings'
<1>1. ASSUME NEW c \in Conn, NEW e \in End, NEW y \in Slave \cup Client, Holds(c, e, y)
      PROVE  Holds(c, e, y)'
  <2>1. Owner(net[c], e) # Master
    BY <1>1, NodeAssumption DEF Holds
  <2>2. Stays(net[c], net'[c], e)
    BY <1>1, <2>1 DEF Untouched, Holds
  <2>3. QED
    BY <1>1, <2>2 DEF Holds, Stays, Owner
<1>2. Links'
  BY <1>1, Ends DEF Holdings, Links, Holds
<1>3. Accepts'
  BY <1>1, Ends DEF Holdings, Accepts, Holds
<1>4. Threads'
  BY <1>1, Ends DEF Holdings, Threads, Holds
<1>5. Socks'
  BY <1>1, Ends DEF Holdings, Socks, Holds
<1>6. QED
  BY <1>2, <1>3, <1>4, <1>5 DEF Holdings

-----------------------------------------------------------------------------
(* What the master waits for still comes.                                    *)
Goes ==
    \A c \in Conn :
      /\ "server" \in net[c].open /\ net[c].to = Master /\ net[c].from \in Slave
      /\ Comes(net, c, Lost(net[c].from))
      => Comes(net', c, slave'[net[c].from].nolp = "LOST")

LEMMA MasterTurn ==
  ASSUME MasterInv, master' = master, NEW H, NEW Q, Turned(net, net', H, Q),
         "db" \notin faults' => /\ "db" \notin faults /\ Goes
                                /\ \A p \in H \cup Q : p[1] \in Conn => Owner(net[p[1]], p[2]) # Master
  PROVE  MasterInv'
<1>1. NetType(net') /\ World'.m = master' /\ World'.n = net' /\ World' = [m |-> World'.m, n |-> World'.n]
  BY DEF Turned, World
<1>2. PICK w : w = World
  OBVIOUS
<1>3. PICK v : v = World'
  OBVIOUS
<1>4. /\ IsWorld(w) /\ Fresh(w.m) /\ w.m = master /\ w.n = net
      /\ "db" \notin faults => Right(w, NoConn)
  BY <1>2, Known
<1>5. v = [m |-> v.m, n |-> v.n] /\ v.m = w.m /\ v.n = net'
  BY <1>1, <1>3, <1>4
<1>6. IsWorld(v) /\ Fresh(v.m)
  BY <1>1, <1>4, <1>5 DEF IsWorld
<1>7. Good(World)'
  <2>1. Good(World')
    BY <1>3, <1>6 DEF Good
  <2>2. QED
    BY <2>1 DEF Good, IsWorld, IsMaster, IsRecord, Fresh
<1>8. ASSUME "db" \notin faults' PROVE Right(World, NoConn)'
  <2>1. /\ "db" \notin faults /\ Goes /\ Sound(w) /\ Linked(w, NoConn)
        /\ \A p \in H \cup Q : p[1] \in Conn => Owner(net[p[1]], p[2]) # Master
    BY <1>4, <1>8 DEF Right
  <2>2. Sound(v)
    <3>1. v.m.pool = w.m.pool /\ Frame(w.n, v.n, H, Q)
      BY <1>4, <1>5 DEF Turned
    <3>2. \A c \in Conn : w.n[c].to = Master => <<c, "server">> \notin H \cup Q
      BY <1>4, <2>1 DEF Owner
    <3>3. /\ \A c \in Conn : "server" \in v.n[c].open /\ "server" \notin w.n[c].open /\ v.n[c].to = Master =>
               Len(v.n[c].queue["server"]) >= 1 /\ v.n[c].queue["server"][1] = Msg("AUTH", v.n[c].from)
          /\ \A c \in Conn : "server" \in v.n[c].open /\ "server" \in w.n[c].open => v.n[c].to = w.n[c].to
      BY <1>4, <1>5 DEF Turned, Opened, Greeted
    <3>4. QED
      BY <1>4, <1>6, <2>1, <3>1, <3>2, <3>3, SoundStays
  <2>3. Sound(World)'
    <3>1. Sound(World')
      BY <1>3, <2>2
    <3>2. QED
      BY <3>1 DEF Sound, Served, Greets
  <2>4. Index(World'.m, NoConn) /\ Asked(World'.m, NoConn)
    BY <1>3, <1>5, <2>1 DEF Linked
  <2>5. (Answering(World, NoConn))'
    <3>1. ASSUME NEW i \in DOMAIN master.slaves, master.slaves[i].client_conn \notin {NoConn, NoConn}
          PROVE  Comes(net', master.slaves[i].conn, slave'[master.slaves[i].name].nolp = "LOST")
      <4>1. PICK c \in Conn : c = master.slaves[i].conn
        BY <1>4 DEF IsWorld, IsMaster, IsRecord
      <4>2. /\ master.pool[c].auth = "slave" /\ master.pool[c].user = master.slaves[i].name
        BY <1>4, <2>1, <4>1 DEF Linked, Index
      <4>3. /\ "server" \in net[c].open /\ net[c].to = Master /\ net[c].from \in Slave
            /\ net[c].from = master.slaves[i].name
        BY <1>4, <2>1, <4>2 DEF Sound, Served
      <4>4. Comes(net, c, Lost(net[c].from))
        BY <1>4, <2>1, <3>1, <4>1, <4>3 DEF Linked, Answering
      <4>5. QED
        BY <2>1, <4>1, <4>3, <4>4 DEF Goes
    <3>2. QED
      BY <3>1 DEF Answering, Lost, World
  <2>6. Mine(World)'
    <3>1. Untouched(net)'
      BY <1>1 DEF Untouched, Stays
    <3>2. QED
      BY <3>1 DEF Mine, World
  <2>7. Linked(World, NoConn)'
    BY <2>4, <2>5 DEF Linked
  <2>8. QED
    BY <2>3, <2>6, <2>7 DEF Right
<1>9. QED
  BY <1>7, <1>8 DEF MasterInv

(* Nothing that comes in is taken.                                           *)
LEMMA GoesOn ==
  ASSUME NetType(net), NEW H, NEW Q, Turned(net, net', H, Q),
         \A p \in H \cup Q : p[1] \in Conn => Owner(net[p[1]], p[2]) # Master,
         \A c \in Conn : net[c].from \in Slave =>
           /\ <<c, "dialler">> \notin H \cup Q \/ "dialler" \notin net'[c].open
           /\ slave[net[c].from].nolp = "LOST" =>
                slave'[net[c].from].nolp = "LOST" \/ "dialler" \notin net'[c].open
  PROVE  Goes
<1> SUFFICES ASSUME NEW c \in Conn, "server" \in net[c].open, net[c].to = Master, net[c].from \in Slave,
                    Comes(net, c, Lost(net[c].from))
             PROVE  Comes(net', c, slave'[net[c].from].nolp = "LOST")
  BY DEF Goes
<1>1. PICK n : n = net
  OBVIOUS
<1>2. PICK v : v = net'
  OBVIOUS
<1>4. CASE "dialler" \notin net'[c].open
  BY <1>4, Ends DEF Comes
<1>5. CASE "dialler" \in net'[c].open
  <2>1. <<c, "server">> \notin H \cup Q
    BY DEF Owner
  <2>2. <<c, "dialler">> \notin H \cup Q
    BY <1>5
  <2>3. /\ NetType(n) /\ NetType(v) /\ Frame(n, v, H, Q) /\ "server" \in n[c].open
        /\ Comes(n, c, Lost(net[c].from))
    BY <1>1, <1>2 DEF Turned
  <2>4. Comes(v, c, Lost(net[c].from))
    BY <2>1, <2>2, <2>3, ComesStays
  <2>5. QED
    BY <1>2, <1>5, <2>4 DEF Comes, Lost
<1>6. QED
  BY <1>4, <1>5

-----------------------------------------------------------------------------
Now  == IInv /\ ClientShapes /\ MasterInv /\ ("db" \notin faults => Holdings)
Goal == MasterInv' /\ ("db" \notin faults' => Holdings')

LEMMA NodeTurn ==
  ASSUME Now, master' = master, NEW x \in Slave \cup Client, NEW H, NEW Q, Turned(net, net', H, Q),
         "db" \notin faults' => /\ "db" \notin faults /\ Goes
                                /\ Owned(H, x) /\ Owned(Q, x) /\ Others(x) /\ Itself(x)
  PROVE  Goal
<1>1. x # Master
  BY NodeAssumption
<1>2. "db" \notin faults' =>
        \A p \in H \cup Q : p[1] \in Conn => Owner(net[p[1]], p[2]) # Master
  BY <1>1 DEF Owned
<1>3. MasterInv'
  BY <1>2, MasterTurn DEF Now
<1>4. "db" \notin faults' => Holdings'
  BY HoldingsTurn DEF Now
<1>5. QED
  BY <1>3, <1>4 DEF Goal

-----------------------------------------------------------------------------
(* Steps of a slave.                                                         *)
OneSlave(s, u) == slave' = [slave EXCEPT ![s] = u] /\ UNCHANGED <<master, client>>
Fits(s, u) ==
    /\ u.link \in Conn => "dialler" \in net'[u.link].open /\ Owner(net'[u.link], "dialler") = s
    /\ u.pc = "accept" => /\ u.conn \in Conn /\ "server" \in net'[u.conn].open
                          /\ Owner(net'[u.conn], "server") = s /\ thread'[u.conn].pc \notin Busy
Running(s, H) ==
    \A c \in Conn : thread'[c].pc \in Busy =>
      \/ thread[c].pc \in Busy /\ thread'[c].at = thread[c].at /\ <<c, "server">> \notin H
      \/ thread'[c].at = s /\ "server" \in net'[c].open /\ Owner(net'[c], "server") = s

LEMMA SlaveTurn ==
  ASSUME Now, NEW s \in Slave, NEW u, OneSlave(s, u), NEW H, NEW Q, Turned(net, net', H, Q),
         "db" \notin faults' => /\ "db" \notin faults /\ Goes
                                /\ Owned(H, s) /\ Owned(Q, s) /\ Running(s, H) /\ Fits(s, u)
  PROVE  Goal
<1>1. slave'[s] = u /\ \A q \in Slave : q # s => slave'[q] = slave[q]
  BY DEF OneSlave, Now, IInv, Shapes
<1>2. s \notin Client /\ master' = master /\ client' = client
  BY NodeAssumption DEF OneSlave
<1>3. ASSUME "db" \notin faults' PROVE Others(s) /\ Itself(s)
  <2>1. Holdings /\ Running(s, H) /\ Fits(s, u)
    BY <1>3 DEF Now
  <2>2. ASSUME NEW c \in Conn, thread'[c].pc \in Busy
        PROVE  \/ thread[c].pc \in Busy /\ thread'[c].at = thread[c].at /\ thread[c].at # s
               \/ thread'[c].at = s /\ s \in Slave /\ Holds(c, "server", s)'
    <3>1. CASE thread[c].pc \in Busy /\ thread'[c].at = thread[c].at /\ thread[c].at = s
                 /\ <<c, "server">> \notin H
      <4>1. Holds(c, "server", s)
        BY <2>1, <3>1 DEF Holdings, Threads
      <4>2. Holds(c, "server", s)'
        BY <3>1, <4>1, HoldsStays, Ends
      <4>3. QED
        BY <3>1, <4>2
    <3>2. CASE thread'[c].at = s /\ "server" \in net'[c].open /\ Owner(net'[c], "server") = s
      BY <3>2 DEF Holds
    <3>3. QED
      BY <2>1, <2>2, <3>1, <3>2 DEF Running
  <2>3. Others(s)
    BY <1>1, <1>2, <2>2 DEF Others
  <2>4. Itself(s)
    BY <1>1, <1>2, <2>1 DEF Itself, Fits
  <2>5. QED
    BY <2>3, <2>4
<1>4. QED
  BY <1>2, <1>3, NodeTurn

LEMMA SentNothing ==
  ASSUME NEW n, NetType(n), NEW c \in Conn, NEW e \in End, n[c].open = End,
         NEW ms, IsList(ms),
         NEW v, v = Sent(n, c, e, ms)
  PROVE  Len(v[c].queue[Peer(e)]) = Len(n[c].queue[Peer(e)]) + Len(ms)
<1>1. PICK q : q = n[c].queue[Peer(e)]
  OBVIOUS
<1>0. v[c].queue[Peer(e)] = n[c].queue[Peer(e)] \o ms
  BY SentQueue
<1>2. v[c].queue[Peer(e)] = q \o ms
  BY <1>0, <1>1
<1>3. IsList(q)
  BY <1>1, Ends DEF NetType, IsChannel
<1>4. Len(q \o ms) = Len(q) + Len(ms) /\ Len(q) \in Nat
  BY <1>3, Concat, ListDomain
<1>5. QED
  BY <1>1, <1>2, <1>4

LEMMA TakenComes ==
  ASSUME NEW n, NetType(n), NEW c \in Conn, "dialler" \in n[c].open, n[c].queue["dialler"] # <<>>,
         Head(n[c].queue["dialler"]).kind # "CLIENT",
         NEW h, h = Taken(n, c, "dialler"),
         NEW lost, Comes(n, c, lost)
  PROVE  Comes(h, c, lost)
<1>1. PICK ms : ms = <<>>
  OBVIOUS
<1>2. IsList(ms) /\ Len(ms) = 0
  BY <1>1, EmptyList
<1>3. PICK v : v = Sent(h, c, "dialler", ms)
  OBVIOUS
<1>4. "dialler" \in End /\ Peer("dialler") = "server"
  BY Ends DEF Peer
<1>5. NetType(h)
  BY <1>4, TakenQueue
<1>6. Comes(v, c, lost)
  <2>1. v = Sent(Taken(n, c, "dialler"), c, "dialler", ms)
    BY <1>3
  <2>2. QED
    BY <1>2, <2>1, AnsweredComes
<1>7. v[c].open = h[c].open
  BY <1>2, <1>3, <1>4, <1>5, TurnedSent
<1>8. v[c].queue["dialler"] = h[c].queue["dialler"]
  BY <1>2, <1>3, <1>4, <1>5, SentOther
<1>9. CASE h[c].open # End
  BY <1>9 DEF Comes
<1>10. CASE h[c].open = End
  <2>0. NetType(h) /\ "dialler" \in End /\ IsList(ms) /\ Len(ms) = 0 /\ h[c].open = End
        /\ v = Sent(h, c, "dialler", ms)
    BY <1>2, <1>3, <1>4, <1>5, <1>10
  <2>1. Len(v[c].queue[Peer("dialler")]) = Len(h[c].queue[Peer("dialler")]) + Len(ms)
    BY <2>0, SentNothing
  <2>2. Len(h[c].queue["server"]) \in Nat
    BY <2>0, Ends, ListDomain DEF NetType, IsChannel
  <2>5. QED
    BY <1>4, <1>6, <1>7, <1>8, <2>0, <2>1, <2>2 DEF Comes
<1>11. QED
  BY <1>9, <1>10

(* A slave takes a line of the master, and answers or not.                   *)
Takes(s, k) ==
    LET l == slave[s].link
    IN /\ "dialler" \in net[l].open /\ net[l].queue["dialler"] # <<>> /\ net' = k
       /\ (l \in Conn => net[l].from = s)
       /\ \A q \in Slave : slave[q].nolp = "LOST" => slave'[q].nolp = "LOST"

LEMMA GoesTaken ==
  ASSUME NetType(net), NEW s \in Slave, NEW k, NEW Q, Turned(net, k, {}, Q), Takes(s, k),
         Q = {<<slave[s].link, "dialler">>},
         \A lost : slave[s].link \in Conn /\ Comes(net, slave[s].link, lost)
                     => \/ Comes(k, slave[s].link, lost)
                        \/ Comes(k, slave[s].link, TRUE) /\ slave'[s].nolp = "LOST"
  PROVE  Goes
<1> SUFFICES ASSUME NEW c \in Conn, "server" \in net[c].open, net[c].to = Master, net[c].from \in Slave,
                    Comes(net, c, Lost(net[c].from))
             PROVE  Comes(net', c, slave'[net[c].from].nolp = "LOST")
  BY DEF Goes
<1>1. net' = k /\ (Lost(net[c].from) => slave'[net[c].from].nolp = "LOST")
  BY Zenon DEF Takes, Lost
<1>2. CASE c = slave[s].link
  <2>1. net[c].from = s
    BY <1>2 DEF Takes
  <2>2. \/ Comes(k, c, Lost(net[c].from))
        \/ Comes(k, c, TRUE) /\ slave'[s].nolp = "LOST"
    BY Zenon, <1>2
  <2>3. QED
    BY Zenon, <1>1, <2>1, <2>2 DEF Comes
<1>3. CASE c # slave[s].link
  <2>1. PICK n : n = net
    OBVIOUS
  <2>2. <<c, "server">> \notin {} \cup Q /\ <<c, "dialler">> \notin {} \cup Q
    BY <1>3
  <2>3. NetType(n) /\ NetType(k) /\ Frame(n, k, {}, Q) /\ "server" \in n[c].open
        /\ Comes(n, c, Lost(net[c].from))
    BY <2>1 DEF Turned
  <2>4. Comes(k, c, Lost(net[c].from))
    BY <2>2, <2>3, ComesStays
  <2>5. QED
    BY Zenon, <1>1, <2>4 DEF Comes
<1>4. QED
  BY <1>2, <1>3

-----------------------------------------------------------------------------
(* Steps of a slave's main thread, one by one.                               *)

LEMMA NowFacts ==
  ASSUME Now
  PROVE  /\ NetType(net) /\ ("db" \notin faults => Holdings)
         /\ slave = [s \in Slave |-> slave[s]] /\ \A s \in Slave : Shape(slave[s])
         /\ thread = [c \in Conn |-> thread[c]] /\ \A c \in Conn : ThreadShape(thread[c])
BY Known DEF Now, IInv, Shapes

(* Nothing of the threads changes.                                           *)
LEMMA SameThreads ==
  ASSUME NEW s, NEW H, thread' = thread, \A c \in Conn : <<c, "server">> \notin H
  PROVE  Running(s, H)
BY DEF Running

LEMMA NoneOwned ==
  ASSUME NEW s
  PROVE  Owned({}, s)
BY DEF Owned

LEMMA LinkOwned ==
  ASSUME NEW s \in Slave, Holdings
  PROVE  Owned({<<slave[s].link, "dialler">>}, s)
BY DEF Owned, Holdings, Links, Holds

(* The link is as it was.                                                    *)
LEMMA LinkFits ==
  ASSUME NEW s \in Slave, Holdings, NEW u, u.link = slave[s].link, u.pc # "accept",
         NEW H, NEW Q, Turned(net, net', H, Q), \A c \in Conn : <<c, "dialler">> \notin H
  PROVE  Fits(s, u)
<1>1. ASSUME u.link \in Conn PROVE "dialler" \in net'[u.link].open /\ Owner(net'[u.link], "dialler") = s
  <2>1. PICK c \in Conn : c = u.link
    BY <1>1
  <2>2. Holds(c, "dialler", s)
    BY <2>1 DEF Holdings, Links
  <2>3. Holds(c, "dialler", s)'
    BY <2>2, HoldsStays, Ends
  <2>4. QED
    BY <2>1, <2>3 DEF Holds
<1>2. QED
  BY <1>1 DEF Fits

(* Nobody loses what the master waits for.                                   *)
LEMMA GoesQuiet ==
  ASSUME NetType(net), NEW s \in Slave, NEW H, NEW Q, Turned(net, net', H, Q), Owned(H, s), Owned(Q, s),
         \A c \in Conn : <<c, "dialler">> \notin H \cup Q,
         \A q \in Slave : slave[q].nolp = "LOST" => slave'[q].nolp = "LOST"
  PROVE  Goes
<1>1. \A p \in H \cup Q : p[1] \in Conn => Owner(net[p[1]], p[2]) # Master
  BY NodeAssumption DEF Owned
<1>2. \A c \in Conn : net[c].from \in Slave =>
        /\ <<c, "dialler">> \notin H \cup Q \/ "dialler" \notin net'[c].open
        /\ slave[net[c].from].nolp = "LOST" =>
             slave'[net[c].from].nolp = "LOST" \/ "dialler" \notin net'[c].open
  OBVIOUS
<1>3. QED
  BY <1>1, <1>2, GoesOn

-----------------------------------------------------------------------------
(* A slave connects, and takes a line of the master and answers it.          *)

LEMMA ConnectStep ==
  ASSUME Now, NEW s \in Slave, Connect(s), UNCHANGED <<master, client>>, faults' = faults
  PROVE  Goal
<1>1. PICK c \in Conn : c = Min(FreeConns) /\ net[c] = Unused
  <2>1. FreeConns \subseteq Conn /\ FreeConns # {}
    BY Zenon DEF FreeConns, Connect
  <2>2. Min(FreeConns) \in FreeConns
    BY <2>1, LeastConn
  <2>3. QED
    BY <2>2 DEF FreeConns
<1>2. PICK u : u = [slave[s] EXCEPT !.pc = "login", !.link = c, !.dials = slave[s].dials + 1]
  OBVIOUS
<1>3. Shape(slave[s]) /\ NetType(net)
  BY NowFacts
<1>4. u.pc = "login" /\ u.link = c /\ u.nolp = slave[s].nolp
  BY <1>2, <1>3 DEF Shape, Field
<1>5. /\ slave' = [slave EXCEPT ![s] = u] /\ thread' = thread
      /\ net' = Sent(Dialled(net, c, s, Master), c, "dialler", <<Msg("AUTH", s)>>)
  BY <1>1, <1>2, <1>3 DEF Connect
<1>6. Turned(net, net', {}, {}) /\ net'[c].open = End /\ net'[c].from = s
  <2>1. PICK n : n = net
    OBVIOUS
  <2>2. PICK v : v = net'
    OBVIOUS
  <2>3. /\ NetType(n) /\ n[c] = Unused /\ s \in Slave \cup Client /\ Master \in {Master} \cup Slave
        /\ (Master = Master => s = s)
        /\ v = Sent(Dialled(n, c, s, Master), c, "dialler", <<Msg("AUTH", s)>>)
    BY <1>1, <1>3, <1>5, <2>1, <2>2
  <2>4. Turned(n, v, {}, {}) /\ v[c].open = End /\ v[c].from = s
    BY <2>3, TurnedDial
  <2>5. QED
    BY <2>1, <2>2, <2>4
<1>7. \A q \in Slave : slave'[q].nolp = slave[q].nolp
  BY <1>4, <1>5, NowFacts
<1>8. OneSlave(s, u)
  BY <1>5 DEF OneSlave
<1>9. Fits(s, u)
  BY <1>4, <1>6, Ends DEF Fits, Owner
<1>10. Running(s, {})
  BY <1>5, SameThreads
<1>11. Owned({}, s)
  BY NoneOwned
<1>12. Goes
  BY <1>3, <1>6, <1>7, <1>11, GoesQuiet
<1>13. QED
  BY <1>6, <1>8, <1>9, <1>10, <1>11, <1>12, SlaveTurn

(* A line of the master is taken and answered; the link stays.               *)
LEMMA AnsweredStep ==
  ASSUME Now, NEW s \in Slave, UNCHANGED <<master, client>>, faults' = faults,
         "dialler" \in net[slave[s].link].open, net[slave[s].link].queue["dialler"] # <<>>,
         NEW ms, IsList(ms), Answered(s, ms),
         NEW u, slave' = [slave EXCEPT ![s] = u], u.link = slave[s].link, u.pc # "accept",
         slave[s].nolp = "LOST" => u.nolp = "LOST",
         Saying(s).kind # "CLIENT" \/ Len(ms) >= 1 \/ u.nolp = "LOST",
         \A c \in Conn : thread'[c].pc = thread[c].pc /\ thread'[c].at = thread[c].at
  PROVE  Goal
<1> DEFINE l == slave[s].link
           Q == {<<l, "dialler">>}
<1>1. PICK n : n = net
  OBVIOUS
<1>2. PICK k : k = Sent(Taken(n, l, "dialler"), l, "dialler", ms)
  OBVIOUS
<1>3. /\ NetType(n) /\ net' = k /\ "dialler" \in n[l].open /\ n[l].queue["dialler"] # <<>>
      /\ slave'[s] = u /\ \A q \in Slave : q # s => slave'[q] = slave[q]
  BY <1>1, <1>2, NowFacts DEF Answered
<1>4. Turned(n, k, {}, Q)
  BY <1>2, <1>3, TurnedAnswered
<1>5. OneSlave(s, u) /\ Turned(net, net', {}, Q)
  BY <1>1, <1>3, <1>4 DEF OneSlave
<1>6. ASSUME "db" \notin faults'
      PROVE  "db" \notin faults /\ Goes /\ Owned({}, s) /\ Owned(Q, s) /\ Running(s, {}) /\ Fits(s, u)
  <2>1. "db" \notin faults /\ Holdings
    BY <1>6, NowFacts
  <2>2. Owned({}, s) /\ Owned(Q, s)
    BY <2>1, NoneOwned, LinkOwned
  <2>3. Running(s, {})
    BY DEF Running
  <2>4. Fits(s, u)
    BY <1>5, <2>1, LinkFits
  <2>5. Takes(s, k)
    <3>1. l \in Conn => net[l].from = s
      BY <2>1 DEF Holdings, Links, Holds, Owner
    <3>2. QED
      BY <1>3, <3>1 DEF Takes
  <2>6. ASSUME NEW lost, l \in Conn, Comes(n, l, lost)
        PROVE  \/ Comes(k, l, lost)
               \/ Comes(k, l, TRUE) /\ slave'[s].nolp = "LOST"
    <3>1. Head(n[l].queue["dialler"]) = Saying(s)
      BY <1>1 DEF Saying, First
    <3>2. CASE u.nolp = "LOST"
      BY <1>3, <3>2 DEF Comes
    <3>3. CASE u.nolp # "LOST"
      <4>1. Head(n[l].queue["dialler"]).kind # "CLIENT" \/ Len(ms) >= 1 \/ lost
        BY <3>1, <3>3
      <4>2. Comes(k, l, lost)
        BY <1>2, <1>3, <2>6, <4>1, AnsweredComes
      <4>3. QED
        BY <4>2
    <3>4. QED
      BY <3>2, <3>3
  <2>7. Goes
    BY <1>1, <1>3, <1>4, <2>5, <2>6, GoesTaken
  <2>8. QED
    BY <2>1, <2>2, <2>3, <2>4, <2>7
<1>7. QED
  BY <1>5, <1>6, SlaveTurn

-----------------------------------------------------------------------------
(* A slave's connection to the master ends.                                  *)

LEMMA GoneStep ==
  ASSUME Now, NEW s \in Slave, NEW how, how # "accept", GoneSlave(s, how),
         UNCHANGED <<master, client>>, "db" \notin faults' => "db" \notin faults
  PROVE  Goal
<1> DEFINE H == Own(net, s)
<1>1. PICK u : u = [Process EXCEPT !.pc = how, !.made = slave[s].made, !.dials = slave[s].dials]
  OBVIOUS
<1>2. u.pc = how /\ u.link = NoConn
  BY <1>1 DEF Process
<1>3. slave' = [slave EXCEPT ![s] = u] /\ net' = ShutAll(net, s)
  BY <1>1 DEF GoneSlave
<1>4. /\ Turned(net, net', H, {})
      /\ \A c \in Conn : \A e \in End : Owner(net[c], e) = s => e \notin net'[c].open
  <2>1. PICK n : n = net
    OBVIOUS
  <2>2. PICK v : v = net'
    OBVIOUS
  <2>3. NetType(n) /\ v = ShutAll(n, s)
    BY <1>3, <2>1, <2>2, NowFacts
  <2>4. /\ Turned(n, v, Own(n, s), {})
        /\ \A c \in Conn : \A e \in End : Owner(n[c], e) = s => e \notin v[c].open
    BY <2>3, TurnedShutAll
  <2>5. QED
    BY <2>1, <2>2, <2>4
<1>5. OneSlave(s, u)
  BY <1>3 DEF OneSlave
<1>6. ASSUME "db" \notin faults'
      PROVE  "db" \notin faults /\ Goes /\ Owned(H, s) /\ Owned({}, s) /\ Running(s, H) /\ Fits(s, u)
  <2>1. "db" \notin faults /\ Holdings
    BY <1>6, NowFacts
  <2>2. Owned(H, s) /\ Owned({}, s)
    BY DEF Owned, Own
  <2>3. Running(s, H)
    <3>1. ASSUME NEW c \in Conn, thread'[c].pc \in Busy
          PROVE  thread[c].pc \in Busy /\ thread'[c].at = thread[c].at /\ <<c, "server">> \notin H
      <4>1. thread'[c] = IF thread[c].at = s THEN NoThread ELSE thread[c]
        BY DEF GoneSlave
      <4>2. NoThread.pc \notin Busy
        BY DEF NoThread, Busy
      <4>3. thread'[c] = thread[c] /\ thread[c].at # s
        BY <3>1, <4>1, <4>2
      <4>4. Owner(net[c], "server") = thread[c].at
        BY <2>1, <3>1, <4>3 DEF Holdings, Threads, Holds
      <4>5. QED
        BY <3>1, <4>3, <4>4 DEF Own
    <3>2. QED
      BY <3>1 DEF Running
  <2>4. Fits(s, u)
    BY <1>2, BoundAssumption DEF Fits
  <2>5. Goes
    <3>1. \A p \in H \cup {} : p[1] \in Conn => Owner(net[p[1]], p[2]) # Master
      BY NodeAssumption DEF Own
    <3>2. ASSUME NEW c \in Conn
          PROVE  /\ <<c, "dialler">> \notin H \cup {} \/ "dialler" \notin net'[c].open
                 /\ slave[net[c].from].nolp = "LOST" /\ net[c].from \in Slave =>
                      slave'[net[c].from].nolp = "LOST" \/ "dialler" \notin net'[c].open
      <4>1. CASE net[c].from = s
        BY <1>4, <4>1, Ends DEF Owner
      <4>2. CASE net[c].from # s
        <5>1. <<c, "dialler">> \notin H
          BY <4>2 DEF Own, Owner
        <5>2. net[c].from \in Slave => slave'[net[c].from] = slave[net[c].from]
          BY <1>3, <4>2, NowFacts
        <5>3. QED
          BY <5>1, <5>2
      <4>3. QED
        BY <4>1, <4>2
    <3>3. NetType(net)
      BY NowFacts
    <3>4. QED
      BY <1>4, <3>1, <3>2, <3>3, GoesOn
  <2>6. QED
    BY <2>1, <2>2, <2>3, <2>4, <2>5
<1>7. QED
  BY <1>4, <1>5, <1>6, SlaveTurn

LEMMA LoggedOnStep ==
  ASSUME Now, NEW s \in Slave, LoggedOn(s), UNCHANGED <<master, client>>, faults' = faults
  PROVE  Goal
<1> DEFINE l == slave[s].link
           Q == {<<l, "dialler">>}
<1>1. PICK n : n = net
  OBVIOUS
<1>2. PICK k : k = Taken(n, l, "dialler")
  OBVIOUS
<1>3. PICK u : u = [slave[s] EXCEPT !.pc = "loop", !.started = TRUE, !.io = l]
  OBVIOUS
<1>4. u.pc = "loop" /\ u.link = l /\ u.nolp = slave[s].nolp
  BY <1>3, NowFacts DEF Shape, Field
<1>5. /\ NetType(n) /\ net' = k /\ "dialler" \in n[l].open /\ n[l].queue["dialler"] # <<>> /\ "dialler" \in End
      /\ slave' = [slave EXCEPT ![s] = u] /\ thread' = thread
      /\ Head(n[l].queue["dialler"]).kind # "CLIENT"
  BY <1>1, <1>2, <1>3, NowFacts, Ends DEF LoggedOn, Waiting, First
<1>6. slave'[s] = u /\ \A q \in Slave : slave'[q].nolp = slave[q].nolp
  BY <1>4, <1>5, NowFacts
<1>7. Turned(n, k, {}, Q)
  BY <1>2, <1>5, TurnedTaken
<1>8. OneSlave(s, u) /\ Turned(net, net', {}, Q)
  BY <1>1, <1>5, <1>7 DEF OneSlave
<1>9. ASSUME "db" \notin faults'
      PROVE  "db" \notin faults /\ Goes /\ Owned({}, s) /\ Owned(Q, s) /\ Running(s, {}) /\ Fits(s, u)
  <2>1. "db" \notin faults /\ Holdings
    BY <1>9, NowFacts
  <2>2. Owned({}, s) /\ Owned(Q, s)
    BY <2>1, NoneOwned, LinkOwned
  <2>3. Running(s, {})
    BY <1>5, SameThreads
  <2>4. Fits(s, u)
    BY <1>4, <1>8, <2>1, LinkFits
  <2>5. Takes(s, k)
    <3>1. l \in Conn => net[l].from = s
      BY <2>1 DEF Holdings, Links, Holds, Owner
    <3>2. QED
      BY <1>1, <1>5, <1>6, <3>1 DEF Takes
  <2>6. ASSUME NEW lost, l \in Conn, Comes(n, l, lost)
        PROVE  Comes(k, l, lost)
    BY <1>2, <1>5, <2>6, TakenComes
  <2>7. Goes
    BY <1>1, <1>5, <1>7, <2>5, <2>6, GoesTaken
  <2>8. QED
    BY <2>1, <2>2, <2>3, <2>4, <2>7
<1>10. QED
  BY <1>8, <1>9, SlaveTurn

(* The connection to the master is closed.                                   *)
LEMMA UnlinkedStep ==
  ASSUME Now, NEW s \in Slave, UNCHANGED <<master, client>>, "db" \notin faults' => "db" \notin faults,
         net' = Shut(net, slave[s].link, "dialler"), thread' = thread,
         NEW u, slave' = [slave EXCEPT ![s] = u], u.link = NoConn, u.pc # "accept",
         u.nolp = slave[s].nolp \/ "db" \in faults'
  PROVE  Goal
<1> DEFINE l == slave[s].link
           H == {<<l, "dialler">>}
<1>1. PICK n : n = net
  OBVIOUS
<1>2. PICK v : v = net'
  OBVIOUS
<1>3. NetType(n) /\ v = Shut(n, l, "dialler") /\ "dialler" \in End
  BY <1>1, <1>2, NowFacts, Ends
<1>4. Turned(n, v, H, {}) /\ (l \in Conn => "dialler" \notin v[l].open)
  BY <1>3, TurnedShut
<1>5. OneSlave(s, u) /\ Turned(net, net', H, {})
  BY <1>1, <1>2, <1>4 DEF OneSlave
<1>6. ASSUME "db" \notin faults'
      PROVE  "db" \notin faults /\ Goes /\ Owned(H, s) /\ Owned({}, s) /\ Running(s, H) /\ Fits(s, u)
  <2>1. "db" \notin faults /\ Holdings /\ NetType(net)
    BY <1>6, NowFacts
  <2>2. Owned({}, s) /\ Owned(H, s)
    BY <2>1, NoneOwned, LinkOwned
  <2>3. Running(s, H)
    BY SameThreads
  <2>4. Fits(s, u)
    BY BoundAssumption DEF Fits
  <2>5. \A q \in Slave : slave'[q].nolp = slave[q].nolp
    BY <1>6, NowFacts
  <2>6. \A p \in H \cup {} : p[1] \in Conn => Owner(net[p[1]], p[2]) # Master
    BY <2>2, NodeAssumption DEF Owned
  <2>7. \A c \in Conn : <<c, "dialler">> \notin H \cup {} \/ "dialler" \notin net'[c].open
    BY <1>2, <1>4
  <2>8. Goes
    BY <1>5, <2>1, <2>5, <2>6, <2>7, GoesOn
  <2>9. QED
    BY <2>1, <2>2, <2>3, <2>4, <2>8
<1>7. QED
  BY <1>5, <1>6, SlaveTurn

LEMMA NotLoggedOnStep ==
  ASSUME Now, NEW s \in Slave, NotLoggedOn(s), UNCHANGED <<master, client>>, faults' = faults
  PROVE  Goal
<1>1. CASE slave[s].started
  <2>1. PICK u : u = [slave[s] EXCEPT !.pc = "loop", !.link = NoConn]
    OBVIOUS
  <2>2. u.pc = "loop" /\ u.link = NoConn /\ u.nolp = slave[s].nolp
    BY <2>1, NowFacts DEF Shape, Field
  <2>3. /\ slave' = [slave EXCEPT ![s] = u] /\ thread' = thread
        /\ net' = Shut(net, slave[s].link, "dialler")
    BY <1>1, <2>1, NowFacts DEF NotLoggedOn
  <2>4. QED
    BY <2>2, <2>3, UnlinkedStep
<1>2. CASE ~slave[s].started
  BY <1>2, GoneStep DEF NotLoggedOn
<1>3. QED
  BY <1>1, <1>2

LEMMA LinkLostStep ==
  ASSUME Now, NEW s \in Slave, UNCHANGED <<master, client>>, "db" \notin faults' => "db" \notin faults,
         LinkLost(s) \/ (NoTokenMade(s) /\ "db" \in faults')
  PROVE  Goal
<1>1. CASE LinkLost(s)
  <2>1. PICK u : u = [slave[s] EXCEPT !.link = NoConn, !.io = NoConn]
    OBVIOUS
  <2>2. u.pc = slave[s].pc /\ u.link = NoConn /\ u.nolp = slave[s].nolp
    BY <2>1, NowFacts DEF Shape, Field
  <2>3. /\ slave' = [slave EXCEPT ![s] = u] /\ thread' = thread /\ u.pc # "accept"
        /\ net' = Shut(net, slave[s].link, "dialler")
    BY <1>1, <2>1, <2>2, NowFacts DEF LinkLost, Main
  <2>4. QED
    BY <2>2, <2>3, UnlinkedStep
<1>2. CASE NoTokenMade(s) /\ "db" \in faults'
  <2>1. PICK u : u = [slave[s] EXCEPT !.link = NoConn, !.io = NoConn, !.nolp = "LOST"]
    OBVIOUS
  <2>2. u.pc = slave[s].pc /\ u.link = NoConn
    BY <2>1, NowFacts DEF Shape, Field
  <2>3. /\ slave' = [slave EXCEPT ![s] = u] /\ thread' = thread /\ u.pc # "accept"
        /\ net' = Shut(net, slave[s].link, "dialler")
    BY <1>2, <2>1, <2>2, NowFacts DEF NoTokenMade, MasterSays, Main
  <2>4. QED
    BY <1>2, <2>2, <2>3, UnlinkedStep
<1>3. QED
  BY <1>1, <1>2

-----------------------------------------------------------------------------
(* A slave reads of a client, makes a token, and sends what it has to say.   *)

LEMMA ExpectStep ==
  ASSUME Now, NEW s \in Slave, Expect(s), UNCHANGED <<master, client>>, faults' = faults
  PROVE  Goal
<1>1. PICK a : a = Saying(s).kind
  OBVIOUS
<1>2. PICK u : u = [slave[s] EXCEPT !.nolp = "EXPECT", !.want = a]
  OBVIOUS
<1>3. u.pc = slave[s].pc /\ u.link = slave[s].link
  BY <1>2, NowFacts DEF Shape, Field
<1>4. /\ slave' = [slave EXCEPT ![s] = u] /\ u.pc # "accept" /\ slave[s].nolp # "LOST"
      /\ a # "CLIENT" /\ Answered(s, <<>>) /\ thread' = thread
      /\ "dialler" \in net[slave[s].link].open /\ net[slave[s].link].queue["dialler"] # <<>>
  BY <1>1, <1>2, <1>3, NowFacts DEF Expect, MasterSays, Main, Waiting
<1>5. IsList(<<>>)
  BY EmptyList
<1>6. QED
  BY <1>1, <1>3, <1>4, <1>5, AnsweredStep

LEMMA ReceiveStep ==
  ASSUME Now, NEW s \in Slave, Receive(s), UNCHANGED <<master, client>>, faults' = faults
  PROVE  Goal
<1>1. PICK t : t = TRUE
  OBVIOUS
<1>2. PICK p : p = IF Whole(s) THEN "CMD" ELSE "LOST"
  OBVIOUS
<1>3. PICK a : a = Read(s)
  OBVIOUS
<1>4. PICK r : r = [slave[s] EXCEPT !.nolp = p]
  OBVIOUS
<1>5. r = [f \in Field |-> r[f]] /\ r.pc = slave[s].pc /\ r.link = slave[s].link /\ r.nolp = p
  BY <1>4, NowFacts DEF Shape, Field
<1>6. PICK u : u = IF r.want = "CONFIG" THEN [r EXCEPT !.config = a, !.ready = t] ELSE [r EXCEPT !.hook = a]
  OBVIOUS
<1>7. u.pc = slave[s].pc /\ u.link = slave[s].link /\ u.nolp = p
  BY <1>5, <1>6 DEF Field
<1>8. Saying(s).kind = "CLIENT" => u.nolp = "LOST"
  BY <1>2, <1>7 DEF Whole
<1>9. /\ u.pc # "accept" /\ slave[s].nolp # "LOST" /\ thread' = thread
      /\ "dialler" \in net[slave[s].link].open /\ net[slave[s].link].queue["dialler"] # <<>>
  BY <1>7 DEF Receive, MasterSays, Main, Waiting
<1>10. slave' = [slave EXCEPT ![s] = u]
  BY <1>1, <1>2, <1>3, <1>4, <1>6 DEF Receive
<1>11. PICK ms : ms \in {<<>>, <<Line("INFO")>>} /\ Answered(s, ms)
  BY DEF Receive
<1>12. IsList(ms)
  BY <1>11, EmptyList, Singles
<1>13. QED
  BY <1>7, <1>8, <1>9, <1>10, <1>11, <1>12, AnsweredStep

LEMMA MakeTokenStep ==
  ASSUME Now, NEW s \in Slave, MakeToken(s), UNCHANGED <<master, client>>, faults' = faults
  PROVE  Goal
<1>1. PICK x : x = Msg("token", NewToken(s))
  OBVIOUS
<1>2. PICK ms : ms = <<x>>
  OBVIOUS
<1>3. PICK p : p = Append(slave[s].pending, NewToken(s))
  OBVIOUS
<1>4. PICK u : u = [slave[s] EXCEPT !.pending = p, !.made = slave[s].made + 1]
  OBVIOUS
<1>5. u.pc = slave[s].pc /\ u.link = slave[s].link /\ u.nolp = slave[s].nolp
  BY <1>4, NowFacts DEF Shape, Field
<1>6. /\ slave' = [slave EXCEPT ![s] = u] /\ u.pc # "accept"
      /\ Answered(s, ms) /\ thread' = thread
      /\ "dialler" \in net[slave[s].link].open /\ net[slave[s].link].queue["dialler"] # <<>>
  BY <1>1, <1>2, <1>3, <1>4, <1>5, NowFacts DEF MakeToken, MasterSays, Main, Waiting
<1>a. IsList(ms)
  BY <1>2, Singles
<1>b. Len(ms) = 1
  BY <1>2, Singles
<1>7. IsList(ms) /\ Len(ms) >= 1
  BY <1>a, <1>b
<1>8. QED
  BY <1>5, <1>6, <1>7, AnsweredStep

LEMMA SameSlave ==
  ASSUME Now, NEW s \in Slave
  PROVE  slave = [slave EXCEPT ![s] = slave[s]]
BY NowFacts

LEMMA RefuseTokenStep ==
  ASSUME Now, NEW s \in Slave, RefuseToken(s), UNCHANGED <<master, client>>, faults' = faults
  PROVE  Goal
<1>1. PICK ms : ms = Refusal
  OBVIOUS
<1>2. PICK u : u = slave[s]
  OBVIOUS
<1>3. /\ slave' = [slave EXCEPT ![s] = u] /\ u.pc # "accept" /\ thread' = thread
      /\ Answered(s, ms)
      /\ "dialler" \in net[slave[s].link].open /\ net[slave[s].link].queue["dialler"] # <<>>
  BY <1>1, <1>2, SameSlave DEF RefuseToken, MasterSays, Main, Waiting, slaveVars
<1>a. PICK x : x = Line("400")
  OBVIOUS
<1>b. ms = <<x>>
  BY <1>1, <1>a DEF Refusal
<1>c. IsList(ms)
  BY <1>b, Singles
<1>d. Len(ms) = 1
  BY <1>b, Singles
<1>4. IsList(ms) /\ Len(ms) >= 1
  BY <1>c, <1>d
<1>5. QED
  BY <1>2, <1>3, <1>4, AnsweredStep

LEMMA OnKillAllStep ==
  ASSUME Now, NEW s \in Slave, OnKillAll(s), UNCHANGED <<master, client>>, faults' = faults
  PROVE  Goal
<1>2. PICK u : u = slave[s]
  OBVIOUS
<1>3. /\ slave' = [slave EXCEPT ![s] = u] /\ u.pc # "accept"
      /\ Answered(s, <<>>) /\ Saying(s).kind # "CLIENT"
      /\ "dialler" \in net[slave[s].link].open /\ net[slave[s].link].queue["dialler"] # <<>>
  BY <1>2, SameSlave DEF OnKillAll, MasterSays, Main, Waiting
<1>4. IsList(<<>>)
  BY EmptyList
<1>5. ASSUME NEW c \in Conn PROVE thread'[c].pc = thread[c].pc /\ thread'[c].at = thread[c].at
  <2>1. ThreadShape(thread[c])
    BY NowFacts
  <2>2. thread'[c] = thread[c] \/ thread'[c] = [thread[c] EXCEPT !.killed = TRUE]
    BY DEF OnKillAll
  <2>3. QED
    BY <2>1, <2>2 DEF ThreadShape, ThreadField
<1>6. QED
  BY <1>2, <1>3, <1>4, <1>5, AnsweredStep

(* Only what is sent changes the connections, if anything does.              *)
LEMMA SendingStep ==
  ASSUME Now, NEW s \in Slave, UNCHANGED <<master, client>>, faults' = faults, thread' = thread,
         Turned(net, net', {}, {}),
         NEW u, slave' = [slave EXCEPT ![s] = u], u.link = slave[s].link, u.nolp = slave[s].nolp,
         u.pc # "accept" \/ (Holdings => /\ u.conn \in Conn /\ Holds(u.conn, "server", s)
                                         /\ thread[u.conn].pc \notin Busy)
  PROVE  Goal
<1>1. OneSlave(s, u)
  BY DEF OneSlave
<1>2. ASSUME "db" \notin faults'
      PROVE  "db" \notin faults /\ Goes /\ Owned({}, s) /\ Owned({}, s) /\ Running(s, {}) /\ Fits(s, u)
  <2>1. "db" \notin faults /\ Holdings /\ NetType(net)
    BY <1>2, NowFacts
  <2>2. Owned({}, s)
    BY NoneOwned
  <2>3. Running(s, {})
    BY SameThreads
  <2>4. \A q \in Slave : slave'[q].nolp = slave[q].nolp
    BY NowFacts
  <2>5. Goes
    BY <2>1, <2>2, <2>4, GoesQuiet
  <2>6. Fits(s, u)
    <3>1. ASSUME u.link \in Conn
          PROVE  "dialler" \in net'[u.link].open /\ Owner(net'[u.link], "dialler") = s
      <4>1. PICK c \in Conn : c = u.link
        BY <3>1
      <4>2. Holds(c, "dialler", s)
        BY <2>1, <4>1 DEF Holdings, Links
      <4>3. <<c, "dialler">> \notin {}
        OBVIOUS
      <4>4. Holds(c, "dialler", s)'
        BY <4>2, <4>3, HoldsStays, Ends
      <4>5. QED
        BY <4>1, <4>4 DEF Holds
    <3>2. ASSUME u.pc = "accept"
          PROVE  /\ u.conn \in Conn /\ "server" \in net'[u.conn].open
                 /\ Owner(net'[u.conn], "server") = s /\ thread'[u.conn].pc \notin Busy
      <4>1. PICK c \in Conn : c = u.conn
        BY <2>1, <3>2
      <4>2. Holds(c, "server", s) /\ thread[c].pc \notin Busy
        BY <2>1, <3>2, <4>1
      <4>3. <<c, "server">> \notin {}
        OBVIOUS
      <4>4. Holds(c, "server", s)'
        BY <4>2, <4>3, HoldsStays, Ends
      <4>5. QED
        BY <4>1, <4>2, <4>4 DEF Holds
    <3>3. QED
      BY <3>1, <3>2 DEF Fits
  <2>7. QED
    BY <2>1, <2>2, <2>3, <2>5, <2>6
<1>3. QED
  BY <1>1, <1>2, SlaveTurn

LEMMA ReportStep ==
  ASSUME Now, NEW s \in Slave, Report(s), UNCHANGED <<master, client>>, faults' = faults
  PROVE  Goal
<1>1. PICK t : t = FALSE
  OBVIOUS
<1>2. PICK u : u = [slave[s] EXCEPT !.status = t]
  OBVIOUS
<1>3. u.pc = slave[s].pc /\ u.link = slave[s].link /\ u.nolp = slave[s].nolp
  BY <1>2, NowFacts DEF Shape, Field
<1>4. slave' = [slave EXCEPT ![s] = u] /\ thread' = thread /\ u.pc # "accept"
  BY <1>1, <1>2, <1>3 DEF Report, Main
<1>5. NetType(net)
  BY NowFacts
<1>6. Turned(net, net', {}, {})
  <2>1. CASE net' = net
    <3>1. PICK n : n = net
      OBVIOUS
    <3>2. Turned(n, n, {}, {})
      BY <1>5, <3>1, TurnedSame
    <3>3. QED
      BY <2>1, <3>1, <3>2
  <2>2. ASSUME NEW c, NEW e \in End, NEW ms, IsList(ms), net' = Sent(net, c, e, ms)
        PROVE  Turned(net, net', {}, {})
    <3>1. PICK n : n = net
      OBVIOUS
    <3>2. PICK v : v = net'
      OBVIOUS
    <3>3. NetType(n) /\ v = Sent(n, c, e, ms)
      BY <1>5, <2>2, <3>1, <3>2
    <3>4. Turned(n, v, {}, {})
      BY <2>2, <3>3, TurnedSent
    <3>5. QED
      BY <3>1, <3>2, <3>4
  <2>3. ASSUME slave[s].io # NoConn
        PROVE  \E c : \E e \in End : \E ms : IsList(ms) /\ net' = Sent(net, c, e, ms)
    <3>1. PICK x : x = Msg("STATUS", Cardinality(Tokens(s)))
      OBVIOUS
    <3>2. PICK y : y = Msg("list", Tokens(s))
      OBVIOUS
    <3>3. PICK list : list = IF Tokens(s) = {} THEN <<>> ELSE <<y>>
      OBVIOUS
    <3>4. IsList(list) /\ IsList(<<x>>)
      BY <3>3, EmptyList, Singles
    <3>5. IsList(<<x>> \o list)
      BY <3>4, Concat
    <3>6. PICK e \in End : e = IF slave[s].io = slave[s].link THEN "dialler" ELSE "server"
      BY Ends
    <3>7. net' = Sent(net, slave[s].io, e, <<x>> \o list)
      BY <2>3, <3>1, <3>2, <3>3, <3>6 DEF Report
    <3>8. QED
      BY <3>5, <3>7
  <2>4. slave[s].io = NoConn => net' = net
    BY DEF Report
  <2>5. QED
    BY <2>1, <2>2, <2>3, <2>4
<1>7. QED
  BY <1>3, <1>4, <1>6, SendingStep

(* A connection of a client is refused.                                      *)
LEMMA RefusedStep ==
  ASSUME Now, NEW s \in Slave, UNCHANGED <<master, client>>, faults' = faults, thread' = thread,
         NEW c, NEW ms, IsList(ms), net' = Shut(Sent(net, c, "server", ms), c, "server"),
         Holdings => net[c].to = s /\ thread[c].pc \notin Busy,
         NEW u, slave' = [slave EXCEPT ![s] = u], u.link = slave[s].link, u.nolp = slave[s].nolp,
         u.pc # "accept"
  PROVE  Goal
<1> DEFINE H == {<<c, "server">>}
<1>1. PICK n : n = net
  OBVIOUS
<1>2. PICK v : v = net'
  OBVIOUS
<1>3. NetType(n) /\ v = Shut(Sent(n, c, "server", ms), c, "server")
  BY <1>1, <1>2, NowFacts
<1>4. Turned(n, v, H, {})
  BY <1>3, TurnedRefused
<1>5. OneSlave(s, u) /\ Turned(net, net', H, {})
  BY <1>1, <1>2, <1>4 DEF OneSlave
<1>6. ASSUME "db" \notin faults'
      PROVE  "db" \notin faults /\ Goes /\ Owned(H, s) /\ Owned({}, s) /\ Running(s, H) /\ Fits(s, u)
  <2>1. "db" \notin faults /\ Holdings /\ NetType(net)
    BY <1>6, NowFacts
  <2>2. Owned({}, s) /\ Owned(H, s)
    BY <2>1 DEF Owned, Owner
  <2>3. Running(s, H)
    BY <2>1 DEF Running
  <2>4. \A d \in Conn : <<d, "dialler">> \notin H \cup {}
    OBVIOUS
  <2>5. \A q \in Slave : slave'[q].nolp = slave[q].nolp
    BY NowFacts
  <2>6. Fits(s, u)
    BY <1>5, <2>1, <2>4, LinkFits
  <2>7. Goes
    BY <1>5, <2>1, <2>2, <2>4, <2>5, GoesQuiet
  <2>8. QED
    BY <2>1, <2>2, <2>3, <2>6, <2>7
<1>7. QED
  BY <1>5, <1>6, SlaveTurn

-----------------------------------------------------------------------------
(* The connections stay, and so does what the slave has of them.             *)
LEMMA StillStep ==
  ASSUME Now, NEW s \in Slave, UNCHANGED <<net, master, client>>, faults' = faults,
         NEW u, slave' = [slave EXCEPT ![s] = u], u.link = slave[s].link, u.nolp = slave[s].nolp,
         u.pc # "accept", Holdings => Running(s, {})
  PROVE  Goal
<1>1. OneSlave(s, u)
  BY DEF OneSlave
<1>2. Turned(net, net', {}, {})
  <2>1. PICK n : n = net
    OBVIOUS
  <2>2. NetType(n)
    BY <2>1, NowFacts
  <2>3. Turned(n, n, {}, {})
    BY <2>2, TurnedSame
  <2>4. QED
    BY <2>1, <2>3
<1>3. ASSUME "db" \notin faults'
      PROVE  "db" \notin faults /\ Goes /\ Owned({}, s) /\ Owned({}, s) /\ Running(s, {}) /\ Fits(s, u)
  <2>1. "db" \notin faults /\ Holdings /\ NetType(net)
    BY <1>3, NowFacts
  <2>2. Owned({}, s)
    BY NoneOwned
  <2>3. \A q \in Slave : slave'[q].nolp = slave[q].nolp
    BY NowFacts
  <2>4. Goes
    BY <1>2, <2>1, <2>2, <2>3, GoesQuiet
  <2>5. Fits(s, u)
    BY <1>2, <2>1, LinkFits
  <2>6. QED
    BY <2>1, <2>2, <2>4, <2>5
<1>4. QED
  BY <1>1, <1>2, <1>3, SlaveTurn

LEMMA LaunchStep ==
  ASSUME Now, NEW s \in Slave, Main(s, "accept"), Launch(s), UNCHANGED <<master, client>>,
         faults' = faults
  PROVE  Goal
<1>1. PICK u : u = [slave[s] EXCEPT !.pc = "loop", !.conn = NoConn, !.x = 0]
  OBVIOUS
<1>2. u.pc = "loop" /\ u.link = slave[s].link /\ u.nolp = slave[s].nolp
  BY <1>1, NowFacts DEF Shape, Field
<1>3. slave' = [slave EXCEPT ![s] = u] /\ net' = net
  BY <1>1, NowFacts DEF Launch
<1>4. ASSUME Holdings PROVE Running(s, {})
  <2>1. PICK a \in Conn : a = slave[s].conn
    BY <1>4 DEF Holdings, Accepts, Main
  <2>2. Holds(a, "server", s)
    BY <1>4, <2>1 DEF Holdings, Accepts, Main
  <2>3. PICK r : r = [NoThread EXCEPT !.pc = "auth", !.at = s]
    OBVIOUS
  <2>4. r.pc = "auth" /\ r.at = s
    BY <2>3 DEF NoThread
  <2>5. thread' = [thread EXCEPT ![a] = r]
    BY <2>1, <2>3 DEF Launch
  <2>6. thread'[a] = r /\ \A c \in Conn : c # a => thread'[c] = thread[c]
    BY <2>5, NowFacts
  <2>7. QED
    BY <1>3, <2>2, <2>4, <2>6 DEF Running, Holds
<1>5. QED
  BY <1>2, <1>3, <1>4, StillStep

LEMMA RestartStep ==
  ASSUME Now, NEW s \in Slave, Restart(s), UNCHANGED <<master, client>>, faults' = faults
  PROVE  Goal
<1>1. PICK u : u = [slave[s] EXCEPT !.pc = "down"]
  OBVIOUS
<1>2. u.pc = "down" /\ u.link = slave[s].link /\ u.nolp = slave[s].nolp
  BY <1>1, NowFacts DEF Shape, Field
<1>3. slave' = [slave EXCEPT ![s] = u] /\ net' = net /\ thread' = thread
  BY <1>1, NowFacts DEF Restart
<1>4. Running(s, {})
  BY <1>3, SameThreads
<1>5. QED
  BY <1>2, <1>3, <1>4, StillStep

LEMMA AcceptClientStep ==
  ASSUME Now, NEW s \in Slave, AcceptClient(s), UNCHANGED <<master, client>>, faults' = faults
  PROVE  Goal
<1>1. PICK c \in Conn :
        /\ Incoming(s, c)
        /\ IF slave[s].pending = <<>>
           THEN /\ net' = Shut(Sent(net, c, "server", IF slave[s].ready THEN <<Line("200")>> ELSE <<>>),
                               c, "server")
                /\ UNCHANGED slaveVars
           ELSE /\ \E io \in Reused(s, c) :
                     slave' = [slave EXCEPT ![s].pc = "accept", ![s].conn = c, ![s].x = 1, ![s].io = io]
                /\ UNCHANGED <<net, thread>>
  BY Zenon DEF AcceptClient
<1>2. net[c].to = s /\ "server" \in net[c].open /\ thread[c].pc \notin Busy
  BY <1>1 DEF Incoming, Idle, NoThread, Busy
<1>3. slave[s].pc # "accept"
  BY DEF AcceptClient, Main
<1>4. CASE slave[s].pending = <<>>
  <2>1. PICK ms : ms = IF slave[s].ready THEN <<Line("200")>> ELSE <<>>
    OBVIOUS
  <2>2. IsList(ms)
    BY <2>1, Singles, EmptyList
  <2>3. net' = Shut(Sent(net, c, "server", ms), c, "server") /\ slave' = slave /\ thread' = thread
    BY <1>1, <1>4, <2>1 DEF slaveVars
  <2>4. PICK u : u = slave[s]
    OBVIOUS
  <2>5. slave' = [slave EXCEPT ![s] = u]
    BY <2>3, <2>4, SameSlave
  <2>6. QED
    BY <1>2, <1>3, <2>2, <2>3, <2>4, <2>5, RefusedStep
<1>5. CASE slave[s].pending # <<>>
  <2>1. PICK io : slave' = [slave EXCEPT ![s].pc = "accept", ![s].conn = c, ![s].x = 1, ![s].io = io]
    BY <1>1, <1>5
  <2>2. PICK u : u = [slave[s] EXCEPT !.pc = "accept", !.conn = c, !.x = 1, !.io = io]
    OBVIOUS
  <2>3. u.conn = c /\ u.link = slave[s].link /\ u.nolp = slave[s].nolp
    BY <2>2, NowFacts DEF Shape, Field
  <2>4. slave' = [slave EXCEPT ![s] = u] /\ net' = net /\ thread' = thread
    BY Zenon, <1>1, <1>5, <2>1, <2>2, NowFacts
  <2>5. Turned(net, net', {}, {})
    <3>1. PICK n : n = net
      OBVIOUS
    <3>2. NetType(n)
      BY <3>1, NowFacts
    <3>3. Turned(n, n, {}, {})
      BY <3>2, TurnedSame
    <3>4. QED
      BY <2>4, <3>1, <3>3
  <2>6. u.conn \in Conn /\ Holds(u.conn, "server", s) /\ thread[u.conn].pc \notin Busy
    BY <1>2, <2>3 DEF Holds, Owner
  <2>7. QED
    BY <2>3, <2>4, <2>5, <2>6, SendingStep
<1>6. QED
  BY <1>4, <1>5

LEMMA AcceptNextStep ==
  ASSUME Now, NEW s \in Slave, AcceptNext(s), UNCHANGED <<master, client>>, faults' = faults
  PROVE  Goal
<1>1. Main(s, "accept") /\ slave[s].pc = "accept"
  BY DEF AcceptNext, Main
<1>2. CASE Launch(s)
  BY <1>1, <1>2, LaunchStep
<1>3. CASE slave' = [slave EXCEPT ![s].x = slave[s].x + 1] /\ UNCHANGED <<net, thread>>
  <2>2. PICK u : u = [slave[s] EXCEPT !.x = slave[s].x + 1]
    OBVIOUS
  <2>3. u.conn = slave[s].conn /\ u.link = slave[s].link /\ u.nolp = slave[s].nolp
    BY <2>2, NowFacts DEF Shape, Field
  <2>4. slave' = [slave EXCEPT ![s] = u] /\ net' = net /\ thread' = thread
    BY <1>3, <2>2, NowFacts
  <2>5. Turned(net, net', {}, {})
    <3>1. PICK n : n = net
      OBVIOUS
    <3>2. NetType(n)
      BY <3>1, NowFacts
    <3>3. Turned(n, n, {}, {})
      BY <3>2, TurnedSame
    <3>4. QED
      BY <2>4, <3>1, <3>3
  <2>6. Holdings => u.conn \in Conn /\ Holds(u.conn, "server", s) /\ thread[u.conn].pc \notin Busy
    BY <1>1, <2>3 DEF Holdings, Accepts
  <2>7. QED
    BY <2>3, <2>4, <2>5, <2>6, SendingStep
<1>4. ASSUME net' = Shut(Sent(net, slave[s].conn, "server", <<Line("200")>>), slave[s].conn, "server"),
             slave' = [slave EXCEPT ![s].pc = "loop", ![s].conn = NoConn, ![s].x = 0,
                                    ![s].io = IF slave[s].io = slave[s].conn THEN NoConn ELSE slave[s].io],
             thread' = thread
      PROVE  Goal
  <2>1. PICK ms : ms = <<Line("200")>>
    OBVIOUS
  <2>2. IsList(ms)
    BY <2>1, Singles
  <2>3. PICK io : io = IF slave[s].io = slave[s].conn THEN NoConn ELSE slave[s].io
    OBVIOUS
  <2>4. PICK u : u = [slave[s] EXCEPT !.pc = "loop", !.conn = NoConn, !.x = 0, !.io = io]
    OBVIOUS
  <2>5. u.pc = "loop" /\ u.link = slave[s].link /\ u.nolp = slave[s].nolp
    BY <2>4, NowFacts DEF Shape, Field
  <2>6. slave' = [slave EXCEPT ![s] = u]
    BY <1>4, <2>3, <2>4, NowFacts
  <2>7. PICK c : c = slave[s].conn
    OBVIOUS
  <2>8. net' = Shut(Sent(net, c, "server", ms), c, "server")
    BY <1>4, <2>1, <2>7
  <2>9. Holdings => net[c].to = s /\ thread[c].pc \notin Busy
    BY <1>1, <2>7 DEF Holdings, Accepts, Holds, Owner
  <2>10. QED
    BY ZenonT(30), <1>4, <2>2, <2>5, <2>6, <2>8, <2>9, RefusedStep
<1>5. QED
  BY <1>2, <1>3, <1>4 DEF AcceptNext

LEMMA AcceptBeyondStep ==
  ASSUME Now, NEW s \in Slave, AcceptBeyond(s), UNCHANGED <<master, client>>, faults' = faults
  PROVE  Goal
BY LaunchStep, GoneStep DEF AcceptBeyond

-----------------------------------------------------------------------------
(* A thread takes from its connection, sends on it or closes it.             *)
LEMMA ThreadTurn ==
  ASSUME Now, NEW c \in Conn, UNCHANGED <<master, client>>, "db" \notin faults' => "db" \notin faults,
         NEW H, NEW Q, Turned(net, net', H, Q), H \cup Q \subseteq {<<c, "server">>},
         H \cup Q # {} => thread[c].pc \in Busy,
         \A q \in Slave : /\ slave'[q].link = slave[q].link /\ slave'[q].pc = slave[q].pc
                          /\ slave'[q].conn = slave[q].conn /\ slave'[q].nolp = slave[q].nolp,
         \A d \in Conn : thread'[d].pc \in Busy =>
           /\ thread[d].pc \in Busy /\ thread'[d].at = thread[d].at
           /\ <<d, "server">> \notin H
  PROVE  Goal
<1>1. ASSUME "db" \notin faults'
      PROVE  /\ "db" \notin faults /\ Holdings /\ Goes
             /\ \A p \in H \cup Q : p[1] \in Conn => Owner(net[p[1]], p[2]) # Master
  <2>1. "db" \notin faults /\ Holdings /\ NetType(net)
    BY <1>1, NowFacts
  <2>2. \A p \in H \cup Q : p[1] \in Conn => Owner(net[p[1]], p[2]) # Master
    BY <2>1, NodeAssumption DEF Holdings, Threads, Holds
  <2>3. \A d \in Conn : <<d, "dialler">> \notin H \cup Q
    OBVIOUS
  <2>4. Goes
    BY <2>1, <2>2, <2>3, GoesOn
  <2>5. QED
    BY <2>1, <2>2, <2>4
<1>2. MasterInv'
  BY <1>1, MasterTurn DEF Now
<1>3. ASSUME "db" \notin faults' PROVE Holdings'
  <2>1. Holdings
    BY <1>1, <1>3
  <2>2. ASSUME NEW d \in Conn, NEW e \in End, NEW x, Holds(d, e, x), <<d, e>> \notin H
        PROVE  Holds(d, e, x)'
    BY <2>2, HoldsStays
  <2>3. \A d \in Conn : <<d, "dialler">> \notin H
    OBVIOUS
  <2>4. Links'
    <3>1. ASSUME NEW q \in Slave, slave'[q].link \in Conn
          PROVE  "dialler" \in net'[slave'[q].link].open /\ Owner(net'[slave'[q].link], "dialler") = q
      <4>1. PICK d \in Conn : d = slave[q].link /\ d = slave'[q].link /\ Holds(d, "dialler", q)
        BY <2>1, <3>1 DEF Holdings, Links
      <4>2. Holds(d, "dialler", q)'
        BY <2>2, <2>3, <4>1, Ends
      <4>3. QED
        BY <4>1, <4>2 DEF Holds
    <3>2. QED
      BY <3>1 DEF Links, Holds, Owner
  <2>5. Socks'
    <3>1. ASSUME NEW q \in Client, client'[q].sock \in Conn
          PROVE  "dialler" \in net'[client'[q].sock].open /\ Owner(net'[client'[q].sock], "dialler") = q
      <4>1. PICK d \in Conn : d = client[q].sock /\ d = client'[q].sock /\ Holds(d, "dialler", q)
        BY <2>1, <3>1 DEF Holdings, Socks
      <4>2. Holds(d, "dialler", q)'
        BY <2>2, <2>3, <4>1, Ends
      <4>3. QED
        BY <4>1, <4>2 DEF Holds
    <3>2. QED
      BY <3>1 DEF Socks, Holds, Owner
  <2>6. Threads'
    <3>1. ASSUME NEW d \in Conn, thread'[d].pc \in Busy
          PROVE  thread'[d].at \in Slave /\ "server" \in net'[d].open /\ Owner(net'[d], "server") = thread'[d].at
      <4>1. PICK q \in Slave : q = thread[d].at /\ q = thread'[d].at /\ Holds(d, "server", q)
        BY <2>1, <3>1 DEF Holdings, Threads
      <4>2. Holds(d, "server", q)'
        BY <2>2, <3>1, <4>1, Ends
      <4>3. QED
        BY <4>1, <4>2 DEF Holds
    <3>2. QED
      BY <3>1 DEF Threads, Holds, Owner
  <2>7. Accepts'
    <3>1. ASSUME NEW q \in Slave, slave'[q].pc = "accept"
          PROVE  /\ slave'[q].conn \in Conn /\ "server" \in net'[slave'[q].conn].open
                 /\ Owner(net'[slave'[q].conn], "server") = q
                 /\ thread'[slave'[q].conn].pc \notin Busy
      <4>1. PICK d \in Conn : d = slave[q].conn /\ Holds(d, "server", q) /\ thread[d].pc \notin Busy
        BY <2>1, <3>1 DEF Holdings, Accepts
      <4>2. <<d, "server">> \notin H
        BY <4>1
      <4>3. Holds(d, "server", q)'
        BY <2>2, <4>1, <4>2, Ends
      <4>4. QED
        BY <4>1, <4>3 DEF Holds
    <3>2. QED
      BY <3>1 DEF Accepts, Holds, Owner
  <2>8. QED
    BY <2>4, <2>5, <2>6, <2>7 DEF Holdings
<1>4. QED
  BY <1>2, <1>3 DEF Goal

(* Other fields of a slave.                                                  *)
Besides(v) ==
    \A q \in Slave : /\ v[q].link = slave[q].link /\ v[q].pc = slave[q].pc
                     /\ v[q].conn = slave[q].conn /\ v[q].nolp = slave[q].nolp

LEMMA BesidesIo ==
  ASSUME Now, NEW s, NEW a, NEW b, NEW v,
         \/ v = [slave EXCEPT ![s].io = a] \/ v = [slave EXCEPT ![s].pending = a]
         \/ v = [slave EXCEPT ![s].clients = a, ![s].status = b]
  PROVE  Besides(v)
BY NowFacts DEF Besides, Shape, Field

LEMMA CloseStep ==
  ASSUME Now, NEW c \in Conn, UNCHANGED <<master, client>>, "db" \notin faults' => "db" \notin faults,
         thread[c].pc \in Busy, NEW ms, IsList(ms),
         net' \in {Shut(net, c, "server"), Shut(Sent(net, c, "server", ms), c, "server")},
         slave' = [slave EXCEPT ![thread[c].at].io = IF slave[thread[c].at].io = c THEN NoConn
                                                     ELSE slave[thread[c].at].io],
         NEW t, t.pc \notin Busy, thread' = [thread EXCEPT ![c] = t]
  PROVE  Goal
<1>1. PICK n : n = net
  OBVIOUS
<1>2. PICK v : v = net'
  OBVIOUS
<1>3. NetType(n) /\ "server" \in End
  BY <1>1, NowFacts, Ends
<1>4. v = Shut(n, c, "server") \/ v = Shut(Sent(n, c, "server", ms), c, "server")
  BY <1>1, <1>2
<1>5. Turned(n, v, {<<c, "server">>}, {})
  <2>1. CASE v = Shut(n, c, "server")
    BY <1>3, <2>1, TurnedShut
  <2>2. CASE v = Shut(Sent(n, c, "server", ms), c, "server")
    BY <1>3, <2>2, TurnedRefused
  <2>3. QED
    BY <1>4, <2>1, <2>2
<1>6. Turned(net, net', {<<c, "server">>}, {})
  BY <1>1, <1>2, <1>5
<1>7. PICK a : a = IF slave[thread[c].at].io = c THEN NoConn ELSE slave[thread[c].at].io
  OBVIOUS
<1>8. PICK s : s = thread[c].at
  OBVIOUS
<1>9. slave' = [slave EXCEPT ![s].io = a]
  BY <1>7, <1>8
<1>10. Besides(slave')
  <2>1. PICK w : w = slave'
    OBVIOUS
  <2>2. Besides(w)
    BY <1>9, <2>1, BesidesIo
  <2>3. QED
    BY <2>1, <2>2
<1>11. thread'[c] = t /\ \A d \in Conn : d # c => thread'[d] = thread[d]
  BY NowFacts
<1>12. \A d \in Conn : thread'[d].pc \in Busy =>
         /\ thread[d].pc \in Busy /\ thread'[d].at = thread[d].at
         /\ <<d, "server">> \notin {<<c, "server">>}
  BY <1>11
<1>13. {<<c, "server">>} \cup {} \subseteq {<<c, "server">>}
  OBVIOUS
<1>14. QED
  BY <1>6, <1>10, <1>12, <1>13, ThreadTurn DEF Besides

LEMMA AuthorizeStep ==
  ASSUME Now, NEW c \in Conn, Authorize(c), UNCHANGED <<master, client>>, faults' = faults
  PROVE  Goal
<1> DEFINE s == thread[c].at
           t == First(c, "server").arg
<1>1. thread[c].pc = "auth" /\ thread[c].pc \in Busy /\ "server" \in net[c].open /\ net[c].queue["server"] # <<>>
  BY DEF Authorize, Thread, Waiting, Busy
<1>2. CASE t \in Range(Pending(s))
  <2>1. PICK list : list = TakenOut(slave[s].pending, t)
    OBVIOUS
  <2>2. PICK a : a = s
    OBVIOUS
  <2>3. slave' = [slave EXCEPT ![a].pending = list]
    BY <1>2, <2>1, <2>2 DEF Authorize
  <2>4. Besides(slave')
    <3>1. PICK v : v = slave'
      OBVIOUS
    <3>2. Besides(v)
      BY <2>3, <3>1, BesidesIo
    <3>3. QED
      BY <3>1, <3>2
  <2>5. PICK b : b = t
    OBVIOUS
  <2>6. PICK r : r = [thread[c] EXCEPT !.pc = "enter", !.token = b]
    OBVIOUS
  <2>7. r.at = thread[c].at
    BY <2>6, NowFacts DEF ThreadShape, ThreadField
  <2>8. thread' = [thread EXCEPT ![c] = r]
    BY <1>2, <2>5, <2>6, NowFacts DEF Authorize
  <2>9. thread'[c] = r /\ \A d \in Conn : d # c => thread'[d] = thread[d]
    BY <2>8, NowFacts
  <2>10. Turned(net, net', {}, {<<c, "server">>})
    <3>1. PICK n : n = net
      OBVIOUS
    <3>2. PICK v : v = net'
      OBVIOUS
    <3>3. NetType(n) /\ "server" \in End /\ "server" \in n[c].open /\ n[c].queue["server"] # <<>>
          /\ v = Taken(n, c, "server")
      BY <1>1, <1>2, <3>1, <3>2, NowFacts, Ends DEF Authorize
    <3>4. Turned(n, v, {}, {<<c, "server">>})
      BY <3>3, TurnedTaken
    <3>5. QED
      BY <3>1, <3>2, <3>4
  <2>11. \A d \in Conn : thread'[d].pc \in Busy =>
           /\ thread[d].pc \in Busy /\ thread'[d].at = thread[d].at
           /\ <<d, "server">> \notin {}
    BY <1>1, <2>7, <2>9
  <2>12. {} \cup {<<c, "server">>} \subseteq {<<c, "server">>}
    OBVIOUS
  <2>13. QED
    BY <1>1, <2>4, <2>10, <2>11, <2>12, ThreadTurn DEF Besides
<1>3. CASE t \notin Range(Pending(s))
  <2>1. PICK ms : ms = <<Line("200")>>
    OBVIOUS
  <2>2. IsList(ms)
    BY <2>1, Singles
  <2>3. NoThread.pc \notin Busy
    BY DEF NoThread, Busy
  <2>4. net' = Shut(Sent(net, c, "server", ms), c, "server")
    BY <1>3, <2>1 DEF Authorize
  <2>5. slave' = [slave EXCEPT ![thread[c].at].io = IF slave[thread[c].at].io = c THEN NoConn
                                                    ELSE slave[thread[c].at].io]
    BY <1>3 DEF Authorize
  <2>6. PICK r : r = NoThread
    OBVIOUS
  <2>7. thread' = [thread EXCEPT ![c] = r]
    BY <1>3, <2>6 DEF Authorize
  <2>8. QED
    BY <1>1, <2>2, <2>3, <2>4, <2>5, <2>6, <2>7, CloseStep
<1>4. QED
  BY <1>2, <1>3

LEMMA ThreadEndsStep ==
  ASSUME Now, NEW c \in Conn, UNCHANGED <<master, client>>, "db" \notin faults' => "db" \notin faults,
         NoAuth(c) \/ CannotEnter(c) \/ EndLoop(c)
  PROVE  Goal
<1>1. thread[c].pc \in Busy
  BY DEF NoAuth, CannotEnter, EndLoop, Thread, Busy
<1>2. PICK t : t = IF NoAuth(c) THEN NoThread ELSE [thread[c] EXCEPT !.pc = "leave"]
  OBVIOUS
<1>3. t.pc \notin Busy
  BY <1>2, NowFacts DEF NoThread, Busy, ThreadShape, ThreadField
<1>4. NoAuth(c) => ~CannotEnter(c) /\ ~EndLoop(c)
  BY DEF NoAuth, CannotEnter, EndLoop, Thread
<1>5. thread' = [thread EXCEPT ![c] = t]
  BY <1>2, <1>4, NowFacts DEF NoAuth, CannotEnter, EndLoop
<1>6. /\ net' = Shut(net, c, "server")
      /\ slave' = [slave EXCEPT ![thread[c].at].io = IF slave[thread[c].at].io = c THEN NoConn
                                                     ELSE slave[thread[c].at].io]
  BY DEF NoAuth, CannotEnter, EndLoop, CloseThread
<1>7. IsList(<<>>)
  BY EmptyList
<1>8. QED
  BY <1>1, <1>3, <1>5, <1>6, <1>7, CloseStep

LEMMA EnterStep ==
  ASSUME Now, NEW c \in Conn, Enter(c), UNCHANGED <<master, client>>, faults' = faults
  PROVE  Goal
<1>1. thread[c].pc \in Busy
  BY DEF Enter, Thread, Busy
<1>2. PICK s : s = thread[c].at
  OBVIOUS
<1>3. PICK a : a = slave[s].clients \cup {c}
  OBVIOUS
<1>4. PICK b : b = TRUE
  OBVIOUS
<1>5. slave' = [slave EXCEPT ![s].clients = a, ![s].status = b]
  BY <1>2, <1>3, <1>4 DEF Enter
<1>6. Besides(slave')
  <2>1. PICK v : v = slave'
    OBVIOUS
  <2>2. Besides(v)
    BY <1>5, <2>1, BesidesIo
  <2>3. QED
    BY <2>1, <2>2
<1>7. PICK r : r = [thread[c] EXCEPT !.pc = "main"]
  OBVIOUS
<1>8. r.at = thread[c].at
  BY <1>7, NowFacts DEF ThreadShape, ThreadField
<1>9. thread' = [thread EXCEPT ![c] = r]
  BY <1>7, NowFacts DEF Enter
<1>10. thread'[c] = r /\ \A d \in Conn : d # c => thread'[d] = thread[d]
  BY <1>9, NowFacts
<1>11. \A d \in Conn : thread'[d].pc \in Busy =>
         /\ thread[d].pc \in Busy /\ thread'[d].at = thread[d].at /\ <<d, "server">> \notin {}
  BY <1>1, <1>8, <1>10
<1>12. Turned(net, net', {}, {})
  <2>1. PICK n : n = net
    OBVIOUS
  <2>2. PICK v : v = net'
    OBVIOUS
  <2>3. PICK x : x = Msg("settings", slave[s].config)
    OBVIOUS
  <2>4. PICK y : y = Line("100")
    OBVIOUS
  <2>5. PICK z : z = Line("CONFIG")
    OBVIOUS
  <2>6. PICK ms : ms = <<y, z, x>>
    OBVIOUS
  <2>7. IsList(ms)
    <3>1. <<y, z, x>> \in Seq({x, y, z})
      OBVIOUS
    <3>2. QED
      BY <2>6, <3>1, ListIntro
  <2>8. NetType(n) /\ v = Sent(n, c, "server", ms) /\ "server" \in End
    BY <1>2, <2>1, <2>2, <2>3, <2>4, <2>5, <2>6, NowFacts, Ends DEF Enter
  <2>9. Turned(n, v, {}, {})
    BY <2>7, <2>8, TurnedSent
  <2>10. QED
    BY <2>1, <2>2, <2>9
<1>13. {} \cup {} \subseteq {<<c, "server">>} /\ {} \cup {} = {}
  OBVIOUS
<1>14. QED
  BY <1>1, <1>6, <1>11, <1>12, <1>13, ThreadTurn DEF Besides

LEMMA LeaveListStep ==
  ASSUME Now, NEW c \in Conn, LeaveList(c), UNCHANGED <<master, client>>, faults' = faults
  PROVE  Goal
<1>2. PICK s : s = thread[c].at
  OBVIOUS
<1>3. PICK a : a = slave[s].clients \ {c}
  OBVIOUS
<1>4. PICK b : b = TRUE
  OBVIOUS
<1>5. slave' = [slave EXCEPT ![s].clients = a, ![s].status = b]
  BY <1>2, <1>3, <1>4 DEF LeaveList, Unlist
<1>6. Besides(slave')
  <2>1. PICK v : v = slave'
    OBVIOUS
  <2>2. Besides(v)
    BY <1>5, <2>1, BesidesIo
  <2>3. QED
    BY <2>1, <2>2
<1>7. NoThread.pc \notin Busy
  BY DEF NoThread, Busy
<1>8. PICK r : r = NoThread
  OBVIOUS
<1>9. thread' = [thread EXCEPT ![c] = r] /\ net' = net
  BY <1>8 DEF LeaveList
<1>10. thread'[c] = r /\ \A d \in Conn : d # c => thread'[d] = thread[d]
  BY <1>9, NowFacts
<1>11. \A d \in Conn : thread'[d].pc \in Busy =>
         /\ thread[d].pc \in Busy /\ thread'[d].at = thread[d].at /\ <<d, "server">> \notin {}
  BY <1>7, <1>8, <1>10
<1>12. Turned(net, net', {}, {})
  <2>1. PICK n : n = net
    OBVIOUS
  <2>2. NetType(n)
    BY <2>1, NowFacts
  <2>3. Turned(n, n, {}, {})
    BY <2>2, TurnedSame
  <2>4. QED
    BY <1>9, <2>1, <2>3
<1>13. {} \cup {} \subseteq {<<c, "server">>} /\ {} \cup {} = {}
  OBVIOUS
<1>14. QED
  BY <1>6, <1>11, <1>12, <1>13, ThreadTurn DEF Besides

-----------------------------------------------------------------------------
(* Steps of a client.                                                        *)
ClientShape(r) == r = [f \in ClientField |-> r[f]]

LEMMA ClientTurn ==
  ASSUME Now, NEW c \in Client, UNCHANGED <<master, slaveVars>>, "db" \notin faults' => "db" \notin faults,
         NEW H, NEW Q, Turned(net, net', H, Q), H \cup Q \subseteq {<<client[c].sock, "dialler">>},
         NEW r, ClientShape(r), client' = [client EXCEPT ![c] = r],
         Holdings /\ r.sock \in Conn =>
           "dialler" \in net'[r.sock].open /\ Owner(net'[r.sock], "dialler") = c
  PROVE  Goal /\ ClientShapes'
<1>1. client'[c] = r /\ \A q \in Client : q # c => client'[q] = client[q]
  BY DEF Now, ClientShapes
<1>2. c \notin Slave /\ c # Master /\ c \in Slave \cup Client /\ slave' = slave /\ thread' = thread
  BY NodeAssumption DEF slaveVars
<1>3. ASSUME "db" \notin faults'
      PROVE  "db" \notin faults /\ Goes /\ Owned(H, c) /\ Owned(Q, c) /\ Others(c) /\ Itself(c)
  <2>1. "db" \notin faults /\ Holdings /\ NetType(net)
    BY <1>3, NowFacts
  <2>2. Owned(H, c) /\ Owned(Q, c)
    BY <2>1 DEF Owned, Holdings, Socks, Holds
  <2>3. \A p \in H \cup Q : p[1] \in Conn => Owner(net[p[1]], p[2]) # Master
    BY <1>2, <2>2 DEF Owned
  <2>4. \A d \in Conn : net[d].from \in Slave => <<d, "dialler">> \notin H \cup Q
    BY <1>2, <2>2 DEF Owned, Owner
  <2>5. Goes
    BY <1>2, <2>1, <2>3, <2>4, GoesOn
  <2>6. Others(c)
    BY <1>1, <1>2, <2>1 DEF Others, Holdings, Threads
  <2>7. Itself(c)
    BY <1>1, <1>2, <2>1 DEF Itself
  <2>8. QED
    BY <2>1, <2>2, <2>5, <2>6, <2>7
<1>4. Goal
  BY <1>2, <1>3, NodeTurn
<1>5. ClientShapes'
  <2>1. client' = [q \in Client |-> client'[q]]
    BY DEF Now, ClientShapes
  <2>2. \A q \in Client : client'[q] = [f \in ClientField |-> client'[q][f]]
    BY <1>1 DEF Now, ClientShapes, ClientShape
  <2>3. QED
    BY <2>1, <2>2 DEF ClientShapes
<1>6. QED
  BY <1>4, <1>5

LEMMA ClientFacts ==
  ASSUME Now, NEW c \in Client
  PROVE  /\ ClientShape(client[c]) /\ client = [q \in Client |-> client[q]] /\ NetType(net)
BY NowFacts DEF Now, ClientShapes, ClientShape

(* A line is taken.                                                          *)
LEMMA ConsumedStep ==
  ASSUME Now, NEW c \in Client, UNCHANGED <<master, slaveVars>>, "db" \notin faults' => "db" \notin faults,
         Waiting(Sock(c), "dialler"), Consumed(c),
         NEW r, ClientShape(r), client' = [client EXCEPT ![c] = r], r.sock = client[c].sock
  PROVE  Goal /\ ClientShapes'
<1> DEFINE Q == {<<client[c].sock, "dialler">>}
<1>1. PICK n : n = net
  OBVIOUS
<1>2. PICK v : v = net'
  OBVIOUS
<1>3. PICK l : l = client[c].sock
  OBVIOUS
<1>4. /\ NetType(n) /\ "dialler" \in End /\ "dialler" \in n[l].open /\ n[l].queue["dialler"] # <<>>
      /\ v = Taken(n, l, "dialler")
  BY <1>1, <1>2, <1>3, ClientFacts, Ends DEF Waiting, Consumed, Sock
<1>5. Turned(n, v, {}, {<<l, "dialler">>})
  BY <1>4, TurnedTaken
<1>6. Turned(net, net', {}, Q)
  BY <1>1, <1>2, <1>3, <1>5
<1>7. {} \cup Q \subseteq {<<client[c].sock, "dialler">>}
  OBVIOUS
<1>8. ASSUME Holdings, r.sock \in Conn
      PROVE  "dialler" \in net'[r.sock].open /\ Owner(net'[r.sock], "dialler") = c
  <2>1. PICK d \in Conn : d = r.sock
    BY <1>8
  <2>2. Holds(d, "dialler", c)
    BY <1>8, <2>1 DEF Holdings, Socks
  <2>3. Holds(d, "dialler", c)'
    <3>1. <<d, "dialler">> \notin {}
      OBVIOUS
    <3>2. QED
      BY <1>6, <2>2, <3>1, HoldsStays, Ends
  <2>4. QED
    BY <2>1, <2>3 DEF Holds
<1>9. QED
  BY <1>6, <1>7, <1>8, ClientTurn

(* The connection is closed.                                                 *)
LEMMA FailStep ==
  ASSUME Now, NEW c \in Client, UNCHANGED <<master, slaveVars>>, "db" \notin faults' => "db" \notin faults,
         NEW old, ClientShape(old), Fail(c, old)
  PROVE  Goal /\ ClientShapes'
<1> DEFINE H == {<<client[c].sock, "dialler">>}
<1>1. PICK n : n = net
  OBVIOUS
<1>2. PICK v : v = net'
  OBVIOUS
<1>3. PICK l : l = client[c].sock
  OBVIOUS
<1>4. NetType(n) /\ "dialler" \in End /\ v = Shut(n, l, "dialler")
  BY <1>1, <1>2, <1>3, ClientFacts, Ends DEF Fail, Sock
<1>5. Turned(n, v, {<<l, "dialler">>}, {})
  BY <1>4, TurnedShut
<1>6. Turned(net, net', H, {})
  BY <1>1, <1>2, <1>3, <1>5
<1>7. H \cup {} \subseteq {<<client[c].sock, "dialler">>}
  OBVIOUS
<1>8. PICK r : r = Inactive(old)
  OBVIOUS
<1>9. ClientShape(r) /\ r.sock = NoConn
  BY <1>8 DEF Inactive, ClientShape, ClientField
<1>10. client' = [client EXCEPT ![c] = r]
  BY <1>8 DEF Fail
<1>11. NoConn \notin Conn
  BY BoundAssumption
<1>12. QED
  BY <1>6, <1>7, <1>9, <1>10, <1>11, ClientTurn

LEMMA ConnectMasterStep ==
  ASSUME Now, NEW c \in Client, UNCHANGED <<master, slaveVars>>, faults' = faults,
         ConnectMaster(c, FreeConns)
  PROVE  Goal /\ ClientShapes'
<1>1. PICK a \in Conn : a = Min(FreeConns) /\ net[a] = Unused
  <2>1. FreeConns \subseteq Conn /\ FreeConns # {}
    BY Zenon DEF FreeConns, ConnectMaster
  <2>2. Min(FreeConns) \in FreeConns
    BY <2>1, LeastConn
  <2>3. QED
    BY <2>2 DEF FreeConns
<1>2. PICK r : r = [client[c] EXCEPT !.state = "WAIT_LOGIN", !.sock = a, !.peer = "master",
                                     !.dials = client[c].dials + 1]
  OBVIOUS
<1>3. ClientShape(r) /\ r.sock = a
  BY <1>2, ClientFacts DEF ClientShape, ClientField
<1>4. /\ client' = [client EXCEPT ![c] = r]
      /\ net' = Sent(Dialled(net, a, c, Master), a, "dialler", <<Msg("AUTH", c)>>)
  BY <1>1, <1>2, ClientFacts DEF ConnectMaster
<1>5. Turned(net, net', {}, {}) /\ net'[a].open = End /\ net'[a].from = c
  <2>1. PICK n : n = net
    OBVIOUS
  <2>2. PICK v : v = net'
    OBVIOUS
  <2>3. /\ NetType(n) /\ n[a] = Unused /\ c \in Slave \cup Client /\ Master \in {Master} \cup Slave
        /\ (Master = Master => c = c)
        /\ v = Sent(Dialled(n, a, c, Master), a, "dialler", <<Msg("AUTH", c)>>)
    BY <1>1, <1>4, <2>1, <2>2, ClientFacts
  <2>4. Turned(n, v, {}, {}) /\ v[a].open = End /\ v[a].from = c
    BY <2>3, TurnedDial
  <2>5. QED
    BY <2>1, <2>2, <2>4
<1>6. "dialler" \in net'[r.sock].open /\ Owner(net'[r.sock], "dialler") = c
  BY <1>3, <1>5, Ends DEF Owner
<1>7. {} \cup {} \subseteq {<<client[c].sock, "dialler">>}
  OBVIOUS
<1>8. QED
  BY <1>3, <1>4, <1>5, <1>6, <1>7, ClientTurn

LEMMA TakeTokenStep ==
  ASSUME Now, NEW c \in Client, UNCHANGED <<master, slaveVars>>, faults' = faults,
         TakeToken(c, SlavesUp, FreeConns)
  PROVE  Goal /\ ClientShapes'
<1> DEFINE k == client[c].sock
           H == {<<k, "dialler">>}
<1>1. PICK a \in Conn : a = Min(FreeConns) /\ net[a] = Unused
  <2>1. FreeConns \subseteq Conn /\ FreeConns # {}
    BY Zenon DEF FreeConns, TakeToken
  <2>2. Min(FreeConns) \in FreeConns
    BY <2>1, LeastConn
  <2>3. QED
    BY <2>2 DEF FreeConns
<1>2. PICK r : r = [client[c] EXCEPT !.sock = a, !.peer = "slave", !.nolp = "LINE"]
  OBVIOUS
<1>3. ClientShape(r) /\ r.sock = a
  BY <1>2, ClientFacts DEF ClientShape, ClientField
<1>4. PICK t : t = Heard(c).arg
  OBVIOUS
<1>5. PICK b : b = t.at
  OBVIOUS
<1>6. b \in Slave /\ "dialler" \in net[k].open
  BY <1>4, <1>5 DEF TakeToken, SlavesUp, HasToken, Hears, Waiting, Sock
<1>7. net[k] # Unused
  BY <1>6 DEF Unused
<1>8. /\ client' = [client EXCEPT ![c] = r]
      /\ net' = Sent(Dialled(Shut(net, k, "dialler"), a, c, b), a, "dialler", <<Msg("AUTH", t)>>)
  BY <1>1, <1>2, <1>4, <1>5, ClientFacts DEF TakeToken, Sock
<1>9. Turned(net, net', H, {}) /\ net'[a].open = End /\ net'[a].from = c
  <2>1. PICK n : n = net
    OBVIOUS
  <2>2. PICK v : v = net'
    OBVIOUS
  <2>0. PICK l : l = k
    OBVIOUS
  <2>3. /\ NetType(n) /\ n[a] = Unused /\ c \in Slave \cup Client /\ (l \in Conn => n[l] # Unused)
        /\ a \in Conn /\ b \in Slave
        /\ v = Sent(Dialled(Shut(n, l, "dialler"), a, c, b), a, "dialler", <<Msg("AUTH", t)>>)
    BY <1>1, <1>6, <1>7, <1>8, <2>0, <2>1, <2>2, ClientFacts
  <2>4. Turned(n, v, {<<l, "dialler">>}, {}) /\ v[a].open = End /\ v[a].from = c
    BY ONLY <2>3, TurnedRedial
  <2>5. QED
    BY <2>0, <2>1, <2>2, <2>4
<1>10. "dialler" \in net'[r.sock].open /\ Owner(net'[r.sock], "dialler") = c
  BY <1>3, <1>9, Ends DEF Owner
<1>11. H \cup {} \subseteq {<<client[c].sock, "dialler">>}
  OBVIOUS
<1>12. QED
  BY <1>3, <1>8, <1>9, <1>10, <1>11, ClientTurn

LEMMA ClientReadsStep ==
  ASSUME Now, NEW c \in Client, UNCHANGED <<master, slaveVars>>, faults' = faults, ClientReads(c)
  PROVE  Goal /\ ClientShapes'
<1>0. ClientShape(client[c]) /\ client = [q \in Client |-> client[q]]
  BY ClientFacts
<1>1. CASE LoginOK(c)
  <2>1. PICK r : r = [client[c] EXCEPT !.state = "WAIT_TOKEN"]
    OBVIOUS
  <2>2. ClientShape(r) /\ r.sock = client[c].sock /\ client' = [client EXCEPT ![c] = r]
    BY <1>0, <1>1, <2>1 DEF ClientShape, ClientField, LoginOK
  <2>3. QED
    BY <1>1, <2>2, ConsumedStep DEF LoginOK, Hears
<1>2. CASE TakeToken(c, SlavesUp, FreeConns)
  BY <1>2, TakeTokenStep
<1>3. CASE SlaveAnswer(c)
  <2>1. PICK b : b = FALSE
    OBVIOUS
  <2>2. PICK x : x = IF Heard(c).kind = "100" /\ ~client[c].rest THEN "STOPPED" ELSE client[c].state
    OBVIOUS
  <2>3. PICK r : r = [client[c] EXCEPT !.nolp = "CMD", !.rest = b, !.state = x]
    OBVIOUS
  <2>4. ClientShape(r) /\ r.sock = client[c].sock
    BY <1>0, <2>3 DEF ClientShape, ClientField
  <2>5. client' = [client EXCEPT ![c] = r]
    BY <1>0, <1>3, <2>1, <2>2, <2>3 DEF SlaveAnswer
  <2>6. QED
    BY <1>3, <2>4, <2>5, ConsumedStep DEF SlaveAnswer, Hears
<1>4. CASE OnConfig(c)
  <2>1. PICK r : r = [client[c] EXCEPT !.nolp = "EXPECT"]
    OBVIOUS
  <2>2. ClientShape(r) /\ r.sock = client[c].sock /\ client' = [client EXCEPT ![c] = r]
    BY <1>0, <1>4, <2>1 DEF ClientShape, ClientField, OnConfig
  <2>3. QED
    BY <1>4, <2>2, ConsumedStep DEF OnConfig, Hears
<1>5. PICK b : b = TRUE
  OBVIOUS
<1>6. PICK q : q = [client[c] EXCEPT !.rest = b]
  OBVIOUS
<1>7. ClientShape(q)
  BY <1>0, <1>6 DEF ClientShape, ClientField
<1>8. CASE OnConfigRecv(c)
  <2>1. CASE Heard(c).arg = "whole"
    <3>1. PICK r : r = [client[c] EXCEPT !.nolp = "CMD"]
      OBVIOUS
    <3>2. ClientShape(r) /\ r.sock = client[c].sock /\ client' = [client EXCEPT ![c] = r]
      BY <1>0, <1>8, <2>1, <3>1 DEF ClientShape, ClientField, OnConfigRecv
    <3>3. QED
      BY <1>8, <2>1, <3>2, ConsumedStep DEF OnConfigRecv, Hears
  <2>2. CASE Heard(c).arg # "whole"
    <3>1. PICK r : r = [client[c] EXCEPT !.nolp = "CMD", !.rest = b]
      OBVIOUS
    <3>2. ClientShape(r)
      BY <1>0, <3>1 DEF ClientShape, ClientField
    <3>3. Fail(c, r)
      BY <1>5, <1>8, <2>2, <3>1 DEF OnConfigRecv
    <3>4. QED
      BY <3>2, <3>3, FailStep
  <2>3. QED
    BY <2>1, <2>2
<1>9. CASE NoSlave(c, SlavesUp) \/ MasterFails(c)
  BY <1>0, <1>9, FailStep DEF NoSlave, MasterFails
<1>10. CASE SlaveLost(c)
  <2>1. Fail(c, client[c]) \/ Fail(c, q)
    BY <1>5, <1>6, <1>10 DEF SlaveLost
  <2>2. QED
    BY <1>0, <1>7, <2>1, FailStep
<1>11. QED
  BY <1>1, <1>2, <1>3, <1>4, <1>8, <1>9, <1>10 DEF ClientReads

LEMMA ClientStopStep ==
  ASSUME Now, NEW c \in Client, UNCHANGED <<master, slaveVars>>, "db" \notin faults' => "db" \notin faults,
         ClientStop(c)
  PROVE  Goal /\ ClientShapes'
<1>1. PICK b : b = FALSE
  OBVIOUS
<1>2. PICK r : r = [client[c] EXCEPT !.nolp = "CMD", !.rest = b]
  OBVIOUS
<1>3. ClientShape(r)
  BY <1>2, ClientFacts DEF ClientShape, ClientField
<1>4. Fail(c, r)
  BY <1>1, <1>2 DEF ClientStop
<1>5. QED
  BY <1>3, <1>4, FailStep

-----------------------------------------------------------------------------
(* Every step of the cluster, and the theorems.                              *)

LEMMA OfMaster ==
  ASSUME Now, UNCHANGED <<slave, thread, client>>, Done, "db" \notin faults' => "db" \notin faults
  PROVE  Goal /\ ClientShapes'
<1>1. "db" \notin faults' => Holdings'
  BY HoldingsMaster, NowFacts DEF Done
<1>2. ClientShapes'
  BY DEF Now, ClientShapes
<1>3. QED
  BY <1>1, <1>2 DEF Done, Goal

LEMMA OfSlave ==
  ASSUME Now, client' = client, Goal
  PROVE  Goal /\ ClientShapes'
BY DEF Now, ClientShapes

LEMMA SlaveRunsStep ==
  ASSUME Now, NEW s \in Slave, SlaveRuns(s)
  PROVE  Goal
<1>1. UNCHANGED <<master, client>> /\ faults' = faults
  BY DEF SlaveRuns, Normal, SlaveStep
<1>2. CASE Connect(s)
  BY <1>1, <1>2, ConnectStep
<1>3. CASE LoggedOn(s)
  BY <1>1, <1>3, LoggedOnStep
<1>4. CASE NotLoggedOn(s)
  BY <1>1, <1>4, NotLoggedOnStep
<1>5. CASE Expect(s)
  BY <1>1, <1>5, ExpectStep
<1>6. CASE Receive(s)
  BY <1>1, <1>6, ReceiveStep
<1>7. CASE MakeToken(s)
  BY <1>1, <1>7, MakeTokenStep
<1>8. CASE RefuseToken(s)
  BY <1>1, <1>8, RefuseTokenStep
<1>9. CASE OnKillAll(s)
  BY <1>1, <1>9, OnKillAllStep
<1>10. CASE LinkLost(s)
  BY <1>1, <1>10, LinkLostStep
<1>11. CASE Report(s)
  BY <1>1, <1>11, ReportStep
<1>12. CASE AcceptClient(s)
  BY <1>1, <1>12, AcceptClientStep
<1>13. CASE AcceptNext(s)
  BY <1>1, <1>13, AcceptNextStep
<1>14. CASE AcceptBeyond(s)
  BY <1>1, <1>14, AcceptBeyondStep
<1>15. QED
  BY <1>2, <1>3, <1>4, <1>5, <1>6, <1>7, <1>8, <1>9, <1>10, <1>11, <1>12, <1>13, <1>14
     DEF SlaveRuns, Normal, SlaveStep, SlaveDials, Start, Reconnect, MainThread

LEMMA ThreadRunsStep ==
  ASSUME Now, NEW c \in Conn, ThreadRuns(c)
  PROVE  Goal
<1>1. UNCHANGED <<master, client>> /\ faults' = faults /\ ClientThread(c)
  BY DEF ThreadRuns, Normal, SlaveStep
<1>2. CASE Authorize(c)
  BY <1>1, <1>2, AuthorizeStep
<1>3. CASE NoAuth(c) \/ EndLoop(c)
  BY <1>1, <1>3, ThreadEndsStep
<1>4. CASE Enter(c)
  BY <1>1, <1>4, EnterStep
<1>5. CASE LeaveList(c)
  BY <1>1, <1>5, LeaveListStep
<1>6. QED
  BY <1>1, <1>2, <1>3, <1>4, <1>5 DEF ClientThread

LEMMA ClientRunsStep ==
  ASSUME Now, NEW c \in Client, ClientRuns(c)
  PROVE  Goal /\ ClientShapes'
<1>1. UNCHANGED <<master, slaveVars>> /\ faults' = faults /\ (ClientDials(c) \/ ClientReads(c))
  BY DEF ClientRuns, Normal, ClientStep
<1>2. CASE ClientDials(c)
  BY <1>1, <1>2, ConnectMasterStep DEF ClientDials
<1>3. CASE ClientReads(c)
  BY <1>1, <1>3, ClientReadsStep
<1>4. QED
  BY <1>1, <1>2, <1>3

LEMMA FaultSteps ==
  ASSUME Now, DbFails \/ Stop \/ Again \/ Kill
  PROVE  Goal /\ ClientShapes'
<1>1. MasterInv
  BY DEF Now
<1>2. CASE DbFails
  <2>1. CASE MasterStep(\E c \in Conn : SlaveNotStored(c))
    <3>1. PICK c \in Conn : SlaveNotStored(c)
      BY <2>1 DEF MasterStep
    <3>2. UNCHANGED <<slave, thread, client>> /\ faults' = faults \cup {"db"}
      BY <2>1, <3>1 DEF MasterStep, SlaveNotStored, Fault
    <3>3. Done
      BY <1>1, <3>1, <3>2, SlaveNotStoredStep
    <3>4. QED
      BY <3>2, <3>3, OfMaster
  <2>2. CASE SlaveStep(\E s \in Slave : NoTokenMade(s))
    <3>1. PICK s \in Slave : NoTokenMade(s)
      BY <2>2 DEF SlaveStep
    <3>2. UNCHANGED <<master, client>> /\ faults' = faults \cup {"db"}
      BY <2>2, <3>1 DEF SlaveStep, NoTokenMade, Fault
    <3>3. Goal
      BY <3>1, <3>2, LinkLostStep
    <3>4. QED
      BY <3>2, <3>3, OfSlave
  <2>3. CASE SlaveStep(\E c \in Conn : CannotEnter(c))
    <3>1. PICK c \in Conn : CannotEnter(c)
      BY <2>3 DEF SlaveStep
    <3>2. UNCHANGED <<master, client>> /\ faults' = faults \cup {"db"}
      BY <2>3, <3>1 DEF SlaveStep, CannotEnter, Fault
    <3>3. Goal
      BY <3>1, <3>2, ThreadEndsStep
    <3>4. QED
      BY <3>2, <3>3, OfSlave
  <2>4. QED
    BY <1>2, <2>1, <2>2, <2>3 DEF DbFails
<1>3. CASE Stop
  <2>0. faults' = faults \cup {"stop"}
    BY <1>3 DEF Stop, Fault
  <2>1. CASE MasterStep(MasterStop)
    <3>1. UNCHANGED <<slave, thread, client>> /\ Becomes(Stopped(World, "stopped"))
      BY <2>1 DEF MasterStep, MasterStop
    <3>2. Done
      BY <1>1, <2>0, <3>1, StoppedWorld
    <3>3. QED
      BY <2>0, <3>1, <3>2, OfMaster
  <2>2. CASE SlaveStep(\E s \in Slave : SlaveStop(s))
    <3>1. PICK s \in Slave : SlaveStop(s)
      BY <2>2 DEF SlaveStep
    <3>2. UNCHANGED <<master, client>> /\ GoneSlave(s, "down") /\ "down" # "accept"
      BY <2>2, <3>1 DEF SlaveStep, SlaveStop
    <3>3. Goal
      BY <2>0, <3>2, GoneStep
    <3>4. QED
      BY <3>2, <3>3, OfSlave
  <2>3. CASE ClientStep(\E c \in Client : ClientStop(c))
    <3>1. PICK c \in Client : ClientStop(c)
      BY <2>3 DEF ClientStep
    <3>2. UNCHANGED <<master, slaveVars>>
      BY <2>3 DEF ClientStep
    <3>3. QED
      BY <2>0, <3>1, <3>2, ClientStopStep
  <2>4. QED
    BY <1>3, <2>1, <2>2, <2>3 DEF Stop
<1>4. CASE Again
  <2>0. faults' = faults
    BY <1>4 DEF Again, Normal
  <2>1. CASE MasterStep(MasterStart)
    <3>1. UNCHANGED <<slave, thread, client>> /\ MasterStart
      BY <2>1 DEF MasterStep
    <3>2. Done
      BY <1>1, <2>0, <3>1, MasterStartStep
    <3>3. QED
      BY <2>0, <3>1, <3>2, OfMaster
  <2>2. CASE SlaveStep(\E s \in Slave : Restart(s))
    <3>1. PICK s \in Slave : Restart(s)
      BY <2>2 DEF SlaveStep
    <3>2. UNCHANGED <<master, client>>
      BY <2>2 DEF SlaveStep
    <3>3. Goal
      BY <2>0, <3>1, <3>2, RestartStep
    <3>4. QED
      BY <3>2, <3>3, OfSlave
  <2>3. QED
    BY <1>4, <2>1, <2>2 DEF Again, Normal
<1>5. CASE Kill
  <2>1. faults' = faults \cup {"kill"} /\ UNCHANGED <<slave, thread, client>>
    BY <1>5 DEF Kill, Fault, MasterStep
  <2>2. PICK i \in DOMAIN master.slaves : KillAll(i)
    BY <1>5 DEF Kill, MasterStep
  <2>3. Done
    BY <1>1, <2>1, <2>2, KillAllStep
  <2>4. QED
    BY <2>1, <2>3, OfMaster
<1>6. QED
  BY <1>2, <1>3, <1>4, <1>5

LEMMA NowStep ==
  ASSUME Now, [Next]_vars
  PROVE  Now'
<1>1. IInv'
  BY ClusterStep DEF Now
<1>2. Goal /\ ClientShapes'
  <2>1. CASE MasterRuns
    <3>1. UNCHANGED <<slave, thread, client>> /\ faults' = faults /\ MasterReads
      BY <2>1 DEF MasterRuns, Normal, MasterStep
    <3>2. Done
      BY <3>1, MasterReadsStep DEF Now
    <3>3. QED
      BY <3>1, <3>2, OfMaster
  <2>2. ASSUME NEW s \in Slave, SlaveRuns(s) PROVE Goal /\ ClientShapes'
    <3>1. client' = client
      BY <2>2 DEF SlaveRuns, Normal, SlaveStep
    <3>2. QED
      BY <2>2, <3>1, SlaveRunsStep, OfSlave
  <2>3. ASSUME NEW c \in Conn, ThreadRuns(c) PROVE Goal /\ ClientShapes'
    <3>1. client' = client
      BY <2>3 DEF ThreadRuns, Normal, SlaveStep
    <3>2. QED
      BY <2>3, <3>1, ThreadRunsStep, OfSlave
  <2>4. ASSUME NEW c \in Client, ClientRuns(c) PROVE Goal /\ ClientShapes'
    BY <2>4, ClientRunsStep
  <2>5. CASE DbFails \/ Stop \/ Again \/ Kill
    BY <2>5, FaultSteps
  <2>6. CASE UNCHANGED vars
    <3>1. PICK n : n = net
      OBVIOUS
    <3>2. NetType(n)
      BY <3>1, NowFacts
    <3>3. Turned(n, n, {}, {})
      BY <3>2, TurnedSame
    <3>4. Turned(net, net', {}, {})
      BY <2>6, <3>1, <3>3 DEF vars
    <3>5. Goes
      BY <2>6 DEF vars, Goes, Comes, Lost
    <3>6. MasterInv'
      BY <2>6, <3>4, <3>5, MasterTurn DEF vars, Now
    <3>7. Holdings => Holdings'
      BY <2>6 DEF vars, Holdings, Links, Accepts, Threads, Socks, Holds, Owner
    <3>8. ClientShapes'
      BY <2>6 DEF vars, Now, ClientShapes
    <3>9. QED
      BY <2>6, <3>6, <3>7, <3>8 DEF vars, Now, Goal
  <2>7. QED
    BY <2>1, <2>2, <2>3, <2>4, <2>5, <2>6 DEF Next
<1>3. QED
  BY <1>1, <1>2 DEF Now, Goal

LEMMA NowInit == Init => Now
<1> SUFFICES ASSUME Init PROVE Now
  OBVIOUS
<1>1. /\ slave = [s \in Slave |-> Process] /\ thread = [c \in Conn |-> NoThread]
      /\ client = [c \in Client |-> [state |-> "DISCONNECTED", sock |-> NoConn, peer |-> "none",
                                     nolp |-> "CMD", rest |-> FALSE, dials |-> 0]]
  BY DEF Init, SlaveInit, ClientInit
<1>2. Process.link = NoConn /\ Process.pc = "down" /\ NoThread.pc \notin Busy /\ NoConn \notin Conn
  BY BoundAssumption DEF Process, NoThread, Busy
<1>3. Holdings
  BY <1>1, <1>2 DEF Holdings, Links, Accepts, Threads, Socks
<1>4. ClientShapes
  BY <1>1 DEF ClientShapes, ClientField
<1>5. QED
  BY <1>3, <1>4, ClusterInit, MasterStarts DEF Now

LEMMA AlwaysNow == Spec => []Now
BY NowInit, NowStep, PTL DEF Spec

(* Whatever happens between the daemons, the list that users get is that of  *)
(* the slaves as they are: whoever changes a record lists it again.          *)
THEOREM UsersSeeSlaves == Spec => []ListFresh
<1>1. Now => ListFresh
  BY WorldParts DEF Now, MasterInv, Good, Fresh, ListFresh
<1>2. QED
  BY <1>1, AlwaysNow, PTL

(* As long as the data base stores every slave that logs in, the list of     *)
(* slaves and the connections of slaves point to each other, although a      *)
(* slave that leaves moves the numbers of those behind it.                   *)
THEOREM SlavesIndexed == Spec => []SlaveIndex
<1>1. Now => SlaveIndex
  <2>1. SUFFICES ASSUME Now, "db" \notin faults PROVE SlaveIndex
    BY DEF SlaveIndex
  <2>2. Index(master, NoConn)
    BY <2>1, WorldParts DEF Now, MasterInv, Right, Linked
  <2>3. NoConn \notin Conn
    BY BoundAssumption
  <2>4. QED
    BY <2>2, <2>3 DEF Index, SlaveIndex
<1>2. QED
  BY <1>1, AlwaysNow, PTL

(* A slave is asked for one token at a time, for a client that is still      *)
(* connected and that no other slave is asked for.                           *)
THEOREM OneQuestion == Spec => []AskedForOne
<1>1. Now => AskedForOne
  <2>1. SUFFICES ASSUME Now, "db" \notin faults PROVE AskedForOne
    BY DEF AskedForOne
  <2>2. Asked(master, NoConn)
    BY Zenon, <2>1, WorldParts DEF Now, MasterInv, Right, Linked
  <2>3. QED
    BY <2>2 DEF Asked, AskedForOne
<1>2. QED
  BY <1>1, AlwaysNow, PTL

(* A client that waits for a token does not wait for nothing: the slave has  *)
(* still to read the question or has answered, unless the connection has     *)
(* ended or the slave has lost what the master says.                         *)
THEOREM NoVainWait == Spec => []AnswerComing
<1>1. Now => AnswerComing
  <2>1. SUFFICES ASSUME Now, "db" \notin faults, NEW i \in DOMAIN master.slaves,
                        master.slaves[i].client_conn # NoConn
                 PROVE  LET c == master.slaves[i].conn
                        IN \/ net[c].open # End \/ net[c].queue["server"] # <<>>
                           \/ slave[master.slaves[i].name].nolp = "LOST"
                           \/ \E n \in DOMAIN net[c].queue["dialler"] :
                                net[c].queue["dialler"][n].kind = "CLIENT"
    BY DEF AnswerComing
  <2>2. IsMaster(master) /\ NetType(net) /\ Answering(World, NoConn)
    BY <2>1, Known DEF Now, MasterInv, Right, Linked
  <2>3. PICK c \in Conn : c = master.slaves[i].conn
    BY <2>2 DEF IsMaster, IsRecord
  <2>4. Comes(net, c, Lost(master.slaves[i].name))
    BY <2>1, <2>2, <2>3, WorldParts DEF Answering
  <2>5. IsList(net[c].queue["server"]) /\ IsList(net[c].queue["dialler"])
    BY <2>2, Ends DEF NetType, IsChannel
  <2>6. /\ Len(net[c].queue["server"]) >= 1 => net[c].queue["server"] # <<>>
        /\ DOMAIN net[c].queue["dialler"] = 1..Len(net[c].queue["dialler"])
    BY <2>5, ListDomain, EmptyList
  <2>7. QED
    BY Zenon, <2>3, <2>4, <2>6 DEF Comes, Lost
<1>2. QED
  BY <1>1, AlwaysNow, PTL
=============================================================================
