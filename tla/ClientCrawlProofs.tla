-------------------------- MODULE ClientCrawlProofs --------------------------
(***************************************************************************)
(* Proofs about ClientCrawl for any number of workers, inputs, connections *)
(* and faults: sessions have a thread that will finish them, reports are   *)
(* stored with the session that found them, and nothing of a crawl is left *)
(* for the next one.                                                       *)
(***************************************************************************)
EXTENDS ClientCrawl, SequenceTheorems, FiniteSetTheorems, TLAPS

Message == [kind : {"CONFIG", "START", "STATUS", "URL", "TARGET", "attr", "COUNT"}, arg : Nat]

Socket ==
    [open : BOOLEAN, up : Seq(Message), down : Seq(Message), used : BOOLEAN]
Main ==
    [state : {"DISCONNECTED", "WAIT_TOKEN", "STOPPED", "RUNNING", "ENDED"},
     sock : Conn \cup {Closed, ToMaster}, at : {"loop", "join", "passed"},
     then : {"none", "idle", "lost"}, idle : BOOLEAN, work : Nat]
Metha ==
    [state : {"PREPARED", "RUNNING"}, pipe : Nat, thr : {"none", "made", "loop", "stop"}, stop : BOOLEAN]
Thread ==
    [pc : {"none", "main", "hook", "ended"}, session : Nat, running : BOOLEAN,
     timer : BOOLEAN, nolp : {"CMD", "EXPECT"}]
Rows ==
    [added : Nat, given : Nat,
     row : [Input -> {"none", "running", "hook", "done", "interrupted"}]]

TypeOK ==
    /\ conn \in [Conn -> Socket]
    /\ mbc \in Main /\ lib \in Metha
    /\ worker \in [Worker -> {"none", "fresh", "page", "target", "done", "parked"}]
    /\ thread \in [Conn -> Thread]
    /\ db \in Rows
    /\ faults \subseteq {"late", "stop", "db", "kill", "cut"}

(* The thread of the session and its workers: it leaves when they are gone,  *)
(* and they go only when it has told them.                                   *)
LibInv ==
    /\ lib.thr = "none" => Alive = {}
    /\ lib.thr \in {"made", "loop"} => Alive = Worker
    /\ lib.stop <=> lib.thr = "stop"
    /\ lib.state = "RUNNING" <=> lib.thr \in {"loop", "stop"}

Crawling == \E w \in Worker : worker[w] \in {"fresh", "page", "target", "done"}

(* The main thread: what it waits for, where its socket leads, and that only *)
(* workers of the crawl it knows of are at work.                             *)
MainInv ==
    /\ mbc.at = "loop" <=> mbc.then = "none"
    /\ mbc.at # "loop" => mbc.state = "RUNNING"
    /\ mbc.state \in {"DISCONNECTED", "ENDED"} => mbc.sock = Closed
    /\ mbc.state = "WAIT_TOKEN" => mbc.sock # Closed
    /\ mbc.state \in {"STOPPED", "RUNNING"} => mbc.sock \in Conn
    /\ mbc.idle => mbc.state \in {"RUNNING", "DISCONNECTED"} /\ mbc.then # "idle"
    /\ Crawling => mbc.state = "RUNNING" /\ ~mbc.idle /\ mbc.then # "idle"

(* Who is at the ends of a connection.                                       *)
EndsInv ==
    /\ \A k \in Conn : ~conn[k].used => ~conn[k].open /\ thread[k] = NoThread
    /\ \A k \in Conn : conn[k].open => mbc.sock = k /\ mbc.then # "lost" /\ thread[k].pc \in {"main", "hook"}

(* What comes from the client is of the session of the thread, and an idle   *)
(* client sends nothing more.                                                *)
StreamInv ==
    \A k \in Conn :
      /\ \A p \in 1..Len(conn[k].up) :
           /\ conn[k].up[p] = Msg("STATUS", 0) => p = Len(conn[k].up)
           /\ conn[k].up[p].kind # "STATUS" => conn[k].up[p].arg = thread[k].session
      /\ thread[k].pc = "hook" \/ thread[k].timer => conn[k].up = <<>>
      /\ thread[k].pc = "hook" => ~thread[k].timer /\ thread[k].session # NoSession

(* Client and slave take turns: a crawl runs, its end is reported, input is  *)
(* looked for, or is on its way.                                             *)
CrawlRuns == mbc.state = "RUNNING" /\ mbc.then # "idle"

TurnInv ==
    \A k \in Conn : conn[k].open =>
      /\ conn[k].down # <<>> =>
           /\ Len(conn[k].down) = 1 /\ conn[k].up = <<>>
           /\ thread[k].pc = "main" /\ ~thread[k].timer
           /\ ~CrawlRuns
           /\ Head(conn[k].down).kind = "START" => Head(conn[k].down).arg = thread[k].session
      /\ CrawlRuns =>
           /\ thread[k].session = mbc.work /\ thread[k].pc = "main" /\ ~thread[k].timer
           /\ \A p \in 1..Len(conn[k].up) : conn[k].up[p] # Msg("STATUS", 0)

(* Numbers of sessions are given once.                                       *)
NumberInv ==
    /\ db.given <= db.added /\ db.added <= MaxInputs
    /\ \A i \in Input : i > db.given => db.row[i] = "none"
    /\ \A k \in Conn : thread[k].session <= db.given
    /\ \A j, k \in Conn : thread[j].session = thread[k].session => j = k \/ thread[k].session = NoSession
    /\ \A k \in Conn : thread[k].timer /\ thread[k].session # NoSession =>
          db.row[thread[k].session] \notin {"running", "hook"}

(* Every EXIT in the pipe is accounted for: the main thread put it there     *)
(* when it lost the slave, or a worker when the pages had run out; and the   *)
(* thread of the session read one.                                           *)
One(b) == IF b THEN 1 ELSE 0

Nothing == Alive = {} /\ lib.thr = "none" /\ lib.pipe = 0 /\ ~mbc.idle

PipeInv ==
    "late" \notin faults =>
      /\ mbc.state \in {"STOPPED", "WAIT_TOKEN", "ENDED"} => Nothing
      /\ mbc.state = "DISCONNECTED" => lib.thr = "none" /\ lib.pipe = One(mbc.idle)
      /\ mbc.state = "RUNNING" =>
           lib.pipe + One(lib.thr \in {"none", "stop"}) = One(mbc.idle) + One(mbc.then # "none")
      /\ mbc.at = "passed" => lib.thr = "none"

(* The configuration comes first, and before the client has answered it.     *)
MailInv ==
    \A k \in Conn : \A p \in 1..Len(conn[k].down) :
      conn[k].down[p].kind = "CONFIG" => p = 1 /\ (mbc.sock = k => mbc.state = "WAIT_TOKEN")

(* What the thread of the slave and its client must agree on.                *)
ThreadInv == EndsInv /\ StreamInv /\ TurnInv /\ MailInv /\ NumberInv /\ RowsOwned

IInv == TypeOK /\ LibInv /\ MainInv /\ ThreadInv /\ PipeInv

-----------------------------------------------------------------------------
(* What the operators of the model do, field by field.                       *)
LEMMA Sockets == Closed \notin Conn /\ ToMaster \notin Conn /\ Closed # ToMaster
BY BoundAssumption DEF Closed, ToMaster, Conn

LEMMA MsgType == \A x \in Nat :
    /\ Msg("CONFIG", x) \in Message /\ Msg("START", x) \in Message /\ Msg("STATUS", x) \in Message
    /\ Msg("URL", x) \in Message /\ Msg("TARGET", x) \in Message /\ Msg("attr", x) \in Message
    /\ Msg("COUNT", x) \in Message
BY DEF Msg, Message

LEMMA SaysEffect ==
  ASSUME TypeOK, NEW m \in Seq(Message)
  PROVE  /\ Says(m) \in [Conn -> Socket]
         /\ \A k \in Conn :
              /\ Says(m)[k].open = conn[k].open /\ Says(m)[k].used = conn[k].used
              /\ Says(m)[k].down = conn[k].down
              /\ Says(m)[k].up = IF mbc.sock = k /\ conn[k].open THEN conn[k].up \o m ELSE conn[k].up
<1>1. conn \in [Conn -> Socket] /\ \A k \in Conn : conn[k].up \o m \in Seq(Message)
  BY DEF TypeOK, Socket
<1>2. CASE mbc.sock \in Conn /\ conn[mbc.sock].open
  <2>1. Says(m) = [conn EXCEPT ![mbc.sock].up = @ \o m]
    BY <1>2 DEF Says
  <2> DEFINE r == [conn[mbc.sock] EXCEPT !.up = conn[mbc.sock].up \o m]
  <2>2. r \in Socket /\ r.up = conn[mbc.sock].up \o m /\ r.down = conn[mbc.sock].down
        /\ r.open = conn[mbc.sock].open /\ r.used = conn[mbc.sock].used
    BY <1>1, <1>2 DEF Socket
  <2>3. Says(m) = [conn EXCEPT ![mbc.sock] = r]
    BY <2>1
  <2> HIDE DEF r
  <2>4. QED
    BY <1>1, <1>2, <2>2, <2>3
<1>3. CASE ~(mbc.sock \in Conn /\ conn[mbc.sock].open)
  BY <1>1, <1>3 DEF Says
<1>4. QED
  BY <1>2, <1>3

LEMMA AnswerEffect ==
  ASSUME TypeOK, NEW m \in Seq(Message), mbc.sock \in Conn, conn[mbc.sock].down # <<>>
  PROVE  /\ Answer(m) \in [Conn -> Socket]
         /\ \A k \in Conn :
              /\ Answer(m)[k].open = conn[k].open /\ Answer(m)[k].used = conn[k].used
              /\ Answer(m)[k].down = IF mbc.sock = k THEN Tail(conn[k].down) ELSE conn[k].down
              /\ Answer(m)[k].up = IF mbc.sock = k /\ conn[k].open THEN conn[k].up \o m ELSE conn[k].up
<1>1. Says(m)[mbc.sock].down = conn[mbc.sock].down /\ conn[mbc.sock].down \in Seq(Message)
  BY SaysEffect DEF TypeOK, Socket
<1>2. Tail(conn[mbc.sock].down) \in Seq(Message)
  BY <1>1
<1>3. Answer(m) = [Says(m) EXCEPT ![mbc.sock].down = Tail(conn[mbc.sock].down)]
  BY <1>1, SaysEffect DEF Answer
<1> DEFINE u == Says(m)[mbc.sock]
           r == [u EXCEPT !.down = Tail(conn[mbc.sock].down)]
<1>4. u \in Socket /\ u.open = conn[mbc.sock].open /\ u.used = conn[mbc.sock].used /\ u.up = Says(m)[mbc.sock].up
  BY SaysEffect
<1> HIDE DEF u
<1>5. r \in Socket /\ r.down = Tail(conn[mbc.sock].down) /\ r.up = Says(m)[mbc.sock].up
      /\ r.open = conn[mbc.sock].open /\ r.used = conn[mbc.sock].used
  BY <1>4, <1>2 DEF Socket
<1>6. Answer(m) = [Says(m) EXCEPT ![mbc.sock] = r]
  BY <1>3 DEF u
<1> HIDE DEF r
<1>7. QED
  BY <1>5, <1>6, SaysEffect

LEMMA ClosedEffect ==
  ASSUME TypeOK
  PROVE  /\ ClosedByClient(conn) \in [Conn -> Socket]
         /\ \A k \in Conn :
              /\ ClosedByClient(conn)[k].up = conn[k].up /\ ClosedByClient(conn)[k].used = conn[k].used
              /\ mbc.sock # k => ClosedByClient(conn)[k] = conn[k]
              /\ mbc.sock = k => ~ClosedByClient(conn)[k].open /\ ClosedByClient(conn)[k].down = <<>>
<1>1. conn \in [Conn -> Socket] /\ <<>> \in Seq(Message)
  BY DEF TypeOK
<1>2. QED
  BY <1>1 DEF ClosedByClient, Socket

LEMMA EndsWithEffect ==
  ASSUME TypeOK, EndsWith(conn)
  PROVE  /\ conn' = ClosedByClient(conn)
         /\ mbc' \in Main /\ lib' \in Metha /\ worker' = [w \in Worker |-> "none"]
         /\ mbc'.state = "ENDED" /\ mbc'.sock = Closed /\ mbc'.at = "loop" /\ mbc'.then = "none" /\ ~mbc'.idle
         /\ lib'.state = "PREPARED" /\ lib'.pipe = 0 /\ lib'.thr = "none" /\ ~lib'.stop
         /\ ~Crawling' /\ Alive' = {}
<1>1. mbc' = [state |-> "ENDED", sock |-> Closed, at |-> "loop", then |-> "none", idle |-> FALSE, work |-> NoSession]
  BY DEF EndsWith, Started
<1>2. mbc' \in Main
  BY <1>1 DEF Main, NoSession
<1>3. lib' \in Metha
  BY DEF EndsWith, Fresh, Metha
<1>4. QED
  BY <1>1, <1>2, <1>3 DEF EndsWith, Fresh, Crawling, Alive

LEMMA ServedEffect ==
  ASSUME TypeOK, NEW k \in Conn, conn[k].up # <<>>
  PROVE  LET c == [conn EXCEPT ![k].up = Tail(@)] IN
         /\ c \in [Conn -> Socket]
         /\ c[k].up = Tail(conn[k].up) /\ c[k].down = conn[k].down
         /\ c[k].open = conn[k].open /\ c[k].used = conn[k].used
         /\ \A j \in Conn \ {k} : c[j] = conn[j]
<1>1. conn \in [Conn -> Socket] /\ Tail(conn[k].up) \in Seq(Message)
  BY DEF TypeOK, Socket
<1>2. QED
  BY <1>1 DEF Socket

LEMMA SendUrlEffect ==
  ASSUME TypeOK, NEW k \in Conn, NEW c \in [Conn -> Socket], NEW d \in Rows, d.added <= MaxInputs,
         SendUrl(k, c, d)
  PROVE  /\ conn' \in [Conn -> Socket] /\ thread' \in [Conn -> Thread] /\ db' \in Rows
         /\ \A j \in Conn \ {k} : conn'[j] = c[j] /\ thread'[j] = thread[j]
         /\ conn'[k].up = c[k].up /\ conn'[k].open = c[k].open /\ conn'[k].used = c[k].used
         /\ thread'[k].pc = "main" /\ db'.added = d.added
         /\ Available(d) =>
              /\ conn'[k].down = IF c[k].open THEN Append(c[k].down, Msg("START", d.given + 1)) ELSE c[k].down
              /\ thread'[k].session = d.given + 1 /\ ~thread'[k].timer
              /\ db'.given = d.given + 1
              /\ \A i \in Input : db'.row[i] = IF i = d.given + 1 THEN "running" ELSE d.row[i]
         /\ ~Available(d) =>
              /\ conn'[k].down = c[k].down
              /\ thread'[k].session = thread[k].session /\ thread'[k].timer
              /\ db' = d
<1> DEFINE i == d.given + 1
           t == [thread[k] EXCEPT !.pc = "main", !.running = FALSE]
<1>1. thread \in [Conn -> Thread] /\ t \in Thread
  BY DEF TypeOK, Thread
<1>2. i \in Nat /\ Msg("START", i) \in Message
  BY MsgType DEF Rows
<1>3. Append(c[k].down, Msg("START", i)) \in Seq(Message)
  BY <1>2 DEF Socket
<1>4. CASE Available(d)
  <2>1. db' = [d EXCEPT !.given = i, !.row[i] = "running"]
    BY <1>4 DEF SendUrl
  <2>2. db' \in Rows /\ db'.added = d.added /\ db'.given = i
        /\ \A x \in Input : db'.row[x] = IF x = i THEN "running" ELSE d.row[x]
    BY <2>1, <1>2 DEF Rows
  <2>3. thread' = [thread EXCEPT ![k] = [t EXCEPT !.session = i, !.timer = FALSE]]
    BY <1>4 DEF SendUrl, NewSession
  <2>4. thread' \in [Conn -> Thread] /\ thread'[k].pc = "main" /\ thread'[k].session = i /\ ~thread'[k].timer
        /\ \A j \in Conn \ {k} : thread'[j] = thread[j]
    BY <2>3, <1>1, <1>2 DEF Thread
  <2>5. conn' = IF c[k].open THEN [c EXCEPT ![k].down = Append(@, Msg("START", i))] ELSE c
    BY <1>4 DEF SendUrl
  <2>6. conn' \in [Conn -> Socket] /\ (\A j \in Conn \ {k} : conn'[j] = c[j])
        /\ conn'[k].up = c[k].up /\ conn'[k].open = c[k].open /\ conn'[k].used = c[k].used
        /\ conn'[k].down = IF c[k].open THEN Append(c[k].down, Msg("START", i)) ELSE c[k].down
    BY <2>5, <1>3 DEF Socket
  <2>7. QED
    BY <1>4, <2>2, <2>4, <2>6
<1>5. CASE ~Available(d)
  <2>1. conn' = c /\ db' = d /\ thread' = [thread EXCEPT ![k] = [t EXCEPT !.timer = TRUE]]
    BY <1>5 DEF SendUrl
  <2>2. QED
    BY <2>1, <1>1, <1>5 DEF Thread
<1>6. QED
  BY <1>4, <1>5

-----------------------------------------------------------------------------
(* What the thread of the slave can do to its connection, its session and    *)
(* the data base, by cases.                                                  *)
Typed == conn' \in [Conn -> Socket] /\ thread' \in [Conn -> Thread] /\ db' \in Rows

Others(k) == \A j \in Conn \ {k} : conn'[j] = conn[j] /\ thread'[j] = thread[j]

Gone(k) ==
    /\ Typed /\ Others(k)
    /\ ~conn'[k].open /\ conn'[k].up = <<>> /\ conn'[k].used = conn[k].used
    /\ conn'[k].down \in {conn[k].down, Append(conn[k].down, Msg("START", db.given + 1))}
    /\ thread[k].pc \in {"main", "hook"} /\ thread'[k] = [NoThread EXCEPT !.pc = "ended"]
    /\ db'.added = db.added
    /\ db'.given = db.given \/ (Available(db) /\ db'.given = db.given + 1)
    /\ \A i \in Input : db'.row[i] = IF i = thread[k].session THEN "interrupted" ELSE db.row[i]

Takes(k) ==
    /\ Typed /\ Others(k)
    /\ conn[k].up # <<>> /\ conn'[k].up = Tail(conn[k].up) /\ conn'[k].down = conn[k].down
    /\ conn'[k].open = conn[k].open /\ conn'[k].used = conn[k].used
    /\ thread[k].pc = "main" /\ thread'[k].pc = "main"
    /\ thread'[k].session = thread[k].session /\ thread'[k].timer = thread[k].timer
    /\ db' = db

Hooks(k) ==
    /\ Typed /\ Others(k)
    /\ conn[k].up = <<Msg("STATUS", 0)>> /\ conn'[k].up = <<>> /\ conn'[k].down = conn[k].down
    /\ conn'[k].open = conn[k].open /\ conn'[k].used = conn[k].used
    /\ thread[k].pc = "main" /\ thread'[k].pc = "hook"
    /\ thread[k].session # NoSession /\ thread'[k].session = thread[k].session
    /\ thread'[k].timer = thread[k].timer
    /\ db'.added = db.added /\ db'.given = db.given
    /\ \A i \in Input : db'.row[i] = IF i = thread[k].session THEN "hook" ELSE db.row[i]

Looks(k) ==
    /\ Typed /\ Others(k)
    /\ \/ thread[k].pc = "hook"
       \/ thread[k].pc = "main" /\ thread[k].timer
       \/ thread[k].pc = "main" /\ conn[k].up = <<Msg("STATUS", 0)>> /\ thread[k].session = NoSession
    /\ conn'[k].up = <<>> /\ conn'[k].open = conn[k].open /\ conn'[k].used = conn[k].used
    /\ thread'[k].pc = "main" /\ db'.added = db.added
    /\ Available(db) =>
         /\ conn'[k].down = IF conn[k].open THEN Append(conn[k].down, Msg("START", db.given + 1)) ELSE conn[k].down
         /\ thread'[k].session = db.given + 1 /\ ~thread'[k].timer
         /\ db'.given = db.given + 1 /\ db'.row[db.given + 1] = "running"
    /\ ~Available(db) =>
         /\ conn'[k].down = conn[k].down
         /\ thread'[k].session = thread[k].session /\ thread'[k].timer
         /\ db'.given = db.given
    /\ \A i \in Input : ~(Available(db) /\ i = db.given + 1) =>
         /\ i # thread[k].session => db'.row[i] = db.row[i]
         /\ i = thread[k].session => db'.row[i] \notin {"running", "hook"}

LEMMA HeadOf ==
  ASSUME NEW q \in Seq(Message), q # <<>>
  PROVE  /\ Head(q) = q[1] /\ Head(q) \in Message /\ Tail(q) \in Seq(Message) /\ Len(q) \in Nat /\ Len(q) >= 1
         /\ Len(Tail(q)) = Len(q) - 1
         /\ \A p \in 1..Len(Tail(q)) : Tail(q)[p] = q[p + 1] /\ p + 1 \in 1..Len(q)
         /\ Len(q) = 1 => q = <<Head(q)>> /\ Tail(q) = <<>>
<1>1. Len(q) \in Nat /\ Len(q) >= 1 /\ Head(q) = q[1] /\ Head(q) \in Message /\ Tail(q) \in Seq(Message)
  BY EmptySeq
<1>2. Len(Tail(q)) = Len(q) - 1 /\ \A p \in 1..Len(Tail(q)) : Tail(q)[p] = q[p + 1] /\ p + 1 \in 1..Len(q)
  BY <1>1
<1>3. Len(q) = 1 => q = <<Head(q)>>
  BY <1>1
<1>4. Len(q) = 1 => Tail(q) = <<>>
  BY <1>1, <1>2, EmptySeq
<1>5. QED
  BY <1>1, <1>2, <1>3, <1>4

(* A STATUS 0 that is next is the last.                                      *)
LEMMA IdleIsLast ==
  ASSUME TypeOK, StreamInv, NEW k \in Conn, Gets(k, "STATUS"), Head(conn[k].up).arg = 0
  PROVE  conn[k].up = <<Msg("STATUS", 0)>> /\ Tail(conn[k].up) = <<>>
<1> DEFINE q == conn[k].up
<1>1. q \in Seq(Message) /\ q # <<>> /\ Head(q).kind = "STATUS" /\ Head(q).arg = 0
  BY DEF TypeOK, Socket, Gets
<1>2. \A p \in 1..Len(q) : q[p] = Msg("STATUS", 0) => p = Len(q)
  BY DEF StreamInv
<1> HIDE DEF q
<1>3. Head(q) = q[1] /\ Head(q) \in Message /\ Len(q) \in Nat /\ Len(q) >= 1
  BY <1>1, HeadOf
<1>4. Head(q) = Msg("STATUS", 0)
  BY <1>1, <1>3 DEF Message, Msg
<1>5. Len(q) = 1
  <2>1. q[1] = Msg("STATUS", 0)
    BY <1>3, <1>4
  <2>2. 1 \in 1..Len(q)
    BY <1>3
  <2>3. QED
    BY <1>2, <2>1, <2>2, Zenon
<1>6. QED
  BY <1>1, <1>4, <1>5, HeadOf DEF q

LEMMA Shut ==
  ASSUME NEW u \in Socket
  PROVE  LET r == [u EXCEPT !.open = FALSE, !.up = <<>>]
         IN  r \in Socket /\ ~r.open /\ r.up = <<>> /\ r.used = u.used /\ r.down = u.down
<1>1. <<>> \in Seq(Message)
  OBVIOUS
<1>2. QED
  BY <1>1 DEF Socket

LEMMA EndsIsGone ==
  ASSUME TypeOK, NEW k \in Conn, thread[k].pc \in {"main", "hook"}, Ends(k)
  PROVE  Gone(k) /\ UNCHANGED clientVars
<1> DEFINE r == [conn[k] EXCEPT !.open = FALSE, !.up = <<>>]
           t == [NoThread EXCEPT !.pc = "ended"]
<1>1. conn \in [Conn -> Socket] /\ r \in Socket /\ ~r.open /\ r.up = <<>> /\ r.used = conn[k].used
      /\ r.down = conn[k].down
  BY Shut DEF TypeOK
<1>2. conn' = [conn EXCEPT ![k] = r]
  BY <1>1 DEF Ends
<1>3. thread' = [thread EXCEPT ![k] = t] /\ t \in Thread /\ thread \in [Conn -> Thread]
  BY DEF Ends, NoThread, Thread, NoSession, TypeOK
<1> HIDE DEF r, t
<1>4. db \in Rows /\ db' = Interrupted(k)
  BY DEF TypeOK, Ends
<1>5. db' \in Rows /\ db'.added = db.added /\ db'.given = db.given
      /\ \A i \in Input : db'.row[i] = IF i = thread[k].session THEN "interrupted" ELSE db.row[i]
  <2>1. CASE thread[k].session = NoSession
    <3>1. \A i \in Input : i # NoSession
      BY BoundAssumption DEF Input, NoSession
    <3>2. QED
      BY <2>1, <3>1, <1>4 DEF Interrupted
  <2>2. CASE thread[k].session # NoSession
    BY <2>2, <1>4 DEF Interrupted, Rows
  <2>3. QED
    BY <2>1, <2>2
<1>6. UNCHANGED clientVars
  BY DEF Ends
<1>7. Typed /\ Others(k)
  BY <1>1, <1>2, <1>3, <1>5 DEF Typed, Others
<1>8. ~conn'[k].open /\ conn'[k].up = <<>> /\ conn'[k].used = conn[k].used /\ conn'[k].down = conn[k].down
      /\ thread'[k] = [NoThread EXCEPT !.pc = "ended"]
  BY <1>1, <1>2, <1>3 DEF t
<1>9. QED
  BY <1>5, <1>6, <1>7, <1>8 DEF Gone

LEMMA NoRowIsGone ==
  ASSUME TypeOK, NEW k \in Conn, thread[k].pc \in {"main", "hook"}, NoRow(k)
  PROVE  Gone(k) /\ UNCHANGED clientVars
<1> DEFINE m == <<Msg("START", db.given + 1)>>
           c == Tells(k, m)
           r == [c[k] EXCEPT !.open = FALSE, !.up = <<>>]
           t == [NoThread EXCEPT !.pc = "ended"]
           e == Interrupted(k)
<1>1. conn \in [Conn -> Socket] /\ db \in Rows /\ m \in Seq(Message)
  BY MsgType DEF TypeOK, Rows
<1> HIDE DEF m
<1>2. c \in [Conn -> Socket] /\ c[k].used = conn[k].used /\ (\A j \in Conn \ {k} : c[j] = conn[j])
      /\ c[k].down \in {conn[k].down, conn[k].down \o m}
  <2> DEFINE u == [conn[k] EXCEPT !.down = conn[k].down \o m]
  <2>1. u \in Socket /\ u.used = conn[k].used /\ u.down = conn[k].down \o m
    <3>1. conn[k] \in Socket /\ conn[k].down \o m \in Seq(Message)
      BY <1>1 DEF Socket
    <3>2. QED
      BY <3>1 DEF Socket
  <2>2. c = IF conn[k].open THEN [conn EXCEPT ![k] = u] ELSE conn
    BY <1>1 DEF Tells
  <2> HIDE DEF c, u
  <2>3. QED
    BY <1>1, <2>1, <2>2
<1> HIDE DEF c
<1>3. r \in Socket /\ ~r.open /\ r.up = <<>> /\ r.used = conn[k].used /\ r.down = c[k].down
  BY <1>2, Shut
<1>4. conn' = [c EXCEPT ![k] = r]
  BY <1>2 DEF NoRow, c, m
<1>5. thread' = [thread EXCEPT ![k] = t] /\ t \in Thread /\ thread \in [Conn -> Thread]
  BY DEF NoRow, NoThread, Thread, NoSession, TypeOK
<1> HIDE DEF r, t
<1>6. e \in Rows /\ e.added = db.added /\ e.given = db.given
      /\ \A i \in Input : e.row[i] = IF i = thread[k].session THEN "interrupted" ELSE db.row[i]
  <2>1. CASE thread[k].session = NoSession
    <3>1. \A i \in Input : i # NoSession
      BY BoundAssumption DEF Input, NoSession
    <3>2. QED
      BY <2>1, <3>1, <1>1 DEF Interrupted
  <2>2. CASE thread[k].session # NoSession
    BY <2>2, <1>1 DEF Interrupted, Rows
  <2>3. QED
    BY <2>1, <2>2
<1>7. db' = [e EXCEPT !.given = @ + 1]
  BY DEF NoRow
<1> HIDE DEF e
<1>8. db' \in Rows /\ db'.added = db.added /\ db'.given = db.given + 1 /\ db'.row = e.row
  BY <1>6, <1>7 DEF Rows
<1>9. Available(db) /\ UNCHANGED clientVars
  BY DEF NoRow
<1>10. Typed /\ Others(k)
  BY <1>2, <1>3, <1>4, <1>5, <1>8 DEF Typed, Others
<1>11. ~conn'[k].open /\ conn'[k].up = <<>> /\ conn'[k].used = conn[k].used /\ thread'[k] = [NoThread EXCEPT !.pc = "ended"]
  BY <1>2, <1>3, <1>4, <1>5 DEF t
<1>12. conn'[k].down \in {conn[k].down, Append(conn[k].down, Msg("START", db.given + 1))}
  <2>1. conn[k].down \in Seq(Message) /\ Msg("START", db.given + 1) \in Message
    BY <1>1, MsgType DEF Socket, Rows
  <2>2. conn[k].down \o m = Append(conn[k].down, Msg("START", db.given + 1))
    BY <2>1 DEF m
  <2>3. conn'[k].down = c[k].down
    BY <1>2, <1>3, <1>4
  <2>4. QED
    BY <1>2, <2>2, <2>3
<1>13. QED
  BY <1>6, <1>8, <1>9, <1>10, <1>11, <1>12 DEF Gone

LEMMA TakesOne ==
  ASSUME TypeOK, NEW k \in Conn, StatusRunning(k) \/ Report(k)
  PROVE  Takes(k) /\ UNCHANGED <<clientVars, faults>>
<1>1. conn[k].up # <<>> /\ thread[k].pc = "main"
  BY DEF StatusRunning, Report, Gets, Serves
<1>2. conn' = [conn EXCEPT ![k].up = Tail(@)] /\ db' = db /\ db \in Rows
  BY DEF StatusRunning, Report, Consumed, TypeOK
<1>3. thread \in [Conn -> Thread]
  BY DEF TypeOK
<1>4. /\ thread' \in [Conn -> Thread] /\ (\A j \in Conn \ {k} : thread'[j] = thread[j])
      /\ thread'[k].pc = thread[k].pc /\ thread'[k].session = thread[k].session
      /\ thread'[k].timer = thread[k].timer
  <2>1. CASE StatusRunning(k)
    BY <2>1, <1>3 DEF StatusRunning, Thread
  <2>2. CASE Report(k)
    BY <2>2, <1>3 DEF Report, Thread
  <2>3. QED
    BY <2>1, <2>2
<1>5. QED
  BY <1>1, <1>2, <1>4, ServedEffect DEF Takes, Typed, Others, StatusRunning, Report, clientVars, NoFault

LEMMA HookStarts ==
  ASSUME TypeOK, StreamInv, NEW k \in Conn, StatusIdle(k), thread[k].session # NoSession
  PROVE  Hooks(k)
<1>1. conn[k].up # <<>> /\ thread[k].pc = "main"
  BY DEF StatusIdle, Gets, Serves
<1>2. conn' = [conn EXCEPT ![k].up = Tail(@)]
  BY DEF StatusIdle, Consumed
<1>3. conn[k].up = <<Msg("STATUS", 0)>> /\ Tail(conn[k].up) = <<>>
  BY IdleIsLast DEF StatusIdle
<1>4. thread \in [Conn -> Thread] /\ thread' = [thread EXCEPT ![k].pc = "hook", ![k].running = FALSE]
  BY DEF TypeOK, StatusIdle
<1>5. thread' \in [Conn -> Thread] /\ (\A j \in Conn \ {k} : thread'[j] = thread[j])
      /\ thread'[k].pc = "hook" /\ thread'[k].session = thread[k].session /\ thread'[k].timer = thread[k].timer
  BY <1>4 DEF Thread
<1>6. db \in Rows /\ db' = [db EXCEPT !.row[thread[k].session] = "hook"]
  BY DEF TypeOK, StatusIdle
<1>7. db' \in Rows /\ db'.added = db.added /\ db'.given = db.given
      /\ \A i \in Input : db'.row[i] = IF i = thread[k].session THEN "hook" ELSE db.row[i]
  BY <1>6 DEF Rows
<1>8. QED
  BY <1>1, <1>2, <1>3, <1>5, <1>7, ServedEffect DEF Hooks, Typed, Others

LEMMA SendUrlLooks ==
  ASSUME TypeOK, NumberInv, NEW k \in Conn, NEW c \in [Conn -> Socket], NEW d \in Rows,
         SendUrl(k, c, d),
         \/ thread[k].pc = "hook"
         \/ thread[k].pc = "main" /\ thread[k].timer
         \/ thread[k].pc = "main" /\ conn[k].up = <<Msg("STATUS", 0)>> /\ thread[k].session = NoSession,
         \A j \in Conn \ {k} : c[j] = conn[j],
         c[k].up = <<>>, c[k].down = conn[k].down, c[k].open = conn[k].open, c[k].used = conn[k].used,
         d.added = db.added, d.given = db.given,
         \A i \in Input : /\ i # thread[k].session => d.row[i] = db.row[i]
                          /\ i = thread[k].session => d.row[i] \notin {"running", "hook"}
  PROVE  Looks(k)
<1>1. Available(d) = Available(db) /\ d.added <= MaxInputs /\ db.added \in Nat /\ db.given \in Nat
  BY DEF Available, NumberInv, TypeOK, Rows
<1>2. Available(db) => db.given + 1 \in Input
  BY <1>1, BoundAssumption DEF Available, Input, NumberInv
<1>3. ASSUME NEW i \in Input, ~(Available(db) /\ i = db.given + 1)
      PROVE  db'.row[i] = d.row[i]
  BY <1>1, <1>3, SendUrlEffect
<1>4. Available(db) => db'.row[db.given + 1] = "running"
  BY <1>1, <1>2, SendUrlEffect
<1>5. Typed /\ Others(k)
  BY <1>1, SendUrlEffect DEF Typed, Others
<1>6. /\ Available(db) =>
           /\ conn'[k].down = IF conn[k].open THEN Append(conn[k].down, Msg("START", db.given + 1)) ELSE conn[k].down
           /\ thread'[k].session = db.given + 1 /\ ~thread'[k].timer
           /\ db'.given = db.given + 1
      /\ ~Available(db) =>
           /\ conn'[k].down = conn[k].down
           /\ thread'[k].session = thread[k].session /\ thread'[k].timer
           /\ db'.given = db.given
  BY <1>1, SendUrlEffect
<1>7. conn'[k].up = <<>> /\ conn'[k].open = conn[k].open /\ conn'[k].used = conn[k].used
      /\ thread'[k].pc = "main" /\ db'.added = db.added
  BY <1>1, SendUrlEffect
<1>8. QED
  BY <1>3, <1>4, <1>5, <1>6, <1>7 DEF Looks

LEMMA NextUrlLooks ==
  ASSUME TypeOK, StreamInv, NumberInv, NEW k \in Conn,
         \/ StatusIdle(k) /\ thread[k].session = NoSession
         \/ HookDone(k)
         \/ TimerReached(k)
  PROVE  Looks(k)
<1>1. conn \in [Conn -> Socket] /\ db \in Rows
  BY DEF TypeOK
<1>2. \A i \in Input : i # NoSession
  BY BoundAssumption DEF Input, NoSession
<1>3. CASE StatusIdle(k) /\ thread[k].session = NoSession
  <2> DEFINE c == [conn EXCEPT ![k].up = Tail(@)]
  <2>1. conn[k].up = <<Msg("STATUS", 0)>> /\ Tail(conn[k].up) = <<>> /\ conn[k].up # <<>> /\ thread[k].pc = "main"
    BY <1>3, IdleIsLast DEF StatusIdle, Gets, Serves
  <2>2. ~thread[k].timer
    BY <2>1 DEF StreamInv
  <2>3. c \in [Conn -> Socket] /\ c[k].up = <<>> /\ c[k].down = conn[k].down
        /\ c[k].open = conn[k].open /\ c[k].used = conn[k].used
        /\ \A j \in Conn \ {k} : c[j] = conn[j]
    BY <2>1, ServedEffect
  <2>4. SendUrl(k, c, db)
    BY <1>3, <2>2 DEF StatusIdle, NextUrl
  <2> HIDE DEF c
  <2>5. QED
    BY <1>1, <1>2, <1>3, <2>1, <2>3, <2>4, SendUrlLooks
<1>4. CASE HookDone(k)
  <2> DEFINE d == [db EXCEPT !.row[thread[k].session] = "done"]
  <2>1. thread[k].pc = "hook" /\ ~thread[k].timer /\ conn[k].up = <<>>
    BY <1>4 DEF HookDone, StreamInv
  <2>2. d \in Rows /\ d.added = db.added /\ d.given = db.given
        /\ \A i \in Input : d.row[i] = IF i = thread[k].session THEN "done" ELSE db.row[i]
    BY <1>1 DEF Rows
  <2>3. SendUrl(k, conn, d)
    BY <1>4, <2>1 DEF HookDone, NextUrl
  <2> HIDE DEF d
  <2>4. QED
    BY <1>1, <2>1, <2>2, <2>3, SendUrlLooks
<1>5. CASE TimerReached(k)
  <2>1. thread[k].pc = "main" /\ thread[k].timer /\ conn[k].up = <<>>
    BY <1>5 DEF TimerReached, Serves, StreamInv
  <2>2. SendUrl(k, conn, db)
    BY <1>5 DEF TimerReached
  <2>3. ASSUME NEW i \in Input, i = thread[k].session
        PROVE  db.row[i] \notin {"running", "hook"}
    BY <1>2, <2>1, <2>3 DEF NumberInv
  <2>4. QED
    BY <1>1, <2>1, <2>2, <2>3, SendUrlLooks
<1>6. QED
  BY <1>3, <1>4, <1>5

(* All that happens at the thread of a slave.                                *)
AtSlave(k) == SlaveThread(k) \/ Killed(k) \/ NoRow(k) \/ NotStored(k)

LEMMA SlaveSteps ==
  ASSUME TypeOK, StreamInv, NumberInv, NEW k \in Conn, AtSlave(k)
  PROVE  /\ Gone(k) \/ Takes(k) \/ Hooks(k) \/ Looks(k)
         /\ UNCHANGED clientVars
         /\ faults' \subseteq {"late", "stop", "db", "kill", "cut"}
         /\ "late" \in faults' <=> "late" \in faults
<1>1. /\ NoFault \/ Fault("db") \/ Fault("kill") => faults' \subseteq {"late", "stop", "db", "kill", "cut"}
      /\ NoFault \/ Fault("db") \/ Fault("kill") => ("late" \in faults' <=> "late" \in faults)
  BY DEF NoFault, Fault, TypeOK
<1>2. CASE StatusRunning(k) \/ Report(k)
  BY <1>1, <1>2, TakesOne DEF StatusRunning, Report
<1>3. CASE StatusIdle(k)
  BY <1>1, <1>3, HookStarts, NextUrlLooks DEF StatusIdle
<1>4. CASE HookDone(k)
  BY <1>1, <1>4, NextUrlLooks DEF HookDone
<1>5. CASE TimerReached(k)
  BY <1>1, <1>5, NextUrlLooks DEF TimerReached
<1>6. CASE Refuse(k)
  BY <1>1, <1>6, EndsIsGone DEF Refuse, Serves
<1>7. CASE ClientGone(k)
  BY <1>1, <1>7, EndsIsGone DEF ClientGone, Serves
<1>8. CASE Killed(k)
  BY <1>1, <1>8, EndsIsGone DEF Killed, Serves
<1>9. CASE NotStored(k)
  BY <1>1, <1>9, EndsIsGone DEF NotStored, Serves
<1>10. CASE NoRow(k)
  <2>1. thread[k].pc \in {"main", "hook"}
    BY <1>10 DEF NoRow, AsksForUrl, Gets, Serves
  <2>2. Fault("db")
    BY <1>10 DEF NoRow
  <2>3. QED
    BY <1>1, <1>10, <2>1, <2>2, NoRowIsGone
<1>11. QED
  BY <1>2, <1>3, <1>4, <1>5, <1>6, <1>7, <1>8, <1>9, <1>10, AtSlave(k) DEF AtSlave, SlaveThread

-----------------------------------------------------------------------------
(* The thread of the slave preserves what is said of connections, streams,   *)
(* turns and sessions.                                                       *)
LEMMA InputsAndSessions ==
  ASSUME TypeOK, NumberInv, NEW k \in Conn
  PROVE  /\ NoSession \notin Input
         /\ thread[k].session # NoSession => thread[k].session \in Input
         /\ Available(db) => db.given + 1 \in Input
         /\ thread[k].session \in Nat /\ db.given \in Nat /\ thread[k].session <= db.given
<1>1. thread[k].session \in Nat /\ db.given \in Nat /\ db.added \in Nat
  BY DEF TypeOK, Thread, Rows
<1>2. thread[k].session <= db.given /\ db.given <= db.added /\ db.added <= MaxInputs
  BY DEF NumberInv
<1>3. QED
  BY <1>1, <1>2, BoundAssumption DEF Input, NoSession, Available

LEMMA MailKept ==
  ASSUME TypeOK, MailInv,
         \A k \in Conn :
           /\ \/ conn'[k].down \in {conn[k].down, <<>>}
              \/ conn'[k].down = Append(conn[k].down, Msg("START", db.given + 1))
           /\ mbc'.sock = k => mbc.sock = k /\ (mbc.state = "WAIT_TOKEN" => mbc'.state = "WAIT_TOKEN")
  PROVE  MailInv'
<1>1. SUFFICES ASSUME NEW k \in Conn, NEW p \in 1..Len(conn'[k].down), conn'[k].down[p].kind = "CONFIG"
               PROVE  p = 1 /\ (mbc'.sock = k => mbc'.state = "WAIT_TOKEN")
  BY DEF MailInv
<1> DEFINE q == conn[k].down
           m == Msg("START", db.given + 1)
<1>2. q \in Seq(Message) /\ m \in Message /\ m.kind = "START"
  <2>1. q \in Seq(Message) /\ db.given + 1 \in Nat
    BY DEF TypeOK, Socket, Rows
  <2>2. m \in Message
    BY <2>1, MsgType
  <2>3. m.kind = "START"
    BY DEF Msg
  <2>4. QED
    BY <2>1, <2>2, <2>3
<1>3. conn'[k].down \in {q, <<>>} \/ conn'[k].down = Append(q, m)
  OBVIOUS
<1> HIDE DEF q, m
<1>4. p \in 1..Len(q) /\ q[p].kind = "CONFIG"
  <2>1. CASE conn'[k].down = Append(q, m)
    <3>1. p \in 1..Len(q) \/ p = Len(q) + 1
      BY <1>1, <1>2, <2>1
    <3>2. Append(q, m)[Len(q) + 1] = m /\ \A n \in 1..Len(q) : Append(q, m)[n] = q[n]
      BY <1>2
    <3>3. QED
      BY <1>1, <1>2, <2>1, <3>1, <3>2
  <2>2. CASE conn'[k].down \in {q, <<>>}
    BY <1>1, <2>2
  <2>3. QED
    BY <1>3, <2>1, <2>2
<1>5. QED
  BY <1>4 DEF MailInv, q

LEMMA GoneKeeps ==
  ASSUME TypeOK, ThreadInv, NEW k \in Conn, Gone(k), UNCHANGED clientVars
  PROVE  ThreadInv'
<1>1. mbc' = mbc
  BY DEF clientVars
<1>2. thread'[k].pc = "ended" /\ thread'[k].session = NoSession /\ ~thread'[k].timer
  BY DEF Gone, NoThread
<1>3. \A j \in Conn \ {k} : conn'[j] = conn[j] /\ thread'[j] = thread[j]
  BY DEF Gone, Others
<1>4. ~conn'[k].open /\ conn'[k].up = <<>> /\ conn'[k].used = conn[k].used
  BY DEF Gone
<1>5. EndsInv'
  <2>1. conn[k].used
    BY DEF Gone, ThreadInv, EndsInv, NoThread
  <2>2. \A j \in Conn : ~conn'[j].used => ~conn'[j].open /\ thread'[j] = NoThread
    BY <1>3, <1>4, <2>1 DEF ThreadInv, EndsInv
  <2>3. QED
    BY <1>1, <1>2, <1>3, <1>4, <2>2 DEF ThreadInv, EndsInv
<1>6. StreamInv'
  BY <1>2, <1>3, <1>4 DEF ThreadInv, StreamInv
<1>7. TurnInv'
  BY <1>1, <1>3, <1>4 DEF ThreadInv, TurnInv, CrawlRuns
<1>8. NumberInv'
  <2>1. db'.given <= db'.added /\ db'.added <= MaxInputs /\ db'.given >= db.given
    BY InputsAndSessions DEF ThreadInv, NumberInv, Gone, Available, TypeOK, Rows
  <2>2. \A j \in Conn : thread'[j].session \in Nat /\ thread'[j].session <= db'.given
    <3>1. db'.given \in Nat /\ db.given \in Nat
      BY DEF Gone, Typed, Rows, TypeOK
    <3>2. ASSUME NEW j \in Conn, j # k
          PROVE  thread'[j].session \in Nat /\ thread'[j].session <= db'.given
      BY <1>3, <2>1, <3>1, <3>2, InputsAndSessions DEF ThreadInv
    <3>3. QED
      BY <1>2, <3>1, <3>2 DEF NoSession
  <2>3. \A i \in Input : i > db'.given => db'.row[i] = "none"
    <3>1. \A i \in Input : i > db'.given => i > db.given /\ i # thread[k].session
      BY <2>1, InputsAndSessions, BoundAssumption DEF ThreadInv, Gone, Typed, Rows, Input
    <3>2. QED
      BY <3>1 DEF ThreadInv, NumberInv, Gone
  <2>4. \A i, j \in Conn : thread'[i].session = thread'[j].session => i = j \/ thread'[j].session = NoSession
    BY <1>2, <1>3 DEF ThreadInv, NumberInv
  <2>5. ASSUME NEW j \in Conn, thread'[j].timer, thread'[j].session # NoSession
        PROVE  db'.row[thread'[j].session] \notin {"running", "hook"}
    <3>1. j # k /\ thread[j].timer /\ thread[j].session # NoSession /\ thread'[j] = thread[j]
      BY <1>2, <1>3, <2>5
    <3>2. thread[j].session \in Input
      BY <3>1, InputsAndSessions DEF ThreadInv
    <3>3. db.row[thread[j].session] \notin {"running", "hook"}
      BY <3>1 DEF ThreadInv, NumberInv
    <3>4. QED
      BY <3>1, <3>2, <3>3 DEF Gone
  <2>6. QED
    BY <2>1, <2>2, <2>3, <2>4, <2>5 DEF NumberInv
<1>9. RowsOwned'
  BY <1>3 DEF ThreadInv, RowsOwned, Gone
<1>10. MailInv'
  <2>1. \A j \in Conn : \/ conn'[j].down = conn[j].down
                       \/ conn'[j].down = Append(conn[j].down, Msg("START", db.given + 1))
    BY <1>3 DEF Gone
  <2>2. QED
    BY <1>1, <2>1, MailKept DEF ThreadInv
<1>11. QED
  BY <1>5, <1>6, <1>7, <1>8, <1>9, <1>10 DEF ThreadInv

LEMMA TakesKeeps ==
  ASSUME TypeOK, ThreadInv, NEW k \in Conn, Takes(k), UNCHANGED clientVars
  PROVE  ThreadInv'
<1>1. mbc' = mbc
  BY DEF clientVars
<1>2. /\ thread[k].pc = "main" /\ thread'[k].pc = "main"
      /\ thread'[k].session = thread[k].session /\ thread'[k].timer = thread[k].timer
  BY DEF Takes
<1>3. \A j \in Conn \ {k} : conn'[j] = conn[j] /\ thread'[j] = thread[j]
  BY DEF Takes, Others
<1>4. /\ conn'[k].open = conn[k].open /\ conn'[k].used = conn[k].used
      /\ conn'[k].down = conn[k].down
  BY DEF Takes
<1>5. /\ Len(conn'[k].up) = Len(conn[k].up) - 1 /\ Len(conn[k].up) \in Nat /\ conn[k].up # <<>>
      /\ \A p \in 1..Len(conn'[k].up) : conn'[k].up[p] = conn[k].up[p + 1] /\ p + 1 \in 1..Len(conn[k].up)
  <2> DEFINE q == conn[k].up
  <2>1. q \in Seq(Message) /\ q # <<>> /\ conn'[k].up = Tail(q)
    BY DEF TypeOK, Socket, Takes
  <2> HIDE DEF q
  <2>2. QED
    BY <2>1, HeadOf DEF q
<1>6. EndsInv'
  <2>1. conn[k].used
    BY <1>2 DEF ThreadInv, EndsInv, NoThread
  <2>2. \A j \in Conn : ~conn'[j].used => ~conn'[j].open /\ thread'[j] = NoThread
    BY <1>3, <1>4, <2>1 DEF ThreadInv, EndsInv
  <2>3. QED
    BY <1>1, <1>2, <1>3, <1>4, <2>2 DEF ThreadInv, EndsInv
<1>7. StreamInv'
  <2>1. ~thread[k].timer
    BY <1>5 DEF ThreadInv, StreamInv
  <2>2. ASSUME NEW p \in 1..Len(conn'[k].up)
        PROVE  /\ conn'[k].up[p] = Msg("STATUS", 0) => p = Len(conn'[k].up)
               /\ conn'[k].up[p].kind # "STATUS" => conn'[k].up[p].arg = thread'[k].session
    <3>1. conn'[k].up[p] = conn[k].up[p + 1] /\ p + 1 \in 1..Len(conn[k].up)
      BY <1>5
    <3>2. /\ conn[k].up[p + 1] = Msg("STATUS", 0) => p + 1 = Len(conn[k].up)
          /\ conn[k].up[p + 1].kind # "STATUS" => conn[k].up[p + 1].arg = thread[k].session
      BY <3>1 DEF ThreadInv, StreamInv
    <3>3. QED
      BY <1>2, <1>5, <3>1, <3>2
  <2>3. QED
    BY <1>2, <1>3, <2>1, <2>2 DEF ThreadInv, StreamInv
<1>8. TurnInv'
  <2>1. conn[k].open => conn[k].down = <<>>
    BY <1>5 DEF ThreadInv, TurnInv
  <2>2. conn[k].open /\ CrawlRuns =>
          /\ thread'[k].session = mbc.work /\ ~thread'[k].timer
          /\ \A p \in 1..Len(conn'[k].up) : conn'[k].up[p] # Msg("STATUS", 0)
    BY <1>2, <1>5 DEF ThreadInv, TurnInv
  <2>3. QED
    BY <1>1, <1>2, <1>3, <1>4, <2>1, <2>2 DEF ThreadInv, TurnInv, CrawlRuns
<1>9. NumberInv' /\ RowsOwned'
  BY <1>2, <1>3 DEF ThreadInv, NumberInv, RowsOwned, Takes
<1>10. MailInv'
  <2>1. \A j \in Conn : \/ conn'[j].down = conn[j].down
                       \/ conn'[j].down = Append(conn[j].down, Msg("START", db.given + 1))
    BY <1>3, <1>4
  <2>2. QED
    BY <1>1, <2>1, MailKept DEF ThreadInv
<1>11. QED
  BY <1>6, <1>7, <1>8, <1>9, <1>10 DEF ThreadInv

LEMMA HooksKeeps ==
  ASSUME TypeOK, ThreadInv, NEW k \in Conn, Hooks(k), UNCHANGED clientVars
  PROVE  ThreadInv'
<1>1. mbc' = mbc
  BY DEF clientVars
<1>2. /\ thread[k].pc = "main" /\ thread'[k].pc = "hook" /\ thread[k].session # NoSession
      /\ thread'[k].session = thread[k].session /\ thread'[k].timer = thread[k].timer
  BY DEF Hooks
<1>3. \A j \in Conn \ {k} : conn'[j] = conn[j] /\ thread'[j] = thread[j]
  BY DEF Hooks, Others
<1>4. /\ conn'[k].open = conn[k].open /\ conn'[k].used = conn[k].used
      /\ conn'[k].down = conn[k].down /\ conn'[k].up = <<>>
  BY DEF Hooks
<1>5. conn[k].up # <<>> /\ conn[k].up[1] = Msg("STATUS", 0) /\ 1 \in 1..Len(conn[k].up)
  BY DEF Hooks
<1>6. EndsInv'
  <2>1. conn[k].used
    BY <1>2 DEF ThreadInv, EndsInv, NoThread
  <2>2. \A j \in Conn : ~conn'[j].used => ~conn'[j].open /\ thread'[j] = NoThread
    BY <1>3, <1>4, <2>1 DEF ThreadInv, EndsInv
  <2>3. QED
    BY <1>1, <1>2, <1>3, <1>4, <2>2 DEF ThreadInv, EndsInv
<1>7. StreamInv'
  BY <1>2, <1>3, <1>4, <1>5 DEF ThreadInv, StreamInv
<1>8. TurnInv'
  BY <1>1, <1>2, <1>3, <1>4, <1>5 DEF ThreadInv, TurnInv, CrawlRuns
<1>9. NumberInv'
  <2>1. ~thread[k].timer
    BY <1>5 DEF ThreadInv, StreamInv
  <2>2. QED
    BY <1>2, <1>3, <2>1, InputsAndSessions DEF ThreadInv, NumberInv, Hooks
<1>10. RowsOwned'
  BY <1>2, <1>3 DEF ThreadInv, RowsOwned, Hooks
<1>11. MailInv'
  <2>1. \A j \in Conn : \/ conn'[j].down = conn[j].down
                       \/ conn'[j].down = Append(conn[j].down, Msg("START", db.given + 1))
    BY <1>3, <1>4
  <2>2. QED
    BY <1>1, <2>1, MailKept DEF ThreadInv
<1>12. QED
  BY <1>6, <1>7, <1>8, <1>9, <1>10, <1>11 DEF ThreadInv

LEMMA LooksKeeps ==
  ASSUME TypeOK, ThreadInv, NEW k \in Conn, Looks(k), UNCHANGED clientVars
  PROVE  ThreadInv'
<1>1. mbc' = mbc
  BY DEF clientVars
<1>2. \A j \in Conn \ {k} : conn'[j] = conn[j] /\ thread'[j] = thread[j]
  BY DEF Looks, Others
<1>3. /\ conn'[k].open = conn[k].open /\ conn'[k].used = conn[k].used /\ conn'[k].up = <<>>
      /\ thread[k].pc \in {"main", "hook"} /\ thread'[k].pc = "main"
  BY DEF Looks
<1>4. conn[k].open => /\ ~CrawlRuns
                      /\ thread[k].pc = "hook" \/ thread[k].timer \/ conn[k].up # <<>>
                      /\ conn[k].down = <<>>
  <2>1. conn[k].up = <<Msg("STATUS", 0)>> => conn[k].up # <<>> /\ conn[k].up[1] = Msg("STATUS", 0) /\ 1 \in 1..Len(conn[k].up)
    OBVIOUS
  <2>2. thread[k].pc = "hook" \/ thread[k].timer \/ conn[k].up = <<Msg("STATUS", 0)>>
    BY DEF Looks
  <2>3. QED
    BY <2>1, <2>2 DEF ThreadInv, TurnInv
<1>5. \/ Available(db) /\ thread'[k].session = db.given + 1 /\ ~thread'[k].timer /\ db'.given = db.given + 1
      \/ ~Available(db) /\ thread'[k].session = thread[k].session /\ thread'[k].timer /\ db'.given = db.given
  BY DEF Looks
<1>6. EndsInv'
  <2>1. conn[k].used
    BY <1>3 DEF ThreadInv, EndsInv, NoThread
  <2>2. \A j \in Conn : ~conn'[j].used => ~conn'[j].open /\ thread'[j] = NoThread
    BY <1>2, <1>3, <2>1 DEF ThreadInv, EndsInv
  <2>3. QED
    BY <1>1, <1>2, <1>3, <2>2 DEF ThreadInv, EndsInv
<1>7. StreamInv'
  BY <1>2, <1>3 DEF ThreadInv, StreamInv
<1>8. TurnInv'
  <2>1. ASSUME conn'[k].open, Available(db)
        PROVE  conn'[k].down = <<Msg("START", db.given + 1)>> /\ thread'[k].session = db.given + 1 /\ ~thread'[k].timer
    BY <1>3, <1>4, <2>1 DEF Looks
  <2>2. ASSUME conn'[k].open, ~Available(db)
        PROVE  conn'[k].down = <<>>
    BY <1>3, <1>4, <2>2 DEF Looks
  <2>3. ASSUME conn'[k].open
        PROVE  /\ ~CrawlRuns
               /\ conn'[k].down # <<>> =>
                    /\ Len(conn'[k].down) = 1 /\ ~thread'[k].timer
                    /\ Head(conn'[k].down).arg = thread'[k].session
    <3>1. Msg("START", db.given + 1).arg = db.given + 1
      BY DEF Msg
    <3>2. CASE Available(db)
      <4>1. Len(conn'[k].down) = 1 /\ Head(conn'[k].down) = Msg("START", db.given + 1)
        BY <2>1, <2>3, <3>2
      <4>2. QED
        BY <1>3, <1>4, <2>1, <2>3, <3>1, <3>2, <4>1
    <3>3. CASE ~Available(db)
      BY <1>3, <1>4, <2>2, <2>3, <3>3
    <3>4. QED
      BY <3>2, <3>3
  <2>4. QED
    BY <1>1, <1>2, <1>3, <2>3 DEF ThreadInv, TurnInv, CrawlRuns
<1>9. NumberInv'
  <2>1. db.given \in Nat /\ db.added \in Nat /\ db'.added = db.added /\ db'.given \in Nat /\ db'.given >= db.given
        /\ db'.given <= db'.added /\ db'.added <= MaxInputs
    BY <1>5 DEF ThreadInv, NumberInv, Looks, Available, TypeOK, Rows
  <2>2. \A j \in Conn : thread[j].session \in Nat /\ thread[j].session <= db.given
    BY InputsAndSessions DEF ThreadInv
  <2>3. \A j \in Conn : thread'[j].session <= db'.given
    BY <1>2, <1>5, <2>1, <2>2
  <2>4. \A i \in Input : i > db'.given => db'.row[i] = "none"
    <3>1. \A i \in Input : i \in Nat
      BY DEF Input
    <3>2. ASSUME NEW i \in Input, i > db'.given
          PROVE  i > db.given /\ i # thread[k].session /\ ~(Available(db) /\ i = db.given + 1)
      <4>1. i \in Nat /\ thread[k].session <= db.given /\ thread[k].session \in Nat
        BY <3>1, <2>2
      <4>2. Available(db) => i # db.given + 1
        BY <1>5, <2>1, <3>2, <4>1
      <4>3. QED
        BY <4>1, <4>2, <2>1, <3>2
    <3>3. QED
      BY <3>2 DEF ThreadInv, NumberInv, Looks
  <2>5. \A i, j \in Conn : thread'[i].session = thread'[j].session => i = j \/ thread'[j].session = NoSession
    <3>1. \A j \in Conn : thread[j].session # db.given + 1
      BY <2>1, <2>2
    <3>2. QED
      BY <1>2, <1>5, <3>1 DEF ThreadInv, NumberInv
  <2>6. ASSUME NEW j \in Conn, thread'[j].timer, thread'[j].session # NoSession
        PROVE  db'.row[thread'[j].session] \notin {"running", "hook"}
    <3>1. thread'[j].session = thread[j].session /\ thread[j].session # db.given + 1 /\ thread[j].session \in Input
      BY <1>2, <1>5, <2>1, <2>2, <2>6, InputsAndSessions DEF ThreadInv
    <3>2. CASE j = k
      BY <3>1, <3>2 DEF Looks
    <3>3. CASE j # k
      <4>1. thread[j].session # thread[k].session /\ thread[j].timer
        BY <1>2, <2>6, <3>1, <3>3 DEF ThreadInv, NumberInv
      <4>2. db.row[thread[j].session] \notin {"running", "hook"}
        BY <2>6, <3>1, <4>1 DEF ThreadInv, NumberInv
      <4>3. QED
        BY <3>1, <4>1, <4>2 DEF Looks
    <3>4. QED
      BY <3>2, <3>3
  <2>7. QED
    BY <2>1, <2>3, <2>4, <2>5, <2>6 DEF NumberInv
<1>10. RowsOwned'
  <2>1. SUFFICES ASSUME NEW i \in Input, db'.row[i] \in {"running", "hook"}
                 PROVE  \E j \in Conn : thread'[j].pc \in {"main", "hook"} /\ thread'[j].session = i
    BY DEF RowsOwned
  <2>2. CASE i = db.given + 1 /\ Available(db)
    BY <1>3, <1>5, <2>2
  <2>3. CASE ~(i = db.given + 1 /\ Available(db))
    <3>1. i # thread[k].session /\ db.row[i] \in {"running", "hook"}
      BY <2>1, <2>3 DEF Looks
    <3>2. PICK j \in Conn : thread[j].pc \in {"main", "hook"} /\ thread[j].session = i
      BY <3>1 DEF ThreadInv, RowsOwned
    <3>3. QED
      BY <1>2, <3>1, <3>2
  <2>4. QED
    BY <2>2, <2>3
<1>11. MailInv'
  <2>1. \A j \in Conn : \/ conn'[j].down = conn[j].down
                       \/ conn'[j].down = Append(conn[j].down, Msg("START", db.given + 1))
    BY <1>2 DEF Looks
  <2>2. QED
    BY <1>1, <2>1, MailKept DEF ThreadInv
<1>12. QED
  BY <1>6, <1>7, <1>8, <1>9, <1>10, <1>11 DEF ThreadInv

-----------------------------------------------------------------------------
(* The client preserves it, too: it closes its socket or does nothing to it, *)
(* sends while its crawl runs, or answers an idle slave.                     *)
LEMMA ClosesKeeps ==
  ASSUME TypeOK, ThreadInv, thread' = thread,
         db'.given = db.given, db'.row = db.row, db'.given <= db'.added, db'.added <= MaxInputs,
         \A k \in Conn :
           /\ conn'[k].used = conn[k].used /\ conn'[k].up \in {conn[k].up, <<>>}
           /\ conn'[k].down \in {conn[k].down, <<>>}
           /\ mbc'.sock = k => mbc.sock = k /\ (mbc.state = "WAIT_TOKEN" => mbc'.state = "WAIT_TOKEN")
           /\ conn'[k].open => /\ conn'[k] = conn[k]
                              /\ mbc'.sock = mbc.sock /\ mbc'.then # "lost" /\ mbc'.work = mbc.work
                              /\ CrawlRuns' = CrawlRuns
  PROVE  ThreadInv'
<1>1. EndsInv'
  BY DEF ThreadInv, EndsInv
<1>2. StreamInv'
  <2>1. ASSUME NEW k \in Conn, conn'[k].up = conn[k].up
        PROVE  /\ \A p \in 1..Len(conn'[k].up) :
                    /\ conn'[k].up[p] = Msg("STATUS", 0) => p = Len(conn'[k].up)
                    /\ conn'[k].up[p].kind # "STATUS" => conn'[k].up[p].arg = thread[k].session
               /\ thread[k].pc = "hook" \/ thread[k].timer => conn'[k].up = <<>>
               /\ thread[k].pc = "hook" => ~thread[k].timer /\ thread[k].session # NoSession
    BY <2>1 DEF ThreadInv, StreamInv
  <2>2. ASSUME NEW k \in Conn, conn'[k].up = <<>>
        PROVE  /\ \A p \in 1..Len(conn'[k].up) :
                    /\ conn'[k].up[p] = Msg("STATUS", 0) => p = Len(conn'[k].up)
                    /\ conn'[k].up[p].kind # "STATUS" => conn'[k].up[p].arg = thread[k].session
               /\ thread[k].pc = "hook" => ~thread[k].timer /\ thread[k].session # NoSession
    BY <2>2 DEF ThreadInv, StreamInv
  <2>3. QED
    BY <2>1, <2>2 DEF StreamInv
<1>3. TurnInv'
  BY DEF ThreadInv, TurnInv
<1>4. NumberInv'
  BY DEF ThreadInv, NumberInv
<1>5. RowsOwned'
  BY DEF ThreadInv, RowsOwned
<1>6. MailInv'
  BY MailKept DEF ThreadInv
<1>7. QED
  BY <1>1, <1>2, <1>3, <1>4, <1>5, <1>6 DEF ThreadInv

(* What two queues, one after the other, have at a place.                    *)
LEMMA Appended ==
  ASSUME NEW q \in Seq(Message), NEW m \in Seq(Message), NEW p \in 1..Len(q \o m)
  PROVE  /\ Len(q \o m) = Len(q) + Len(m) /\ Len(q) \in Nat /\ Len(m) \in Nat /\ p \in Nat
         /\ \/ p \in 1..Len(q) /\ (q \o m)[p] = q[p]
            \/ p - Len(q) \in 1..Len(m) /\ (q \o m)[p] = m[p - Len(q)]
OBVIOUS

LEMMA SaysKeeps ==
  ASSUME TypeOK, ThreadInv, NEW m \in Seq(Message), conn' = Says(m), UNCHANGED <<thread, db>>,
         CrawlRuns, mbc'.state = mbc.state, mbc'.sock = mbc.sock, mbc'.work = mbc.work, mbc'.then # "lost",
         \A p \in 1..Len(m) :
            /\ m[p] = Msg("STATUS", 0) => p = Len(m) /\ ~CrawlRuns'
            /\ m[p].kind # "STATUS" => m[p].arg = mbc.work
  PROVE  ThreadInv'
<1>1. /\ conn' \in [Conn -> Socket]
      /\ \A k \in Conn :
           /\ conn'[k].open = conn[k].open /\ conn'[k].used = conn[k].used
           /\ conn'[k].down = conn[k].down
           /\ conn'[k].up = IF mbc.sock = k /\ conn[k].open THEN conn[k].up \o m ELSE conn[k].up
  BY SaysEffect
<1>2. EndsInv' /\ NumberInv' /\ RowsOwned'
  BY <1>1 DEF ThreadInv, EndsInv, NumberInv, RowsOwned
<1>3. ASSUME NEW k \in Conn, conn[k].open
      PROVE  /\ mbc.sock = k /\ thread[k].session = mbc.work /\ thread[k].pc = "main" /\ ~thread[k].timer
             /\ conn[k].down = <<>> /\ conn[k].up \in Seq(Message)
             /\ \A p \in 1..Len(conn[k].up) : conn[k].up[p] # Msg("STATUS", 0)
             /\ conn'[k].up = conn[k].up \o m
  BY <1>1, <1>3 DEF ThreadInv, EndsInv, TurnInv, TypeOK, Socket
<1>4. ASSUME NEW k \in Conn, conn[k].open, NEW p \in 1..Len(conn'[k].up)
      PROVE  /\ conn'[k].up[p] = Msg("STATUS", 0) => p = Len(conn'[k].up) /\ ~CrawlRuns'
             /\ conn'[k].up[p].kind # "STATUS" => conn'[k].up[p].arg = thread[k].session
  <2> DEFINE q == conn[k].up
  <2>1. q \in Seq(Message) /\ conn'[k].up = q \o m /\ thread[k].session = mbc.work
    BY <1>3, <1>4
  <2>2. \A i \in 1..Len(q) : q[i] # Msg("STATUS", 0) /\ (q[i].kind # "STATUS" => q[i].arg = mbc.work)
    BY <1>3, <1>4 DEF ThreadInv, StreamInv
  <2> HIDE DEF q
  <2>3. CASE p \in 1..Len(q) /\ (q \o m)[p] = q[p]
    BY <2>1, <2>2, <2>3
  <2>4. CASE p - Len(q) \in 1..Len(m) /\ (q \o m)[p] = m[p - Len(q)]
    <3>1. Len(q \o m) = Len(q) + Len(m) /\ Len(q) \in Nat /\ Len(m) \in Nat /\ p \in Nat
      BY <1>4, <2>1, Appended
    <3>2. /\ m[p - Len(q)] = Msg("STATUS", 0) => p - Len(q) = Len(m) /\ ~CrawlRuns'
          /\ m[p - Len(q)].kind # "STATUS" => m[p - Len(q)].arg = mbc.work
      BY <2>4
    <3>3. p - Len(q) = Len(m) => p = Len(q \o m)
      BY <3>1
    <3>4. QED
      BY <2>1, <2>4, <3>2, <3>3
  <2>5. QED
    BY <1>4, <2>1, <2>3, <2>4, Appended
<1>5. StreamInv'
  <2>1. ASSUME NEW k \in Conn, ~conn[k].open
        PROVE  conn'[k].up = conn[k].up
    BY <1>1, <2>1
  <2>2. ASSUME NEW k \in Conn, conn[k].open
        PROVE  thread[k].pc = "main" /\ ~thread[k].timer
    BY <1>3, <2>2
  <2>3. QED
    BY <1>4, <2>1, <2>2 DEF ThreadInv, StreamInv
<1>6. TurnInv'
  BY <1>1, <1>3, <1>4 DEF TurnInv
<1>7. MailInv'
  BY <1>1, MailKept DEF ThreadInv
<1>8. QED
  BY <1>2, <1>5, <1>6, <1>7 DEF ThreadInv

LEMMA AnswerKeeps ==
  ASSUME TypeOK, ThreadInv, NEW x \in {0, 1}, mbc.sock \in Conn, conn[mbc.sock].down # <<>>,
         conn' = Answer(<<Msg("STATUS", x)>>), UNCHANGED <<thread, db>>,
         mbc'.sock = mbc.sock, mbc'.then # "lost",
         CrawlRuns' => /\ x = 1 /\ Head(conn[mbc.sock].down).kind = "START"
                       /\ mbc'.work = Head(conn[mbc.sock].down).arg
  PROVE  ThreadInv'
<1> DEFINE m == <<Msg("STATUS", x)>>
<1>0. m \in Seq(Message) /\ Len(m) = 1 /\ m[1] = Msg("STATUS", x) /\ m[1].kind = "STATUS"
  <2>1. Msg("STATUS", x) \in Message
    BY MsgType
  <2>2. Msg("STATUS", x).kind = "STATUS"
    BY DEF Msg
  <2>3. QED
    BY <2>1, <2>2
<1>1. /\ conn' \in [Conn -> Socket]
      /\ \A k \in Conn :
           /\ conn'[k].open = conn[k].open /\ conn'[k].used = conn[k].used
           /\ conn'[k].down = IF mbc.sock = k THEN Tail(conn[k].down) ELSE conn[k].down
           /\ conn'[k].up = IF mbc.sock = k /\ conn[k].open THEN conn[k].up \o m ELSE conn[k].up
  BY <1>0, AnswerEffect
<1> HIDE DEF m
<1>2. EndsInv' /\ NumberInv' /\ RowsOwned'
  BY <1>1 DEF ThreadInv, EndsInv, NumberInv, RowsOwned
<1>3. ASSUME NEW k \in Conn, conn[k].open
      PROVE  /\ mbc.sock = k /\ thread[k].pc = "main" /\ ~thread[k].timer
             /\ Head(conn[k].down).kind = "START" => Head(conn[k].down).arg = thread[k].session
             /\ conn'[k].down = <<>> /\ conn'[k].up = m
  <2>1. mbc.sock = k /\ conn[k].up = <<>> /\ Len(conn[k].down) = 1 /\ conn[k].down \in Seq(Message)
    BY <1>3 DEF ThreadInv, EndsInv, TurnInv, TypeOK, Socket
  <2>2. Tail(conn[k].down) = <<>>
    <3> DEFINE q == conn[k].down
    <3>1. q \in Seq(Message) /\ Len(q) = 1 /\ q # <<>>
      BY <2>1
    <3> HIDE DEF q
    <3>2. QED
      BY <3>1, HeadOf DEF q
  <2>3. <<>> \o m = m
    BY <1>0
  <2>4. /\ thread[k].pc = "main" /\ ~thread[k].timer
        /\ Head(conn[k].down).kind = "START" => Head(conn[k].down).arg = thread[k].session
    <3>1. conn[k].down # <<>>
      BY <2>1
    <3>2. QED
      BY <1>3, <3>1 DEF ThreadInv, TurnInv
  <2>5. conn'[k].up = conn[k].up \o m /\ conn'[k].down = Tail(conn[k].down)
    <3>1. mbc.sock = k
      BY <2>1
    <3>2. /\ conn'[k].down = IF mbc.sock = k THEN Tail(conn[k].down) ELSE conn[k].down
          /\ conn'[k].up = IF mbc.sock = k /\ conn[k].open THEN conn[k].up \o m ELSE conn[k].up
      BY <1>1, Zenon
    <3>3. QED
      BY <1>3, <3>1, <3>2, Zenon
  <2>6. conn'[k].up = m
    BY <2>1, <2>3, <2>5, Zenon
  <2>7. conn'[k].down = <<>>
    BY <2>2, <2>5, Zenon
  <2>8. QED
    BY <2>1, <2>4, <2>6, <2>7
<1>4. StreamInv'
  <2>1. ASSUME NEW k \in Conn, ~conn[k].open
        PROVE  conn'[k].up = conn[k].up
    BY <1>1, <2>1
  <2>2. ASSUME NEW k \in Conn, conn[k].open
        PROVE  /\ thread[k].pc = "main" /\ ~thread[k].timer
               /\ \A p \in 1..Len(conn'[k].up) :
                     p = Len(conn'[k].up) /\ conn'[k].up[p].kind = "STATUS"
    <3>1. conn'[k].up = m /\ thread[k].pc = "main" /\ ~thread[k].timer
      BY <1>3, <2>2
    <3>2. \A p \in 1..Len(m) : p = 1
      BY <1>0
    <3>3. QED
      BY <1>0, <3>1, <3>2
  <2>3. QED
    BY <2>1, <2>2 DEF ThreadInv, StreamInv
<1>5. TurnInv'
  <2>1. Msg("STATUS", 1) # Msg("STATUS", 0)
    BY DEF Msg
  <2>2. ASSUME NEW k \in Conn, conn[k].open, CrawlRuns'
        PROVE  /\ thread[k].session = mbc'.work
               /\ \A p \in 1..Len(conn'[k].up) : conn'[k].up[p] # Msg("STATUS", 0)
    BY <1>0, <1>3, <2>1, <2>2
  <2>3. QED
    BY <1>1, <1>3, <2>2 DEF TurnInv
<1>6. MailInv'
  <2>1. SUFFICES ASSUME NEW k \in Conn, NEW p \in 1..Len(conn'[k].down), conn'[k].down[p].kind = "CONFIG"
                 PROVE  p = 1 /\ (mbc.sock = k => FALSE)
    BY DEF MailInv
  <2> DEFINE q == conn[k].down
  <2>2. CASE mbc.sock = k
    <3>1. q \in Seq(Message) /\ q # <<>> /\ conn'[k].down = Tail(q)
      BY <1>1, <2>2 DEF TypeOK, Socket
    <3>2. \A n \in 1..Len(q) : q[n].kind = "CONFIG" => n = 1
      BY DEF ThreadInv, MailInv
    <3> HIDE DEF q
    <3>3. p \in 1..Len(Tail(q)) /\ Tail(q)[p].kind = "CONFIG"
      BY <2>1, <3>1
    <3>4. q[p + 1].kind = "CONFIG" /\ p + 1 \in 1..Len(q)
      BY <3>1, <3>3, HeadOf
    <3>5. QED
      BY <3>2, <3>3, <3>4
  <2>3. CASE mbc.sock # k
    <3>1. conn'[k].down = q
      BY <1>1, <2>3
    <3>2. QED
      BY <2>1, <2>3, <3>1 DEF ThreadInv, MailInv
  <2>4. QED
    BY <2>2, <2>3
<1>7. QED
  BY <1>2, <1>4, <1>5, <1>6 DEF ThreadInv

LEMMA LogOnKeeps ==
  ASSUME TypeOK, MainInv, ThreadInv, NEW k \in Conn, LogOn(k)
  PROVE  ThreadInv' /\ conn' \in [Conn -> Socket] /\ thread' \in [Conn -> Thread]
<1> DEFINE m == <<Msg("CONFIG", 0)>>
           r == [open |-> TRUE, up |-> <<>>, down |-> m, used |-> TRUE]
           t == [NoThread EXCEPT !.pc = "main"]
<1>1. conn \in [Conn -> Socket] /\ thread \in [Conn -> Thread] /\ db' = db
  BY DEF TypeOK, LogOn
<1>2. m \in Seq(Message) /\ Len(m) = 1 /\ Head(m) = Msg("CONFIG", 0) /\ Head(m).kind = "CONFIG" /\ m # <<>>
  <2>1. Msg("CONFIG", 0) \in Message
    BY MsgType
  <2>2. Msg("CONFIG", 0).kind = "CONFIG"
    BY DEF Msg
  <2>3. QED
    BY <2>1, <2>2
<1> HIDE DEF m
<1>3. r \in Socket /\ r.open /\ r.up = <<>> /\ r.down = m /\ r.used
  BY <1>2 DEF Socket
<1>4. thread[k] = NoThread /\ \A j \in Conn : ~conn[j].open
  BY Sockets DEF LogOn, ThreadInv, EndsInv
<1>5. t \in Thread /\ t.pc = "main" /\ t.session = NoSession /\ ~t.timer
  BY DEF NoThread, Thread, NoSession
<1>6. conn' = [conn EXCEPT ![k] = r]
  BY DEF LogOn, m
<1>7. thread' = [thread EXCEPT ![k] = t]
  BY <1>1, <1>4 DEF LogOn
<1> HIDE DEF r, t
<1>8. /\ conn' \in [Conn -> Socket] /\ thread' \in [Conn -> Thread]
      /\ conn'[k] = r /\ thread'[k] = t
      /\ \A j \in Conn \ {k} : conn'[j] = conn[j] /\ thread'[j] = thread[j] /\ ~conn'[j].open
  BY <1>1, <1>3, <1>4, <1>5, <1>6, <1>7
<1>9. mbc'.sock = k /\ mbc'.then # "lost" /\ ~CrawlRuns'
  BY DEF LogOn, Loop, MainInv, CrawlRuns, TypeOK, Main
<1>10. thread[k].session = NoSession /\ ~thread[k].timer
  BY <1>4 DEF NoThread
<1>11. EndsInv'
  BY <1>3, <1>5, <1>8, <1>9 DEF ThreadInv, EndsInv
<1>12. StreamInv'
  BY <1>3, <1>5, <1>8 DEF ThreadInv, StreamInv
<1>13. TurnInv'
  BY <1>2, <1>3, <1>5, <1>8, <1>9 DEF TurnInv
<1>14. NumberInv'
  <2>1. \A j \in Conn : thread'[j].session = thread[j].session /\ thread'[j].timer = thread[j].timer
    <3>1. thread'[k].session = thread[k].session /\ thread'[k].timer = FALSE /\ thread[k].timer = FALSE
      BY <1>1, <1>5, <1>8, <1>10 DEF Thread
    <3>2. QED
      BY <1>8, <3>1
  <2>2. QED
    BY <1>1, <2>1 DEF ThreadInv, NumberInv
<1>15. RowsOwned'
  <2>1. \A j \in Conn : thread'[j].session = thread[j].session /\ (thread[j].pc \in {"main", "hook"} => thread'[j].pc \in {"main", "hook"})
    BY <1>5, <1>8, <1>10
  <2>2. QED
    BY <1>1, <2>1 DEF ThreadInv, RowsOwned
<1>16. MailInv'
  <2>1. Len(conn'[k].down) = 1 /\ mbc'.state = "WAIT_TOKEN"
    BY <1>2, <1>3, <1>8 DEF LogOn, TypeOK, Main
  <2>2. QED
    BY <1>8, <1>9, <2>1 DEF ThreadInv, MailInv
<1>17. QED
  BY <1>8, <1>11, <1>12, <1>13, <1>14, <1>15, <1>16 DEF ThreadInv

-----------------------------------------------------------------------------
(* The steps of the client.                                                  *)
FaultsGrow ==
    /\ faults' \subseteq {"late", "stop", "db", "kill", "cut"}
    /\ "late" \in faults => "late" \in faults'

LEMMA GrowingFaults ==
  ASSUME TypeOK, NoFault \/ \E kind \in {"late", "stop", "db", "kill", "cut"} : Fault(kind)
  PROVE  FaultsGrow
BY DEF TypeOK, NoFault, Fault, FaultsGrow

LEMMA Bounded ==
  ASSUME ThreadInv
  PROVE  db.given <= db.added /\ db.added <= MaxInputs
BY DEF ThreadInv, NumberInv

LEMMA EndsWithKeeps ==
  ASSUME IInv, EndsWith(conn), FaultsGrow, UNCHANGED <<thread, db>>
  PROVE  IInv'
<1>1. TypeOK'
  BY EndsWithEffect, ClosedEffect DEF IInv, TypeOK, FaultsGrow
<1>2. LibInv'
  BY EndsWithEffect DEF IInv, LibInv
<1>3. MainInv'
  BY EndsWithEffect DEF IInv, MainInv
<1>4. ThreadInv'
  <2>1. \A k \in Conn : /\ conn'[k].used = conn[k].used /\ conn'[k].up = conn[k].up /\ ~conn'[k].open
                        /\ conn'[k].down \in {conn[k].down, <<>>}
    BY EndsWithEffect, ClosedEffect DEF IInv, ThreadInv, EndsInv
  <2>2. mbc'.sock \notin Conn
    BY EndsWithEffect, Sockets DEF IInv
  <2>3. QED
    BY <2>1, <2>2, ClosesKeeps, Bounded DEF IInv
<1>5. PipeInv'
  <2>1. Nothing' /\ mbc'.state = "ENDED" /\ mbc'.at = "loop"
    BY EndsWithEffect DEF Nothing, IInv
  <2>2. QED
    BY <2>1 DEF PipeInv
<1>6. QED
  BY <1>1, <1>2, <1>3, <1>4, <1>5 DEF IInv

(* Steps of the main thread between the crawls.                              *)
LEMMA BetweenKeeps ==
  ASSUME IInv, StartAgain \/ Reconnect \/ MasterLost
  PROVE  IInv'
<1>1. UNCHANGED <<conn, lib, worker, thread, db, faults>>
  BY DEF StartAgain, Reconnect, MasterLost, NoFault
<1>2. /\ mbc' \in Main /\ mbc'.at = "loop" /\ mbc'.then = "none"
      /\ mbc'.state \in {"DISCONNECTED", "WAIT_TOKEN"}
      /\ mbc'.state = "DISCONNECTED" => mbc'.sock = Closed
      /\ mbc'.state = "WAIT_TOKEN" => mbc'.sock = ToMaster
      /\ mbc.sock \notin Conn /\ mbc.state # "RUNNING" /\ ~mbc'.idle
      /\ mbc.state = "DISCONNECTED" => ~mbc.idle
  <2>1. CASE StartAgain
    BY <2>1, Sockets DEF StartAgain, Started, Main, NoSession, IInv, MainInv
  <2>2. CASE Reconnect
    BY <2>2, Sockets DEF Reconnect, Loop, Main, IInv, TypeOK, MainInv
  <2>3. CASE MasterLost
    <3>1. mbc.state = "WAIT_TOKEN" /\ mbc.sock \notin Conn /\ ~mbc.idle /\ mbc.then = "none" /\ mbc.at = "loop" /\ mbc \in Main
      BY <2>3, Sockets DEF MasterLost, Loop, Main, IInv, TypeOK, MainInv
    <3>2. QED
      BY <2>3, <3>1 DEF MasterLost, Main
  <2>4. QED
    BY <2>1, <2>2, <2>3
<1>3. TypeOK'
  BY <1>1, <1>2 DEF IInv, TypeOK
<1>4. LibInv'
  BY <1>1 DEF IInv, LibInv, Alive
<1>5. MainInv'
  BY <1>1, <1>2, Sockets DEF IInv, MainInv, Crawling
<1>6. ThreadInv'
  <2>1. \A k \in Conn : ~conn[k].open
    BY <1>2 DEF IInv, ThreadInv, EndsInv
  <2>2. mbc'.sock \notin Conn
    BY <1>2, Sockets
  <2>3. QED
    BY <1>1, <2>1, <2>2, ClosesKeeps, Bounded DEF IInv
<1>7. PipeInv'
  <2>1. ASSUME "late" \notin faults
        PROVE  Alive = {} /\ lib.thr = "none" /\ lib.pipe = 0
    BY <1>2, <2>1, Sockets DEF IInv, TypeOK, Main, PipeInv, Nothing, One, LibInv
  <2>2. QED
    BY <1>1, <1>2, <2>1 DEF PipeInv, Nothing, One, Alive
<1>8. QED
  BY <1>3, <1>4, <1>5, <1>6, <1>7 DEF IInv

LEMMA LogOnStep ==
  ASSUME IInv, NEW k \in Conn, LogOn(k)
  PROVE  IInv'
<1>1. UNCHANGED <<lib, worker, db, faults>>
  BY DEF LogOn, NoFault
<1>2. /\ mbc \in Main /\ mbc' \in Main /\ mbc'.at = mbc.at /\ mbc'.then = mbc.then /\ mbc'.state = "WAIT_TOKEN"
      /\ mbc.state = "WAIT_TOKEN" /\ mbc'.idle = mbc.idle /\ mbc'.sock = k
  BY DEF LogOn, Loop, IInv, TypeOK, Main
<1>3. ThreadInv' /\ conn' \in [Conn -> Socket] /\ thread' \in [Conn -> Thread]
  BY LogOnKeeps DEF IInv
<1>4. TypeOK'
  BY <1>1, <1>2, <1>3 DEF IInv, TypeOK
<1>5. LibInv'
  BY <1>1 DEF IInv, LibInv, Alive
<1>6. MainInv'
  BY <1>1, <1>2, Sockets DEF IInv, MainInv, Crawling
<1>7. PipeInv'
  BY <1>1, <1>2 DEF IInv, PipeInv, Nothing, One, Alive
<1>8. QED
  BY <1>3, <1>4, <1>5, <1>6, <1>7 DEF IInv

(* Answers to the slave.                                                     *)
LEMMA AnswerStep ==
  ASSUME IInv, OnConfigRecv
  PROVE  IInv'
<1>1. UNCHANGED <<lib, worker, thread, db, faults>> /\ conn' = Answer(<<Msg("STATUS", 0)>>)
  BY DEF OnConfigRecv, NoFault
<1>2. mbc.sock \in Conn /\ conn[mbc.sock].down # <<>> /\ Head(conn[mbc.sock].down).kind = "CONFIG"
      /\ mbc.at = "loop" /\ mbc.then = "none" /\ mbc.state # "ENDED"
  BY DEF OnConfigRecv, Hears, Loop, IInv, MainInv
<1>3. /\ mbc \in Main /\ mbc' \in Main /\ mbc'.at = "loop" /\ mbc'.then = "none" /\ mbc'.state = "STOPPED"
      /\ mbc'.idle = mbc.idle /\ mbc'.sock = mbc.sock
  BY <1>2 DEF OnConfigRecv, IInv, TypeOK, Main
<1>4. mbc.state = "WAIT_TOKEN"
  <2> DEFINE q == conn[mbc.sock].down
  <2>1. q \in Seq(Message) /\ q # <<>> /\ Head(q).kind = "CONFIG"
    BY <1>2 DEF IInv, TypeOK, Socket
  <2>2. \A p \in 1..Len(q) : q[p].kind = "CONFIG" => mbc.state = "WAIT_TOKEN"
    BY <1>2 DEF IInv, ThreadInv, MailInv
  <2> HIDE DEF q
  <2>3. Head(q) = q[1] /\ 1 \in 1..Len(q)
    BY <2>1, HeadOf
  <2>4. QED
    BY <2>1, <2>2, <2>3
<1>5. QED
  <2>1. TypeOK'
    <3>1. <<Msg("STATUS", 0)>> \in Seq(Message)
      BY MsgType
    <3>2. QED
      BY <1>1, <1>2, <1>3, <3>1, AnswerEffect DEF IInv, TypeOK
  <2>2. LibInv'
    BY <1>1 DEF IInv, LibInv, Alive
  <2>3. MainInv'
    BY <1>1, <1>2, <1>3, <1>4, Sockets DEF IInv, MainInv, Crawling
  <2>4. ThreadInv'
    BY <1>1, <1>2, <1>3, AnswerKeeps DEF IInv, CrawlRuns
  <2>5. PipeInv'
    <3>1. "late" \notin faults => Nothing
      BY <1>2, <1>3, <1>4, Sockets DEF IInv, PipeInv, MainInv, Main
    <3>2. QED
      BY <1>1, <1>3, <3>1 DEF PipeInv, Nothing, Alive
  <2>6. QED
    BY <2>1, <2>2, <2>3, <2>4, <2>5 DEF IInv

LEMMA StartStep ==
  ASSUME IInv, OnStart
  PROVE  IInv'
<1>1. /\ mbc.sock \in Conn /\ conn[mbc.sock].down # <<>> /\ Head(conn[mbc.sock].down).kind = "START"
      /\ mbc.at = "loop" /\ mbc.then = "none" /\ mbc.state \notin {"ENDED", "RUNNING"}
      /\ UNCHANGED <<thread, db, faults>>
  BY DEF OnStart, Hears, Loop, IInv, MainInv, NoFault
<1>2. CASE Alive # {}
  BY <1>1, <1>2, EndsWithKeeps, GrowingFaults DEF OnStart, IInv
<1>3. CASE Alive = {}
  <2> DEFINE i == Head(conn[mbc.sock].down).arg
  <2>1. conn' = Answer(<<Msg("STATUS", 1)>>) /\ mbc' = [mbc EXCEPT !.state = "RUNNING", !.work = i]
    BY <1>3 DEF OnStart
  <2>2. i \in Nat
    <3> DEFINE q == conn[mbc.sock].down
    <3>1. q \in Seq(Message) /\ q # <<>>
      BY <1>1 DEF IInv, TypeOK, Socket
    <3> HIDE DEF q
    <3>2. Head(q) \in Message
      BY <3>1, HeadOf
    <3>3. QED
      BY <3>2 DEF Message, q
  <2> HIDE DEF i
  <2>3. /\ mbc \in Main /\ mbc' \in Main /\ mbc'.at = "loop" /\ mbc'.then = "none" /\ mbc'.state = "RUNNING"
        /\ mbc'.idle = mbc.idle /\ mbc'.sock = mbc.sock /\ mbc'.work = i
    BY <1>1, <2>1, <2>2 DEF IInv, TypeOK, Main
  <2>4. ~mbc.idle
    BY <1>1, Sockets DEF IInv, MainInv
  <2> DEFINE LibGoes == /\ LibInv' /\ PipeInv' /\ lib' \in Metha
                       /\ worker' \in [Worker -> {"none", "fresh", "page", "target", "done", "parked"}]
  <2>5. ASSUME lib.state = "PREPARED" PROVE LibGoes
    <3>1. lib.thr = "none"
      <4>1. lib.thr \notin {"made", "loop"}
        BY <1>3, BoundAssumption DEF IInv, LibInv
      <4>2. QED
        BY <2>5, <4>1 DEF IInv, LibInv, TypeOK, Metha
    <3>2. /\ lib' \in Metha /\ lib'.thr = "made" /\ lib'.state = "PREPARED" /\ lib'.stop = lib.stop /\ lib'.pipe = lib.pipe
          /\ worker' = [w \in Worker |-> "fresh"]
      BY <1>3, <2>5 DEF OnStart, IInv, TypeOK, Metha
    <3>3. Alive' = Worker
      BY <3>2 DEF Alive
    <3>4. LibInv'
      BY <3>1, <3>2, <3>3 DEF IInv, LibInv
    <3>5. "late" \notin faults => lib.pipe = 0
      BY <1>1, <2>3, <2>4, Sockets DEF IInv, PipeInv, Nothing, MainInv, Main, One
    <3>6. PipeInv'
      BY <1>1, <2>3, <2>4, <3>2, <3>5 DEF PipeInv, One
    <3>7. worker' \in [Worker -> {"none", "fresh", "page", "target", "done", "parked"}]
      BY <3>2
    <3>8. QED
      BY <3>2, <3>4, <3>6, <3>7
  <2>6. ASSUME lib.state # "PREPARED" PROVE LibGoes
    <3>1. UNCHANGED <<lib, worker>>
      BY <1>3, <2>6 DEF OnStart
    <3>2. LibInv'
      BY <3>1 DEF IInv, LibInv, Alive
    <3>3. PipeInv'
      <4>1. lib.thr # "none"
        BY <2>6 DEF IInv, LibInv, TypeOK, Metha
      <4>2. "late" \in faults
        BY <1>1, <4>1, <2>3, Sockets DEF IInv, PipeInv, Nothing, MainInv, Main
      <4>3. QED
        BY <1>1, <4>2 DEF PipeInv
    <3>4. QED
      BY <3>1, <3>2, <3>3 DEF IInv, TypeOK
  <2>7. LibGoes
    BY <2>5, <2>6
  <2>8. TypeOK'
    <3>1. <<Msg("STATUS", 1)>> \in Seq(Message)
      BY MsgType
    <3>2. QED
      BY <1>1, <2>1, <2>3, <2>7, <3>1, AnswerEffect DEF IInv, TypeOK
  <2>9. MainInv'
    BY <1>1, <2>3, <2>4, Sockets DEF IInv, MainInv
  <2>10. ThreadInv'
    BY <1>1, <2>1, <2>3, AnswerKeeps DEF IInv, i
  <2>11. QED
    BY <2>7, <2>8, <2>9, <2>10 DEF IInv
<1>4. QED
  BY <1>2, <1>3

(* lmetha_wait(): the main thread passes early only if the thread is late.   *)
LEMMA WaitsEffect ==
  ASSUME TypeOK, NEW then \in {"idle", "lost"}, Waits(then)
  PROVE  /\ mbc' \in Main /\ mbc'.at # "loop" /\ mbc'.then = then
         /\ mbc'.state = mbc.state /\ mbc'.sock = mbc.sock /\ mbc'.work = mbc.work
         /\ mbc'.idle = IF then = "idle" THEN FALSE ELSE mbc.idle
         /\ FaultsGrow
         /\ mbc'.at = "passed" /\ "late" \notin faults' => lib.thr = "none"
<1>1. FaultsGrow
  BY GrowingFaults DEF Waits
<1>2. ASSUME NEW at \in {"join", "passed"}, Waiting(then, at)
      PROVE  /\ mbc' \in Main /\ mbc'.at = at /\ mbc'.then = then
             /\ mbc'.state = mbc.state /\ mbc'.sock = mbc.sock /\ mbc'.work = mbc.work
             /\ mbc'.idle = IF then = "idle" THEN FALSE ELSE mbc.idle
  BY <1>2 DEF Waiting, TypeOK, Main
<1>3. \/ Waiting(then, "join")
      \/ Waiting(then, "passed") /\ (lib.thr = "none" \/ "late" \in faults')
  BY DEF Waits, Fault
<1>4. QED
  BY <1>1, <1>2, <1>3

LEMMA IdleStep ==
  ASSUME IInv, EvIdle
  PROVE  IInv'
<1>1. mbc.at = "loop" /\ mbc.then = "none" /\ mbc.idle /\ UNCHANGED <<thread, db>>
  BY DEF EvIdle, Loop, IInv, MainInv
<1>2. CASE mbc.sock = Closed
  BY <1>1, <1>2, EndsWithKeeps, GrowingFaults DEF EvIdle, IInv
<1>3. CASE mbc.sock # Closed
  <2> DEFINE m == <<Msg("COUNT", mbc.work), Msg("STATUS", 0)>>
  <2>1. mbc.state = "RUNNING" /\ mbc.sock \in Conn /\ ~Crawling
    BY <1>1, <1>3 DEF IInv, MainInv
  <2>2. conn' = Says(m) /\ Waits("idle") /\ UNCHANGED <<lib, worker>>
    BY <1>3 DEF EvIdle
  <2>3. /\ mbc' \in Main /\ mbc'.at # "loop" /\ mbc'.then = "idle"
        /\ mbc'.state = mbc.state /\ mbc'.sock = mbc.sock /\ mbc'.work = mbc.work /\ ~mbc'.idle
        /\ FaultsGrow /\ (mbc'.at = "passed" /\ "late" \notin faults' => lib.thr = "none")
    BY <2>2, WaitsEffect DEF IInv
  <2>4. m \in Seq(Message) /\ Len(m) = 2 /\ m[1] = Msg("COUNT", mbc.work) /\ m[2] = Msg("STATUS", 0)
    <3>1. mbc.work \in Nat
      BY DEF IInv, TypeOK, Main
    <3>2. Msg("COUNT", mbc.work) \in Message /\ Msg("STATUS", 0) \in Message
      BY <3>1, MsgType
    <3>3. QED
      BY <3>2
  <2> HIDE DEF m
  <2>5. \A p \in 1..Len(m) : /\ m[p] = Msg("STATUS", 0) => p = Len(m)
                             /\ m[p].kind # "STATUS" => m[p].arg = mbc.work
    <3>1. Msg("COUNT", mbc.work).kind = "COUNT" /\ Msg("COUNT", mbc.work).arg = mbc.work /\ Msg("STATUS", 0).kind = "STATUS"
      BY DEF Msg
    <3>2. \A p \in 1..Len(m) : p = 1 \/ p = 2
      BY <2>4
    <3>3. QED
      BY <2>4, <3>1, <3>2
  <2>6. TypeOK'
    BY <1>1, <2>2, <2>3, <2>4, SaysEffect DEF IInv, TypeOK, FaultsGrow
  <2>7. LibInv'
    BY <2>2 DEF IInv, LibInv, Alive
  <2>8. MainInv'
    BY <2>1, <2>2, <2>3 DEF IInv, MainInv, Crawling
  <2>9. ThreadInv'
    BY <1>1, <2>1, <2>2, <2>3, <2>4, <2>5, SaysKeeps DEF IInv, CrawlRuns
  <2>10. PipeInv'
    BY <1>1, <2>1, <2>2, <2>3 DEF IInv, PipeInv, One, FaultsGrow
  <2>11. QED
    BY <2>6, <2>7, <2>8, <2>9, <2>10 DEF IInv
<1>4. QED
  BY <1>2, <1>3

LEMMA LostStep ==
  ASSUME IInv, EvSlaveLost
  PROVE  IInv'
<1>1. /\ mbc.at = "loop" /\ mbc.then = "none" /\ mbc.sock \in Conn /\ mbc \in Main /\ lib \in Metha
      /\ UNCHANGED <<worker, thread, db>> /\ conn' = ClosedByClient(conn)
  BY DEF EvSlaveLost, SlaveGone, Loop, IInv, MainInv, TypeOK
<1>2. conn' \in [Conn -> Socket]
      /\ \A k \in Conn : /\ conn'[k].used = conn[k].used /\ conn'[k].up = conn[k].up /\ ~conn'[k].open
                        /\ conn'[k].down \in {conn[k].down, <<>>}
  BY <1>1, ClosedEffect DEF IInv, ThreadInv, EndsInv
<1>3. CASE mbc.state = "RUNNING"
  <2>1. Waits("lost") /\ lib' = [lib EXCEPT !.pipe = @ + 1]
    BY <1>3 DEF EvSlaveLost, ToStop
  <2>2. lib' \in Metha /\ lib'.pipe = lib.pipe + 1 /\ lib'.thr = lib.thr /\ lib'.state = lib.state /\ lib'.stop = lib.stop
    BY <1>1, <2>1 DEF Metha
  <2>3. /\ mbc' \in Main /\ mbc'.at # "loop" /\ mbc'.then = "lost"
        /\ mbc'.state = mbc.state /\ mbc'.sock = mbc.sock /\ mbc'.work = mbc.work /\ mbc'.idle = mbc.idle
        /\ FaultsGrow /\ (mbc'.at = "passed" /\ "late" \notin faults' => lib.thr = "none")
    BY <2>1, WaitsEffect DEF IInv
  <2>4. TypeOK'
    BY <1>1, <1>2, <2>2, <2>3 DEF IInv, TypeOK, FaultsGrow
  <2>5. LibInv'
    BY <1>1, <2>2 DEF IInv, LibInv, Alive
  <2>6. MainInv'
    BY <1>1, <1>3, <2>3 DEF IInv, MainInv, Crawling
  <2>7. ThreadInv'
    BY <1>1, <1>2, <1>3, <2>3, ClosesKeeps, Bounded DEF IInv
  <2>8. PipeInv'
    BY <1>1, <1>3, <2>2, <2>3 DEF IInv, PipeInv, One, FaultsGrow, Metha
  <2>9. QED
    BY <2>4, <2>5, <2>6, <2>7, <2>8 DEF IInv
<1>4. CASE mbc.state # "RUNNING"
  <2>1. mbc' = [mbc EXCEPT !.state = "DISCONNECTED", !.sock = Closed] /\ UNCHANGED <<lib, faults>>
    BY <1>4 DEF EvSlaveLost, ToStop, NoFault
  <2>2. /\ mbc' \in Main /\ mbc'.at = "loop" /\ mbc'.then = "none" /\ mbc'.state = "DISCONNECTED" /\ mbc'.sock = Closed
        /\ mbc'.idle = mbc.idle
    BY <1>1, <2>1 DEF Main
  <2>3. mbc.state \in {"STOPPED", "WAIT_TOKEN"} /\ ~mbc.idle /\ ~Crawling
    BY <1>1, <1>4, Sockets DEF IInv, MainInv, Main
  <2>4. TypeOK'
    BY <1>1, <1>2, <2>1, <2>2 DEF IInv, TypeOK
  <2>5. LibInv'
    BY <1>1, <2>1 DEF IInv, LibInv, Alive
  <2>6. MainInv'
    BY <1>1, <2>2, <2>3 DEF IInv, MainInv, Crawling
  <2>7. ThreadInv'
    BY <1>1, <1>2, <2>2, Sockets, ClosesKeeps, Bounded DEF IInv
  <2>8. PipeInv'
    BY <1>1, <2>1, <2>2, <2>3 DEF IInv, PipeInv, Nothing, One
  <2>9. QED
    BY <2>4, <2>5, <2>6, <2>7, <2>8 DEF IInv
<1>5. QED
  BY <1>3, <1>4

LEMMA JoinedStep ==
  ASSUME IInv, Joined
  PROVE  IInv'
<1>1. /\ mbc.at # "loop" /\ mbc.state = "RUNNING" /\ mbc.then \in {"idle", "lost"} /\ mbc.sock \in Conn
      /\ mbc \in Main /\ UNCHANGED <<thread, db, faults>>
  BY DEF Joined, IInv, MainInv, TypeOK, Main, NoFault
<1>2. CASE mbc.then = "lost" /\ Alive # {}
  BY <1>1, <1>2, EndsWithKeeps, GrowingFaults DEF Joined, IInv
<1>3. CASE ~(mbc.then = "lost" /\ Alive # {})
  <2>1. /\ UNCHANGED <<conn, lib, worker>>
        /\ mbc' = [mbc EXCEPT !.at = "loop", !.then = "none",
                         !.state = IF mbc.then = "lost" THEN "DISCONNECTED" ELSE "STOPPED",
                         !.sock = IF mbc.then = "lost" THEN Closed ELSE @]
    BY <1>3 DEF Joined
  <2>2. /\ mbc' \in Main /\ mbc'.at = "loop" /\ mbc'.then = "none" /\ mbc'.idle = mbc.idle /\ mbc'.work = mbc.work
        /\ mbc.then = "lost" => mbc'.state = "DISCONNECTED" /\ mbc'.sock = Closed
        /\ mbc.then # "lost" => mbc'.state = "STOPPED" /\ mbc'.sock = mbc.sock
    BY <1>1, <2>1 DEF Main
  <2>3. ~Crawling
    <3>1. mbc.then = "idle" => ~Crawling
      BY DEF IInv, MainInv
    <3>2. Alive = {} => ~Crawling
      BY DEF Alive, Crawling
    <3>3. QED
      BY <1>1, <1>3, <3>1, <3>2
  <2>4. TypeOK'
    BY <1>1, <2>1, <2>2 DEF IInv, TypeOK
  <2>5. LibInv'
    BY <2>1 DEF IInv, LibInv, Alive
  <2>6. MainInv'
    BY <1>1, <2>1, <2>2, <2>3 DEF IInv, MainInv, Crawling
  <2>7. ThreadInv'
    <3>1. \A k \in Conn : conn[k].open => mbc.then = "idle"
      BY <1>1 DEF IInv, ThreadInv, EndsInv
    <3>2. mbc'.sock \in Conn => mbc'.sock = mbc.sock
      BY <1>1, <2>2, Sockets
    <3>3. QED
      BY <1>1, <2>1, <2>2, <3>1, <3>2, ClosesKeeps, Bounded DEF IInv, CrawlRuns
  <2>8. PipeInv'
    <3>1. lib.pipe \in Nat
      BY DEF IInv, TypeOK, Metha
    <3>2. ASSUME "late" \notin faults
          PROVE  lib.thr = "none" /\ Alive = {} /\ lib.pipe = One(mbc.idle) /\ (mbc.then = "idle" => ~mbc.idle)
      <4>1. lib.thr = "none"
        BY <3>2 DEF Joined, IInv, PipeInv
      <4>2. lib.pipe + 1 = One(mbc.idle) + 1
        BY <1>1, <3>2, <4>1 DEF IInv, PipeInv, One
      <4>3. QED
        BY <3>1, <4>1, <4>2 DEF IInv, LibInv, MainInv, One
    <3>3. QED
      BY <1>1, <2>1, <2>2, <3>2 DEF PipeInv, Nothing, Alive, One
  <2>9. QED
    BY <2>4, <2>5, <2>6, <2>7, <2>8 DEF IInv
<1>4. QED
  BY <1>2, <1>3

LEMMA SignalStep ==
  ASSUME IInv, EvSignal
  PROVE  IInv'
BY EndsWithKeeps, GrowingFaults DEF EvSignal, IInv

(* The thread of the session reads its EXIT, and waits for the workers.      *)
LEMMA SessionStep ==
  ASSUME IInv, SessionThread
  PROVE  IInv'
<1>1. UNCHANGED <<conn, mbc, worker, thread, db, faults>> /\ lib \in Metha
  BY DEF SessionThread, SetRunning, ReadExit, Stopped, NoFault, IInv, TypeOK
<1>2. TypeOK' /\ LibInv' /\ PipeInv'
  <2>1. CASE SetRunning
    <3>1. lib.thr = "made" /\ lib' \in Metha /\ lib'.thr = "loop" /\ lib'.state = "RUNNING"
          /\ lib'.stop = lib.stop /\ lib'.pipe = lib.pipe
      BY <1>1, <2>1 DEF SetRunning, Metha
    <3>2. QED
      BY <1>1, <3>1 DEF IInv, TypeOK, LibInv, PipeInv, Nothing, One, Alive
  <2>2. CASE ReadExit
    <3>1. lib.thr = "loop" /\ lib.pipe > 0 /\ lib' \in Metha /\ lib'.thr = "stop" /\ lib'.state = lib.state
          /\ lib'.stop /\ lib'.pipe = lib.pipe - 1 /\ lib.pipe \in Nat
      <4>1. lib.pipe \in Nat /\ lib.pipe > 0
        BY <1>1, <2>2 DEF ReadExit, Metha
      <4>2. lib.pipe - 1 \in Nat
        BY <4>1
      <4>3. lib' = [lib EXCEPT !.thr = "stop", !.stop = TRUE, !.pipe = lib.pipe - 1] /\ lib.thr = "loop"
        BY <2>2 DEF ReadExit
      <4>4. QED
        BY <1>1, <4>1, <4>2, <4>3 DEF Metha
    <3>2. TypeOK' /\ LibInv'
      BY <1>1, <3>1 DEF IInv, TypeOK, LibInv, Alive
    <3>3. PipeInv'
      BY <1>1, <3>1 DEF IInv, PipeInv, Nothing, One, Alive
    <3>4. QED
      BY <3>2, <3>3
  <2>3. CASE Stopped
    <3>1. lib.thr = "stop" /\ Alive = {} /\ lib' \in Metha /\ lib'.thr = "none" /\ lib'.state = "PREPARED"
          /\ ~lib'.stop /\ lib'.pipe = lib.pipe
      BY <1>1, <2>3 DEF Stopped, Metha
    <3>2. QED
      BY <1>1, <3>1 DEF IInv, TypeOK, LibInv, PipeInv, Nothing, One, Alive
  <2>4. QED
    BY <2>1, <2>2, <2>3 DEF SessionThread
<1>3. MainInv'
  BY <1>1 DEF IInv, MainInv, Crawling
<1>4. ThreadInv'
  BY <1>1, ClosesKeeps, Bounded DEF IInv, ThreadInv, EndsInv, CrawlRuns
<1>5. QED
  BY <1>2, <1>3, <1>4 DEF IInv

(* A worker that reports does so for the crawl that the main thread knows.   *)
LEMMA CrawlStep ==
  ASSUME IInv, NEW w \in Worker, NEW kind \in {"URL", "TARGET", "attr"},
         NEW from \in {"fresh", "page", "target"}, NEW to \in {"page", "target", "done"},
         Crawls(w, from, <<Msg(kind, mbc.work)>>, to)
  PROVE  IInv'
<1> DEFINE m == <<Msg(kind, mbc.work)>>
<1>1. /\ worker[w] = from /\ conn' = Says(m) /\ worker' = [worker EXCEPT ![w] = to]
      /\ UNCHANGED <<mbc, lib, thread, db, faults>>
  BY DEF Crawls, NoFault
<1>2. m \in Seq(Message) /\ Len(m) = 1 /\ m[1].kind = kind /\ m[1].arg = mbc.work
  <2>1. mbc.work \in Nat
    BY DEF IInv, TypeOK, Main
  <2>2. Msg(kind, mbc.work) \in Message /\ Msg(kind, mbc.work).kind = kind /\ Msg(kind, mbc.work).arg = mbc.work
    BY <2>1 DEF Msg, Message
  <2>3. QED
    BY <2>2
<1> HIDE DEF m
<1>3. Crawling /\ CrawlRuns
  BY <1>1 DEF Crawling, CrawlRuns, IInv, MainInv
<1>4. worker' \in [Worker -> {"none", "fresh", "page", "target", "done", "parked"}] /\ Alive' = Alive
  BY <1>1 DEF IInv, TypeOK, Alive
<1>5. TypeOK'
  BY <1>1, <1>2, <1>4, SaysEffect DEF IInv, TypeOK
<1>6. LibInv' /\ PipeInv'
  BY <1>1, <1>4 DEF IInv, LibInv, PipeInv, Nothing
<1>7. MainInv'
  BY <1>1, <1>3 DEF IInv, MainInv
<1>8. ThreadInv'
  <2>1. \A p \in 1..Len(m) : m[p] # Msg("STATUS", 0) /\ m[p].arg = mbc.work
    <3>1. Msg("STATUS", 0).kind = "STATUS"
      BY DEF Msg
    <3>2. \A p \in 1..Len(m) : p = 1
      BY <1>2
    <3>3. QED
      BY <1>2, <3>1, <3>2
  <2>2. mbc.then # "lost" \/ \A k \in Conn : ~conn[k].open
    BY DEF IInv, ThreadInv, EndsInv
  <2>3. CASE mbc.then # "lost"
    BY <1>1, <1>2, <1>3, <2>1, <2>3, SaysKeeps DEF IInv, CrawlRuns
  <2>4. CASE \A k \in Conn : ~conn[k].open
    <3>1. \A k \in Conn : /\ conn'[k].used = conn[k].used /\ conn'[k].up = conn[k].up
                          /\ conn'[k].down = conn[k].down /\ ~conn'[k].open
      BY <1>1, <1>2, <2>4, SaysEffect DEF IInv
    <3>2. QED
      BY <1>1, <3>1, ClosesKeeps, Bounded DEF IInv
  <2>5. QED
    BY <2>2, <2>3, <2>4
<1>9. QED
  BY <1>5, <1>6, <1>7, <1>8 DEF IInv

LEMMA ParkStep ==
  ASSUME IInv, NEW w \in Worker, Park(w)
  PROVE  IInv'
<1>1. /\ worker[w] \in {"fresh", "page", "done"} /\ worker' = [worker EXCEPT ![w] = "parked"]
      /\ UNCHANGED <<conn, thread, db, faults>> /\ mbc \in Main /\ lib \in Metha
  BY DEF Park, NoFault, IInv, TypeOK
<1>2. worker' \in [Worker -> {"none", "fresh", "page", "target", "done", "parked"}] /\ Alive' = Alive
  BY <1>1 DEF IInv, TypeOK, Alive
<1>3. Crawling /\ mbc.state = "RUNNING" /\ ~mbc.idle /\ mbc.then # "idle"
  BY <1>1 DEF Crawling, IInv, MainInv
<1>4. ASSUME \A v \in Worker \ {w} : worker[v] = "parked", Idle
      PROVE  /\ mbc' \in Main /\ lib' \in Metha /\ MainInv' /\ LibInv' /\ PipeInv'
             /\ mbc'.sock = mbc.sock /\ mbc'.then = mbc.then /\ mbc'.work = mbc.work /\ mbc'.state = mbc.state
  <2>1. /\ mbc' \in Main /\ mbc'.idle /\ mbc'.sock = mbc.sock /\ mbc'.then = mbc.then /\ mbc'.work = mbc.work
        /\ mbc'.state = mbc.state /\ mbc'.at = mbc.at
    BY <1>1, <1>4 DEF Idle, Main
  <2>2. /\ lib' \in Metha /\ lib'.pipe = lib.pipe + 1 /\ lib'.thr = lib.thr /\ lib'.state = lib.state
        /\ lib'.stop = lib.stop /\ lib.pipe \in Nat
    BY <1>1, <1>4 DEF Idle, Metha
  <2>3. ~Crawling'
    BY <1>1, <1>2, <1>4 DEF Crawling, IInv, TypeOK
  <2>4. MainInv'
    BY <1>3, <2>1, <2>3 DEF IInv, MainInv
  <2>5. LibInv'
    BY <1>2, <2>2 DEF IInv, LibInv
  <2>6. PipeInv'
    BY <1>1, <1>3, <2>1, <2>2 DEF IInv, PipeInv, One
  <2>7. QED
    BY <2>1, <2>2, <2>4, <2>5, <2>6
<1>5. ASSUME UNCHANGED <<mbc, lib>>
      PROVE  MainInv' /\ LibInv' /\ PipeInv'
  BY <1>1, <1>2, <1>3, <1>5 DEF IInv, MainInv, LibInv, PipeInv, Nothing
<1>6. \/ (\A v \in Worker \ {w} : worker[v] = "parked") /\ Idle
      \/ UNCHANGED <<mbc, lib>>
  BY DEF Park
<1>7. MainInv' /\ LibInv' /\ PipeInv' /\ TypeOK'
  BY <1>1, <1>2, <1>4, <1>5, <1>6 DEF IInv, TypeOK
<1>8. mbc'.sock = mbc.sock /\ mbc'.then = mbc.then /\ mbc'.work = mbc.work /\ mbc'.state = mbc.state
  BY <1>4, <1>6
<1>9. ThreadInv'
  BY <1>1, <1>8, ClosesKeeps, Bounded DEF IInv, ThreadInv, EndsInv, CrawlRuns
<1>10. QED
  BY <1>7, <1>9 DEF IInv

LEMMA ExitStep ==
  ASSUME IInv, NEW w \in Worker, Exit(w)
  PROVE  IInv'
<1>1. /\ lib.stop /\ worker' = [worker EXCEPT ![w] = "none"]
      /\ UNCHANGED <<conn, mbc, lib, thread, db, faults>>
  BY DEF Exit, NoFault
<1>2. /\ worker' \in [Worker -> {"none", "fresh", "page", "target", "done", "parked"}]
      /\ Alive' \subseteq Alive
      /\ Crawling' => Crawling
  BY <1>1 DEF IInv, TypeOK, Alive, Crawling
<1>3. TypeOK' /\ LibInv'
  BY <1>1, <1>2 DEF IInv, TypeOK, LibInv
<1>4. MainInv'
  BY <1>1, <1>2 DEF IInv, MainInv
<1>5. PipeInv'
  <2>1. Nothing => Nothing'
    BY <1>1, <1>2 DEF Nothing
  <2>2. QED
    BY <1>1, <2>1 DEF IInv, PipeInv, One
<1>6. ThreadInv'
  BY <1>1, ClosesKeeps, Bounded DEF IInv, ThreadInv, EndsInv, CrawlRuns
<1>7. QED
  BY <1>3, <1>4, <1>5, <1>6 DEF IInv

(* Users and the network.                                                    *)
LEMMA OutsideStep ==
  ASSUME IInv, AddInput \/ \E k \in Conn : Cut(k)
  PROVE  IInv'
<1>1. UNCHANGED <<mbc, lib, worker, thread>> /\ FaultsGrow
  BY GrowingFaults DEF AddInput, Cut, IInv
<1>2. LibInv' /\ MainInv' /\ PipeInv'
  BY <1>1 DEF IInv, LibInv, MainInv, PipeInv, Nothing, Alive, Crawling, FaultsGrow
<1>3. CASE AddInput
  <2>1. db \in Rows /\ conn' = conn /\ db.added < MaxInputs /\ db' = [db EXCEPT !.added = @ + 1]
    BY <1>3 DEF AddInput, IInv, TypeOK
  <2>2. db' \in Rows /\ db'.given = db.given /\ db'.row = db.row /\ db'.added = db.added + 1
    BY <2>1 DEF Rows
  <2>3. db'.given <= db'.added /\ db'.added <= MaxInputs
    BY <2>1, <2>2, Bounded, BoundAssumption DEF IInv, Rows
  <2>4. ThreadInv'
    BY <1>1, <2>1, <2>2, <2>3, ClosesKeeps DEF IInv, ThreadInv, EndsInv, CrawlRuns
  <2>5. TypeOK'
    BY <1>1, <2>1, <2>2 DEF IInv, TypeOK, FaultsGrow
  <2>6. QED
    BY <1>2, <2>4, <2>5 DEF IInv
<1>4. CASE \E k \in Conn : Cut(k)
  <2>1. PICK k \in Conn : Cut(k)
    BY <1>4
  <2> DEFINE r == [conn[k] EXCEPT !.open = FALSE, !.up = <<>>, !.down = <<>>]
  <2>2. conn \in [Conn -> Socket] /\ <<>> \in Seq(Message) /\ db' = db
    <3>1. <<>> \in Seq(Message)
      OBVIOUS
    <3>2. QED
      BY <2>1, <3>1 DEF IInv, TypeOK, Cut
  <2>3. r \in Socket /\ ~r.open /\ r.up = <<>> /\ r.down = <<>> /\ r.used = conn[k].used
    BY <2>2 DEF Socket
  <2>4. conn' = [conn EXCEPT ![k] = r]
    BY <2>1, <2>2 DEF Cut
  <2> HIDE DEF r
  <2>5. /\ conn' \in [Conn -> Socket]
        /\ \A j \in Conn : \/ conn'[j] = conn[j]
                          \/ /\ conn'[j].used = conn[j].used /\ conn'[j].up = <<>>
                             /\ conn'[j].down = <<>> /\ ~conn'[j].open
    BY <2>2, <2>3, <2>4
  <2>6. ThreadInv'
    BY <1>1, <2>2, <2>5, ClosesKeeps, Bounded DEF IInv, ThreadInv, EndsInv, CrawlRuns
  <2>7. TypeOK'
    BY <1>1, <2>2, <2>5 DEF IInv, TypeOK, FaultsGrow
  <2>8. QED
    BY <1>2, <2>6, <2>7 DEF IInv
<1>5. QED
  BY <1>3, <1>4

LEMMA SlaveStep ==
  ASSUME IInv, NEW k \in Conn, AtSlave(k)
  PROVE  IInv'
<1>1. /\ Gone(k) \/ Takes(k) \/ Hooks(k) \/ Looks(k)
      /\ UNCHANGED clientVars
      /\ faults' \subseteq {"late", "stop", "db", "kill", "cut"}
      /\ "late" \in faults' <=> "late" \in faults
  BY SlaveSteps DEF IInv, ThreadInv
<1>2. UNCHANGED <<mbc, lib, worker>>
  BY <1>1 DEF clientVars
<1>3. ThreadInv'
  BY <1>1, GoneKeeps, TakesKeeps, HooksKeeps, LooksKeeps DEF IInv
<1>4. TypeOK'
  <2>1. Typed
    BY <1>1 DEF Gone, Takes, Hooks, Looks
  <2>2. QED
    BY <1>1, <1>2, <2>1 DEF IInv, TypeOK, Typed
<1>5. LibInv' /\ MainInv' /\ PipeInv'
  BY <1>1, <1>2 DEF IInv, LibInv, MainInv, PipeInv, Nothing, Alive, Crawling
<1>6. QED
  BY <1>3, <1>4, <1>5 DEF IInv

-----------------------------------------------------------------------------
LEMMA InitIInv == Init => IInv
<1> SUFFICES ASSUME Init PROVE IInv
  OBVIOUS
<1>1. /\ mbc \in Main /\ mbc.state = "DISCONNECTED" /\ mbc.sock = Closed /\ mbc.at = "loop" /\ mbc.then = "none"
      /\ ~mbc.idle
  BY DEF Init, Started, Main, NoSession
<1>2. lib \in Metha /\ lib.state = "PREPARED" /\ lib.thr = "none" /\ ~lib.stop /\ lib.pipe = 0
  BY DEF Init, Fresh, Metha
<1>3. worker = [w \in Worker |-> "none"] /\ Alive = {} /\ ~Crawling
  BY DEF Init, Alive, Crawling
<1>4. NoThread \in Thread /\ NoThread.pc = "none" /\ NoThread.session = 0 /\ ~NoThread.timer
  BY DEF NoThread, Thread, NoSession
<1>5. thread \in [Conn -> Thread] /\ \A k \in Conn : thread[k] = NoThread
  BY <1>4 DEF Init
<1>6. conn \in [Conn -> Socket] /\ \A k \in Conn : ~conn[k].open /\ ~conn[k].used /\ conn[k].up = <<>> /\ conn[k].down = <<>>
  BY DEF Init, Socket
<1>7. db \in Rows /\ db.added = 0 /\ db.given = 0 /\ \A i \in Input : db.row[i] = "none"
  BY DEF Init, Rows
<1>8. TypeOK
  BY <1>1, <1>2, <1>3, <1>5, <1>6, <1>7 DEF TypeOK, Init
<1>9. LibInv /\ MainInv
  BY <1>1, <1>2, <1>3 DEF LibInv, MainInv
<1>10. PipeInv
  BY <1>1, <1>2 DEF PipeInv, One
<1>11. EndsInv /\ StreamInv /\ TurnInv /\ MailInv
  BY <1>4, <1>5, <1>6 DEF EndsInv, StreamInv, TurnInv, MailInv
<1>12. NumberInv /\ RowsOwned
  BY <1>4, <1>5, <1>7, BoundAssumption DEF NumberInv, RowsOwned, NoSession
<1>13. QED
  BY <1>8, <1>9, <1>10, <1>11, <1>12 DEF IInv, ThreadInv

LEMMA NextIInv == IInv /\ [Next]_vars => IInv'
<1> SUFFICES ASSUME IInv, [Next]_vars PROVE IInv'
  OBVIOUS
<1>1. CASE ClientMain
  BY <1>1, BetweenKeeps, LogOnStep, AnswerStep, StartStep, IdleStep, LostStep, JoinedStep DEF ClientMain
<1>2. CASE SessionThread
  BY <1>2, SessionStep
<1>3. ASSUME NEW w \in Worker, WorkerThread(w)
      PROVE  IInv'
  <2>1. CASE Visit(w)
    BY <2>1, CrawlStep DEF Visit
  <2>2. CASE FindTarget(w)
    BY <2>2, CrawlStep DEF FindTarget
  <2>3. CASE Attributes(w)
    BY <2>3, CrawlStep DEF Attributes
  <2>4. QED
    BY <1>3, <2>1, <2>2, <2>3, ParkStep, ExitStep DEF WorkerThread
<1>4. ASSUME NEW k \in Conn, AtSlave(k)
      PROVE  IInv'
  BY <1>4, SlaveStep
<1>5. CASE Environment
  BY <1>4, <1>5, BetweenKeeps, SignalStep, OutsideStep DEF Environment, AtSlave
<1>6. CASE UNCHANGED vars
  <2>1. UNCHANGED <<conn, mbc, lib, worker, thread, db, faults>>
    BY <1>6 DEF vars
  <2>2. TypeOK' /\ LibInv' /\ MainInv' /\ PipeInv'
    BY <2>1 DEF IInv, TypeOK, LibInv, MainInv, PipeInv, Nothing, Alive, Crawling
  <2>3. ThreadInv'
    BY <2>1, ClosesKeeps, Bounded DEF IInv, ThreadInv, EndsInv, CrawlRuns
  <2>4. QED
    BY <2>2, <2>3 DEF IInv
<1>7. QED
  BY <1>1, <1>2, <1>3, <1>4, <1>5, <1>6 DEF Next, AtSlave

LEMMA AlwaysIInv == Spec => []IInv
BY InitIInv, NextIInv, PTL DEF Spec

(* The types of the variables, for any number of workers and faults.         *)
THEOREM TypesRight == Spec => []TypeOK
<1>1. IInv => TypeOK
  BY DEF IInv
<1>2. QED
  BY <1>1, AlwaysIInv, PTL

(* A session that is running, or in its hook (client.c, on_status()), always *)
(* has a thread that will finish it, whatever is lost, killed or not stored. *)
THEOREM SessionsOwned == Spec => []RowsOwned
<1>1. IInv => RowsOwned
  BY DEF IInv, ThreadInv
<1>2. QED
  BY <1>1, AlwaysIInv, PTL

(* What on_url(), on_target() and on_count() store with a session was found  *)
(* by its crawl: nothing of an earlier session is still on its way when the  *)
(* next one starts.                                                          *)
THEOREM ReportsOfSession == Spec => []ReportsRight
<1>1. IInv => ReportsRight
  <2>1. SUFFICES ASSUME IInv, NEW k \in Conn, Serves(k), conn[k].up # <<>>, Accepts(k)
                 PROVE  Head(conn[k].up).arg = thread[k].session
    BY DEF ReportsRight
  <2> DEFINE q == conn[k].up
  <2>2. q \in Seq(Message) /\ q # <<>> /\ Head(q).kind # "STATUS"
    BY <2>1 DEF IInv, TypeOK, Socket, Accepts
  <2>3. \A p \in 1..Len(q) : q[p].kind # "STATUS" => q[p].arg = thread[k].session
    <3>1. StreamInv
      BY <2>1 DEF IInv, ThreadInv
    <3>2. QED
      BY <3>1 DEF StreamInv
  <2> HIDE DEF q
  <2>4. Head(q) = q[1] /\ 1 \in 1..Len(q)
    BY <2>2, HeadOf
  <2>5. Head(q).arg = thread[k].session
    BY <2>2, <2>3, <2>4
  <2>6. QED
    BY <2>5 DEF q
<1>2. QED
  BY <1>1, AlwaysIInv, PTL

(* A client that waits for input, or for a token, has nothing left of an     *)
(* earlier crawl (main.c, mbc_ev_slave() and mbc_end_session()): no worker,  *)
(* no thread, and no EXIT in the pipe that would end the next one.           *)
THEOREM StartsClean == Spec => []CleanStart
<1>1. IInv => CleanStart
  BY DEF IInv, PipeInv, Nothing, CleanStart
<1>2. QED
  BY <1>1, AlwaysIInv, PTL
=============================================================================
