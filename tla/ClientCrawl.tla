----------------------------- MODULE ClientCrawl -----------------------------
(***************************************************************************)
(* A client at work: mb-client runs libmetha sessions in the background    *)
(* (main.c, slave.c, lmetha_exec_async() of metha.c), the thread of a      *)
(* slave gives it input and stores what it reports (client.c of mn-slaved).*)
(* How the client gets to a slave is in Cluster; here it is one step.      *)
(***************************************************************************)
EXTENDS Naturals, Sequences, FiniteSets

CONSTANTS
    Worker,      \* the worker threads of the client's libmetha
    MaxInputs,   \* bound: rows of nol_added
    MaxConns,    \* bound: connections of the client to slaves
    MaxFaults    \* bound: kinds of faults in a run, each once

ASSUME BoundAssumption ==
    /\ Worker # {} /\ IsFiniteSet(Worker)
    /\ MaxInputs \in Nat /\ MaxConns \in Nat /\ MaxFaults \in Nat

VARIABLES
    conn,      \* connections between client and slave
    mbc,       \* mbc of mb-client, and where its main thread is
    lib,       \* the metha_t: state, the pipe msg_fd, the thread m->thr
    worker,    \* its workers
    thread,    \* the threads of the slave, one for each connection
    db,        \* nol_added and nol_session
    faults

clientVars == <<mbc, lib, worker>>
vars == <<conn, mbc, lib, worker, thread, db, faults>>

Conn  == 1..MaxConns
Input == 1..MaxInputs
NoSession == 0
Closed    == 0              \* socket numbers: no socket, that to the master
ToMaster  == MaxConns + 1

Msg(k, x) == [kind |-> k, arg |-> x]

Fault(kind) ==
    /\ kind \notin faults /\ Cardinality(faults) < MaxFaults
    /\ faults' = faults \cup {kind}
NoFault == UNCHANGED faults

NoThread == [pc |-> "none", session |-> NoSession, running |-> FALSE, timer |-> FALSE, nolp |-> "CMD"]
Started  == [state |-> "DISCONNECTED", sock |-> Closed, at |-> "loop", then |-> "none",
             idle |-> FALSE, work |-> NoSession]
Fresh    == [state |-> "PREPARED", pipe |-> 0, thr |-> "none", stop |-> FALSE]

Init ==
    /\ conn = [k \in Conn |-> [open |-> FALSE, up |-> <<>>, down |-> <<>>, used |-> FALSE]]
    /\ mbc = Started /\ lib = Fresh /\ worker = [w \in Worker |-> "none"]
    /\ thread = [k \in Conn |-> NoThread]
    /\ db = [added |-> 0, given |-> 0, row |-> [i \in Input |-> "none"]]
    /\ faults = {}

(* send() of the client: mbc.sock may be closed, or lead to the master.      *)
Says(messages) ==
    IF mbc.sock \in Conn /\ conn[mbc.sock].open
    THEN [conn EXCEPT ![mbc.sock].up = @ \o messages] ELSE conn

ClosedByClient(c) ==
    IF mbc.sock \in Conn THEN [c EXCEPT ![mbc.sock].open = FALSE, ![mbc.sock].down = <<>>] ELSE c

-----------------------------------------------------------------------------
(* The main thread of mb-client.  It ends, and may be started again.         *)
EndsWith(c) ==
    /\ conn' = ClosedByClient(c)
    /\ mbc' = [Started EXCEPT !.state = "ENDED"] /\ lib' = Fresh
    /\ worker' = [w \in Worker |-> "none"]

StartAgain ==
    /\ mbc.state = "ENDED"
    /\ mbc' = Started
    /\ NoFault /\ UNCHANGED <<conn, lib, worker, thread, db>>

Loop == mbc.at = "loop" /\ mbc.state # "ENDED"

(* mbc_ev_timer(): the timer takes seconds, events that are pending come     *)
(* first.  At the master the client gets a token.                            *)
Reconnect ==
    /\ Loop /\ mbc.state = "DISCONNECTED" /\ ~mbc.idle
    /\ \E k \in Conn : ~conn[k].used
    /\ mbc' = [mbc EXCEPT !.state = "WAIT_TOKEN", !.sock = ToMaster]
    /\ NoFault /\ UNCHANGED <<conn, lib, worker, thread, db>>

(* It takes it to a slave.  nol_s_client_main() sends the configuration,     *)
(* mbc_slave_on_config_recv() answers that the client is idle.               *)
LogOn(k) ==
    /\ Loop /\ mbc.state = "WAIT_TOKEN" /\ mbc.sock = ToMaster
    /\ ~conn[k].used /\ \A j \in 1..(k-1) : conn[j].used
    /\ mbc' = [mbc EXCEPT !.sock = k]
    /\ conn' = [conn EXCEPT ![k] = [open |-> TRUE, up |-> <<>>, down |-> <<Msg("CONFIG", 0)>>, used |-> TRUE]]
    /\ thread' = [thread EXCEPT ![k].pc = "main"]
    /\ NoFault /\ UNCHANGED <<lib, worker, db>>

Hears(kind) ==
    /\ Loop /\ mbc.sock \in Conn
    /\ conn[mbc.sock].down # <<>> /\ Head(conn[mbc.sock].down).kind = kind

Answer(messages) ==
    [Says(messages) EXCEPT ![mbc.sock].down = Tail(@)]

OnConfigRecv ==
    /\ Hears("CONFIG")
    /\ conn' = Answer(<<Msg("STATUS", 0)>>)
    /\ mbc' = [mbc EXCEPT !.state = "STOPPED"]
    /\ NoFault /\ UNCHANGED <<lib, worker, thread, db>>

(* mbc_slave_on_start(): lmetha_reset() and lmetha_exec_async(), up to the   *)
(* signal of the new thread.  The slave starts no client that is running.    *)
(* Memory that workers use is freed if any are left.                         *)
Alive == {w \in Worker : worker[w] # "none"}

OnStart ==
    /\ Hears("START") /\ mbc.state # "RUNNING"
    /\ NoFault /\ UNCHANGED <<thread, db>>
    /\ IF Alive # {} THEN EndsWith(conn)
       ELSE /\ conn' = Answer(<<Msg("STATUS", 1)>>)
            /\ mbc' = [mbc EXCEPT !.state = "RUNNING", !.work = Head(conn[mbc.sock].down).arg]
            /\ IF lib.state = "PREPARED"
               THEN /\ lib' = [lib EXCEPT !.thr = "made"]
                    /\ worker' = [w \in Worker |-> "fresh"]
               ELSE UNCHANGED <<lib, worker>>

(* lmetha_wait() joins the thread only if the session says that it runs.     *)
Waiting(then, at) ==
    mbc' = [mbc EXCEPT !.at = at, !.then = then, !.idle = IF then = "idle" THEN FALSE ELSE @]

Waits(then) ==
    \/ lib.state = "RUNNING" /\ Waiting(then, "join") /\ NoFault
    \/ lib.state # "RUNNING" /\ lib.thr = "none" /\ Waiting(then, "passed") /\ NoFault
    \/ lib.state # "RUNNING" /\ lib.thr # "none" /\ Waiting(then, "passed") /\ Fault("late")

(* mbc_ev_idle() and mbc_end_session().                                      *)
EvIdle ==
    /\ Loop /\ mbc.idle
    /\ UNCHANGED <<thread, db>>
    /\ IF mbc.sock = Closed THEN EndsWith(conn) /\ NoFault
       ELSE /\ conn' = Says(<<Msg("COUNT", mbc.work), Msg("STATUS", 0)>>)
            /\ Waits("idle")
            /\ UNCHANGED <<lib, worker>>

(* mbc_ev_slave(): the connection ended.                                     *)
SlaveGone == Loop /\ mbc.sock \in Conn /\ ~conn[mbc.sock].open /\ conn[mbc.sock].down = <<>>

(* Mutant of ToStop: the thread is told to exit, running or not.             *)
ToStopAlways == TRUE

ToStop == mbc.state = "RUNNING"

EvSlaveLost ==
    /\ SlaveGone
    /\ conn' = ClosedByClient(conn)
    /\ lib' = IF ToStop THEN [lib EXCEPT !.pipe = @ + 1] ELSE lib
    /\ IF mbc.state = "RUNNING" THEN Waits("lost")
       ELSE /\ mbc' = [mbc EXCEPT !.state = "DISCONNECTED", !.sock = Closed]
            /\ NoFault
    /\ UNCHANGED <<worker, thread, db>>

(* What follows lmetha_wait(); lmetha_reset() frees what workers use.        *)
Joined ==
    /\ mbc.at = "passed" \/ (mbc.at = "join" /\ lib.thr = "none")
    /\ IF mbc.then = "lost" /\ Alive # {} THEN EndsWith(conn)
       ELSE /\ mbc' = [mbc EXCEPT !.at = "loop", !.then = "none",
                         !.state = IF mbc.then = "lost" THEN "DISCONNECTED" ELSE "STOPPED",
                         !.sock = IF mbc.then = "lost" THEN Closed ELSE @]
            /\ UNCHANGED <<conn, lib, worker>>
    /\ NoFault /\ UNCHANGED <<thread, db>>

(* mbc_ev_master(): the master went away.                                    *)
MasterLost ==
    /\ Loop /\ mbc.sock = ToMaster
    /\ mbc' = [mbc EXCEPT !.state = "DISCONNECTED", !.sock = Closed]
    /\ NoFault /\ UNCHANGED <<conn, lib, worker, thread, db>>

(* mbc_ev_sig() and the end of main().                                       *)
EvSignal ==
    /\ Loop /\ Fault("stop")
    /\ EndsWith(conn)
    /\ UNCHANGED <<thread, db>>

-----------------------------------------------------------------------------
(* The thread that lmetha_exec_async() made: do_async_main(), msg_loop(),    *)
(* stop_worker_threads().                                                    *)
SetRunning ==
    /\ lib.thr = "made"
    /\ lib' = [lib EXCEPT !.thr = "loop", !.state = "RUNNING"]
    /\ NoFault /\ UNCHANGED <<conn, mbc, worker, thread, db>>

ReadExit ==
    /\ lib.thr = "loop" /\ lib.pipe > 0
    /\ lib' = [lib EXCEPT !.thr = "stop", !.stop = TRUE, !.pipe = @ - 1]
    /\ NoFault /\ UNCHANGED <<conn, mbc, worker, thread, db>>

Stopped ==
    /\ lib.thr = "stop" /\ Alive = {}
    /\ lib' = [lib EXCEPT !.thr = "none", !.stop = FALSE, !.state = "PREPARED"]
    /\ NoFault /\ UNCHANGED <<conn, mbc, worker, thread, db>>

(* Worker w crawls a page or none, and parks (WorkerPool).  A page may be a  *)
(* target: mbc_lm_status_cb(), mbc_lm_target_cb(), one send() after another. *)
Crawls(w, from, messages, to) ==
    /\ worker[w] = from
    /\ conn' = Says(messages)
    /\ worker' = [worker EXCEPT ![w] = to]
    /\ NoFault /\ UNCHANGED <<mbc, lib, thread, db>>

Visit(w)      == ~lib.stop /\ Crawls(w, "fresh", <<Msg("URL", mbc.work)>>, "page")
FindTarget(w) == Crawls(w, "page", <<Msg("TARGET", mbc.work)>>, "target")
Attributes(w) == Crawls(w, "target", <<Msg("attr", mbc.work)>>, "done")

(* Mutant of Idle: nobody tells the thread of the session.                   *)
IdleUntold == mbc' = [mbc EXCEPT !.idle = TRUE] /\ UNCHANGED lib

(* mbc_lm_ev_cb().                                                           *)
Idle == mbc' = [mbc EXCEPT !.idle = TRUE] /\ lib' = [lib EXCEPT !.pipe = @ + 1]

Park(w) ==
    /\ worker[w] \in {"fresh", "page", "done"} /\ ~lib.stop
    /\ worker' = [worker EXCEPT ![w] = "parked"]
    /\ IF \A v \in Worker \ {w} : worker[v] = "parked" THEN Idle ELSE UNCHANGED <<mbc, lib>>
    /\ NoFault /\ UNCHANGED <<conn, thread, db>>

Exit(w) ==
    /\ worker[w] \in {"fresh", "page", "done", "parked"} /\ lib.stop
    /\ worker' = [worker EXCEPT ![w] = "none"]
    /\ NoFault /\ UNCHANGED <<conn, mbc, lib, thread, db>>

-----------------------------------------------------------------------------
(* The thread of the slave: client_event(), and the commands of a client.    *)
Serves(k)      == thread[k].pc = "main"
Gets(k, kind)  == Serves(k) /\ conn[k].up # <<>> /\ Head(conn[k].up).kind = kind
Consumed(k)    == conn' = [conn EXCEPT ![k].up = Tail(@)]
Tells(k, messages) == IF conn[k].open THEN [conn EXCEPT ![k].down = @ \o messages] ELSE conn

(* Mutant of Interrupted: the session is left as it is.                      *)
AsItWas(k) == db

(* nol_s_client_init(), when the event loop has ended.                       *)
Interrupted(k) ==
    IF thread[k].session = NoSession THEN db
    ELSE [db EXCEPT !.row[thread[k].session] = "interrupted"]

Ends(k) ==
    /\ conn' = [conn EXCEPT ![k].open = FALSE, ![k].up = <<>>]
    /\ db' = Interrupted(k)
    /\ thread' = [thread EXCEPT ![k] = [NoThread EXCEPT !.pc = "ended"]]
    /\ UNCHANGED clientVars

(* Mutant of NewSession: the number of the session is not kept.              *)
NumberLost(t, i) == IF t.session = NoSession THEN [t EXCEPT !.session = i] ELSE t

NewSession(t, i) == [t EXCEPT !.session = i]

Available(d) == d.added > d.given

(* get_and_send_url(): the input is put off for 28 days, sent, and gets a    *)
(* session; if there is none a timer is started.                             *)
SendUrl(k, c, d) ==
    LET i == d.given + 1
        t == [thread[k] EXCEPT !.pc = "main", !.running = FALSE]
    IN IF Available(d)
       THEN /\ conn' = IF c[k].open THEN [c EXCEPT ![k].down = Append(@, Msg("START", i))] ELSE c
            /\ db' = [d EXCEPT !.given = i, !.row[i] = "running"]
            /\ thread' = [thread EXCEPT ![k] = [NewSession(t, i) EXCEPT !.timer = FALSE]]
       ELSE /\ conn' = c /\ db' = d
            /\ thread' = [thread EXCEPT ![k] = [t EXCEPT !.timer = TRUE]]

(* If the timer is active it will look for input.                            *)
NextUrl(k, c, d) ==
    IF thread[k].timer
    THEN /\ conn' = c /\ db' = d
         /\ thread' = [thread EXCEPT ![k].pc = "main", ![k].running = FALSE]
    ELSE SendUrl(k, c, d)

(* on_status(): the hook script runs while the session is in state 'hook'.   *)
StatusRunning(k) ==
    /\ Gets(k, "STATUS") /\ Head(conn[k].up).arg = 1 /\ thread[k].nolp = "CMD"
    /\ Consumed(k)
    /\ thread' = [thread EXCEPT ![k].running = TRUE]
    /\ NoFault /\ UNCHANGED <<mbc, lib, worker, db>>

StatusIdle(k) ==
    /\ Gets(k, "STATUS") /\ Head(conn[k].up).arg = 0 /\ thread[k].nolp = "CMD"
    /\ IF thread[k].session # NoSession
       THEN /\ Consumed(k)
            /\ db' = [db EXCEPT !.row[thread[k].session] = "hook"]
            /\ thread' = [thread EXCEPT ![k].pc = "hook", ![k].running = FALSE]
       ELSE NextUrl(k, [conn EXCEPT ![k].up = Tail(@)], db)
    /\ NoFault /\ UNCHANGED clientVars

HookDone(k) ==
    /\ thread[k].pc = "hook"
    /\ NextUrl(k, conn, [db EXCEPT !.row[thread[k].session] = "done"])
    /\ NoFault /\ UNCHANGED clientVars

TimerReached(k) ==
    /\ Serves(k) /\ thread[k].timer /\ Available(db)
    /\ SendUrl(k, conn, db)
    /\ NoFault /\ UNCHANGED clientVars

(* The row of the session cannot be inserted: the input is sent all the      *)
(* same, and the connection closed.                                          *)
AsksForUrl(k) ==
    \/ thread[k].pc = "hook"
    \/ Serves(k) /\ thread[k].timer
    \/ Gets(k, "STATUS") /\ Head(conn[k].up).arg = 0 /\ thread[k].session = NoSession

NoRow(k) ==
    /\ AsksForUrl(k) /\ Available(db)
    /\ Fault("db")
    /\ conn' = [Tells(k, <<Msg("START", db.given + 1)>>) EXCEPT ![k].open = FALSE, ![k].up = <<>>]
    /\ db' = [Interrupted(k) EXCEPT !.given = @ + 1]
    /\ thread' = [thread EXCEPT ![k] = [NoThread EXCEPT !.pc = "ended"]]
    /\ UNCHANGED clientVars

(* on_url(), on_target(), on_target_recv(), on_count(): for a session that   *)
(* runs.                                                                     *)
InSession(k) == thread[k].running /\ thread[k].session # NoSession

Accepts(k) ==
    LET kind == Head(conn[k].up).kind
    IN IF thread[k].nolp = "EXPECT" THEN kind = "attr"
       ELSE kind \in {"URL", "TARGET", "COUNT"} /\ InSession(k)

Report(k) ==
    /\ Serves(k) /\ conn[k].up # <<>> /\ Accepts(k)
    /\ Consumed(k)
    /\ thread' = [thread EXCEPT ![k].nolp = IF Head(conn[k].up).kind = "TARGET" THEN "EXPECT" ELSE "CMD"]
    /\ NoFault /\ UNCHANGED <<mbc, lib, worker, db>>

(* Anything else ends the connection: other bytes than attributes where      *)
(* attributes are expected, a report without a session; a statement fails.   *)
Refuse(k) ==
    /\ Serves(k) /\ conn[k].up # <<>> /\ ~Accepts(k)
    /\ Head(conn[k].up).kind # "STATUS" \/ thread[k].nolp = "EXPECT"
    /\ Ends(k) /\ NoFault

NotStored(k) ==
    /\ Serves(k) /\ conn[k].up # <<>> /\ Accepts(k)
    /\ Fault("db") /\ Ends(k)

(* The client is gone; or KILL-ALL: thr_signal().                            *)
ClientGone(k) ==
    /\ Serves(k) /\ ~conn[k].open /\ conn[k].up = <<>>
    /\ Ends(k) /\ NoFault

Killed(k) ==
    /\ Serves(k) /\ Fault("kill") /\ Ends(k)

-----------------------------------------------------------------------------
(* A user adds input; a connection breaks.                                   *)
AddInput ==
    /\ db.added < MaxInputs
    /\ db' = [db EXCEPT !.added = @ + 1]
    /\ NoFault /\ UNCHANGED <<conn, mbc, lib, worker, thread>>

Cut(k) ==
    /\ conn[k].open /\ Fault("cut")
    /\ conn' = [conn EXCEPT ![k].open = FALSE, ![k].up = <<>>, ![k].down = <<>>]
    /\ UNCHANGED <<mbc, lib, worker, thread, db>>

ClientMain    == Reconnect \/ (\E k \in Conn : LogOn(k)) \/ OnConfigRecv \/ OnStart \/ EvIdle
                   \/ EvSlaveLost \/ Joined
SessionThread == SetRunning \/ ReadExit \/ Stopped
WorkerThread(w) == Visit(w) \/ FindTarget(w) \/ Attributes(w) \/ Park(w) \/ Exit(w)
SlaveThread(k)  == StatusRunning(k) \/ StatusIdle(k) \/ HookDone(k) \/ TimerReached(k)
                   \/ Report(k) \/ Refuse(k) \/ ClientGone(k)
Environment   == StartAgain \/ MasterLost \/ EvSignal \/ AddInput
                   \/ \E k \in Conn : Cut(k) \/ Killed(k) \/ NoRow(k) \/ NotStored(k)

Next ==
    \/ ClientMain \/ SessionThread \/ Environment
    \/ \E w \in Worker : WorkerThread(w)
    \/ \E k \in Conn : SlaveThread(k)

(* Threads run.  Pages come to an end: curl has a timeout.                   *)
Fairness ==
    /\ WF_vars(ClientMain) /\ WF_vars(SessionThread)
    /\ \A w \in Worker : WF_vars(WorkerThread(w))
    /\ \A k \in Conn : WF_vars(SlaveThread(k))

Spec == Init /\ [][Next]_vars /\ Fairness

-----------------------------------------------------------------------------
(* A session that is running, or in its hook, is that of a thread which will *)
(* finish it: none stays behind when connections and clients go.             *)
RowsOwned ==
    \A i \in Input : db.row[i] \in {"running", "hook"} =>
      \E k \in Conn : thread[k].pc \in {"main", "hook"} /\ thread[k].session = i

(* What is stored with a session was found by the crawl of its input, over   *)
(* any number of sessions and connections.                                   *)
ReportsRight ==
    \A k \in Conn :
      Serves(k) /\ conn[k].up # <<>> /\ Accepts(k) => Head(conn[k].up).arg = thread[k].session

(* A client that waits for input has nothing left of an earlier crawl: no    *)
(* worker, no thread, and no EXIT in the pipe that would end the next one.   *)
CleanStart ==
    "late" \notin faults /\ mbc.state \in {"STOPPED", "WAIT_TOKEN"} =>
      Alive = {} /\ lib.thr = "none" /\ lib.pipe = 0 /\ ~mbc.idle

(* Every session that is started ends, however the connection and the crawl  *)
(* do, if the thread of the session is not late.                             *)
SessionsEnd ==
    \A i \in Input : db.row[i] \in {"running", "hook"} ~>
                       db.row[i] \in {"done", "interrupted"} \/ "late" \in faults
=============================================================================
