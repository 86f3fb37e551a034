------------------------------ MODULE WorkerPool ------------------------------
(***************************************************************************)
(* The worker threads of a crawling session (libmetha/worker.c) and the    *)
(* thread that starts and stops them (libmetha/metha.c).                   *)
(*                                                                         *)
(* A worker crawls the URLs of its own table, and when it runs out of them *)
(* it parks itself in the waiting queue.  A worker that has URLs to spare  *)
(* (or, when workers are spread, that finds a pending host) hands work to  *)
(* the parked ones.  When every worker is parked the session is idle, an   *)
(* EXIT message is written to the message pipe, and the main thread stops  *)
(* and joins the workers.                                                  *)
(*                                                                         *)
(* One action is one critical section: what happens between taking a lock  *)
(* and the next blocking call is one step, and a thread that holds a lock  *)
(* while it blocks on another one has a program counter between the two.   *)
(* URLs are counted, not named.  The crawler's depth limit is 0 (no limit, *)
(* urlengine.c:385) and external peeking is off.  A call of the URL engine *)
(* is a single step here; module HostTable takes the calls that work on    *)
(* shared hosts apart, and module UrlHandle the tables of URLs.            *)
(***************************************************************************)
EXTENDS Integers, Sequences, FiniteSets, Functions

CONSTANTS
    N,           \* number of worker threads, m->num_threads
    Hosts,       \* host names
    Home,        \* the host of the URLs given on the command line
    NoHost,      \* "no host" marker
    NoOne,       \* "nobody holds the lock" marker
    Spread,      \* LM_CRFLAG_SPREAD_WORKERS of the crawler
    External,    \* LM_CRFLAG_EXTERNAL of the crawler
    InitUrls,    \* argc: number of URLs the session starts with
    MaxUrls,     \* bound: URLs that exist in the crawled web
    MaxLinks,    \* bound: internal links found on one page
    MaxSignals,  \* bound: EXIT signals sent by the user of the library
    FailingInit  \* the workers whose lm_worker_init() may fail

Workers == 1..N
Slots   == 0..(N-1)

ASSUME NAssumption == N \in Nat \ {0}
ASSUME HostAssumption == Home \in Hosts /\ NoHost \notin Hosts
ASSUME NoOneAssumption == NoOne \notin Workers
ASSUME FlagAssumption == Spread \in BOOLEAN /\ External \in BOOLEAN
ASSUME UrlAssumption ==
    InitUrls \in Nat /\ MaxUrls \in Nat /\ MaxLinks \in Nat /\ InitUrls <= MaxUrls
ASSUME SignalAssumption == MaxSignals \in Nat /\ FailingInit \subseteq Workers

VARIABLES
    mpc,           \* what the main thread does: loop, stop, join or done
    mi,            \* the worker the main thread stops or joins next
    msgFd,         \* number of EXIT messages in the pipe m->msg_fd
    signals,       \* EXIT signals the user has sent so far
    pc,            \* what each worker does
    state,         \* worker_t.state
    message,       \* worker_t.message
    lock,          \* holder of worker_t.lock
    rw,            \* writer that holds m->w_lk_num_waiting
    reply,         \* holder of m->w_lk_reply
    waitingQueue,  \* m->waiting_queue
    numWaiting,    \* m->w_num_waiting
    giveX,         \* locals x, n and per_worker of the worker that replies
    giveN,
    givePer,
    top,           \* URLs in the top list of each worker's table
    below,         \* URLs in the lists below the top one
    cur,           \* uehandle_t.host_ent
    link,          \* a URL of another host that is still in the worker's hands
    pend,          \* the stack of pending hosts, ue_t.pending
    known,         \* the hosts that have a host_ent
    hlist,         \* URLs stored with a host, host_ent.list
    left,          \* URLs of the web that no page has mentioned yet
    settled        \* URLs that were crawled or discarded

mainVars == <<mpc, mi, msgFd, signals>>
giveVars == <<giveX, giveN, givePer>>
poolVars == <<state, message, lock, rw, reply, waitingQueue, numWaiting,
              giveVars>>
workVars == <<top, below, cur, link, pend, known, hlist, left, settled>>
vars     == <<mainVars, pc, poolVars, workVars>>

-----------------------------------------------------------------------------
(* start_worker_threads(): each worker gets one of the initial URLs, and the *)
(* last worker gets all that remain.                                         *)
Share(w) ==
    IF w < N THEN (IF w <= InitUrls THEN 1 ELSE 0)
             ELSE (IF N <= InitUrls THEN InitUrls - (N - 1) ELSE 0)

(* worker_t is calloc'ed: its state is WAITING and its message NONE.         *)
Init ==
    /\ mpc = "loop" /\ mi = 1 /\ msgFd = 0 /\ signals = 0
    /\ pc = [w \in Workers |-> "init"]
    /\ state = [w \in Workers |-> "WAITING"]
    /\ message = [w \in Workers |-> "NONE"]
    /\ lock = [w \in Workers |-> NoOne]
    /\ rw = NoOne /\ reply = NoOne
    /\ waitingQueue = [i \in Slots |-> NoOne]
    /\ numWaiting = 0
    /\ giveX = 0 /\ giveN = 0 /\ givePer = 0
    /\ top = [w \in Workers |-> Share(w)]
    /\ below = [w \in Workers |-> 0]
    /\ cur = [w \in Workers |-> Home]
    /\ link = [w \in Workers |-> NoHost]
    /\ pend = <<>> /\ known = {Home}
    /\ hlist = [h \in Hosts |-> 0]
    /\ left = MaxUrls - InitUrls
    /\ settled = 0

Goto(w, l) == pc' = [pc EXCEPT ![w] = l]
Own(w)     == top[w] + below[w]
Last(s)    == s[Len(s)]
Front(s)   == SubSeq(s, 1, Len(s) - 1)

-----------------------------------------------------------------------------
(* lm_worker_main(): the part before the loop.                               *)
WorkerInit(w) ==
    /\ pc[w] = "init"
    /\ Goto(w, "next")
    /\ UNCHANGED <<mainVars, poolVars, workVars>>

(* lm_worker_init() fails: the thread returns without a notification.        *)
WorkerInitFails(w) ==
    /\ pc[w] = "init" /\ w \in FailingInit
    /\ Goto(w, "exited")
    /\ UNCHANGED <<mainVars, poolVars, workVars>>

(* ue_set_hostent(): the host's URLs become the top list of worker w.        *)
TakeHost(w, h) ==
    /\ cur' = [cur EXCEPT ![w] = h]
    /\ below' = [below EXCEPT ![w] = Own(w)]
    /\ top' = [top EXCEPT ![w] = hlist[h]]
    /\ hlist' = [hlist EXCEPT ![h] = 0]

(* ue_next(): pop a URL, and push an empty list for what it will yield.      *)
NextUrl(w) ==
    /\ pc[w] = "next" /\ Own(w) > 0
    /\ below' = [below EXCEPT ![w] = Own(w) - 1]
    /\ top' = [top EXCEPT ![w] = 0]
    /\ Goto(w, "fetch")
    /\ UNCHANGED <<mainVars, poolVars, cur, link, pend, known, hlist, left, settled>>

(* Out of URLs, but a host is pending and the crawler may leave its host.    *)
NextHost(w) ==
    /\ pc[w] = "next" /\ Own(w) = 0
    /\ External /\ pend # <<>>
    /\ pend' = Front(pend)
    /\ TakeHost(w, Last(pend))
    /\ UNCHANGED <<mainVars, pc, poolVars, link, known, left, settled>>

(* Mutants of OutOfUrls: only the top list is looked at; the pending stack   *)
(* is not looked at.                                                         *)
OutOfTopUrls(w) ==
    /\ pc[w] = "next" /\ top[w] = 0
    /\ ~(External /\ pend # <<>>)
    /\ Goto(w, "waitLock")
    /\ UNCHANGED <<mainVars, poolVars, workVars>>

OutOfUrlsOnHost(w) ==
    /\ pc[w] = "next" /\ Own(w) = 0
    /\ Goto(w, "waitLock")
    /\ UNCHANGED <<mainVars, poolVars, workVars>>

(* No URL in any list and no host to go to: lm_worker_wait().                *)
OutOfUrls(w) ==
    /\ pc[w] = "next" /\ Own(w) = 0
    /\ ~(External /\ pend # <<>>)
    /\ Goto(w, "waitLock")
    /\ UNCHANGED <<mainVars, poolVars, workVars>>

(* ue_get_hostent(..., 1): find the entry of host h, or create it and push   *)
(* it onto the stack of pending hosts.                                       *)
GetHostent(h) ==
    IF h \in known THEN UNCHANGED <<known, pend>>
                   ELSE known' = known \cup {h} /\ pend' = Append(pend, h)

(* lm_worker_perform(), a page: k links to the same host stay in the list of *)
(* found URLs; ue_add() of a link to another host g creates g's entry.       *)
FetchPage(w) ==
    /\ pc[w] = "fetch"
    /\ \E k \in 0..MaxLinks, g \in (Hosts \cup {NoHost}) \ {cur[w]} :
         LET new == IF g = NoHost THEN k ELSE k + 1 IN
         /\ new <= left
         /\ left' = left - new
         /\ top' = [top EXCEPT ![w] = k]
         /\ link' = [link EXCEPT ![w] = g]
         /\ IF g = NoHost THEN UNCHANGED <<known, pend>> ELSE GetHostent(g)
    /\ settled' = settled + 1
    /\ Goto(w, "sort")
    /\ UNCHANGED <<mainVars, poolVars, below, cur, hlist>>

(* lm_worker_sort() after a page: ue_move_to_secondary() stores the external *)
(* URL with its host, or it is discarded when the crawler stays on its host. *)
SortPage(w) ==
    /\ pc[w] = "sort"
    /\ link' = [link EXCEPT ![w] = NoHost]
    /\ IF link[w] # NoHost /\ External
       THEN hlist' = [hlist EXCEPT ![link[w]] = @ + 1] ELSE UNCHANGED hlist
    /\ settled' = IF link[w] # NoHost /\ ~External THEN settled + 1 ELSE settled
    /\ Goto(w, "check")
    /\ UNCHANGED <<mainVars, poolVars, top, below, cur, pend, known, left>>

(* URLs that came out of a host's list may still carry LM_URL_EXTERNAL, and  *)
(* lm_worker_sort() moves those back (lm_worker_bind_url) or discards them.  *)
(* Any number of the n URLs of w's top list may carry the flag.              *)
Flagged(h, n) == IF h = Home THEN {0} ELSE 0..n

SortBack(h, r) ==
    /\ hlist' = IF External THEN [hlist EXCEPT ![h] = @ + r] ELSE hlist
    /\ settled' = IF External THEN settled ELSE settled + r

(* lm_worker_perform(), a redirect to the same host: ue_revert() drops the   *)
(* empty list and adds the URL to the list the current URL came from, which  *)
(* holds j other URLs; lm_worker_sort() then sorts that whole list again.    *)
FetchRedirect(w) ==
    /\ pc[w] = "fetch" /\ left > 0
    /\ left' = left - 1
    /\ \E j \in 0..below[w] : \E r \in Flagged(cur[w], j) :
         /\ top' = [top EXCEPT ![w] = 1 + j - r]
         /\ below' = [below EXCEPT ![w] = @ - j]
         /\ hlist' = IF External THEN [hlist EXCEPT ![cur[w]] = @ + r] ELSE hlist
         /\ settled' = settled + 1 + (IF External THEN 0 ELSE r)
    /\ Goto(w, "check")
    /\ UNCHANGED <<mainVars, poolVars, cur, link, pend, known>>

(* lm_worker_perform(), a redirect to another host: ue_move_to_secondary(),  *)
(* whether or not the crawler may leave its host.                            *)
FetchRedirectOut(w) ==
    /\ pc[w] = "fetch" /\ left > 0
    /\ left' = left - 1
    /\ settled' = settled + 1
    /\ \E g \in Hosts \ {cur[w]} :
         link' = [link EXCEPT ![w] = g] /\ GetHostent(g)
    /\ Goto(w, "move")
    /\ UNCHANGED <<mainVars, poolVars, top, below, cur, hlist>>

MoveToSecondary(w) ==
    /\ pc[w] = "move"
    /\ hlist' = [hlist EXCEPT ![link[w]] = @ + 1]
    /\ link' = [link EXCEPT ![w] = NoHost]
    /\ Goto(w, "check")
    /\ UNCHANGED <<mainVars, poolVars, top, below, cur, pend, known, left, settled>>

-----------------------------------------------------------------------------
(* "Check for a message": w->message is read without the lock.               *)
CheckMessage(w) ==
    /\ pc[w] = "check"
    /\ IF message[w] = "STOP"
       THEN Goto(w, "exited") /\ state' = [state EXCEPT ![w] = "STOPPED"]
       ELSE Goto(w, "tryReply") /\ UNCHANGED state
    /\ UNCHANGED <<mainVars, message, lock, rw, reply, waitingQueue, numWaiting,
                   giveVars, workVars>>

(* Under the read lock: is another worker in need of URLs, have we any, and  *)
(* is nobody else replying?                                                  *)
TryReply(w) ==
    /\ pc[w] = "tryReply" /\ rw = NoOne
    /\ IF numWaiting > 0 /\ top[w] > 0 /\ reply = NoOne
       THEN reply' = w /\ Goto(w, "replyLock")
       ELSE UNCHANGED reply /\ Goto(w, "next")
    /\ UNCHANGED <<mainVars, state, message, lock, rw, waitingQueue, numWaiting,
                   giveVars, workVars>>

(* The write lock is ours; the number of waiting workers may have changed.   *)
(* Unless workers are spread, there must be more URLs than waiting workers:  *)
(* a loop of no rounds stands for the test that fails.                       *)
ReplyLock(w) ==
    /\ pc[w] = "replyLock" /\ rw = NoOne
    /\ rw' = w
    /\ giveX' = IF Spread THEN numWaiting - 1 ELSE 0
    /\ giveN' = IF Spread \/ numWaiting < top[w] THEN numWaiting ELSE 0
    /\ givePer' = top[w] \div (numWaiting + 1)
    /\ Goto(w, "give")
    /\ UNCHANGED <<mainVars, state, message, lock, reply, waitingQueue,
                   numWaiting, workVars>>

(* Mutant of Wake: the signal is forgotten.                                  *)
NoWake(c) == UNCHANGED pc

(* pthread_cond_signal(): has no effect unless the worker waits for it.      *)
Wake(c) == IF pc[c] = "asleep" THEN Goto(c, "woken") ELSE UNCHANGED pc

(* Mutant of Dequeue: the number of waiting workers is not decremented.      *)
NotDequeued == UNCHANGED numWaiting

(* The worker that was served leaves the queue.                              *)
Dequeue == numWaiting' = numWaiting - 1

(* How many URLs the loop over y moves to the x-th waiting worker.           *)
Batch(x, per) == x * (per + 1) - x * per

MinOf(a, b) == IF a < b THEN a ELSE b

(* Mutant of HandOver: the URLs are copied and stay with the giver.          *)
CopyUrls(w, c, k) == top' = [top EXCEPT ![c] = @ + k]

(* lm_url_swap() moves k URLs from the top list of w to that of c.           *)
HandOver(w, c, k) == top' = [[top EXCEPT ![c] = @ + k] EXCEPT ![w] = @ - k]

(* One round of the loop that divides the URLs of w's top list.              *)
GiveUrls(w) ==
    /\ pc[w] = "give" /\ ~Spread /\ giveX < giveN
    /\ LET c == waitingQueue[giveX]
           k == MinOf(Batch(giveX, givePer), top[w])
       IN /\ lock[c] = NoOne
          /\ IF state[c] = "WAITING"
             THEN /\ message' = [message EXCEPT ![c] = "CONTINUE"]
                  /\ cur' = [cur EXCEPT ![c] = cur[w]]
                  /\ HandOver(w, c, k)
                  /\ Dequeue
                  /\ Wake(c)
             ELSE UNCHANGED <<message, cur, top, numWaiting, pc>>
    /\ giveX' = giveX + 1
    /\ UNCHANGED <<giveN, givePer, mainVars, state, lock, rw, reply, waitingQueue, below, link,
                   pend, known, hlist, left, settled>>

(* One round of the loop that gives pending hosts to waiting workers.        *)
GiveHost(w) ==
    /\ pc[w] = "give" /\ Spread /\ giveX >= 0 /\ pend # <<>>
    /\ pend' = Front(pend)
    /\ LET c == waitingQueue[giveX] IN
          /\ lock[c] = NoOne
          /\ IF state[c] = "WAITING"
             THEN /\ message' = [message EXCEPT ![c] = "CONTINUE"]
                  /\ TakeHost(c, Last(pend))
                  /\ Dequeue
                  /\ Wake(c)
             ELSE UNCHANGED <<message, cur, top, below, hlist, numWaiting, pc>>
    /\ giveX' = giveX - 1
    /\ UNCHANGED <<giveN, givePer, mainVars, state, lock, rw, reply, waitingQueue, link, known,
                   left, settled>>

EndReply(w) ==
    /\ pc[w] = "give"
    /\ IF Spread THEN giveX < 0 \/ pend = <<>> ELSE giveX >= giveN
    /\ rw' = NoOne /\ reply' = NoOne
    /\ giveX' = 0 /\ giveN' = 0 /\ givePer' = 0
    /\ Goto(w, "next")
    /\ UNCHANGED <<mainVars, state, message, lock, waitingQueue, numWaiting, workVars>>

-----------------------------------------------------------------------------
(* lm_worker_wait(): take the lock of the worker, and leave at once when a   *)
(* message is already there.                                                 *)
Resume(w) ==
    /\ message' = [message EXCEPT ![w] = "NONE"]
    /\ \/ /\ message[w] = "STOP"
          /\ state' = [state EXCEPT ![w] = "STOPPED"]
          /\ Goto(w, "exited")
          /\ UNCHANGED <<top, hlist, settled>>
       \/ /\ message[w] # "STOP"
          /\ state' = [state EXCEPT ![w] = "RUNNING"]
          /\ \E r \in Flagged(cur[w], top[w]) :
                top' = [top EXCEPT ![w] = @ - r] /\ SortBack(cur[w], r)
          /\ Goto(w, IF message[w] = "CONTINUE" THEN "next" ELSE "exited")

WaitLock(w) ==
    /\ pc[w] = "waitLock" /\ lock[w] = NoOne
    /\ IF message[w] = "NONE"
       THEN /\ lock' = [lock EXCEPT ![w] = w]
            /\ Goto(w, "waitEnqueue")
            /\ UNCHANGED <<state, message, top, hlist, settled>>
       ELSE Resume(w) /\ UNCHANGED lock
    /\ UNCHANGED <<mainVars, rw, reply, waitingQueue, numWaiting, giveVars,
                   below, cur, link, pend, known, left>>

(* Mutant of NotifyIdle: off by one.                                         *)
NotifyIdleEarly(n) == msgFd' = IF n >= N - 1 THEN msgFd + 1 ELSE msgFd

(* The default event handler answers LM_EV_IDLE with an EXIT in the pipe.    *)
NotifyIdle(n) == msgFd' = IF n >= N THEN msgFd + 1 ELSE msgFd

(* Still in lm_worker_wait(), w->lock held: enter the waiting queue under    *)
(* the write lock, and sleep on the condition, which releases w->lock.       *)
WaitEnqueue(w) ==
    /\ pc[w] = "waitEnqueue" /\ rw = NoOne
    /\ waitingQueue' = [waitingQueue EXCEPT ![numWaiting] = w]
    /\ numWaiting' = numWaiting + 1
    /\ NotifyIdle(numWaiting + 1)
    /\ state' = [state EXCEPT ![w] = "WAITING"]
    /\ lock' = [lock EXCEPT ![w] = NoOne]
    /\ Goto(w, "asleep")
    /\ UNCHANGED <<mpc, mi, signals, message, rw, reply, giveVars, workVars>>

(* pthread_cond_wait() returned.                                             *)
WaitReturn(w) ==
    /\ pc[w] = "woken" /\ lock[w] = NoOne
    /\ Resume(w)
    /\ UNCHANGED <<mainVars, lock, rw, reply, waitingQueue, numWaiting, giveVars,
                   below, cur, link, pend, known, left>>

-----------------------------------------------------------------------------
(* lmetha_signal(m, LM_SIGNAL_EXIT) by the program that uses the library.    *)
SignalExit ==
    /\ signals < MaxSignals
    /\ signals' = signals + 1
    /\ msgFd' = msgFd + 1
    /\ UNCHANGED <<mpc, mi, pc, poolVars, workVars>>

(* msg_loop() reads an EXIT and returns.                                     *)
MsgLoop ==
    /\ mpc = "loop" /\ msgFd > 0
    /\ msgFd' = msgFd - 1
    /\ mpc' = "stop" /\ mi' = 1
    /\ UNCHANGED <<signals, pc, poolVars, workVars>>

(* stop_worker_threads(): post STOP to the next worker.                      *)
StopWorker ==
    /\ mpc = "stop" /\ mi <= N
    /\ lock[mi] = NoOne
    /\ message' = [message EXCEPT ![mi] = "STOP"]
    /\ IF state[mi] = "WAITING" THEN Wake(mi) ELSE UNCHANGED pc
    /\ mi' = mi + 1
    /\ UNCHANGED <<mpc, msgFd, signals, state, lock, rw, reply,
                   waitingQueue, numWaiting, giveVars, workVars>>

StopDone ==
    /\ mpc = "stop" /\ mi > N
    /\ mpc' = "join" /\ mi' = 1
    /\ UNCHANGED <<msgFd, signals, pc, poolVars, workVars>>

(* stop_worker_threads(): join the next worker.                              *)
JoinWorker ==
    /\ mpc = "join" /\ mi <= N
    /\ pc[mi] = "exited"
    /\ mi' = mi + 1
    /\ UNCHANGED <<mpc, msgFd, signals, pc, poolVars, workVars>>

SessionDone ==
    /\ mpc = "join" /\ mi > N
    /\ mpc' = "done"
    /\ UNCHANGED <<mi, msgFd, signals, pc, poolVars, workVars>>

(* The session is over; nothing moves any more.                              *)
Terminated == mpc = "done" /\ UNCHANGED vars

-----------------------------------------------------------------------------
WorkerStep(w) ==
    \/ WorkerInit(w) \/ WorkerInitFails(w)
    \/ NextUrl(w) \/ NextHost(w) \/ OutOfUrls(w)
    \/ FetchPage(w) \/ SortPage(w)
    \/ FetchRedirect(w) \/ FetchRedirectOut(w) \/ MoveToSecondary(w)
    \/ CheckMessage(w)
    \/ TryReply(w) \/ ReplyLock(w) \/ GiveUrls(w) \/ GiveHost(w) \/ EndReply(w)
    \/ WaitLock(w) \/ WaitEnqueue(w) \/ WaitReturn(w)

MainStep == MsgLoop \/ StopWorker \/ StopDone \/ JoinWorker \/ SessionDone

Next ==
    \/ \E w \in Workers : WorkerStep(w)
    \/ MainStep
    \/ SignalExit
    \/ Terminated

Spec == Init /\ [][Next]_vars

(* Every thread that can run does run: they are ordinary POSIX threads.  For *)
(* a fetch this assumes that the server answers or closes the connection,    *)
(* since libcurl is given no time limit.                                     *)
FairSpec ==
    /\ Spec
    /\ \A w \in Workers : WF_vars(WorkerStep(w))
    /\ WF_vars(MainStep)

-----------------------------------------------------------------------------
(* Properties.                                                               *)

PCs == {"init", "next", "fetch", "sort", "move", "check", "tryReply",
        "replyLock", "give", "waitLock", "waitEnqueue", "asleep", "woken", "exited"}

MainType ==
    /\ mpc \in {"loop", "stop", "join", "done"}
    /\ mi \in 1..(N+1) /\ msgFd \in Nat /\ signals \in 0..MaxSignals
    /\ pc \in [Workers -> PCs]

PoolType ==
    /\ state \in [Workers -> {"WAITING", "RUNNING", "STOPPED"}]
    /\ message \in [Workers -> {"NONE", "STOP", "CONTINUE"}]
    /\ lock \in [Workers -> Workers \cup {NoOne}]
    /\ rw \in Workers \cup {NoOne} /\ reply \in Workers \cup {NoOne}
    /\ waitingQueue \in [Slots -> Workers \cup {NoOne}]
    /\ numWaiting \in Nat
    /\ giveX \in Int /\ giveN \in Nat /\ givePer \in Nat

WorkType ==
    /\ top \in [Workers -> Nat] /\ below \in [Workers -> Nat]
    /\ cur \in [Workers -> Hosts] /\ link \in [Workers -> Hosts \cup {NoHost}]
    /\ pend \in Seq(Hosts) /\ known \subseteq Hosts
    /\ hlist \in [Hosts -> Nat] /\ left \in Nat /\ settled \in Nat

(* Every variable keeps its type: no count of URLs or of waiting workers     *)
(* falls below zero.                                                         *)
TypeOK == MainType /\ PoolType /\ WorkType

(* While the session runs, the first numWaiting entries of the waiting queue *)
(* are exactly the sleeping workers, each of them once: nobody sleeps        *)
(* without being queued, nobody is queued twice or while it runs             *)
(* (lm_worker_wait() enqueues, the replying worker takes out).               *)
QueueExact ==
    mpc = "loop" /\ rw = NoOne =>
        /\ {waitingQueue[i] : i \in 0..(numWaiting-1)} = {w \in Workers : pc[w] = "asleep"}
        /\ \A i, j \in 0..(numWaiting-1) : waitingQueue[i] = waitingQueue[j] => i = j

(* LM_EV_IDLE is raised when the last worker enters the queue, and the EXIT  *)
(* it causes ends the session: at that time no worker holds a URL.           *)
IdleMeansNoWork ==
    mpc = "loop" /\ rw = NoOne /\ numWaiting = N => \A w \in Workers : Own(w) = 0

(* ... and, if workers may leave their host, no host is pending: a worker    *)
(* looks at the pending stack before it parks, and hosts are only pushed by  *)
(* workers that will look again.                                             *)
IdleNothingPending ==
    mpc = "loop" /\ rw = NoOne /\ numWaiting = N /\ External => pend = <<>>

(* lm_worker_wait() takes w->lock and then the queue's lock; the replying    *)
(* worker takes the queue's lock and then w->lock.  They must never want     *)
(* each other's lock while the session runs.                                 *)
NoLockCycle ==
    mpc = "loop" =>
        ~ \E r, w \in Workers : pc[r] = "give" /\ pc[w] = "waitEnqueue"
                                /\ giveX \in 0..(numWaiting-1) /\ waitingQueue[giveX] = w

(* No URL is lost or crawled twice on its way between pages, workers and     *)
(* hosts: each is unmentioned, in a worker's table, in its hands, stored     *)
(* with its host, or crawled or discarded.                                   *)
UrlsConserved ==
    left + settled + SumFunction(top) + SumFunction(below) + SumFunction(hlist)
        + Cardinality({w \in Workers : pc[w] = "fetch"})
        + Cardinality({w \in Workers : link[w] # NoHost})  = MaxUrls

(* The EXIT that ended the session was the only one: none is left in the     *)
(* pipe to end the next session (msg_loop() would return at once).           *)
NoStaleExit == mpc = "done" => msgFd = 0

(* Every session ends: the workers run out of URLs, all of them sleep, the   *)
(* main thread is told, stops all of them and joins them.                    *)
SessionEnds == <>(mpc = "done")

(* The pool implements the abstract session of module CrawlSession: parked   *)
(* workers are only put back to work by workers that are at work, and the    *)
(* session is wound up only when nobody works or the user asked for it.      *)
Session == INSTANCE CrawlSession WITH
    working <- IF mpc = "loop" THEN {w \in Workers : pc[w] # "asleep"} ELSE {},
    phase   <- CASE mpc = "loop" -> "running"
                 [] mpc = "done" -> "over"
                 [] OTHER        -> "stopping",
    asked   <- signals > 0

ImplementsSession == Session!Spec
=============================================================================
