------------------------------ MODULE MultiPeek ------------------------------
(***************************************************************************)
(* The I/O thread of libmetha (io.c): workers have it look up the type of  *)
(* many URLs at once and wait for the answers (lm_multipeek_add() and      *)
(* lm_multipeek_wait(), called by lm_worker_sort()).                       *)
(*                                                                         *)
(* A worker puts a peek in a queue and writes to a pipe; the thread gives  *)
(* it to libcurl, which says how many transfers are running; when there    *)
(* are fewer than before, those that are finished go to the list of their  *)
(* worker.  libcurl and epoll are modelled as the code uses them.          *)
(***************************************************************************)
EXTENDS Naturals, Sequences, FiniteSets, SequencesExt

CONSTANTS
    Worker,
    MaxPeeks,     \* bound: peeks of a page of each worker
    MaxSorts,     \* bound: pages that each worker sorts
    SocketErrors  \* whether sockets may report EPOLLERR

ASSUME PeekAssumption == MaxPeeks \in [Worker -> Nat] /\ MaxSorts \in [Worker -> Nat] /\ SocketErrors \in BOOLEAN

VARIABLES
    at,         \* where each worker is
    asked,      \* the peeks of the page so far; their identifiers are 1..asked
    total,      \* iohandle_t.total
    waiting,    \* iohandle_t.waiting
    done,       \* iohandle_t.done
    got,        \* what lm_multipeek_wait() has returned for the page
    sorts,      \* pages so far
    queue,      \* io_t.queue
    pipe,       \* io_t.msg_fd
    added,      \* libcurl: handles that were added and not looked at yet,
    active,     \* transfers,
    msgs,       \* and results nobody has read
    abrupt,     \* those of transfers that ended in the call that began them, or by an error
    nrunning, prev_running,
    timeout,    \* epoll_wait() has a time-out
    io          \* where the thread is: at epoll_wait(), in check_completed(), stopped

workers == <<at, asked, total, waiting, got, sorts>>
curl    == <<added, active, msgs, abrupt>>
thread  == <<nrunning, prev_running, timeout, io>>
vars    == <<workers, done, queue, pipe, curl, thread>>

Peek == UNION {{w} \X (1..MaxPeeks[w]) : w \in Worker}

Init ==
    /\ at = [w \in Worker |-> "sort"]
    /\ asked = [w \in Worker |-> 0] /\ total = [w \in Worker |-> 0]
    /\ waiting = [w \in Worker |-> FALSE]
    /\ got = [w \in Worker |-> {}] /\ sorts = [w \in Worker |-> 0]
    /\ done = [w \in Worker |-> <<>>]
    /\ queue = <<>> /\ pipe = <<>>
    /\ added = {} /\ active = {} /\ msgs = {} /\ abrupt = {}
    /\ nrunning = 0 /\ prev_running = 0 /\ timeout = TRUE /\ io = "poll"

-----------------------------------------------------------------------------
(* lm_multipeek_add(): under the lock of the queue, ...                      *)
AddToQueue(w) ==
    /\ at[w] = "sort" /\ asked[w] < MaxPeeks[w] /\ sorts[w] < MaxSorts[w]
    /\ asked' = [asked EXCEPT ![w] = @ + 1]
    /\ queue' = Append(queue, <<w, asked'[w]>>)
    /\ at' = [at EXCEPT ![w] = "inform"]
    /\ UNCHANGED <<total, waiting, got, sorts, done, pipe, curl, thread>>

(* ... and without it.                                                       *)
Inform(w) ==
    /\ at[w] = "inform"
    /\ total' = [total EXCEPT ![w] = @ + 1]
    /\ pipe' = Append(pipe, "ADD")
    /\ at' = [at EXCEPT ![w] = "sort"]
    /\ UNCHANGED <<asked, waiting, got, sorts, done, queue, curl, thread>>

(* lm_worker_sort() has looked at all URLs: it waits for those it asked for. *)
Sorted(w) ==
    /\ at[w] = "sort" /\ sorts[w] < MaxSorts[w]
    /\ at' = [at EXCEPT ![w] = IF asked[w] = 0 THEN "next" ELSE "wait"]
    /\ UNCHANGED <<asked, total, waiting, got, sorts, done, queue, pipe, curl, thread>>

(* Mutant of MustBlock: the list of done transfers is not looked at.         *)
MustBlockNever(w) == FALSE

MustBlock(w) == done[w] = <<>>

(* lm_multipeek_wait(): the last of the list.                                *)
Popped(w) ==
    /\ got' = [got EXCEPT ![w] = @ \cup (IF done[w] = <<>> THEN {} ELSE {Last(done[w])})]
    /\ done' = [done EXCEPT ![w] = IF @ = <<>> THEN @ ELSE Front(@)]
    /\ total' = [total EXCEPT ![w] = @ - 1]
    /\ at' = [at EXCEPT ![w] = IF done[w] = <<>> THEN "crashed" ELSE "wait"]

WaitPop(w) ==
    /\ at[w] = "wait" /\ total[w] > 0 /\ ~MustBlock(w)
    /\ Popped(w)
    /\ UNCHANGED <<asked, waiting, sorts, queue, pipe, curl, thread>>

WaitBlock(w) ==
    /\ at[w] = "wait" /\ total[w] > 0 /\ MustBlock(w)
    /\ waiting' = [waiting EXCEPT ![w] = TRUE]
    /\ at' = [at EXCEPT ![w] = "blocked"]
    /\ UNCHANGED <<asked, total, got, sorts, done, queue, pipe, curl, thread>>

(* pthread_cond_wait() returns; it is not called again if nothing is done.   *)
WaitResume(w) ==
    /\ at[w] = "woken"
    /\ waiting' = [waiting EXCEPT ![w] = FALSE]
    /\ Popped(w)
    /\ UNCHANGED <<asked, sorts, queue, pipe, curl, thread>>

WaitOver(w) ==
    /\ at[w] = "wait" /\ total[w] = 0
    /\ at' = [at EXCEPT ![w] = "next"]
    /\ UNCHANGED <<asked, total, waiting, got, sorts, done, queue, pipe, curl, thread>>

(* Another page, or the worker ends.                                         *)
NextPage(w) ==
    /\ at[w] = "next"
    /\ at' = [at EXCEPT ![w] = IF sorts[w] + 1 = MaxSorts[w] THEN "end" ELSE "sort"]
    /\ sorts' = [sorts EXCEPT ![w] = @ + 1]
    /\ asked' = [asked EXCEPT ![w] = 0] /\ got' = [got EXCEPT ![w] = {}]
    /\ UNCHANGED <<total, waiting, done, queue, pipe, curl, thread>>

(* lm_iothr_stop(), after the workers have ended.                            *)
Stop ==
    /\ \A w \in Worker : at[w] = "end"
    /\ io # "stop" /\ ~Contains(pipe, "STOP")
    /\ pipe' = Append(pipe, "STOP")
    /\ UNCHANGED <<workers, done, queue, curl, thread>>

-----------------------------------------------------------------------------
(* Mutant of Pending: the queue keeps what was taken.                        *)
PendingKept == queue

Pending == <<>>

(* lm_iothr_check_pending(): libcurl asks to be called at once.              *)
ReadMessage ==
    /\ io = "poll" /\ pipe # <<>>
    /\ pipe' = Tail(pipe)
    /\ IF Head(pipe) = "STOP"
       THEN io' = "stop" /\ UNCHANGED <<queue, added, timeout>>
       ELSE /\ added' = added \cup ToSet(queue)
            /\ timeout' = (timeout \/ queue # <<>>)
            /\ queue' = Pending
            /\ UNCHANGED io
    /\ UNCHANGED <<workers, done, active, msgs, abrupt, nrunning, prev_running>>

(* curl_multi_socket_action(): some transfers end, those that were added     *)
(* have begun; libcurl sets a time-out or takes it back, as it has to when   *)
(* nothing is running.                                                       *)
SocketAction(ends, failed) ==
    /\ abrupt' = abrupt \cup (ends \cap (added \cup failed))
    /\ active' = (active \cup added) \ ends
    /\ added' = {}
    /\ msgs' = msgs \cup ends
    /\ nrunning' = Cardinality(active')

(* lm_iothr_timer_reached().                                                 *)
TimerReached ==
    /\ io = "poll" /\ timeout
    /\ \E ends \in SUBSET (active \cup added) : SocketAction(ends, {})
    /\ timeout' \in {t \in BOOLEAN : nrunning' = 0 => t}
    /\ io' = "check"
    /\ UNCHANGED <<workers, done, queue, pipe, prev_running>>

(* lm_iothr_fd_event().                                                      *)
FdEvent(p, ends) ==
    /\ io = "poll" /\ p \in active
    /\ SocketAction(ends, {})
    /\ timeout' \in {t \in BOOLEAN : nrunning' = 0 => ~t}
    /\ io' = "check"
    /\ UNCHANGED <<workers, done, queue, pipe, prev_running>>

(* ... on an error returns without a look at what is completed.              *)
FdError(p) ==
    /\ SocketErrors
    /\ io = "poll" /\ p \in active
    /\ \E ends \in SUBSET {p} : SocketAction(ends, {p})
    /\ timeout' \in {t \in BOOLEAN : nrunning' = 0 => ~t}
    /\ UNCHANGED <<workers, done, queue, pipe, prev_running, io>>

(* Mutant of Previous: what was running is not remembered.                   *)
PreviousUnset == 0

Previous == nrunning

Completed == prev_running > nrunning /\ msgs # {}

(* lm_iothr_check_completed(): under the lock of the worker's handle.        *)
CheckOne ==
    /\ io = "check" /\ Completed
    /\ \E p \in msgs :
         /\ msgs' = msgs \ {p} /\ abrupt' = abrupt \ {p}
         /\ done' = [done EXCEPT ![p[1]] = Append(@, p)]
         /\ at' = [at EXCEPT ![p[1]] = IF waiting[p[1]] THEN "woken" ELSE @]
    /\ UNCHANGED <<asked, total, waiting, got, sorts, queue, pipe, added, active, thread>>

CheckDone ==
    /\ io = "check" /\ ~Completed
    /\ prev_running' = Previous
    /\ io' = "poll"
    /\ UNCHANGED <<workers, done, queue, pipe, curl, nrunning, timeout>>

-----------------------------------------------------------------------------
WorkerStep(w) ==
    \/ AddToQueue(w) \/ Inform(w) \/ Sorted(w)
    \/ WaitPop(w) \/ WaitBlock(w) \/ WaitResume(w) \/ WaitOver(w) \/ NextPage(w)

Over == io = "stop" /\ UNCHANGED vars

Next ==
    \/ \E w \in Worker : WorkerStep(w)
    \/ Stop \/ ReadMessage \/ TimerReached \/ CheckOne \/ CheckDone
    \/ \E p \in Peek : FdError(p) \/ \E ends \in SUBSET (active \cup added) : FdEvent(p, ends)
    \/ Over

(* Threads go on; epoll_wait() tells of everything that is ready, and the    *)
(* other side of a transfer answers, or libcurl gives up on it.              *)
Spec ==
    /\ Init /\ [][Next]_vars
    /\ \A w \in Worker : WF_vars(WorkerStep(w))
    /\ WF_vars(Stop) /\ WF_vars(CheckOne \/ CheckDone) /\ WF_vars(TimerReached)
    /\ SF_vars(ReadMessage)
    /\ \A p \in Peek : SF_vars(FdEvent(p, {p}))

-----------------------------------------------------------------------------
(* Every peek a worker asked for is in one place, from the queue to what the *)
(* worker got, and total, which the worker changes without a lock, counts    *)
(* those that are to come.                                                   *)
Has(w, peeks) == {p \in peeks : p[1] = w}
Places(w) == <<Has(w, ToSet(queue)), Has(w, added), Has(w, active), Has(w, msgs),
               ToSet(done[w]), got[w]>>
EveryPeekOnce ==
    \A w \in Worker :
      /\ UNION ToSet(Places(w)) = {w} \X (1..asked[w])
      /\ \A i, j \in 1..6 : i # j => Places(w)[i] \cap Places(w)[j] = {}
      /\ total[w] = asked[w] - Cardinality(got[w]) - (IF at[w] = "inform" THEN 1 ELSE 0)

(* lm_multipeek_wait() takes a transfer from a list that holds one: the      *)
(* condition is waited for once and not looked at again.                     *)
NeverEmpty == \A w \in Worker : at[w] # "crashed" /\ (at[w] = "woken" => done[w] # <<>>)

(* A worker that waits gets a transfer, although what is finished is only    *)
(* read when fewer are running than before, and another worker may have      *)
(* added one meanwhile.  It may wait in vain only if nothing is running any  *)
(* more, and a transfer ended in the call that began it or by a socket       *)
(* error, which leaves no event that would have it read.                     *)
Overlooked == active \cup added = {} /\ abrupt # {}
WaitEnds == \A w \in Worker : at[w] = "blocked" ~> (at[w] # "blocked" \/ Overlooked)
=============================================================================
