-------------------------- MODULE WorkerPoolProofs --------------------------
(***************************************************************************)
(* Proofs about WorkerPool for every number of workers, every set of hosts *)
(* and both ways of sharing work.                                          *)
(***************************************************************************)
EXTENDS WorkerPool, FiniteSetTheorems, TLAPS

(* Who holds the two locks of the pool can be read off the program counters. *)
LockInv ==
    /\ \A w \in Workers : pc[w] = "give" <=> rw = w
    /\ \A w \in Workers : pc[w] \in {"replyLock", "give"} <=> reply = w

(* The loop of the replying worker stays within the waiting queue.           *)
RoundInv ==
    rw # NoOne =>
        IF Spread THEN giveX \in -1..(numWaiting-1)
                  ELSE giveX \in 0..giveN /\ giveN - giveX <= numWaiting

(* The places of the queue whose workers still wait to be served: the loop   *)
(* that shares URLs serves from the front, the one that gives hosts from the *)
(* back.                                                                     *)
FirstWaiting == IF rw # NoOne /\ ~Spread THEN giveX ELSE 0
ToServe      == FirstWaiting..(FirstWaiting + numWaiting - 1)

(* While the session runs, no worker the loop meets has to be skipped.       *)
RoundExact ==
    rw # NoOne =>
        IF Spread THEN giveX = numWaiting - 1
                  ELSE IF giveN = 0 THEN giveX = 0 ELSE numWaiting = giveN - giveX

QueueInv ==
    /\ RoundExact
    /\ numWaiting <= N
    /\ ToServe \subseteq Slots
    /\ \A i \in ToServe : waitingQueue[i] \in Workers /\ pc[waitingQueue[i]] = "asleep"
    /\ \A w \in Workers : pc[w] = "asleep" => \E i \in ToServe : waitingQueue[i] = w
    /\ \A i, j \in ToServe : waitingQueue[i] = waitingQueue[j] => i = j

(* What a message and a state say about a worker while the session runs.     *)
MessageInv ==
    /\ \A w \in Workers : message[w] \in {"NONE", "CONTINUE"}
    /\ \A w \in Workers : message[w] = "CONTINUE" <=> pc[w] = "woken"
    /\ \A w \in Workers : pc[w] = "asleep" => state[w] = "WAITING"

Parked == {"waitLock", "waitEnqueue", "asleep"}

ParkedInv ==
    /\ \A w \in Workers : pc[w] \in Parked => top[w] = 0 /\ below[w] = 0
    /\ External /\ pend # <<>> =>
          \E w \in Workers : pc[w] \notin Parked \cup {"init", "exited"}

BaseInv == TypeOK /\ LockInv /\ RoundInv
LoopInv == mpc = "loop" => QueueInv /\ MessageInv /\ ParkedInv

-----------------------------------------------------------------------------
LEMMA LastInRange ==
  ASSUME NEW S, NEW s \in Seq(S), s # <<>>
  PROVE  Last(s) \in S /\ Front(s) \in Seq(S)
BY DEF Last, Front

(* The web a session starts with: counts of URLs are natural numbers.        *)
LEMMA ShareType == \A w \in Workers : Share(w) \in Nat
BY NAssumption, UrlAssumption DEF Share, Workers

(* Arithmetic the leaves below need.                                         *)
LEMMA DivType == \A a \in Nat, b \in Nat : a \div (b + 1) \in Nat
OBVIOUS

LEMMA MinType == \A a, b \in Nat : MinOf(a, b) \in Nat /\ b - MinOf(a, b) \in Nat
BY DEF MinOf

LEMMA BatchType == \A x, per \in Nat : Batch(x, per) = x
BY DEF Batch

(* Updates of a count keep it a natural number.                              *)
LEMMA CountUp ==
  ASSUME NEW S, NEW f \in [S -> Nat], NEW x, NEW n \in Nat
  PROVE  [f EXCEPT ![x] = @ + n] \in [S -> Nat]
<1>1. CASE x \in S
  <2>1. f[x] \in Nat /\ f[x] + n \in Nat
    BY <1>1
  <2> DEFINE m == f[x] + n
  <2>2. [f EXCEPT ![x] = m] \in [S -> Nat]
    <3> HIDE DEF m
    <3>1. m \in Nat
      BY <2>1 DEF m
    <3>2. QED
      BY <3>1
  <2>3. QED
    BY <2>2
<1>2. CASE x \notin S
  BY <1>2
<1>3. QED
  BY <1>1, <1>2

LEMMA CountDown ==
  ASSUME NEW S, NEW f \in [S -> Nat], NEW x, NEW n \in Nat, x \in S => n <= f[x]
  PROVE  [f EXCEPT ![x] = @ - n] \in [S -> Nat]
<1>1. CASE x \in S
  <2>1. f[x] \in Nat /\ f[x] - n \in Nat
    BY <1>1
  <2> DEFINE m == f[x] - n
  <2>2. [f EXCEPT ![x] = m] \in [S -> Nat]
    <3> HIDE DEF m
    <3>1. m \in Nat
      BY <2>1 DEF m
    <3>2. QED
      BY <3>1
  <2>3. QED
    BY <2>2
<1>2. CASE x \notin S
  BY <1>2
<1>3. QED
  BY <1>1, <1>2

(* Popping from and pushing on the stack of pending hosts keeps its type.    *)
LEMMA PopType ==
  ASSUME pend \in Seq(Hosts), pend # <<>>
  PROVE  Last(pend) \in Hosts /\ Front(pend) \in Seq(Hosts)
BY LastInRange

LEMMA PushType ==
  ASSUME pend \in Seq(Hosts), known \subseteq Hosts,
         NEW h \in Hosts, GetHostent(h)
  PROVE  pend' \in Seq(Hosts) /\ known' \subseteq Hosts
BY DEF GetHostent

(* A host's URLs become the top list of a worker, or of nobody when c is not *)
(* a worker.                                                                 *)
LEMMA TakeHostType ==
  ASSUME WorkType, NEW c, NEW h \in Hosts, TakeHost(c, h)
  PROVE  /\ cur' \in [Workers -> Hosts]
         /\ top' \in [Workers -> Nat] /\ below' \in [Workers -> Nat]
         /\ hlist' \in [Hosts -> Nat]
<1> USE DEF WorkType
<1>1. cur' \in [Workers -> Hosts]
  BY DEF TakeHost
<1>2. top' \in [Workers -> Nat]
  BY DEF TakeHost
<1>3. below' \in [Workers -> Nat]
  <2>1. below' = [below EXCEPT ![c] = Own(c)]
    BY DEF TakeHost
  <2>2. c \in Workers => Own(c) \in Nat
    BY DEF Own
  <2>3. QED
    BY <2>1, <2>2
<1>4. hlist' \in [Hosts -> Nat]
  BY DEF TakeHost
<1>5. QED
  BY <1>1, <1>2, <1>3, <1>4

(* lm_worker_sort() moves no more URLs out of the top list than it holds.    *)
LEMMA ResumeType ==
  ASSUME WorkType, NEW w \in Workers, Resume(w)
  PROVE  top' \in [Workers -> Nat] /\ hlist' \in [Hosts -> Nat] /\ settled' \in Nat
<1> USE FlagAssumption DEF WorkType
<1>1. CASE UNCHANGED <<top, hlist, settled>>
  BY <1>1
<1>2. CASE \E r \in Flagged(cur[w], top[w]) :
               top' = [top EXCEPT ![w] = @ - r] /\ SortBack(cur[w], r)
  <2>1. PICK r \in Flagged(cur[w], top[w]) :
               top' = [top EXCEPT ![w] = @ - r] /\ SortBack(cur[w], r)
    BY <1>2
  <2>2. top[w] \in Nat /\ r \in 0..top[w]
    BY DEF Flagged
  <2>3. top' \in [Workers -> Nat]
    BY <2>1, <2>2
  <2>4. hlist' \in [Hosts -> Nat] /\ settled' \in Nat
    BY <2>1, <2>2 DEF SortBack
  <2>5. QED
    BY <2>3, <2>4
<1>3. QED
  BY <1>1, <1>2 DEF Resume

LEMMA InitBase == Init => BaseInv
<1> USE NAssumption, HostAssumption, NoOneAssumption, UrlAssumption, SignalAssumption
<1> SUFFICES ASSUME Init PROVE BaseInv
  OBVIOUS
<1>1. TypeOK
  BY ShareType DEF Init, TypeOK, MainType, PoolType, WorkType, PCs, Workers, Slots
<1>2. LockInv /\ RoundInv
  BY DEF Init, LockInv, RoundInv
<1>3. QED
  BY <1>1, <1>2 DEF BaseInv

(* A step of a worker keeps the types of the main thread's state and of pc.   *)
LEMMA WorkerMainType ==
  ASSUME BaseInv, NEW w \in Workers, WorkerStep(w)
  PROVE  MainType'
<1>0. TypeOK /\ LockInv /\ RoundInv
  BY DEF BaseInv
<1> USE <1>0, NAssumption, NoOneAssumption, HostAssumption, FlagAssumption, UrlAssumption DEF TypeOK
<1> USE DEF MainType, PCs, mainVars
<1>1. CASE WorkerInit(w)
  BY <1>1 DEF WorkerInit, Goto
<1>2. CASE WorkerInitFails(w)
  BY <1>2 DEF WorkerInitFails, Goto
<1>3. CASE NextUrl(w)
  BY <1>3 DEF NextUrl, Own, Goto
<1>4. CASE NextHost(w)
  BY <1>4 DEF NextHost, TakeHost, Own, Goto
<1>5. CASE OutOfUrls(w)
  BY <1>5 DEF OutOfUrls, Goto
<1>6. CASE FetchPage(w)
  BY <1>6 DEF FetchPage, GetHostent, Goto
<1>7. CASE SortPage(w)
  BY <1>7 DEF SortPage, Goto
<1>8. CASE FetchRedirect(w)
  BY <1>8 DEF FetchRedirect, Flagged, Goto
<1>9. CASE FetchRedirectOut(w)
  <2>1. pc' = [pc EXCEPT ![w] = "move"] /\ UNCHANGED mainVars
    BY <1>9 DEF FetchRedirectOut, Goto
  <2>2. QED
    BY <2>1
<1>10. CASE MoveToSecondary(w)
  BY <1>10 DEF MoveToSecondary, Goto
<1>11. CASE CheckMessage(w)
  BY <1>11 DEF CheckMessage, Goto
<1>12. CASE TryReply(w)
  BY <1>12 DEF TryReply, Goto
<1>13. CASE ReplyLock(w)
  BY <1>13 DEF ReplyLock, Goto
<1>14. CASE GiveUrls(w)
  BY <1>14 DEF GiveUrls, Wake, Dequeue, Goto
<1>15. CASE GiveHost(w)
  BY <1>15 DEF GiveHost, Wake, Dequeue, TakeHost, Own, Goto
<1>16. CASE EndReply(w)
  BY <1>16 DEF EndReply, Goto
<1>17. CASE WaitLock(w)
  BY <1>17 DEF WaitLock, Resume, Flagged, SortBack, Goto
<1>18. CASE WaitEnqueue(w)
  BY <1>18 DEF WaitEnqueue, NotifyIdle, Goto
<1>19. CASE WaitReturn(w)
  BY <1>19 DEF WaitReturn, Resume, Flagged, SortBack, Goto
<1>20. QED
  BY <1>1, <1>2, <1>3, <1>4, <1>5, <1>6, <1>7, <1>8, <1>9, <1>10, <1>11, <1>12, <1>13, <1>14, <1>15, <1>16, <1>17, <1>18, <1>19 DEF WorkerStep

(* A step of a worker keeps the types of the pool's shared state.            *)
LEMMA WorkerPoolType ==
  ASSUME BaseInv, NEW w \in Workers, WorkerStep(w)
  PROVE  PoolType'
<1>0. TypeOK /\ LockInv /\ RoundInv
  BY DEF BaseInv
<1> USE <1>0, NAssumption, NoOneAssumption, HostAssumption, FlagAssumption, UrlAssumption DEF TypeOK
<1> USE DEF PoolType, MainType, poolVars, giveVars, LockInv, RoundInv
<1>1. CASE WorkerInit(w)
  BY <1>1 DEF WorkerInit, Goto
<1>2. CASE WorkerInitFails(w)
  BY <1>2 DEF WorkerInitFails, Goto
<1>3. CASE NextUrl(w)
  BY <1>3 DEF NextUrl, Own, Goto
<1>4. CASE NextHost(w)
  BY <1>4 DEF NextHost, TakeHost, Own, Goto
<1>5. CASE OutOfUrls(w)
  BY <1>5 DEF OutOfUrls, Goto
<1>6. CASE FetchPage(w)
  BY <1>6 DEF FetchPage, GetHostent, Goto
<1>7. CASE SortPage(w)
  BY <1>7 DEF SortPage, Goto
<1>8. CASE FetchRedirect(w)
  BY <1>8 DEF FetchRedirect, Flagged, Goto
<1>9. CASE FetchRedirectOut(w)
  BY <1>9 DEF FetchRedirectOut, GetHostent, Goto
<1>10. CASE MoveToSecondary(w)
  BY <1>10 DEF MoveToSecondary, Goto
<1>11. CASE CheckMessage(w)
  BY <1>11 DEF CheckMessage, Goto
<1>12. CASE TryReply(w)
  BY <1>12 DEF TryReply, Goto
<1>13. CASE ReplyLock(w)
  <2>1. top[w] \in Nat
    BY DEF WorkType
  <2>2. givePer' \in Nat
    BY <1>13, <2>1, DivType DEF ReplyLock
  <2>3. QED
    BY <1>13, <2>2 DEF ReplyLock
<1>14. CASE GiveUrls(w)
  BY <1>14 DEF GiveUrls, Wake, Dequeue, Goto
<1>15. CASE GiveHost(w)
  <2>1. giveX \in Nat /\ numWaiting - 1 \in Nat
    BY <1>15 DEF GiveHost
  <2> DEFINE c == waitingQueue[giveX]
  <2>2. message' \in [Workers -> {"NONE", "STOP", "CONTINUE"}]
    <3>1. message' = [message EXCEPT ![c] = "CONTINUE"] \/ message' = message
      BY <1>15 DEF GiveHost
    <3>2. QED
      BY <3>1
  <2>3. numWaiting' \in Nat
    <3>1. numWaiting' = numWaiting - 1 \/ numWaiting' = numWaiting
      BY <1>15 DEF GiveHost, Dequeue
    <3>2. QED
      BY <2>1, <3>1
  <2>4. giveX' = giveX - 1
        /\ UNCHANGED <<giveN, givePer, state, lock, rw, reply, waitingQueue>>
    BY <1>15 DEF GiveHost
  <2>5. QED
    BY <2>2, <2>3, <2>4
<1>16. CASE EndReply(w)
  BY <1>16 DEF EndReply, Goto
<1>17. CASE WaitLock(w)
  BY <1>17 DEF WaitLock, Resume, Flagged, SortBack, Goto
<1>18. CASE WaitEnqueue(w)
  <2>1. waitingQueue' = [waitingQueue EXCEPT ![numWaiting] = w]
        /\ numWaiting' = numWaiting + 1
        /\ state' = [state EXCEPT ![w] = "WAITING"]
        /\ lock' = [lock EXCEPT ![w] = NoOne]
        /\ UNCHANGED <<message, rw, reply, giveX, giveN, givePer>>
    BY <1>18 DEF WaitEnqueue
  <2>2. waitingQueue' \in [Slots -> Workers \cup {NoOne}]
    BY <2>1
  <2>3. state' \in [Workers -> {"WAITING", "RUNNING", "STOPPED"}]
        /\ lock' \in [Workers -> Workers \cup {NoOne}]
    BY <2>1
  <2>4. QED
    BY <2>1, <2>2, <2>3
<1>19. CASE WaitReturn(w)
  BY <1>19 DEF WaitReturn, Resume, Flagged, SortBack, Goto
<1>20. QED
  BY <1>1, <1>2, <1>3, <1>4, <1>5, <1>6, <1>7, <1>8, <1>9, <1>10, <1>11, <1>12, <1>13, <1>14, <1>15, <1>16, <1>17, <1>18, <1>19 DEF WorkerStep

(* A step of a worker keeps the types of tables, hosts and counts of URLs.    *)
LEMMA WorkerWorkType ==
  ASSUME BaseInv, NEW w \in Workers, WorkerStep(w)
  PROVE  WorkType'
<1>0. TypeOK /\ LockInv /\ RoundInv
  BY DEF BaseInv
<1> USE <1>0, NAssumption, NoOneAssumption, HostAssumption, FlagAssumption, UrlAssumption DEF TypeOK
<1> USE DEF WorkType, MainType, PoolType, workVars
<1>1. CASE WorkerInit(w)
  BY <1>1 DEF WorkerInit, Goto
<1>2. CASE WorkerInitFails(w)
  BY <1>2 DEF WorkerInitFails, Goto
<1>3. CASE NextUrl(w)
  BY <1>3 DEF NextUrl, Own, Goto
<1>4. CASE NextHost(w)
  <2> DEFINE h == Last(pend)
  <2>1. h \in Hosts /\ pend' \in Seq(Hosts)
    BY <1>4, PopType DEF NextHost
  <2>2. QED
    BY <1>4, <2>1, TakeHostType DEF NextHost
<1>5. CASE OutOfUrls(w)
  BY <1>5 DEF OutOfUrls, Goto
<1>6. CASE FetchPage(w)
  <2>1. PICK k \in 0..MaxLinks, g \in (Hosts \cup {NoHost}) \ {cur[w]} :
          LET new == IF g = NoHost THEN k ELSE k + 1 IN
          /\ new <= left
          /\ left' = left - new
          /\ top' = [top EXCEPT ![w] = k]
          /\ link' = [link EXCEPT ![w] = g]
          /\ IF g = NoHost THEN UNCHANGED <<known, pend>> ELSE GetHostent(g)
    BY <1>6 DEF FetchPage
  <2>2. pend' \in Seq(Hosts) /\ known' \subseteq Hosts
    BY <2>1, PushType
  <2>3. k \in Nat /\ left' \in Nat
    BY <2>1
  <2>4. settled' = settled + 1 /\ UNCHANGED <<below, cur, hlist>>
    BY <1>6 DEF FetchPage
  <2>5. QED
    BY <2>1, <2>2, <2>3, <2>4
<1>7. CASE SortPage(w)
  BY <1>7 DEF SortPage, Goto
<1>8. CASE FetchRedirect(w)
  <2>1. PICK j \in 0..below[w] : \E r \in Flagged(cur[w], j) :
          /\ top' = [top EXCEPT ![w] = 1 + j - r]
          /\ below' = [below EXCEPT ![w] = @ - j]
          /\ hlist' = IF External THEN [hlist EXCEPT ![cur[w]] = @ + r] ELSE hlist
          /\ settled' = settled + 1 + (IF External THEN 0 ELSE r)
    BY <1>8 DEF FetchRedirect
  <2>2. PICK r \in Flagged(cur[w], j) :
          /\ top' = [top EXCEPT ![w] = 1 + j - r]
          /\ hlist' = IF External THEN [hlist EXCEPT ![cur[w]] = @ + r] ELSE hlist
          /\ settled' = settled + 1 + (IF External THEN 0 ELSE r)
    BY <2>1
  <2>3. j \in Nat /\ j <= below[w] /\ r \in 0..j
    BY DEF Flagged
  <2>4. 1 + j - r \in Nat /\ settled' \in Nat
    <3>1. CASE External
      BY <2>2, <2>3, <3>1
    <3>2. CASE ~External
      BY <2>2, <2>3, <3>2
    <3>3. QED
      BY <3>1, <3>2
  <2>5. hlist' \in [Hosts -> Nat]
    <3>1. r \in Nat
      BY <2>3
    <3>2. QED
      BY <2>2, <3>1, CountUp
  <2>6. top' \in [Workers -> Nat]
    BY <2>2, <2>4
  <2>9. below' \in [Workers -> Nat]
    <3>1. below' = [below EXCEPT ![w] = @ - j]
      BY <2>1
    <3>2. QED
      BY <2>3, <3>1, CountDown
  <2>7. left' \in Nat /\ UNCHANGED <<cur, link, pend, known>>
    BY <1>8 DEF FetchRedirect
  <2>8. QED
    BY <2>4, <2>5, <2>6, <2>7, <2>9
<1>9. CASE FetchRedirectOut(w)
  <2>1. PICK g \in Hosts \ {cur[w]} :
          link' = [link EXCEPT ![w] = g] /\ GetHostent(g)
    BY <1>9 DEF FetchRedirectOut
  <2>2. pend' \in Seq(Hosts) /\ known' \subseteq Hosts
    BY <2>1, PushType
  <2>3. left' \in Nat /\ settled' \in Nat /\ UNCHANGED <<top, below, cur, hlist>>
    BY <1>9 DEF FetchRedirectOut
  <2>4. QED
    BY <2>1, <2>2, <2>3
<1>10. CASE MoveToSecondary(w)
  <2>1. hlist' = [hlist EXCEPT ![link[w]] = @ + 1] /\ link' = [link EXCEPT ![w] = NoHost]
        /\ UNCHANGED <<top, below, cur, pend, known, left, settled>>
    BY <1>10 DEF MoveToSecondary
  <2>2. hlist' \in [Hosts -> Nat]
    BY <2>1, CountUp
  <2>3. QED
    BY <2>1, <2>2
<1>11. CASE CheckMessage(w)
  BY <1>11 DEF CheckMessage, Goto
<1>12. CASE TryReply(w)
  BY <1>12 DEF TryReply, Goto
<1>13. CASE ReplyLock(w)
  BY <1>13 DEF ReplyLock, Goto
<1>14. CASE GiveUrls(w)
  <2> DEFINE c == waitingQueue[giveX]
             k == MinOf(Batch(giveX, givePer), top[w])
  <2>1. giveX \in Nat
    BY <1>14 DEF GiveUrls, LockInv, RoundInv
  <2>2. k \in Nat /\ top[w] - k \in Nat
    <3>1. Batch(giveX, givePer) = giveX
      BY <2>1, BatchType
    <3>2. top[w] \in Nat
      BY DEF BaseInv, TypeOK, WorkType
    <3>3. QED
      BY <2>1, <3>1, <3>2, MinType
  <2>3. cur' \in [Workers -> Hosts] /\ top' \in [Workers -> Nat]
    <3>1. \/ cur' = [cur EXCEPT ![c] = cur[w]] /\ top' = [[top EXCEPT ![c] = @ + k] EXCEPT ![w] = @ - k]
          \/ UNCHANGED <<cur, top>>
      BY <1>14 DEF GiveUrls, HandOver
    <3> HIDE DEF k, c
    <3>2. CASE cur' = [cur EXCEPT ![c] = cur[w]] /\ top' = [[top EXCEPT ![c] = @ + k] EXCEPT ![w] = @ - k]
      <4>1. cur' \in [Workers -> Hosts]
        BY <3>2
      <4> DEFINE g == [top EXCEPT ![c] = @ + k]
      <4>2. g \in [Workers -> Nat] /\ k <= g[w]
        <5>1. g \in [Workers -> Nat]
          BY <2>2, CountUp
        <5>2. g[w] = top[w] \/ g[w] = top[w] + k
          OBVIOUS
        <5>3. top[w] \in Nat /\ k <= top[w]
          BY <2>2
        <5> HIDE DEF g
        <5>4. QED
          BY <2>2, <5>1, <5>2, <5>3
      <4>3. top' = [g EXCEPT ![w] = @ - k]
        BY <3>2
      <4>4. top' \in [Workers -> Nat]
        <5> HIDE DEF g
        <5>1. QED
          BY <2>2, <4>2, <4>3, CountDown
      <4>5. QED
        BY <4>1, <4>4
    <3>3. QED
      BY <3>1, <3>2
  <2>4. UNCHANGED <<below, link, pend, known, hlist, left, settled>>
    BY <1>14 DEF GiveUrls
  <2>5. QED
    BY <2>3, <2>4
<1>15. CASE GiveHost(w)
  <2>1. Last(pend) \in Hosts /\ pend' \in Seq(Hosts)
    BY <1>15, PopType DEF GiveHost
  <2>2. \/ TakeHost(waitingQueue[giveX], Last(pend))
        \/ UNCHANGED <<cur, top, below, hlist>>
    BY <1>15 DEF GiveHost
  <2>3. UNCHANGED <<link, known, left, settled>>
    BY <1>15 DEF GiveHost
  <2>4. QED
    BY <2>1, <2>2, <2>3, TakeHostType
<1>16. CASE EndReply(w)
  BY <1>16 DEF EndReply, Goto
<1>17. CASE WaitLock(w)
  <2>1. Resume(w) \/ UNCHANGED <<top, hlist, settled>>
    BY <1>17 DEF WaitLock
  <2>2. UNCHANGED <<below, cur, link, pend, known, left>>
    BY <1>17 DEF WaitLock
  <2>3. QED
    BY <2>1, <2>2, ResumeType
<1>18. CASE WaitEnqueue(w)
  BY <1>18 DEF WaitEnqueue, NotifyIdle, Goto
<1>19. CASE WaitReturn(w)
  <2>1. Resume(w) \/ UNCHANGED <<top, hlist, settled>>
    BY <1>19 DEF WaitReturn
  <2>2. UNCHANGED <<below, cur, link, pend, known, left>>
    BY <1>19 DEF WaitReturn
  <2>3. QED
    BY <2>1, <2>2, ResumeType
<1>20. QED
  BY <1>1, <1>2, <1>3, <1>4, <1>5, <1>6, <1>7, <1>8, <1>9, <1>10, <1>11, <1>12, <1>13, <1>14, <1>15, <1>16, <1>17, <1>18, <1>19 DEF WorkerStep

(* A step of the main thread, or of the library's user, keeps every type.    *)
LEMMA MainTypes ==
  ASSUME BaseInv, MainStep \/ SignalExit
  PROVE  TypeOK'
<1>0. TypeOK
  BY DEF BaseInv
<1> USE <1>0, NAssumption, SignalAssumption
        DEF TypeOK, MainType, PCs
<1>1. CASE MsgLoop
  BY <1>1 DEF MsgLoop, PoolType, WorkType, poolVars, giveVars, workVars
<1>2. CASE StopWorker
  <2>1. PoolType' /\ WorkType'
    BY <1>2 DEF StopWorker, PoolType, WorkType, giveVars, workVars
  <2>2. pc' = pc \/ pc' = [pc EXCEPT ![mi] = "woken"]
    BY <1>2 DEF StopWorker, Wake, Goto
  <2>3. mi' = mi + 1 /\ mi <= N /\ UNCHANGED <<mpc, msgFd, signals>>
    BY <1>2 DEF StopWorker
  <2>4. QED
    BY <2>1, <2>2, <2>3
<1>3. CASE StopDone
  BY <1>3 DEF StopDone, PoolType, WorkType, poolVars, giveVars, workVars
<1>4. CASE JoinWorker
  <2>1. mi' = mi + 1 /\ mi <= N /\ UNCHANGED <<mpc, msgFd, signals, pc>>
    BY <1>4 DEF JoinWorker
  <2>2. PoolType' /\ WorkType'
    BY <1>4 DEF JoinWorker, PoolType, WorkType, poolVars, giveVars, workVars
  <2>3. QED
    BY <2>1, <2>2
<1>5. CASE SessionDone
  BY <1>5 DEF SessionDone, PoolType, WorkType, poolVars, giveVars, workVars
<1>6. CASE SignalExit
  BY <1>6 DEF SignalExit, PoolType, WorkType, poolVars, giveVars, workVars
<1>7. QED
  BY <1>1, <1>2, <1>3, <1>4, <1>5, <1>6 DEF MainStep

(* The lock holders of the pool keep to their program counters.              *)
LEMMA WorkerLocks ==
  ASSUME BaseInv, NEW w \in Workers, WorkerStep(w)
  PROVE  LockInv'
<1>0. MainType /\ PoolType /\ LockInv
  BY DEF BaseInv, TypeOK
<1> USE <1>0, NoOneAssumption DEF MainType, PoolType, LockInv, poolVars, giveVars
<1>1. CASE WorkerInit(w)
  BY <1>1 DEF WorkerInit, Goto
<1>2. CASE WorkerInitFails(w)
  BY <1>2 DEF WorkerInitFails, Goto
<1>3. CASE NextUrl(w)
  BY <1>3 DEF NextUrl, Goto
<1>4. CASE NextHost(w)
  BY <1>4 DEF NextHost, Goto
<1>5. CASE OutOfUrls(w)
  BY <1>5 DEF OutOfUrls, Goto
<1>6. CASE FetchPage(w)
  BY <1>6 DEF FetchPage, Goto
<1>7. CASE SortPage(w)
  BY <1>7 DEF SortPage, Goto
<1>8. CASE FetchRedirect(w)
  BY <1>8 DEF FetchRedirect, Goto
<1>9. CASE FetchRedirectOut(w)
  BY <1>9 DEF FetchRedirectOut, Goto
<1>10. CASE MoveToSecondary(w)
  BY <1>10 DEF MoveToSecondary, Goto
<1>11. CASE CheckMessage(w)
  BY <1>11 DEF CheckMessage, Goto
<1>12. CASE TryReply(w)
  BY <1>12 DEF TryReply, Goto
<1>13. CASE ReplyLock(w)
  BY <1>13 DEF ReplyLock, Goto
<1>14. CASE GiveUrls(w)
  BY <1>14 DEF GiveUrls, Wake, Goto
<1>15. CASE GiveHost(w)
  BY <1>15 DEF GiveHost, Wake, Goto
<1>16. CASE EndReply(w)
  BY <1>16 DEF EndReply, Goto
<1>17. CASE WaitLock(w)
  BY <1>17 DEF WaitLock, Resume, Goto
<1>18. CASE WaitEnqueue(w)
  BY <1>18 DEF WaitEnqueue, Goto
<1>19. CASE WaitReturn(w)
  BY <1>19 DEF WaitReturn, Resume, Goto
<1>20. QED
  BY <1>1, <1>2, <1>3, <1>4, <1>5, <1>6, <1>7, <1>8, <1>9, <1>10, <1>11, <1>12, <1>13, <1>14, <1>15, <1>16, <1>17, <1>18, <1>19 DEF WorkerStep

(* The loop of the replying worker stays in range.                           *)
LEMMA WorkerRounds ==
  ASSUME BaseInv, NEW w \in Workers, WorkerStep(w)
  PROVE  RoundInv'
<1>0. MainType /\ PoolType /\ LockInv /\ RoundInv
  BY DEF BaseInv, TypeOK
<1> USE <1>0, NoOneAssumption, FlagAssumption DEF PoolType, LockInv, RoundInv, poolVars, giveVars
<1>1. CASE WorkerInit(w)
  BY <1>1 DEF WorkerInit
<1>2. CASE WorkerInitFails(w)
  BY <1>2 DEF WorkerInitFails
<1>3. CASE NextUrl(w)
  BY <1>3 DEF NextUrl
<1>4. CASE NextHost(w)
  BY <1>4 DEF NextHost
<1>5. CASE OutOfUrls(w)
  BY <1>5 DEF OutOfUrls
<1>6. CASE FetchPage(w)
  BY <1>6 DEF FetchPage
<1>7. CASE SortPage(w)
  BY <1>7 DEF SortPage
<1>8. CASE FetchRedirect(w)
  BY <1>8 DEF FetchRedirect
<1>9. CASE FetchRedirectOut(w)
  BY <1>9 DEF FetchRedirectOut
<1>10. CASE MoveToSecondary(w)
  BY <1>10 DEF MoveToSecondary
<1>11. CASE CheckMessage(w)
  BY <1>11 DEF CheckMessage
<1>12. CASE TryReply(w)
  BY <1>12 DEF TryReply
<1>13. CASE ReplyLock(w)
  BY <1>13 DEF ReplyLock
<1>14. CASE GiveUrls(w)
  BY <1>14 DEF GiveUrls, Dequeue
<1>15. CASE GiveHost(w)
  BY <1>15 DEF GiveHost, Dequeue
<1>16. CASE EndReply(w)
  BY <1>16 DEF EndReply
<1>17. CASE WaitLock(w)
  BY <1>17 DEF WaitLock
<1>18. CASE WaitEnqueue(w)
  BY <1>18 DEF WaitEnqueue
<1>19. CASE WaitReturn(w)
  BY <1>19 DEF WaitReturn
<1>20. QED
  BY <1>1, <1>2, <1>3, <1>4, <1>5, <1>6, <1>7, <1>8, <1>9, <1>10, <1>11, <1>12, <1>13, <1>14, <1>15, <1>16, <1>17, <1>18, <1>19 DEF WorkerStep

(* The main thread and the user do not touch the pool's locks or its loops.  *)
LEMMA MainLocks ==
  ASSUME BaseInv, MainStep \/ SignalExit
  PROVE  LockInv' /\ RoundInv'
<1>0. MainType /\ PoolType /\ LockInv /\ RoundInv
  BY DEF BaseInv, TypeOK
<1> USE <1>0, NoOneAssumption DEF MainType, LockInv, RoundInv
<1>1. UNCHANGED <<rw, reply, giveX, giveN, numWaiting>>
  BY DEF MainStep, MsgLoop, StopWorker, StopDone, JoinWorker, SessionDone, SignalExit,
         poolVars, giveVars
<1>2. pc' = pc \/ (pc[mi] = "asleep" /\ pc' = [pc EXCEPT ![mi] = "woken"])
  BY DEF MainStep, MsgLoop, StopWorker, StopDone, JoinWorker, SessionDone, SignalExit,
         Wake, Goto
<1>3. QED
  BY <1>1, <1>2

LEMMA BaseStep == BaseInv /\ [Next]_vars => BaseInv'
<1> SUFFICES ASSUME BaseInv, [Next]_vars PROVE BaseInv'
  OBVIOUS
<1>1. CASE \E w \in Workers : WorkerStep(w)
  BY <1>1, WorkerMainType, WorkerPoolType, WorkerWorkType, WorkerLocks, WorkerRounds
     DEF BaseInv, TypeOK
<1>2. CASE MainStep \/ SignalExit
  BY <1>2, MainTypes, MainLocks DEF BaseInv
<1>3. CASE UNCHANGED vars
  BY <1>3 DEF vars, mainVars, poolVars, giveVars, workVars, BaseInv, TypeOK, MainType,
              PoolType, WorkType, LockInv, RoundInv
<1>4. QED
  BY <1>1, <1>2, <1>3 DEF Next, Terminated

LEMMA BaseAlways == Spec => []BaseInv
BY InitBase, BaseStep, PTL DEF Spec

(* No count of URLs or of waiting workers falls below zero, whatever the      *)
(* number of workers and however the session is stopped.                      *)
THEOREM TypeCorrect == Spec => []TypeOK
<1>1. BaseInv => TypeOK
  BY DEF BaseInv
<1>2. QED
  BY <1>1, BaseAlways, PTL

-----------------------------------------------------------------------------
(* The waiting queue while the session runs.                                 *)

(* A worker that is not queued yet finds a free place: as many different     *)
(* workers as there are queued places cannot include it.                     *)
LEMMA QueueShort ==
  ASSUME NEW q, NEW k \in Nat, NEW w \in Workers,
         \A i \in 0..(k-1) : q[i] \in Workers \ {w},
         \A i, j \in 0..(k-1) : q[i] = q[j] => i = j
  PROVE  k <= N - 1
<1> USE NAssumption
<1> DEFINE f == [i \in 0..(k-1) |-> q[i]]
<1>1. f \in Injection(0..(k-1), Workers \ {w})
  BY DEF Injection, IsInjective
<1>2. IsFiniteSet(Workers) /\ Cardinality(Workers) = N
  BY FS_Interval DEF Workers
<1>3. IsFiniteSet(Workers \ {w}) /\ Cardinality(Workers \ {w}) = N - 1
  BY <1>2, FS_RemoveElement
<1>4. Cardinality(0..(k-1)) = k
  <2>1. 0 \in Int /\ k - 1 \in Int
    OBVIOUS
  <2>2. Cardinality(0..(k-1)) = IF 0 > k - 1 THEN 0 ELSE (k - 1) - 0 + 1
    BY <2>1, FS_Interval
  <2>3. QED
    BY <2>2
<1>5. Cardinality(0..(k-1)) <= Cardinality(Workers \ {w})
  BY <1>1, <1>3, FS_Injection
<1>6. QED
  BY <1>3, <1>4, <1>5

(* The worker that a round of the replying worker meets is asleep.           *)
LEMMA ServedAsleep ==
  ASSUME BaseInv, QueueInv, NEW w \in Workers, pc[w] = "give",
         IF Spread THEN giveX >= 0 ELSE giveX < giveN
  PROVE  /\ giveX \in ToServe /\ rw = w /\ numWaiting > 0
         /\ waitingQueue[giveX] \in Workers /\ pc[waitingQueue[giveX]] = "asleep"
<1>1. rw = w /\ rw # NoOne
  BY NoOneAssumption DEF BaseInv, LockInv
<1>2. giveX \in ToServe /\ numWaiting > 0
  BY <1>1, FlagAssumption DEF BaseInv, TypeOK, PoolType, RoundInv, QueueInv, RoundExact,
     ToServe, FirstWaiting
<1>3. QED
  BY <1>1, <1>2 DEF QueueInv

(* While the session runs nobody is told to stop, and a worker is told to go *)
(* on exactly when it is woken.                                              *)
LEMMA WorkerMessages ==
  ASSUME BaseInv, QueueInv, MessageInv, NEW w \in Workers, WorkerStep(w)
  PROVE  MessageInv'
<1>0. MainType /\ PoolType
  BY DEF BaseInv, TypeOK
<1> USE <1>0 DEF MainType, PoolType, MessageInv, poolVars, Goto
<1>1. CASE WorkerInit(w)
  BY <1>1 DEF WorkerInit
<1>2. CASE WorkerInitFails(w)
  BY <1>2 DEF WorkerInitFails
<1>3. CASE NextUrl(w)
  BY <1>3 DEF NextUrl
<1>4. CASE NextHost(w)
  BY <1>4 DEF NextHost
<1>5. CASE OutOfUrls(w)
  BY <1>5 DEF OutOfUrls
<1>6. CASE FetchPage(w)
  BY <1>6 DEF FetchPage
<1>7. CASE SortPage(w)
  BY <1>7 DEF SortPage
<1>8. CASE FetchRedirect(w)
  BY <1>8 DEF FetchRedirect
<1>9. CASE FetchRedirectOut(w)
  BY <1>9 DEF FetchRedirectOut
<1>10. CASE MoveToSecondary(w)
  BY <1>10 DEF MoveToSecondary
<1>11. CASE CheckMessage(w)
  BY <1>11 DEF CheckMessage
<1>12. CASE TryReply(w)
  BY <1>12 DEF TryReply
<1>13. CASE ReplyLock(w)
  BY <1>13 DEF ReplyLock
<1>14. CASE GiveUrls(w)
  <2>1. pc[w] = "give" /\ (IF Spread THEN giveX >= 0 ELSE giveX < giveN)
    BY <1>14, FlagAssumption DEF GiveUrls
  <2> DEFINE c == waitingQueue[giveX]
  <2>2. c \in Workers /\ pc[c] = "asleep" /\ state[c] = "WAITING"
    BY <2>1, ServedAsleep
  <2>3. /\ message' = [message EXCEPT ![c] = "CONTINUE"]
        /\ pc' = [pc EXCEPT ![c] = "woken"]
        /\ state' = state
    BY <1>14, <2>2 DEF GiveUrls, Wake
  <2> HIDE DEF c
  <2>4. QED
    BY <2>2, <2>3
<1>15. CASE GiveHost(w)
  <2>1. pc[w] = "give" /\ (IF Spread THEN giveX >= 0 ELSE giveX < giveN)
    BY <1>15, FlagAssumption DEF GiveHost
  <2> DEFINE c == waitingQueue[giveX]
  <2>2. c \in Workers /\ pc[c] = "asleep" /\ state[c] = "WAITING"
    BY <2>1, ServedAsleep
  <2>3. /\ message' = [message EXCEPT ![c] = "CONTINUE"]
        /\ pc' = [pc EXCEPT ![c] = "woken"]
        /\ state' = state
    BY <1>15, <2>2 DEF GiveHost, Wake
  <2> HIDE DEF c
  <2>4. QED
    BY <2>2, <2>3
<1>16. CASE EndReply(w)
  BY <1>16 DEF EndReply
<1>17. CASE WaitLock(w)
  BY <1>17 DEF WaitLock, Resume
<1>18. CASE WaitEnqueue(w)
  BY <1>18 DEF WaitEnqueue
<1>19. CASE WaitReturn(w)
  BY <1>19 DEF WaitReturn, Resume
<1>20. QED
  BY <1>1, <1>2, <1>3, <1>4, <1>5, <1>6, <1>7, <1>8, <1>9, <1>10, <1>11, <1>12, <1>13, <1>14, <1>15, <1>16, <1>17, <1>18, <1>19 DEF WorkerStep

(* Steps that leave the queue and the sleepers alone keep the invariant.     *)
LEMMA QueueUntouched ==
  ASSUME QueueInv, UNCHANGED <<rw, giveX, giveN, waitingQueue, numWaiting>>,
         \A v \in Workers : pc'[v] = "asleep" <=> pc[v] = "asleep"
  PROVE  QueueInv'
BY DEF QueueInv, RoundExact, ToServe, FirstWaiting

(* A round that serves the worker c at the first or the last place to serve  *)
(* takes just that worker out of the queue.                                  *)
LEMMA QueueServed ==
  ASSUME BaseInv, QueueInv, NEW c \in Workers,
         giveX \in ToServe, waitingQueue[giveX] = c,
         pc' = [pc EXCEPT ![c] = "woken"],
         ToServe' = ToServe \ {giveX}, RoundExact', numWaiting' <= N,
         waitingQueue' = waitingQueue
  PROVE  QueueInv'
<1>1. MainType
  BY DEF BaseInv, TypeOK
<1>2. \A v \in Workers : pc'[v] = IF v = c THEN "woken" ELSE pc[v]
  BY <1>1 DEF MainType
<1>3. QED
  BY <1>2 DEF QueueInv

LEMMA WorkerQueue ==
  ASSUME BaseInv, QueueInv, MessageInv, NEW w \in Workers, WorkerStep(w)
  PROVE  QueueInv'
<1>0. MainType /\ PoolType /\ LockInv /\ RoundInv
  BY DEF BaseInv, TypeOK
<1> USE <1>0 DEF MainType, PoolType, poolVars, giveVars, Goto
<1>1. CASE WorkerInit(w)
  BY <1>1, QueueUntouched DEF WorkerInit
<1>2. CASE WorkerInitFails(w)
  BY <1>2, QueueUntouched DEF WorkerInitFails
<1>3. CASE NextUrl(w)
  BY <1>3, QueueUntouched DEF NextUrl
<1>4. CASE NextHost(w)
  BY <1>4, QueueUntouched DEF NextHost
<1>5. CASE OutOfUrls(w)
  BY <1>5, QueueUntouched DEF OutOfUrls
<1>6. CASE FetchPage(w)
  BY <1>6, QueueUntouched DEF FetchPage
<1>7. CASE SortPage(w)
  BY <1>7, QueueUntouched DEF SortPage
<1>8. CASE FetchRedirect(w)
  BY <1>8, QueueUntouched DEF FetchRedirect
<1>9. CASE FetchRedirectOut(w)
  BY <1>9, QueueUntouched DEF FetchRedirectOut
<1>10. CASE MoveToSecondary(w)
  BY <1>10, QueueUntouched DEF MoveToSecondary
<1>11. CASE CheckMessage(w)
  BY <1>11, QueueUntouched DEF CheckMessage
<1>12. CASE TryReply(w)
  BY <1>12, QueueUntouched DEF TryReply
<1>13. CASE ReplyLock(w)
  <2>1. /\ rw = NoOne /\ rw' = w /\ w # NoOne
        /\ UNCHANGED <<waitingQueue, numWaiting>>
        /\ \A v \in Workers : pc'[v] = "asleep" <=> pc[v] = "asleep"
    BY <1>13, NoOneAssumption DEF ReplyLock
  <2>2. /\ giveX' = IF Spread THEN numWaiting - 1 ELSE 0
        /\ giveN' = 0 \/ giveN' = numWaiting
    BY <1>13 DEF ReplyLock
  <2>3. ToServe' = ToServe
    BY <2>1, <2>2 DEF ToServe, FirstWaiting
  <2>4. RoundExact'
    BY <2>1, <2>2 DEF RoundExact
  <2>5. QED
    BY <2>1, <2>3, <2>4 DEF QueueInv
<1>14. CASE GiveUrls(w)
  <2>1. pc[w] = "give" /\ (IF Spread THEN giveX >= 0 ELSE giveX < giveN)
    BY <1>14, FlagAssumption DEF GiveUrls
  <2> DEFINE c == waitingQueue[giveX]
  <2>2. /\ c \in Workers /\ pc[c] = "asleep" /\ state[c] = "WAITING"
        /\ giveX \in ToServe /\ numWaiting > 0 /\ rw # NoOne
    BY <2>1, ServedAsleep, NoOneAssumption DEF MessageInv
  <2>3. /\ pc' = [pc EXCEPT ![c] = "woken"]
        /\ numWaiting' = numWaiting - 1 /\ giveX' = giveX + 1
        /\ UNCHANGED <<rw, giveN, waitingQueue>>
    BY <1>14, <2>2 DEF GiveUrls, Wake, Dequeue
  <2>4. ~Spread
    BY <1>14 DEF GiveUrls
  <2>5. ToServe' = ToServe \ {giveX}
    BY <2>2, <2>3, <2>4 DEF ToServe, FirstWaiting, QueueInv, RoundExact
  <2>6. RoundExact'
    BY <2>1, <2>2, <2>3, <2>4 DEF QueueInv, RoundExact
  <2>7. numWaiting' <= N
    BY <2>3, NAssumption DEF QueueInv
  <2>8. QED
    BY <2>2, <2>3, <2>5, <2>6, <2>7, QueueServed
<1>15. CASE GiveHost(w)
  <2>1. pc[w] = "give" /\ (IF Spread THEN giveX >= 0 ELSE giveX < giveN)
    BY <1>15, FlagAssumption DEF GiveHost
  <2> DEFINE c == waitingQueue[giveX]
  <2>2. /\ c \in Workers /\ pc[c] = "asleep" /\ state[c] = "WAITING"
        /\ giveX \in ToServe /\ numWaiting > 0 /\ rw # NoOne
    BY <2>1, ServedAsleep, NoOneAssumption DEF MessageInv
  <2>3. /\ pc' = [pc EXCEPT ![c] = "woken"]
        /\ numWaiting' = numWaiting - 1 /\ giveX' = giveX - 1
        /\ UNCHANGED <<rw, giveN, waitingQueue>>
    BY <1>15, <2>2 DEF GiveHost, Wake, Dequeue
  <2>4. Spread
    BY <1>15 DEF GiveHost
  <2>5. ToServe' = ToServe \ {giveX}
    BY <2>2, <2>3, <2>4 DEF ToServe, FirstWaiting, QueueInv, RoundExact
  <2>6. RoundExact'
    BY <2>1, <2>2, <2>3, <2>4 DEF QueueInv, RoundExact
  <2>7. numWaiting' <= N
    BY <2>3, NAssumption DEF QueueInv
  <2>8. QED
    BY <2>2, <2>3, <2>5, <2>6, <2>7, QueueServed
<1>16. CASE EndReply(w)
  <2>1. /\ rw = w /\ rw # NoOne /\ rw' = NoOne
        /\ UNCHANGED <<waitingQueue, numWaiting>>
        /\ \A v \in Workers : pc'[v] = "asleep" <=> pc[v] = "asleep"
    BY <1>16, NoOneAssumption DEF EndReply, LockInv
  <2>2. ~Spread => giveX >= giveN
    BY <1>16 DEF EndReply
  <2>3. ToServe' = ToServe
    BY <2>1, <2>2, FlagAssumption DEF ToServe, FirstWaiting, QueueInv, RoundExact, RoundInv
  <2>4. RoundExact'
    BY <2>1 DEF RoundExact
  <2>5. QED
    BY <2>1, <2>3, <2>4 DEF QueueInv
<1>17. CASE WaitLock(w)
  BY <1>17, QueueUntouched DEF WaitLock, Resume, MessageInv
<1>18. CASE WaitEnqueue(w)
  <2>1. /\ pc[w] = "waitEnqueue" /\ rw = NoOne /\ rw' = NoOne
        /\ waitingQueue' = [waitingQueue EXCEPT ![numWaiting] = w]
        /\ numWaiting' = numWaiting + 1
        /\ pc' = [pc EXCEPT ![w] = "asleep"]
    BY <1>18 DEF WaitEnqueue
  <2>2. ToServe = 0..(numWaiting-1) /\ ToServe' = 0..numWaiting
    BY <2>1 DEF ToServe, FirstWaiting
  <2>3. numWaiting <= N - 1
    <3>1. \A i \in 0..(numWaiting-1) : waitingQueue[i] \in Workers \ {w}
      BY <2>1, <2>2 DEF QueueInv
    <3>2. \A i, j \in 0..(numWaiting-1) : waitingQueue[i] = waitingQueue[j] => i = j
      BY <2>2 DEF QueueInv
    <3>3. QED
      BY <3>1, <3>2, QueueShort
  <2>4. numWaiting \in Slots /\ ToServe' \subseteq Slots /\ numWaiting' <= N
    BY <2>1, <2>2, <2>3, NAssumption DEF Slots
  <2>5. /\ waitingQueue'[numWaiting] = w
        /\ \A i \in ToServe : i # numWaiting /\ waitingQueue'[i] = waitingQueue[i]
    BY <2>1, <2>2, <2>4 DEF QueueInv
  <2>6. \A i \in ToServe' : i = numWaiting \/ i \in ToServe
    BY <2>2
  <2>7. \A v \in Workers : pc'[v] = IF v = w THEN "asleep" ELSE pc[v]
    BY <2>1
  <2>8. \A i \in ToServe' : waitingQueue'[i] \in Workers /\ pc'[waitingQueue'[i]] = "asleep"
    BY <2>5, <2>6, <2>7 DEF QueueInv
  <2>9. \A v \in Workers : pc'[v] = "asleep" => \E i \in ToServe' : waitingQueue'[i] = v
    <3>1. ToServe \subseteq ToServe' /\ numWaiting \in ToServe'
      BY <2>2
    <3>2. QED
      BY <2>5, <2>7, <3>1 DEF QueueInv
  <2>10. \A i, j \in ToServe' : waitingQueue'[i] = waitingQueue'[j] => i = j
    <3>1. \A i \in ToServe : waitingQueue[i] # w
      BY <2>1 DEF QueueInv
    <3>2. QED
      BY <2>5, <2>6, <3>1 DEF QueueInv
  <2>11. RoundExact'
    BY <2>1 DEF RoundExact
  <2>12. QED
    BY <2>4, <2>8, <2>9, <2>10, <2>11 DEF QueueInv
<1>19. CASE WaitReturn(w)
  BY <1>19, QueueUntouched DEF WaitReturn, Resume, MessageInv
<1>20. QED
  BY <1>1, <1>2, <1>3, <1>4, <1>5, <1>6, <1>7, <1>8, <1>9, <1>10, <1>11, <1>12, <1>13, <1>14, <1>15, <1>16, <1>17, <1>18, <1>19 DEF WorkerStep

(* Parked workers have no URLs, and a pending host has a worker at work that *)
(* will look at it.                                                          *)
LEMMA TopZero ==
  ASSUME BaseInv, NEW w \in Workers, Own(w) = 0
  PROVE  top[w] = 0 /\ below[w] = 0
BY DEF BaseInv, TypeOK, WorkType, Own

(* A step of w that touches no other worker's program counter or table and   *)
(* leaves w neither parked nor exited keeps the invariant.                   *)
LEMMA ParkedByWorking ==
  ASSUME BaseInv, ParkedInv, NEW w \in Workers,
         pc'[w] \notin Parked \cup {"init", "exited"},
         \A v \in Workers \ {w} :
            pc'[v] = pc[v] /\ top'[v] = top[v] /\ below'[v] = below[v]
  PROVE  ParkedInv'
BY DEF ParkedInv

LEMMA WorkerParked ==
  ASSUME BaseInv, QueueInv, MessageInv, ParkedInv, NEW w \in Workers, WorkerStep(w)
  PROVE  ParkedInv'
<1>0. MainType /\ PoolType /\ WorkType /\ LockInv
  BY DEF BaseInv, TypeOK
<1> USE <1>0 DEF MainType, PoolType, WorkType, poolVars, giveVars, workVars, Goto, Parked
<1>1. CASE WorkerInit(w)
  BY <1>1, ParkedByWorking DEF WorkerInit
<1>2. CASE WorkerInitFails(w)
  BY <1>2 DEF WorkerInitFails, ParkedInv
<1>3. CASE NextUrl(w)
  BY <1>3, ParkedByWorking DEF NextUrl
<1>4. CASE NextHost(w)
  BY <1>4, ParkedByWorking DEF NextHost, TakeHost
<1>5. CASE OutOfUrls(w)
  BY <1>5, TopZero DEF OutOfUrls, ParkedInv
<1>6. CASE FetchPage(w)
  <2>1. PICK k \in 0..MaxLinks : top' = [top EXCEPT ![w] = k]
    BY <1>6 DEF FetchPage
  <2>2. pc' = [pc EXCEPT ![w] = "sort"] /\ below' = below
    BY <1>6 DEF FetchPage
  <2>3. QED
    BY <2>1, <2>2, ParkedByWorking
<1>7. CASE SortPage(w)
  BY <1>7, ParkedByWorking DEF SortPage
<1>8. CASE FetchRedirect(w)
  <2>1. PICK j : \E r : top' = [top EXCEPT ![w] = 1 + j - r]
                           /\ below' = [below EXCEPT ![w] = @ - j]
    BY <1>8 DEF FetchRedirect
  <2>2. PICK r : top' = [top EXCEPT ![w] = 1 + j - r]
    BY <2>1
  <2>3. pc' = [pc EXCEPT ![w] = "check"]
    BY <1>8 DEF FetchRedirect
  <2>4. QED
    BY <2>1, <2>2, <2>3, ParkedByWorking
<1>9. CASE FetchRedirectOut(w)
  BY <1>9, ParkedByWorking DEF FetchRedirectOut
<1>10. CASE MoveToSecondary(w)
  BY <1>10, ParkedByWorking DEF MoveToSecondary
<1>11. CASE CheckMessage(w)
  BY <1>11, ParkedByWorking DEF CheckMessage, MessageInv
<1>12. CASE TryReply(w)
  BY <1>12, ParkedByWorking DEF TryReply
<1>13. CASE ReplyLock(w)
  BY <1>13, ParkedByWorking DEF ReplyLock
<1>14. CASE GiveUrls(w)
  <2>1. pc[w] = "give" /\ (IF Spread THEN giveX >= 0 ELSE giveX < giveN)
    BY <1>14, FlagAssumption DEF GiveUrls
  <2> DEFINE c == waitingQueue[giveX]
  <2>2. c \in Workers /\ pc[c] = "asleep" /\ c # w
    BY <2>1, ServedAsleep
  <2>3. state[c] = "WAITING"
    BY <2>2 DEF MessageInv
  <2>4. pc' = [pc EXCEPT ![c] = "woken"]
    BY <1>14, <2>2, <2>3 DEF GiveUrls, Wake
  <2>5. \A v \in Workers \ {c} : v # w => top'[v] = top[v] /\ below'[v] = below[v]
    BY <1>14, <2>3 DEF GiveUrls, HandOver
  <2> HIDE DEF c
  <2>6. pc'[w] = "give"
    BY <2>1, <2>2, <2>4
  <2>7. \A v \in Workers : pc'[v] \in Parked =>
           pc[v] \in Parked /\ top'[v] = top[v] /\ below'[v] = below[v]
    BY <2>2, <2>4, <2>5, <2>6
  <2>8. QED
    BY <2>6, <2>7 DEF ParkedInv
<1>15. CASE GiveHost(w)
  <2>1. pc[w] = "give" /\ (IF Spread THEN giveX >= 0 ELSE giveX < giveN)
    BY <1>15, FlagAssumption DEF GiveHost
  <2> DEFINE c == waitingQueue[giveX]
  <2>2. c \in Workers /\ pc[c] = "asleep" /\ c # w
    BY <2>1, ServedAsleep
  <2>3. state[c] = "WAITING"
    BY <2>2 DEF MessageInv
  <2>4. pc' = [pc EXCEPT ![c] = "woken"]
    BY <1>15, <2>2, <2>3 DEF GiveHost, Wake
  <2>5. \A v \in Workers \ {c} : v # w => top'[v] = top[v] /\ below'[v] = below[v]
    BY <1>15, <2>3 DEF GiveHost, TakeHost
  <2> HIDE DEF c
  <2>6. pc'[w] = "give"
    BY <2>1, <2>2, <2>4
  <2>7. \A v \in Workers : pc'[v] \in Parked =>
           pc[v] \in Parked /\ top'[v] = top[v] /\ below'[v] = below[v]
    BY <2>2, <2>4, <2>5, <2>6
  <2>8. QED
    BY <2>6, <2>7 DEF ParkedInv
<1>16. CASE EndReply(w)
  BY <1>16, ParkedByWorking DEF EndReply
<1>17. CASE WaitLock(w)
  BY <1>17 DEF WaitLock, Resume, MessageInv, ParkedInv
<1>18. CASE WaitEnqueue(w)
  BY <1>18 DEF WaitEnqueue, ParkedInv
<1>19. CASE WaitReturn(w)
  BY <1>19, ParkedByWorking DEF WaitReturn, Resume, MessageInv
<1>20. QED
  BY <1>1, <1>2, <1>3, <1>4, <1>5, <1>6, <1>7, <1>8, <1>9, <1>10, <1>11, <1>12, <1>13, <1>14, <1>15, <1>16, <1>17, <1>18, <1>19 DEF WorkerStep

-----------------------------------------------------------------------------
LEMMA InitLoop == Init => LoopInv
<1> SUFFICES ASSUME Init PROVE QueueInv /\ MessageInv /\ ParkedInv
  BY DEF LoopInv
<1> USE NAssumption DEF Init
<1>1. ToServe = {}
  BY DEF ToServe, FirstWaiting
<1>2. QueueInv
  BY <1>1 DEF QueueInv, RoundExact
<1>3. MessageInv /\ ParkedInv
  BY DEF MessageInv, ParkedInv, Parked
<1>4. QED
  BY <1>2, <1>3

LEMMA LoopStep == BaseInv /\ LoopInv /\ [Next]_vars => LoopInv'
<1> SUFFICES ASSUME BaseInv, LoopInv, [Next]_vars, mpc' = "loop"
             PROVE  QueueInv' /\ MessageInv' /\ ParkedInv'
  BY DEF LoopInv
<1>1. ASSUME NEW w \in Workers, WorkerStep(w)
      PROVE  QueueInv' /\ MessageInv' /\ ParkedInv'
  <2>1. mpc = "loop"
    BY <1>1 DEF WorkerStep, WorkerInit, WorkerInitFails, NextUrl, NextHost, OutOfUrls,
       FetchPage, SortPage, FetchRedirect, FetchRedirectOut, MoveToSecondary, CheckMessage,
       TryReply, ReplyLock, GiveUrls, GiveHost, EndReply, WaitLock, WaitEnqueue, WaitReturn,
       mainVars
  <2>2. QueueInv /\ MessageInv /\ ParkedInv
    BY <2>1 DEF LoopInv
  <2>3. QED
    BY <1>1, <2>2, WorkerQueue, WorkerMessages, WorkerParked
<1>2. ~MainStep
  BY DEF MainStep, MsgLoop, StopWorker, StopDone, JoinWorker, SessionDone
<1>3. CASE SignalExit \/ UNCHANGED vars
  <2>1. UNCHANGED <<mpc, pc, poolVars, workVars>>
    BY <1>3 DEF SignalExit, vars, mainVars
  <2>2. QueueInv /\ MessageInv /\ ParkedInv
    BY <2>1 DEF LoopInv
  <2>3. QED
    BY <2>1, <2>2 DEF QueueInv, RoundExact, ToServe, FirstWaiting, MessageInv, ParkedInv,
       poolVars, giveVars, workVars
<1>4. QED
  BY <1>1, <1>2, <1>3 DEF Next, Terminated

LEMMA LoopAlways == Spec => [](BaseInv /\ LoopInv)
BY InitBase, InitLoop, BaseStep, LoopStep, PTL DEF Spec

(* When all places of the queue are taken, every worker is asleep.           *)
LEMMA FullQueue ==
  ASSUME BaseInv, QueueInv, rw = NoOne, numWaiting = N, NEW w \in Workers
  PROVE  pc[w] = "asleep"
<1>1. SUFFICES ASSUME pc[w] # "asleep" PROVE FALSE
  OBVIOUS
<1>2. ToServe = 0..(N-1)
  BY NAssumption DEF ToServe, FirstWaiting
<1>3. /\ \A i \in 0..(N-1) : waitingQueue[i] \in Workers \ {w}
      /\ \A i, j \in 0..(N-1) : waitingQueue[i] = waitingQueue[j] => i = j
  BY <1>1, <1>2 DEF QueueInv
<1>4. N <= N - 1
  BY <1>3, NAssumption, QueueShort
<1>5. QED
  BY <1>4, NAssumption

(* Sleeping and being queued are the same thing, for any number of workers.  *)
THEOREM QueueIsExact == Spec => []QueueExact
<1>1. ASSUME BaseInv, LoopInv, mpc = "loop", rw = NoOne PROVE QueueExact
  <2>1. QueueInv /\ ToServe = 0..(numWaiting-1)
    BY <1>1 DEF LoopInv, ToServe, FirstWaiting, BaseInv, TypeOK, PoolType
  <2>2. QED
    BY <2>1 DEF QueueInv, QueueExact
<1>2. BaseInv /\ LoopInv => QueueExact
  BY <1>1 DEF QueueExact
<1>3. QED
  BY <1>2, LoopAlways, PTL

(* LM_EV_IDLE is only raised when no worker holds a URL any more.            *)
THEOREM IdleIsTrue == Spec => []IdleMeansNoWork
<1>1. ASSUME BaseInv, LoopInv, mpc = "loop", rw = NoOne, numWaiting = N, NEW w \in Workers
      PROVE  Own(w) = 0
  <2>1. pc[w] = "asleep"
    BY <1>1, FullQueue DEF LoopInv
  <2>2. QED
    BY <1>1, <2>1 DEF LoopInv, ParkedInv, Parked, Own
<1>2. BaseInv /\ LoopInv => IdleMeansNoWork
  BY <1>1 DEF IdleMeansNoWork
<1>3. QED
  BY <1>2, LoopAlways, PTL

(* ... nor a host is pending that some worker should have taken.             *)
THEOREM IdleHasNoHosts == Spec => []IdleNothingPending
<1>1. ASSUME BaseInv, LoopInv, mpc = "loop", rw = NoOne, numWaiting = N, External
      PROVE  pend = <<>>
  <2>1. \A w \in Workers : pc[w] \in Parked
    BY <1>1, FullQueue DEF LoopInv, Parked
  <2>2. QED
    BY <1>1, <2>1 DEF LoopInv, ParkedInv
<1>2. BaseInv /\ LoopInv => IdleNothingPending
  BY <1>1 DEF IdleNothingPending
<1>3. QED
  BY <1>2, LoopAlways, PTL

(* Parking and replying take the two locks in opposite orders, and yet never *)
(* wait for each other while the session runs.                               *)
THEOREM LocksNeverCross == Spec => []NoLockCycle
<1>1. ASSUME BaseInv, LoopInv, mpc = "loop", NEW r \in Workers, NEW w \in Workers,
             pc[r] = "give", pc[w] = "waitEnqueue",
             giveX \in 0..(numWaiting-1), waitingQueue[giveX] = w
      PROVE  FALSE
  <2>1. rw # NoOne /\ numWaiting \in Nat
    BY <1>1, NoOneAssumption DEF BaseInv, LockInv, TypeOK, PoolType
  <2>2. giveX \in ToServe
    BY <1>1, <2>1 DEF ToServe, FirstWaiting
  <2>3. QED
    BY <1>1, <2>2 DEF LoopInv, QueueInv
<1>2. BaseInv /\ LoopInv => NoLockCycle
  BY <1>1 DEF NoLockCycle
<1>3. QED
  BY <1>2, LoopAlways, PTL

-----------------------------------------------------------------------------
(* The pool implements the abstract session.                                 *)

(* An EXIT that the user did not send means that every worker sleeps.        *)
ExitInv == mpc = "loop" /\ msgFd > 0 /\ signals = 0 => \A w \in Workers : pc[w] = "asleep"

AtWork == {w \in Workers : pc[w] # "asleep"}

LEMMA InitExit == Init => ExitInv
BY DEF Init, ExitInv

(* A sleeping worker takes no step of its own.                               *)
LEMMA OnlyAwakeStep == ASSUME NEW w \in Workers, WorkerStep(w) PROVE pc[w] # "asleep"
BY DEF WorkerStep, WorkerInit, WorkerInitFails, NextUrl, NextHost, OutOfUrls,
       FetchPage, SortPage, FetchRedirect, FetchRedirectOut, MoveToSecondary, CheckMessage,
       TryReply, ReplyLock, GiveUrls, GiveHost, EndReply, WaitLock, WaitEnqueue, WaitReturn

(* Only the last worker that enters the queue writes to the message pipe.    *)
LEMMA WorkerMain ==
  ASSUME BaseInv, NEW w \in Workers, WorkerStep(w)
  PROVE  /\ UNCHANGED <<mpc, signals>>
         /\ msgFd' = msgFd \/ (rw' = NoOne /\ numWaiting' >= N)
BY DEF WorkerStep, WorkerInit, WorkerInitFails, NextUrl, NextHost, OutOfUrls,
       FetchPage, SortPage, FetchRedirect, FetchRedirectOut, MoveToSecondary, CheckMessage,
       TryReply, ReplyLock, GiveUrls, GiveHost, EndReply, WaitLock, WaitEnqueue, WaitReturn,
       NotifyIdle, mainVars

LEMMA ExitStep == BaseInv /\ LoopInv /\ ExitInv /\ [Next]_vars => ExitInv'
<1> SUFFICES ASSUME BaseInv, LoopInv, ExitInv, [Next]_vars,
                    mpc' = "loop", msgFd' > 0, signals' = 0
             PROVE  \A w \in Workers : pc'[w] = "asleep"
  BY DEF ExitInv
<1>1. BaseInv' /\ LoopInv'
  BY BaseStep, LoopStep
<1>2. CASE \E w \in Workers : WorkerStep(w)
  <2>1. PICK w \in Workers : WorkerStep(w)
    BY <1>2
  <2>2. msgFd' # msgFd
    BY <2>1, OnlyAwakeStep, WorkerMain DEF ExitInv
  <2>3. rw' = NoOne /\ numWaiting' >= N
    BY <2>1, <2>2, WorkerMain
  <2>4. QueueInv' /\ numWaiting' = N
    BY <1>1, <2>3, NAssumption DEF LoopInv, QueueInv, BaseInv, TypeOK, PoolType
  <2>5. ASSUME NEW v \in Workers, pc'[v] # "asleep" PROVE FALSE
    <3>1. ToServe' = 0..(N-1)
      BY <2>3, <2>4, NAssumption DEF ToServe, FirstWaiting
    <3>2. /\ \A i \in 0..(N-1) : waitingQueue'[i] \in Workers \ {v}
          /\ \A i, j \in 0..(N-1) : waitingQueue'[i] = waitingQueue'[j] => i = j
      BY <2>4, <2>5, <3>1 DEF QueueInv
    <3>3. N <= N - 1
      BY <3>2, NAssumption, QueueShort
    <3>4. QED
      BY <3>3, NAssumption
  <2>6. QED
    BY <2>5
<1>3. CASE MainStep
  BY <1>3 DEF MainStep, MsgLoop, StopWorker, StopDone, JoinWorker, SessionDone
<1>4. CASE SignalExit
  BY <1>4 DEF SignalExit, BaseInv, TypeOK, MainType
<1>5. CASE UNCHANGED vars
  BY <1>5 DEF vars, mainVars, ExitInv
<1>6. QED
  BY <1>2, <1>3, <1>4, <1>5 DEF Next, Terminated

LEMMA ExitAlways == Spec => [](BaseInv /\ LoopInv /\ ExitInv)
BY InitBase, InitLoop, InitExit, BaseStep, LoopStep, ExitStep, PTL DEF Spec

(* What a step of a worker does to the set of workers at work: nothing, or   *)
(* it parks itself, or it puts another one back to work.                     *)
LEMMA WorkerAtWork ==
  ASSUME BaseInv, LoopInv, mpc = "loop", NEW w \in Workers, WorkerStep(w)
  PROVE  \/ AtWork' = AtWork
         \/ AtWork' = AtWork \ {w}
         \/ \E c \in Workers : AtWork' = AtWork \cup {c}
<1>0. MainType /\ pc[w] # "asleep"
  BY OnlyAwakeStep DEF BaseInv, TypeOK
<1>1. CASE \E l \in PCs : pc' = [pc EXCEPT ![w] = l]
  BY <1>0, <1>1 DEF AtWork, MainType
<1>2. CASE \E c \in Workers : pc' = [pc EXCEPT ![c] = "woken"]
  BY <1>0, <1>2 DEF AtWork, MainType
<1>3. CASE pc' = pc
  BY <1>3 DEF AtWork
<1>4. CASE GiveUrls(w) \/ GiveHost(w)
  <2>1. pc[w] = "give" /\ (IF Spread THEN giveX >= 0 ELSE giveX < giveN)
    BY <1>4, FlagAssumption DEF GiveUrls, GiveHost
  <2> DEFINE c == waitingQueue[giveX]
  <2>2. c \in Workers
    BY <2>1, ServedAsleep DEF LoopInv
  <2>3. pc' = pc \/ pc' = [pc EXCEPT ![c] = "woken"]
    BY <1>4 DEF GiveUrls, GiveHost, Wake, Goto
  <2>4. QED
    BY <1>2, <1>3, <2>2, <2>3
<1>5. QED
  BY <1>1, <1>3, <1>4 DEF WorkerStep, WorkerInit, WorkerInitFails, NextUrl, NextHost, OutOfUrls,
       FetchPage, SortPage, FetchRedirect, FetchRedirectOut, MoveToSecondary, CheckMessage,
       TryReply, ReplyLock, EndReply, WaitLock, WaitEnqueue, WaitReturn, Resume, Goto, PCs

LEMMA SessionStep == BaseInv /\ LoopInv /\ ExitInv /\ [Next]_vars => [Session!Next]_Session!vars
<1> SUFFICES ASSUME BaseInv, LoopInv, ExitInv, [Next]_vars
             PROVE  [Session!Next]_Session!vars
  OBVIOUS
<1> DEFINE working == IF mpc = "loop" THEN AtWork ELSE {}
           phase == CASE mpc = "loop" -> "running"
                      [] mpc = "done" -> "over"
                      [] OTHER -> "stopping"
           asked == signals > 0
<1>0. MainType
  BY DEF BaseInv, TypeOK
<1> USE <1>0 DEF AtWork, MainType
<1>1. ASSUME NEW w \in Workers, WorkerStep(w) PROVE [Session!Next]_Session!vars
  <2>1. UNCHANGED <<mpc, signals>> /\ pc[w] # "asleep"
    BY <1>1, WorkerMain, OnlyAwakeStep
  <2>2. CASE mpc # "loop"
    BY <2>1, <2>2 DEF Session!vars
  <2>3. CASE mpc = "loop"
    <3>1. phase = "running" /\ UNCHANGED <<phase, asked>> /\ w \in working
      BY <2>1, <2>3
    <3>2. working = AtWork /\ working' = AtWork'
      BY <2>1, <2>3
    <3>3. CASE AtWork' = AtWork
      BY <2>1, <3>2, <3>3 DEF Session!vars
    <3>4. CASE AtWork' = AtWork \ {w}
      BY <3>1, <3>2, <3>4 DEF Session!Next, Session!Park
    <3>5. CASE \E c \in Workers : AtWork' = AtWork \cup {c}
      BY <3>1, <3>2, <3>5 DEF Session!Next, Session!Unpark
    <3>6. QED
      BY <1>1, <2>3, <3>3, <3>4, <3>5, WorkerAtWork
  <2>4. QED
    BY <2>2, <2>3
<1>2. CASE MsgLoop
  <2>1. phase = "running" /\ phase' = "stopping" /\ working' = {} /\ UNCHANGED asked
    BY <1>2 DEF MsgLoop
  <2>2. working = {} \/ asked
    BY <1>2 DEF MsgLoop, ExitInv
  <2>3. QED
    BY <2>1, <2>2 DEF Session!Next, Session!WindUp
<1>3. CASE StopWorker \/ StopDone \/ JoinWorker
  BY <1>3 DEF StopWorker, StopDone, JoinWorker, Session!vars
<1>4. CASE SessionDone
  BY <1>4 DEF SessionDone, Session!Next, Session!Finish
<1>5. CASE SignalExit
  BY <1>5 DEF SignalExit, Session!Next, Session!Ask
<1>6. CASE UNCHANGED vars
  BY <1>6 DEF vars, mainVars, Session!vars
<1>7. QED
  BY <1>1, <1>2, <1>3, <1>4, <1>5, <1>6 DEF Next, MainStep, Terminated

(* Workers are only put back to work by workers at work, and the session is  *)
(* wound up when nobody works or the user asked for it.                      *)
THEOREM PoolImplementsSession == Spec => ImplementsSession
<1>1. Init => Session!Init
  BY DEF Init, Session!Init
<1>2. QED
  BY <1>1, SessionStep, ExitAlways, PTL DEF Spec, ImplementsSession, Session!Spec

-----------------------------------------------------------------------------
(* The EXIT of a session that the user did not end is written once, by the   *)
(* last worker that parks; after it was read, nobody works any more who      *)
(* could park again, for whoever is woken is woken to stop.                  *)
Winding(w) == pc[w] \in {"asleep", "exited"} \/ (pc[w] = "woken" /\ message[w] = "STOP")
OnceInv ==
    signals = 0 => IF mpc = "loop" THEN msgFd <= 1
                   ELSE msgFd = 0 /\ \A w \in Workers : Winding(w)

LEMMA InitOnce == Init => OnceInv
BY DEF Init, OnceInv

LEMMA WorkerWrites ==
  ASSUME BaseInv, NEW w \in Workers, WorkerStep(w)
  PROVE  msgFd' \in {msgFd, msgFd + 1}
BY DEF WorkerStep, WorkerInit, WorkerInitFails, NextUrl, NextHost, OutOfUrls,
       FetchPage, SortPage, FetchRedirect, FetchRedirectOut, MoveToSecondary, CheckMessage,
       TryReply, ReplyLock, GiveUrls, GiveHost, EndReply, WaitLock, WaitEnqueue, WaitReturn,
       NotifyIdle, mainVars

(* All that is left to a worker that winds up is to return from its wait.    *)
LEMMA WoundUp ==
  ASSUME BaseInv, NEW w \in Workers, WorkerStep(w), Winding(w)
  PROVE  /\ msgFd' = msgFd /\ Winding(w)'
         /\ \A v \in Workers : v # w => pc'[v] = pc[v] /\ message'[v] = message[v]
<1>1. pc \in [Workers -> PCs] /\ message \in [Workers -> {"NONE", "STOP", "CONTINUE"}]
  BY DEF BaseInv, TypeOK, MainType, PoolType
<1>2. pc[w] = "woken" /\ message[w] = "STOP"
  BY OnlyAwakeStep DEF Winding, WorkerStep, WorkerInit, WorkerInitFails, NextUrl, NextHost, OutOfUrls,
       FetchPage, SortPage, FetchRedirect, FetchRedirectOut, MoveToSecondary, CheckMessage,
       TryReply, ReplyLock, GiveUrls, GiveHost, EndReply, WaitLock, WaitEnqueue, WaitReturn
<1>3. WaitReturn(w)
  BY <1>2 DEF WorkerStep, WorkerInit, WorkerInitFails, NextUrl, NextHost, OutOfUrls,
       FetchPage, SortPage, FetchRedirect, FetchRedirectOut, MoveToSecondary, CheckMessage,
       TryReply, ReplyLock, GiveUrls, GiveHost, EndReply, WaitLock, WaitEnqueue
<1>4. /\ msgFd' = msgFd /\ pc' = [pc EXCEPT ![w] = "exited"]
      /\ message' = [message EXCEPT ![w] = "NONE"]
  BY <1>2, <1>3 DEF WaitReturn, Resume, Goto, mainVars
<1>5. QED
  BY <1>1, <1>4 DEF Winding

LEMMA OnceStep == BaseInv /\ LoopInv /\ ExitInv /\ OnceInv /\ [Next]_vars => OnceInv'
<1> SUFFICES ASSUME BaseInv, LoopInv, ExitInv, OnceInv, [Next]_vars, signals' = 0
             PROVE  IF mpc' = "loop" THEN msgFd' <= 1
                    ELSE msgFd' = 0 /\ \A w \in Workers : Winding(w)'
  BY DEF OnceInv
<1>0. /\ msgFd \in Nat /\ signals \in Nat /\ mi \in 1..(N+1)
      /\ pc \in [Workers -> PCs] /\ message \in [Workers -> {"NONE", "STOP", "CONTINUE"}]
  BY SignalAssumption DEF BaseInv, TypeOK, MainType, PoolType
<1>1. CASE \E w \in Workers : WorkerStep(w)
  <2>1. PICK w \in Workers : WorkerStep(w)
    BY <1>1
  <2>2. mpc' = mpc /\ signals = 0
    BY <2>1, WorkerMain
  <2>3. CASE mpc = "loop"
    <3>1. msgFd = 0
      BY <1>0, <2>1, <2>2, <2>3, OnlyAwakeStep DEF ExitInv
    <3>2. QED
      BY <2>1, <2>2, <2>3, <3>1, WorkerWrites
  <2>4. CASE mpc # "loop"
    <3>1. msgFd = 0 /\ \A v \in Workers : Winding(v)
      BY <2>2, <2>4 DEF OnceInv
    <3>2. /\ msgFd' = msgFd /\ Winding(w)'
          /\ \A v \in Workers : v # w => pc'[v] = pc[v] /\ message'[v] = message[v]
      BY <2>1, <3>1, WoundUp
    <3>3. QED
      BY <2>2, <2>4, <3>1, <3>2 DEF Winding
  <2>5. QED
    BY <2>3, <2>4
<1>2. CASE MsgLoop
  <2>1. mpc = "loop" /\ mpc' = "stop" /\ msgFd > 0 /\ msgFd' = msgFd - 1 /\ signals = 0 /\ pc' = pc
    BY <1>2 DEF MsgLoop
  <2>2. msgFd = 1 /\ \A w \in Workers : pc[w] = "asleep"
    BY <1>0, <2>1 DEF OnceInv, ExitInv
  <2>3. QED
    BY <2>1, <2>2 DEF Winding
<1>3. CASE StopWorker
  <2>1. /\ mpc = "stop" /\ mpc' = mpc /\ msgFd' = msgFd /\ signals = 0 /\ mi \in Workers
        /\ message' = [message EXCEPT ![mi] = "STOP"]
        /\ pc' = pc \/ (pc[mi] = "asleep" /\ pc' = [pc EXCEPT ![mi] = "woken"])
    BY <1>0, <1>3 DEF StopWorker, Wake, Goto, Workers
  <2>2. msgFd = 0 /\ \A w \in Workers : Winding(w)
    BY <2>1 DEF OnceInv
  <2>3. ASSUME NEW w \in Workers PROVE Winding(w)'
    BY <1>0, <2>1, <2>2 DEF Winding
  <2>4. QED
    BY <2>1, <2>2, <2>3
<1>4. CASE StopDone \/ JoinWorker \/ SessionDone
  BY <1>4 DEF StopDone, JoinWorker, SessionDone, OnceInv, Winding, poolVars
<1>5. CASE SignalExit
  BY <1>0, <1>5 DEF SignalExit
<1>6. CASE UNCHANGED vars
  BY <1>6 DEF vars, mainVars, poolVars, OnceInv, Winding
<1>7. QED
  BY <1>1, <1>2, <1>3, <1>4, <1>5, <1>6 DEF Next, MainStep, Terminated

(* Unless the user asked for an end, no EXIT is left in the pipe when the    *)
(* session is over, for any number of workers: the next one is not ended by  *)
(* it.  With a signal of the user the same cannot be said: the workers may   *)
(* go idle, and write another EXIT, before the first one is read.            *)
THEOREM NoExitLeft == Spec => [](signals = 0 => NoStaleExit)
<1>1. BaseInv /\ OnceInv => (signals = 0 => NoStaleExit)
  BY DEF OnceInv, NoStaleExit
<1>2. QED
  BY <1>1, InitOnce, OnceStep, ExitAlways, InitBase, PTL DEF Spec

=============================================================================
