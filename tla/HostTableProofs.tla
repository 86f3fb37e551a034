--------------------------- MODULE HostTableProofs ---------------------------
(***************************************************************************)
(* Proofs about HostTable for every number of workers and every finite set *)
(* of hosts: however searches and creations interleave, no host gets two   *)
(* entries, no entry is cut off, and no host is pending twice.             *)
(***************************************************************************)
EXTENDS HostTable, FiniteSetTheorems, TLAPS

Looking == {"readHead", "scan", "relock", "have"}

(* What the hands of a worker hold at each place of the code.                *)
HandsInv ==
    \A t \in Threads :
        /\ pc[t] \in Looking => url[t] \in Urls
        /\ pc[t] \in {"have", "takeList", "freeList"} => ent[t] \in Hosts
        /\ pc[t] \in {"idle", "readSlot", "takeList", "freeList"} => cur[t] \in Hosts
        /\ pc[t] \in Looking /\ why[t] # "initial" => cur[t] \in Hosts

(* A worker that is about to create an entry has seen that none of the       *)
(* entries it passed is the one it looks for.                                *)
PassedInv ==
    \A t \in Threads : pc[t] = "relock" =>
        /\ passed[t] <= Len(chain)
        /\ \A i \in 1..passed[t] : chain[i] # Host(url[t])

StackInv == sz <= Len(chain) /\ PendingOnce

IInv == TypeOK /\ HandsInv /\ PassedInv /\ EntriesUnique /\ StackInv

LEMMA HostIn == \A u \in Urls : Host(u) \in Hosts
BY DEF Urls, Host

LEMMA UpdateIn ==
  ASSUME NEW S, NEW T, NEW f \in [S -> T], NEW s \in S, NEW v \in T
  PROVE  [f EXCEPT ![s] = v] \in [S -> T]
OBVIOUS

(* What appending to a chain does.                                           *)
LEMMA AppendIs ==
  ASSUME NEW S, NEW s \in Seq(S), NEW e \in S
  PROVE  /\ Append(s, e) \in Seq(S) /\ Len(s) \in Nat
         /\ Len(Append(s, e)) = Len(s) + 1
         /\ \A i \in 1..Len(s) : Append(s, e)[i] = s[i] /\ s[i] \in S
         /\ Append(s, e)[Len(s) + 1] = e
OBVIOUS

(* As many different entries as the chain has there must be hosts.           *)
LEMMA ChainFits ==
  ASSUME chain \in Seq(Hosts), EntriesUnique
  PROVE  Cardinality(Hosts) \in Nat /\ Len(chain) <= Cardinality(Hosts)
<1>1. chain \in Injection(1..Len(chain), Hosts)
  BY DEF EntriesUnique, Injection, IsInjective
<1>2. IsFiniteSet(Hosts) /\ Cardinality(Hosts) \in Nat
  BY FiniteAssumption, FS_CardinalityType
<1>3. Cardinality(1..Len(chain)) <= Cardinality(Hosts)
  BY <1>1, <1>2, FS_Injection
<1>4. Cardinality(1..Len(chain)) = Len(chain)
  <2>1. 1 \in Int /\ Len(chain) \in Int /\ Len(chain) >= 0
    OBVIOUS
  <2>2. Cardinality(1..Len(chain)) = IF 1 > Len(chain) THEN 0 ELSE Len(chain) - 1 + 1
    BY <2>1, FS_Interval
  <2>3. QED
    BY <2>1, <2>2
<1>5. QED
  BY <1>2, <1>3, <1>4

(* Whatever the size is by the time, the slot that is read is a slot.        *)
LEMMA SlotIn == ASSUME IInv PROVE sz \in 0..Cardinality(Hosts) /\ stack[sz] \in Hosts \cup {NoHost}
<1>1. Cardinality(Hosts) \in Nat /\ Len(chain) <= Cardinality(Hosts)
  BY ChainFits DEF IInv, TypeOK
<1>2. sz \in Nat /\ sz <= Len(chain) /\ Len(chain) \in Nat
  BY DEF IInv, TypeOK, StackInv
<1>3. sz \in 0..Cardinality(Hosts)
  BY <1>1, <1>2
<1>4. QED
  BY <1>3 DEF IInv, TypeOK

LEMMA InitInv == Init => IInv
<1> SUFFICES ASSUME Init PROVE IInv
  OBVIOUS
<1>1. TypeOK
  BY OpsAssumption DEF Init, TypeOK
<1>2. HandsInv /\ PassedInv
  BY DEF Init, HandsInv, PassedInv, Looking
<1>3. EntriesUnique /\ StackInv
  BY DEF Init, EntriesUnique, StackInv, PendingOnce
<1>4. QED
  BY <1>1, <1>2, <1>3 DEF IInv

Places == {"start", "idle", "readHead", "scan", "relock", "have",
           "readSlot", "takeList", "freeList", "crashed"}

(* A step keeps the hands of its worker in order.                            *)
LEMMA StepHands ==
  ASSUME IInv, NEW t \in Threads, Step(t)
  PROVE  HandsInv'
<1>0. TypeOK /\ HandsInv
  BY DEF IInv
<1> USE <1>0, HostAssumption, HostIn DEF TypeOK, HandsInv, Looking, Goto
<1>1. CASE AddInitial(t)
  <2>1. PICK p \in Paths : Call(t, <<Home, p>>, "initial")
    BY <1>1 DEF AddInitial
  <2>2. <<Home, p>> \in Urls
    BY DEF Urls
  <2>3. QED
    BY <1>1, <2>1, <2>2 DEF AddInitial, Call
<1>2. CASE AddExternal(t)
  <2>1. PICK u \in Urls : Call(t, u, "add")
    BY <1>2 DEF AddExternal
  <2>2. QED
    BY <1>2, <2>1 DEF AddExternal, Call
<1>3. CASE AddInternal(t)
  BY <1>3 DEF AddInternal, Used
<1>4. CASE ReadHead(t)
  BY <1>4 DEF ReadHead
<1>5. CASE Scan(t)
  BY <1>5 DEF Scan
<1>6. CASE Relock(t)
  <2>1. ent'[t] \in Hosts /\ \A s \in Threads \ {t} : ent'[s] = ent[s]
    BY <1>6 DEF Relock, Place, IInv, PassedInv
  <2>2. QED
    BY <1>6, <2>1 DEF Relock
<1>7. CASE FinishInitial(t)
  BY <1>7 DEF FinishInitial
<1>8. CASE FinishAdd(t)
  BY <1>8 DEF FinishAdd, Call
<1>9. CASE FinishMove(t)
  BY <1>9 DEF FinishMove
<1>10. CASE PopPending(t)
  BY <1>10 DEF PopPending, Used
<1>11. CASE ReadSlot(t)
  <2>1. stack[sz] \in Hosts \cup {NoHost}
    BY <1>11, SlotIn
  <2>2. QED
    BY <1>11, <2>1 DEF ReadSlot
<1>12. CASE TakeList(t)
  BY <1>12 DEF TakeList
<1>13. CASE FreeList(t)
  BY <1>13 DEF FreeList, ownVars
<1>20. QED
  BY <1>1, <1>2, <1>3, <1>4, <1>5, <1>6, <1>7, <1>8, <1>9, <1>10, <1>11, <1>12, <1>13 DEF Step

LEMMA StepType ==
  ASSUME IInv, NEW t \in Threads, Step(t)
  PROVE  TypeOK'
<1>0. TypeOK /\ HandsInv
  BY DEF IInv
<1> USE <1>0, HostAssumption, OpsAssumption, HostIn
        DEF TypeOK, HandsInv, Looking, Goto, tableVars, pendVars, ownVars
<1>1. CASE AddInitial(t)
  <2>1. PICK p \in Paths : Call(t, <<Home, p>>, "initial")
    BY <1>1 DEF AddInitial
  <2>2. <<Home, p>> \in Urls
    BY DEF Urls
  <2>3. QED
    BY <1>1, <2>1, <2>2 DEF AddInitial, Call
<1>2. CASE AddExternal(t)
  <2>1. PICK u \in Urls : Call(t, u, "add")
    BY <1>2 DEF AddExternal
  <2>2. ops' \in [Threads -> 0..MaxOps]
    BY <1>2 DEF AddExternal, Used
  <2>3. QED
    BY <1>2, <2>1, <2>2 DEF AddExternal, Call
<1>3. CASE AddInternal(t)
  <2>1. ops' \in [Threads -> 0..MaxOps]
    BY <1>3 DEF AddInternal, Used
  <2>2. PICK p \in Paths :
         /\ cache' = [cache EXCEPT ![cur[t]] = @ \cup {<<cur[t], p>>}]
         /\ mine' = IF <<cur[t], p>> \in cache[cur[t]] THEN mine
                    ELSE [mine EXCEPT ![t] = @ \cup {<<cur[t], p>>}]
    BY <1>3 DEF AddInternal
  <2>3. cur[t] \in Hosts
    BY <1>3 DEF AddInternal
  <2>a. PICK u \in Urls : u = <<cur[t], p>>
    BY <2>3 DEF Urls
  <2>b. cache' = [cache EXCEPT ![cur[t]] = cache[cur[t]] \cup {u}]
    BY <2>2, <2>a
  <2>c. mine' = mine \/ mine' = [mine EXCEPT ![t] = mine[t] \cup {u}]
    BY <2>2, <2>a
  <2>d. cache[cur[t]] \cup {u} \in SUBSET Urls /\ mine[t] \cup {u} \in SUBSET Urls
    BY <2>3
  <2>e. cache' \in [Hosts -> SUBSET Urls]
    BY <2>3, <2>b, <2>d, UpdateIn
  <2>f. mine' \in [Threads -> SUBSET Urls]
    <3>1. mine \in [Threads -> SUBSET Urls] /\ t \in Threads
      OBVIOUS
    <3>2. [mine EXCEPT ![t] = mine[t] \cup {u}] \in [Threads -> SUBSET Urls]
      BY <3>1, <2>d, UpdateIn
    <3>3. QED
      BY <2>c, <3>1, <3>2
  <2>4. cache' \in [Hosts -> SUBSET Urls] /\ mine' \in [Threads -> SUBSET Urls]
    BY <2>e, <2>f
  <2>5. QED
    BY <1>3, <2>1, <2>4 DEF AddInternal
<1>4. CASE ReadHead(t)
  <2>1. passed' \in [Threads -> Nat]
    <3>1. passed' = passed \/ passed' = [passed EXCEPT ![t] = 0]
      BY <1>4 DEF ReadHead
    <3>2. QED
      BY <3>1, UpdateIn
  <2>2. pc' \in [Threads -> Places]
    <3>1. \E l \in Places : pc' = [pc EXCEPT ![t] = l]
      BY <1>4 DEF ReadHead, Places
    <3>2. QED
      BY <3>1, UpdateIn DEF Places
  <2>3. QED
    BY <1>4, <2>1, <2>2 DEF ReadHead, Places
<1>5. CASE Scan(t)
  <2>1. passed' \in [Threads -> Nat] /\ ent' \in [Threads -> Hosts \cup {NoHost}]
    <3>1. Host(url[t]) \in Hosts /\ Len(chain) \in Nat
      BY <1>5 DEF Scan
    <3>2. passed' = passed \/ passed' = [passed EXCEPT ![t] = Len(chain)]
      BY <1>5 DEF Scan
    <3>3. ent' = ent \/ ent' = [ent EXCEPT ![t] = Host(url[t])]
      BY <1>5 DEF Scan
    <3>4. [passed EXCEPT ![t] = Len(chain)] \in [Threads -> Nat]
      BY <3>1, UpdateIn
    <3>5. [ent EXCEPT ![t] = Host(url[t])] \in [Threads -> Hosts \cup {NoHost}]
      BY <3>1, UpdateIn
    <3>6. QED
      BY <3>2, <3>3, <3>4, <3>5
  <2>2. pc' \in [Threads -> Places]
    <3>1. \E l \in Places : pc' = [pc EXCEPT ![t] = l]
      BY <1>5 DEF Scan, Places
    <3>2. QED
      BY <3>1, UpdateIn DEF Places
  <2>3. QED
    BY <1>5, <2>1, <2>2 DEF Scan, Places
<1>6. CASE Relock(t)
  <2>0. Host(url[t]) \in Hosts /\ passed[t] \in Nat /\ passed[t] <= Len(chain)
    BY <1>6 DEF Relock, IInv, PassedInv
  <2>1. chain' \in Seq(Hosts) /\ ent' \in [Threads -> Hosts \cup {NoHost}]
    <3>1. CASE Len(chain) = passed[t]
      <4>1. chain' = Append(chain, Host(url[t])) /\ ent' = [ent EXCEPT ![t] = Host(url[t])]
        BY <1>6, <3>1 DEF Relock, Place
      <4>2. QED
        BY <2>0, <4>1, AppendIs
    <3>2. CASE Len(chain) # passed[t]
      <4>1. chain' = chain /\ ent' = [ent EXCEPT ![t] = chain[passed[t] + 1]]
        BY <1>6, <3>2 DEF Relock, Place
      <4>2. chain[passed[t] + 1] \in Hosts
        BY <2>0, <3>2
      <4>3. QED
        BY <4>1, <4>2
    <3>3. QED
      BY <3>1, <3>2
  <2>2. stack' \in [0..Cardinality(Hosts) -> Hosts \cup {NoHost}] /\ sz' \in Nat
    <3>1. CASE Push(Host(url[t]))
      <4>1. sz \in 0..Cardinality(Hosts) /\ sz + 1 \in Nat
        BY SlotIn
      <4>2. stack' = [stack EXCEPT ![sz] = Host(url[t])] /\ sz' = sz + 1
        BY <3>1 DEF Push
      <4>3. Host(url[t]) \in Hosts \cup {NoHost}
        BY <2>0
      <4>4. QED
        BY <4>1, <4>2, <4>3, UpdateIn
    <3>2. CASE UNCHANGED pendVars
      BY <3>2
    <3>3. QED
      BY <1>6, <3>1, <3>2 DEF Relock
  <2>3. QED
    BY <1>6, <2>1, <2>2 DEF Relock
<1>7. CASE FinishInitial(t)
  BY <1>7 DEF FinishInitial
<1>8. CASE FinishAdd(t)
  <2>1. cache' = [cache EXCEPT ![ent[t]] = cache[ent[t]] \cup {url[t]}]
    BY <1>8 DEF FinishAdd
  <2>2. ent[t] \in Hosts /\ url[t] \in Urls
    BY <1>8 DEF FinishAdd
  <2>3. cache' \in [Hosts -> SUBSET Urls]
    BY <2>1, <2>2
  <2>4. /\ url' \in [Threads -> Urls \cup {NoUrl}]
        /\ why' \in [Threads -> {"initial", "add", "move"}]
    BY <1>8, <2>2 DEF FinishAdd, Call
  <2>5. pc' \in [Threads -> Places]
    <3>1. \E l \in Places : pc' = [pc EXCEPT ![t] = l]
      BY <1>8 DEF FinishAdd, Call, Places
    <3>2. QED
      BY <3>1, UpdateIn DEF Places
  <2>6. QED
    BY <1>8, <2>3, <2>4, <2>5 DEF FinishAdd, Places
<1>9. CASE FinishMove(t)
  BY <1>9 DEF FinishMove
<1>10. CASE PopPending(t)
  <2>0. sz' \in Nat
    BY <1>10 DEF PopPending
  <2>1. ops' \in [Threads -> 0..MaxOps]
    BY <1>10 DEF PopPending, Used
  <2>2. QED
    BY <1>10, <2>0, <2>1 DEF PopPending
<1>11. CASE ReadSlot(t)
  <2>1. stack[sz] \in Hosts \cup {NoHost}
    BY SlotIn
  <2>2. QED
    BY <1>11, <2>1 DEF ReadSlot
<1>12. CASE TakeList(t)
  BY <1>12 DEF TakeList
<1>13. CASE FreeList(t)
  BY <1>13 DEF FreeList
<1>20. QED
  BY <1>1, <1>2, <1>3, <1>4, <1>5, <1>6, <1>7, <1>8, <1>9, <1>10, <1>11, <1>12, <1>13 DEF Step

(* An entry is only linked in after all the others were passed.              *)
LEMMA StepChain ==
  ASSUME IInv, NEW t \in Threads, Step(t)
  PROVE  \/ UNCHANGED <<chain>> /\ (UNCHANGED pendVars \/ PopPending(t))
         \/ /\ Relock(t) /\ chain' = Append(chain, Host(url[t]))
            /\ Host(url[t]) \in Hosts \ Known
            /\ UNCHANGED pendVars \/ Push(Host(url[t]))
<1>0. TypeOK /\ HandsInv /\ PassedInv
  BY DEF IInv
<1>1. CASE Relock(t) /\ Len(chain) = passed[t]
  BY <1>0, <1>1, HostIn DEF Relock, Place, HandsInv, PassedInv, Known, Looking
<1>2. CASE Relock(t) /\ Len(chain) # passed[t]
  BY <1>2 DEF Relock, Place
<1>3. CASE ~Relock(t)
  BY <1>3 DEF Step, AddInitial, AddExternal, AddInternal, ReadHead, Scan,
     FinishInitial, FinishAdd, FinishMove, PopPending, ReadSlot, TakeList, FreeList,
     tableVars, pendVars
<1>4. QED
  BY <1>1, <1>2, <1>3

LEMMA StepGrows ==
  ASSUME IInv, NEW t \in Threads, Step(t)
  PROVE  /\ Len(chain') \in Nat /\ Len(chain) \in Nat /\ Len(chain) <= Len(chain')
         /\ \A i \in 1..Len(chain) : chain'[i] = chain[i]
<1>1. chain \in Seq(Hosts)
  BY DEF IInv, TypeOK
<1>2. CASE UNCHANGED <<chain>>
  BY <1>1, <1>2
<1>3. CASE chain' = Append(chain, Host(url[t])) /\ Host(url[t]) \in Hosts \ Known
  <2>1. Host(url[t]) \in Hosts
    BY <1>3
  <2>2. QED
    BY <1>1, <1>3, <2>1, AppendIs
<1>4. QED
  BY <1>2, <1>3, StepChain

LEMMA StepPassed ==
  ASSUME IInv, NEW t \in Threads, Step(t)
  PROVE  PassedInv'
<1>0. TypeOK /\ HandsInv /\ PassedInv
  BY DEF IInv
<1>1. /\ Len(chain') \in Nat /\ Len(chain) \in Nat /\ Len(chain) <= Len(chain')
      /\ \A i \in 1..Len(chain) : chain'[i] = chain[i]
  BY StepGrows
<1>2. \A s \in Threads \ {t} : pc'[s] = pc[s] /\ url'[s] = url[s] /\ passed'[s] = passed[s]
  BY <1>0 DEF TypeOK, Step, AddInitial, AddExternal, AddInternal, ReadHead, Scan, Relock,
     FinishInitial, FinishAdd, FinishMove, PopPending, ReadSlot, TakeList, FreeList,
     Goto, Call, ownVars
<1>3. pc'[t] = "relock" =>
        /\ passed'[t] <= Len(chain') /\ passed'[t] \in Nat
        /\ \A i \in 1..passed'[t] : chain'[i] # Host(url'[t])
  <2>1. CASE ReadHead(t)
    BY <1>0, <2>1 DEF ReadHead, Goto, TypeOK, tableVars
  <2>2. CASE Scan(t)
    BY <1>0, <2>2 DEF Scan, Goto, TypeOK, Known, tableVars
  <2>3. CASE ~ReadHead(t) /\ ~Scan(t)
    BY <1>0, <2>3 DEF TypeOK, Step, AddInitial, AddExternal, AddInternal, Relock,
     FinishInitial, FinishAdd, FinishMove, PopPending, ReadSlot, TakeList, FreeList,
     Goto, Call
  <2>4. QED
    BY <2>1, <2>2, <2>3
<1>4. \A s \in Threads : passed[s] \in Nat
  BY <1>0 DEF TypeOK
<1>5. QED
  BY <1>0, <1>1, <1>2, <1>3, <1>4 DEF PassedInv

LEMMA StepUnique ==
  ASSUME IInv, NEW t \in Threads, Step(t)
  PROVE  EntriesUnique' /\ StackInv'
<1>0. TypeOK /\ EntriesUnique /\ StackInv
  BY DEF IInv
<1>1. CASE UNCHANGED chain /\ (UNCHANGED pendVars \/ PopPending(t))
  <2>1. EntriesUnique' /\ Known' = Known /\ Len(chain') = Len(chain) /\ Len(chain) \in Nat
    BY <1>0, <1>1 DEF EntriesUnique, Known, TypeOK
  <2>2. stack' = stack /\ sz' \in Nat /\ sz' <= sz /\ sz \in Nat
    BY <1>0, <1>1 DEF PopPending, pendVars, TypeOK
  <2>3. \A i \in 0..(sz'-1) : i \in 0..(sz-1)
    <3>1. \A n, m \in Nat : n <= m => \A i \in 0..(n-1) : i \in 0..(m-1)
      OBVIOUS
    <3>2. QED
      BY <2>2, <3>1
  <2>4. \A i, j \in 0..(sz'-1) : stack'[i] = stack'[j] => i = j
    BY <1>0, <2>2, <2>3 DEF StackInv, PendingOnce
  <2>5. \A i \in 0..(sz'-1) : stack'[i] \in Known'
    BY <1>0, <2>1, <2>2, <2>3 DEF StackInv, PendingOnce
  <2>6. sz' <= Len(chain')
    BY <1>0, <2>1, <2>2 DEF StackInv
  <2>7. QED
    BY <2>1, <2>4, <2>5, <2>6 DEF StackInv, PendingOnce
<1>2. CASE /\ chain' = Append(chain, Host(url[t]))
           /\ Host(url[t]) \in Hosts \ Known
           /\ UNCHANGED pendVars \/ Push(Host(url[t]))
  <2>0. /\ Host(url[t]) \in Hosts /\ Host(url[t]) \notin Known
        /\ Len(chain) \in Nat /\ Len(chain') = Len(chain) + 1
        /\ \A i \in 1..Len(chain) : chain'[i] = chain[i]
        /\ chain'[Len(chain) + 1] = Host(url[t])
    <3>1. Host(url[t]) \in Hosts /\ chain \in Seq(Hosts)
      BY <1>0, <1>2 DEF TypeOK
    <3>2. QED
      BY <1>2, <3>1, AppendIs
  <2>1. EntriesUnique'
    <3>1. \A i \in 1..Len(chain) : chain[i] # Host(url[t])
      BY <2>0 DEF Known
    <3>2. \A i \in 1..Len(chain') : i \in 1..Len(chain) \/ i = Len(chain) + 1
      BY <2>0
    <3>3. QED
      BY <1>0, <2>0, <3>1, <3>2 DEF EntriesUnique
  <2>2. Known' = Known \cup {Host(url[t])}
    BY <2>0 DEF Known
  <2>3. CASE UNCHANGED pendVars
    <3>1. stack' = stack /\ sz' = sz /\ sz \in Nat
      BY <1>0, <2>3 DEF pendVars, TypeOK
    <3>2. PendingOnce' /\ sz' <= Len(chain')
      BY <1>0, <2>0, <2>2, <3>1 DEF StackInv, PendingOnce
    <3>3. QED
      BY <2>1, <3>2 DEF StackInv
  <2>4. CASE Push(Host(url[t]))
    <3>1. sz \in 0..Cardinality(Hosts)
      BY SlotIn
    <3>2. /\ stack'[sz] = Host(url[t])
          /\ \A i \in 0..(sz-1) : stack'[i] = stack[i] /\ stack[i] \in Known
      BY <1>0, <2>4, <3>1 DEF Push, TypeOK, StackInv, PendingOnce
    <3>3. sz' = sz + 1 /\ sz' <= Len(chain') /\ sz \in Nat
      BY <1>0, <2>0, <2>4 DEF Push, TypeOK, StackInv
    <3>4. \A i \in 0..(sz'-1) : i \in 0..(sz-1) \/ i = sz
      BY <3>3
    <3>5. \A i \in 0..(sz'-1) : stack'[i] \in Known'
      BY <2>2, <3>2, <3>4
    <3>6. \A i, j \in 0..(sz-1) : stack[i] = stack[j] => i = j
      BY <1>0 DEF StackInv, PendingOnce
    <3>7. \A i \in 0..(sz-1) : stack'[i] # Host(url[t])
      BY <2>0, <3>2
    <3>8. \A i, j \in 0..(sz'-1) : stack'[i] = stack'[j] => i = j
      BY <3>2, <3>4, <3>6, <3>7
    <3>9. QED
      BY <2>1, <3>3, <3>5, <3>8 DEF StackInv, PendingOnce
  <2>5. QED
    BY <1>2, <2>1, <2>3, <2>4
<1>3. QED
  BY <1>1, <1>2, StepChain

LEMMA NextInv == IInv /\ [Next]_vars => IInv'
<1> SUFFICES ASSUME IInv, [Next]_vars PROVE IInv'
  OBVIOUS
<1>1. CASE \E t \in Threads : Step(t)
  BY <1>1, StepType, StepHands, StepPassed, StepUnique DEF IInv
<1>2. CASE UNCHANGED vars
  BY <1>2 DEF IInv, TypeOK, HandsInv, PassedInv, EntriesUnique, StackInv, PendingOnce, Known,
     vars, tableVars, pendVars, ownVars
<1>3. QED
  BY <1>1, <1>2 DEF Next, Finished

LEMMA InvAlways == Spec => []IInv
BY InitInv, NextInv, PTL DEF Spec

(* No table of the URL engine and no worker's hand holds what does not       *)
(* belong there: no null host where one is used, no slot beyond the stack.   *)
THEOREM HostTypes == Spec => []TypeOK
<1>1. IInv => TypeOK
  BY DEF IInv
<1>2. QED
  BY <1>1, InvAlways, PTL

(* No host ever gets a second entry.                                         *)
THEOREM NoSecondEntry == Spec => []EntriesUnique
<1>1. IInv => EntriesUnique
  BY DEF IInv
<1>2. QED
  BY <1>1, InvAlways, PTL

(* No host is on the stack of pending hosts twice.                           *)
THEOREM NeverPendingTwice == Spec => []PendingOnce
<1>1. IInv => PendingOnce
  BY DEF IInv, StackInv
<1>2. QED
  BY <1>1, InvAlways, PTL

(* No entry that was linked in is ever cut off.                              *)
THEOREM NoEntryLost == Spec => ChainGrows
<1>1. IInv /\ [Next]_vars =>
        [/\ Len(chain) <= Len(chain')
         /\ \A i \in 1..Len(chain) : chain'[i] = chain[i]]_vars
  <2> SUFFICES ASSUME IInv, Next
               PROVE  /\ Len(chain) <= Len(chain')
                      /\ \A i \in 1..Len(chain) : chain'[i] = chain[i]
    OBVIOUS
  <2>1. CASE \E t \in Threads : Step(t)
    BY <2>1, StepGrows
  <2>2. CASE UNCHANGED vars
    BY <2>2 DEF vars, tableVars, IInv, TypeOK
  <2>3. QED
    BY <2>1, <2>2 DEF Next, Finished
<1>2. QED
  BY <1>1, InvAlways, PTL DEF Spec, ChainGrows
=============================================================================
