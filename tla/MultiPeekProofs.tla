--------------------------- MODULE MultiPeekProofs ---------------------------
(***************************************************************************)
(* Proofs about MultiPeek for any number of workers, peeks and pages: every *)
(* peek is in one place from the queue of the I/O thread to the hands of   *)
(* its worker, and a worker that is woken finds one.                       *)
(***************************************************************************)
EXTENDS MultiPeek, Integers, FiniteSetTheorems, SequenceTheorems, TLAPS

Handle == Worker \X Nat

(* The places are q, a, r, m, l and g; together they hold all.               *)
Split(q, a, r, m, l, g, all) ==
    /\ q \cup a \cup r \cup m \cup l \cup g = all
    /\ q \cap (a \cup r \cup m \cup l \cup g) = {}
    /\ a \cap (r \cup m \cup l \cup g) = {}
    /\ r \cap (m \cup l \cup g) = {}
    /\ m \cap (l \cup g) = {}
    /\ l \cap g = {}

All(w, n) == {w} \X (1..n)

SplitInv ==
    \A w \in Worker :
      Split(Has(w, ToSet(queue)), Has(w, added), Has(w, active), Has(w, msgs),
            ToSet(done[w]), got[w], All(w, asked[w]))

State == {"sort", "inform", "wait", "blocked", "woken", "next", "end"}

PeekTypes ==
    /\ at \in [Worker -> State] /\ waiting \in [Worker -> BOOLEAN]
    /\ asked \in [Worker -> Nat] /\ total \in [Worker -> Int]
    /\ got \in [Worker -> SUBSET Handle] /\ done \in [Worker -> Seq(Handle)]
    /\ queue \in Seq(Handle)
    /\ added \in SUBSET Handle /\ active \in SUBSET Handle /\ msgs \in SUBSET Handle
    /\ sorts \in [Worker -> Int]

ToCome(w) == asked[w] - Cardinality(got[w]) - (IF at[w] = "inform" THEN 1 ELSE 0)

(* A worker is only disturbed while it waits, so it counts undisturbed; the  *)
(* next page begins when nothing of this one is left.                        *)
CountInv ==
    \A w \in Worker :
      /\ IsFiniteSet(got[w]) /\ total[w] = ToCome(w)
      /\ waiting[w] => at[w] \in {"blocked", "woken"}
      /\ at[w] = "next" => total[w] = 0

DoneInv ==
    \A w \in Worker : IsInjective(done[w]) /\ (at[w] = "woken" => done[w] # <<>>)

IInv == PeekTypes /\ SplitInv /\ CountInv /\ DoneInv

-----------------------------------------------------------------------------
(* Sequences as sets.                                                        *)
LEMMA ToSetAppend ==
  ASSUME NEW S, NEW s \in Seq(S), NEW e \in S
  PROVE  /\ ToSet(Append(s, e)) = ToSet(s) \cup {e}
         /\ e \notin ToSet(s) /\ IsInjective(s) => IsInjective(Append(s, e))
<1>1. /\ Append(s, e) \in Seq(S) /\ Len(Append(s, e)) = Len(s) + 1
      /\ \A i \in 1..Len(s) : Append(s, e)[i] = s[i]
      /\ Append(s, e)[Len(s) + 1] = e
  BY AppendProperties
<1>2. Len(s) \in Nat /\ DOMAIN s = 1..Len(s) /\ DOMAIN Append(s, e) = 1..(Len(s) + 1)
  BY <1>1
<1>3. ToSet(Append(s, e)) = ToSet(s) \cup {e}
  BY <1>1, <1>2 DEF ToSet
<1>4. ASSUME e \notin ToSet(s), IsInjective(s), NEW i \in 1..(Len(s) + 1), NEW j \in 1..(Len(s) + 1),
             Append(s, e)[i] = Append(s, e)[j]
      PROVE  i = j
  <2>1. \A k \in 1..Len(s) : s[k] # e
    BY <1>2, <1>4 DEF ToSet
  <2>2. CASE i = Len(s) + 1 \/ j = Len(s) + 1
    BY <1>1, <1>2, <1>4, <2>1, <2>2
  <2>3. CASE i \in 1..Len(s) /\ j \in 1..Len(s)
    BY <1>1, <1>2, <1>4, <2>3 DEF IsInjective
  <2>4. QED
    BY <1>2, <2>2, <2>3
<1>5. QED
  BY <1>2, <1>3, <1>4 DEF IsInjective

LEMMA TakeLast ==
  ASSUME NEW S, NEW s \in Seq(S), s # <<>>, IsInjective(s)
  PROVE  /\ Last(s) \in ToSet(s) /\ Last(s) \in S
         /\ Front(s) \in Seq(S) /\ IsInjective(Front(s))
         /\ ToSet(Front(s)) = ToSet(s) \ {Last(s)}
<1>1. Len(s) \in Nat \ {0} /\ DOMAIN s = 1..Len(s)
  BY EmptySeq
<1>2. /\ Front(s) \in Seq(S) /\ Len(Front(s)) = Len(s) - 1
      /\ \A i \in 1..(Len(s) - 1) : Front(s)[i] = s[i]
  BY <1>1, SubSeqProperties DEF Front
<1>3. DOMAIN Front(s) = 1..(Len(s) - 1)
  BY <1>2
<1>4. Last(s) \in ToSet(s) /\ Last(s) \in S
  BY <1>1 DEF Last, ToSet
<1>5. IsInjective(Front(s))
  BY <1>1, <1>2, <1>3 DEF IsInjective
<1>6. ASSUME NEW i \in 1..Len(s)
      PROVE  s[i] = s[Len(s)] <=> i = Len(s)
  <2>1. Len(s) \in DOMAIN s /\ i \in DOMAIN s
    BY <1>1
  <2>2. QED
    BY <2>1 DEF IsInjective
<1>7. ToSet(Front(s)) = ToSet(s) \ {Last(s)}
  <2>1. ToSet(s) = {s[i] : i \in 1..Len(s)} /\ ToSet(Front(s)) = {s[i] : i \in 1..(Len(s) - 1)}
    BY <1>1, <1>2, <1>3 DEF ToSet
  <2>2. \A n \in Nat : \A i \in 1..n : i \in 1..(n - 1) <=> i # n
    OBVIOUS
  <2>3. 1..(Len(s) - 1) = (1..Len(s)) \ {Len(s)}
    BY <1>1, <2>2
  <2>4. ToSet(Front(s)) = {s[i] : i \in (1..Len(s)) \ {Len(s)}}
    BY <2>1, <2>3
  <2>5. QED
    BY <1>6, <2>1, <2>4, Zenon DEF Last
<1>8. QED
  BY <1>2, <1>4, <1>5, <1>7

(* The peeks of a worker in a set.                                           *)
LEMMA HasSets ==
  ASSUME NEW w, NEW X, NEW Y
  PROVE  /\ Has(w, X \cup Y) = Has(w, X) \cup Has(w, Y)
         /\ Has(w, X \ Y) = Has(w, X) \ Has(w, Y)
         /\ Has(w, {}) = {}
         /\ X \subseteq Y => Has(w, X) \subseteq Has(w, Y)
BY DEF Has

LEMMA HasOne ==
  ASSUME NEW w, NEW p
  PROVE  Has(w, {p}) = IF p[1] = w THEN {p} ELSE {}
BY DEF Has

(* A worker has as many peeks as it asked for, and all of them are back when *)
(* it counts that many.                                                      *)
LEMMA AllCounted ==
  ASSUME NEW w, NEW n \in Nat
  PROVE  IsFiniteSet(All(w, n)) /\ Cardinality(All(w, n)) = n
<1> DEFINE f == [i \in 1..n |-> <<w, i>>]
<1>1. f \in Bijection(1..n, All(w, n))
  <2>1. f \in [1..n -> All(w, n)]
    BY DEF All
  <2>2. \A i, j \in 1..n : f[i] = f[j] => i = j
    OBVIOUS
  <2>3. \A p \in All(w, n) : \E i \in 1..n : f[i] = p
    BY DEF All
  <2>4. QED
    BY <2>1, <2>2, <2>3 DEF Bijection, Injection, IsInjective, Surjection
<1>2. ExistsBijection(1..n, All(w, n))
  BY <1>1 DEF ExistsBijection
<1>3. IsFiniteSet(1..n) /\ Cardinality(1..n) = n
  BY FS_Interval
<1>4. QED
  BY <1>2, <1>3, FS_Bijection

LEMMA AllBack ==
  ASSUME NEW w, NEW n \in Nat, NEW G \in SUBSET All(w, n), Cardinality(G) = n
  PROVE  G = All(w, n)
BY AllCounted, FS_Subset

-----------------------------------------------------------------------------
LEMMA PeekInit == Init => IInv
<1> SUFFICES ASSUME Init PROVE IInv
  OBVIOUS
<1>1. PeekTypes
  BY DEF Init, PeekTypes, State
<1>2. ToSet(<<>>) = {} /\ \A w \in Worker : All(w, 0) = {}
  BY DEF ToSet, All
<1>3. SplitInv
  BY <1>2, HasSets DEF Init, SplitInv, Split
<1>4. CountInv
  BY FS_EmptySet DEF Init, CountInv, ToCome
<1>5. DoneInv
  BY DEF Init, DoneInv, IsInjective
<1>6. QED
  BY <1>1, <1>3, <1>4, <1>5 DEF IInv

-----------------------------------------------------------------------------
(* Steps that move no peek.                                                  *)
LEMMA QuietStep ==
  ASSUME IInv, UNCHANGED <<workers, done, queue, curl>>
  PROVE  IInv'
<1>1. PeekTypes'
  BY DEF IInv, PeekTypes, workers, curl
<1>2. SplitInv'
  BY DEF IInv, SplitInv, workers, curl
<1>3. CountInv'
  BY DEF IInv, CountInv, ToCome, workers
<1>4. DoneInv'
  BY DEF IInv, DoneInv, workers
<1>5. QED
  BY <1>1, <1>2, <1>3, <1>4 DEF IInv

(* A worker goes on without a peek.                                          *)
LEMMA GoesOn ==
  ASSUME IInv, NEW w \in Worker, NEW s \in State \ {"inform", "woken"},
         at[w] \notin {"inform", "blocked", "woken"},
         at' = [at EXCEPT ![w] = s], s = "next" => total[w] = 0,
         \/ waiting' = waiting
         \/ s = "blocked" /\ waiting' = [waiting EXCEPT ![w] = TRUE],
         UNCHANGED <<asked, total, got, sorts, done, queue, curl>>
  PROVE  IInv'
<1>1. PeekTypes'
  BY DEF IInv, PeekTypes, curl
<1>2. SplitInv'
  BY DEF IInv, SplitInv, curl
<1>3. ASSUME NEW v \in Worker
      PROVE  /\ IsFiniteSet(got'[v]) /\ total'[v] = ToCome(v)'
             /\ waiting'[v] => at'[v] \in {"blocked", "woken"}
             /\ at'[v] = "next" => total'[v] = 0
  <2>1. CASE v # w
    BY <1>3, <2>1 DEF IInv, PeekTypes, CountInv, ToCome
  <2>2. CASE v = w
    <3>1. at'[w] = s /\ s # "inform" /\ at[w] # "inform"
      BY DEF IInv, PeekTypes
    <3>2. ToCome(w)' = ToCome(w)
      BY <3>1 DEF ToCome
    <3>3. waiting'[w] => s = "blocked" \/ waiting[w]
      BY DEF IInv, PeekTypes
    <3>4. QED
      BY <2>2, <3>1, <3>2, <3>3 DEF IInv, CountInv
  <2>3. QED
    BY <2>1, <2>2
<1>4. CountInv'
  BY <1>3 DEF CountInv
<1>5. DoneInv'
  BY DEF IInv, DoneInv, PeekTypes
<1>6. QED
  BY <1>1, <1>2, <1>4, <1>5 DEF IInv

(* A new peek is in no place yet, since the places hold what was asked for.  *)
LEMMA AddStep ==
  ASSUME IInv, NEW w \in Worker, AddToQueue(w)
  PROVE  IInv'
<1> DEFINE n == asked[w] + 1
           p == <<w, n>>
<1>1. p \in Handle /\ n \in Nat /\ queue' = Append(queue, p) /\ asked' = [asked EXCEPT ![w] = n]
  <2>1. asked[w] \in Nat /\ queue \in Seq(Handle)
    BY DEF IInv, PeekTypes
  <2>2. asked' = [asked EXCEPT ![w] = n] /\ asked'[w] = n
    BY DEF AddToQueue, IInv, PeekTypes
  <2>3. queue' = Append(queue, <<w, asked'[w]>>)
    BY DEF AddToQueue
  <2>4. QED
    BY <2>1, <2>2, <2>3 DEF Handle
<1>p. p[1] = w /\ p \notin All(w, asked[w]) /\ All(w, n) = All(w, asked[w]) \cup {p}
  BY DEF IInv, PeekTypes, All
<1> HIDE DEF p
<1>2. at' = [at EXCEPT ![w] = "inform"] /\ at[w] = "sort"
  BY DEF AddToQueue
<1>3. UNCHANGED <<total, waiting, got, sorts, done, added, active, msgs>>
  BY DEF AddToQueue, curl
<1>4. queue' \in Seq(Handle) /\ ToSet(queue') = ToSet(queue) \cup {p}
  BY <1>1, AppendProperties, ToSetAppend DEF IInv, PeekTypes
<1>5. PeekTypes'
  BY <1>1, <1>2, <1>3, <1>4 DEF IInv, PeekTypes, State
<1>6. ASSUME NEW v \in Worker
      PROVE  Split(Has(v, ToSet(queue)), Has(v, added), Has(v, active), Has(v, msgs),
                   ToSet(done[v]), got[v], All(v, asked[v]))'
  <2>1. Has(v, ToSet(queue')) = Has(v, ToSet(queue)) \cup Has(v, {p})
    <3>1. Has(v, ToSet(queue) \cup {p}) = Has(v, ToSet(queue)) \cup Has(v, {p})
      BY HasSets, Zenon
    <3>2. QED
      BY <1>4, <3>1, Zenon
  <2>2. Split(Has(v, ToSet(queue)), Has(v, added), Has(v, active), Has(v, msgs),
              ToSet(done[v]), got[v], All(v, asked[v]))
    BY DEF IInv, SplitInv
  <2>3. CASE v # w
    <3>1. Has(v, {p}) = {} /\ asked'[v] = asked[v]
      BY <1>1, <1>p, <2>3, HasOne DEF IInv, PeekTypes
    <3>2. Has(v, ToSet(queue')) = Has(v, ToSet(queue))
      BY <2>1, <3>1
    <3>3. QED
      BY <1>3, <2>2, <3>1, <3>2
  <2>4. CASE v = w
    <3>1. Has(v, {p}) = {p} /\ asked'[v] = n
      BY <1>1, <1>p, <2>4, HasOne DEF IInv, PeekTypes
    <3>2. /\ got'[v] = got[v] /\ done'[v] = done[v]
          /\ added' = added /\ active' = active /\ msgs' = msgs
      BY <1>3
    <3>3. QED
      BY <1>p, <2>1, <2>2, <2>4, <3>1, <3>2 DEF Split
  <2>5. QED
    BY <2>3, <2>4
<1>7. CountInv'
  <2>1. ASSUME NEW v \in Worker PROVE Cardinality(got[v]) \in Nat /\ asked[v] \in Nat /\ total[v] \in Int
    BY FS_CardinalityType DEF IInv, CountInv, PeekTypes
  <2>2. QED
    BY <1>1, <1>2, <1>3, <2>1 DEF IInv, PeekTypes, CountInv, ToCome
<1>8. DoneInv'
  BY <1>2, <1>3 DEF IInv, PeekTypes, DoneInv
<1>9. QED
  BY <1>5, <1>6, <1>7, <1>8 DEF IInv, SplitInv

LEMMA InformStep ==
  ASSUME IInv, NEW w \in Worker, Inform(w)
  PROVE  IInv'
<1>1. /\ total' = [total EXCEPT ![w] = total[w] + 1]
      /\ at' = [at EXCEPT ![w] = "sort"] /\ at[w] = "inform"
      /\ UNCHANGED <<asked, waiting, got, sorts, done, queue, added, active, msgs>>
  BY DEF Inform, curl
<1>2. PeekTypes'
  BY <1>1 DEF IInv, PeekTypes, State
<1>3. SplitInv'
  BY <1>1 DEF IInv, SplitInv
<1>4. CountInv'
  <2>1. ASSUME NEW v \in Worker PROVE Cardinality(got[v]) \in Nat /\ asked[v] \in Nat /\ total[v] \in Int
    BY FS_CardinalityType DEF IInv, CountInv, PeekTypes
  <2>2. QED
    BY <1>1, <2>1 DEF IInv, PeekTypes, CountInv, ToCome
<1>5. DoneInv'
  BY <1>1 DEF IInv, PeekTypes, DoneInv
<1>6. QED
  BY <1>2, <1>3, <1>4, <1>5 DEF IInv

LEMMA Counted ==
  ASSUME IInv, NEW w \in Worker, at[w] # "inform"
  PROVE  /\ IsFiniteSet(got[w]) /\ Cardinality(got[w]) \in Nat /\ asked[w] \in Nat
         /\ total[w] = asked[w] - Cardinality(got[w])
<1>1. IsFiniteSet(got[w]) /\ total[w] = ToCome(w) /\ asked[w] \in Nat
  BY DEF IInv, CountInv, PeekTypes
<1>2. Cardinality(got[w]) \in Nat
  BY <1>1, FS_CardinalityType
<1>3. ToCome(w) = asked[w] - Cardinality(got[w])
  BY <1>1, <1>2 DEF ToCome
<1>4. QED
  BY <1>1, <1>2, <1>3

(* The list of done transfers gives one to the worker, and total counts it.  *)
LEMMA PopStep ==
  ASSUME IInv, NEW w \in Worker, done[w] # <<>>, at[w] \in {"wait", "woken"}, Popped(w),
         waiting' \in {waiting, [waiting EXCEPT ![w] = FALSE]}, ~waiting'[w],
         UNCHANGED <<asked, sorts, queue, curl>>
  PROVE  IInv'
<1> DEFINE p == Last(done[w])
<1>1. /\ p \in ToSet(done[w]) /\ p \in Handle
      /\ Front(done[w]) \in Seq(Handle) /\ IsInjective(Front(done[w]))
      /\ ToSet(Front(done[w])) = ToSet(done[w]) \ {p}
  BY TakeLast DEF IInv, PeekTypes, DoneInv
<1>2. /\ got' = [got EXCEPT ![w] = got[w] \cup {p}]
      /\ done' = [done EXCEPT ![w] = Front(done[w])]
      /\ total' = [total EXCEPT ![w] = total[w] - 1]
      /\ at' = [at EXCEPT ![w] = "wait"]
  BY DEF Popped, IInv, PeekTypes
<1>3. UNCHANGED <<asked, sorts, queue, added, active, msgs>>
  BY DEF curl
<1> HIDE DEF p
<1>4. PeekTypes'
  <2>1. got[w] \cup {p} \in SUBSET Handle
    BY <1>1 DEF IInv, PeekTypes
  <2>2. total[w] - 1 \in Int
    BY DEF IInv, PeekTypes
  <2>3. /\ got' \in [Worker -> SUBSET Handle] /\ done' \in [Worker -> Seq(Handle)]
        /\ total' \in [Worker -> Int]
    BY <1>1, <1>2, <2>1, <2>2 DEF IInv, PeekTypes
  <2>4. at' \in [Worker -> State] /\ waiting' \in [Worker -> BOOLEAN]
    BY <1>2 DEF IInv, PeekTypes, State
  <2>5. QED
    BY <1>3, <2>3, <2>4 DEF IInv, PeekTypes
<1>5. ASSUME NEW v \in Worker
      PROVE  Split(Has(v, ToSet(queue)), Has(v, added), Has(v, active), Has(v, msgs),
                   ToSet(done[v]), got[v], All(v, asked[v]))'
  <2>1. Split(Has(v, ToSet(queue)), Has(v, added), Has(v, active), Has(v, msgs),
              ToSet(done[v]), got[v], All(v, asked[v]))
    BY DEF IInv, SplitInv
  <2>2. CASE v # w
    BY <1>2, <1>3, <2>1, <2>2 DEF IInv, PeekTypes
  <2>3. CASE v = w
    <3>1. got'[v] = got[v] \cup {p} /\ ToSet(done'[v]) = ToSet(done[v]) \ {p}
      BY <1>1, <1>2, <2>3 DEF IInv, PeekTypes
    <3>2. p \in ToSet(done[v])
      BY <1>1, <2>3
    <3>3. QED
      BY <1>3, <2>1, <3>1, <3>2 DEF Split
  <2>4. QED
    BY <2>2, <2>3
<1>6. p \notin got[w]
  BY <1>1 DEF IInv, SplitInv, Split
<1>7. ASSUME NEW v \in Worker
      PROVE  /\ IsFiniteSet(got'[v]) /\ total'[v] = ToCome(v)'
             /\ waiting'[v] => at'[v] \in {"blocked", "woken"}
             /\ at'[v] = "next" => total'[v] = 0
  <2>1. CASE v # w
    BY <1>2, <1>3, <2>1 DEF IInv, PeekTypes, CountInv, ToCome
  <2>2. CASE v = w
    <3>1. IsFiniteSet(got[w]) /\ total[w] = asked[w] - Cardinality(got[w])
      BY Counted
    <3>2. /\ IsFiniteSet(got[w] \cup {p}) /\ Cardinality(got[w]) \in Nat
          /\ Cardinality(got[w] \cup {p}) = Cardinality(got[w]) + 1
      BY <1>6, <3>1, FS_AddElement, FS_CardinalityType
    <3>3. /\ got'[w] = got[w] \cup {p} /\ total'[w] = total[w] - 1 /\ at'[w] = "wait"
          /\ asked'[w] = asked[w] /\ asked[w] \in Nat
      BY <1>2, <1>3 DEF IInv, PeekTypes
    <3>4. ToCome(w)' = asked[w] - Cardinality(got[w] \cup {p})
      BY <3>2, <3>3 DEF ToCome
    <3>5. total'[w] = ToCome(w)'
      BY <3>1, <3>2, <3>3, <3>4
    <3>6. QED
      BY <2>2, <3>2, <3>3, <3>5
  <2>3. QED
    BY <2>1, <2>2
<1>8. DoneInv'
  BY <1>1, <1>2 DEF IInv, PeekTypes, DoneInv
<1>9. QED
  BY <1>4, <1>5, <1>7, <1>8 DEF IInv, SplitInv, CountInv

(* A page is over when total is 0: then all peeks are back, so none of them  *)
(* is left to be taken for one of the next page.                             *)
LEMMA NextPageStep ==
  ASSUME IInv, NEW w \in Worker, NextPage(w)
  PROVE  IInv'
<1>1. PICK s \in {"end", "sort"} : at' = [at EXCEPT ![w] = s]
  BY DEF NextPage
<1>2. /\ at[w] = "next" /\ asked' = [asked EXCEPT ![w] = 0] /\ got' = [got EXCEPT ![w] = {}]
      /\ sorts' = [sorts EXCEPT ![w] = sorts[w] + 1]
      /\ UNCHANGED <<total, waiting, done, queue, added, active, msgs>>
  BY DEF NextPage, curl
<1>3. PeekTypes'
  BY <1>1, <1>2 DEF IInv, PeekTypes, State
<1>4. got[w] = All(w, asked[w])
  <2>1. IsFiniteSet(got[w]) /\ total[w] = 0 /\ total[w] = asked[w] - Cardinality(got[w])
    BY <1>2, Counted DEF IInv, CountInv
  <2>2. asked[w] \in Nat /\ Cardinality(got[w]) \in Nat
    BY <2>1, FS_CardinalityType DEF IInv, PeekTypes
  <2>3. got[w] \subseteq All(w, asked[w]) /\ Cardinality(got[w]) = asked[w]
    BY <2>1, <2>2 DEF IInv, SplitInv, Split
  <2>4. QED
    BY <2>2, <2>3, AllBack
<1>5. ASSUME NEW v \in Worker
      PROVE  Split(Has(v, ToSet(queue)), Has(v, added), Has(v, active), Has(v, msgs),
                   ToSet(done[v]), got[v], All(v, asked[v]))'
  <2>1. Split(Has(v, ToSet(queue)), Has(v, added), Has(v, active), Has(v, msgs),
              ToSet(done[v]), got[v], All(v, asked[v]))
    BY DEF IInv, SplitInv
  <2>2. CASE v # w
    BY <1>2, <2>1, <2>2 DEF IInv, PeekTypes
  <2>3. CASE v = w
    <3>1. got'[v] = {} /\ asked'[v] = 0 /\ All(v, 0) = {}
      BY <1>2, <2>3 DEF IInv, PeekTypes, All
    <3>2. QED
      BY <1>2, <1>4, <2>1, <2>3, <3>1 DEF Split
  <2>4. QED
    BY <2>2, <2>3
<1>6. CountInv'
  BY <1>1, <1>2, FS_EmptySet DEF IInv, PeekTypes, CountInv, ToCome
<1>7. DoneInv'
  BY <1>1, <1>2 DEF IInv, PeekTypes, DoneInv
<1>8. QED
  BY <1>3, <1>5, <1>6, <1>7 DEF IInv, SplitInv

LEMMA WorkerPreserves ==
  ASSUME IInv, NEW w \in Worker, WorkerStep(w)
  PROVE  IInv'
<1>1. CASE AddToQueue(w)
  BY <1>1, AddStep
<1>2. CASE Inform(w)
  BY <1>2, InformStep
<1>3. CASE Sorted(w)
  <2>1. PICK s \in {"next", "wait"} : at' = [at EXCEPT ![w] = s] /\ (s = "next" => asked[w] = 0)
    BY <1>3 DEF Sorted
  <2>2. asked[w] = 0 => total[w] = 0
    <3>1. SUFFICES ASSUME asked[w] = 0 PROVE total[w] = 0
      OBVIOUS
    <3>2. got[w] = {}
      BY <3>1 DEF IInv, SplitInv, Split, All
    <3>3. at[w] = "sort" /\ total[w] = asked[w] - Cardinality(got[w])
      BY <1>3, Counted DEF Sorted
    <3>4. QED
      BY <3>1, <3>2, <3>3, FS_EmptySet
  <2>3. at[w] = "sort" /\ UNCHANGED <<asked, total, waiting, got, sorts, done, queue, curl>>
    BY <1>3 DEF Sorted
  <2>4. s \in State \ {"inform", "woken"}
    BY DEF State
  <2>5. QED
    BY <2>1, <2>2, <2>3, <2>4, GoesOn
<1>4. CASE WaitPop(w)
  <2>1. /\ at[w] = "wait" /\ done[w] # <<>> /\ Popped(w)
        /\ waiting' = waiting /\ UNCHANGED <<asked, sorts, queue, curl>>
    BY <1>4 DEF WaitPop, MustBlock
  <2>2. ~waiting[w]
    BY <2>1 DEF IInv, CountInv, PeekTypes
  <2>3. QED
    BY <2>1, <2>2, PopStep
<1>5. CASE WaitBlock(w)
  BY <1>5, GoesOn DEF WaitBlock, State
<1>6. CASE WaitResume(w)
  <2>1. /\ at[w] = "woken" /\ done[w] # <<>> /\ Popped(w)
        /\ waiting' = [waiting EXCEPT ![w] = FALSE] /\ UNCHANGED <<asked, sorts, queue, curl>>
    BY <1>6 DEF WaitResume, IInv, DoneInv
  <2>2. ~waiting'[w]
    BY <2>1 DEF IInv, PeekTypes
  <2>3. QED
    BY <2>1, <2>2, PopStep
<1>7. CASE WaitOver(w)
  BY <1>7, GoesOn DEF WaitOver, State
<1>8. CASE NextPage(w)
  BY <1>8, NextPageStep
<1>9. QED
  BY <1>1, <1>2, <1>3, <1>4, <1>5, <1>6, <1>7, <1>8 DEF WorkerStep

-----------------------------------------------------------------------------
(* The thread moves peeks between the queue, libcurl and the lists; what a   *)
(* worker asked for and got stays.                                           *)
LEMMA ThreadMoves ==
  ASSUME IInv, UNCHANGED <<workers, done>>, queue' \in Seq(Handle),
         added' \in SUBSET Handle, active' \in SUBSET Handle, msgs' \in SUBSET Handle,
         \A w \in Worker :
           Split(Has(w, ToSet(queue)), Has(w, added), Has(w, active), Has(w, msgs),
                 ToSet(done[w]), got[w], All(w, asked[w]))
           => Split(Has(w, ToSet(queue')), Has(w, added'), Has(w, active'), Has(w, msgs'),
                    ToSet(done[w]), got[w], All(w, asked[w]))
  PROVE  IInv'
<1>1. PeekTypes'
  BY DEF IInv, PeekTypes, workers
<1>2. SplitInv'
  BY DEF IInv, SplitInv, workers
<1>3. CountInv'
  BY DEF IInv, CountInv, ToCome, workers
<1>4. DoneInv'
  BY DEF IInv, DoneInv, workers
<1>5. QED
  BY <1>1, <1>2, <1>3, <1>4 DEF IInv

LEMMA ReadStep ==
  ASSUME IInv, ReadMessage
  PROVE  IInv'
<1>1. UNCHANGED <<workers, done, active, msgs>>
  BY DEF ReadMessage
<1>2. CASE UNCHANGED <<queue, added>>
  BY <1>1, <1>2, QuietStep DEF ReadMessage, curl
<1>3. CASE added' = added \cup ToSet(queue) /\ queue' = <<>>
  <2>1. ToSet(queue) \subseteq Handle /\ ToSet(<<>>) = {} /\ <<>> \in Seq(Handle)
    BY DEF ToSet, IInv, PeekTypes
  <2>2. ASSUME NEW w \in Worker
        PROVE  /\ Has(w, added') = Has(w, added) \cup Has(w, ToSet(queue))
               /\ Has(w, ToSet(queue')) = {}
    BY <1>3, <2>1, HasSets
  <2>3. added' \in SUBSET Handle /\ active \in SUBSET Handle /\ msgs \in SUBSET Handle
    BY <1>3, <2>1 DEF IInv, PeekTypes
  <2>4. ASSUME NEW w \in Worker,
               Split(Has(w, ToSet(queue)), Has(w, added), Has(w, active), Has(w, msgs),
                     ToSet(done[w]), got[w], All(w, asked[w]))
        PROVE  Split(Has(w, ToSet(queue')), Has(w, added'), Has(w, active'), Has(w, msgs'),
                     ToSet(done[w]), got[w], All(w, asked[w]))
    BY <1>1, <2>2, <2>4 DEF Split
  <2>5. QED
    BY <1>1, <1>3, <2>1, <2>3, <2>4, ThreadMoves
<1>4. QED
  BY <1>2, <1>3 DEF ReadMessage, Pending

LEMMA SocketStep ==
  ASSUME IInv, NEW ends \in SUBSET (active \cup added), NEW failed,
         SocketAction(ends, failed), UNCHANGED <<workers, done, queue>>
  PROVE  IInv'
<1>1. active' = (active \cup added) \ ends /\ added' = {} /\ msgs' = msgs \cup ends
  BY DEF SocketAction
<1>2. ASSUME NEW w \in Worker
      PROVE  /\ Has(w, active') = (Has(w, active) \cup Has(w, added)) \ Has(w, ends)
             /\ Has(w, added') = {} /\ Has(w, msgs') = Has(w, msgs) \cup Has(w, ends)
             /\ Has(w, ends) \subseteq Has(w, active) \cup Has(w, added)
  BY <1>1 DEF Has
<1>3. /\ active' \in SUBSET Handle /\ added' \in SUBSET Handle /\ msgs' \in SUBSET Handle
      /\ queue' \in Seq(Handle)
  BY <1>1 DEF IInv, PeekTypes
<1>4. ASSUME NEW w \in Worker,
             Split(Has(w, ToSet(queue)), Has(w, added), Has(w, active), Has(w, msgs),
                   ToSet(done[w]), got[w], All(w, asked[w]))
      PROVE  Split(Has(w, ToSet(queue')), Has(w, added'), Has(w, active'), Has(w, msgs'),
                   ToSet(done[w]), got[w], All(w, asked[w]))
  <2>1. ToSet(queue') = ToSet(queue)
    OBVIOUS
  <2>2. QED
    BY <1>2, <1>4, <2>1 DEF Split
<1>5. QED
  BY <1>3, <1>4, ThreadMoves

LEMMA CheckStep ==
  ASSUME IInv, CheckOne
  PROVE  IInv'
<1>1. PICK p \in msgs :
        /\ msgs' = msgs \ {p}
        /\ done' = [done EXCEPT ![p[1]] = Append(done[p[1]], p)]
        /\ at' = [at EXCEPT ![p[1]] = IF waiting[p[1]] THEN "woken" ELSE at[p[1]]]
  BY DEF CheckOne
<1>2. UNCHANGED <<asked, total, waiting, got, sorts, queue, added, active>>
  BY DEF CheckOne
<1>3. p \in Handle /\ p[1] \in Worker
  BY DEF IInv, PeekTypes, Handle
<1> DEFINE w == p[1]
<1>4. p \in Has(w, msgs) /\ Has(w, {p}) = {p}
  BY HasOne DEF Has
<1>5. p \notin ToSet(done[w])
  BY <1>3, <1>4 DEF IInv, SplitInv, Split
<1>6. /\ Append(done[w], p) \in Seq(Handle) /\ Append(done[w], p) # <<>>
      /\ ToSet(Append(done[w], p)) = ToSet(done[w]) \cup {p}
      /\ IsInjective(Append(done[w], p))
  <2>1. done[w] \in Seq(Handle) /\ IsInjective(done[w])
    BY <1>3 DEF IInv, PeekTypes, DoneInv
  <2> HIDE DEF w
  <2>2. QED
    BY <1>3, <1>5, <2>1, AppendProperties, ToSetAppend
<1> HIDE DEF w
<1>7. /\ w \in Worker /\ done' = [done EXCEPT ![w] = Append(done[w], p)]
      /\ at' = [at EXCEPT ![w] = IF waiting[w] THEN "woken" ELSE at[w]]
  BY <1>1, <1>3 DEF w
<1>8. PeekTypes'
  <2>1. (IF waiting[w] THEN "woken" ELSE at[w]) \in State
    BY <1>7 DEF IInv, PeekTypes, State
  <2>2. at' \in [Worker -> State]
    BY <1>7, <2>1 DEF IInv, PeekTypes
  <2>3. done' \in [Worker -> Seq(Handle)]
    BY <1>6, <1>7 DEF IInv, PeekTypes
  <2>4. msgs' \in SUBSET Handle
    BY <1>1 DEF IInv, PeekTypes
  <2>5. QED
    BY <1>2, <2>2, <2>3, <2>4 DEF IInv, PeekTypes
<1>9. ASSUME NEW v \in Worker
      PROVE  Split(Has(v, ToSet(queue)), Has(v, added), Has(v, active), Has(v, msgs),
                   ToSet(done[v]), got[v], All(v, asked[v]))'
  <2>1. Split(Has(v, ToSet(queue)), Has(v, added), Has(v, active), Has(v, msgs),
              ToSet(done[v]), got[v], All(v, asked[v]))
    BY DEF IInv, SplitInv
  <2>2. Has(v, msgs') = Has(v, msgs) \ Has(v, {p})
    BY <1>1 DEF Has
  <2>3. CASE v # w
    <3>1. Has(v, {p}) = {} /\ done'[v] = done[v]
      BY <1>7, <2>3, HasOne DEF w, IInv, PeekTypes
    <3>2. QED
      BY <1>2, <2>1, <2>2, <3>1
  <2>4. CASE v = w
    <3>1. Has(v, msgs') = Has(v, msgs) \ {p} /\ p \in Has(v, msgs)
      BY <1>4, <2>2, <2>4
    <3>2. ToSet(done'[v]) = ToSet(done[v]) \cup {p}
      BY <1>6, <1>7, <2>4 DEF IInv, PeekTypes
    <3>3. QED
      BY <1>2, <2>1, <3>1, <3>2 DEF Split
  <2>5. QED
    BY <2>3, <2>4
<1>10. CountInv'
  BY <1>2, <1>7 DEF IInv, PeekTypes, CountInv, ToCome
<1>11. DoneInv'
  BY <1>6, <1>7 DEF IInv, PeekTypes, DoneInv
<1>12. QED
  BY <1>8, <1>9, <1>10, <1>11 DEF IInv, SplitInv

LEMMA PeekNext ==
  ASSUME IInv, [Next]_vars
  PROVE  IInv'
<1>1. CASE \E w \in Worker : WorkerStep(w)
  BY <1>1, WorkerPreserves
<1>2. CASE Stop \/ CheckDone \/ Over \/ UNCHANGED vars
  BY <1>2, QuietStep DEF Stop, CheckDone, Over, vars
<1>3. CASE ReadMessage
  BY <1>3, ReadStep
<1>4. CASE TimerReached
  BY <1>4, SocketStep DEF TimerReached
<1>5. CASE CheckOne
  BY <1>5, CheckStep
<1>6. ASSUME NEW p \in Peek, FdError(p)
      PROVE  IInv'
  <2>1. PICK ends \in SUBSET {p} : SocketAction(ends, {p})
    BY <1>6 DEF FdError
  <2>2. ends \in SUBSET (active \cup added) /\ UNCHANGED <<workers, done, queue>>
    BY <1>6 DEF FdError
  <2>3. QED
    BY <2>1, <2>2, SocketStep
<1>7. ASSUME NEW p \in Peek, NEW ends \in SUBSET (active \cup added), FdEvent(p, ends)
      PROVE  IInv'
  BY <1>7, SocketStep DEF FdEvent
<1>8. QED
  BY <1>1, <1>2, <1>3, <1>4, <1>5, <1>6, <1>7 DEF Next

LEMMA PeekInv == Spec => []IInv
BY PeekInit, PeekNext, PTL DEF Spec

-----------------------------------------------------------------------------
LEMMA PlacesSplit ==
  ASSUME IInv
  PROVE  EveryPeekOnce
<1> SUFFICES ASSUME NEW w \in Worker
             PROVE  /\ UNION ToSet(Places(w)) = {w} \X (1..asked[w])
                    /\ \A i, j \in 1..6 : i # j => Places(w)[i] \cap Places(w)[j] = {}
                    /\ total[w] = ToCome(w)
  BY DEF EveryPeekOnce, ToCome
<1> DEFINE q == Has(w, ToSet(queue))
           a == Has(w, added)
           r == Has(w, active)
           m == Has(w, msgs)
           l == ToSet(done[w])
           g == got[w]
<1>1. Split(q, a, r, m, l, g, All(w, asked[w]))
  BY DEF IInv, SplitInv
<1>2. total[w] = ToCome(w)
  BY DEF IInv, CountInv
<1>3. Places(w) = <<q, a, r, m, l, g>>
  BY DEF Places
<1> HIDE DEF q, a, r, m, l, g
<1>4. ToSet(Places(w)) = {q, a, r, m, l, g}
  <2>1. DOMAIN Places(w) = {1, 2, 3, 4, 5, 6}
    BY <1>3
  <2>2. ToSet(Places(w)) = {Places(w)[i] : i \in {1, 2, 3, 4, 5, 6}}
    BY <2>1, Zenon DEF ToSet
  <2>3. QED
    BY <1>3, <2>2
<1>5. UNION ToSet(Places(w)) = q \cup a \cup r \cup m \cup l \cup g
  BY <1>4
<1>6. UNION ToSet(Places(w)) = {w} \X (1..asked[w])
  BY <1>1, <1>5 DEF Split, All
<1>7. ASSUME NEW i \in 1..6, NEW j \in 1..6, i # j
      PROVE  Places(w)[i] \cap Places(w)[j] = {}
  <2>1. /\ Places(w)[1] = q /\ Places(w)[2] = a /\ Places(w)[3] = r
        /\ Places(w)[4] = m /\ Places(w)[5] = l /\ Places(w)[6] = g
    BY <1>3
  <2>2. i \in {1, 2, 3, 4, 5, 6} /\ j \in {1, 2, 3, 4, 5, 6}
    BY <1>7
  <2>3. QED
    BY <1>1, <1>7, <2>1, <2>2 DEF Split
<1>8. QED
  BY <1>2, <1>6, <1>7

(* Peeks are neither lost nor returned twice, for any number of workers,     *)
(* peeks and pages and whatever sockets report; total, which the worker      *)
(* changes without a lock (io.c:617), tells how many are to come.            *)
THEOREM PeeksArePlaced == Spec => []EveryPeekOnce
BY PeekInv, PlacesSplit, PTL

(* A worker that is woken finds a transfer in its list, although it does not *)
(* look again whether the list is empty.                                     *)
THEOREM WokenFindsOne == Spec => []NeverEmpty
<1>1. IInv => NeverEmpty
  BY DEF IInv, PeekTypes, State, DoneInv, NeverEmpty
<1>2. QED
  BY <1>1, PeekInv, PTL
=============================================================================
