--------------------------- MODULE UrlHandleProofs ---------------------------
(***************************************************************************)
(* Proofs about UrlHandle for every set of hosts and paths, and every      *)
(* limit.  The depth counter of the code is the depth of the URLs in the   *)
(* list on top, and each list below is one link nearer to the root: this   *)
(* invariant is what DepthLimited and NoneDropped follow from.  While a    *)
(* worker peeks there is a list below, from which PeeksEnd follows; and    *)
(* CrawledOnce from where a URL can be.                                    *)
(***************************************************************************)
EXTENDS UrlHandle, SequenceTheorems, TLAPS

(* The lists hold the URLs of consecutive depths, the counter that of the    *)
(* last one.                                                                 *)
Lined(tb, c) ==
    /\ Len(tb) <= c + 1
    /\ \A i \in 1..Len(tb) : \A it \in tb[i] :
          ~it.peek /\ it.depth = c - (Len(tb) - i)
Aligned == Lined(table, counter)

(* URLs kept for later start a crawl of their own.                           *)
ListsFresh == \A h \in Hosts : \A it \in list[h] : ~it.peek /\ it.depth = 0

(* What holds at each place of the loop.                                     *)
PlaceInv ==
    /\ pc = "setup" => table = <<{}>> /\ counter = 0
    /\ pc \in {"out", "wait", "done"} => table = <<>>
    /\ pc = "pop" => limit = 0 \/ counter < limit
    /\ pc = "perform" =>
          /\ ~current.peek /\ current.depth = counter - 1
          /\ limit = 0 \/ current.depth < limit

DepthInv ==
    crawler.peek_limit = 0 =>
        /\ ~peeking /\ limit = crawler.depth_limit
        /\ Aligned /\ ListsFresh /\ PlaceInv

(* Besides the types: there is a list wherever the loop needs one.           *)
Typed ==
    /\ TypeOK
    /\ pc = "perform" => current \in Items /\ Len(table) >= 2 /\ counter >= 1
    /\ pc \in {"sortFirst", "sort", "spare"} => table # <<>>
    /\ pc = "setup" => pending = {}

-----------------------------------------------------------------------------
(* What taking the last list away does.                                      *)
LEMMA DecFacts ==
  ASSUME NEW S, NEW tb \in Seq(S)
  PROVE  /\ Dec(tb) \in Seq(S)
         /\ tb = <<>> => Dec(tb) = <<>>
         /\ tb # <<>> => Len(tb) >= 1 /\ Len(Dec(tb)) = Len(tb) - 1
         /\ \A i \in 1..Len(Dec(tb)) : Dec(tb)[i] = tb[i]
<1>1. CASE tb = <<>>
  BY <1>1, EmptySeq DEF Dec
<1>2. CASE tb # <<>>
  <2>1. Len(tb) \in Nat /\ Len(tb) >= 1 /\ \A i \in 1..(Len(tb) - 1) : tb[i] \in S
    BY <1>2
  <2>2. Dec(tb) = SubSeq(tb, 1, Len(tb) - 1)
    BY <1>2 DEF Dec
  <2>3. /\ SubSeq(tb, 1, Len(tb) - 1) \in Seq(S)
        /\ Len(SubSeq(tb, 1, Len(tb) - 1))
             = IF 1 <= Len(tb) - 1 THEN Len(tb) - 1 - 1 + 1 ELSE 0
        /\ \A i \in 1..(Len(tb) - 1 - 1 + 1) : SubSeq(tb, 1, Len(tb) - 1)[i] = tb[1 + i - 1]
    BY <2>1, SubSeqProperties
  <2>4. Len(Dec(tb)) = Len(tb) - 1
    <3>1. DEFINE l == Len(SubSeq(tb, 1, Len(tb) - 1))
    <3>2. l = IF 1 <= Len(tb) - 1 THEN Len(tb) - 1 - 1 + 1 ELSE 0
      BY <2>3
    <3>3. HIDE DEF l
    <3>4. \A k \in Nat : k >= 1 => (IF 1 <= k - 1 THEN k - 1 - 1 + 1 ELSE 0) = k - 1
      OBVIOUS
    <3>6. l = Len(tb) - 1
      BY <2>1, <3>2, <3>4
    <3>5. QED
      BY <2>2, <3>6 DEF l
  <2>5. \A i \in 1..Len(Dec(tb)) : Dec(tb)[i] = tb[i]
    <3>1. TAKE i \in 1..Len(Dec(tb))
    <3>2. i \in 1..(Len(tb) - 1 - 1 + 1) /\ 1 + i - 1 = i
      BY <2>1, <2>4
    <3>3. QED
      BY <2>2, <2>3, <3>2
  <2>6. QED
    BY <1>2, <2>1, <2>2, <2>3, <2>4, <2>5
<1>3. QED
  BY <1>1, <1>2

(* What changing the list on top does.                                       *)
LEMMA TopFacts ==
  ASSUME NEW S, NEW tb \in Seq(S), tb # <<>>, NEW e \in S
  PROVE  LET w == [tb EXCEPT ![Len(tb)] = e] IN
         /\ w \in Seq(S) /\ Len(w) = Len(tb) /\ w # <<>>
         /\ \A i \in 1..Len(tb) : w[i] = IF i = Len(tb) THEN e ELSE tb[i]
<1>1. Len(tb) \in 1..Len(tb)
  BY EmptySeq
<1>2. QED
  BY <1>1, ExceptSeq

LEMMA ItemIn ==
  \A u \in Urls, e \in BOOLEAN, d \in Nat, p \in BOOLEAN :
     /\ Item(u, e, d, p) \in Items
     /\ Item(u, e, d, p).url = u /\ Item(u, e, d, p).depth = d /\ Item(u, e, d, p).peek = p
BY DEF Item, Items

LEMMA ItemsIn ==
  ASSUME NEW us \in SUBSET Urls, NEW d \in Nat
  PROVE  {Item(u, FALSE, d, FALSE) : u \in us} \in SUBSET Items
<1>1. \A u \in us : Item(u, FALSE, d, FALSE) \in Items
  BY DEF Item, Items
<1>2. QED
  BY <1>1

LEMMA HostIn == \A u \in Urls : Host(u) \in Hosts
BY DEF Urls, Host

(* The caches, entries and pending hosts after ue_add().                     *)
LEMMA AddTyped ==
  ASSUME TypeOK, NEW us \in SUBSET Urls, Add(us)
  PROVE  /\ cache' \in [Hosts -> SUBSET Urls]
         /\ entries' \subseteq Hosts /\ pending' \subseteq entries'
<1>1. {Host(u) : u \in {v \in us : External(v)}} \subseteq Hosts
  BY HostIn
<1>2. cache' \in [Hosts -> SUBSET Urls]
  BY DEF TypeOK, Add
<1>3. QED
  BY <1>1, <1>2 DEF TypeOK, Add

LEMMA InitTyped == Init => Typed /\ DepthInv
<1> SUFFICES ASSUME Init PROVE Typed /\ DepthInv
  OBVIOUS
<1>1. <<{}>> \in Seq(SUBSET Items) /\ Len(<<{}>>) = 1 /\ <<{}>>[1] = {} /\ <<{}>> # <<>>
  OBVIOUS
<1>2. crawler.depth_limit \in Nat
  BY CrawlerAssumption DEF Init
<1>3. Typed
  BY <1>1, <1>2 DEF Init, Typed, TypeOK
<1>4. Aligned /\ ListsFresh /\ PlaceInv
  BY <1>1 DEF Init, Aligned, Lined, ListsFresh, PlaceInv
<1>5. QED
  BY <1>3, <1>4 DEF DepthInv, Init

-----------------------------------------------------------------------------
(* Every step keeps the types.                                               *)
LEMMA StepTyped ==
  ASSUME Typed, Next
  PROVE  Typed'
<1>0. TypeOK
  BY DEF Typed
<1>t. /\ table \in Seq(SUBSET Items) /\ Len(table) \in Nat
      /\ table # <<>> => Len(table) >= 1 /\ Top \in SUBSET Items
  BY <1>0, EmptySeq DEF TypeOK, Top
<1>1. CASE Start
  <2>1. PICK roots \in Few(MaxRoots) \ {{}} :
         /\ table' = <<{Item(u, FALSE, 0, FALSE) : u \in roots}>>
         /\ host' \in {Host(u) : u \in roots}
         /\ entries' = {Host(u) : u \in roots}
         /\ cache' = [h \in Hosts |-> {u \in roots : Host(u) = h}]
    BY <1>1 DEF Start
  <2>2. roots \subseteq Urls
    BY DEF Few
  <2>3. PICK items \in SUBSET Items : items = {Item(u, FALSE, 0, FALSE) : u \in roots}
    BY <2>2, ItemsIn
  <2>4. table' \in Seq(SUBSET Items) /\ table' # <<>>
    <3>1. table' = <<items>>
      BY <2>1, <2>3
    <3>2. QED
      BY <3>1
  <2>5. host' \in Hosts /\ entries' \subseteq Hosts /\ cache' \in [Hosts -> SUBSET Urls]
    BY <2>1, <2>2, HostIn
  <2>6. pending' \subseteq entries'
    BY <1>0, <1>1 DEF Start, Typed
  <2>7. QED
    BY <1>0, <1>1, <2>4, <2>5, <2>6 DEF Start, TypeOK, Typed, depths
<1>2. CASE NextLimit
  <2>1. table' \in Seq(SUBSET Items) /\ counter' \in Nat
    BY <1>0, <1>2, DecFacts DEF NextLimit, TooDeep, TypeOK
  <2>2. QED
    BY <1>0, <1>2, <2>1 DEF NextLimit, TypeOK, Typed, engine
<1>3. CASE NextBack
  <2>1. /\ table' \in Seq(SUBSET Items) /\ counter' \in Nat /\ limit' \in Nat
        /\ peeking' \in BOOLEAN /\ host' \in Hosts \cup {NoHost}
    <3>1. CASE Len(table) = 1
      BY <1>0, <1>3, <3>1, EmptySeq DEF NextBack, TypeOK
    <3>2. CASE Len(table) # 1 /\ PeekOver(Dec(table))
      <4>1. Dec(table) \in Seq(SUBSET Items) /\ Dec(Dec(table)) \in Seq(SUBSET Items)
        BY <1>t, DecFacts
      <4>2. QED
        BY <1>0, <3>2, <4>1 DEF PeekOver, TypeOK
    <3>3. CASE /\ table' = Dec(table)
               /\ counter' = IF counter > 0 THEN counter - 1 ELSE 0
               /\ UNCHANGED <<limit, peeking, host>>
      BY <1>0, <1>t, <3>3, DecFacts DEF TypeOK
    <3>4. QED
      BY <1>3, <3>1, <3>2, <3>3 DEF NextBack, Back
  <2>2. QED
    BY <1>0, <1>3, <2>1 DEF NextBack, TypeOK, Typed, engine
<1>4. CASE NextNone
  BY <1>0, <1>4 DEF NextNone, TypeOK, Typed, depths, engine
<1>5. CASE NextUrl
  <2>1. PICK it \in Top :
         /\ current' = it
         /\ table' = Append(WithTop(Top \ {it}), {})
         /\ crawled' = [urls |-> crawled.urls \cup {it.url},
                        again |-> crawled.again \/ it.url \in crawled.urls]
    BY <1>5 DEF NextUrl
  <2>2. it \in Items /\ it.url \in Urls
    BY <1>5, <1>t DEF NextUrl, Items
  <2>3. /\ WithTop(Top \ {it}) \in Seq(SUBSET Items)
        /\ Len(WithTop(Top \ {it})) = Len(table)
    BY <1>5, <1>t, TopFacts DEF WithTop, NextUrl
  <2>4. table' \in Seq(SUBSET Items) /\ Len(table') = Len(table) + 1
    <3>1. {} \in SUBSET Items
      OBVIOUS
    <3>2. PICK w \in Seq(SUBSET Items) : w = WithTop(Top \ {it}) /\ Len(w) = Len(table)
      BY <2>3
    <3>3. table' = Append(w, {})
      BY <2>1, <3>2
    <3>4. QED
      BY <3>1, <3>2, <3>3, AppendProperties
  <2>5. crawled' \in [urls : SUBSET Urls, again : BOOLEAN]
    BY <1>0, <2>1, <2>2 DEF TypeOK
  <2>6. QED
    BY <1>0, <1>t, <1>5, <2>1, <2>2, <2>4, <2>5 DEF NextUrl, TypeOK, Typed, engine
<1>6. CASE Page
  <2>1. PICK us \in Few(MaxFound) :
         /\ table' = WithTop(Top \cup {Item(u, External(u), current.depth + 1, current.peek)
                                         : u \in NewOf(us)})
         /\ Add(us)
    BY <1>6 DEF Page
  <2>2. us \in SUBSET Urls /\ NewOf(us) \subseteq Urls
    BY DEF Few, NewOf
  <2>3. current \in Items /\ current.depth \in Nat /\ current.peek \in BOOLEAN /\ Len(table) >= 2
    BY <1>6 DEF Page, Typed, Items
  <2>4. {Item(u, External(u), current.depth + 1, current.peek) : u \in NewOf(us)}
          \in SUBSET Items
    <3>1. \A u \in Urls : External(u) \in BOOLEAN
      BY DEF External
    <3>2. QED
      BY <2>2, <2>3, <3>1, ItemIn
  <2>5. table' \in Seq(SUBSET Items) /\ table' # <<>>
    BY <1>t, <2>1, <2>3, <2>4, TopFacts DEF WithTop
  <2>6. QED
    BY <1>0, <1>6, <2>1, <2>2, <2>5, AddTyped DEF Page, TypeOK, Typed, depths
<1>7. CASE Redirect
  <2>1. PICK u \in Urls :
         /\ table' = LET tb == Dec(table) IN
              IF NewOf({u}) = {} THEN tb
              ELSE [tb EXCEPT ![Len(tb)] = @ \cup {Item(u, FALSE, current.depth, current.peek)}]
         /\ Add({u})
    BY <1>7 DEF Redirect
  <2>2. current \in Items /\ current.depth \in Nat /\ current.peek \in BOOLEAN /\ Len(table) >= 2
    BY <1>7 DEF Redirect, Typed, Items
  <2>3. Dec(table) \in Seq(SUBSET Items) /\ Dec(table) # <<>> /\ Len(Dec(table)) >= 1
    BY <1>t, <2>2, DecFacts, EmptySeq
  <2>4. Dec(table)[Len(Dec(table))] \cup {Item(u, FALSE, current.depth, current.peek)}
          \in SUBSET Items
    <3>1. Dec(table)[Len(Dec(table))] \in SUBSET Items
      BY <2>3
    <3>2. Item(u, FALSE, current.depth, current.peek) \in Items
      BY <2>2 DEF Item, Items
    <3>3. QED
      BY <3>1, <3>2
  <2>5. table' \in Seq(SUBSET Items) /\ table' # <<>>
    <3>1. CASE table' = Dec(table)
      BY <2>3, <3>1
    <3>2. CASE table' = [Dec(table) EXCEPT ![Len(Dec(table))] =
                 Dec(table)[Len(Dec(table))]
                   \cup {Item(u, FALSE, current.depth, current.peek)}]
      <4>1. PICK e \in SUBSET Items : e = Dec(table)[Len(Dec(table))]
                   \cup {Item(u, FALSE, current.depth, current.peek)}
        BY <2>4
      <4>2. PICK tb \in Seq(SUBSET Items) : tb = Dec(table) /\ tb # <<>>
        BY <2>3
      <4>3. table' = [tb EXCEPT ![Len(tb)] = e]
        BY <3>2, <4>1, <4>2
      <4>4. QED
        BY <4>2, <4>3, TopFacts
    <3>3. QED
      BY <2>1, <3>1, <3>2
  <2>6. {u} \in SUBSET Urls
    OBVIOUS
  <2>7. counter' \in Nat
    BY <1>0, <1>7 DEF Redirect, TypeOK, Typed
  <2>8. QED
    BY <1>0, <1>7, <2>1, <2>5, <2>6, <2>7, AddTyped DEF Redirect, TypeOK, Typed
<1>8. CASE RedirectOut
  <2>1. PICK u \in Urls :
         /\ list' = [list EXCEPT ![Host(u)] = @ \cup {Item(u, FALSE, 0, FALSE)}]
         /\ entries' = entries \cup {Host(u)}
         /\ pending' = pending \cup ({Host(u)} \ entries)
    BY <1>8 DEF RedirectOut
  <2>2. Host(u) \in Hosts /\ Item(u, FALSE, 0, FALSE) \in Items
    BY HostIn, ItemIn
  <2>3. list' \in [Hosts -> SUBSET Items]
    BY <1>0, <2>1, <2>2 DEF TypeOK
  <2>4. table # <<>>
    BY <1>8, EmptySeq DEF RedirectOut, Typed
  <2>5. QED
    BY <1>0, <1>8, <2>1, <2>2, <2>3, <2>4 DEF RedirectOut, TypeOK, Typed, depths
<1>9. ASSUME SortTop, table # <<>>
      PROVE  /\ table' \in Seq(SUBSET Items) /\ table' # <<>>
             /\ counter' \in Nat /\ limit' \in Nat /\ peeking' \in BOOLEAN
             /\ bk' \in Nat \X Nat \X (Hosts \cup {NoHost})
             /\ list' \in [Hosts -> SUBSET Items]
  <2>1. PICK bound \in SUBSET Top :
      LET far  == {it \in bound : it.ext}
          near == bound \ far
          peek == crawler.peek_limit > 0 /\ ~peeking /\ far # {}
      IN
      /\ IF peek THEN StartPeek(near, far)
                 ELSE table' = WithTop(near) /\ UNCHANGED depths
      /\ IF ~peek /\ crawler.external
         THEN list' = [h \in Hosts |->
                         list[h] \cup {Root(it) : it \in {i \in far : Host(i.url) = h}}]
         ELSE UNCHANGED list
    BY <1>9 DEF SortTop
  <2> DEFINE far  == {it \in bound : it.ext}
             near == bound \ far
  <2>2. far \in SUBSET Items /\ near \in SUBSET Items
    BY <1>9, <1>t
  <2>3. /\ WithTop(near) \in Seq(SUBSET Items) /\ WithTop(near) # <<>>
    BY <1>9, <1>t, <2>2, TopFacts DEF WithTop
  <2>4. {Item(it.url, TRUE, 0, TRUE) : it \in far} \in SUBSET Items
    <3>1. \A it \in far : it.url \in Urls
      BY <2>2 DEF Items
    <3>2. \A it \in far : Item(it.url, TRUE, 0, TRUE) \in Items
      BY <3>1 DEF Item, Items
    <3>3. QED
      BY <3>2
  <2>5. {Root(it) : it \in far} \subseteq Items
    <3>1. \A it \in far : it.url \in Urls /\ it.ext \in BOOLEAN
      BY <2>2 DEF Items
    <3>2. \A it \in far : Root(it) \in Items
      BY <3>1 DEF Root, Item, Items
    <3>3. QED
      BY <3>2
  <2>6. list' \in [Hosts -> SUBSET Items]
    <3>1. CASE UNCHANGED list
      BY <1>0, <3>1 DEF TypeOK
    <3>2. CASE list' = [h \in Hosts |->
                         list[h] \cup {Root(it) : it \in {i \in far : Host(i.url) = h}}]
      <4>1. \A h \in Hosts : {Root(it) : it \in {i \in far : Host(i.url) = h}} \subseteq Items
        BY <2>5
      <4>2. QED
        BY <1>0, <3>2, <4>1 DEF TypeOK
    <3>3. QED
      BY <2>1, <3>1, <3>2
  <2>7. CASE StartPeek(near, far)
    <3>1. table' \in Seq(SUBSET Items) /\ table' # <<>>
      <4>1. PICK e \in SUBSET Items : e = {Item(it.url, TRUE, 0, TRUE) : it \in far}
        BY <2>4
      <4>2. PICK w \in Seq(SUBSET Items) : w = WithTop(near)
        BY <2>3
      <4>3. table' = Append(w, e)
        BY <2>7, <4>1, <4>2 DEF StartPeek
      <4>4. QED
        BY <4>3, AppendProperties
    <3>2. crawler.peek_limit \in Nat
      BY <1>0, CrawlerAssumption DEF TypeOK
    <3>3. QED
      BY <1>0, <2>6, <2>7, <3>1, <3>2 DEF StartPeek, TypeOK
  <2>8. CASE table' = WithTop(near) /\ UNCHANGED depths
    BY <1>0, <2>3, <2>6, <2>8 DEF TypeOK, depths
  <2>9. QED
    BY <2>1, <2>7, <2>8
<1>10. CASE SortPage
  <2>1. SortTop /\ table # <<>>
    BY <1>10 DEF SortPage, Typed
  <2>2. QED
    BY <1>0, <1>9, <1>10, <2>1 DEF SortPage, TypeOK, Typed
<1>11. CASE SortFirst
  <2>1. SortTop /\ table # <<>>
    BY <1>11 DEF SortFirst, Typed
  <2>2. QED
    BY <1>0, <1>9, <1>11, <2>1 DEF SortFirst, TypeOK, Typed
<1>12. CASE SpareUrls
  <2>1. PICK kept \in SUBSET Top : table' = WithTop(kept)
    BY <1>12 DEF SpareUrls
  <2>2. table # <<>> /\ kept \in SUBSET Items
    BY <1>12, <1>t DEF SpareUrls, Typed
  <2>3. table' \in Seq(SUBSET Items)
    BY <1>t, <2>1, <2>2, TopFacts DEF WithTop
  <2>4. QED
    BY <1>0, <1>12, <2>3 DEF SpareUrls, TypeOK, Typed, depths, engine
<1>13. CASE SpareHosts
  <2>1. list' \in [Hosts -> SUBSET Items] /\ pending' \subseteq pending
    BY <1>0, <1>13 DEF SpareHosts, TypeOK
  <2>2. QED
    BY <1>0, <1>13, <2>1 DEF SpareHosts, TypeOK, Typed, depths
<1>14. ASSUME NEW h \in pending, SetHostent(h)
       PROVE  /\ table' \in Seq(SUBSET Items) /\ table' # <<>> /\ counter' \in Nat
              /\ host' \in Hosts /\ list' \in [Hosts -> SUBSET Items] /\ pending' \subseteq pending
  <2>1. h \in Hosts /\ list[h] \in SUBSET Items
    BY <1>0, <1>14 DEF TypeOK
  <2>2. table' \in Seq(SUBSET Items) /\ table' # <<>>
    BY <1>t, <1>14, <2>1, AppendProperties DEF SetHostent
  <2>3. list' \in [Hosts -> SUBSET Items]
    BY <1>0, <1>14 DEF SetHostent, TypeOK
  <2>4. QED
    BY <1>0, <1>14, <2>1, <2>2, <2>3 DEF SetHostent, TypeOK
<1>15. CASE TakeHost
  <2>1. PICK h \in pending : SetHostent(h)
    BY <1>15 DEF TakeHost
  <2>2. QED
    BY <1>0, <1>14, <1>15, <2>1 DEF TakeHost, TypeOK, Typed
<1>16. CASE ContinueHost
  <2>1. PICK h \in pending : SetHostent(h)
    BY <1>16 DEF ContinueHost
  <2>2. QED
    BY <1>0, <1>14, <1>16, <2>1 DEF ContinueHost, TypeOK, Typed
<1>17. CASE Continue
  <2>1. PICK h \in entries, us \in Few(MaxFound), d \in 1..Cardinality(Urls) :
            ReceiveUrls(h, d, us)
    BY <1>17 DEF Continue
  <2>2. h \in Hosts /\ us \in SUBSET Urls /\ d \in Nat
    BY <1>0 DEF TypeOK, Few
  <2>3. PICK e \in SUBSET Items : e = {Item(u, FALSE, d, FALSE) : u \in us}
    BY <2>2, ItemsIn
  <2>4. table' \in Seq(SUBSET Items) /\ table' # <<>>
    <3>1. table' = Append(table, e)
      BY <2>1, <2>3 DEF ReceiveUrls
    <3>2. QED
      BY <1>t, <3>1, AppendProperties
  <2>5. cache' \in [Hosts -> SUBSET Urls] /\ counter' \in Nat /\ host' \in Hosts
    BY <1>0, <2>1, <2>2 DEF ReceiveUrls, TypeOK
  <2>6. QED
    BY <1>0, <1>17, <2>4, <2>5 DEF Continue, TypeOK, Typed
<1>18. CASE Wait \/ Stop \/ Done
  BY <1>0, <1>18 DEF Wait, Stop, Done, TypeOK, Typed, depths, engine, vars
<1>20. QED
  BY <1>1, <1>2, <1>3, <1>4, <1>5, <1>6, <1>7, <1>8, <1>10, <1>11, <1>12, <1>13,
     <1>15, <1>16, <1>17, <1>18 DEF Next

-----------------------------------------------------------------------------
(* What the four changes of the table do to lists of consecutive depths.     *)
LEMMA LinedTop ==
  ASSUME NEW tb \in Seq(SUBSET Items), tb # <<>>, NEW c \in Nat, Lined(tb, c),
         NEW e \in SUBSET Items, \A it \in e : ~it.peek /\ it.depth = c
  PROVE  Lined([tb EXCEPT ![Len(tb)] = e], c)
<1> DEFINE w == [tb EXCEPT ![Len(tb)] = e]
<1>1. /\ Len(w) = Len(tb) /\ Len(tb) \in Nat
      /\ \A i \in 1..Len(tb) : w[i] = IF i = Len(tb) THEN e ELSE tb[i]
  BY TopFacts
<1>2. HIDE DEF w
<1>3. Len(w) <= c + 1
  BY <1>1 DEF Lined
<1>4. ASSUME NEW i \in 1..Len(w), NEW it \in w[i]
      PROVE  ~it.peek /\ it.depth = c - (Len(w) - i)
  <2>1. CASE i = Len(tb)
    BY <1>1, <1>4, <2>1
  <2>2. CASE i # Len(tb)
    BY <1>1, <1>4, <2>2 DEF Lined
  <2>3. QED
    BY <2>1, <2>2
<1>5. Lined(w, c)
  BY <1>3, <1>4 DEF Lined
<1>6. QED
  BY <1>5 DEF w

LEMMA LinedDec ==
  ASSUME NEW tb \in Seq(SUBSET Items), NEW c \in Nat, c >= 1, Lined(tb, c)
  PROVE  Lined(Dec(tb), c - 1)
<1> DEFINE w == Dec(tb)
<1>1. /\ Len(tb) \in Nat
      /\ tb = <<>> => Len(w) = 0
      /\ tb # <<>> => Len(tb) >= 1 /\ Len(w) = Len(tb) - 1
      /\ \A i \in 1..Len(w) : w[i] = tb[i]
  BY DecFacts, EmptySeq
<1>2. HIDE DEF w
<1>3. CASE tb = <<>>
  BY <1>1, <1>3 DEF Lined, w
<1>4. CASE tb # <<>>
  <2>1. Len(w) <= (c - 1) + 1
    BY <1>1, <1>4 DEF Lined
  <2>2. ASSUME NEW i \in 1..Len(w), NEW it \in w[i]
        PROVE  ~it.peek /\ it.depth = (c - 1) - (Len(w) - i)
    BY <1>1, <1>4, <2>2 DEF Lined
  <2>3. Lined(w, c - 1)
    BY <2>1, <2>2 DEF Lined
  <2>4. QED
    BY <2>3 DEF w
<1>5. QED
  BY <1>3, <1>4

LEMMA LinedAppend ==
  ASSUME NEW tb \in Seq(SUBSET Items), NEW c \in Nat, NEW d \in Nat, NEW e \in SUBSET Items,
         \A it \in e : ~it.peek /\ it.depth = d,
         tb = <<>> \/ (Lined(tb, c) /\ d = c + 1)
  PROVE  Lined(Append(tb, e), d)
<1> DEFINE w == Append(tb, e)
<1>1. /\ Len(w) = Len(tb) + 1 /\ Len(tb) \in Nat
      /\ tb = <<>> => Len(tb) = 0
      /\ \A i \in 1..Len(tb) : w[i] = tb[i]
      /\ w[Len(tb) + 1] = e
  BY AppendProperties, EmptySeq
<1>2. HIDE DEF w
<1>3. Len(w) <= d + 1
  BY <1>1 DEF Lined
<1>4. ASSUME NEW i \in 1..Len(w), NEW it \in w[i]
      PROVE  ~it.peek /\ it.depth = d - (Len(w) - i)
  <2>1. CASE i = Len(tb) + 1
    BY <1>1, <1>4, <2>1
  <2>2. CASE i # Len(tb) + 1
    <3>1. i \in 1..Len(tb)
      BY <1>1, <1>4, <2>2
    <3>2. it \in tb[i] /\ tb # <<>>
      BY <1>1, <1>4, <3>1
    <3>3. ~it.peek /\ it.depth = c - (Len(tb) - i) /\ d = c + 1
      BY <3>1, <3>2 DEF Lined
    <3>4. c - (Len(tb) - i) = d - (Len(w) - i)
      BY <1>1, <3>1, <3>3
    <3>5. QED
      BY <3>3, <3>4
  <2>3. QED
    BY <2>1, <2>2
<1>5. Lined(w, d)
  BY <1>3, <1>4 DEF Lined
<1>6. QED
  BY <1>5 DEF w

-----------------------------------------------------------------------------
(* Without peeks every step keeps counter and lists together.                *)
LEMMA StepDepth ==
  ASSUME Typed, DepthInv, Next
  PROVE  DepthInv'
<1>c. crawler' = crawler
  BY DEF Next, Start, NextLimit, NextBack, NextNone, NextUrl, Page, Redirect, RedirectOut,
     SortPage, SortFirst, SpareUrls, SpareHosts, TakeHost, Wait, Stop, Continue,
     ContinueHost, Done, vars
<1> SUFFICES ASSUME crawler.peek_limit = 0
             PROVE  (~peeking /\ limit = crawler.depth_limit /\ Aligned /\ ListsFresh /\ PlaceInv)'
  BY <1>c DEF DepthInv
<1>0. TypeOK /\ ~peeking /\ limit = crawler.depth_limit
      /\ Aligned /\ ListsFresh /\ PlaceInv
  BY DEF DepthInv, Typed
<1>t. /\ table \in Seq(SUBSET Items) /\ Len(table) \in Nat /\ counter \in Nat /\ limit \in Nat
      /\ table # <<>> => Len(table) >= 1 /\ Top \in SUBSET Items
  BY <1>0, EmptySeq DEF TypeOK, Top
<1>a. table # <<>> => \A it \in Top : ~it.peek /\ it.depth = counter
  BY <1>0, <1>t DEF Aligned, Lined, Top
<1>1. CASE Start
  <2>1. PICK roots \in Few(MaxRoots) \ {{}} :
         table' = <<{Item(u, FALSE, 0, FALSE) : u \in roots}>>
    BY <1>1 DEF Start
  <2>2. PICK e : e = {Item(u, FALSE, 0, FALSE) : u \in roots}
    OBVIOUS
  <2>a. \A it \in e : ~it.peek /\ it.depth = 0
    BY <2>2 DEF Item
  <2>3. table' = <<e>> /\ counter' = 0
    BY <1>0, <1>1, <2>1, <2>2 DEF Start, depths, PlaceInv
  <2>4. Aligned'
    <3>1. Len(<<e>>) = 1 /\ <<e>>[1] = e
      OBVIOUS
    <3>2. Lined(<<e>>, 0)
      BY <2>a, <3>1 DEF Lined
    <3>3. QED
      BY <2>3, <3>2 DEF Aligned
  <2>5. QED
    BY <1>0, <1>1, <2>3, <2>4 DEF Start, depths, ListsFresh, PlaceInv
<1>2. CASE NextLimit
  <2>1. CASE TooDeep
    <3>1. table' = Dec(table) /\ counter' = counter - 1 /\ pc' = pc /\ pc = "limit"
      BY <1>2, <2>1 DEF NextLimit
    <3>2. Lined(Dec(table), counter - 1)
      BY <1>0, <1>t, <2>1, LinedDec DEF Aligned, TooDeep
    <3>3. Aligned'
      BY <3>1, <3>2 DEF Aligned
    <3>4. QED
      BY <1>0, <1>2, <3>1, <3>3 DEF NextLimit, ListsFresh, PlaceInv, engine
  <2>2. CASE ~TooDeep
    BY <1>0, <1>t, <1>2, <2>2 DEF NextLimit, TooDeep, Aligned, ListsFresh, PlaceInv, engine
  <2>3. QED
    BY <2>1, <2>2
<1>3. CASE NextBack
  <2>1. CASE Len(table) = 1
    <3>1. table' = <<>> /\ pc' = "out" /\ counter' = counter /\ limit' = limit /\ peeking' = peeking
      BY <1>3, <2>1 DEF NextBack
    <3>2. Aligned'
      BY <1>t, <3>1 DEF Aligned, Lined
    <3>3. QED
      BY <1>0, <1>3, <3>1, <3>2 DEF NextBack, ListsFresh, PlaceInv, engine
  <2>2. CASE Len(table) # 1
    <3>1. Len(table) >= 2 /\ counter >= 1
      <4>1. table # <<>> /\ Len(table) <= counter + 1
        BY <1>0, <1>3 DEF NextBack, Aligned, Lined
      <4>2. Len(table) \in Nat /\ counter \in Nat /\ Len(table) # 0
        BY <1>t, <4>1, EmptySeq
      <4>3. Len(table) >= 2
        BY <2>2, <4>2
      <4>4. QED
        BY <4>1, <4>2, <4>3
    <3>2. /\ table' = Dec(table) /\ counter' = counter - 1
          /\ UNCHANGED <<limit, peeking, host>>
      BY <1>0, <1>t, <1>3, <2>2, <3>1 DEF NextBack, Back
    <3>3. Lined(Dec(table), counter - 1)
      BY <1>0, <1>t, <3>1, LinedDec DEF Aligned
    <3>4. Aligned'
      BY <3>2, <3>3 DEF Aligned
    <3>5. Dec(table) # <<>>
      BY <1>t, <3>1, DecFacts, EmptySeq
    <3>6. pc' = "pop" /\ pc = "pop"
      BY <1>3, <2>2, <3>2, <3>5 DEF NextBack
    <3>7. QED
      BY <1>0, <1>t, <1>3, <3>1, <3>2, <3>4, <3>6 DEF NextBack, ListsFresh, PlaceInv, engine
  <2>3. QED
    BY <2>1, <2>2
<1>4. CASE NextNone
  BY <1>0, <1>4 DEF NextNone, Aligned, ListsFresh, PlaceInv, depths, engine
<1>5. CASE NextUrl
  <2>1. PICK it \in Top : /\ current' = it
                          /\ table' = Append(WithTop(Top \ {it}), {})
    BY <1>5 DEF NextUrl
  <2>2. table # <<>> /\ counter' = counter + 1 /\ pc' = "perform" /\ pc = "pop"
    BY <1>5 DEF NextUrl
  <2>3. Top \ {it} \in SUBSET Items /\ \A i \in Top \ {it} : ~i.peek /\ i.depth = counter
    BY <1>t, <1>a, <2>2
  <2>4. PICK w \in Seq(SUBSET Items) : w = WithTop(Top \ {it}) /\ Lined(w, counter)
    BY <1>0, <1>t, <2>2, <2>3, TopFacts, LinedTop DEF Aligned, WithTop
  <2>5. PICK e \in SUBSET Items : e = {}
    OBVIOUS
  <2>6. Lined(Append(w, e), counter + 1)
    <3>1. counter + 1 \in Nat /\ \A i \in e : ~i.peek /\ i.depth = counter + 1
      BY <1>t, <2>5
    <3>2. QED
      BY <1>t, <2>4, <3>1, LinedAppend
  <2>7. Aligned'
    BY <2>1, <2>2, <2>4, <2>5, <2>6 DEF Aligned
  <2>8. ~it.peek /\ it.depth = counter
    BY <1>a, <2>2
  <2>9. QED
    BY <1>0, <1>t, <1>5, <2>1, <2>2, <2>7, <2>8 DEF NextUrl, ListsFresh, PlaceInv, engine
<1>6. CASE Page
  <2>1. PICK us \in Few(MaxFound) :
         table' = WithTop(Top \cup {Item(u, External(u), current.depth + 1, current.peek)
                                      : u \in NewOf(us)})
    BY <1>6 DEF Page
  <2>2. pc = "perform" /\ pc' = "sort" /\ current \in Items /\ table # <<>>
        /\ ~current.peek /\ current.depth + 1 = counter
    BY <1>0, <1>t, <1>6, EmptySeq DEF Page, Typed, PlaceInv
  <2>3. PICK new : new = {Item(u, External(u), current.depth + 1, current.peek) : u \in NewOf(us)}
    OBVIOUS
  <2>4. \A it \in new : it \in Items /\ ~it.peek /\ it.depth = counter
    <3>1. us \in SUBSET Urls /\ NewOf(us) \subseteq Urls
      BY DEF Few, NewOf
    <3>2. \A u \in Urls : External(u) \in BOOLEAN
      BY DEF External
    <3>3. current.depth + 1 \in Nat /\ current.peek \in BOOLEAN
      BY <2>2 DEF Items
    <3>4. QED
      BY <2>2, <2>3, <3>1, <3>2, <3>3, ItemIn
  <2>5. Lined(WithTop(Top \cup new), counter)
    <3>1. Top \cup new \in SUBSET Items
      BY <1>t, <2>2, <2>4
    <3>2. QED
      BY <1>0, <1>t, <1>a, <2>2, <2>4, <3>1, LinedTop DEF Aligned, WithTop
  <2>6. Aligned'
    BY <1>6, <2>1, <2>3, <2>5 DEF Aligned, Page, depths
  <2>7. QED
    BY <1>0, <1>6, <2>2, <2>6 DEF Page, ListsFresh, PlaceInv, depths
<1>7. CASE Redirect
  <2>1. PICK u \in Urls :
         table' = LET tb == Dec(table) IN
              IF NewOf({u}) = {} THEN tb
              ELSE [tb EXCEPT ![Len(tb)] = @ \cup {Item(u, FALSE, current.depth, current.peek)}]
    BY <1>7 DEF Redirect
  <2>2. pc = "perform" /\ pc' = "sort" /\ current \in Items /\ Len(table) >= 2
        /\ ~current.peek /\ current.depth = counter - 1 /\ counter >= 1 /\ counter' = counter - 1
    BY <1>0, <1>t, <1>7 DEF Redirect, Typed, PlaceInv
  <2>3. PICK tb \in Seq(SUBSET Items) : tb = Dec(table) /\ tb # <<>> /\ Lined(tb, counter - 1)
    BY <1>0, <1>t, <2>2, DecFacts, EmptySeq, LinedDec DEF Aligned
  <2>4. /\ Item(u, FALSE, current.depth, current.peek) \in Items
        /\ ~Item(u, FALSE, current.depth, current.peek).peek
        /\ Item(u, FALSE, current.depth, current.peek).depth = counter - 1
    BY <2>2 DEF Item, Items
  <2>5. PICK e : e = tb[Len(tb)] \cup {Item(u, FALSE, current.depth, current.peek)}
    OBVIOUS
  <2>6. tb[Len(tb)] \in SUBSET Items /\ \A it \in tb[Len(tb)] : ~it.peek /\ it.depth = counter - 1
    BY <1>t, <2>2, <2>3, EmptySeq DEF Lined
  <2>7. e \in SUBSET Items /\ \A it \in e : ~it.peek /\ it.depth = counter - 1
    BY <2>4, <2>5, <2>6
  <2>8. Lined([tb EXCEPT ![Len(tb)] = e], counter - 1)
    <3>1. counter - 1 \in Nat
      BY <1>t, <2>2
    <3>2. QED
      BY <2>3, <2>7, <3>1, LinedTop
  <2>9. table' = tb \/ table' = [tb EXCEPT ![Len(tb)] = e]
    BY <2>1, <2>3, <2>5
  <2>10. Aligned'
    BY <2>2, <2>3, <2>8, <2>9 DEF Aligned
  <2>11. QED
    BY <1>0, <1>7, <2>2, <2>10 DEF Redirect, ListsFresh, PlaceInv
<1>8. CASE RedirectOut
  <2>1. PICK u \in Urls : list' = [list EXCEPT ![Host(u)] = @ \cup {Item(u, FALSE, 0, FALSE)}]
    BY <1>8 DEF RedirectOut
  <2>2. ~Item(u, FALSE, 0, FALSE).peek /\ Item(u, FALSE, 0, FALSE).depth = 0
    BY DEF Item
  <2>3. ListsFresh'
    BY <1>0, <2>1, <2>2, HostIn DEF ListsFresh, TypeOK
  <2>4. QED
    BY <1>0, <1>8, <2>3 DEF RedirectOut, Aligned, PlaceInv, depths
<1>9. ASSUME SortTop, table # <<>>
      PROVE  UNCHANGED depths /\ Aligned' /\ ListsFresh'
  <2>1. PICK bound \in SUBSET Top :
      LET far  == {it \in bound : it.ext}
          near == bound \ far
      IN
      /\ table' = WithTop(near) /\ UNCHANGED depths
      /\ \/ list' = [h \in Hosts |->
                         list[h] \cup {Root(it) : it \in {i \in far : Host(i.url) = h}}]
         \/ UNCHANGED list
    <3>1. ~(crawler.peek_limit > 0)
      OBVIOUS
    <3>2. QED
      BY <1>9, <3>1, Zenon DEF SortTop
  <2> DEFINE far  == {it \in bound : it.ext}
             near == bound \ far
  <2>2. near \in SUBSET Items /\ \A it \in near : ~it.peek /\ it.depth = counter
    BY <1>9, <1>t, <1>a
  <2>3. Lined(WithTop(near), counter)
    BY <1>0, <1>t, <1>9, <2>2, LinedTop DEF Aligned, WithTop
  <2>4. Aligned'
    BY <2>1, <2>3 DEF Aligned, depths
  <2>5. \A it : ~Root(it).peek /\ Root(it).depth = 0
    BY DEF Root, Item
  <2>6. ListsFresh'
    BY <1>0, <2>1, <2>5 DEF ListsFresh
  <2>7. QED
    BY <2>1, <2>4, <2>6
<1>10. CASE SortPage
  <2>1. SortTop /\ table # <<>>
    BY <1>10 DEF SortPage, Typed
  <2>2. QED
    BY <1>0, <1>9, <1>10, <2>1 DEF SortPage, PlaceInv, depths
<1>11. CASE SortFirst
  <2>1. SortTop /\ table # <<>>
    BY <1>11 DEF SortFirst, Typed
  <2>2. QED
    BY <1>0, <1>9, <1>11, <2>1 DEF SortFirst, PlaceInv, depths
<1>12. CASE SpareUrls
  <2>1. PICK kept \in SUBSET Top : table' = WithTop(kept)
    BY <1>12 DEF SpareUrls
  <2>2. table # <<>> /\ kept \in SUBSET Items /\ \A it \in kept : ~it.peek /\ it.depth = counter
    BY <1>12, <1>t, <1>a DEF SpareUrls, Typed
  <2>3. Lined(WithTop(kept), counter)
    BY <1>0, <1>t, <2>2, LinedTop DEF Aligned, WithTop
  <2>4. Aligned'
    BY <1>12, <2>1, <2>3 DEF Aligned, SpareUrls, depths
  <2>5. QED
    BY <1>0, <1>12, <2>4 DEF SpareUrls, ListsFresh, PlaceInv, depths, engine
<1>13. CASE SpareHosts
  <2>1. ListsFresh'
    BY <1>0, <1>13 DEF SpareHosts, ListsFresh
  <2>2. QED
    BY <1>0, <1>13, <2>1 DEF SpareHosts, Aligned, PlaceInv, depths
<1>14. ASSUME NEW h \in pending, SetHostent(h), table = <<>>
       PROVE  Aligned' /\ ListsFresh'
  <2>1. h \in Hosts
    BY <1>0, <1>14 DEF TypeOK
  <2>2. PICK e \in SUBSET Items : e = list[h] /\ \A it \in e : ~it.peek /\ it.depth = 0
    BY <1>0, <2>1 DEF TypeOK, ListsFresh
  <2>3. Lined(Append(table, e), 0)
    BY <1>t, <1>14, <2>2, LinedAppend
  <2>4. Aligned'
    BY <1>14, <2>2, <2>3 DEF SetHostent, Aligned
  <2>5. ListsFresh'
    BY <1>0, <1>14 DEF SetHostent, ListsFresh, TypeOK
  <2>6. QED
    BY <2>4, <2>5
<1>15. CASE TakeHost
  <2>1. PICK h \in pending : SetHostent(h)
    BY <1>15 DEF TakeHost
  <2>2. table = <<>>
    BY <1>0, <1>15 DEF TakeHost, PlaceInv
  <2>3. QED
    BY <1>0, <1>14, <1>15, <2>1, <2>2 DEF TakeHost, PlaceInv
<1>16. CASE ContinueHost
  <2>1. PICK h \in pending : SetHostent(h)
    BY <1>16 DEF ContinueHost
  <2>2. table = <<>>
    BY <1>0, <1>16 DEF ContinueHost, PlaceInv
  <2>3. QED
    BY <1>0, <1>14, <1>16, <2>1, <2>2 DEF ContinueHost, PlaceInv
<1>17. CASE Continue
  <2>1. PICK h \in entries, us \in Few(MaxFound), d \in 1..Cardinality(Urls) :
            ReceiveUrls(h, d, us)
    BY <1>17 DEF Continue
  <2>2. us \in SUBSET Urls /\ d \in Nat
    BY DEF Few
  <2>3. PICK e \in SUBSET Items : e = {Item(u, FALSE, d, FALSE) : u \in us}
    BY <2>2, ItemsIn
  <2>4. \A it \in e : ~it.peek /\ it.depth = d
    BY <2>3 DEF Item
  <2>5. table = <<>> /\ table' = Append(table, e) /\ counter' = d
    BY <1>0, <1>17, <2>1, <2>3 DEF Continue, PlaceInv, ReceiveUrls
  <2>6. Lined(Append(table, e), d)
    BY <1>t, <2>2, <2>4, <2>5, LinedAppend
  <2>7. Aligned'
    BY <2>5, <2>6 DEF Aligned
  <2>8. QED
    BY <1>0, <1>17, <2>7 DEF Continue, ListsFresh, PlaceInv
<1>18. CASE Wait \/ Stop \/ Done
  BY <1>0, <1>18 DEF Wait, Stop, Done, Aligned, ListsFresh, PlaceInv, depths, engine, vars
<1>20. QED
  BY <1>1, <1>2, <1>3, <1>4, <1>5, <1>6, <1>7, <1>8, <1>10, <1>11, <1>12, <1>13,
     <1>15, <1>16, <1>17, <1>18 DEF Next

-----------------------------------------------------------------------------
LEMMA InvAlways == Spec => [](Typed /\ DepthInv)
<1>1. Typed /\ DepthInv /\ [Next]_vars => (Typed /\ DepthInv)'
  <2>1. ASSUME Typed, DepthInv, Next PROVE (Typed /\ DepthInv)'
    BY <2>1, StepTyped, StepDepth
  <2>2. ASSUME Typed, DepthInv, UNCHANGED vars PROVE (Typed /\ DepthInv)'
    BY <2>2 DEF vars, depths, engine, Typed, TypeOK, DepthInv, Aligned, ListsFresh, PlaceInv
  <2>3. QED
    BY <2>1, <2>2
<1>2. QED
  BY <1>1, InitTyped, PTL DEF Spec

(* The depth counter never falls below zero, and the table, the caches and   *)
(* the saved counters keep their types, peeks and redirects included.        *)
THEOREM HandleTypes == Spec => []TypeOK
<1>1. Typed => TypeOK
  BY DEF Typed
<1>2. QED
  BY <1>1, InvAlways, PTL

(* No page below the depth limit is crawled, for any limit.                  *)
THEOREM DepthIsLimited == Spec => []DepthLimited
<1>1. Typed /\ DepthInv => DepthLimited
  <2> SUFFICES ASSUME Typed, DepthInv, crawler.peek_limit = 0, pc = "perform"
               PROVE  Bounded(current)
    BY DEF DepthLimited
  <2>1. ~current.peek /\ limit = crawler.depth_limit /\ (limit = 0 \/ current.depth < limit)
    BY DEF DepthInv, PlaceInv
  <2>2. QED
    BY <2>1 DEF Bounded
<1>2. QED
  BY <1>1, InvAlways, PTL

(* No page above the depth limit is dropped by ue_next(), for any limit.     *)
THEOREM NoneIsDropped == Spec => NoneDropped
<1> DEFINE A == crawler.peek_limit = 0 /\ pc \in {"limit", "pop"} =>
                  \A it \in InTable \ InTable' : it = current' \/ ~Bounded(it)
<1>1. Typed /\ DepthInv /\ [Next]_vars => [A]_vars
  <2> SUFFICES ASSUME Typed, DepthInv, Next, crawler.peek_limit = 0, pc \in {"limit", "pop"},
                      NEW it \in InTable \ InTable'
               PROVE  it = current' \/ ~Bounded(it)
    OBVIOUS
  <2>0. TypeOK /\ ~peeking /\ limit = crawler.depth_limit /\ Aligned /\ counter \in Nat
        /\ table \in Seq(SUBSET Items) /\ Len(table) \in Nat /\ limit \in Nat
    BY DEF DepthInv, Typed, TypeOK
  <2>1. PICK i \in 1..Len(table) : it \in table[i]
    BY DEF InTable
  <2>2. ~it.peek /\ it.depth = counter - (Len(table) - i)
    BY <2>0, <2>1 DEF Aligned, Lined
  <2>3. \A j \in 1..Len(table') : it \notin table'[j]
    BY DEF InTable
  <2>4. CASE NextLimit
    <3>1. CASE TooDeep
      <4>1. table' = Dec(table)
        BY <2>4, <3>1 DEF NextLimit
      <4>2. table # <<>>
        BY <2>1
      <4>3. i = Len(table)
        BY <2>0, <2>1, <2>3, <4>1, <4>2, DecFacts
      <4>4. it.depth = counter /\ limit > 0 /\ counter >= limit
        BY <2>0, <2>2, <3>1, <4>3 DEF TooDeep
      <4>5. QED
        BY <2>0, <2>2, <4>4 DEF Bounded
    <3>2. CASE ~TooDeep
      BY <2>1, <2>3, <2>4, <3>2 DEF NextLimit
    <3>3. QED
      BY <3>1, <3>2
  <2>5. CASE NextBack
    <3>1. i # Len(table) /\ table # <<>>
      BY <2>1, <2>5 DEF NextBack, Top
    <3>a. Len(table) # 1
      <4>1. Len(table) \in Nat
        BY <2>0
      <4>2. \A n \in Nat : \A k \in 1..n : k # n => n # 1
        OBVIOUS
      <4>3. i \in 1..Len(table)
        OBVIOUS
      <4>4. i # Len(table)
        BY <3>1
      <4>5. QED
        BY ONLY <4>1, <4>2, <4>3, <4>4
    <3>2. table' = Dec(table)
      BY <2>0, <2>5, <3>a DEF NextBack, Back
    <3>3. QED
      BY <2>0, <2>1, <2>3, <3>1, <3>2, DecFacts
  <2>6. CASE NextUrl
    <3>1. PICK jt \in Top : /\ current' = jt
                            /\ table' = Append(WithTop(Top \ {jt}), {})
      BY <2>6 DEF NextUrl
    <3>2. table # <<>> /\ Top \in SUBSET Items
      BY <2>0, <2>6, EmptySeq DEF NextUrl, Top
    <3>3. PICK e \in SUBSET Items : e = Top \ {jt}
      BY <3>2
    <3>4. PICK w \in Seq(SUBSET Items) :
             /\ w = WithTop(e) /\ Len(w) = Len(table)
             /\ \A k \in 1..Len(table) : w[k] = IF k = Len(table) THEN e ELSE table[k]
      <4>1. PICK w : w = WithTop(e)
        OBVIOUS
      <4>2. w = [table EXCEPT ![Len(table)] = e]
        BY <4>1 DEF WithTop
      <4>3. w \in Seq(SUBSET Items) /\ Len(w) = Len(table)
            /\ \A k \in 1..Len(table) : w[k] = IF k = Len(table) THEN e ELSE table[k]
        BY <2>0, <3>2, <4>2, TopFacts
      <4>4. QED
        BY <4>1, <4>3
    <3>5. {} \in SUBSET Items
      OBVIOUS
    <3>6. /\ Len(table') = Len(w) + 1
          /\ \A k \in 1..Len(w) : table'[k] = w[k]
      BY <3>1, <3>3, <3>4, <3>5, AppendProperties
    <3>7. it \notin w[i]
      BY <2>0, <2>1, <2>3, <3>4, <3>6
    <3>8. i = Len(table) /\ it \notin e
      BY <2>1, <3>4, <3>7
    <3>9. QED
      BY <2>1, <3>1, <3>3, <3>8 DEF Top
  <2>7. CASE NextNone
    BY <2>1, <2>3, <2>7 DEF NextNone
  <2>8. QED
    BY <2>4, <2>5, <2>6, <2>7 DEF Next, Start, Page, Redirect, RedirectOut, SortPage,
       SortFirst, SpareUrls, SpareHosts, TakeHost, Wait, Stop, Continue, ContinueHost, Done
<1>2. QED
  BY <1>1, InvAlways, PTL DEF Spec, NoneDropped
-----------------------------------------------------------------------------
(* Peeks.  There is always a list below those of a peek, so the peek is over *)
(* before the table is empty; what it restores is the limit of the crawler.  *)
PeekInv ==
    /\ limit = IF peeking THEN crawler.peek_limit ELSE crawler.depth_limit
    /\ pc \in {"setup", "out", "wait", "done"} => ~peeking
    /\ peeking => /\ crawler.peek_limit > 0 /\ bk[2] = crawler.depth_limit
                  /\ Len(table) >= counter + 2

LEMMA TopLen ==
  ASSUME NEW S, NEW tb \in Seq(S), tb # <<>>, NEW e
  PROVE  LET w == [tb EXCEPT ![Len(tb)] = e] IN
         /\ w \in Seq(S \cup {e}) /\ Len(w) = Len(tb) /\ Len(tb) \in Nat /\ Len(tb) >= 1
         /\ \A i \in 1..Len(tb) : w[i] = IF i = Len(tb) THEN e ELSE tb[i]
<1> DEFINE R == S \cup {e}
<1>1. tb \in Seq(R) /\ e \in R
  OBVIOUS
<1> HIDE DEF R
<1>2. Len(tb) \in Nat /\ Len(tb) >= 1
  BY EmptySeq
<1>3. LET w == [tb EXCEPT ![Len(tb)] = e] IN
        /\ w \in Seq(R) /\ Len(w) = Len(tb)
        /\ \A i \in 1..Len(tb) : w[i] = IF i = Len(tb) THEN e ELSE tb[i]
  BY <1>1, TopFacts
<1>4. QED
  BY <1>2, <1>3 DEF R

LEMMA AppendLen ==
  ASSUME NEW S, NEW tb \in Seq(S), NEW e
  PROVE  LET w == Append(tb, e) IN
         /\ Len(w) = Len(tb) + 1 /\ Len(tb) \in Nat
         /\ w[Len(tb) + 1] = e /\ \A i \in 1..Len(tb) : w[i] = tb[i]
<1> DEFINE R == S \cup {e}
<1>1. tb \in Seq(R) /\ e \in R
  OBVIOUS
<1> HIDE DEF R
<1>2. QED
  BY <1>1, AppendProperties

(* Sorting keeps the length of the table, or starts a peek.                  *)
LEMMA SortPeek ==
  ASSUME Typed, SortTop, table # <<>>
  PROVE  \/ UNCHANGED depths /\ Len(table') = Len(table)
         \/ /\ crawler.peek_limit > 0 /\ ~peeking /\ peeking' /\ limit' = crawler.peek_limit
            /\ bk' = <<counter, limit, host>> /\ counter' = 0 /\ Len(table') = Len(table) + 1
<1>0. table \in Seq(SUBSET Items)
  BY DEF Typed, TypeOK
<1>1. PICK bound \in SUBSET Top :
        LET far  == {it \in bound : it.ext}
            near == bound \ far
            peek == crawler.peek_limit > 0 /\ ~peeking /\ far # {}
        IN IF peek THEN StartPeek(near, far) ELSE table' = WithTop(near) /\ UNCHANGED depths
  BY DEF SortTop
<1> DEFINE far  == {it \in bound : it.ext}
           near == bound \ far
<1>2. PICK w : w = WithTop(near)
  OBVIOUS
<1>3. w \in Seq((SUBSET Items) \cup {near}) /\ Len(w) = Len(table)
  BY <1>0, <1>2, TopLen DEF WithTop
<1>4. CASE table' = w /\ UNCHANGED depths
  BY <1>3, <1>4
<1>5. CASE crawler.peek_limit > 0 /\ ~peeking /\ StartPeek(near, far)
  <2>1. PICK e : e = {Item(it.url, TRUE, 0, TRUE) : it \in far}
    OBVIOUS
  <2>2. table' = Append(w, e)
    BY <1>2, <1>5, <2>1 DEF StartPeek
  <2>3. Len(table') = Len(w) + 1
    BY <1>3, <2>2, AppendLen
  <2>4. QED
    BY <1>3, <1>5, <2>3 DEF StartPeek
<1>6. QED
  BY <1>1, <1>2, <1>4, <1>5

LEMMA StepPeek ==
  ASSUME Typed, PeekInv, Next
  PROVE  PeekInv'
<1>c. crawler' = crawler
  BY DEF Next, Start, NextLimit, NextBack, NextNone, NextUrl, Page, Redirect, RedirectOut,
     SortPage, SortFirst, SpareUrls, SpareHosts, TakeHost, Wait, Stop, Continue,
     ContinueHost, Done, vars
<1>t. /\ table \in Seq(SUBSET Items) /\ Len(table) \in Nat /\ counter \in Nat /\ limit \in Nat
      /\ bk \in Nat \X Nat \X (Hosts \cup {NoHost}) /\ peeking \in BOOLEAN
      /\ table # <<>> => Len(table) >= 1
  BY EmptySeq DEF Typed, TypeOK
<1>1. CASE Start \/ Wait \/ Stop \/ Done
  <2>1. UNCHANGED <<crawler, depths>> /\ (peeking => UNCHANGED <<pc, table>>)
    BY <1>1 DEF Start, Wait, Stop, Done, PeekInv, vars
  <2>2. QED
    BY <2>1 DEF PeekInv, depths
<1>2. CASE NextLimit
  <2>1. CASE TooDeep
    <3>1. /\ table' = Dec(table) /\ counter' = counter - 1 /\ pc' = pc /\ pc = "limit"
          /\ UNCHANGED <<crawler, limit, peeking, bk>>
      BY <1>2, <2>1 DEF NextLimit
    <3>2. peeking => table # <<>>
      BY <1>t, EmptySeq DEF PeekInv
    <3>3. peeking => Len(table') = Len(table) - 1
      BY <1>t, <3>1, <3>2, DecFacts
    <3>4. peeking => Len(table') >= counter' + 2
      BY <1>t, <3>1, <3>3 DEF PeekInv
    <3>5. QED
      BY <3>1, <3>4 DEF PeekInv
  <2>2. CASE ~TooDeep
    BY <1>2, <2>2 DEF NextLimit, PeekInv
  <2>3. QED
    BY <2>1, <2>2
<1>3. CASE NextBack
  <2>1. table # <<>> /\ pc = "pop" /\ UNCHANGED <<crawler, bk>>
    BY <1>3 DEF NextBack
  <2>2. CASE Len(table) = 1
    <3>1. ~peeking
      BY <1>t, <2>2 DEF PeekInv
    <3>2. QED
      BY <1>3, <2>1, <2>2, <3>1 DEF NextBack, PeekInv
  <2>3. CASE Len(table) # 1 /\ PeekOver(Dec(table)) /\ peeking
    <3>1. ~peeking' /\ limit' = crawler.depth_limit
      BY <2>3 DEF PeekOver, PeekInv
    <3>2. QED
      BY <2>1, <3>1 DEF PeekInv
  <2>4. CASE /\ Len(table) # 1 /\ UNCHANGED <<limit, peeking>> /\ table' = Dec(table)
             /\ counter' = (IF counter > 0 THEN counter - 1 ELSE 0)
             /\ peeking => counter' # 0
    <3>0. Len(table) >= 2
      <4>1. Len(table) \in Nat /\ Len(table) >= 1
        BY <1>t, <2>1, EmptySeq
      <4>2. Len(table) # 1
        BY <2>4
      <4>3. \A n \in Nat : n >= 1 /\ n # 1 => n >= 2
        OBVIOUS
      <4>4. QED
        BY ONLY <4>1, <4>2, <4>3
    <3>1. Len(table') = Len(table) - 1 /\ Len(table) >= 2
      BY <1>t, <2>1, <2>4, <3>0, DecFacts
    <3>2. table' # <<>>
      BY <1>t, <3>1, EmptySeq
    <3>3. pc' = "pop"
      BY <1>3, <2>4, <3>2 DEF NextBack
    <3>4. peeking => Len(table') >= counter' + 2
      BY <1>t, <2>4, <3>1 DEF PeekInv
    <3>5. QED
      BY <2>1, <2>4, <3>3, <3>4 DEF PeekInv
  <2>5. QED
    BY <1>3, <2>2, <2>3, <2>4 DEF NextBack, Back
<1>4. CASE NextNone
  <2>1. ~peeking
    BY <1>t, <1>4, EmptySeq DEF NextNone, PeekInv
  <2>2. QED
    BY <1>4, <2>1 DEF NextNone, PeekInv, depths
<1>5. CASE NextUrl
  <2>1. PICK it \in Top : table' = Append(WithTop(Top \ {it}), {})
    BY <1>5 DEF NextUrl
  <2>2. PICK w : w = WithTop(Top \ {it})
    OBVIOUS
  <2>3. w \in Seq((SUBSET Items) \cup {Top \ {it}}) /\ Len(w) = Len(table)
    BY <1>t, <1>5, <2>2, TopLen DEF WithTop, NextUrl
  <2>4. Len(table') = Len(table) + 1
    BY <2>1, <2>2, <2>3, AppendLen
  <2>5. QED
    BY <1>t, <1>5, <2>4 DEF NextUrl, PeekInv
<1>6. CASE Page
  <2>1. PICK e : table' = WithTop(e)
    BY <1>6 DEF Page
  <2>2. table # <<>>
    BY <1>6, EmptySeq DEF Page, Typed
  <2>3. Len(table') = Len(table)
    BY <1>t, <2>1, <2>2, TopLen DEF WithTop
  <2>4. QED
    BY <1>6, <2>3 DEF Page, PeekInv, depths
<1>7. CASE Redirect
  <2>1. PICK tb : tb = Dec(table)
    OBVIOUS
  <2>2. Len(table) >= 2 /\ counter >= 1
    BY <1>7 DEF Redirect, Typed
  <2>3. tb \in Seq(SUBSET Items) /\ tb # <<>> /\ Len(tb) = Len(table) - 1
    BY <1>t, <2>1, <2>2, DecFacts, EmptySeq
  <2>4. PICK e : table' \in {tb, [tb EXCEPT ![Len(tb)] = e]}
    BY <1>7, <2>1 DEF Redirect
  <2>5. Len(table') = Len(tb)
    BY <2>3, <2>4, TopLen
  <2>6. QED
    BY <1>t, <1>7, <2>2, <2>3, <2>5 DEF Redirect, PeekInv
<1>8. CASE RedirectOut \/ SpareHosts
  <2>1. UNCHANGED <<crawler, depths, table>> /\ pc' \in {"sort", "limit"}
    BY <1>8 DEF RedirectOut, SpareHosts
  <2>2. QED
    BY <2>1 DEF PeekInv, depths
<1>9. CASE SortPage \/ SortFirst
  <2>1. SortTop /\ table # <<>> /\ crawler' = crawler /\ pc' \in {"spare", "limit"}
    BY <1>9 DEF SortPage, SortFirst, Typed
  <2>2. CASE UNCHANGED depths /\ Len(table') = Len(table)
    BY <2>1, <2>2 DEF PeekInv, depths
  <2>3. CASE /\ crawler.peek_limit > 0 /\ ~peeking /\ peeking' /\ limit' = crawler.peek_limit
             /\ bk' = <<counter, limit, host>> /\ counter' = 0 /\ Len(table') = Len(table) + 1
    BY <1>t, <2>1, <2>3 DEF PeekInv
  <2>4. QED
    BY <2>1, <2>2, <2>3, SortPeek
<1>10. CASE SpareUrls
  <2>1. PICK e : table' = WithTop(e)
    BY <1>10 DEF SpareUrls
  <2>2. table # <<>>
    BY <1>10 DEF SpareUrls, Typed
  <2>3. Len(table') = Len(table)
    BY <1>t, <2>1, <2>2, TopLen DEF WithTop
  <2>4. QED
    BY <1>10, <2>3 DEF SpareUrls, PeekInv, depths
<1>11. CASE TakeHost \/ Continue \/ ContinueHost
  BY <1>11 DEF TakeHost, Continue, ContinueHost, PeekInv
<1>20. QED
  BY <1>1, <1>2, <1>3, <1>4, <1>5, <1>6, <1>7, <1>8, <1>9, <1>10, <1>11 DEF Next

(* When the worker runs out of URLs its peeks are over, for any limits.      *)
THEOREM PeeksAreOver == Spec => []PeeksEnd
<1>1. Init => Typed /\ PeekInv
  BY InitTyped DEF Init, PeekInv
<1>2. Typed /\ PeekInv /\ [Next]_vars => (Typed /\ PeekInv)'
  <2>1. ASSUME Typed, PeekInv, Next PROVE (Typed /\ PeekInv)'
    BY <2>1, StepTyped, StepPeek
  <2>2. ASSUME Typed, PeekInv, UNCHANGED vars PROVE (Typed /\ PeekInv)'
    BY <2>2 DEF vars, depths, engine, Typed, TypeOK, PeekInv
  <2>3. QED
    BY <2>1, <2>2
<1>3. Typed /\ PeekInv => PeeksEnd
  BY DEF PeekInv, PeeksEnd
<1>4. QED
  BY <1>1, <1>2, <1>3, PTL DEF Spec

-----------------------------------------------------------------------------
(* URLs are crawled once.  Of the URLs in the table none has been crawled,   *)
(* each is in the cache of its host, which ue_add() asks, and there once.    *)
(* What is not of the host is flagged, and only while the list is sorted.    *)
Kept(tb, us, ca, h, sorting) ==
    \A i \in 1..Len(tb) : \A a \in tb[i] :
      /\ a.url \notin us /\ a.url \in ca[Host(a.url)]
      /\ IF a.ext THEN sorting /\ i = Len(tb) ELSE Host(a.url) = h
      /\ \A j \in 1..Len(tb) : \A b \in tb[j] : a.url = b.url => i = j /\ a = b

Inside == crawler.peek_limit = 0 /\ ~crawler.external /\ ~crawler.spread

OnceInv ==
    Inside =>
      /\ ~crawled.again /\ \A u \in crawled.urls : u \in cache[Host(u)]
      /\ Kept(table, crawled.urls, cache, host, pc = "sort")
      /\ pc = "perform" => Host(current.url) = host
      /\ pc = "setup" => crawled.urls = {}
      /\ pc \in {"wait", "out", "done"} => table = <<>>

LEMMA KeptDec ==
  ASSUME NEW tb \in Seq(SUBSET Items), NEW us, NEW ca, NEW h, NEW s, Kept(tb, us, ca, h, s)
  PROVE  tb # <<>> => Kept(Dec(tb), us, ca, h, FALSE)
<1> SUFFICES ASSUME tb # <<>> PROVE Kept(Dec(tb), us, ca, h, FALSE)
  OBVIOUS
<1>1. PICK w : w = Dec(tb)
  OBVIOUS
<1>2. /\ Len(tb) \in Nat /\ Len(tb) >= 1 /\ Len(w) = Len(tb) - 1
      /\ \A i \in 1..Len(w) : w[i] = tb[i]
  BY <1>1, DecFacts
<1>3. Kept(w, us, ca, h, FALSE)
  <2>1. \A i \in 1..Len(w) : i \in 1..Len(tb) /\ i # Len(tb)
    BY <1>2
  <2>2. QED
    BY <1>2, <2>1 DEF Kept
<1>4. QED
  BY <1>1, <1>3

(* The list on top is replaced.                                              *)
LEMMA KeptTop ==
  ASSUME NEW tb \in Seq(SUBSET Items), tb # <<>>, NEW us, NEW ca, NEW h, NEW s, Kept(tb, us, ca, h, s),
         NEW e, NEW vs, NEW da, NEW r,
         \A i \in 1..Len(tb) : \A a \in tb[i] :
            i # Len(tb) => /\ ~a.ext /\ a.url \notin vs /\ a.url \in da[Host(a.url)]
                           /\ \A b \in e : a.url # b.url,
         \A a \in e : /\ a.url \notin vs /\ a.url \in da[Host(a.url)]
                      /\ IF a.ext THEN r ELSE Host(a.url) = h,
         \A a, b \in e : a.url = b.url => a = b
  PROVE  Kept([tb EXCEPT ![Len(tb)] = e], vs, da, h, r)
<1>1. PICK w : w = [tb EXCEPT ![Len(tb)] = e]
  OBVIOUS
<1>2. /\ Len(w) = Len(tb) /\ Len(tb) \in Nat
      /\ \A i \in 1..Len(tb) : w[i] = IF i = Len(tb) THEN e ELSE tb[i]
  BY <1>1, TopLen
<1>3. ASSUME NEW i \in 1..Len(w), NEW a \in w[i]
      PROVE  /\ a.url \notin vs /\ a.url \in da[Host(a.url)]
             /\ IF a.ext THEN r /\ i = Len(w) ELSE Host(a.url) = h
             /\ \A j \in 1..Len(w) : \A b \in w[j] : a.url = b.url => i = j /\ a = b
  <2>1. CASE i = Len(tb)
    <3>1. a \in e
      BY <1>2, <2>1
    <3>2. ASSUME NEW j \in 1..Len(w), NEW b \in w[j], a.url = b.url PROVE i = j /\ a = b
      <4>1. CASE j = Len(tb)
        BY <1>2, <2>1, <3>1, <3>2, <4>1
      <4>2. CASE j # Len(tb)
        BY <1>2, <3>1, <3>2, <4>2
      <4>3. QED
        BY <4>1, <4>2
    <3>3. QED
      BY <1>2, <2>1, <3>1, <3>2
  <2>2. CASE i # Len(tb)
    <3>1. i \in 1..Len(tb) /\ a \in tb[i]
      BY <1>2, <2>2
    <3>2. a.url \notin vs /\ a.url \in da[Host(a.url)] /\ ~a.ext /\ Host(a.url) = h
      BY <2>2, <3>1 DEF Kept
    <3>3. ASSUME NEW j \in 1..Len(w), NEW b \in w[j], a.url = b.url PROVE i = j /\ a = b
      <4>1. CASE j = Len(tb)
        BY <1>2, <2>2, <3>1, <3>3, <4>1
      <4>2. CASE j # Len(tb)
        <5>1. j \in 1..Len(tb) /\ b \in tb[j]
          BY <1>2, <4>2
        <5>2. QED
          BY <3>1, <3>3, <5>1 DEF Kept
      <4>3. QED
        BY <4>1, <4>2
    <3>4. QED
      BY <3>2, <3>3
  <2>3. QED
    BY <2>1, <2>2
<1>4. Kept(w, vs, da, h, r)
  BY ONLY <1>3 DEF Kept
<1>5. QED
  BY <1>1, <1>4

LEMMA KeptAppendNone ==
  ASSUME NEW S, NEW tb \in Seq(S), NEW us, NEW ca, NEW h, Kept(tb, us, ca, h, FALSE)
  PROVE  Kept(Append(tb, {}), us, ca, h, FALSE)
<1>1. PICK w : w = Append(tb, {})
  OBVIOUS
<1>2. /\ Len(w) = Len(tb) + 1 /\ Len(tb) \in Nat
      /\ w[Len(tb) + 1] = {} /\ \A i \in 1..Len(tb) : w[i] = tb[i]
  BY <1>1, AppendLen
<1>3. \A i \in 1..Len(w) : \A a \in w[i] : i \in 1..Len(tb) /\ a \in tb[i]
  BY <1>2
<1>4. Kept(w, us, ca, h, FALSE)
  BY <1>3 DEF Kept
<1>5. QED
  BY <1>1, <1>4

LEMMA KeptFirst ==
  ASSUME NEW us, NEW ca, NEW h, NEW e, NEW s,
         \A a \in e : a.url \notin us /\ a.url \in ca[Host(a.url)] /\ ~a.ext /\ Host(a.url) = h,
         \A a, b \in e : a.url = b.url => a = b
  PROVE  Kept(<<e>>, us, ca, h, s)
<1>1. Len(<<e>>) = 1 /\ <<e>>[1] = e
  OBVIOUS
<1>2. QED
  BY <1>1 DEF Kept

(* Sorting and sparing URLs take some off the list on top.                   *)
LEMMA KeptLess ==
  ASSUME Typed, table # <<>>, NEW us, NEW ca, NEW h, NEW s, Kept(table, us, ca, h, s),
         NEW e \in SUBSET Top, s => \A a \in e : ~a.ext
  PROVE  Kept(WithTop(e), us, ca, h, FALSE)
<1>1. table \in Seq(SUBSET Items) /\ Len(table) \in 1..Len(table)
  BY EmptySeq DEF Typed, TypeOK
<1>2. PICK tb : tb = table
  OBVIOUS
<1>3. \A i \in 1..Len(tb) : \A a \in tb[i] :
        i # Len(tb) => /\ ~a.ext /\ a.url \notin us /\ a.url \in ca[Host(a.url)]
                       /\ \A b \in e : a.url # b.url
  BY <1>1, <1>2 DEF Kept, Top
<1>4. \A a \in e : /\ a.url \notin us /\ a.url \in ca[Host(a.url)]
                   /\ IF a.ext THEN FALSE ELSE Host(a.url) = h
  BY <1>1 DEF Kept, Top
<1>5. \A a, b \in e : a.url = b.url => a = b
  BY <1>1 DEF Kept, Top
<1>6. tb \in Seq(SUBSET Items) /\ tb # <<>> /\ Kept(tb, us, ca, h, s)
  BY <1>1, <1>2
<1>7. Kept([tb EXCEPT ![Len(tb)] = e], us, ca, h, FALSE)
  BY <1>3, <1>4, <1>5, <1>6, KeptTop
<1>8. QED
  BY <1>2, <1>7 DEF WithTop

(* The list on top gets URLs that were in no cache.                          *)
LEMMA KeptNew ==
  ASSUME NEW tb \in Seq(SUBSET Items), tb # <<>>, NEW us, NEW ca, NEW da, NEW h,
         Kept(tb, us, ca, h, FALSE), \A u \in us : u \in ca[Host(u)],
         \A u \in Urls : u \in ca[Host(u)] => u \in da[Host(u)],
         NEW new,
         \A a \in new : /\ a.url \notin ca[Host(a.url)] /\ a.url \in da[Host(a.url)]
                        /\ IF a.ext THEN TRUE ELSE Host(a.url) = h,
         \A a, b \in new : a.url = b.url => a = b
  PROVE  Kept([tb EXCEPT ![Len(tb)] = tb[Len(tb)] \cup new], us, da, h, TRUE)
<1>1. PICK e : e = tb[Len(tb)] \cup new
  OBVIOUS
<1>2. Len(tb) \in 1..Len(tb)
  BY EmptySeq
<1>3. \A i \in 1..Len(tb) : \A a \in tb[i] :
        /\ ~a.ext /\ a.url \notin us /\ a.url \in ca[Host(a.url)] /\ a.url \in da[Host(a.url)]
        /\ Host(a.url) = h
        /\ \A b \in new : a.url # b.url
  <2>1. \A i \in 1..Len(tb) : \A a \in tb[i] : a.url \in Urls
    BY DEF Items
  <2>2. QED
    BY <2>1 DEF Kept
<1>4. \A i \in 1..Len(tb) : \A a \in tb[i] : \A b \in tb[Len(tb)] :
        a.url = b.url => i = Len(tb) /\ a = b
  BY <1>2 DEF Kept
<1>5. \A i \in 1..Len(tb) : \A a \in tb[i] :
        i # Len(tb) => /\ ~a.ext /\ a.url \notin us /\ a.url \in da[Host(a.url)]
                       /\ \A b \in e : a.url # b.url
  BY <1>1, <1>3, <1>4
<1>6. \A a \in e : /\ a.url \notin us /\ a.url \in da[Host(a.url)]
                   /\ IF a.ext THEN TRUE ELSE Host(a.url) = h
  BY <1>1, <1>2, <1>3
<1>7. \A a, b \in e : a.url = b.url => a = b
  BY <1>1, <1>2, <1>3, <1>4
<1>8. Kept([tb EXCEPT ![Len(tb)] = e], us, da, h, TRUE)
  BY <1>5, <1>6, <1>7, KeptTop
<1>9. QED
  BY <1>1, <1>8

LEMMA KeptMore ==
  ASSUME NEW tb \in Seq(SUBSET Items), NEW us, NEW ca, NEW da, NEW h,
         Kept(tb, us, ca, h, FALSE), \A u \in Urls : u \in ca[Host(u)] => u \in da[Host(u)], NEW s
  PROVE  Kept(tb, us, da, h, s)
<1>1. \A i \in 1..Len(tb) : \A a \in tb[i] : a.url \in Urls
  BY DEF Items
<1>2. QED
  BY <1>1 DEF Kept

(* On its own host the worker asks the cache of the host a URL is on.        *)
LEMMA AddOnce ==
  ASSUME TypeOK, Host(current.url) = host, NEW us \in SUBSET Urls, Add(us)
  PROVE  /\ \A u \in us : u \in cache'[Host(u)]
         /\ \A u \in Urls : u \in cache[Host(u)] => u \in cache'[Host(u)]
         /\ \A u \in NewOf(us) : u \in us /\ u \notin cache[Host(u)]
<1>1. \A u \in us : CacheOf(u) = Host(u)
  BY DEF CacheOf, External
<1>2. \A h \in Hosts : cache'[h] = cache[h] \cup {u \in us : CacheOf(u) = h}
  BY DEF Add
<1>3. QED
  BY <1>1, <1>2, HostIn DEF NewOf

LEMMA StepOnce ==
  ASSUME Typed, PeekInv, OnceInv, Next, \E h : RootHosts = {h}
  PROVE  OnceInv'
<1>c. crawler' = crawler
  BY DEF Next, Start, NextLimit, NextBack, NextNone, NextUrl, Page, Redirect, RedirectOut,
     SortPage, SortFirst, SpareUrls, SpareHosts, TakeHost, Wait, Stop, Continue,
     ContinueHost, Done, vars
<1> SUFFICES ASSUME Inside
             PROVE  /\ ~crawled'.again /\ \A u \in crawled'.urls : u \in cache'[Host(u)]
                    /\ Kept(table', crawled'.urls, cache', host', pc' = "sort")
                    /\ pc' = "perform" => Host(current'.url) = host'
                    /\ pc' = "setup" => crawled'.urls = {}
                    /\ pc' \in {"wait", "out", "done"} => table' = <<>>
  BY <1>c DEF OnceInv, Inside
<1>0. /\ ~crawled.again /\ \A u \in crawled.urls : u \in cache[Host(u)]
      /\ Kept(table, crawled.urls, cache, host, pc = "sort")
      /\ pc = "perform" => Host(current.url) = host
      /\ pc = "setup" => crawled.urls = {}
      /\ pc \in {"wait", "out", "done"} => table = <<>>
  BY DEF OnceInv
<1>t. /\ TypeOK /\ table \in Seq(SUBSET Items) /\ crawled.urls \in SUBSET Urls
      /\ ~peeking /\ crawler.peek_limit = 0 /\ ~crawler.external /\ ~crawler.spread
  BY DEF Typed, TypeOK, Inside, PeekInv
<1>1. CASE Start
  <2>1. PICK roots \in Few(MaxRoots) \ {{}} :
          /\ \A u \in roots : Host(u) \in RootHosts
          /\ table' = <<{Item(u, FALSE, 0, FALSE) : u \in roots}>>
          /\ host' \in {Host(u) : u \in roots}
          /\ cache' = [h \in Hosts |-> {u \in roots : Host(u) = h}]
    BY <1>1 DEF Start
  <2>2. PICK e : e = {Item(u, FALSE, 0, FALSE) : u \in roots}
    OBVIOUS
  <2>3. roots \subseteq Urls /\ \A u \in roots : Host(u) = host' /\ u \in cache'[Host(u)]
    BY <2>1, HostIn DEF Few
  <2>4. crawled' = crawled /\ crawled.urls = {} /\ pc' \in {"sortFirst", "limit"} /\ table' = <<e>>
    BY <1>0, <1>1, <2>1, <2>2 DEF Start
  <2>5. \A a \in e : a.url \in roots /\ ~a.ext /\ a = Item(a.url, FALSE, 0, FALSE)
    BY <2>2 DEF Item
  <2>6. Kept(<<e>>, {}, cache', host', FALSE)
    <3>1. \A a \in e : a.url \notin {} /\ a.url \in cache'[Host(a.url)] /\ ~a.ext /\ Host(a.url) = host'
      BY <2>3, <2>5
    <3>2. \A a, b \in e : a.url = b.url => a = b
      BY <2>5
    <3>3. QED
      BY <3>1, <3>2, KeptFirst
  <2>7. QED
    BY <1>0, <2>4, <2>6
<1>2. ASSUME UNCHANGED <<crawled, cache, host>>, pc \notin {"sort", "setup", "wait", "out", "done"},
             pc' \notin {"sort", "perform", "setup"}, table' \in {table, Dec(table)},
             pc' \in {"wait", "out", "done"} => table' = <<>>
      PROVE  /\ ~crawled'.again /\ \A u \in crawled'.urls : u \in cache'[Host(u)]
             /\ Kept(table', crawled'.urls, cache', host', pc' = "sort")
             /\ pc' = "perform" => Host(current'.url) = host'
             /\ pc' = "setup" => crawled'.urls = {}
             /\ pc' \in {"wait", "out", "done"} => table' = <<>>
  <2>1. Kept(table, crawled.urls, cache, host, FALSE)
    BY <1>0, <1>2
  <2>2. table = <<>> => Dec(table) = <<>>
    BY <1>t, DecFacts
  <2>3. Kept(table', crawled.urls, cache, host, FALSE)
    BY <1>t, <1>2, <2>1, <2>2, KeptDec
  <2>4. QED
    BY <1>0, <1>2, <2>3
<1>3. CASE NextLimit
  BY <1>2, <1>3 DEF NextLimit, engine
<1>4. CASE NextBack
  <2>1. pc = "pop" /\ table # <<>> /\ UNCHANGED <<crawled, cache>>
    BY <1>4 DEF NextBack, engine
  <2>2. CASE Len(table) = 1
    <3>1. table' = <<>> /\ pc' = "out" /\ host' = host
      BY <1>4, <2>2 DEF NextBack
    <3>2. Dec(table) = <<>>
      <4>1. Dec(table) \in Seq(SUBSET Items) /\ Len(Dec(table)) = 0
        BY <1>t, <2>1, <2>2, DecFacts
      <4>2. QED
        BY <4>1, EmptySeq
    <3>3. QED
      BY <1>2, <2>1, <3>1, <3>2
  <2>3. CASE Len(table) # 1
    <3>1. table' = Dec(table) /\ host' = host /\ pc' = IF table' = <<>> THEN "out" ELSE "pop"
      BY <1>t, <1>4, <2>3 DEF NextBack, Back
    <3>2. QED
      BY <1>2, <2>1, <3>1
  <2>4. QED
    BY <2>2, <2>3
<1>5. CASE NextNone
  BY <1>2, <1>5 DEF NextNone, engine
<1>6. CASE NextUrl
  <2>1. PICK it \in Top :
         /\ current' = it
         /\ table' = Append(WithTop(Top \ {it}), {})
         /\ crawled' = [urls |-> crawled.urls \cup {it.url},
                        again |-> crawled.again \/ it.url \in crawled.urls]
    BY <1>6 DEF NextUrl
  <2>2. /\ pc = "pop" /\ table # <<>> /\ pc' = "perform" /\ host' = host /\ cache' = cache
    BY <1>6 DEF NextUrl, engine
  <2>3. PICK e : e = Top \ {it}
    OBVIOUS
  <2>4. PICK vs : vs = crawled.urls \cup {it.url}
    OBVIOUS
  <2>5. Len(table) \in 1..Len(table)
    BY <1>t, <2>2, EmptySeq
  <2>6. Kept(table, crawled.urls, cache, host, FALSE)
    BY <1>0, <2>2
  <2>7. it.url \notin crawled.urls /\ it.url \in cache[Host(it.url)] /\ Host(it.url) = host
    BY <2>5, <2>6 DEF Kept, Top
  <2>8. \A i \in 1..Len(table) : \A a \in table[i] :
          i # Len(table) => /\ ~a.ext /\ a.url \notin vs /\ a.url \in cache[Host(a.url)]
                            /\ \A b \in e : a.url # b.url
    BY <2>3, <2>4, <2>5, <2>6 DEF Kept, Top
  <2>9. \A a \in e : /\ a.url \notin vs /\ a.url \in cache[Host(a.url)]
                     /\ IF a.ext THEN FALSE ELSE Host(a.url) = host
    BY <2>3, <2>4, <2>5, <2>6 DEF Kept, Top
  <2>10. \A a, b \in e : a.url = b.url => a = b
    BY <2>3, <2>5, <2>6 DEF Kept, Top
  <2>11. PICK w : w = [table EXCEPT ![Len(table)] = e]
    OBVIOUS
  <2>12. Kept(w, vs, cache, host, FALSE)
    BY <1>t, <2>2, <2>6, <2>8, <2>9, <2>10, <2>11, KeptTop
  <2>13. w \in Seq((SUBSET Items) \cup {e}) /\ table' = Append(w, {})
    BY <1>t, <2>1, <2>2, <2>3, <2>11, TopLen DEF WithTop
  <2>14. Kept(Append(w, {}), vs, cache, host, FALSE)
    BY <2>12, <2>13, KeptAppendNone
  <2>15. crawled'.urls = vs /\ ~crawled'.again
    BY <1>0, <2>1, <2>4, <2>7
  <2>16. \A u \in vs : u \in cache[Host(u)]
    BY <1>0, <2>4, <2>7
  <2>17. QED
    BY <2>1, <2>2, <2>7, <2>13, <2>14, <2>15, <2>16
<1>7. CASE Page
  <2>1. PICK us \in Few(MaxFound) :
         /\ table' = WithTop(Top \cup {Item(u, External(u), current.depth + 1, current.peek)
                                         : u \in NewOf(us)})
         /\ Add(us)
    BY <1>7 DEF Page
  <2>2. /\ pc = "perform" /\ table # <<>> /\ pc' = "sort" /\ host' = host /\ crawled' = crawled
        /\ us \in SUBSET Urls
    BY <1>7, EmptySeq DEF Page, Typed, Few
  <2>3. PICK new : new = {Item(u, External(u), current.depth + 1, current.peek) : u \in NewOf(us)}
    OBVIOUS
  <2>4. /\ \A u \in us : u \in cache'[Host(u)]
        /\ \A u \in Urls : u \in cache[Host(u)] => u \in cache'[Host(u)]
        /\ \A u \in NewOf(us) : u \in us /\ u \notin cache[Host(u)]
    BY <1>0, <1>t, <2>1, <2>2, AddOnce
  <2>5. \A a \in new : a.url \in NewOf(us) /\ a.ext = External(a.url)
                       /\ a = Item(a.url, External(a.url), current.depth + 1, current.peek)
    BY <2>3 DEF Item
  <2>6. \A a \in new : /\ a.url \notin cache[Host(a.url)] /\ a.url \in cache'[Host(a.url)]
                       /\ IF a.ext THEN TRUE ELSE Host(a.url) = host
    BY <1>0, <2>2, <2>4, <2>5 DEF External
  <2>7. \A a, b \in new : a.url = b.url => a = b
    BY <2>5
  <2>8. Kept(table, crawled.urls, cache, host, FALSE)
    BY <1>0, <2>2
  <2>9. Kept([table EXCEPT ![Len(table)] = table[Len(table)] \cup new], crawled.urls, cache', host, TRUE)
    BY <1>0, <1>t, <2>2, <2>4, <2>6, <2>7, <2>8, KeptNew
  <2>10. Kept(table', crawled.urls, cache', host, TRUE)
    BY <2>1, <2>3, <2>9 DEF WithTop, Top
  <2>11. QED
    BY <1>0, <1>t, <2>2, <2>4, <2>10
<1>8. CASE Redirect
  <2>1. PICK u \in Urls :
         /\ ~External(u)
         /\ table' = LET tb == Dec(table) IN
              IF NewOf({u}) = {} THEN tb
              ELSE [tb EXCEPT ![Len(tb)] = @ \cup {Item(u, FALSE, current.depth, current.peek)}]
         /\ Add({u})
    BY <1>8 DEF Redirect
  <2>2. /\ pc = "perform" /\ Len(table) >= 2 /\ pc' = "sort" /\ host' = host /\ crawled' = crawled
        /\ {u} \in SUBSET Urls
    BY <1>8 DEF Redirect, Typed
  <2>3. PICK tb : tb = Dec(table)
    OBVIOUS
  <2>4. table # <<>> /\ Len(table) \in Nat
    BY <1>t, <2>2, EmptySeq
  <2>5. tb \in Seq(SUBSET Items) /\ tb # <<>>
    BY <1>t, <2>2, <2>3, <2>4, DecFacts, EmptySeq
  <2>6. Kept(table, crawled.urls, cache, host, FALSE)
    BY <1>0, <2>2
  <2>7. Kept(tb, crawled.urls, cache, host, FALSE)
    BY <1>t, <2>3, <2>4, <2>6, KeptDec
  <2>8. /\ u \in cache'[Host(u)]
        /\ \A x \in Urls : x \in cache[Host(x)] => x \in cache'[Host(x)]
        /\ \A x \in NewOf({u}) : x = u /\ x \notin cache[Host(x)]
    BY <1>0, <1>t, <2>1, <2>2, AddOnce
  <2>9. Kept(table', crawled.urls, cache', host, TRUE)
    <3>1. CASE table' = tb
      BY <2>5, <2>7, <2>8, <3>1, KeptMore
    <3>2. CASE /\ NewOf({u}) # {}
               /\ table' = [tb EXCEPT ![Len(tb)] =
                              tb[Len(tb)] \cup {Item(u, FALSE, current.depth, current.peek)}]
      <4>1. PICK new : new = {Item(u, FALSE, current.depth, current.peek)}
        OBVIOUS
      <4>2. \A a \in new : a.url = u /\ ~a.ext
        BY <4>1 DEF Item
      <4>3. u \notin cache[Host(u)] /\ Host(u) = host
        BY <1>0, <2>1, <2>2, <2>8, <3>2 DEF External
      <4>4. \A a \in new : /\ a.url \notin cache[Host(a.url)] /\ a.url \in cache'[Host(a.url)]
                           /\ IF a.ext THEN TRUE ELSE Host(a.url) = host
        BY <2>8, <4>2, <4>3
      <4>5. \A a, b \in new : a.url = b.url => a = b
        BY <4>1
      <4>6. Kept([tb EXCEPT ![Len(tb)] = tb[Len(tb)] \cup new], crawled.urls, cache', host, TRUE)
        BY <1>0, <2>5, <2>7, <2>8, <4>4, <4>5, KeptNew
      <4>7. QED
        BY <3>2, <4>1, <4>6
    <3>3. QED
      BY <2>1, <2>3, <3>1, <3>2
  <2>10. QED
    BY <1>0, <1>t, <2>2, <2>8, <2>9
<1>9. CASE RedirectOut
  <2>1. /\ pc = "perform" /\ pc' = "sort" /\ UNCHANGED <<table, host, cache, crawled>>
    BY <1>9 DEF RedirectOut
  <2>2. Kept(table, crawled.urls, cache, host, FALSE)
    BY <1>0, <2>1
  <2>3. Kept(table, crawled.urls, cache, host, TRUE)
    BY <1>t, <2>2, KeptMore
  <2>4. QED
    BY <1>0, <2>1, <2>3
<1>10. CASE SortPage \/ SortFirst
  <2>1. /\ SortTop /\ table # <<>> /\ pc' \in {"spare", "limit"} /\ UNCHANGED <<host, cache, crawled>>
    BY <1>10 DEF SortPage, SortFirst, Typed
  <2>2. PICK bound \in SUBSET Top : table' = WithTop(bound \ {it \in bound : it.ext})
    <3>1. ~(crawler.peek_limit > 0)
      BY <1>t
    <3>2. QED
      BY <2>1, <3>1, Zenon DEF SortTop
  <2>3. PICK e : e = bound \ {it \in bound : it.ext}
    OBVIOUS
  <2>4. e \in SUBSET Top /\ \A a \in e : ~a.ext
    BY <2>3
  <2>5. Kept(WithTop(e), crawled.urls, cache, host, FALSE)
    BY <1>0, <2>1, <2>4, KeptLess
  <2>6. QED
    BY <1>0, <2>1, <2>2, <2>3, <2>5
<1>11. CASE SpareUrls
  <2>1. PICK kept \in SUBSET Top : table' = WithTop(kept)
    BY <1>11 DEF SpareUrls
  <2>2. /\ pc = "spare" /\ table # <<>> /\ pc' = "limit" /\ UNCHANGED <<host, cache, crawled>>
    BY <1>11 DEF SpareUrls, Typed, engine
  <2>3. Kept(table, crawled.urls, cache, host, FALSE)
    BY <1>0, <2>2
  <2>4. Kept(WithTop(kept), crawled.urls, cache, host, FALSE)
    BY <2>2, <2>3, KeptLess
  <2>5. QED
    BY <1>0, <2>1, <2>2, <2>4
<1>12. CASE Continue
  <2>1. PICK h \in entries, us \in Few(MaxFound), d \in 1..Cardinality(Urls) :
            (\A u \in us : Host(u) = h /\ u \notin cache[h]) /\ ReceiveUrls(h, d, us)
    BY <1>12 DEF Continue
  <2>2. h \in Hosts /\ us \in SUBSET Urls
    BY <1>t DEF TypeOK, Few
  <2>3. PICK e : e = {Item(u, FALSE, d, FALSE) : u \in us}
    OBVIOUS
  <2>4. /\ table = <<>> /\ table' = <<e>> /\ host' = h /\ crawled' = crawled /\ pc' = "sortFirst"
        /\ cache' = [cache EXCEPT ![h] = cache[h] \cup us]
    <3>1. table = <<>> /\ table' = Append(table, e)
      BY <1>0, <1>12, <2>1, <2>3 DEF Continue, ReceiveUrls
    <3>2. Append(<<>>, e) = <<e>>
      OBVIOUS
    <3>3. QED
      BY <1>12, <2>1, <3>1, <3>2 DEF Continue, ReceiveUrls
  <2>5. \A a \in e : a.url \in us /\ ~a.ext /\ a = Item(a.url, FALSE, d, FALSE)
    BY <2>3 DEF Item
  <2>6. /\ \A u \in us : u \in cache'[Host(u)] /\ u \notin crawled.urls
        /\ \A u \in crawled.urls : u \in cache'[Host(u)]
    BY <1>0, <1>t, <2>1, <2>2, <2>4, HostIn DEF TypeOK
  <2>7. \A a \in e : /\ a.url \notin crawled.urls /\ a.url \in cache'[Host(a.url)]
                     /\ ~a.ext /\ Host(a.url) = h
    BY <2>1, <2>5, <2>6
  <2>8. \A a, b \in e : a.url = b.url => a = b
    BY <2>5
  <2>9. Kept(<<e>>, crawled.urls, cache', h, FALSE)
    BY <2>7, <2>8, KeptFirst
  <2>10. QED
    BY <1>0, <2>4, <2>6, <2>9
<1>13. CASE Wait \/ Stop \/ Done
  <2>1. UNCHANGED <<table, host, cache, crawled>> /\ pc \in {"out", "wait", "done"}
        /\ pc' \in {"wait", "done"}
    BY <1>13 DEF Wait, Stop, Done, vars, engine
  <2>2. QED
    BY <1>0, <2>1
<1>14. CASE SpareHosts \/ TakeHost \/ ContinueHost
  BY <1>t, <1>14 DEF SpareHosts, TakeHost, ContinueHost
<1>20. QED
  BY <1>1, <1>3, <1>4, <1>5, <1>6, <1>7, <1>8, <1>9, <1>10, <1>11, <1>12, <1>13, <1>14 DEF Next

(* On a session that starts on one host and stays there no URL is crawled    *)
(* twice, for any number of paths, depth limit, links on a page, redirects   *)
(* and hand-overs: what the caches say of a URL is true of the worker.       *)
THEOREM NoneTwice ==
  ASSUME \E h : RootHosts = {h}
  PROVE  Spec => []CrawledOnce
<1>1. Init => Typed /\ PeekInv /\ OnceInv
  <2>1. ASSUME Init PROVE OnceInv
    <3>1. PICK e \in SUBSET Items : e = {}
      OBVIOUS
    <3>2. table = <<e>> /\ crawled = [urls |-> {}, again |-> FALSE] /\ pc = "setup" /\ \A a \in e : FALSE
      BY <2>1, <3>1 DEF Init
    <3>3. Kept(<<e>>, {}, cache, host, FALSE)
      BY <3>2, KeptFirst
    <3>4. QED
      BY <3>2, <3>3 DEF OnceInv
  <2>2. QED
    BY <2>1, InitTyped DEF Init, PeekInv
<1>2. Typed /\ PeekInv /\ OnceInv /\ [Next]_vars => (Typed /\ PeekInv /\ OnceInv)'
  <2>1. ASSUME Typed, PeekInv, OnceInv, Next PROVE (Typed /\ PeekInv /\ OnceInv)'
    BY <2>1, StepTyped, StepPeek, StepOnce
  <2>2. ASSUME Typed, PeekInv, OnceInv, UNCHANGED vars PROVE (Typed /\ PeekInv /\ OnceInv)'
    BY <2>2 DEF vars, depths, engine, Typed, TypeOK, PeekInv, OnceInv, Inside
  <2>3. QED
    BY <2>1, <2>2
<1>3. OnceInv => CrawledOnce
  BY DEF OnceInv, Inside, CrawledOnce
<1>4. QED
  BY <1>1, <1>2, <1>3, PTL DEF Spec
=============================================================================
