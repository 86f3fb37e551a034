------------------------------ MODULE UrlHandle ------------------------------
(***************************************************************************)
(* The URLs of one worker: its handle on the URL engine (uehandle_t in     *)
(* libmetha/urlengine.c), the table of lists under it (utable.c) and what  *)
(* the worker's main loop (worker.c) does with them.  Each list holds the  *)
(* URLs of one depth; the worker crawls depth first, drops lists below the *)
(* depth limit, and may peek at external pages.                            *)
(*                                                                         *)
(* A list is a set: which of its URLs is popped does not matter here.  The *)
(* shared tables are those of HostTable, taken as atomic; the other        *)
(* workers are the ones that hand over URLs or take some away.  Every URL  *)
(* carries its true depth, which the code does not know.                   *)
(***************************************************************************)
EXTENDS Integers, Sequences, FiniteSets

CONSTANTS
    Hosts, Paths,
    RootHosts,   \* hosts of the URLs the session starts with
    NoHost,      \* uehandle_t.host_ent before it is set
    Crawlers,    \* options a crawler may be configured with
    MaxRoots,    \* bound: URLs the session starts with
    MaxFound     \* bound: links on one page

ASSUME RootAssumption == RootHosts \subseteq Hosts /\ NoHost \notin Hosts
ASSUME CrawlerAssumption ==
    Crawlers \subseteq [depth_limit : Nat, peek_limit : Nat, external : BOOLEAN,
                        spread : BOOLEAN]

Urls    == Hosts \X Paths
Host(u) == u[1]

(* A URL in a list: ext is LM_URL_EXTERNAL; depth and peek are not in the    *)
(* code: how many links lead to it, and whether from a peeked page.          *)
Items == [url : Urls, ext : BOOLEAN, depth : Nat, peek : BOOLEAN]
Item(u, e, d, p) == [url |-> u, ext |-> e, depth |-> d, peek |-> p]
Root(it) == Item(it.url, it.ext, 0, FALSE)

VARIABLES
    pc,          \* where the main loop is
    crawler,     \* options of the crawler in use
    table,       \* utable_t primary: lists of URLs, the deepest last
    counter,     \* depth_counter
    limit,       \* depth_limit
    peeking,     \* is_peeking
    bk,          \* depth_counter_bk, depth_limit_bk and host_ent_bk
    host,        \* host_ent
    current,     \* the URL being crawled
    cache,       \* host_ent.cache of every host
    entries,     \* hosts that have an entry
    pending,     \* hosts on the stack of pending hosts
    list,        \* host_ent.list of every host
    crawled      \* URLs crawled so far, and whether one was crawled again

engine == <<cache, entries, pending, list>>
depths == <<counter, limit, peeking, bk>>
vars   == <<pc, crawler, table, depths, host, current, engine, crawled>>

Top == table[Len(table)]
Dec(tb) == IF tb = <<>> THEN tb ELSE SubSeq(tb, 1, Len(tb) - 1)
WithTop(items) == [table EXCEPT ![Len(table)] = items]
Few(n) == {S \in SUBSET Urls : Cardinality(S) <= n}

-----------------------------------------------------------------------------
Init ==
    /\ pc = "setup"
    /\ crawler \in Crawlers
    /\ table = <<{}>> /\ counter = 0
    /\ limit = crawler.depth_limit
    /\ peeking = FALSE /\ bk = <<0, 0, NoHost>>
    /\ host = NoHost
    /\ current = NoHost
    /\ cache = [h \in Hosts |-> {}] /\ list = [h \in Hosts |-> {}]
    /\ entries = {} /\ pending = {}
    /\ crawled = [urls |-> {}, again |-> FALSE]

(* ue_add_initial() for each URL of the command line; every one of them      *)
(* switches the handle to its host.  Without an initial filetype the list is *)
(* sorted before the loop.                                                   *)
Start ==
    /\ pc = "setup"
    /\ \E roots \in Few(MaxRoots) \ {{}} :
         /\ \A u \in roots : Host(u) \in RootHosts
         /\ table' = <<{Item(u, FALSE, 0, FALSE) : u \in roots}>>
         /\ host' \in {Host(u) : u \in roots}
         /\ entries' = {Host(u) : u \in roots}
         /\ cache' = [h \in Hosts |-> {u \in roots : Host(u) = h}]
    /\ pc' \in {"sortFirst", "limit"}
    /\ UNCHANGED <<crawler, depths, current, pending, list, crawled>>

-----------------------------------------------------------------------------
(* Mutant of TooDeep: one level too many.                                    *)
TooDeepByOne == limit > 0 /\ counter > limit

TooDeep == limit > 0 /\ counter >= limit

(* ue_next(): lists below the limit are dropped.                             *)
NextLimit ==
    /\ pc = "limit"
    /\ IF TooDeep
       THEN table' = Dec(table) /\ counter' = counter - 1 /\ UNCHANGED pc
       ELSE pc' = "pop" /\ UNCHANGED <<table, counter>>
    /\ UNCHANGED <<crawler, limit, peeking, bk, host, current, engine, crawled>>

(* The end of a peek restores what lm_worker_bind_url() has saved; tb is the *)
(* table without the emptied list.                                           *)
PeekOver(tb) ==
    /\ counter' = bk[1] /\ limit' = bk[2] /\ host' = bk[3]
    /\ peeking' = FALSE
    /\ table' = IF bk[1] >= bk[2] THEN Dec(tb) ELSE tb

(* Mutant of Back: the counter stays.                                        *)
BackUncounted(tb) ==
    /\ table' = tb
    /\ UNCHANGED <<counter, limit, peeking, host>>

(* One list back.                                                            *)
Back(tb) ==
    LET n == IF counter > 0 THEN counter - 1 ELSE 0 IN
    IF n = 0 /\ peeking
    THEN PeekOver(tb)
    ELSE table' = tb /\ counter' = n /\ UNCHANGED <<limit, peeking, host>>

(* The list on top has no URL left.                                          *)
NextBack ==
    /\ pc = "pop" /\ table # <<>> /\ Top = {}
    /\ IF Len(table) = 1
       THEN table' = <<>> /\ pc' = "out" /\ UNCHANGED <<counter, limit, peeking, host>>
       ELSE /\ Back(Dec(table))
            /\ pc' = IF table' = <<>> THEN "out" ELSE "pop"
    /\ UNCHANGED <<crawler, bk, current, engine, crawled>>

NextNone ==
    /\ pc = "pop" /\ table = <<>>
    /\ pc' = "out"
    /\ UNCHANGED <<crawler, table, depths, host, current, engine, crawled>>

(* A URL is popped, and a new list on top will take the URLs found on it.    *)
NextUrl ==
    /\ pc = "pop" /\ table # <<>>
    /\ \E it \in Top :
         /\ current' = it
         /\ table' = Append(WithTop(Top \ {it}), {})
         /\ crawled' = [urls |-> crawled.urls \cup {it.url},
                        again |-> crawled.again \/ it.url \in crawled.urls]
    /\ counter' = counter + 1
    /\ pc' = "perform"
    /\ UNCHANGED <<crawler, limit, peeking, bk, host, engine>>

-----------------------------------------------------------------------------
(* ue_add(): the cache of the URL's host decides whether it is new; a host   *)
(* met for the first time gets an entry and is pending.                      *)
External(u) == Host(u) # Host(current.url)
CacheOf(u)  == IF External(u) THEN Host(u) ELSE host

Add(us) ==
    LET far == {Host(u) : u \in {v \in us : External(v)}} IN
    /\ cache' = [h \in Hosts |-> cache[h] \cup {u \in us : CacheOf(u) = h}]
    /\ entries' = entries \cup far
    /\ pending' = pending \cup (far \ entries)

(* Mutant of NewOf: the cache is not asked.                                  *)
AllOf(us) == us

NewOf(us) == {u \in us : u \notin cache[CacheOf(u)]}

(* lm_worker_perform(): a page is skipped (jail, filter, failed transfer, or *)
(* the twentieth redirect in a row), or gives some links ...                 *)
Page ==
    /\ pc = "perform"
    /\ \E us \in Few(MaxFound) :
         /\ table' = WithTop(Top \cup {Item(u, External(u), current.depth + 1, current.peek)
                                         : u \in NewOf(us)})
         /\ Add(us)
    /\ pc' = "sort"
    /\ UNCHANGED <<crawler, depths, host, current, list, crawled>>

(* ... or redirects within its host: ue_revert() takes back the new list     *)
(* and puts the target where the page was ...                                *)
Redirect ==
    /\ pc = "perform"
    /\ \E u \in Urls :
         /\ ~External(u)
         /\ table' = LET tb == Dec(table) IN
              IF NewOf({u}) = {} THEN tb
              ELSE [tb EXCEPT ![Len(tb)] = @ \cup {Item(u, FALSE, current.depth, current.peek)}]
         /\ Add({u})
    /\ counter' = counter - 1
    /\ pc' = "sort"
    /\ UNCHANGED <<crawler, limit, peeking, bk, host, current, list, crawled>>

(* ... or to another host: the target goes to that host's list, and no cache *)
(* is asked.                                                                 *)
RedirectOut ==
    /\ pc = "perform"
    /\ \E u \in Urls :
         /\ External(u)
         /\ list' = [list EXCEPT ![Host(u)] = @ \cup {Item(u, FALSE, 0, FALSE)}]
         /\ entries' = entries \cup {Host(u)}
         /\ pending' = pending \cup ({Host(u)} \ entries)
    /\ pc' = "sort"
    /\ UNCHANGED <<crawler, table, depths, host, current, cache, crawled>>

-----------------------------------------------------------------------------
(* lm_worker_bind_url() for the external URLs of the list: they start a peek *)
(* on a list of their own ...                                                *)
StartPeek(near, far) ==
    /\ bk' = <<counter, limit, host>>
    /\ counter' = 0 /\ limit' = crawler.peek_limit /\ peeking' = TRUE
    /\ table' = Append(WithTop(near), {Item(it.url, TRUE, 0, TRUE) : it \in far})

(* lm_worker_sort(): URLs that match no filetype, or one without parser, are *)
(* taken off the list; external ones are peeked at, or moved to their host's *)
(* list, or dropped.                                                         *)
SortTop ==
    \E bound \in SUBSET Top :
      LET far  == {it \in bound : it.ext}
          near == bound \ far
          peek == crawler.peek_limit > 0 /\ ~peeking /\ far # {}
      IN
      /\ IF peek
         THEN StartPeek(near, far)
         ELSE table' = WithTop(near) /\ UNCHANGED depths
      /\ IF ~peek /\ crawler.external
         THEN list' = [h \in Hosts |->
                         list[h] \cup {Root(it) : it \in {i \in far : Host(i.url) = h}}]
         ELSE UNCHANGED list

SortPage ==
    /\ pc = "sort"
    /\ SortTop
    /\ pc' = "spare"
    /\ UNCHANGED <<crawler, host, current, cache, entries, pending, crawled>>

(* Before the first URL, and after a hand-over.                              *)
SortFirst ==
    /\ pc = "sortFirst"
    /\ SortTop
    /\ pc' = "limit"
    /\ UNCHANGED <<crawler, host, current, cache, entries, pending, crawled>>

(* URLs of the list just found are given to waiting workers, some stay ...   *)
SpareUrls ==
    /\ pc = "spare"
    /\ \E kept \in SUBSET Top :
         /\ kept # Top => kept # {} /\ ~crawler.spread
         /\ table' = WithTop(kept)
    /\ pc' = "limit"
    /\ UNCHANGED <<crawler, depths, host, current, engine, crawled>>

(* ... or, if workers are to spread, pending hosts are.                      *)
SpareHosts ==
    /\ pc = "spare" /\ crawler.spread /\ Top # {}
    /\ \E given \in SUBSET pending \ {{}} :
         /\ pending' = pending \ given
         /\ list' = [h \in Hosts |-> IF h \in given THEN {} ELSE list[h]]
    /\ pc' = "limit"
    /\ UNCHANGED <<crawler, table, depths, host, current, cache, entries, crawled>>

-----------------------------------------------------------------------------
(* ue_set_hostent() for a host that was pending: its URLs become the root of *)
(* a new crawl.                                                              *)
SetHostent(h) ==
    /\ host' = h
    /\ table' = Append(table, list[h])
    /\ list' = [list EXCEPT ![h] = {}]
    /\ pending' = pending \ {h}
    /\ counter' = 0

(* Out of URLs, the worker takes a pending host ...                          *)
TakeHost ==
    /\ pc = "out" /\ crawler.external
    /\ \E h \in pending : SetHostent(h)
    /\ pc' = "limit"
    /\ UNCHANGED <<crawler, limit, peeking, bk, current, cache, entries, crawled>>

(* ... or waits, until it is told to stop ...                                *)
Wait ==
    /\ pc = "out" /\ (crawler.external => pending = {})
    /\ pc' = "wait"
    /\ UNCHANGED <<crawler, table, depths, host, current, engine, crawled>>

Stop ==
    /\ pc = "wait"
    /\ pc' = "done"
    /\ UNCHANGED <<crawler, table, depths, host, current, engine, crawled>>

(* Mutant of ReceiveUrls: the depth is not handed over.                      *)
ReceiveUncounted(h, d, us) ==
    /\ host' = h
    /\ table' = Append(table, {Item(u, FALSE, d, FALSE) : u \in us})
    /\ cache' = [cache EXCEPT ![h] = @ \cup us]
    /\ UNCHANGED counter

(* ... or gets URLs that another worker has just found on its host, with its *)
(* counter ...                                                               *)
ReceiveUrls(h, d, us) ==
    /\ host' = h
    /\ table' = Append(table, {Item(u, FALSE, d, FALSE) : u \in us})
    /\ cache' = [cache EXCEPT ![h] = @ \cup us]
    /\ counter' = d

Continue ==
    /\ pc = "wait" /\ ~crawler.spread
    /\ \E h \in entries : \E us \in Few(MaxFound), d \in 1..Cardinality(Urls) :
         /\ \A u \in us : Host(u) = h /\ u \notin cache[h]
         /\ crawler.depth_limit > 0 => d <= crawler.depth_limit
         /\ ReceiveUrls(h, d, us)
    /\ pc' = "sortFirst"
    /\ UNCHANGED <<crawler, limit, peeking, bk, current, entries, pending, list, crawled>>

(* ... or a host that has been pending.                                      *)
ContinueHost ==
    /\ pc = "wait" /\ crawler.spread
    /\ \E h \in pending : SetHostent(h)
    /\ pc' = "sortFirst"
    /\ UNCHANGED <<crawler, limit, peeking, bk, current, cache, entries, crawled>>

Done == pc = "done" /\ UNCHANGED vars

Next ==
    \/ Start \/ NextLimit \/ NextBack \/ NextNone \/ NextUrl
    \/ Page \/ Redirect \/ RedirectOut \/ SortPage \/ SortFirst
    \/ SpareUrls \/ SpareHosts
    \/ TakeHost \/ Wait \/ Stop \/ Continue \/ ContinueHost \/ Done

(* The worker goes on as long as it has something to do.                     *)
Spec == Init /\ [][Next]_vars /\ WF_vars(Next)

-----------------------------------------------------------------------------
(* Every variable keeps its type.                                            *)
TypeOK ==
    /\ pc \in {"setup", "sortFirst", "limit", "pop", "perform", "sort", "spare",
               "out", "wait", "done"}
    /\ crawler \in Crawlers
    /\ table \in Seq(SUBSET Items) /\ counter \in Nat /\ limit \in Nat
    /\ peeking \in BOOLEAN /\ bk \in Nat \X Nat \X (Hosts \cup {NoHost})
    /\ host \in Hosts \cup {NoHost} /\ current \in Items \cup {NoHost}
    /\ cache \in [Hosts -> SUBSET Urls] /\ list \in [Hosts -> SUBSET Items]
    /\ entries \subseteq Hosts /\ pending \subseteq entries
    /\ crawled \in [urls : SUBSET Urls, again : BOOLEAN]

(* "Depth limit (default is 1, 0 is infinite)": no page is crawled that more *)
(* links lead to than the limit allows, whatever redirects, hand-overs of    *)
(* URLs and of hosts and empty lists come in between.                        *)
Bounded(it) ==
    LET most == IF it.peek THEN crawler.peek_limit ELSE crawler.depth_limit IN
    most > 0 => it.depth < most
DepthLimited ==
    crawler.peek_limit = 0 /\ pc = "perform" => Bounded(current)

(* ue_next() takes no URL off the table but the one it returns and those     *)
(* below the limit: the crawl misses no page it should visit.                *)
InTable == UNION {table[i] : i \in 1..Len(table)}
NoneDropped ==
    [][crawler.peek_limit = 0 /\ pc \in {"limit", "pop"} =>
         \A it \in InTable \ InTable' : it = current' \/ ~Bounded(it)]_vars

(* On a session that starts on one host and stays there no URL is crawled    *)
(* twice, although redirects put URLs back and other workers send some.      *)
CrawledOnce ==
    crawler.peek_limit = 0 /\ ~crawler.external /\ ~crawler.spread => ~crawled.again

(* When the worker runs out of URLs its peeks are over, and the limit of its *)
(* crawler holds again.                                                      *)
PeeksEnd == pc \in {"out", "wait", "done"} => ~peeking /\ limit = crawler.depth_limit

(* However the pages link and redirect, the worker runs out of URLs.         *)
RunsOut == []<>(pc \in {"wait", "done"})
=============================================================================
