------------------------------ MODULE HostTable -------------------------------
(***************************************************************************)
(* The tables of the URL engine that all workers share                     *)
(* (libmetha/urlengine.c): the entries of the hosts, each with its cache   *)
(* of known URLs and its list of URLs to crawl, and the stack of hosts     *)
(* that are pending.                                                       *)
(*                                                                         *)
(* One action is what a worker does between two points where another       *)
(* worker can interfere: a whole critical section, or a read of shared     *)
(* memory outside of one.  All hosts are taken to hash to one chain, the   *)
(* case in which they interfere; chains do not share anything else.  An    *)
(* entry is named by the host whose string it holds.                       *)
(***************************************************************************)
EXTENDS Integers, Sequences, FiniteSets

CONSTANTS
    Threads,   \* the workers
    Hosts,     \* host names of one chain
    Paths,     \* paths of URLs
    Home,      \* the host of the initial URLs
    NoHost,    \* null pointer, or memory that was never written
    MaxOps     \* bound: how often each worker uses the engine

ASSUME HostAssumption == Home \in Hosts /\ NoHost \notin Hosts
ASSUME FiniteAssumption == IsFiniteSet(Hosts)
ASSUME OpsAssumption == MaxOps \in Nat

Urls  == Hosts \X Paths
NoUrl == <<NoHost, NoHost>>
Host(u) == u[1]

VARIABLES
    chain,    \* the entries of the chain secondary[n].hosts[k], in order
    cache,    \* host_ent.cache: the URLs each entry knows
    list,     \* host_ent.list: URLs stored with each entry
    stack,    \* pending.st: memory of the stack of pending hosts
    sz,       \* pending.sz
    pc,       \* what each worker does
    why,      \* which caller wants a host entry: initial, add or move
    url,      \* the URL in the worker's hands
    passed,   \* how many entries of the chain the worker has passed
    ent,      \* the entry that a lookup returned
    cur,      \* uehandle_t.host_ent
    mine,     \* URLs in the worker's own table
    ops       \* how often each worker has used the engine

tableVars == <<chain, cache, list>>
pendVars  == <<stack, sz>>
ownVars   == <<url, why, passed, ent, cur, mine, ops>>
vars == <<tableVars, pendVars, pc, ownVars>>

-----------------------------------------------------------------------------
Init ==
    /\ chain = <<>>
    /\ cache = [h \in Hosts |-> {}] /\ list = [h \in Hosts |-> {}]
    /\ stack = [i \in 0..Cardinality(Hosts) |-> NoHost] /\ sz = 0
    /\ pc = [t \in Threads |-> "start"]
    /\ why = [t \in Threads |-> "initial"]
    /\ url = [t \in Threads |-> NoUrl]
    /\ passed = [t \in Threads |-> 0]
    /\ ent = [t \in Threads |-> NoHost]
    /\ cur = [t \in Threads |-> NoHost]
    /\ mine = [t \in Threads |-> {}]
    /\ ops = [t \in Threads |-> 0]

Goto(t, l) == pc' = [pc EXCEPT ![t] = l]
Known      == {chain[i] : i \in 1..Len(chain)}

(* A worker calls ue_get_hostent() for URL u.                                *)
Call(t, u, reason) ==
    /\ url' = [url EXCEPT ![t] = u]
    /\ why' = [why EXCEPT ![t] = reason]
    /\ Goto(t, "readHead")

Used(t) == ops[t] < MaxOps /\ ops' = [ops EXCEPT ![t] = @ + 1]

(* ue_add_initial(): a URL from the command line; ue_set_host() looks up its *)
(* host.                                                                     *)
AddInitial(t) ==
    /\ pc[t] = "start"
    /\ \E p \in Paths : Call(t, <<Home, p>>, "initial")
    /\ UNCHANGED <<tableVars, pendVars, passed, ent, cur, mine, ops>>

(* ue_add() of a URL on another host.                                        *)
AddExternal(t) ==
    /\ pc[t] = "idle" /\ Used(t)
    /\ \E u \in Urls : Host(u) # cur[t] /\ Call(t, u, "add")
    /\ UNCHANGED <<tableVars, pendVars, passed, ent, cur, mine>>

(* ue_add() of a URL on the host being crawled goes to the cache at hand.    *)
AddInternal(t) ==
    /\ pc[t] = "idle" /\ Used(t)
    /\ \E p \in Paths :
         LET u == <<cur[t], p>> IN
         /\ cache' = [cache EXCEPT ![cur[t]] = @ \cup {u}]
         /\ mine' = IF u \in cache[cur[t]] THEN mine
                    ELSE [mine EXCEPT ![t] = @ \cup {u}]
    /\ UNCHANGED <<chain, list, pendVars, pc, url, why, passed, ent, cur>>

-----------------------------------------------------------------------------
(* ue_get_hostent(): the head of the chain is read before the lock is taken. *)
ReadHead(t) ==
    /\ pc[t] = "readHead"
    /\ IF chain = <<>> THEN passed' = [passed EXCEPT ![t] = 0] /\ Goto(t, "relock")
                       ELSE UNCHANGED passed /\ Goto(t, "scan")
    /\ UNCHANGED <<tableVars, pendVars, url, why, ent, cur, mine, ops>>

(* The walk along the chain under the read lock.                             *)
Scan(t) ==
    /\ pc[t] = "scan"
    /\ IF Host(url[t]) \in Known
       THEN /\ ent' = [ent EXCEPT ![t] = Host(url[t])]
            /\ UNCHANGED passed
            /\ Goto(t, "have")
       ELSE /\ passed' = [passed EXCEPT ![t] = Len(chain)]
            /\ UNCHANGED ent
            /\ Goto(t, "relock")
    /\ UNCHANGED <<tableVars, pendVars, url, why, cur, mine, ops>>

(* Mutants of Place, without the second check: the new entry replaces what   *)
(* follows the last one passed, or is linked in at the end.                  *)
PlaceUnchecked(t) ==
    /\ chain' = Append(SubSeq(chain, 1, passed[t]), Host(url[t]))
    /\ ent' = [ent EXCEPT ![t] = Host(url[t])]

PlaceAlways(t) ==
    /\ chain' = Append(chain, Host(url[t]))
    /\ ent' = [ent EXCEPT ![t] = Host(url[t])]

(* "we must check again if the host entry still does not exists": it is      *)
(* created if nothing follows the entries that were passed, else what        *)
(* follows is returned.                                                      *)
Place(t) ==
    IF Len(chain) = passed[t]
    THEN /\ chain' = Append(chain, Host(url[t]))
         /\ ent' = [ent EXCEPT ![t] = Host(url[t])]
    ELSE /\ ent' = [ent EXCEPT ![t] = chain[passed[t] + 1]]
         /\ UNCHANGED chain

(* ue_hostent_create() pushes the host unless ue_set_host() wants it.        *)
Push(h) == stack' = [stack EXCEPT ![sz] = h] /\ sz' = sz + 1

(* Under the write lock, which was free in between.  The push comes before   *)
(* the link, and a worker that pops the host in between goes straight to its *)
(* list without looking at the chain.                                        *)
Relock(t) ==
    /\ pc[t] = "relock"
    /\ Place(t)
    /\ IF chain' # chain /\ why[t] # "initial" THEN Push(Host(url[t]))
                                               ELSE UNCHANGED pendVars
    /\ Goto(t, "have")
    /\ UNCHANGED <<cache, list, url, why, passed, cur, mine, ops>>

(* The callers of ue_get_hostent() go on, with the entry's lock.             *)
FinishInitial(t) ==
    /\ pc[t] = "have" /\ why[t] = "initial"
    /\ cur' = [cur EXCEPT ![t] = ent[t]]
    /\ cache' = [cache EXCEPT ![ent[t]] = @ \cup {url[t]}]
    /\ mine' = IF url[t] \in cache[ent[t]] THEN mine
               ELSE [mine EXCEPT ![t] = @ \cup {url[t]}]
    /\ Goto(t, "idle")
    /\ UNCHANGED <<chain, list, pendVars, url, why, passed, ent, ops>>

(* A URL that the cache knows is dropped; a new one goes to the list of the  *)
(* page, from where lm_worker_sort() moves it by ue_move_to_secondary().     *)
FinishAdd(t) ==
    /\ pc[t] = "have" /\ why[t] = "add"
    /\ cache' = [cache EXCEPT ![ent[t]] = @ \cup {url[t]}]
    /\ IF url[t] \in cache[ent[t]]
       THEN Goto(t, "idle") /\ UNCHANGED <<url, why>>
       ELSE Call(t, url[t], "move")
    /\ UNCHANGED <<chain, list, pendVars, passed, ent, cur, mine, ops>>

FinishMove(t) ==
    /\ pc[t] = "have" /\ why[t] = "move"
    /\ list' = [list EXCEPT ![ent[t]] = @ \cup {url[t]}]
    /\ Goto(t, "idle")
    /\ UNCHANGED <<chain, cache, pendVars, url, why, passed, ent, cur, mine, ops>>

-----------------------------------------------------------------------------
(* Mutant of PopPending: pops from an empty stack.                           *)
PopUnchecked(t) ==
    /\ pc[t] = "idle" /\ Used(t)
    /\ sz' = sz - 1
    /\ Goto(t, "readSlot")
    /\ UNCHANGED <<tableVars, stack, url, why, passed, ent, cur, mine>>

(* ue_pop_pending(): the size shrinks under the lock ...                     *)
PopPending(t) ==
    /\ pc[t] = "idle" /\ Used(t)
    /\ sz > 0
    /\ sz' = sz - 1
    /\ Goto(t, "readSlot")
    /\ UNCHANGED <<tableVars, stack, url, why, passed, ent, cur, mine>>

(* ... and the slot is read after it, wherever the size is by then.  A null  *)
(* or unwritten slot is not a host.                                          *)
ReadSlot(t) ==
    /\ pc[t] = "readSlot"
    /\ ent' = [ent EXCEPT ![t] = stack[sz]]
    /\ Goto(t, IF stack[sz] = NoHost THEN "crashed" ELSE "takeList")
    /\ UNCHANGED <<tableVars, pendVars, url, why, passed, cur, mine, ops>>

(* ue_set_hostent(), without the entry's lock: take the URLs ...             *)
TakeList(t) ==
    /\ pc[t] = "takeList"
    /\ cur' = [cur EXCEPT ![t] = ent[t]]
    /\ mine' = [mine EXCEPT ![t] = @ \cup list[ent[t]]]
    /\ list' = [list EXCEPT ![ent[t]] = {}]
    /\ Goto(t, "freeList")
    /\ UNCHANGED <<chain, cache, pendVars, url, why, passed, ent, ops>>

(* ... and then free the list, with what was stored in it since.             *)
FreeList(t) ==
    /\ pc[t] = "freeList"
    /\ list' = [list EXCEPT ![ent[t]] = {}]
    /\ Goto(t, "idle")
    /\ UNCHANGED <<chain, cache, pendVars, ownVars>>

Step(t) ==
    \/ AddInitial(t) \/ AddExternal(t) \/ AddInternal(t)
    \/ ReadHead(t) \/ Scan(t) \/ Relock(t)
    \/ FinishInitial(t) \/ FinishAdd(t) \/ FinishMove(t)
    \/ PopPending(t) \/ ReadSlot(t) \/ TakeList(t) \/ FreeList(t)

(* Every worker has used the engine as often as the bound allows.            *)
Finished ==
    /\ \A t \in Threads :
          pc[t] = "crashed" \/ (pc[t] = "idle" /\ ops[t] = MaxOps)
    /\ UNCHANGED vars

Next == (\E t \in Threads : Step(t)) \/ Finished

Spec == Init /\ [][Next]_vars

-----------------------------------------------------------------------------
(* Every variable keeps its type.                                            *)
TypeOK ==
    /\ chain \in Seq(Hosts)
    /\ cache \in [Hosts -> SUBSET Urls] /\ list \in [Hosts -> SUBSET Urls]
    /\ stack \in [0..Cardinality(Hosts) -> Hosts \cup {NoHost}] /\ sz \in Nat
    /\ pc \in [Threads -> {"start", "idle", "readHead", "scan", "relock", "have",
                           "readSlot", "takeList", "freeList", "crashed"}]
    /\ why \in [Threads -> {"initial", "add", "move"}]
    /\ url \in [Threads -> Urls \cup {NoUrl}]
    /\ passed \in [Threads -> Nat]
    /\ ent \in [Threads -> Hosts \cup {NoHost}] /\ cur \in [Threads -> Hosts \cup {NoHost}]
    /\ mine \in [Threads -> SUBSET Urls]
    /\ ops \in [Threads -> 0..MaxOps]

(* Workers that look for the same new host at the same time, with the lock   *)
(* released between search and creation, never create two entries for it:    *)
(* the host would have two caches and be crawled twice.                      *)
EntriesUnique == \A i, j \in 1..Len(chain) : chain[i] = chain[j] => i = j

(* No creation cuts off an entry that another worker has just linked in: the *)
(* chain only grows at its end.                                              *)
ChainGrows ==
    [][/\ Len(chain) <= Len(chain')
       /\ \A i \in 1..Len(chain) : chain'[i] = chain[i]]_vars

(* A host is pending once at most, and only hosts that have an entry are:    *)
(* whatever the order of pushes and pops, the stack holds no host twice.     *)
PendingOnce ==
    /\ \A i, j \in 0..(sz-1) : stack[i] = stack[j] => i = j
    /\ \A i \in 0..(sz-1) : stack[i] \in Known
=============================================================================
