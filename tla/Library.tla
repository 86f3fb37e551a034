------------------------------ MODULE Library ------------------------------
(***************************************************************************)
(* libmetha between its configuration and the first crawl: the text is     *)
(* parsed (ConfigParser), lmetha_prepare() resolves every name the objects *)
(* hold, and the index of a crawler says for each URL what it is taken     *)
(* for: a filetype, nothing (discard), or what a HEAD request will tell    *)
(* (lookup).                                                               *)
(*                                                                         *)
(* Left out: MIME types (the answer of a HEAD request), the init function  *)
(* of a crawler, prepare functions of modules, and the I/O thread that     *)
(* lmetha_prepare() starts first (MultiPeek).                              *)
(***************************************************************************)
EXTENDS ConfigParser

CONSTANTS
  AtName,      \* ["@" values -> names]: the name behind the sign
  Parts,       \* [values of parser -> sequences of function names]
  Builtin,     \* the functions that libmetha brings, [name, purpose]
  Scripted,    \* names "file/function" that a script defines
  Urls,        \* records [ftp, ext, dynamic, dir, exprs]
  ExtAlike     \* <<ext of a URL, ext of a filetype>>: a start of it, same hash

VARIABLES
  phase,       \* "parse", "filetypes", "crawlers", "prepared", "failed", "crashed"
  at,          \* the object that is next
  functions,   \* m->functions, as a set
  freed        \* the strings that prepare has given back

prepareVars == <<phase, at, functions, freed>>
vars == <<parserVars, prepareVars>>

filetypes == lists["libmetha"]["filetype"]
crawlers == lists["libmetha"]["crawler"]

Named(seq, n) == {i \in DOMAIN seq : heap[seq[i]].name = n}

(* lm_str_to_wfunction(): a function that is known, for this purpose, or   *)
(* one that a script defines.                                              *)
Known(n, fs) == {f \in fs : f.name = n}
Resolves(n, purpose, fs) ==
  IF Known(n, fs) /= {} THEN \A f \in Known(n, fs) : f.purpose = purpose
  ELSE n \in Scripted
With(n, purpose, fs) ==
  IF Known(n, fs) /= {} THEN fs ELSE fs \cup {[name |-> n, purpose |-> purpose]}

(* A chain of parsers, from the left; the first that is unknown ends it.   *)
AllParsers(names, fs) ==
  LET add(n, st) == IF ~st.ok \/ ~Resolves(n, "parser", st.fs)
                    THEN [st EXCEPT !.ok = FALSE]
                    ELSE [st EXCEPT !.fs = With(n, "parser", @)]
  IN  FoldLeft(LAMBDA st, n : add(n, st), [ok |-> TRUE, fs |-> fs], names)

Stop(how) ==
  /\ phase' = how
  /\ UNCHANGED <<heap, at, functions, freed>>

-----------------------------------------------------------------------------
PrepareStart ==
  /\ phase = "parse"
  /\ frames = <<>>
  /\ prog = "libmetha"
  /\ verdict["libmetha"] = "ok"
  /\ IF crawlers = <<>> \/ filetypes = <<>> THEN Stop("failed")
     ELSE /\ phase' = "filetypes"
          /\ at' = 1
          /\ UNCHANGED <<heap, functions, freed>>
  /\ UNCHANGED <<source, todo, frames, lists, strings, settings, configs, verdict>>

(* One filetype: its name is its own, the crawler it switches to exists,   *)
(* and so do its parsers and its handler.  A handler that was copied is    *)
(* known by the string of the other filetype, which is freed by the first  *)
(* of them: the memory then still holds the name, or it does not, and it   *)
(* is freed again.                                                         *)
PrepareFiletype ==
  LET ft == heap[filetypes[at]]
      parsers == IF ft.parser = <<>> THEN [ok |-> TRUE, fs |-> functions]
                 ELSE AllParsers(Parts[ft.parser[1]], functions)
      handler == strings[ft.handler[1]]
      wrong == \/ \E i \in Named(filetypes, ft.name) : i > at
               \/ ft.crawler_switch /= <<>> /\ Named(crawlers, ft.crawler_switch[1]) = {}
               \/ ~parsers.ok
               \/ ft.handler /= <<>> /\ ~Resolves(handler, "handler", parsers.fs)
      gone == ToSet(ft.handler) \subseteq freed /\ ft.handler /= <<>>
  IN  /\ phase = "filetypes"
      /\ at <= Len(filetypes)
      /\ \/ wrong /\ Stop("failed")
         \/ ~wrong /\ gone /\ (Stop("failed") \/ Stop("crashed"))
         \/ /\ ~wrong
            /\ heap' = [heap EXCEPT ![filetypes[at]] =
                          [@ EXCEPT !.id = at,
                             !.chain = IF ft.parser = <<>> THEN @
                                       ELSE @ \o Parts[ft.parser[1]]]]
            /\ functions' = IF ft.handler = <<>> THEN parsers.fs
                            ELSE With(handler, "handler", parsers.fs)
            /\ freed' = freed \cup ToSet(ft.handler)
            /\ at' = at + 1
            /\ UNCHANGED phase
      /\ UNCHANGED <<source, todo, frames, lists, strings, settings, configs, verdict>>

FiletypesDone ==
  /\ phase = "filetypes"
  /\ at > Len(filetypes)
  /\ IF \E i, j \in DOMAIN crawlers : i < j /\ heap[crawlers[i]].name = heap[crawlers[j]].name
     THEN Stop("failed")
     ELSE /\ phase' = "crawlers"
          /\ at' = 1
          /\ UNCHANGED <<heap, functions, freed>>
  /\ UNCHANGED <<source, todo, frames, lists, strings, settings, configs, verdict>>

(* The filetypes of a crawler: those it names, or all; a name that no      *)
(* filetype has is passed over.                                            *)
Index(cr) ==
  IF cr.filetypes = <<>> THEN filetypes
  ELSE FlattenSeq([i \in DOMAIN cr.filetypes |->
         SelectSeq(filetypes, LAMBDA a : heap[a].name = cr.filetypes[i])])

Lookup == 0
Discard == -2

(* What one of the five options becomes: the filetype behind the sign,     *)
(* with the flag of the option; lookup; or discard.                        *)
IsAt(v) == v \in DOMAIN AtName
FriendOk(value) ==
  \/ value = <<>>
  \/ IF IsAt(value[1]) THEN Named(filetypes, AtName[value[1]]) /= {}
     ELSE value[1] \in {"lookup", "discard"}
FriendPtr(value) ==
  IF value = <<>> \/ value = <<"lookup">> THEN Lookup
  ELSE IF value = <<"discard">> THEN Discard
  ELSE filetypes[CHOOSE i \in Named(filetypes, AtName[value[1]]) : TRUE]

(* Mutant of BindFlags: two bits in another order.                         *)
BindFlagsSwapped == <<"dynamic_url", "extless_url", "unknown_url", "dir_url", "ftp_dir_url">>

(* The flags in the order of their bits: bit y is that of option y.        *)
BindFlags == <<"dynamic_url", "extless_url", "dir_url", "unknown_url", "ftp_dir_url">>
Bits(cr) == {y \in DOMAIN Friends : cr[Friends[y]] /= <<>> /\ IsAt(cr[Friends[y]][1])}

PrepareCrawler ==
  LET cr == heap[crawlers[at]]
      ok == /\ cr.initial_filetype = <<>> \/ Named(filetypes, cr.initial_filetype[1]) /= {}
            /\ cr.default_handler = <<>>
                 \/ Resolves(cr.default_handler[1], "handler", functions)
            /\ \A f \in ToSet(Friends) : FriendOk(cr[f])
  IN  /\ phase = "crawlers"
      /\ at <= Len(crawlers)
      /\ IF ~ok THEN Stop("failed")
         ELSE /\ heap' = [heap EXCEPT ![crawlers[at]] =
                   [@ EXCEPT !.index = Index(cr),
                      !.flags = @ \cup {"prepared"}
                        \cup (IF cr.external_peek \in {<<>>, <<"0">>} THEN {} ELSE {"epeek"}),
                      !.stray = {},
                      !.initial = IF cr.initial_filetype = <<>> THEN 0
                                  ELSE filetypes[CHOOSE i \in
                                         Named(filetypes, cr.initial_filetype[1]) : TRUE],
                      !.bound = {BindFlags[y] : y \in Bits(cr)},
                      !.ptr = [f \in ToSet(Friends) |-> FriendPtr(cr[f])]]]
              /\ functions' = IF cr.default_handler = <<>> THEN functions
                              ELSE With(cr.default_handler[1], "handler", functions)
              /\ at' = at + 1
              /\ UNCHANGED <<phase, freed>>
      /\ UNCHANGED <<source, todo, frames, lists, strings, settings, configs, verdict>>

Prepared ==
  /\ phase = "crawlers"
  /\ at > Len(crawlers)
  /\ Stop("prepared")
  /\ UNCHANGED <<source, todo, frames, lists, strings, settings, configs, verdict>>

Init ==
  /\ InitConfig
  /\ phase = "parse"
  /\ at = 0
  /\ functions = Builtin
  /\ freed = {}

Next ==
  \/ (Parse \/ SendConfig) /\ UNCHANGED prepareVars
  \/ PrepareStart \/ PrepareFiletype \/ FiletypesDone \/ PrepareCrawler \/ Prepared

Spec == Init /\ [][Next]_vars

-----------------------------------------------------------------------------
(* lm_ftindex_match_by_url(): what a URL is taken for.  0 and -1 are the   *)
(* pointers that stand for no match and for a possible one; -2 is the      *)
(* pointer that an option set to "discard" holds.                          *)

NoMatch == 0
Possible == -1

MatchesExpr(a, u) == heap[a].expr /= <<>> /\ heap[a].expr[1] \in u.exprs

FirstOf(seq) == IF seq = <<>> THEN NoMatch ELSE Head(seq)

MatchByExt(cr, u) ==
  FirstOf(SelectSeq(cr.index, LAMBDA a :
    /\ \E e \in ToSet(heap[a].extensions) : <<u.ext, e>> \in ExtAlike
    /\ heap[a].expr = <<>> \/ MatchesExpr(a, u)))

(* An option decides at once if it is bound or asks for a lookup.  The     *)
(* pointer of a discarded one is never handed out.                         *)
Decides(cr, f) == f \in cr.bound \/ cr.ptr[f] = Lookup
Decision(cr, f) == IF f \in cr.bound THEN cr.ptr[f] ELSE Possible

MatchByUrl(cr, u) ==
  LET byExpr == FirstOf(SelectSeq(cr.index, LAMBDA a : MatchesExpr(a, u)))
      byExprOnly == FirstOf(SelectSeq(cr.index, LAMBDA a :
                      heap[a].extensions = <<>> /\ MatchesExpr(a, u)))
      byExt == MatchByExt(cr, u)
      otherwise(f) == IF Decides(cr, f) THEN Decision(cr, f) ELSE NoMatch
  IN  CASE u.ftp /\ u.dir ->
             IF "ftp_dir_url" \in cr.bound THEN cr.ptr["ftp_dir_url"] ELSE NoMatch
        [] u.ftp /\ ~u.dir -> byExt
        [] ~u.ftp /\ u.dynamic ->
             IF Decides(cr, "dynamic_url") THEN Decision(cr, "dynamic_url")
             ELSE IF u.ext = "" THEN byExpr
             ELSE IF byExt /= NoMatch THEN byExt ELSE byExprOnly
        [] ~u.ftp /\ ~u.dynamic /\ u.ext = "" ->
             IF byExpr /= NoMatch THEN byExpr
             ELSE IF u.dir THEN otherwise("dir_url") ELSE otherwise("extless_url")
        [] ~u.ftp /\ ~u.dynamic /\ u.ext /= "" ->
             IF byExt /= NoMatch THEN byExt
             ELSE IF byExprOnly /= NoMatch THEN byExprOnly
             ELSE otherwise("unknown_url")
=============================================================================
