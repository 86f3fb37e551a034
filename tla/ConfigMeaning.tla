--------------------------- MODULE ConfigMeaning ---------------------------
(***************************************************************************)
(* What a configuration means, statement by statement, and what the parser *)
(* and the library must therefore hold.  The state machine of ConfigParser *)
(* knows no statements: it carries flags and pointers from one token to    *)
(* the next, and here they are found to belong to the right statement.     *)
(***************************************************************************)
EXTENDS Library

(* The result of some statements: whether they are right, the objects by   *)
(* class, the settings, the files that were included, and whether anything *)
(* is claimed: nothing is, behind an object that ended with a ";".         *)
NothingYet(files) ==
  [ok |-> TRUE, claimed |-> TRUE, files |-> files,
   objects |-> [c \in ToSet(Classes(prog)) |-> <<>>],
   settings |-> [o \in DOMAIN OptionTypes.master |-> <<>>]]

Wrong(st) == [st EXCEPT !.ok = FALSE]

GoodOption(class, o) ==
  /\ o.option \in DOMAIN OptionTypes[class]
  /\ IF o.kind = "array" THEN OptionTypes[class][o.option] = "array" /\ o.value /= <<>>
     ELSE Takes(OptionTypes[class][o.option], ValueTokens(o)[1])

Configured(object, body) ==
  FoldLeft(LAMBDA ob, o : SetOption(prog, ob, o.option, o.value), object, body)

Place(st, class, name) ==
  LET found == SelectSeq([i \in DOMAIN st.objects[class] |-> i],
                         LAMBDA i : SameName(prog, st.objects[class][i].name, name))
  IN  FirstOf(found)

Declare(st, s) ==
  LET class == Head(Stands(s.word, Classes(prog)))
      old == Place(st, class, s.name)
      base == IF s.mode = "new" THEN Create(prog, class, s.name)
              ELSE IF s.mode = "extend:" THEN st.objects[class][old]
              ELSE Clear(prog, st.objects[class][old])
      other == Place(st, class, s.copy)
      made == IF s.copy = "" \/ (other = old /\ s.mode /= "new") THEN base
              ELSE CopyTo(prog, base, st.objects[class][other])
      object == Configured(made, s.body)
  IN  IF \/ Stands(s.word, Classes(prog)) = <<>>
         \/ s.name = ""
         \/ s.mode /= "new" /\ old = 0
         \/ s.copy /= "" /\ other = 0
         \/ \E i \in DOMAIN s.body : ~GoodOption(class, s.body[i])
      THEN Wrong(st)
      ELSE IF s.short THEN [st EXCEPT !.claimed = FALSE]
      ELSE IF s.mode = "new"
      THEN [st EXCEPT !.objects[class] = Append(@, object)]
      ELSE [st EXCEPT !.objects[class][old] = object]

Settings(st, s) ==
  IF \/ s.word \notin ToSet(Scopes(prog))
     \/ \E i \in DOMAIN s.body : ~GoodOption(s.word, s.body[i])
  THEN Wrong(st)
  ELSE [st EXCEPT !.settings =
          FoldLeft(LAMBDA v, o : [v EXCEPT ![o.option] = o.value], @, s.body)]

(* A file that was included before, or is being read, is passed over.      *)
RECURSIVE Meaning(_, _)
Meaning(st, stmts) ==
  IF stmts = <<>> \/ ~st.ok THEN st
  ELSE LET s == Head(stmts)
           next == CASE s.kind = "object" -> Declare(st, s)
                     [] s.kind = "scope" -> Settings(st, s)
                     [] s.kind = "noise" -> Wrong(st)
                     [] s.kind = "include" ->
                          IF Directives(prog) = <<>> \/ s.file \notin Files THEN Wrong(st)
                          ELSE IF s.file \in st.files THEN st
                          ELSE Meaning([st EXCEPT !.files = @ \cup {s.file}], source[s.file])
       IN  Meaning(next, Tail(stmts))

MeaningOf(stmts) ==
  Meaning(NothingYet(IF verdict["reconfigure"] = "none" THEN {"main"} ELSE {}), stmts)

(* The objects the root holds, a handler by its name.                      *)
Shown ==
  [c \in ToSet(Classes(prog)) |->
     [i \in DOMAIN lists[prog][c] |->
        LET o == heap[lists[prog][c][i]]
        IN  IF prog = "libmetha" /\ c = "filetype" /\ o.handler /= <<>>
            THEN [o EXCEPT !.handler = <<strings[@[1]]>>] ELSE o]]

NamesIn(objects) == [c \in DOMAIN objects |-> [i \in DOMAIN objects[c] |-> objects[c][i].name]]

-----------------------------------------------------------------------------
(* After each statement, and when the text has ended, the objects and the  *)
(* settings are those that the statements so far declare, however extend,  *)
(* override, copy and include were combined; a text is refused if and only *)
(* if a statement of it is wrong, and then what the statements before that *)
(* one have declared is there, no more and no less.  Nothing is claimed    *)
(* behind an object without a body: lmc_parse() then takes the flags of    *)
(* that statement for those of the next one, and forgets a new object.     *)
Meant ==
  LET before == MeaningOf(SubSeq(Text, 1, cur.stmt - 1))
      all == MeaningOf(source["main"])
  IN  /\ (Len(frames) = 1 /\ cur.state = "ROOT" /\ cur.pos = 1 /\ before.claimed) =>
            /\ before.ok
            /\ before.objects = Shown
            /\ before.settings = settings
      /\ (frames = <<>> /\ phase = "parse" /\ all.claimed) =>
            /\ verdict[prog] = (IF all.ok THEN "ok" ELSE "error")
            /\ IF all.ok THEN all.objects = Shown /\ all.settings = settings
               ELSE NamesIn(all.objects) = NamesIn(Shown)

(* The master makes its tables from the same text that it sends to the     *)
(* clients, but parses it with classes of its own: if it takes the text,   *)
(* a client does, with the same crawlers and filetypes and the same        *)
(* attributes for each, in the same order -- unless two names differ in    *)
(* nothing but case, which the master tells apart and libmetha does not.   *)
Agreement ==
  LET object(p, c, i) == heap[lists[p][c][i]]
      names(p) == {heap[a].name : a \in ToSet(lists[p]["filetype"]) \cup ToSet(lists[p]["crawler"])}
      distinct == \A n, o \in names("reconfigure") : Folded[n] = Folded[o] => n = o
  IN  (frames = <<>> /\ todo = <<"libmetha">> /\ verdict["reconfigure"] = "ok" /\ distinct) =>
        /\ verdict["libmetha"] = "ok"
        /\ \A c \in {"filetype", "crawler"} :
             /\ Len(lists["reconfigure"][c]) = Len(lists["libmetha"][c])
             /\ \A i \in DOMAIN lists["reconfigure"][c] :
                  /\ object("reconfigure", c, i).name = object("libmetha", c, i).name
                  /\ c = "filetype" =>
                       object("reconfigure", c, i).attributes = object("libmetha", c, i).attributes

(* Files that include one another do not include one another for ever: a   *)
(* file is not opened again while it is being read, nor after.             *)
ReadOnce ==
  /\ \A i, j \in 2..Len(frames) : frames[i].file = frames[j].file => i = j
  /\ \A i \in 2..Len(frames) : frames[i].file \in configs

-----------------------------------------------------------------------------
(* The option that says what becomes of a URL no filetype claims.          *)
Governs(u) ==
  IF u.ftp THEN "ftp_dir_url"
  ELSE IF u.dynamic THEN "dynamic_url"
  ELSE IF u.dir THEN "dir_url"
  ELSE IF u.ext = "" THEN "extless_url"
  ELSE "unknown_url"

ByExtension(a, u) ==
  /\ \E e \in ToSet(heap[a].extensions) : <<u.ext, e>> \in ExtAlike
  /\ heap[a].expr /= <<>> => MatchesExpr(a, u)

(* After lmetha_prepare() a URL is taken for what the configuration says:  *)
(* for a filetype only if that is the one the governing option is bound to *)
(* or it is in the list of the crawler and claims the URL by extension or  *)
(* expression; it is looked up only if the option is "lookup" or unset,    *)
(* and discarded only if it is "discard" and no filetype of the crawler    *)
(* has the extension.  The mark that an option holds for "discard" is      *)
(* never taken for a filetype.                                             *)
MatchAsDeclared ==
  phase = "prepared" =>
    \A c \in ToSet(crawlers), u \in Urls :
      LET cr == heap[c]
          r == MatchByUrl(cr, u)
          option == cr[Governs(u)]
      IN  /\ r \in {NoMatch, Possible} \cup ToSet(filetypes)
          /\ r \in ToSet(filetypes) =>
               \/ option /= <<>> /\ IsAt(option[1]) /\ heap[r].name = AtName[option[1]]
               \/ r \in ToSet(cr.index) /\ (ByExtension(r, u) \/ MatchesExpr(r, u))
          /\ r = Possible => ~u.ftp /\ option \in {<<>>, <<"lookup">>}
          /\ r = NoMatch => /\ u.ftp \/ option = <<"discard">>
                            /\ u.dir \/ \A a \in ToSet(cr.index) : ~ByExtension(a, u)
=============================================================================
