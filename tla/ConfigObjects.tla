--------------------------- MODULE ConfigObjects ---------------------------
(***************************************************************************)
(* The objects a configuration file declares: filetypes and crawlers of    *)
(* libmetha, the sketches of both that mn-masterd keeps to set up its      *)
(* tables, and the slave logins of mn-masterd.conf.  An object is a record *)
(* with a field for each option; the value of an option is a sequence of   *)
(* strings, empty as long as the option is unset.                          *)
(*                                                                         *)
(* A program gives the parser the classes it knows, and for each class the *)
(* callbacks that create, find, clear, copy and set its objects.  There    *)
(* are three programs: "daemon" (mn-masterd reading its own settings),     *)
(* "reconfigure" (mn-masterd reading the configuration of the crawlers)    *)
(* and "libmetha" (mb, and mb-client with what the master has sent).       *)
(***************************************************************************)
EXTENDS Integers, Sequences, SequencesExt

CONSTANTS
  Folded,         \* [names -> names]: a name in lower case (strcasecmp)
  Abbreviations   \* pairs <<word, name>>: the word is the start of the name

Programs == {"daemon", "reconfigure", "libmetha"}

Classes(prog) == IF prog = "daemon" THEN <<"slave">> ELSE <<"filetype", "crawler">>
Scopes(prog) == IF prog = "daemon" THEN <<"master">> ELSE <<>>
Directives(prog) == IF prog = "libmetha" THEN <<"include">> ELSE <<>>

(* The five options that say what a URL without a filetype is taken for,   *)
(* in the order in which lm_prepare_crawlers() lists them.                 *)
Friends == <<"dynamic_url", "extless_url", "dir_url", "unknown_url", "ftp_dir_url">>

OptionTypes ==
  [filetype |-> [extensions |-> "array", attributes |-> "array",
                 parser |-> "string", handler |-> "string", expr |-> "string",
                 crawler_switch |-> "string", ignore_host |-> "flag"],
   crawler |-> [filetypes |-> "array", initial_filetype |-> "string",
                default_handler |-> "string", depth_limit |-> "uint",
                external_peek |-> "uint", robotstxt |-> "flag",
                dynamic_url |-> "string", extless_url |-> "string",
                dir_url |-> "string", unknown_url |-> "string",
                ftp_dir_url |-> "string"],
   slave |-> [password |-> "string"],
   master |-> [listen |-> "string", mysql_port |-> "uint"]]

-----------------------------------------------------------------------------
(* libmetha *)

Filetype(n) ==
  [class |-> "filetype", name |-> n, extensions |-> <<>>, attributes |-> <<>>,
   parser |-> <<>>, handler |-> <<>>, expr |-> <<>>, crawler_switch |-> <<>>,
   flags |-> {}, chain |-> <<>>, id |-> 0]

(* The handler of a cleared filetype stays what it was. *)
ClearFiletype(ft) ==
  [Filetype(ft.name) EXCEPT !.handler = ft.handler, !.id = ft.id]

(* The parser option is not copied, only the chain that lmetha_prepare()   *)
(* makes of it.                                                            *)
CopyFiletype(dest, source) ==
  [ClearFiletype(dest) EXCEPT
     !.extensions = source.extensions, !.attributes = source.attributes,
     !.expr = source.expr, !.crawler_switch = source.crawler_switch,
     !.chain = source.chain, !.handler = source.handler, !.flags = source.flags]

(* flags_offs of the class is that of a filetype: the flags that a         *)
(* configuration sets land in a byte of the index, stray.                  *)
Crawler(n) ==
  [class |-> "crawler", name |-> n, filetypes |-> <<>>, initial_filetype |-> <<>>,
   default_handler |-> <<>>, depth_limit |-> <<"1">>, external_peek |-> <<>>,
   dynamic_url |-> <<>>, extless_url |-> <<>>, dir_url |-> <<>>,
   unknown_url |-> <<>>, ftp_dir_url |-> <<>>, flags |-> {}, stray |-> {},
   index |-> <<>>, bound |-> {}, ptr |-> [f \in ToSet(Friends) |-> 0], initial |-> 0]

(* The five URL options and the default handler stay.                      *)
ClearCrawler(cr) ==
  [cr EXCEPT !.filetypes = <<>>, !.initial_filetype = <<>>, !.flags = {},
             !.external_peek = <<>>, !.depth_limit = <<"1">>]

(* depth_limit and default_handler are not copied. *)
CopyCrawler(dest, source) ==
  [option \in DOMAIN dest |->
     IF option \in {"filetypes", "flags", "external_peek"} THEN source[option]
     ELSE IF option \in ToSet(Friends) \cup {"initial_filetype"} /\ source[option] /= <<>>
     THEN source[option]
     ELSE ClearCrawler(dest)[option]]

(* What "daemon" and "reconfigure" keep. *)
Slave(n) == [class |-> "slave", name |-> n, password |-> <<>>]
FiletypeSketch(n) == [class |-> "filetype", name |-> n, attributes |-> <<>>]
CrawlerSketch(n) == [class |-> "crawler", name |-> n]

-----------------------------------------------------------------------------
(* The callbacks of a class *)

Create(prog, class, n) ==
  CASE class = "slave" -> Slave(n)
    [] prog = "reconfigure" /\ class = "filetype" -> FiletypeSketch(n)
    [] prog = "reconfigure" /\ class = "crawler" -> CrawlerSketch(n)
    [] prog = "libmetha" /\ class = "filetype" -> Filetype(n)
    [] prog = "libmetha" /\ class = "crawler" -> Crawler(n)

Clear(prog, o) ==
  CASE prog = "reconfigure" /\ o.class = "filetype" -> [o EXCEPT !.attributes = <<>>]
    [] prog = "reconfigure" /\ o.class = "crawler" -> o
    [] prog = "libmetha" /\ o.class = "filetype" -> ClearFiletype(o)
    [] prog = "libmetha" /\ o.class = "crawler" -> ClearCrawler(o)

(* Mutant of CopyTo: the master copies nothing.                            *)
CopyToForgets(prog, dest, source) ==
  CASE prog = "reconfigure" -> dest
    [] prog = "libmetha" /\ dest.class = "filetype" -> CopyFiletype(dest, source)
    [] prog = "libmetha" /\ dest.class = "crawler" -> CopyCrawler(dest, source)

CopyTo(prog, dest, source) ==
  CASE prog = "reconfigure" /\ dest.class = "filetype" ->
         [dest EXCEPT !.attributes = source.attributes]
    [] prog = "reconfigure" /\ dest.class = "crawler" -> dest
    [] prog = "libmetha" /\ dest.class = "filetype" -> CopyFiletype(dest, source)
    [] prog = "libmetha" /\ dest.class = "crawler" -> CopyCrawler(dest, source)

(* libmetha takes no notice of case in the name of an object it looks up,  *)
(* mn-masterd does; of its logins it finds none.                           *)
SameName(prog, a, b) ==
  CASE prog = "libmetha" -> Folded[a] = Folded[b]
    [] prog = "reconfigure" -> a = b
    [] prog = "daemon" -> FALSE

(* What becomes of an object when one of its options is given.             *)
SetOption(prog, o, option, value) ==
  CASE prog = "reconfigure" /\ option /= "attributes" -> o
    [] prog = "libmetha" /\ OptionTypes[o.class][option] = "flag" ->
         IF value[1] \in {"0", "false"} THEN o
         ELSE IF o.class = "filetype" THEN [o EXCEPT !.flags = @ \cup {option}]
         ELSE [o EXCEPT !.stray = @ \cup {option}]
    [] OTHER -> [o EXCEPT ![option] = value]

(* Names are found by their first letters, the first that fits.            *)
Stands(word, names) ==
  SelectSeq(names, LAMBDA n : word = n \/ <<word, n>> \in Abbreviations)
=============================================================================
