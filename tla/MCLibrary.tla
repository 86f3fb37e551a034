----------------------------- MODULE MCLibrary -----------------------------
(***************************************************************************)
(* Texts of up to five statements, in one file or with files that include  *)
(* one another, for all three programs that read them.                     *)
(***************************************************************************)
EXTENDS ConfigMeaning

Opt(o, k, v) == [option |-> o, kind |-> k, value |-> v]
Obj(mode, word, name, copy, body) ==
  [kind |-> "object", mode |-> mode, word |-> word, name |-> name, copy |-> copy,
   body |-> body, short |-> FALSE]
Short(mode, word, name, copy) ==
  [kind |-> "object", mode |-> mode, word |-> word, name |-> name, copy |-> copy,
   body |-> <<>>, short |-> TRUE]
Include(f) == [kind |-> "include", file |-> f]
Noise(tokens) == [kind |-> "noise", tokens |-> tokens]

Html == Obj("new", "filetype", "html", "",
  <<Opt("extensions", "array", <<"htm", "aiff">>), Opt("parser", "string", <<"xmlconv, html">>),
    Opt("handler", "string", <<"writefile">>), Opt("attributes", "array", <<"title TEXT">>)>>)
Default == Obj("new", "crawler", "default", "",
  <<Opt("dir_url", "string", <<"@html">>), Opt("unknown_url", "string", <<"discard">>),
    Opt("extless_url", "string", <<"lookup">>)>>)

Statements ==
  {Obj("new", "file", "image", "", <<Opt("expr", "string", <<"PATH">>)>>),
   Obj("new", "filetype", "image", "html", <<Opt("attributes", "array", <<"size INT">>)>>),
   Obj("extend:", "filetype", "html", "", <<Opt("ignore_host", "word", <<"true">>),
                                           Opt("expr", "string", <<"PATH">>)>>),
   Obj("override:", "filetype", "html", "", <<Opt("parser", "string", <<"google.js/parser">>)>>),
   Obj("override:", "filetype", "image", "html", <<>>),
   Short("override:", "filetype", "html", "image"),
   Short("new", "filetype", "image", "html"),
   Obj("new", "filetype", "HTML", "", <<Opt("attributes", "array", <<"size INT">>)>>),
   Obj("extend:", "filetype", "HTML", "", <<Opt("attributes", "array", <<"size INT">>),
                                           Opt("crawler_switch", "string", <<"default">>)>>),
   Obj("extend:", "crawler", "default", "",
       <<Opt("dynamic_url", "string", <<"@image">>), Opt("ftp_dir_url", "string", <<"@html">>),
         Opt("robotstxt", "number", <<"1">>)>>),
   Obj("extend:", "crawler", "default", "",
       <<Opt("dynamic_url", "string", <<"discard">>), Opt("filetypes", "array", <<"image", "none">>),
         Opt("depth_limit", "number", <<"2">>), Opt("external_peek", "number", <<"2">>)>>),
   Obj("new", "crawler", "other", "default",
       <<Opt("default_handler", "string", <<"writefile">>),
         Opt("initial_filetype", "string", <<"html">>)>>),
   Include("image"), Include("main"),
   Obj("extend:", "filetype", "html", "", <<Opt("parser", "array", <<"html">>)>>),
   Noise(<<W("filetype"), S("["), Q("image"), S("]"), S("{")>>)}

LoginStatements ==
  {[kind |-> "scope", word |-> "master",
    body |-> <<Opt("listen", "string", <<"127.0.0.1">>), Opt("mysql_port", "number", <<"2">>)>>],
   Obj("new", "slave", "one", "", <<Opt("password", "string", <<"secret">>)>>),
   Obj("extend:", "slave", "one", "", <<>>),
   Short("new", "slave", "one", ""),
   [kind |-> "scope", word |-> "master", body |-> <<Opt("listen", "word", <<"true">>)>>]}

UpTo(n, set) == UNION {[1..k -> set] : k \in 0..n}

(* "default" is a file that may include the one it is included by, "image" *)
(* one that includes "default" in its turn.                                *)
FileSet == {"main", "default", "image"}
ImageFile == <<Include("default"), Obj("new", "filetype", "image", "", <<>>)>>
Source(main, default) == [f \in FileSet |-> IF f = "main" THEN main
                                            ELSE IF f = "default" THEN default ELSE ImageFile]
SourceSet ==
  {Source(start \o rest, <<Default, Html>>) :
      start \in {<<Include("default")>>, <<>>}, rest \in UpTo(2, Statements)}
  \cup {Source(<<Default, Html>> \o rest, <<>>) : rest \in UpTo(3, Statements)}
  \cup {Source(<<Include("image"), s>>, <<Include("main"), Default, Html>>) : s \in Statements}
  \cup {Source(main, <<>>) : main \in UpTo(2, LoginStatements)}

NameFolding == [n \in {"html", "HTML", "image", "default", "other", "one", "none"} |->
                  IF n = "HTML" THEN "html" ELSE n]
Shortened == {<<"file", "filetype">>}
AtNames == [v \in {"@html", "@image"} |-> IF v = "@html" THEN "html" ELSE "image"]
ParserLists == [v \in {"xmlconv, html", "google.js/parser"} |->
                  IF v = "google.js/parser" THEN <<"google.js/parser">> ELSE <<"xmlconv", "html">>]
BuiltinFunctions == {[name |-> n, purpose |-> "parser"] : n \in {"html", "xmlconv"}}
                    \cup {[name |-> "writefile", purpose |-> "handler"]}
ScriptFunctions == {"google.js/parser"}
Alike == {<<"htm", "htm">>, <<"aiff", "aiff">>, <<"ai", "aiff">>, <<"txt", "txt">>}
UrlSet ==
  {u \in [ftp : BOOLEAN, ext : {"", "htm", "ai", "txt"}, dynamic : BOOLEAN, dir : BOOLEAN,
          exprs : {{}, {"PATH"}}] : u.dir => u.ext = ""}
=============================================================================
