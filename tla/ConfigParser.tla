---------------------------- MODULE ConfigParser ----------------------------
(***************************************************************************)
(* lmc_parse(), the configuration parser that all the programs share, with *)
(* the files it reads through the include directive.  A text is a sequence *)
(* of statements; the parser sees the tokens of one after the other and    *)
(* knows nothing of statements but its state.  The variables of the call   *)
(* are a frame; include, which parses another file with the same parser,   *)
(* puts one more frame on the stack.  A step reads one token.              *)
(*                                                                         *)
(* Left out: white space, comments, line numbers and error texts; the      *)
(* load_module directive (dlopen); memory that runs out.                   *)
(***************************************************************************)
EXTENDS ConfigObjects

CONSTANTS
  Files,       \* names of files, "main" is the one a program is given
  Sources      \* the functions from Files to sequences of statements

VARIABLES
  source,      \* [Files -> statements]: what the files hold
  todo,        \* the programs that read "main", the first one is at it
  frames,      \* the calls of lmc_parse(), the innermost is the last
  heap,        \* the objects that were created: an address is an index
  lists,       \* [Programs -> [classes -> addresses]], as the root keeps them
  strings,     \* names of handlers, shared by pointer between filetypes
  settings,    \* the variables of "daemon" that the scope sets
  configs,     \* the files that lmetha_load_config() has been asked for
  verdict      \* [Programs -> "none", "ok" or "error"]

parserVars == <<source, todo, frames, heap, lists, strings, settings, configs, verdict>>

W(x) == <<"word", x>>
S(x) == <<"sign", x>>
Q(x) == <<"quoted", x>>
N(x) == <<"number", x>>

(* The tokens of a statement.  An option is a record [option, kind, value],*)
(* where the kind says how the value is written.                           *)
ValueTokens(o) ==
  CASE o.kind = "array" ->
         <<S("{")>>
         \o FlattenSeq([i \in DOMAIN o.value |->
              (IF i = 1 THEN <<>> ELSE <<S(",")>>) \o <<Q(o.value[i])>>])
         \o <<S("}")>>
    [] o.kind = "string" -> <<Q(o.value[1])>>
    [] o.kind = "number" -> <<N(o.value[1])>>
    [] o.kind = "word" -> <<W(o.value[1])>>

BodyTokens(body) ==
  <<S("{")>>
  \o FlattenSeq([i \in DOMAIN body |->
       <<W(body[i].option), S("=")>> \o ValueTokens(body[i]) \o <<S(";")>>])
  \o <<S("}")>>

TokensOf(s) ==
  CASE s.kind = "include" -> <<W("include"), Q(s.file)>>
    [] s.kind = "scope" -> <<W(s.word)>> \o BodyTokens(s.body)
    [] s.kind = "noise" -> s.tokens
    [] s.kind = "object" ->
         (IF s.mode = "new" THEN <<>> ELSE <<W(s.mode)>>)
         \o <<W(s.word), S("["), Q(s.name)>>
         \o (IF s.copy = "" THEN <<>> ELSE <<W("copy"), Q(s.copy)>>)
         \o <<S("]")>>
         \o IF s.short THEN <<S(";")>> ELSE BodyTokens(s.body)

Tokens == [s \in UNION {ToSet(src[f]) : src \in Sources, f \in Files} |-> TokensOf(s)]

-----------------------------------------------------------------------------
prog == Head(todo)

NewFrame(f) ==
  [file |-> f, stmt |-> 1, pos |-> 1, state |-> "ROOT", extend |-> FALSE,
   override |-> FALSE, copy |-> FALSE, scope |-> FALSE, curr |-> "", o |-> 0,
   opt |-> "", array |-> <<>>]

cur == Last(frames)

Text == source[cur.file]
Ended == cur.stmt > Len(Text)
At(state) == /\ frames /= <<>>
             /\ ~Ended
             /\ cur.state = state
Tok == Tokens[Text[cur.stmt]][cur.pos]
IsString == Tok[1] = "quoted"

(* p++: the next token, of the next statement behind the last one.         *)
Past(fr) ==
  IF fr.pos = Len(Tokens[source[fr.file][fr.stmt]])
  THEN [fr EXCEPT !.stmt = @ + 1, !.pos = 1]
  ELSE [fr EXCEPT !.pos = @ + 1]

Continue(fr) == frames' = Append(Front(frames), Past(fr))

(* An error ends the call, and with it the directives of the calls around  *)
(* it: what the complete statements have declared stays.                   *)
Fail ==
  /\ frames' = <<>>
  /\ verdict' = [verdict EXCEPT ![prog] = "error"]
  /\ UNCHANGED <<heap, lists, strings, settings, configs>>

Go(state) ==
  /\ Continue([cur EXCEPT !.state = state])
  /\ UNCHANGED <<heap, lists, strings, settings, configs, verdict>>

Object(class, name) ==
  LET same(a) == SameName(prog, heap[a].name, name)
      found == SelectSeq(lists[prog][class], same)
  IN  IF found = <<>> THEN 0 ELSE Head(found)

-----------------------------------------------------------------------------
(* The states of the parser *)

InitConfig ==
  /\ source \in Sources
  /\ todo \in {<<"daemon">>, <<"libmetha">>, <<"reconfigure", "libmetha">>}
  /\ frames = <<NewFrame("main")>>
  /\ heap = <<>>
  /\ lists = [p \in Programs |-> [c \in ToSet(Classes(p)) |-> <<>>]]
  /\ strings = <<>>
  /\ settings = [o \in DOMAIN OptionTypes.master |-> <<>>]
  /\ configs = IF todo = <<"libmetha">> THEN {"main"} ELSE {}
  /\ verdict = [p \in Programs |-> "none"]

(* extend and override are flags until the end of an object they are for. *)
Modifier ==
  /\ Continue([cur EXCEPT !.extend = TRUE, !.override = @ \/ Tok = W("override:")])
  /\ UNCHANGED <<heap, lists, strings, settings, configs, verdict>>

Root ==
  LET classes == Stands(Tok[2], Classes(prog))
      scopes == Stands(Tok[2], Scopes(prog))
  IN  /\ At("ROOT")
      /\ IF Tok \in {W("extend:"), W("override:")} THEN Modifier
         ELSE IF Tok[1] /= "word" THEN Fail
         ELSE IF classes /= <<>>
         THEN /\ Continue([cur EXCEPT !.curr = Head(classes), !.state = "PRE_NAME"])
              /\ UNCHANGED <<heap, lists, strings, settings, configs, verdict>>
         ELSE IF scopes /= <<>>
         THEN /\ Continue([cur EXCEPT !.curr = Head(scopes), !.scope = TRUE,
                                      !.o = 0, !.state = "PRE_OBJ"])
              /\ UNCHANGED <<heap, lists, strings, settings, configs, verdict>>
         ELSE IF Stands(Tok[2], Directives(prog)) /= <<>> THEN Go("DIRECTIVE_ARG")
         ELSE Fail

(* Mutant of DirectiveArg: the name of the file is not noted.              *)
DirectiveArgLate ==
  /\ At("DIRECTIVE_ARG")
  /\ IF ~IsString \/ Tok[2] \notin Files THEN Fail
     ELSE IF Tok[2] \in configs THEN Go("ROOT")
     ELSE /\ frames' = Append(frames, NewFrame(Tok[2]))
          /\ UNCHANGED <<heap, lists, strings, settings, configs, verdict>>

(* include: lmetha_load_config() notes the name before the file is parsed. *)
(* The frame that includes goes on when the other one has ended.           *)
DirectiveArg ==
  /\ At("DIRECTIVE_ARG")
  /\ IF ~IsString \/ Tok[2] \notin Files THEN Fail
     ELSE IF Tok[2] \in configs THEN Go("ROOT")
     ELSE /\ configs' = configs \cup {Tok[2]}
          /\ frames' = Append(frames, NewFrame(Tok[2]))
          /\ UNCHANGED <<heap, lists, strings, settings, verdict>>

PreName == At("PRE_NAME") /\ IF Tok = S("[") THEN Go("NAME") ELSE Fail

(* The name of the object itself: a new object, or the one to extend.      *)
ObjectName ==
  LET found == Object(cur.curr, Tok[2])
      at(a) == Continue([cur EXCEPT !.o = a, !.state = "POST_NAME"])
  IN  /\ At("NAME")
      /\ ~cur.copy
      /\ IF ~IsString \/ Tok[2] = "" \/ (cur.extend /\ found = 0) THEN Fail
         ELSE /\ IF ~cur.extend
                 THEN /\ heap' = Append(heap, Create(prog, cur.curr, Tok[2]))
                      /\ at(Len(heap) + 1)
                 ELSE /\ heap' = [heap EXCEPT ![found] =
                                    IF cur.override THEN Clear(prog, @) ELSE @]
                      /\ at(found)
              /\ UNCHANGED <<lists, strings, settings, configs, verdict>>

(* The name behind copy.                                                   *)
CopyName ==
  LET found == Object(cur.curr, Tok[2])
  IN  /\ At("NAME")
      /\ cur.copy
      /\ IF ~IsString \/ Tok[2] = "" \/ found = 0 THEN Fail
         ELSE /\ heap' = [heap EXCEPT ![cur.o] =
                            IF found = cur.o THEN @ ELSE CopyTo(prog, @, heap[found])]
              /\ Continue([cur EXCEPT !.copy = FALSE, !.state = "END_NAME"])
              /\ UNCHANGED <<lists, strings, settings, configs, verdict>>

PostName ==
  /\ At("POST_NAME")
  /\ IF Tok = W("copy")
     THEN /\ Continue([cur EXCEPT !.copy = TRUE, !.state = "NAME"])
          /\ UNCHANGED <<heap, lists, strings, settings, configs, verdict>>
     ELSE IF Tok = S("]") THEN Go("PRE_OBJ")
     ELSE Fail

EndName == At("END_NAME") /\ IF Tok = S("]") THEN Go("PRE_OBJ") ELSE Fail

(* A statement that ends here keeps its flags, and adds no object.         *)
PreObj ==
  /\ At("PRE_OBJ")
  /\ IF Tok = S("{") THEN Go("OBJ")
     ELSE IF Tok = S(";") THEN Go("ROOT")
     ELSE Fail

(* Behind a scope the options of a class are looked for in the wrong place.*)
OptionsOf(fr) ==
  IF fr.scope = (fr.curr \in ToSet(Scopes(prog))) THEN OptionTypes[fr.curr]
  ELSE <<>>

(* Mutant of EndOfObject: extend and override stay set.                    *)
EndOfObjectStuck ==
  /\ At("OBJ")
  /\ Tok = S("}")
  /\ lists' = IF cur.scope \/ cur.extend THEN lists
              ELSE [lists EXCEPT ![prog][cur.curr] = Append(@, cur.o)]
  /\ Continue([cur EXCEPT !.state = "ROOT", !.o = 0, !.scope = FALSE])
  /\ UNCHANGED <<heap, strings, settings, configs, verdict>>

EndOfObject ==
  /\ At("OBJ")
  /\ Tok = S("}")
  /\ lists' = IF cur.scope \/ cur.extend THEN lists
              ELSE [lists EXCEPT ![prog][cur.curr] = Append(@, cur.o)]
  /\ Continue([cur EXCEPT !.state = "ROOT", !.o = 0, !.scope = FALSE,
                          !.extend = @ /\ cur.scope, !.override = @ /\ cur.scope])
  /\ UNCHANGED <<heap, strings, settings, configs, verdict>>

OptionName ==
  /\ At("OBJ")
  /\ Tok /= S("}")
  /\ IF Tok[1] /= "word" \/ Tok[2] \notin DOMAIN OptionsOf(cur) THEN Fail
     ELSE /\ Continue([cur EXCEPT !.opt = Tok[2], !.state = "PRE_VAL"])
          /\ UNCHANGED <<heap, lists, strings, settings, configs, verdict>>

PreVal == At("PRE_VAL") /\ IF Tok = S("=") THEN Go("VAL") ELSE Fail

(* Stores an option: in the variable a scope points to, or in the object.  *)
(* The name of a handler is copied to memory of its own.                   *)
Store(value) ==
  IF cur.scope
  THEN /\ settings' = [settings EXCEPT ![cur.opt] = value]
       /\ UNCHANGED <<heap, strings>>
  ELSE LET pointed == prog = "libmetha" /\ cur.opt = "handler"
       IN  /\ strings' = IF pointed THEN strings \o value ELSE strings
           /\ heap' = [heap EXCEPT ![cur.o] = SetOption(prog, @, cur.opt,
                         IF pointed THEN <<Len(strings')>> ELSE value)]
           /\ UNCHANGED settings

(* The kinds of value an option of each type takes.                        *)
Takes(type, token) ==
  \/ token[1] = "quoted" /\ type = "string"
  \/ token[1] = "number" /\ type \in {"uint", "flag"}
  \/ token \in {W("true"), W("false")} /\ type = "flag"

Val ==
  LET type == OptionsOf(cur)[cur.opt]
  IN  /\ At("VAL")
      /\ IF Tok = S("{") /\ ~cur.scope /\ type = "array" THEN Go("ARRAY_VAL")
         ELSE IF ~Takes(type, Tok) \/ (cur.scope /\ type = "flag") THEN Fail
         ELSE /\ Store(<<Tok[2]>>)
              /\ Continue([cur EXCEPT !.state = "POST_VAL"])
              /\ UNCHANGED <<lists, configs, verdict>>

PostVal == At("POST_VAL") /\ IF Tok = S(";") THEN Go("OBJ") ELSE Fail

ArrayVal ==
  /\ At("ARRAY_VAL")
  /\ IF ~IsString THEN Fail
     ELSE /\ Continue([cur EXCEPT !.array = Append(@, Tok[2]), !.state = "ARRAY_PRE_VAL"])
          /\ UNCHANGED <<heap, lists, strings, settings, configs, verdict>>

ArrayPreVal ==
  /\ At("ARRAY_PRE_VAL")
  /\ IF Tok = S("}")
     THEN /\ Store(cur.array)
          /\ Continue([cur EXCEPT !.array = <<>>, !.state = "POST_VAL"])
          /\ UNCHANGED <<lists, configs, verdict>>
     ELSE IF Tok = S(",") THEN Go("ARRAY_VAL")
     ELSE Fail

(* The end of a file: the call that included it reads on, if there is one. *)
EndOfFile ==
  /\ frames /= <<>>
  /\ Ended
  /\ IF cur.state /= "ROOT" THEN Fail
     ELSE LET outer == Front(frames)
          IN  /\ UNCHANGED <<heap, lists, strings, settings, configs>>
              /\ IF outer = <<>>
                 THEN /\ frames' = <<>>
                      /\ verdict' = [verdict EXCEPT ![prog] = "ok"]
                 ELSE /\ frames' = Append(Front(outer),
                                      Past([Last(outer) EXCEPT !.state = "ROOT"]))
                      /\ UNCHANGED verdict

Parse ==
  /\ \/ Root \/ DirectiveArg \/ PreName \/ ObjectName \/ CopyName \/ PostName
     \/ EndName \/ PreObj \/ EndOfObject \/ OptionName \/ PreVal \/ Val
     \/ PostVal \/ ArrayVal \/ ArrayPreVal \/ EndOfFile
  /\ UNCHANGED <<source, todo>>

(* The master has set up its tables and sends the text to a client.        *)
SendConfig ==
  /\ frames = <<>>
  /\ Len(todo) > 1
  /\ verdict[prog] = "ok"
  /\ todo' = Tail(todo)
  /\ frames' = <<NewFrame("main")>>
  /\ UNCHANGED <<source, heap, lists, strings, settings, configs, verdict>>
=============================================================================
