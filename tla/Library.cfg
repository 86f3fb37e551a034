CONSTANTS
  Folded <- NameFolding
  Abbreviations <- Shortened
  Files <- FileSet
  Sources <- SourceSet
  AtName <- AtNames
  Parts <- ParserLists
  Builtin <- BuiltinFunctions
  Scripted <- ScriptFunctions
  Urls <- UrlSet
  ExtAlike <- Alike
SPECIFICATION Spec
INVARIANTS
  
  Agreement
  ReadOnce
  MatchAsDeclared
CHECK_DEADLOCK FALSE
