\* Damaged headers, and calls that read what others have left, with buffers that are
\* refilled in the middle of a lexeme and grow; and strings that are too long for the arrays
\* they are copied to.
CONSTANTS
  Scripts <- MCScripts
  Spellings <- MCSpellings
  BufSizes = {2, 5, 64}
  ReadSize = 40
  MaxText = 5
  MethodSize = 2
  VersionSize = 2
  UriSize = 3
  NameSize = 2
  ValueSize = 4
  InitDepth = 2
  MaxDepth = 16
SPECIFICATION Spec
INVARIANTS Lexed SyntaxAgrees WithinBounds OwnInput UnitsAgree
PROPERTIES Conserved
CHECK_DEADLOCK FALSE
