SPECIFICATION Spec
CONSTANTS
  Chars <- MCChars
  MaxText = 5
INVARIANTS
  TypeOK
  CutsWholeText
  LexerAgrees
  CanFinish
  OnlyHopelessDiscarded
CHECK_DEADLOCK FALSE
