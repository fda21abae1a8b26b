SPECIFICATION MCSpec
CONSTANTS
  Half = 4
  MaxDepth = 3
  Columns = {"c", "d", "z"}
  Unknown = {"z"}
  Patterns = {"x"}
  BadPatterns = {"["}
  IntValues <- MCInts
  StrValues = {0, 1}
  Order <- MCOrder
  Matching <- MCMatching
  MaxAny = 2
  MaxAll = 5
  MaxTokens = 7
  Few = {"c", "x", "(", ")", "AND", "OR", "BETWEEN", "LIKE", "<"}
INVARIANTS
  ParsesGrammar
  SelectsLikeSql
CHECK_DEADLOCK FALSE
