SPECIFICATION MCSpec
CONSTANTS
  KeyCount = 53
  SmallKeys = 9
  Entries <- MCEntries
  MaxKeys = 4
  MaxNodes = 26
  Spare = 4
  NoRid = NoRid
INVARIANT InnersFit
CHECK_DEADLOCK FALSE
