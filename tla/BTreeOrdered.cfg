SPECIFICATION MCSpec
CONSTANTS
  KeyCount = 53
  SmallKeys = 9
  Entries <- MCEntries
  MaxKeys = 4
  MaxNodes = 26
  Spare = 4
  NoRid = NoRid
INVARIANT ChildrenOrdered
CHECK_DEADLOCK FALSE
