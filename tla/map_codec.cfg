SPECIFICATION Spec
CONSTANTS
  a = a
  b = b
  Zero = Zero
  Chars <- MCChars
  Keys <- MCKeys
  Values <- MCValues
  Foreign <- MCForeign
INVARIANTS TypeOK NothingInvented OnlyShortValuesLost
CHECK_DEADLOCK FALSE
