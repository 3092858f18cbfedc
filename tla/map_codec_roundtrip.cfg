SPECIFICATION Spec
CONSTANTS
  a = a
  b = b
  Zero = Zero
  Chars <- MCChars
  Keys <- MCKeys
  Values <- MCValues
  Foreign <- MCForeign
INVARIANTS RoundTrip
CHECK_DEADLOCK FALSE
