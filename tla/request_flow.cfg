\* Three requests that arrive together; fair, so without symmetry.
SPECIFICATION FairSpec
CONSTANTS
  Requests = {r1, r2, r3}
  DefaultImports = DefaultImports
  Nobody = Nobody
INVARIANTS OneInstance OneInGuest OwnHandler RootFirst RepliedLeavesNone
PROPERTIES RequestsEnd
CHECK_DEADLOCK FALSE
