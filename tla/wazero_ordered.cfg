\* Clients that keep to the order: Start once, Stop (twice) after it.
CONSTANTS
  Users = {u1, u2}
  Starters = {s1}
  Stoppers = {p1, p2}
  NumABIs = 2
  MaxAcquire = 2
  Ordered = TRUE
  NoOwner = NoOwner
  Preset = Preset
SPECIFICATION FairSpec
CHECK_DEADLOCK FALSE
INVARIANTS HeldRuntimeIsOpen ToldBeforeClosed
PROPERTY StopEnds
