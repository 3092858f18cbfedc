\* Any client: two goroutines that start, two that stop, in any order.
CONSTANTS
  Users = {u1, u2}
  Starters = {s1, s2}
  Stoppers = {p1, p2}
  NumABIs = 2
  MaxAcquire = 1
  Ordered = FALSE
  NoOwner = NoOwner
  Preset = Preset
SPECIFICATION Spec
CHECK_DEADLOCK FALSE
SYMMETRY Symmetry
INVARIANTS RefCountIsHolders LifecycleInv DataIsOwners
PROPERTY IsManagedResource
