\* Any client, patient or not: two goroutines that start, two that stop, two Starts.
CONSTANTS
  Users = {u1, u2}
  Starters = {s1, s2}
  Stoppers = {p1, p2}
  Known = {"v1"}
  NumABIs = 2
  MaxAcquire = 1
  MaxStarts = 2
  NoOwner = NoOwner
  Preset = Preset
SPECIFICATION Spec
CHECK_DEADLOCK FALSE
SYMMETRY Symmetry
INVARIANTS CallbacksInOrder OwnGuest
PROPERTY IsRestartableResource
