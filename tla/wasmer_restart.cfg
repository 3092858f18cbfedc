\* Start again after a Stop that has ended.
CONSTANTS
  Users = {u1}
  Starters = {s1}
  Stoppers = {p1}
  Known = {"v1"}
  NumABIs = 1
  MaxAcquire = 1
  MaxStarts = 2
  NoOwner = NoOwner
  Preset = Preset
SPECIFICATION Spec
CHECK_DEADLOCK FALSE
PROPERTY ReturnsThoseOfGuest
