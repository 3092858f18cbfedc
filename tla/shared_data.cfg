\* Two guests, two keys, a counter that wraps after two sets, three sets.
CONSTANTS
  Guests = {g1, g2}
  Keys = {k1, k2, empty}
  EmptyKey = empty
  Values = {a, b}
  Absent = Absent
  Modulus = 2
  MaxSets = 3
SPECIFICATION Spec
SYMMETRY Symmetry
INVARIANTS CasInv CasIdentifiesValue
PROPERTIES NoLostUpdate NoSpuriousMismatch
