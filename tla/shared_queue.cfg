\* Two guests, two names, two ids: the third queue gets the id of the first.
CONSTANTS
  Guests = {g1, g2}
  Names = {n1, n2}
  NoID = NoID
  Modulus = 2
  MaxQueues = 3
  MaxMessages = 2
SPECIFICATION Spec
SYMMETRY Symmetry
INVARIANTS RegistryAgrees TokensStayTrue NoCrossDelivery InOrder InOnePlace QueueInv
