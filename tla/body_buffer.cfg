SPECIFICATION Spec
CONSTANTS
  MemSize = 4
  MaxLen = 3
  Bytes = {0, 1}
INVARIANTS KeepsWhatIsMeant GuestMemoryIsGuests
