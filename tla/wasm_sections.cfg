SPECIFICATION WSSpec
CONSTANTS
  Base = 2
  MaxGroups = 5
  Word = 16
  Modules <- MCModules
  Texts <- MCTexts
  Spares = {0, 1}
INVARIANTS WSTypeOK FoundAsWritten WalkedToTheEnd
CHECK_DEADLOCK FALSE
