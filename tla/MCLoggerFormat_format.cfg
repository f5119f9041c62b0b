SPECIFICATION Spec
CONSTANTS
  Letters = {"d", "q"}
  Others = {"-"}
  Known = {"d"}
  MaxLength = 6
  MaxFormat = 2
CHECK_DEADLOCK FALSE
INVARIANT TypeOK
INVARIANT UnderstoodAsWritten
INVARIANT MistakesShow
INVARIANT NothingLost
PROPERTY Terminates
