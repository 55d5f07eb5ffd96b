SPECIFICATION Spec
CONSTANTS
  MaxCommands = 4
  Careful = TRUE
CHECK_DEADLOCK FALSE
INVARIANTS
  ArgumentsFollow
  CommandsInPlace
