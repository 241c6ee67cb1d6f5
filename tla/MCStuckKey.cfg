SPECIFICATION Spec
CONSTANTS
  letter = letter
  shift = shift
  left = left
  Keys = {letter, shift}
  Modifiers = {shift}
  Buttons = {left}
  MaxCommands = 2
  ReleaseReserve = 1
  UserEvents = {"key", "clipboard"}
  MaxEvents = 3
  MaxSessions = 1
INVARIANTS NoStuckKey
CHECK_DEADLOCK FALSE
