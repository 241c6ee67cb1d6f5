SPECIFICATION Spec
CONSTANTS
  letter = letter
  shift = shift
  left = left
  Keys = {letter, shift}
  Modifiers = {shift}
  Buttons = {left}
  MaxCommands = 3
  ReleaseReserve = 1
  UserEvents = {"cursor", "button", "wheel", "scroll", "key", "raw", "ime", "combo", "shortcut", "paste", "clipboard", "focus"}
  MaxEvents = 3
  MaxSessions = 2
INVARIANTS TypeOK  NoTrail ParkedOnlyWhenIdle
CHECK_DEADLOCK FALSE
