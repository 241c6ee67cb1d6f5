SPECIFICATION Spec
CONSTANTS
  dispatch = dispatch
  other = other
  Senders = {dispatch, other}
  MaxInputQueue = 2
  MaxPayload = 2
  MaxParts = 2
  Kinds <- ClipboardKinds
  MaxSubmissions = 2
INVARIANTS MessagesStayWhole
CHECK_DEADLOCK FALSE
