SPECIFICATION FairSpec
CONSTANTS
  dispatch = dispatch
  other = other
  Senders = {dispatch, other}
  MaxInputQueue = 2
  MaxPayload = 2
  MaxParts = 2
  Kinds <- MCKinds
  MaxSubmissions = 3
INVARIANTS TypeOK DrainTruth OnlySocketErrors
PROPERTIES ImplementsLog NobodyWaitsForEver AcceptedInputLeaves
CHECK_DEADLOCK FALSE
