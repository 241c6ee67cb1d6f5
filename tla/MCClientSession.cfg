SPECIFICATION Spec
CONSTANTS
  MaxAttempts = 2
  MaxSessions = 2
  MaxMessages = 3
  MaxRecord = 3
INVARIANTS TypeOK ToldInOrder 
CHECK_DEADLOCK FALSE
