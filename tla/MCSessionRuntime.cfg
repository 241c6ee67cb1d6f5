SPECIFICATION FairSpec
CONSTANTS
  MaxEvents = 4
  MaxAttempts = 2
  MaxSessions = 2
  MaxPipelines = 2
INVARIANTS TypeOK ShownInputAgrees MailboxWakes  NothingOutlives ExitExplained
PROPERTIES DisconnectReturns NegotiationDecided
CHECK_DEADLOCK FALSE
