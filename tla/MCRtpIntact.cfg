SPECIFICATION SecureSpec
CONSTANTS
  Sent <- FourFrames
  FirstSequence = 12
  SequenceModulus = 20
  SeqModulus = 20
  WindowSize = 6
  Indices <- MCIndices
  MaxReorder = 4
  MaxTracked = 2
  MaxResets = 1
INVARIANTS ResumesIntact
CHECK_DEADLOCK FALSE
