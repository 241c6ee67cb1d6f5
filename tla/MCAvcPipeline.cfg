SPECIFICATION Spec
CONSTANTS
  Pictures = 3
  MaxFlying = 2
  MaxPending = 2
  QueueCapacity = 2
  MaxRegistered = 1
INVARIANTS TypeOK NobodyWaitsUnasked
PROPERTIES DecodesChain
CHECK_DEADLOCK FALSE
