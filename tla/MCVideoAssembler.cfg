SPECIFICATION Spec
CONSTANTS
  Units <- MCUnits
  SliceCount = 3
  MaxPending = 2
  FirstOrder = 14
  OrderModulus = 16
  MaxResets = 1
INVARIANTS TypeOK OrderlyIsShown
PROPERTIES ImplementsChain
CHECK_DEADLOCK FALSE
