SPECIFICATION LiveSpec
CONSTANTS
  K = 3
INVARIANTS
  FlowInv
  LossOnlyAtTheEnd
  ReaderDrains
PROPERTIES
  ImplementsLink
  Exits
