SPECIFICATION LiveSpec
CONSTANTS
  N = 3
  Cap = 5
  Programs <- MCPrograms
INVARIANTS
  IInv
  LockstepInv
  RepliesAreThisRound
  ChannelBound
  UniformNeverPanics
  SuccessIsUnanimous
PROPERTIES
  DecisionIsFinal
  Terminates
  ImplementsRounds
