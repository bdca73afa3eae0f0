SPECIFICATION LiveSpec
CONSTANT N = 2
INVARIANTS
  DoneMeansDone
  FailsOnlyForTheEarly
PROPERTIES
  AllExit
