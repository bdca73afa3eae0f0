SPECIFICATION MpcSpec
CONSTANTS
  N = 3
  Cap = 5
  Programs <- MCPrograms
  Code <- SecondInputCode
  Given <- OwnInputs
  Prep <- TwoPrep
  ForwardingCap = 2
  PrepCloses = FALSE
  Timely = TRUE
  Self = TRUE
INVARIANTS
  FreshSharing
  VerdictAgreement
PROPERTIES
  ImplementsComputation
