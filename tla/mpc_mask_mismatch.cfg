SPECIFICATION MpcSpec
CONSTANTS
  N = 2
  Cap = 5
  Programs <- MCPrograms
  Code <- TwoInputsCode
  Given <- AllInputs
  Prep <- TwoPrep
  ForwardingCap = 2
  PrepCloses = FALSE
  Timely = TRUE
  Self = TRUE
INVARIANTS
  SameSharing
