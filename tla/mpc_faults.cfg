SPECIFICATION MpcSpec
CONSTANTS
  N = 2
  Cap = 5
  Programs <- MCPrograms
  Code <- TwoInputsCode
  Given <- AnyInputs
  Prep <- TwoPrep
  ForwardingCap = 2
  PrepCloses = TRUE
  Timely = FALSE
  Self = TRUE
INVARIANTS
  RightMessage
  ResultIsChecked
