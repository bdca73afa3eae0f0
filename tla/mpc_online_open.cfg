SPECIFICATION MpcSpec
CONSTANTS
  N = 2
  Cap = 5
  Programs <- MCPrograms
  Code <- TripleCode
  Given <- OwnInputs
  Prep <- TriplePrep
  ForwardingCap = 2
  PrepCloses = FALSE
  Timely = TRUE
  Self = FALSE
INVARIANTS
  OpenAgreement
