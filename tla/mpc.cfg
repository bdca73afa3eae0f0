SPECIFICATION MpcLiveSpec
CONSTANTS
  N = 2
  Cap = 5
  Programs <- MCPrograms
  Code <- MulCode
  Given <- OwnInputs
  Prep <- MulPrep
  ForwardingCap = 2
  PrepCloses = FALSE
  Timely = TRUE
  Self = TRUE
INVARIANTS
  MpcTypeOK
  PeerBound
  OpenAgreement
  FailsOnlyForPrep
PROPERTIES
  MpcTerminates
