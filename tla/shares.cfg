SPECIFICATION Spec
CONSTANTS
  N = 2
  P = 3
  Jobs <- MCJobs
INVARIANTS
  TypeOK
  Authentic
  CheckIsExact
  HonestPasses
  ProductIsRight
