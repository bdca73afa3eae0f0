\* A process that ends can leave others waiting for it forever.
CHECK_DEADLOCK FALSE
SPECIFICATION StartupLiveSpec
CONSTANTS
  N = 3
  Strays = {5}
  Faulty <- MCFaulty
  RandCount = 1
  TripleCount = 1
INVARIANTS
  TypeOK
  CallsFindListeners
  OneConnection
  DiscoveryIsExact
  OwnShares
  PrepWaits
PROPERTIES
  Prepared
  Settles
