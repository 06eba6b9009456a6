\* Requests of every kind through four chains, with their deadlines, clients and access sets.
SPECIFICATION Spec
CONSTANTS
  Requests = {r1}
  Inputs <- MCInputs
  Chains <- MCChains
  NoLayer = NoLayer
  ValidIDs = {"id1", "id2"}
  TokenUpdates <- MCTokenUpdates
  IPUpdates <- MCIPUpdates
  MaxTime = 3
  MaxInt = 100
  Nobody = Nobody
  NoFunc = NoFunc
  BadPaths = {"//"}
  IPs <- MCIPs
  Nets <- MCNets
  NoIP = NoIP
  NoHost = NoHost
  NullOrigin = NullOrigin
  NoOrigin = NoOrigin
  AnyValue = AnyValue
INVARIANTS TypeOK PanicAnswered LimitsHold GuardJustified AddressVouched CorsGrantsAllowed
\* An answered request is the end of it.
CHECK_DEADLOCK FALSE
