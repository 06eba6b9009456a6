SPECIFICATION Spec
CONSTANTS
  r1 = r1
  k1 = k1
  NoAdmin = NoAdmin
  NoServer = NoServer
  NoErr = NoErr
  Nobody = Nobody
  NoFunc = NoFunc
  BadPaths = {"//"}
  BadPrefixes <- MCBadPrefixes
  Specs <- ThreeSpecs
  StartHooks = 1
  StopHooks = 1
  MaxRequests = 1
  Starters <- OneRunner
  Runners <- OneRunner
  Stoppers <- OneStopper
INVARIANTS
  TypeOK
  TeardownOrder
  LeftoversTold
  WaitTellsWhy
PROPERTY ServiceStops
CHECK_DEADLOCK FALSE
