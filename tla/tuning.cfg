SPECIFICATION Spec
CONSTANTS
  h1 = h1
  w1 = w1
  NoBound = NoBound
  Bad = Bad
  Redacted = Redacted
  None = None
  NoText = NoText
  IntOf <- Ints
  DurationOf <- Ints
  FloatOf <- Floats
  Vars <- KeysInOrder
  Malformed = {"a/b"}
  Config <- WithCallbacks
  LevelKey = "l"
  Procs <- MCProcs
  Handlers <- MCHandlers
  Anonymous <- MCAnonymous
  Budget <- MCBudget
  Requests <- MCRequests
  DirectCalls <- MCDirectCalls
  Guards <- MCGuards
  PrefixesOf <- MCPrefixes
INVARIANTS
  TypeOK
  ReentrantDetected
  SettledView
  LevelFollows
  AnswerOrdered
PROPERTY EveryCallReturns
CHECK_DEADLOCK FALSE
