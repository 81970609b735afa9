SPECIFICATION Spec
CONSTANTS
  a = a
  b = b
  operator = operator
  agent = agent
  runtime = runtime
  Slices = {a, b}
  Actors = {operator, runtime}
  Operators = {operator}
  Runtime = runtime
  Definitions <- PairOnly
  Start <- Pair
  Scopes <- Together
  PlanReasons = {"p"}
  Reasons <- NoBlocks
  Limits = {1}
  None = None
  Stale = Stale
  MaxImplementations = 2
INVARIANTS
  FinalReviewIsLast
CHECK_DEADLOCK FALSE
