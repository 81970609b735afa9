SPECIFICATION MCSpec
CONSTANTS
  a = a
  b = b
  operator = operator
  agent = agent
  runtime = runtime
  Slices = {a, b}
  Actors = {operator, agent, runtime}
  Operators = {operator}
  Runtime = runtime
  Definitions <- AllDefinitions
  Start <- Pair
  Scopes <- Together
  PlanReasons = {"p"}
  Reasons <- BlocksOfA
  Limits = {1, 2}
  None = None
  Stale = Stale
  MaxImplementations = 2
  Kinds = {"chat"}
  p = p
  q = q
  r1 = r1
  r2 = r2
  r3 = r3
  k1 = k1
  k2 = k2
  Executions = {p, q}
  SliceOf <- MCSliceOf
  Asks = {r1, r2, r3}
  ExecutionOf <- MCExecutionOf
  Callers = {k1, k2}
  NoCaller = NoCaller
  MaxRevision = 2
  MaxMishaps = 1
INVARIANTS
  SettledMeansStopped
CHECK_DEADLOCK FALSE
