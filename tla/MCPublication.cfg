SPECIFICATION MCSpec
CONSTANTS
  graph = graph
  other = other
  v1 = v1
  v2 = v2
  d1 = d1
  d2 = d2
  Files = {graph, other}
  GraphFiles = {graph}
  Values = {v1, v2}
  None = None
  Ops = {o1}
  Anon = Anon
  Payloads <- MCPayloads
  Drainers = {d1, d2}
  Nothing = Nothing
  MaxReceipts = 3
  MaxOutbox = 2
  MaxRetired = 1
  DrainLimit = 2
  MaxSeq = 4
  MaxFaults = 2
  MaxEdits = 1
INVARIANTS
  ReceiptsAreKept
PROPERTIES
  Implements
  DeliveredInOrder
  InterruptionEnds
CHECK_DEADLOCK FALSE
