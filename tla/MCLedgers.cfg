SPECIFICATION MCSpec
CONSTANTS
  graph = graph
  other = other
  v1 = v1
  v2 = v2
  Files = {graph, other}
  GraphFiles = {}
  Values = {v1, v2}
  None = None
  Ops = {}
  Anon = Anon
  Payloads <- MCPayloads
  Drainers = {}
  Nothing = Nothing
  MaxReceipts = 3
  MaxOutbox = 1
  MaxRetired = 0
  DrainLimit = 1
  MaxSeq = 3
  MaxFaults = 2
  MaxEdits = 0
  a1 = a1
  a2 = a2
  a3 = a3
  role = role
  host = host
  work1 = work1
  key1 = key1
  Attempts = {a1, a2, a3}
  ModelRuns = {role, host, work1}
  JobRuns = {work1}
  ApiRuns = {role, host}
  HostRuns = {host}
  NoRun = NoRun
  Unknown = Unknown
  RunOf <- MCRunOf
  Parent <- MCParent
  BillingKey <- MCBillingKey
  Resources <- MCResources
  Tokens <- MCTokens
  Requests <- MCRequests
  Concurrency <- MCConcurrency
  KeyAmount <- MCKeyAmount
  Usages = {1, 3}
  MayBeLate = {role}
  MaxInterrupted = 1
  f1 = f1
  f2 = f2
  e1 = e1
  e2 = e2
  e3 = e3
  c1 = c1
  c2 = c2
  SourceFiles = {f1, f2}
  SourceContents = {c1, c2}
  Edits = {e1, e2, e3}
  Intended <- MCIntended
  FirstContent <- MCFirstContent
  NoEdit = NoEdit
  NoFile = NoFile
  Mapped = {f1}
  ForeignFiles = {f1}
  MaxForeignEdits = 1
  MaxMishaps = 1
  daily = daily
  manual1 = manual1
  t1 = t1
  t2 = t2
  Plans = {daily}
  CronPlans = {daily}
  CatchUpPlans = {daily}
  MaxRunsOf <- MCMaxRuns
  ErrorStreak = 1
  Requested = {manual1}
  Runners = {t1, t2}
  NoOccurrence = NoOccurrence
  MaxClock = 3
  MaxRevision = 2
  MaxDisturbed = 1
INVARIANTS
  ReadIsCommitted
  NothingSentIsReleased
  SpendIsCovered
  EndedJobOwesNothing
  SourceChangesAreOwed
  EffectsAreNotRepeated
  StagesFollowTheGraph
  MaxRunsIsKept
  OccurrencesRunOnce
  CursorFollowsAdmission
SYMMETRY MCSymmetry
CHECK_DEADLOCK FALSE
