SPECIFICATION FairCallSpec
CONSTANTS
  t1 = t1
  t2 = t2
  t3 = t3
  t4 = t4
  registry = registry
  tensions = tensions
  history = history
  dreams = dreams
  NoTask = NoTask
  MaxCalls = 1
  Tasks = {t1, t2}
  Files = {history}
  Sites <- HistorySites
CHECK_DEADLOCK FALSE
PROPERTY
  EveryCallEnds
