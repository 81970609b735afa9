SPECIFICATION SourceSpec
CONSTANTS
  f1 = f1
  e1 = e1
  e2 = e2
  c1 = c1
  c2 = c2
  SourceFiles = {f1}
  SourceContents = {c1, c2}
  Edits = {e1, e2}
  Intended <- MCIntended
  FirstContent <- MCFirstContent
  NoEdit = NoEdit
  NoFile = NoFile
  Mapped = {f1}
  ForeignFiles = {}
  MaxForeignEdits = 0
  MaxMishaps = 0
INVARIANTS
  EnrichmentDebtIsKept
CHECK_DEADLOCK FALSE
