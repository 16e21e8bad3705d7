CONSTANTS
  Claims = {c1}
  Entities = {e1}
  Provenances = {p1}
  Evidence <- MCEvidence
  MaxRevision = 4
  NoEntity = NoEntity
  Dangling = Dangling
  Halves = {}
  Absent = Absent
  Workers = {w1}
  Idle = Idle
  None = None
SPECIFICATION ArchiveSpec
INVARIANT ExportHasEveryClaim
