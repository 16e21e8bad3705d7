CONSTANTS
  Claims = {c1, c2}
  Entities = {e1}
  Provenances = {p1}
  Evidence <- Supporting
  MaxRevision = 3
  NoEntity = NoEntity
  Dangling = Dangling
  Halves = {}
  Absent = Absent
  Workers = {w1}
  Idle = Idle
  None = None
SPECIFICATION MCSpec
SYMMETRY Symmetry
INVARIANTS
  QuietExportLosesOnlyUnread
  ImportedExactly
  ArchivedTrailsAreWhole
PROPERTY ImportIsAdditive
