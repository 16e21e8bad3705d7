CONSTANTS
  Claims = {c1}
  Entities = {e1, e2}
  Provenances = {p1}
  Evidence <- MCEvidence
  MaxRevision = 3
  NoEntity = NoEntity
  Dangling = Dangling
  Halves = {}
  Absent = Absent
  Workers = {w1, w2}
  Idle = Idle
SPECIFICATION Spec
SYMMETRY Symmetry
INVARIANTS
  TypeOK
  LatestIsLive
  TrailUnbroken
  EvidenceBacksStatus
  EntityIndexesCover
PROPERTY TrailOnlyGrows
