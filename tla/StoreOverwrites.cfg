CONSTANTS
  Claims = {c1}
  Entities = {e1}
  Provenances = {p1}
  Evidence <- MCEvidence
  MaxRevision = 2
  NoEntity = NoEntity
  Dangling = Dangling
  Halves = {}
  Absent = Absent
  Workers = {w1, w2}
  Idle = Idle
SPECIFICATION Spec
PROPERTY AppendOnly
