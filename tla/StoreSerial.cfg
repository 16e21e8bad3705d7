CONSTANTS
  Claims = {c1, c2}
  Entities = {e1, e2}
  Provenances = {p1}
  Evidence <- MCEvidence
  MaxRevision = 3
  NoEntity = NoEntity
  Dangling = Dangling
  Halves <- MCHalves
  Absent = Absent
  Workers = {w1, w2}
  Idle = Idle
SPECIFICATION MCSerialSpec
SYMMETRY Symmetry
INVARIANTS
  OneLiveRevision
  StatusIndexExact
  ObjectIndexExact
PROPERTIES
  AppendOnly
  ImplementsLedger
