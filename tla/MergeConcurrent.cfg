CONSTANTS
  c1 = c1
  c2 = c2
  e1 = e1
  e2 = e2
  Claims = {c1, c2}
  Entities = {e1, e2}
  Provenances = {1, 2}
  Evidence <- MCEvidence
  MaxRevision = 4
  NoEntity = NoEntity
  Dangling = Dangling
  Halves <- MCHalves
  Absent = Absent
  Workers = {w1, w2}
  Idle = Idle
  None = None
  Deltas <- MCDeltas
SPECIFICATION FairMergeSpec
INVARIANTS
  AloneIsSerial
PROPERTIES
  SettledUnlessRaced
  MergesEnd
