CONSTANTS
  c1 = c1
  f1 = f1
  plain = plain
  moved = moved
  other = other
  Claims = {c1}
  Entities = {f1}
  Provenances = {p1}
  Evidence <- MCEvidence
  MaxRevision = 4
  NoEntity = NoEntity
  Dangling = Dangling
  Halves = {}
  Absent = Absent
  Workers = {w1, w2}
  Idle = Idle
  Contents <- MCContents
  Missing = Missing
  Terms <- MCTerms
  IndexClaim <- MCIndexClaim
  NoExcerpt = NoExcerpt
  None = None
SPECIFICATION SerialSweepSpec
SYMMETRY Symmetry
INVARIANT UndisturbedSweepIsComplete
PROPERTY UndisturbedSweepKeepsDecisions
