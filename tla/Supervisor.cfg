SPECIFICATION MCSpec
CONSTANTS
  Handlers = {h1}
  Daemons = {d1}
  Agents = {a1}
  Dependencies <- MCDependencies
  Assignments <- MCAssignments
  MaxTasks = 2
  MaxSessions = 2
  MaxPids = 2
  MaxTrouble = 1
  MaxInits = 1
INVARIANTS
  SupTypeOK
  StartedAfterDependencies
  RunsOnce
  NoOrphan
PROPERTIES
  ImplementsBoard
  ExitIsNoticed
