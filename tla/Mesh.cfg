SPECIFICATION MCSpec
CONSTANTS
  a1 = a1
  a2 = a2
  Agents = {a1, a2}
  Ides = {i1}
  Requesters = {r1, r2}
  Capacity = 1
  TTL = 1
  Chains <- MCChains
  MaxTasks = 2
  FirstId = 160
  MaxRestarts = 1
  MaxEvents = 2
INVARIANTS
  MeshTypeOK
  OneResult
  AnswersAreTaken
PROPERTIES
  ComesToRest
  PresenceFollows
  FlagSurvives
CHECK_DEADLOCK FALSE
