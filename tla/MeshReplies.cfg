SPECIFICATION MCSpec
CONSTANTS
  a1 = a1
  a2 = a2
  Agents = {a1, a2}
  Ides = {i1}
  Requesters = {r1}
  Capacity = 1
  TTL = 1
  Chains <- MCChains
  MaxTasks = 0
  FirstId = 159
  MaxRestarts = 1
  MaxEvents = 2
INVARIANTS
  EveryAnswerIsTaken
CHECK_DEADLOCK FALSE
