SPECIFICATION MCSpec
CONSTANTS
  g1 = g1
  g2 = g2
  Blank = Blank
  Goals <- MCGoals
  Configs <- MCConfigs
  MaxSwarms = 1
  MaxRounds = 2
  MaxTokens = 1
  Subtasks = {t1}
  Files = {f1}
  MaxDays = 2
  MaxCommands = 2
  MaxInterferences = 1
INVARIANTS
  CommitsOnlyAgentEdits
CHECK_DEADLOCK FALSE
