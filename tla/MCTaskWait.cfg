SPECIFICATION Spec
CONSTANTS
  c1 = c1
  c2 = c2
  data = data
  logs = logs
  Call <- MCCall
  Name <- MCName
  Code <- MCCode
  Scenario <- TwoTasks
  WaitRounds = 2
INVARIANT WaitReturnsOutput
CHECK_DEADLOCK FALSE
