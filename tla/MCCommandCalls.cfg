SPECIFICATION FairSpec
CONSTANTS
  c1 = c1
  c2 = c2
  data = data
  logs = logs
  Call <- MCCall
  Name <- MCName
  Code <- MCCode
  Scenario <- MCScenario
  WaitRounds = 2
INVARIANTS PolicyHolds RefusedMeansNotRun BackupFirst VerdictTrue AbnormalMeansCut
PROPERTY CallsReturn
CHECK_DEADLOCK FALSE
