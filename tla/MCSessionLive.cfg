SPECIFICATION FairSpec
CONSTANTS
  Cleaner = Cleaner
  None = None
  Task = {t1, t2}
  Obj = {o1, o2}
  Sid = {s1}
  Conf = {c1}
  HostOf <- OneHost
  Reuse = {TRUE}
  Reconnect = {TRUE}
  MaxSessions = 1
  MaxPerHost = 1
  MaxOrphans = 0
PROPERTIES
  CallsReturn
  DeadNoticed
  IdleReaped
