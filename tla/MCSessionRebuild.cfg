SPECIFICATION Spec
CONSTANTS
  Cleaner = Cleaner
  None = None
  Task = {t1}
  Obj = {o1, o2, o3}
  Sid = {s1, s2}
  Conf = {c1}
  HostOf <- OneHost
  Reuse = {TRUE}
  Reconnect = {TRUE}
  MaxSessions = 2
  MaxPerHost = 2
  MaxOrphans = 0
PROPERTIES
  OnlyDeadRebuilt
