SPECIFICATION Spec
CONSTANTS
  Cleaner = Cleaner
  None = None
  Task = {t1}
  Obj = {o1, o2, o3}
  Sid = {s1, s2}
  Conf = {c1}
  HostOf <- OneHost
  Reuse = {TRUE}
  Reconnect = {TRUE}
  MaxSessions = 1
  MaxPerHost = 1
  MaxOrphans = 0
INVARIANTS
  LiveSessionsBounded
