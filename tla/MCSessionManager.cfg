SPECIFICATION Spec
SYMMETRY Interchangeable
CONSTANTS
  Cleaner = Cleaner
  None = None
  Task = {t1, t2}
  Obj = {o1, o2, o3}
  Sid = {s1, s2}
  Conf = {c1}
  HostOf <- OneHost
  Reuse = {TRUE, FALSE}
  Reconnect = {TRUE, FALSE}
  MaxSessions = 1
  MaxPerHost = 1
  MaxOrphans = 1
INVARIANTS
  TypeOK
  SessionExclusive
  NoCircularWait
  NoSharing
  NoLeak
  Monitored
PROPERTIES
  NoResurrection
