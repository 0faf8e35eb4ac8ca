SPECIFICATION Spec
SYMMETRY Interchangeable
CONSTANTS
  Cleaner = Cleaner
  None = None
  Task = {t1}
  Obj = {o1, o2, o3}
  Sid = {s1, s2}
  Conf = {c1, c2}
  HostOf <- OneHost
  Reuse = {TRUE}
  Reconnect = {TRUE}
  MaxSessions = 2
  MaxPerHost = 1
  MaxOrphans = 1
PROPERTIES
  IdsStayBound
  AdmissionBounded
  ImplementsDirectory
