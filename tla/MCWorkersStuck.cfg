SPECIFICATION MCFairSpec
CONSTANTS
  Parts = {"workers"}
  c1 = c1
  c2 = c2
  k1 = k1
  k2 = k2
  h1 = h1
  h2 = h2
  r1 = r1
  r2 = r2
  t1 = t1
  t2 = t2
  p1 = p1
  Ask = {a1, a2, a3}
  RateMax = 2
  RateWindow = 2
  Clock <- MCClock
  Unknown = {a3}
  Cmd <- MCCmd
  Conn <- MCConn
  ConnOf <- MCConnOf
  WorkerCount = 2
  Port = {p1, p2}
  Tunnel <- MCTunnel
  Peer = {e1}
  NoTunnel = NoTunnel
  WdTask = {w1, w2}
  Monitor = {m1, m2}
  NoMonitor = NoMonitor
  Editor = {s1, s2}
  HostName = {n1, n2}
  Endpoint = {d1, d2}
  Batch = {b1, b2}
  Row <- MCRow
  RowKey <- MCRowKey
  NoPool = NoPool
  SvcId = {i1, i2}
  Leaver = {l1, l2}
PROPERTY ClosesEnd
CHECK_DEADLOCK FALSE
