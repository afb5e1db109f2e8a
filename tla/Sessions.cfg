\* One account in two processes with one crash, failed renewal or Redis outage, the
\* users, the sessions of one of them, the start of two workers or the forms they show.
SPECIFICATION DeploySpec
CONSTANTS
  t1 = t1
  t2 = t2
  n1 = n1
  n2 = n2
  east = east
  west = west
  o1 = o1
  g1 = g1
  NoOne = NoOne
  Gone = Gone
  NoTask = NoTask
  Orphan = Orphan
  Tasks = {t1, t2}
  Nodes = {n1, n2}
  NodeOf <- TwoProcesses
  Ops = {"login", "challenge", "query", "keepalive", "clear"}
  Excluded = {}
  FaultKinds = {"crash", "renew", "down"}
  MaxOps = 3
  MaxFaults = 1
INVARIANTS
  PartsTypeOK
  LeaseExclusive
  TeamsConsistent
  ListsMatch
  StartsSound
PROPERTIES
  SessionsKept
CHECK_DEADLOCK FALSE
