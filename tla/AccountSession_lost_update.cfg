\* A login in one process and a quote in the other.
SPECIFICATION Spec
CONSTANTS
  t1 = t1
  t2 = t2
  t3 = t3
  n1 = n1
  n2 = n2
  NoTask = NoTask
  Orphan = Orphan
  Tasks = {t1, t2}
  Nodes = {n1, n2}
  NodeOf <- TwoProcesses
  Ops = {"login", "quote"}
  Excluded = {"expired"}
  FaultKinds = {}
  MaxOps = 4
  MaxFaults = 0
PROPERTIES
  LoginNeverOverwritten
CHECK_DEADLOCK FALSE
