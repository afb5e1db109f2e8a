\* A worker crashes; one process.
SPECIFICATION Spec
CONSTANTS
  t1 = t1
  t2 = t2
  t3 = t3
  n1 = n1
  n2 = n2
  NoTask = NoTask
  Orphan = Orphan
  Tasks = {t1, t2}
  Nodes = {n1}
  NodeOf <- OneProcess
  Ops = {"login"}
  Excluded = {}
  FaultKinds = {"crash"}
  MaxOps = 3
  MaxFaults = 1
INVARIANTS
  StoredSessionRestored
CHECK_DEADLOCK FALSE
