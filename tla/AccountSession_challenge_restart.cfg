\* The platform may restart a challenge; one process, no faults.
SPECIFICATION Spec
CONSTANTS
  t1 = t1
  t2 = t2
  t3 = t3
  n1 = n1
  n2 = n2
  NoTask = NoTask
  Orphan = Orphan
  Tasks = {t1, t2}
  Nodes = {n1}
  NodeOf <- OneProcess
  Ops = {"login", "challenge"}
  Excluded = {}
  FaultKinds = {}
  MaxOps = 5
  MaxFaults = 0
PROPERTIES
  PreservedLoginKept
CHECK_DEADLOCK FALSE
