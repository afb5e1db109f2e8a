\* An account in one process where nothing fails: logins, codes, quotes and keepalives of
\* two tasks, four operations in all.  Or the same in two processes, logins and codes.  Or
\* a second account in one process, which must end its operations whatever fault comes.
SPECIFICATION LifeSpec
CONSTANTS
  t1 = t1
  t2 = t2
  n1 = n1
  n2 = n2
  NoTask = NoTask
  Orphan = Orphan
  Tasks = {t1, t2}
  Nodes = {n1, n2}
  NodeOf <- OneProcess
  Ops = {"login", "challenge", "quote", "keepalive"}
  Excluded = {"expired", "restart"}
  FaultKinds = {}
  MaxOps = 4
  MaxFaults = 0
INVARIANTS
  NoLoginStranded
PROPERTIES
  RefinesLifecycle
  LoginNeverOverwritten
  OpsFinishHere
CHECK_DEADLOCK FALSE
