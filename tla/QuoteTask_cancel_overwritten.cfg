SPECIFICATION Spec
CONSTANTS
  r1 = r1
  r2 = r2
  r3 = r3
  n1 = n1
  n2 = n2
  a1 = a1
  a2 = a2
  NoOne = NoOne
  Requests = {r1, r2}
  Nodes = {n1}
  NodeOf <- OneProcess
  Kinds = {"quote", "requote", "adjust"}
  Accounts = {a1, a2}
  QuotaLimit = 2
  Isolation = "repeatable read"
  MaySlow = FALSE
  MaxTasks = 4
  MaxCrashes = 0
PROPERTIES
  CancelledNeverSucceeds
CHECK_DEADLOCK FALSE
