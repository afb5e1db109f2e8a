\* The tasks of a conversation in one worker at REPEATABLE READ, the image of a result,
\* or its notices.
SPECIFICATION PartsSpec
CONSTANTS
  r1 = r1
  r2 = r2
  r3 = r3
  n1 = n1
  n2 = n2
  a1 = a1
  a2 = a2
  NoOne = NoOne
  Requests = {r1, r2}
  Nodes = {n1}
  NodeOf <- OneProcess
  Kinds = {"quote", "adjust", "requote", "status"}
  Accounts = {a1, a2}
  QuotaLimit = 1
  Isolation = "repeatable read"
  MaySlow = TRUE
  MaxTasks = 4
  MaxCrashes = 1
INVARIANTS
  PartsTypeOK
  UsedMatchesSuccesses
  CurrentNotCancelled
  ToldExactlyOnce
PROPERTIES
  RequestsEnd
  ImageKept
  ImageSettles
CHECK_DEADLOCK FALSE
