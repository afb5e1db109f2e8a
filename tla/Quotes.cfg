\* The tasks of a conversation at READ COMMITTED, its messages under
\* retries, the material of a case, the rounds of one quote at PICC, the amounts of
\* its results, the policy it renews, or the vehicle it is for.
SPECIFICATION PartsSpec
CONSTANTS
  r1 = r1
  r2 = r2
  r3 = r3
  n1 = n1
  n2 = n2
  a1 = a1
  a2 = a2
  NoOne = NoOne
  i1 = i1
  i2 = i2
  recall = recall
  quoting = quoting
  chatting = chatting
  followup = followup
  Requests = {r1, r2}
  Nodes = {n1, n2}
  NodeOf <- TwoProcesses
  Kinds = {"quote", "adjust", "requote", "status"}
  Accounts = {a1, a2}
  QuotaLimit = 1
  Isolation = "read committed"
  MaySlow = FALSE
  MaxTasks = 4
  MaxCrashes = 1
INVARIANTS
  PartsTypeOK
  RecallForgets
  RetriesAnswered
  AmountsTrue
  VehicleTrue
PROPERTIES
  CancelledNeverSucceeds
  SuccessIsCurrent
  QuotedAsAsked
  AdjustmentsKept
  RenewedAsAsked
CHECK_DEADLOCK FALSE
