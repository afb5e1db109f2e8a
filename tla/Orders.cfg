\* One worker with two requests, or two workers with one; one fault of any kind but a
\* slow run.  Or the papers of the order under two uploads, or its money under two desks.
SPECIFICATION PartsSpec
CONSTANTS
  p1 = p1
  p2 = p2
  q1 = q1
  q2 = q2
  o1 = o1
  f1 = f1
  i1 = i1
  i2 = i2
  m1 = m1
  Procs = {p1, p2}
  Layouts <- Either
  Orders = {o1}
  Fields = {f1}
  Requests = {q1, q2}
  ServedBy <- AllByFirst
  Empty = Empty
  Draft = Empty
  NoOne = NoOne
  Ghost = Ghost
  FaultKinds = {"crash", "broken", "unsynced", "lock"}
  MaxFaults = 1
INVARIANTS
  PartsTypeOK
  FactFollowsData
  RunsAlone
  NewImagesScanned
  MoneyFitsTogether
PROPERTIES
  EveryTaskEnds
  BindShows
CHECK_DEADLOCK FALSE
