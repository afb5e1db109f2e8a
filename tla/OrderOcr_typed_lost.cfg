\* One worker, one request, no faults: a value typed while a run reads the papers.
SPECIFICATION Spec
CONSTANTS
  p1 = p1
  p2 = p2
  q1 = q1
  q2 = q2
  o1 = o1
  f1 = f1
  Procs = {p1, p2}
  Layouts <- JustOne
  Orders = {o1}
  Fields = {f1}
  Requests = {q1, q2}
  ServedBy <- AllByFirst
  Empty = Empty
  Draft = Draft
  NoOne = NoOne
  Ghost = Ghost
  FaultKinds = {}
  MaxFaults = 0
PROPERTIES
  TypedKept
CHECK_DEADLOCK FALSE
