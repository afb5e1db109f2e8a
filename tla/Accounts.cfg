\* The quota of an account, three quotes that overlap within one day or follow each other
\* over three days, or its login tasks, two requests and a keepalive loop; or the quote tasks
\* that earlier versions left waiting; or three operations of its session at the platform.
SPECIFICATION PartsSpec
CONSTANTS
  r1 = r1
  r2 = r2
  r3 = r3
  k1 = k1
  NoOne = NoOne
  Requests = {r1, r2, r3}
  Layouts <- TwoLayouts
INVARIANTS
  PartsTypeOK
  UsesTrue
PROPERTIES
  TasksSound
  LoggedInIsShown
  WaitingEndsWell
  SessionSound
CHECK_DEADLOCK FALSE
