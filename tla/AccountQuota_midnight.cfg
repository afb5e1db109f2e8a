\* The first day of a new period: two requests pick the account, each with the ended
\* period in its snapshot.
SPECIFICATION PartsSpec
CONSTANTS
  r1 = r1
  r2 = r2
  r3 = r3
  k1 = k1
  NoOne = NoOne
  Requests = {r1, r2, r3}
  Layouts <- JustPastMidnight
INVARIANTS
  SuccessesCounted
CHECK_DEADLOCK FALSE
